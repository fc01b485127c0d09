-------------------------- MODULE MonitoringReport --------------------------
(***************************************************************************)
(* get_monitoring_report: fetch the state of fazle-core's monitored        *)
(* scheduler jobs, judge each, search the log for what alerts, and compose *)
(* one report.  Nothing polls: the call is the trigger, and the jobs run,  *)
(* fail, stop and age while it is being made.  fazle-core's scheduler and  *)
(* its rows are external.  Time passes in ticks; an age is counted up to   *)
(* one tick past the job's own limit.                                      *)
(***************************************************************************)
EXTENDS Integers, Sequences, SequencesExt

CONSTANTS JobOrder,    \* MONITORED_JOBS, in order
          StaleAfter,  \* StaleAfter[j]: ticks after which j is stale
          RunOutcomes  \* how a run may leave its row: [status, error, stamp]

Jobs == {JobOrder[k] : k \in DOMAIN JobOrder}

\* stamp: last_run_at is missing, unreadable, without an offset, or with one.
Stamps == {"none", "bad", "naive", "aware"}

ASSUME JobOrderAssumption == JobOrder \in Seq(Jobs)
ASSUME StaleAfterAssumption == StaleAfter \in [Jobs -> Nat]
ASSUME RunOutcomesAssumption ==
    RunOutcomes \subseteq [status : {"ok", "error"}, error : BOOLEAN, stamp : Stamps]

VARIABLES scheduler, \* what fazle-core says of `enabled`
          row,       \* row[j]: the row of j in /scheduler/status
          report     \* the report being made, or the last one made

monitoringVars == <<scheduler, row, report>>

\* No row of that name in the answer.
NoRow == [status |-> "no row", error |-> FALSE, stamp |-> "none", age |-> 0]

States == {"ok", "alerting", "stale", "never_run"}

\* off: the scheduler was disabled; judged: the jobs' states; errors: the alerting
\* jobs with a last_error; search: how the log search for each alerting job ended.
NoReport == [step |-> "none", off |-> FALSE, judged |-> [j \in Jobs |-> "never_run"],
             errors |-> {}, search |-> [j \in Jobs |-> "not made"], status |-> "UNKNOWN",
             unexplained |-> {}]

MonitoringTypeOK ==
    /\ scheduler \in {"on", "off", "unsaid"}
    /\ \A j \in Jobs :
         row[j] = NoRow \/ /\ [f \in {"status", "error", "stamp"} |-> row[j][f]] \in RunOutcomes
                           /\ row[j].age \in 0 .. StaleAfter[j] + 1
    /\ report.step \in {"none", "fetched", "done", "raised"}
    /\ report.judged \in [Jobs -> States]
    /\ report.errors \subseteq Jobs /\ report.unexplained \subseteq Jobs
    /\ report.search \in [Jobs -> {"not made", "hit", "none", "failed"}]
    /\ report.status \in {"HEALTHY", "DEGRADED", "CRITICAL", "UNKNOWN"}

MonitoringInit ==
    /\ scheduler = "on"
    /\ row = [j \in Jobs |-> NoRow]
    /\ report = NoReport

-----------------------------------------------------------------------------
(* fazle-core and the clock. *)

\* Only an age that something is read from is counted.
Aged(j) ==
    IF row[j].stamp = "aware" /\ row[j].age <= StaleAfter[j]
    THEN [row[j] EXCEPT !.age = @ + 1] ELSE row[j]

MonitoringTick ==
    /\ row' = [j \in Jobs |-> Aged(j)]
    /\ UNCHANGED <<scheduler, report>>

JobRuns(j) ==
    /\ scheduler # "off"
    /\ \E o \in RunOutcomes :
         row' = [row EXCEPT ![j] = [status |-> o.status, error |-> o.error,
                                    stamp |-> o.stamp, age |-> 0]]
    /\ UNCHANGED <<scheduler, report>>

SwitchScheduler ==
    /\ scheduler' \in {"on", "off", "unsaid"} \ {scheduler}
    /\ UNCHANGED <<row, report>>

-----------------------------------------------------------------------------
(* The report. *)

\* Trusts last_status alone.
JobStateUnaged(r, j) ==
    IF r = NoRow THEN "never_run"
    ELSE IF r.status = "error" \/ r.error THEN "alerting"
    ELSE IF r.stamp \in {"none", "bad"} THEN "never_run"
    ELSE "ok"

\* Calls a row whose last_run_at cannot be read by a name of its own.
JobStateFifth(r, j) ==
    IF r # NoRow /\ r.status = "ok" /\ ~r.error /\ r.stamp = "bad" THEN "unknown" ELSE "ok"

\* _job_state, of a row that it does not raise on.
JobState(r, j) ==
    IF r = NoRow THEN "never_run"
    ELSE IF r.status = "error" \/ r.error THEN "alerting"
    ELSE IF r.stamp \in {"none", "bad"} THEN "never_run"
    ELSE IF r.age > StaleAfter[j] THEN "stale"
    ELSE "ok"

\* The age of a naive last_run_at: "can't subtract offset-naive and offset-aware".
JobStateRaises(r) ==
    r.status = "ok" /\ ~r.error /\ r.stamp = "naive"

Alerting(judged) == {j \in Jobs : judged[j] = "alerting"}

\* get_monitoring_status could not be had: an UNKNOWN report.
StatusUnavailable ==
    /\ report.step # "fetched"
    /\ report' = [NoReport EXCEPT !.step = "done"]
    /\ UNCHANGED <<scheduler, row>>

\* One unreadable age, and there is no report at all.
StatusRaises ==
    /\ report.step # "fetched"
    /\ \E j \in Jobs : JobStateRaises(row[j])
    /\ report' = [NoReport EXCEPT !.step = "raised"]
    /\ UNCHANGED <<scheduler, row>>

GetMonitoringStatus ==
    /\ report.step # "fetched"
    /\ ~\E j \in Jobs : JobStateRaises(row[j])
    /\ LET judged == [j \in Jobs |-> JobState(row[j], j)] IN
         report' = [NoReport EXCEPT
           !.step = "fetched", !.off = scheduler = "off", !.judged = judged,
           !.errors = {j \in Alerting(judged) : row[j].error}]
    /\ UNCHANGED <<scheduler, row>>

\* The state of the last job that is not ok.
WorstLast(off, judged) ==
    FoldLeft(LAMBDA worst, j :
               CASE judged[j] = "ok" -> worst
                 [] judged[j] = "alerting" -> "CRITICAL"
                 [] OTHER -> "DEGRADED",
             IF off THEN "CRITICAL" ELSE "HEALTHY", JobOrder)

\* `worst`, as the loop over the jobs leaves it.
Worst(off, judged) ==
    FoldLeft(LAMBDA worst, j :
               CASE judged[j] = "ok" -> worst
                 [] judged[j] = "alerting" -> "CRITICAL"
                 [] OTHER -> IF worst = "HEALTHY" THEN "DEGRADED" ELSE worst,
             IF off THEN "CRITICAL" ELSE "HEALTHY", JobOrder)

\* _gather_evidence: the last_error, and what the log search brought; a search that
\* failed ({"error": ...}) brings no matches, like one that found none.
Evidence(errors, search, j) ==
    (IF j \in errors THEN {"last_error"} ELSE {})
      \union (IF search[j] = "hit" THEN {"log"} ELSE {})

\* The log is searched for the alerting jobs, some time after the fetch; a job without
\* evidence is reported with "insufficient evidence ... no matching log lines found".
ComposeReport ==
    /\ report.step = "fetched"
    /\ LET alerting == Alerting(report.judged) IN
         \E found \in [alerting -> {"hit", "none", "failed"}] :
           LET search == [j \in Jobs |-> IF j \in alerting THEN found[j] ELSE "not made"] IN
             report' = [report EXCEPT
               !.step = "done", !.search = search,
               !.status = Worst(report.off, report.judged),
               !.unexplained = {j \in alerting : Evidence(report.errors, search, j) = {}}]
    /\ UNCHANGED <<scheduler, row>>

GetMonitoringReport ==
    StatusUnavailable \/ StatusRaises \/ GetMonitoringStatus \/ ComposeReport

MonitoringNext ==
    \/ MonitoringTick \/ SwitchScheduler \/ \E j \in Jobs : JobRuns(j)
    \/ GetMonitoringReport

\* The clock does not stop; jobs may, and nobody has to ask for reports.
MonitoringSpec ==
    MonitoringInit /\ [][MonitoringNext]_monitoringVars
      /\ WF_monitoringVars(MonitoringTick)

-----------------------------------------------------------------------------
(* Properties. *)

\* Whatever the order of the jobs, a later and milder problem never covers an earlier
\* and graver one: HEALTHY is said only of a scheduler not known to be off with all
\* jobs ok, CRITICAL of one that is off or has an alerting job, and only of those.
VerdictIsWorst ==
    report.step = "done" /\ report.status # "UNKNOWN" =>
      /\ report.status = "HEALTHY" <=>
           ~report.off /\ \A j \in Jobs : report.judged[j] = "ok"
      /\ report.status = "CRITICAL" <=>
           report.off \/ \E j \in Jobs : report.judged[j] = "alerting"

HealthyVerdict == ComposeReport /\ report'.status = "HEALTHY"

\* A job that stops without a word is noticed, though nothing of its row changes any
\* more: reports go on being HEALTHY only while every single job goes on running.
HealthyMeansRunning ==
    \A j \in Jobs :
        []<><<HealthyVerdict>>_monitoringVars => []<><<JobRuns(j)>>_monitoringVars

\* "Empty list means genuinely no evidence found."  Refuted: a log search that failed
\* or timed out is reported as "no matching log lines found".
EmptyMeansNone ==
    \A j \in report.unexplained : report.search[j] = "none"

=============================================================================
