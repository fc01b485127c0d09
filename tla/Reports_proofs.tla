--------------------------- MODULE Reports_proofs ---------------------------
(***************************************************************************)
(* Proofs about the reports: the verdict that the loop of                  *)
(* get_monitoring_report comes to, the calls of the assistant backend that *)
(* BridgeSession makes, and the operational reports of DomainReports.      *)
(***************************************************************************)
EXTENDS DomainReports, MonitoringReport, SequenceTheorems, WellFoundedInduction, TLAPS

-----------------------------------------------------------------------------
(* The loop over the jobs, in closed form. *)

\* A set of naturals has a least element, which is all the induction there is here.
LEMMA LeastNat ==
    ASSUME NEW T, T \subseteq Nat, T # {}
    PROVE \E x \in T : \A y \in T : x <= y
  <1>1. PICK R : /\ IsWellFoundedOn(R, Nat)
                 /\ R = {ss \in Nat \X Nat : ss[1] < ss[2]}
    <2>1. OpToRel(<, Nat) = {ss \in Nat \X Nat : ss[1] < ss[2]}
      BY DEF OpToRel
    <2> QED BY <2>1, NatLessThanWellFounded
  <1>2. PICK x \in T : \A y \in T : ~ (<<y, x>> \in R)
    BY <1>1, WFMin
  <1>3. \A y \in Nat : \A z \in Nat : y < z => <<y, z>> \in R
    BY <1>1
  <1>4. ASSUME NEW y \in T PROVE x <= y
    <2>1. x \in Nat /\ y \in Nat
      OBVIOUS
    <2>2. ~ (<<y, x>> \in R)
      BY <1>2
    <2>3. ~ (y < x)
      BY <1>3, <2>1, <2>2
    <2> QED BY <2>1, <2>3
  <1> QED BY <1>4

Places == DOMAIN JobOrder

\* What the loop has made of the jobs at places s.
WorstOf(off, judged, s) ==
    IF off \/ \E k \in s : judged[JobOrder[k]] = "alerting" THEN "CRITICAL"
    ELSE IF \E k \in s : judged[JobOrder[k]] # "ok" THEN "DEGRADED"
    ELSE "HEALTHY"

\* What the loop makes of the state of one job.
AfterJob(worst, state) ==
    CASE state = "ok" -> worst
      [] state = "alerting" -> "CRITICAL"
      [] OTHER -> IF worst = "HEALTHY" THEN "DEGRADED" ELSE worst

\* f[s] is the loop over the jobs at places s: the equation of the fold.
IsLoop(f, off, judged) ==
    f = [s \in SUBSET Places |->
           IF s = {} THEN (IF off THEN "CRITICAL" ELSE "HEALTHY")
           ELSE AfterJob(f[s \ {Max(s)}], judged[JobOrder[Max(s)]])]

\* Worst is a function with that equation; that there is one, and no other, is shown below.
LEMMA WorstIsLoop ==
    ASSUME NEW off, NEW judged
    PROVE  Worst(off, judged) = (CHOOSE f : IsLoop(f, off, judged))[Places]
  BY DEF Worst, FoldLeft, MapThenFoldSet, IsLoop, AfterJob, Places

\* The jobs are in a sequence.
LEMMA PlacesFacts == Places = 1 .. Len(JobOrder) /\ Len(JobOrder) \in Nat
  BY JobOrderAssumption DEF Places

\* The fold takes the last of the places away.
LEMMA LastPlace ==
    ASSUME NEW s \in SUBSET Places, s # {}
    PROVE  Max(s) \in s /\ \A k \in s : k <= Max(s)
  <1> DEFINE T == {n \in Nat : \A k \in s : k <= n}
  <1>1. T # {} /\ T \subseteq Nat
    <2>1. Len(JobOrder) \in Nat /\ \A k \in s : k <= Len(JobOrder)
      BY PlacesFacts
    <2> QED BY <2>1
  <1>2. PICK n \in T : \A m \in T : n <= m
    <2> HIDE DEF T
    <2> QED BY <1>1, LeastNat
  <1>3. n \in s
    <2> SUFFICES ASSUME n \notin s PROVE FALSE
      OBVIOUS
    <2>1. PICK k \in s : TRUE
      OBVIOUS
    <2>2. n \in Nat /\ \A j \in s : j \in Nat /\ j >= 1 /\ j <= n /\ j # n
      BY PlacesFacts
    <2>3. n - 1 \in T
      BY <2>1, <2>2
    <2> QED BY <1>2, <2>2, <2>3
  <1>4. \E x \in s : \A k \in s : x >= k
    BY <1>3, PlacesFacts
  <1>5. Max(s) \in s /\ \A k \in s : Max(s) >= k
    BY <1>4 DEF Max
  <1> QED BY <1>5, PlacesFacts

\* One job more at the end.
LEMMA WorstOfOneMore ==
    ASSUME NEW off, NEW judged, NEW s \in SUBSET Places, NEW k \in s
    PROVE  WorstOf(off, judged, s)
             = AfterJob(WorstOf(off, judged, s \ {k}), judged[JobOrder[k]])
  BY DEF WorstOf, AfterJob

\* The fold by its recursion equation is the closed form: by the least bound of the
\* places of a set on which the two differ.
LEMMA LoopComputesWorst ==
    ASSUME NEW off, NEW judged
    PROVE  Worst(off, judged) = WorstOf(off, judged, Places)
  <1>1. \E f : IsLoop(f, off, judged)
    <2> DEFINE g == [s \in SUBSET Places |-> WorstOf(off, judged, s)]
    <2>1. ASSUME NEW s \in SUBSET Places
          PROVE  g[s] = IF s = {} THEN (IF off THEN "CRITICAL" ELSE "HEALTHY")
                        ELSE AfterJob(g[s \ {Max(s)}], judged[JobOrder[Max(s)]])
      <3>1. CASE s = {}
        BY <3>1 DEF WorstOf
      <3>2. CASE s # {}
        <4>1. Max(s) \in s /\ s \ {Max(s)} \in SUBSET Places
          BY <3>2, LastPlace
        <4>2. g[s] = WorstOf(off, judged, s)
              /\ g[s \ {Max(s)}] = WorstOf(off, judged, s \ {Max(s)})
          BY <4>1
        <4> QED BY <3>2, <4>1, <4>2, WorstOfOneMore
      <3> QED BY <3>1, <3>2
    <2>2. IsLoop(g, off, judged)
      BY <2>1 DEF IsLoop
    <2> QED BY <2>2
  <1>2. ASSUME NEW f, IsLoop(f, off, judged), NEW s \in SUBSET Places
        PROVE  f[s] = WorstOf(off, judged, s)
    <2> DEFINE T == {n \in Nat : \E r \in SUBSET Places :
                        (\A k \in r : k <= n) /\ f[r] # WorstOf(off, judged, r)}
    <2> SUFFICES ASSUME f[s] # WorstOf(off, judged, s) PROVE FALSE
      OBVIOUS
    <2>1. T \subseteq Nat /\ T # {}
      <3>1. Len(JobOrder) \in Nat /\ \A k \in s : k <= Len(JobOrder)
        BY PlacesFacts
      <3> QED BY <3>1
    <2>2. PICK n \in T : \A m \in T : n <= m
      <3> HIDE DEF T
      <3> QED BY <2>1, LeastNat
    <2>3. PICK r \in SUBSET Places :
            (\A k \in r : k <= n) /\ f[r] # WorstOf(off, judged, r)
      OBVIOUS
    <2>4. f[r] = IF r = {} THEN (IF off THEN "CRITICAL" ELSE "HEALTHY")
                 ELSE AfterJob(f[r \ {Max(r)}], judged[JobOrder[Max(r)]])
      BY <1>2 DEF IsLoop
    <2>5. r # {}
      BY <2>3, <2>4 DEF WorstOf
    <2>6. Max(r) \in r /\ \A k \in r : k <= Max(r)
      BY <2>5, LastPlace
    <2>7. f[r \ {Max(r)}] # WorstOf(off, judged, r \ {Max(r)})
      BY <2>3, <2>4, <2>5, <2>6, WorstOfOneMore
    <2>8. n - 1 \in T
      <3>1. n \in Nat /\ Max(r) \in Nat /\ Max(r) >= 1 /\ Max(r) <= n
        <4>1. n \in Nat
          BY <2>2
        <4>2. Max(r) \in Places
          BY <2>6
        <4>3. Max(r) \in Nat /\ Max(r) >= 1
          BY <4>2, PlacesFacts
        <4>4. Max(r) <= n
          BY <2>3, <2>6
        <4> QED BY <4>1, <4>3, <4>4
      <3>2. \A k \in r \ {Max(r)} : k <= n - 1
        BY <2>6, <3>1, PlacesFacts
      <3>3. n - 1 \in Nat /\ r \ {Max(r)} \in SUBSET Places
        BY <3>1
      <3> QED BY <2>7, <3>2, <3>3
    <2> QED BY <2>2, <2>8
  <1> DEFINE h == CHOOSE f : IsLoop(f, off, judged)
  <1>3. IsLoop(h, off, judged)
    BY <1>1
  <1> HIDE DEF h
  <1>4. h[Places] = WorstOf(off, judged, Places)
    BY <1>2, <1>3
  <1> QED BY <1>4, WorstIsLoop DEF h

-----------------------------------------------------------------------------
(* get_monitoring_report. *)

\* A row as fazle-core keeps it.
RowSet == [status : {"ok", "error"}, error : BOOLEAN, stamp : Stamps, age : Nat]

\* MonitoringTypeOK speaks of the rows job by job; they are a function, of rows that
\* have the four fields and no others, or a step that changes a field says nothing of
\* the rest.
RowsKept == row \in [Jobs -> RowSet \union {NoRow}]

\* A verdict, when there is one, is the closed form of what was judged.
VerdictFits ==
    report.step = "done" /\ report.status # "UNKNOWN" =>
      report.status = WorstOf(report.off, report.judged, Places)

\* A report has these fields, of these kinds.
ReportSet ==
    [step : {"none", "fetched", "done", "raised"}, off : BOOLEAN, judged : [Jobs -> States],
     errors : SUBSET Jobs, search : [Jobs -> {"not made", "hit", "none", "failed"}],
     status : {"HEALTHY", "DEGRADED", "CRITICAL", "UNKNOWN"}, unexplained : SUBSET Jobs]

MonitoringInv == MonitoringTypeOK /\ RowsKept /\ report \in ReportSet /\ VerdictFits

LEMMA NoReportIsReport == NoReport \in ReportSet
  BY DEF NoReport, ReportSet, States

\* The state of a job is one of the four.
LEMMA JobStateInStates ==
    ASSUME NEW r, NEW j PROVE JobState(r, j) \in States
  BY DEF JobState, States

\* The closed form is one of the three verdicts.
LEMMA WorstOfIsVerdict ==
    ASSUME NEW off, NEW judged
    PROVE  WorstOf(off, judged, Places) \in {"HEALTHY", "DEGRADED", "CRITICAL"}
  BY DEF WorstOf

LEMMA MonitoringInitInv == MonitoringInit => MonitoringInv
  <1> SUFFICES ASSUME MonitoringInit PROVE MonitoringInv
    OBVIOUS
  <1>1. report \in ReportSet /\ VerdictFits
    BY NoReportIsReport DEF MonitoringInit, VerdictFits, NoReport
  <1>2. RowsKept
    BY DEF MonitoringInit, RowsKept
  <1>3. MonitoringTypeOK
    BY <1>1 DEF MonitoringInit, MonitoringTypeOK, ReportSet
  <1> QED BY <1>1, <1>2, <1>3 DEF MonitoringInv

\* A run leaves one of the outcomes, dated now.
LEMMA RunsKeepRows ==
    ASSUME MonitoringInv, NEW j \in Jobs, JobRuns(j)
    PROVE  MonitoringTypeOK' /\ RowsKept'
  <1>1. PICK o \in RunOutcomes :
          row' = [row EXCEPT ![j] = [status |-> o.status, error |-> o.error,
                                     stamp |-> o.stamp, age |-> 0]]
    BY DEF JobRuns
  <1> DEFINE new == [status |-> o.status, error |-> o.error, stamp |-> o.stamp, age |-> 0]
  <1>2. o \in [status : {"ok", "error"}, error : BOOLEAN, stamp : Stamps]
    BY RunOutcomesAssumption
  <1>3. new \in RowSet
    BY <1>2 DEF RowSet
  <1>4. [f \in {"status", "error", "stamp"} |-> new[f]] = o
    BY <1>2
  <1>5. new.age \in 0 .. StaleAfter[j] + 1
    BY StaleAfterAssumption
  <1> HIDE DEF new
  <1>6. row' = [row EXCEPT ![j] = new]
    BY <1>1 DEF new
  <1>7. RowsKept'
    BY <1>3, <1>6 DEF MonitoringInv, RowsKept
  <1>8. \A i \in Jobs : row'[i] = IF i = j THEN new ELSE row[i]
    BY <1>6 DEF MonitoringInv, RowsKept
  <1>9. ASSUME NEW i \in Jobs
        PROVE  \/ row'[i] = NoRow
               \/ /\ [f \in {"status", "error", "stamp"} |-> row'[i][f]] \in RunOutcomes
                  /\ row'[i].age \in 0 .. StaleAfter[i] + 1
    <2>1. CASE i = j
      BY <1>4, <1>5, <1>8, <2>1
    <2>2. CASE i # j
      BY <1>8, <2>2 DEF MonitoringInv, MonitoringTypeOK
    <2> QED BY <2>1, <2>2
  <1>10. UNCHANGED <<scheduler, report>>
    BY DEF JobRuns
  <1> QED BY <1>7, <1>9, <1>10 DEF MonitoringInv, MonitoringTypeOK

\* A tick ages what an age is read from, up to one tick past the job's limit.
LEMMA TickKeepsRows ==
    ASSUME MonitoringInv, MonitoringTick
    PROVE  MonitoringTypeOK' /\ RowsKept'
  <1>1. ASSUME NEW j \in Jobs
        PROVE  /\ row'[j] \in RowSet \union {NoRow}
               /\ \/ row'[j] = NoRow
                  \/ /\ [f \in {"status", "error", "stamp"} |-> row'[j][f]] \in RunOutcomes
                     /\ row'[j].age \in 0 .. StaleAfter[j] + 1
    <2>1. row'[j] = Aged(j)
      BY DEF MonitoringTick
    <2>2. CASE row[j].stamp = "aware" /\ row[j].age <= StaleAfter[j]
      <3> DEFINE new == [row[j] EXCEPT !.age = @ + 1]
      <3>1. row[j] # NoRow
        <4>1. NoRow.stamp = "none"
          BY DEF NoRow
        <4>2. row[j].stamp = "aware"
          BY <2>2
        <4> QED BY <4>1, <4>2
      <3>2. row[j] \in RowSet
        BY <3>1 DEF MonitoringInv, RowsKept
      <3>3. /\ new.status = row[j].status /\ new.error = row[j].error
            /\ new.stamp = row[j].stamp /\ new.age = row[j].age + 1 /\ new \in RowSet
        BY <3>2 DEF RowSet
      <3>4. [f \in {"status", "error", "stamp"} |-> new[f]]
              = [f \in {"status", "error", "stamp"} |-> row[j][f]]
        BY <3>3
      <3>5. [f \in {"status", "error", "stamp"} |-> row[j][f]] \in RunOutcomes
        BY <3>1 DEF MonitoringInv, MonitoringTypeOK
      <3>6. new.age \in 0 .. StaleAfter[j] + 1
        BY <2>2, <3>2, <3>3, StaleAfterAssumption DEF RowSet
      <3>7. row'[j] = new
        BY <2>1, <2>2 DEF Aged
      <3> QED BY <3>3, <3>4, <3>5, <3>6, <3>7
    <2>3. CASE ~(row[j].stamp = "aware" /\ row[j].age <= StaleAfter[j])
      <3>1. row'[j] = row[j]
        BY <2>1, <2>3 DEF Aged
      <3> QED BY <3>1 DEF MonitoringInv, MonitoringTypeOK, RowsKept
    <2> QED BY <2>2, <2>3
  <1>2. UNCHANGED <<scheduler, report>>
    BY DEF MonitoringTick
  <1>3. RowsKept'
    BY <1>1 DEF MonitoringTick, RowsKept
  <1> QED BY <1>1, <1>2, <1>3 DEF MonitoringInv, MonitoringTypeOK

\* A report is made of parts of these kinds, and its verdict by the loop.
LEMMA ReportIsMade ==
    ASSUME MonitoringInv, GetMonitoringReport
    PROVE  report' \in ReportSet /\ VerdictFits'
  <1>1. CASE StatusUnavailable
    BY <1>1, NoReportIsReport DEF StatusUnavailable, ReportSet, VerdictFits, NoReport
  <1>2. CASE StatusRaises
    BY <1>2, NoReportIsReport DEF StatusRaises, ReportSet, VerdictFits, NoReport
  <1>3. CASE GetMonitoringStatus
    <2> DEFINE judged == [j \in Jobs |-> JobState(row[j], j)]
               errors == {j \in Alerting(judged) : row[j].error}
    <2>1. judged \in [Jobs -> States]
      BY JobStateInStates
    <2>2. errors \in SUBSET Jobs
      BY DEF Alerting
    <2>3. report' = [NoReport EXCEPT !.step = "fetched", !.off = scheduler = "off",
                                     !.judged = judged, !.errors = errors]
      BY <1>3 DEF GetMonitoringStatus
    <2>4. (scheduler = "off") \in BOOLEAN
      OBVIOUS
    <2> HIDE DEF judged, errors
    <2> QED BY <2>1, <2>2, <2>3, <2>4, NoReportIsReport DEF ReportSet, VerdictFits
  <1>4. CASE ComposeReport
    <2> DEFINE alerting == Alerting(report.judged)
               worst == Worst(report.off, report.judged)
    <2>1. PICK found \in [alerting -> {"hit", "none", "failed"}] :
            report' = [report EXCEPT
              !.step = "done",
              !.search = [j \in Jobs |-> IF j \in alerting THEN found[j] ELSE "not made"],
              !.status = worst,
              !.unexplained = {j \in alerting :
                 Evidence(report.errors,
                          [i \in Jobs |-> IF i \in alerting THEN found[i] ELSE "not made"], j) = {}}]
      BY <1>4 DEF ComposeReport
    <2> DEFINE search == [j \in Jobs |-> IF j \in alerting THEN found[j] ELSE "not made"]
               unexplained == {j \in alerting : Evidence(report.errors, search, j) = {}}
    <2>2. search \in [Jobs -> {"not made", "hit", "none", "failed"}]
      OBVIOUS
    <2>3. unexplained \in SUBSET Jobs
      BY DEF Alerting
    <2>4. worst = WorstOf(report.off, report.judged, Places)
      BY LoopComputesWorst
    <2>5. worst \in {"HEALTHY", "DEGRADED", "CRITICAL"}
      BY <2>4, WorstOfIsVerdict
    <2>6. report' = [report EXCEPT !.step = "done", !.search = search, !.status = worst,
                                   !.unexplained = unexplained]
      BY <2>1
    <2>7. report \in ReportSet
      BY DEF MonitoringInv
    <2> HIDE DEF search, unexplained, worst
    <2>8. report' \in ReportSet
      BY <2>2, <2>3, <2>5, <2>6, <2>7 DEF ReportSet
    <2>9. report'.off = report.off /\ report'.judged = report.judged /\ report'.status = worst
      BY <2>6, <2>7 DEF ReportSet
    <2> QED BY <2>4, <2>8, <2>9 DEF VerdictFits, Places
  <1> QED BY <1>1, <1>2, <1>3, <1>4 DEF GetMonitoringReport

LEMMA MonitoringNextInv == MonitoringInv /\ [MonitoringNext]_monitoringVars => MonitoringInv'
  <1> SUFFICES ASSUME MonitoringInv, [MonitoringNext]_monitoringVars PROVE MonitoringInv'
    OBVIOUS
  <1>1. CASE MonitoringTick
    <2>1. UNCHANGED report
      BY <1>1 DEF MonitoringTick
    <2> QED BY <1>1, <2>1, TickKeepsRows DEF MonitoringInv, VerdictFits, Places
  <1>2. CASE SwitchScheduler
    BY <1>2 DEF SwitchScheduler, MonitoringInv, MonitoringTypeOK, RowsKept, VerdictFits, Places
  <1>3. CASE \E j \in Jobs : JobRuns(j)
    <2>1. UNCHANGED report
      BY <1>3 DEF JobRuns
    <2> QED BY <1>3, <2>1, RunsKeepRows DEF MonitoringInv, VerdictFits, Places
  <1>4. CASE GetMonitoringReport
    <2>1. UNCHANGED <<scheduler, row>>
      BY <1>4 DEF GetMonitoringReport, StatusUnavailable, StatusRaises, GetMonitoringStatus,
                  ComposeReport
    <2>2. report' \in ReportSet /\ VerdictFits'
      BY <1>4, ReportIsMade
    <2>3. MonitoringTypeOK' /\ RowsKept'
      BY <2>1, <2>2 DEF MonitoringInv, MonitoringTypeOK, RowsKept, ReportSet
    <2> QED BY <2>2, <2>3 DEF MonitoringInv
  <1>5. CASE UNCHANGED monitoringVars
    BY <1>5 DEF monitoringVars, MonitoringInv, MonitoringTypeOK, RowsKept, VerdictFits, Places
  <1> QED BY <1>1, <1>2, <1>3, <1>4, <1>5 DEF MonitoringNext

\* Whatever the jobs do and however the report is made, its parts and the rows are of
\* the declared kinds.
THEOREM MonitoringTypeCorrect == MonitoringSpec => []MonitoringTypeOK
  <1>1. MonitoringInv => MonitoringTypeOK
    BY DEF MonitoringInv
  <1> QED BY <1>1, MonitoringInitInv, MonitoringNextInv, PTL DEF MonitoringSpec

\* HEALTHY is said of a scheduler not known to be off with all jobs ok, CRITICAL of one
\* that is off or has an alerting job, and only of those: for any number of jobs in any
\* order, `worst` of get_monitoring_report never loses a graver problem to a milder one.
THEOREM VerdictsAreWorst == MonitoringSpec => []VerdictIsWorst
  <1>1. MonitoringInv => VerdictIsWorst
    <2> SUFFICES ASSUME MonitoringInv, report.step = "done", report.status # "UNKNOWN"
                 PROVE  VerdictIsWorst
      BY DEF VerdictIsWorst
    <2>1. report.status = WorstOf(report.off, report.judged, Places)
      BY DEF MonitoringInv, VerdictFits
    <2>2. ASSUME NEW j \in Jobs PROVE \E k \in Places : j = JobOrder[k]
      BY DEF Jobs, Places
    <2>3. ASSUME NEW k \in Places PROVE JobOrder[k] \in Jobs
      BY DEF Jobs, Places
    <2>4. (\E k \in Places : report.judged[JobOrder[k]] = "alerting")
            <=> \E j \in Jobs : report.judged[j] = "alerting"
      BY <2>2, <2>3
    <2>5. (\E k \in Places : report.judged[JobOrder[k]] # "ok")
            <=> ~ \A j \in Jobs : report.judged[j] = "ok"
      BY <2>2, <2>3
    <2>6. report.judged \in [Jobs -> States]
      BY DEF MonitoringInv, MonitoringTypeOK
    <2> QED BY <2>1, <2>4, <2>5 DEF WorstOf, VerdictIsWorst
  <1> QED BY <1>1, MonitoringInitInv, MonitoringNextInv, PTL DEF MonitoringSpec


-----------------------------------------------------------------------------
(* get() of the assistant bridge. *)

\* The requests a call has made, by where it is; a call that starts over has no token
\* any more, so that its second GET cannot be made without a login of its own.
Counted ==
    /\ step = "token" => logins = 0 /\ gets = 0
    /\ step = "get" => logins <= 1 /\ gets = 0
    /\ step = "token_again" => logins <= 1 /\ gets = 1 /\ token = "none"
    /\ step = "get_again" => logins \in 1 .. 2 /\ gets = 1
    /\ step = "idle" => RetriesOnce

\* A call that nothing has upset has the backend up, and by the second GET a session
\* that lives.
Untroubled ==
    ~upset /\ Active => up /\ (step = "get_again" => held = "live")

\* TypeOK in two parts, for the provers: the flags, and the rest.
Flags == up \in BOOLEAN /\ cached \in BOOLEAN /\ upset \in BOOLEAN
Kinds ==
    /\ token \in Tokens /\ step \in Steps /\ held \in Tokens
    /\ logins \in 0 .. 2 /\ gets \in 0 .. 2
    /\ outcome \in Outcomes

SessionInv == Flags /\ Kinds /\ Counted /\ Untroubled

LEMMA SessionInitInv == Init => SessionInv
  <1>1. Init => Flags
    BY Zenon DEF Init, Flags
  <1>2. Init => Kinds
    BY DEF Init, Kinds, Tokens, Steps, Outcomes
  <1>3. Init => Counted
    BY DEF Init, Counted, RetriesOnce
  <1>4. Init => Untroubled
    BY DEF Init, Untroubled, Active
  <1> QED BY <1>1, <1>2, <1>3, <1>4 DEF SessionInv

\* The flags are set to flags, by every step.
LEMMA FlagsStayFlags == Flags /\ [Next]_vars => Flags'
  <1> SUFFICES ASSUME Flags, [Next]_vars PROVE Flags'
    OBVIOUS
  <1> USE DEF Flags, client
  <1>1. CASE GoDownOrUp
    BY Zenon, <1>1 DEF GoDownOrUp
  <1>2. CASE EndSession
    BY Zenon, <1>2 DEF EndSession
  <1>3. CASE CacheLapses
    BY Zenon, <1>3 DEF CacheLapses
  <1>4. CASE Call
    BY Zenon, <1>4 DEF Call
  <1>5. CASE GetToken
    BY Zenon, <1>5 DEF GetToken
  <1>6. CASE FirstGet
    BY Zenon, <1>6 DEF FirstGet
  <1>7. CASE Unauthorized
    BY Zenon, <1>7 DEF Unauthorized
  <1>8. CASE SecondGet
    BY Zenon, <1>8 DEF SecondGet
  <1>9. CASE UNCHANGED vars
    BY Zenon, <1>9 DEF vars
  <1> QED BY Zenon, <1>1, <1>2, <1>3, <1>4, <1>5, <1>6, <1>7, <1>8, <1>9 DEF Next, Advance

\* The backend and the clock move nothing of the call.
LEMMA WorldKeepsSession ==
    ASSUME Kinds, Counted, GoDownOrUp \/ EndSession \/ CacheLapses
    PROVE  Kinds' /\ Counted'
  <1>1. /\ step' = step /\ logins' = logins /\ gets' = gets /\ outcome' = outcome
        /\ held' \in {held, "over"}
        /\ token' = token \/ (token = "live" /\ token' = "over")
    BY Zenon DEF GoDownOrUp, EndSession, CacheLapses, client
  <1> QED BY <1>1 DEF Kinds, Counted, RetriesOnce, Tokens

LEMMA CallKeepsSession ==
    ASSUME Kinds, Counted, Call
    PROVE  Kinds' /\ Counted'
  <1>1. /\ step' = "token" /\ logins' = 0 /\ gets' = 0
        /\ token' = token /\ held' = held /\ outcome' = outcome
    BY Zenon DEF Call
  <1> QED BY <1>1 DEF Kinds, Counted, Tokens, Steps, Outcomes

\* Every step of the call counts what it asks for.
LEMMA AdvanceKeepsSession ==
    ASSUME Kinds, Counted, Advance
    PROVE  Kinds' /\ Counted'
  <1> USE DEF Kinds, Counted, RetriesOnce, Tokens, Steps, Outcomes
  <1>1. CASE GetToken
    <2>1. gets' = gets /\ step \in {"token", "token_again"}
      BY Zenon, <1>1 DEF GetToken
    <2>2. CASE Usable
      <3>1. /\ token # "none" /\ held' = token /\ token' = token
            /\ step' = Sending /\ logins' = logins /\ outcome' = outcome
        BY Zenon, <1>1, <2>2 DEF GetToken, Usable
      <3> QED BY <2>1, <3>1 DEF Sending
    <2>3. CASE ~Usable /\ up
      <3>1. /\ token' = "live" /\ held' = "live"
            /\ step' = Sending /\ logins' = logins + 1 /\ outcome' = outcome
        BY Zenon, <1>1, <2>3 DEF GetToken
      <3> QED BY <2>1, <3>1 DEF Sending
    <2>4. CASE ~Usable /\ ~up
      <3>1. /\ step' = "idle" /\ outcome' = "raised" /\ held' = "none"
            /\ logins' = logins + 1 /\ token' = token
        BY Zenon, <1>1, <2>4 DEF GetToken, End
      <3> QED BY <2>1, <3>1
    <2> QED BY Zenon, <2>2, <2>3, <2>4
  <1>2. CASE FirstGet
    <2>1. /\ step = "get" /\ step' = "idle" /\ gets' = gets + 1 /\ logins' = logins
          /\ token' = token /\ held' = "none" /\ outcome' \in {"data", "error", "garbled"}
      BY Zenon, <1>2 DEF FirstGet, End
    <2> QED BY <2>1
  <1>3. CASE Unauthorized
    <2>1. /\ step = "get" /\ step' = "token_again" /\ gets' = gets + 1 /\ logins' = logins
          /\ token' = "none" /\ held' = held /\ outcome' = outcome
      BY Zenon, <1>3 DEF Unauthorized
    <2> QED BY <2>1
  <1>4. CASE SecondGet
    <2>1. /\ step = "get_again" /\ step' = "idle" /\ gets' = gets + 1 /\ logins' = logins
          /\ token' = token /\ held' = "none"
          /\ outcome' \in {"data", "error", "garbled", "raised", "unauthorized"}
      BY Zenon, <1>4 DEF SecondGet, End
    <2> QED BY <2>1
  <1> QED BY Zenon, <1>1, <1>2, <1>3, <1>4 DEF Advance

\* What the backend does to a call upsets it; the second GET of one that is not upset
\* is made with the session that the login before it began.
LEMMA UntroubledStays ==
    ASSUME Counted, Untroubled, [Next]_vars
    PROVE  Untroubled'
  <1> USE DEF Untroubled, Active, client
  <1>1. CASE GoDownOrUp
    BY Zenon, <1>1 DEF GoDownOrUp
  <1>2. CASE EndSession
    BY Zenon, <1>2 DEF EndSession
  <1>3. CASE CacheLapses
    BY Zenon, <1>3 DEF CacheLapses
  <1>4. CASE Call
    <2>1. step' = "token" /\ upset' = ~up /\ up' = up
      BY Zenon, <1>4 DEF Call
    <2> QED BY <2>1
  <1>5. CASE GetToken
    <2>1. up' = up /\ upset' = upset /\ step \in {"token", "token_again"}
      BY Zenon, <1>5 DEF GetToken
    <2>2. step = "token_again" => ~Usable
      BY DEF Counted, Usable
    <2>3. step = "token_again" => held' = "live" \/ step' = "idle"
      BY Zenon, <1>5, <2>2 DEF GetToken, End
    <2>4. step = "token" => step' \in {"get", "idle"}
      BY Zenon, <1>5 DEF GetToken, Sending, End
    <2> QED BY <2>1, <2>3, <2>4
  <1>6. CASE FirstGet
    BY Zenon, <1>6 DEF FirstGet, End
  <1>7. CASE Unauthorized
    <2>1. step = "get" /\ step' = "token_again" /\ up' = up /\ upset' = upset
      BY Zenon, <1>7 DEF Unauthorized
    <2> QED BY <2>1
  <1>8. CASE SecondGet
    BY Zenon, <1>8 DEF SecondGet, End
  <1>9. CASE UNCHANGED vars
    BY Zenon, <1>9 DEF vars
  <1> QED BY Zenon, <1>1, <1>2, <1>3, <1>4, <1>5, <1>6, <1>7, <1>8, <1>9 DEF Next, Advance

LEMMA SessionNextInv == SessionInv /\ [Next]_vars => SessionInv'
  <1> SUFFICES ASSUME SessionInv, [Next]_vars PROVE SessionInv'
    OBVIOUS
  <1>1. Flags' /\ Untroubled'
    BY FlagsStayFlags, UntroubledStays DEF SessionInv
  <1>2. Kinds' /\ Counted'
    <2>1. CASE UNCHANGED vars
      BY Zenon, <2>1 DEF vars, SessionInv, Kinds, Counted, RetriesOnce
    <2> QED BY <2>1, WorldKeepsSession, CallKeepsSession, AdvanceKeepsSession
            DEF Next, SessionInv
  <1> QED BY <1>1, <1>2 DEF SessionInv

\* A call that ends and was not upset has its data: the step by which it ends is the
\* answer to a GET sent with a live session.
LEMMA UntroubledEndsWithData ==
    ASSUME SessionInv, [Next]_vars, Active, step' = "idle", ~upset'
    PROVE  outcome' = "data"
  <1> USE DEF SessionInv, Untroubled, Active
  <1>1. CASE GetToken
    <2>1. ~upset
      BY Zenon, <1>1 DEF GetToken
    <2>2. ~(~Usable /\ ~up)
      BY Zenon, <2>1
    <2>3. step' = Sending
      BY Zenon, <1>1, <2>2 DEF GetToken
    <2> QED BY <2>3 DEF Sending
  <1>2. CASE FirstGet
    BY Zenon, <1>2 DEF FirstGet, End
  <1>3. CASE Unauthorized
    <2>1. step' = "token_again"
      BY Zenon, <1>3 DEF Unauthorized
    <2> QED BY <2>1
  <1>4. CASE SecondGet
    <2>1. ~upset /\ step = "get_again"
      BY SMT, <1>4 DEF SecondGet
    <2>2. up /\ held = "live"
      BY Zenon, <2>1
    <2>3. held # "over"
      BY <2>2
    <2> QED BY Zenon, <1>4, <2>2, <2>3 DEF SecondGet, End
  <1>5. CASE Call
    <2>1. step' = "token"
      BY Zenon, <1>5 DEF Call
    <2> QED BY <2>1
  <1>6. CASE GoDownOrUp \/ EndSession \/ CacheLapses \/ UNCHANGED vars
    BY Zenon, <1>6 DEF GoDownOrUp, EndSession, CacheLapses, client, vars
  <1> QED BY Zenon, <1>1, <1>2, <1>3, <1>4, <1>5, <1>6 DEF Next, Advance

\* The session's variables stay of their kinds, through every call.
THEOREM SessionTypeCorrect == Spec => []TypeOK
  <1>1. SessionInv => TypeOK
    BY Zenon DEF SessionInv, Flags, Kinds, TypeOK
  <1> QED BY <1>1, SessionInitInv, SessionNextInv, PTL DEF Spec

LEMMA SessionInvGives == SessionInv => RetriesOnce
  BY DEF SessionInv, Kinds, Steps, Counted, RetriesOnce

\* However the backend behaves, get() makes two logins and two GETs at most, a second
\* login only after a 401, and a second GET only with a login.
THEOREM CallsRetryOnce == Spec => []RetriesOnce
  BY SessionInvGives, SessionInitInv, SessionNextInv, PTL DEF Spec

\* A token that the backend no longer honours costs the caller nothing: unless the
\* backend failed during the call, get() ends with the data.
THEOREM DeadSessionsHeal == Spec => StaleTokenHeals
  <1>1. SessionInv /\ [Next]_vars => [Active /\ step' = "idle" /\ ~upset' => outcome' = "data"]_vars
    BY UntroubledEndsWithData
  <1> QED BY <1>1, SessionInitInv, SessionNextInv, PTL DEF Spec, StaleTokenHeals

-----------------------------------------------------------------------------
(* The operational reports, which make their calls through the session. *)

\* A report uses the session as the session allows, and what is no report's step is the
\* backend's own or the clock's.
LEMMA ReportsStepSession == [ReportsNext]_reportsVars => [Next]_vars
  <1> SUFFICES ASSUME [ReportsNext]_reportsVars PROVE [Next]_vars
    OBVIOUS
  <1>1. CASE CoreReportsNext
    BY Zenon, <1>1 DEF CoreReportsNext
  <1>2. CASE AskBackendReport
    BY Zenon, <1>2 DEF AskBackendReport, Next
  <1>3. CASE BackendCall
    BY Zenon, <1>3 DEF BackendCall, Next
  <1>4. CASE ComposeBackendReport
    BY Zenon, <1>4 DEF ComposeBackendReport
  <1>5. CASE BackendReportsNext /\ ~AskBackendReport /\ ~BackendCall /\ ~ComposeBackendReport
    BY Zenon, <1>5 DEF BackendReportsNext, Next
  <1>6. CASE UNCHANGED reportsVars
    BY Zenon, <1>6 DEF reportsVars
  <1> QED BY Zenon, <1>1, <1>2, <1>3, <1>4, <1>5, <1>6 DEF ReportsNext

\* The reports compose with the session: every behaviour of the reports is one that the
\* session's specification allows, but for its fairness.
THEOREM ReportsUseTheSession == ReportsSpec => Init /\ [][Next]_vars
  <1>1. ReportsInit => Init
    BY DEF ReportsInit
  <1> QED BY <1>1, ReportsStepSession, PTL DEF ReportsSpec

\* So the calls that the reports make retry once at most, and heal.
THEOREM ReportsRetryOnce == ReportsSpec => []RetriesOnce /\ StaleTokenHeals
  <1>1. SessionInv /\ [Next]_vars => [Active /\ step' = "idle" /\ ~upset' => outcome' = "data"]_vars
    BY UntroubledEndsWithData
  <1> QED BY <1>1, ReportsUseTheSession, SessionInitInv, SessionNextInv, SessionInvGives, PTL
          DEF StaleTokenHeals

\* The source s has been read: it failed, or what it tells and has been so all along
\* was in its answer.
Told(s) == s \in failed \/ always \intersect FactsOf(s) \subseteq seen

\* How far each report on fazle-core has come, and what it has been told by then.  The
\* samples of the social report tell nothing, so that giving them up loses nothing.
Progress ==
    /\ asked = "whatsapp" =>
         \/ todo = <<"stats", "dlq">>
         \/ todo = <<"dlq">> /\ Told("stats")
         \/ todo = <<>> /\ Told("stats") /\ Told("dlq")
    /\ asked = "bridges" =>
         todo = <<"diagnostics">> \/ (todo = <<>> /\ Told("diagnostics"))
    /\ asked = "system" =>
         todo = <<"health">> \/ (todo = <<>> /\ Told("health"))
    /\ asked = "social" =>
         \/ todo = <<"social", "queue", "flagged">>
         \/ todo \in {<<"queue", "flagged">>, <<"flagged">>, <<>>} /\ Told("social")
    /\ asked \notin {"whatsapp", "bridges", "system", "social"} => todo = <<>>

\* What was so at every instant is so now, what is so now was so at some instant, and
\* nothing was read that was not so when it was read.
Witnessed ==
    /\ always \subseteq facts /\ facts \subseteq ever /\ seen \subseteq ever
    /\ ever \subseteq Facts(asked)

\* The rows of a call that brought data show all that was so all along.
RowsTell ==
    asked \in BackendKinds /\ ~Active /\ outcome = "data" => always \subseteq seen

Sources == {"stats", "dlq", "diagnostics", "health", "social", "queue", "flagged"}

AskedKinds ==
    {"whatsapp", "bridges", "system", "social", "recruitment", "escort", "payroll", "none"}

ReportsInv ==
    asked \in AskedKinds /\ failed \subseteq Sources /\ Witnessed /\ Progress /\ RowsTell

LEMMA CoreKindsAre == CoreKinds = {"whatsapp", "bridges", "system", "social"}
  BY DEF CoreKinds, Reads

LEMMA ReadsAre ==
    /\ Reads["whatsapp"] = <<"stats", "dlq">>
    /\ Reads["bridges"] = <<"diagnostics">>
    /\ Reads["system"] = <<"health">>
    /\ Reads["social"] = <<"social", "queue", "flagged">>
  BY DEF Reads

\* What can be wrong, by kind.
LEMMA FactsAre ==
    /\ Facts("whatsapp") = FactsOf("stats") \union FactsOf("dlq")
    /\ Facts("bridges") = FactsOf("diagnostics")
    /\ Facts("system") = FactsOf("health")
    /\ Facts("social") = FactsOf("social")
    /\ Facts("escort") = FactsOf("escort")
    /\ Facts("recruitment") = {} /\ Facts("payroll") = {} /\ Facts("none") = {}
  <1>1. /\ FactsOf("queue") = {} /\ FactsOf("flagged") = {}
        /\ FactsOf("recruitment") = {} /\ FactsOf("payroll") = {} /\ FactsOf("none") = {}
    BY DEF FactsOf
  <1>2. \A kind \in {"escort", "recruitment", "payroll", "none"} : Facts(kind) = FactsOf(kind)
    BY CoreKindsAre DEF Facts
  <1>3. \A kind \in CoreKinds :
          Facts(kind) = UNION {FactsOf(Reads[kind][k]) : k \in DOMAIN Reads[kind]}
    BY DEF Facts
  <1>4. /\ DOMAIN Reads["whatsapp"] = {1, 2} /\ DOMAIN Reads["bridges"] = {1}
        /\ DOMAIN Reads["system"] = {1} /\ DOMAIN Reads["social"] = {1, 2, 3}
    BY ReadsAre
  <1>5. Facts("whatsapp") = FactsOf("stats") \union FactsOf("dlq")
    <2>1. Reads["whatsapp"][1] = "stats" /\ Reads["whatsapp"][2] = "dlq"
      BY ReadsAre
    <2> QED BY <1>3, <1>4, <2>1, CoreKindsAre
  <1>6. Facts("bridges") = FactsOf("diagnostics")
    <2>1. Reads["bridges"][1] = "diagnostics"
      BY ReadsAre
    <2>2. {FactsOf(Reads["bridges"][k]) : k \in DOMAIN Reads["bridges"]} = {FactsOf("diagnostics")}
      BY <1>4, <2>1
    <2> QED BY <1>3, <2>2, CoreKindsAre
  <1>7. Facts("system") = FactsOf("health")
    <2>1. Reads["system"][1] = "health"
      BY ReadsAre
    <2>2. {FactsOf(Reads["system"][k]) : k \in DOMAIN Reads["system"]} = {FactsOf("health")}
      BY <1>4, <2>1
    <2> QED BY <1>3, <2>2, CoreKindsAre
  <1>8. Facts("social") = FactsOf("social")
    <2>1. /\ Reads["social"][1] = "social" /\ Reads["social"][2] = "queue"
          /\ Reads["social"][3] = "flagged"
      BY ReadsAre
    <2>2. {FactsOf(Reads["social"][k]) : k \in DOMAIN Reads["social"]} = {FactsOf("social"), {}}
      BY <1>1, <1>4, <2>1
    <2>3. UNION {FactsOf("social"), {}} = FactsOf("social")
      OBVIOUS
    <2> QED BY <1>3, <2>2, <2>3, CoreKindsAre
  <1> QED BY <1>1, <1>2, <1>5, <1>6, <1>7, <1>8

LEMMA ReportsInitInv == ReportsInit => ReportsInv
  BY FactsAre DEF ReportsInit, ReportsInv, AskedKinds, Witnessed, Progress, RowsTell, BackendKinds

\* What has been told stays told: nothing becomes so all along again, and no answer is
\* forgotten while the report is made.
LEMMA ToldStays ==
    ASSUME NEW s, Told(s), always' \subseteq always, seen \subseteq seen',
           failed \subseteq failed'
    PROVE  Told(s)'
  BY DEF Told

\* The world moves on under the report.
LEMMA FactsKeepInv ==
    ASSUME ReportsInv, FactComesOrGoes, UNCHANGED <<step, outcome>>
    PROVE  ReportsInv'
  <1>1. PICK f \in Facts(asked) : facts' = IF f \in facts THEN facts \ {f} ELSE facts \union {f}
    BY DEF FactComesOrGoes
  <1>2. /\ ever' = ever \union facts' /\ always' = always \intersect facts'
        /\ asked' = asked /\ todo' = todo /\ seen' = seen /\ failed' = failed
    BY DEF FactComesOrGoes, reading
  <1>3. facts' \subseteq Facts(asked)
    BY <1>1 DEF ReportsInv, Witnessed
  <1>4. Witnessed'
    BY <1>2, <1>3 DEF ReportsInv, Witnessed
  <1>5. \A s : Told(s) => Told(s)'
    BY <1>2 DEF Told
  <1>6. Progress'
    BY <1>2, <1>5 DEF ReportsInv, Progress
  <1>7. RowsTell'
    BY <1>2 DEF ReportsInv, RowsTell, Active
  <1> QED BY <1>2, <1>4, <1>6, <1>7 DEF ReportsInv

\* A report is asked for; nothing has been read.
LEMMA AskKeepsInv ==
    ASSUME NEW kind, NEW sources, Ask(kind, sources),
           \/ kind \in CoreKinds /\ sources = Reads[kind]
           \/ kind \in BackendKinds /\ sources = <<>> /\ Call
    PROVE  ReportsInv'
  <1>1. PICK now \in SUBSET Facts(kind) : facts' = now /\ ever' = now /\ always' = now
    BY DEF Ask
  <1>2. asked' = kind /\ todo' = sources /\ seen' = {} /\ failed' = {}
    BY DEF Ask
  <1>3. asked' \in AskedKinds /\ failed' \subseteq Sources
    BY <1>2, CoreKindsAre DEF AskedKinds, BackendKinds
  <1>4. Witnessed'
    BY <1>1, <1>2 DEF Witnessed
  <1>5. Progress'
    BY <1>2, ReadsAre, CoreKindsAre DEF Progress, BackendKinds
  <1>6. RowsTell'
    <2>1. CASE kind \in CoreKinds
      BY <1>2, <2>1, CoreKindsAre DEF RowsTell, BackendKinds
    <2>2. CASE Call
      <3>1. step' = "token"
        BY <2>2 DEF Call
      <3> QED BY <3>1 DEF RowsTell, Active
    <2> QED BY <2>1, <2>2
  <1> QED BY <1>3, <1>4, <1>5, <1>6 DEF ReportsInv

\* The report has been made, and everything is as before it was asked for.
LEMMA AnswerKeepsInv ==
    ASSUME NEW status, NEW problems, Answer(status, problems)
    PROVE  ReportsInv'
  <1>1. /\ asked' = "none" /\ facts' = {} /\ ever' = {} /\ always' = {}
        /\ todo' = <<>> /\ seen' = {} /\ failed' = {}
    BY DEF Answer
  <1> QED BY <1>1 DEF ReportsInv, AskedKinds, Witnessed, Progress, RowsTell, BackendKinds, Sources

\* One source is read.  Head and Tail of what is still to be read, by kind.
LEMMA HeadsAndTails ==
    /\ Head(<<"stats", "dlq">>) = "stats" /\ Tail(<<"stats", "dlq">>) = <<"dlq">>
    /\ Head(<<"dlq">>) = "dlq" /\ Tail(<<"dlq">>) = <<>>
    /\ Head(<<"diagnostics">>) = "diagnostics" /\ Tail(<<"diagnostics">>) = <<>>
    /\ Head(<<"health">>) = "health" /\ Tail(<<"health">>) = <<>>
    /\ Head(<<"social", "queue", "flagged">>) = "social"
    /\ Tail(<<"social", "queue", "flagged">>) = <<"queue", "flagged">>
    /\ Head(<<"queue", "flagged">>) = "queue" /\ Tail(<<"queue", "flagged">>) = <<"flagged">>
    /\ Head(<<"flagged">>) = "flagged" /\ Tail(<<"flagged">>) = <<>>
  OBVIOUS

LEMMA ReadKeepsInv ==
    ASSUME ReportsInv, asked \in CoreKinds, ReadSource, UNCHANGED <<step, outcome>>
    PROVE  ReportsInv'
  <1>0. PICK h : h = Head(todo)
    OBVIOUS
  <1>1. /\ todo # <<>> /\ asked' = asked /\ facts' = facts /\ ever' = ever /\ always' = always
    BY DEF ReadSource
  <1>2. \/ /\ seen' = seen \union (facts \intersect FactsOf(h)) /\ failed' = failed
           /\ todo' = Tail(todo)
        \/ /\ seen' = seen /\ failed' = failed \union {h}
           /\ todo' = IF h = "social" THEN <<>> ELSE Tail(todo)
    BY <1>0 DEF ReadSource
  <1>3. Told(h)'
    BY <1>1, <1>2 DEF ReportsInv, Witnessed, Told
  <1>4. \A s : Told(s) => Told(s)'
    BY <1>1, <1>2 DEF Told
  <1>5. Witnessed'
    BY <1>1, <1>2 DEF ReportsInv, Witnessed
  <1>6. asked \in {"whatsapp", "bridges", "system", "social"}
    BY CoreKindsAre
  <1>7. Progress' /\ failed' \subseteq Sources
    <2>1. CASE asked = "whatsapp"
      <3>1. \/ h = "stats" /\ todo' = <<"dlq">>
            \/ h = "dlq" /\ todo' = <<>> /\ Told("stats")
        BY <1>1, <1>2, <2>1, HeadsAndTails, <1>0 DEF ReportsInv, Progress
      <3> QED BY <1>1, <1>2, <1>3, <1>4, <2>1, <3>1 DEF ReportsInv, Progress, Sources
    <2>2. CASE asked = "bridges"
      <3>1. h = "diagnostics" /\ todo' = <<>>
        BY <1>1, <1>2, <2>2, HeadsAndTails, <1>0 DEF ReportsInv, Progress
      <3> QED BY <1>1, <1>2, <1>3, <2>2, <3>1 DEF ReportsInv, Progress, Sources
    <2>3. CASE asked = "system"
      <3>1. h = "health" /\ todo' = <<>>
        BY <1>1, <1>2, <2>3, HeadsAndTails, <1>0 DEF ReportsInv, Progress
      <3> QED BY <1>1, <1>2, <1>3, <2>3, <3>1 DEF ReportsInv, Progress, Sources
    <2>4. CASE asked = "social"
      <3>1. \/ h = "social" /\ todo' \in {<<>>, <<"queue", "flagged">>}
            \/ h \in {"queue", "flagged"} /\ todo' \in {<<>>, <<"flagged">>} /\ Told("social")
        BY <1>1, <1>2, <2>4, HeadsAndTails, <1>0 DEF ReportsInv, Progress
      <3> QED BY <1>1, <1>2, <1>3, <1>4, <2>4, <3>1 DEF ReportsInv, Progress, Sources
    <2> QED BY <1>6, <2>1, <2>2, <2>3, <2>4
  <1>8. RowsTell'
    BY <1>1, <1>6 DEF RowsTell, BackendKinds
  <1> QED BY <1>1, <1>5, <1>7, <1>8 DEF ReportsInv

\* The call of the assistant backend goes on, or ends with the rows of that instant.
LEMMA BackendCallKeepsInv ==
    ASSUME ReportsInv, BackendCall
    PROVE  ReportsInv'
  <1>1. /\ asked \in BackendKinds
        /\ asked' = asked /\ facts' = facts /\ ever' = ever /\ always' = always
        /\ todo' = todo /\ failed' = failed
    BY DEF BackendCall, reading
  <1>2. \/ step' # "idle" /\ seen' = seen
        \/ seen' = IF outcome' = "data" THEN facts ELSE {}
    BY DEF BackendCall, reading
  <1>3. Witnessed'
    BY <1>1, <1>2 DEF ReportsInv, Witnessed
  <1>4. Progress'
    BY <1>1 DEF ReportsInv, Progress, BackendKinds
  <1>5. RowsTell'
    BY <1>1, <1>2 DEF ReportsInv, Witnessed, RowsTell, Active
  <1> QED BY <1>1, <1>3, <1>4, <1>5 DEF ReportsInv

LEMMA ReportsNextInv == ReportsInv /\ [ReportsNext]_reportsVars => ReportsInv'
  <1> SUFFICES ASSUME ReportsInv, [ReportsNext]_reportsVars PROVE ReportsInv'
    OBVIOUS
  <1>1. ASSUME UNCHANGED <<asked, facts, reading, ever, always>>, UNCHANGED <<step, outcome>>
        PROVE  ReportsInv'
    BY <1>1 DEF reading, ReportsInv, Witnessed, Progress, Told, RowsTell, Active
  <1>2. CASE CoreReportsNext
    <2>1. UNCHANGED <<step, outcome>>
      BY <1>2 DEF CoreReportsNext, vars
    <2>2. CASE AskCoreReport
      BY <2>2, AskKeepsInv DEF AskCoreReport
    <2>3. CASE GetCashReport
      BY <1>1, <2>1, <2>3 DEF GetCashReport
    <2>4. CASE asked \in CoreKinds /\ FactComesOrGoes
      BY <2>1, <2>4, FactsKeepInv
    <2>5. CASE asked \in CoreKinds /\ ReadSource
      BY <2>1, <2>5, ReadKeepsInv
    <2>6. CASE ComposeCoreReport
      BY <2>6, AnswerKeepsInv DEF ComposeCoreReport
    <2> QED BY <1>2, <2>2, <2>3, <2>4, <2>5, <2>6 DEF CoreReportsNext
  <1>3. CASE BackendReportsNext
    <2>1. CASE AskBackendReport
      BY <2>1, AskKeepsInv DEF AskBackendReport
    <2>2. CASE BackendCall
      BY <2>2, BackendCallKeepsInv
    <2>3. CASE ComposeBackendReport
      BY <2>3, AnswerKeepsInv DEF ComposeBackendReport
    <2>4. CASE FactComesOrGoes /\ UNCHANGED vars
      <3>1. UNCHANGED <<step, outcome>>
        BY <2>4 DEF vars
      <3> QED BY <2>4, <3>1, FactsKeepInv
    <2>5. CASE /\ GoDownOrUp \/ EndSession \/ CacheLapses
               /\ UNCHANGED <<asked, facts, reading, verdict, ever, always>>
      <3>1. UNCHANGED <<step, outcome>>
        BY <2>5 DEF GoDownOrUp, EndSession, CacheLapses, client
      <3> QED BY <1>1, <2>5, <3>1
    <2> QED BY <1>3, <2>1, <2>2, <2>3, <2>4, <2>5 DEF BackendReportsNext
  <1>4. CASE UNCHANGED reportsVars
    BY <1>1, <1>4 DEF reportsVars, vars
  <1> QED BY <1>2, <1>3, <1>4 DEF ReportsNext

\* What a report on fazle-core says is so: whatever was wrong all along was told by the
\* sources without which there is no status, or by none.
LEMMA CoreVerdictIsTrue ==
    ASSUME ReportsInv, ComposeCoreReport
    PROVE  /\ verdict'.problems \subseteq ever
           /\ verdict'.status \in {"DEGRADED", "CRITICAL"} => ever # {}
           /\ verdict'.status = "HEALTHY" =>
                always \subseteq {"bad_probe"}
                  \union (IF "dlq" \in failed THEN {"dead_letters"} ELSE {})
  <1>1. PICK status : status = StatusOf(asked, seen, failed)
    OBVIOUS
  <1>2. /\ verdict' = [kind |-> asked, status |-> status,
                       problems |-> IF failed \intersect Essential # {} THEN {} ELSE Problems(seen)]
        /\ asked \in {"whatsapp", "bridges", "system", "social"} /\ todo = <<>>
    BY <1>1, CoreKindsAre DEF ComposeCoreReport, Answer
  <1>3. verdict'.problems \subseteq ever
    BY <1>2 DEF ReportsInv, Witnessed, Problems
  <1>4. status \in {"DEGRADED", "CRITICAL"} => seen # {}
    BY <1>1, <1>2 DEF StatusOf
  <1>5. ASSUME status = "HEALTHY"
        PROVE  always \subseteq {"bad_probe"}
                 \union (IF "dlq" \in failed THEN {"dead_letters"} ELSE {})
    <2>1. failed \intersect Essential = {}
      BY <1>1, <1>5 DEF StatusOf
    <2>2. always \subseteq Facts(asked)
      BY DEF ReportsInv, Witnessed
    <2>3. CASE asked = "whatsapp"
      <3>1. Told("stats") /\ Told("dlq")
        BY <1>2, <2>3 DEF ReportsInv, Progress
      <3>2. seen = {}
        BY <1>1, <1>5, <2>1, <2>3 DEF StatusOf
      <3>3. always \intersect FactsOf("stats") = {}
        BY <2>1, <3>1, <3>2 DEF Told, Essential
      <3>4. "dlq" \notin failed => always \intersect FactsOf("dlq") = {}
        BY <3>1, <3>2 DEF Told
      <3>5. FactsOf("dlq") = {"dead_letters"}
        BY DEF FactsOf
      <3> QED BY <2>2, <2>3, <3>3, <3>4, <3>5, FactsAre
    <2>4. CASE asked = "bridges"
      <3>1. Told("diagnostics") /\ "diagnostics" \notin failed
        BY <1>2, <2>1, <2>4 DEF ReportsInv, Progress, Essential
      <3>2. seen = {}
        BY <1>1, <1>5, <2>1, <2>4 DEF StatusOf
      <3> QED BY <2>2, <2>4, <3>1, <3>2, FactsAre DEF Told
    <2>5. CASE asked = "system"
      <3>1. Told("health") /\ "health" \notin failed
        BY <1>2, <2>1, <2>5 DEF ReportsInv, Progress, Essential
      <3>2. SummedUp \intersect seen = {}
        BY <1>1, <1>5, <2>1, <2>5 DEF StatusOf, SummedUp
      <3>3. FactsOf("health") = {"bad_probe"} \union SummedUp
        BY DEF FactsOf
      <3> QED BY <2>2, <2>5, <3>1, <3>2, <3>3, FactsAre DEF Told
    <2>6. CASE asked = "social"
      <3>1. Told("social") /\ "social" \notin failed
        BY <1>2, <2>1, <2>6 DEF ReportsInv, Progress, Essential
      <3>2. seen = {}
        BY <1>1, <1>5, <2>1, <2>6 DEF StatusOf
      <3> QED BY <2>2, <2>6, <3>1, <3>2, FactsAre DEF Told
    <2> QED BY <1>2, <2>3, <2>4, <2>5, <2>6
  <1> QED BY <1>2, <1>3, <1>4, <1>5 DEF ReportsInv, Witnessed

\* The same of a report on the assistant backend, whose one call brought data or no
\* status at all.
LEMMA BackendVerdictIsTrue ==
    ASSUME ReportsInv, ComposeBackendReport
    PROVE  /\ verdict'.problems \subseteq ever
           /\ verdict'.status \in {"DEGRADED", "CRITICAL"} => ever # {}
           /\ verdict'.status = "HEALTHY" => always = {}
  <1>1. PICK status : status = StatusOf(asked, seen, {})
    OBVIOUS
  <1>2. asked \in {"recruitment", "escort", "payroll"} /\ ~Active
    BY DEF ComposeBackendReport, BackendKinds
  <1>3. CASE outcome = "data"
    <2>1. verdict' = [kind |-> asked, status |-> status, problems |-> Problems(seen)]
      BY <1>1, <1>3 DEF ComposeBackendReport, Answer
    <2>2. always \subseteq seen /\ always \subseteq Facts(asked) /\ seen \subseteq ever
      BY <1>2, <1>3 DEF ReportsInv, RowsTell, Witnessed, BackendKinds
    <2>3. verdict'.problems \subseteq ever
      BY <2>1, <2>2 DEF Problems
    <2>4. status \in {"DEGRADED", "CRITICAL"} => seen # {}
      BY <1>1, <1>2 DEF StatusOf
    <2>5. status = "HEALTHY" => always = {}
      <3>1. asked = "escort" /\ status = "HEALTHY" => seen = {}
        BY <1>1 DEF StatusOf
      <3> QED BY <1>2, <2>2, <3>1, FactsAre
    <2> QED BY <2>1, <2>2, <2>3, <2>4, <2>5
  <1>4. CASE outcome \in {"error", "unauthorized"}
    <2>1. verdict' = [kind |-> asked, status |-> "UNKNOWN", problems |-> {}]
      BY <1>4 DEF ComposeBackendReport, Answer
    <2> QED BY <2>1
  <1>5. CASE outcome \notin {"data", "error", "unauthorized"}
    <2>1. verdict' = [kind |-> asked, status |-> "raised", problems |-> {}]
      BY <1>5 DEF ComposeBackendReport, Answer
    <2> QED BY <2>1
  <1> QED BY <1>3, <1>4, <1>5

\* A report that was being made is made by no other step.
LEMMA ReportsEndByAnswers ==
    ASSUME ReportsInv, [ReportsNext]_reportsVars, asked # "none", asked' = "none"
    PROVE  ComposeCoreReport \/ ComposeBackendReport
  <1>1. FactComesOrGoes \/ ReadSource \/ BackendCall => asked' = asked
    BY DEF FactComesOrGoes, ReadSource, BackendCall
  <1>2. AskCoreReport \/ AskBackendReport \/ GetCashReport => asked = "none"
    BY DEF AskCoreReport, AskBackendReport, GetCashReport, Ask
  <1>3. UNCHANGED reportsVars => asked' = asked
    BY DEF reportsVars
  <1>4. UNCHANGED <<asked, facts, reading, verdict, ever, always>> => asked' = asked
    OBVIOUS
  <1> QED BY <1>1, <1>2, <1>3, <1>4 DEF ReportsNext, CoreReportsNext, BackendReportsNext

\* However the world moves while the reads are made, and whichever of them fail: what a
\* report names was so during the call, and HEALTHY is never said of a part with
\* something wrong all through it, but for the dead letters of a queue that could not be
\* read and the probes that fazle-core itself passes over.
THEOREM VerdictsWereTrue == ReportsSpec => VerdictWasTrue
  <1>1. ReportsInv /\ [ReportsNext]_reportsVars =>
          [asked # "none" /\ asked' = "none" =>
             /\ verdict'.problems \subseteq ever
             /\ verdict'.status \in {"DEGRADED", "CRITICAL"} => ever # {}
             /\ verdict'.status = "HEALTHY" =>
                  always \subseteq {"bad_probe"}
                    \union (IF "dlq" \in failed THEN {"dead_letters"} ELSE {})]_reportsVars
    BY ReportsEndByAnswers, CoreVerdictIsTrue, BackendVerdictIsTrue
  <1> QED BY <1>1, ReportsInitInv, ReportsNextInv, PTL DEF ReportsSpec, VerdictWasTrue

\* The last report is a verdict.
VerdictIsOne ==
    /\ verdict.kind \in CoreKinds \union BackendKinds \union {"none", "cash"}
    /\ verdict.status \in STATUSES \union {"raised"}
    /\ verdict.problems \subseteq AllFacts

LEMMA StatusOfIsStatus ==
    ASSUME NEW kind, NEW read, NEW errors
    PROVE  StatusOf(kind, read, errors) \in STATUSES
  BY DEF StatusOf, STATUSES

\* A verdict that has just been made is one, of the facts of its kind.
LEMMA AnswerIsVerdict ==
    ASSUME ReportsInv, asked # "none", NEW status \in STATUSES \union {"raised"},
           NEW problems \in SUBSET seen, Answer(status, problems)
    PROVE  VerdictIsOne'
  <1>1. /\ verdict'.kind = asked /\ verdict'.status = status /\ verdict'.problems = problems
    BY DEF Answer
  <1>2. asked \in CoreKinds \union BackendKinds
    BY CoreKindsAre DEF ReportsInv, AskedKinds, BackendKinds
  <1>3. problems \subseteq Facts(asked)
    BY DEF ReportsInv, Witnessed
  <1>4. Facts(asked) \subseteq AllFacts
    BY <1>2 DEF AllFacts
  <1>5. problems \subseteq AllFacts
    BY <1>3, <1>4
  <1> QED BY <1>1, <1>2, <1>5 DEF VerdictIsOne, CoreKinds, BackendKinds, STATUSES, AllFacts

LEMMA VerdictNextInv ==
    ReportsInv /\ VerdictIsOne /\ [ReportsNext]_reportsVars => VerdictIsOne'
  <1> SUFFICES ASSUME ReportsInv, VerdictIsOne, [ReportsNext]_reportsVars PROVE VerdictIsOne'
    OBVIOUS
  <1>1. ASSUME UNCHANGED verdict PROVE VerdictIsOne'
    BY <1>1 DEF VerdictIsOne, CoreKinds, BackendKinds, STATUSES, AllFacts
  <1>2. CASE verdict' = NoVerdict
    <2>1. verdict'.kind = "none" /\ verdict'.status = "UNKNOWN" /\ verdict'.problems = {}
      BY <1>2 DEF NoVerdict
    <2> QED BY <2>1 DEF VerdictIsOne, STATUSES
  <1>3. CASE GetCashReport
    <2>1. verdict'.kind = "cash" /\ verdict'.status = "raised" /\ verdict'.problems = {}
      BY <1>3 DEF GetCashReport
    <2> QED BY <2>1 DEF VerdictIsOne
  <1>4. CASE ComposeCoreReport
    <2>1. PICK status : status = StatusOf(asked, seen, failed)
      OBVIOUS
    <2>2. PICK problems :
            problems = IF failed \intersect Essential # {} THEN {} ELSE Problems(seen)
      OBVIOUS
    <2>3. Answer(status, problems)
      BY <1>4, <2>1, <2>2 DEF ComposeCoreReport
    <2>4. status \in STATUSES \union {"raised"} /\ problems \in SUBSET seen
      BY <2>1, <2>2, StatusOfIsStatus DEF Problems
    <2>5. asked # "none"
      BY <1>4, CoreKindsAre DEF ComposeCoreReport
    <2> QED BY <2>3, <2>4, <2>5, AnswerIsVerdict
  <1>5. CASE ComposeBackendReport
    <2>1. asked # "none"
      BY <1>5 DEF ComposeBackendReport, BackendKinds
    <2>2. \/ Answer(StatusOf(asked, seen, {}), Problems(seen))
          \/ Answer("UNKNOWN", {}) \/ Answer("raised", {})
      BY <1>5 DEF ComposeBackendReport
    <2>3. PICK status, problems : status = StatusOf(asked, seen, {}) /\ problems = Problems(seen)
      OBVIOUS
    <2>4. status \in STATUSES /\ problems \in SUBSET seen
      BY <2>3, StatusOfIsStatus DEF Problems
    <2>5. CASE Answer(status, problems)
      BY <2>1, <2>4, <2>5, AnswerIsVerdict
    <2>6. CASE Answer("UNKNOWN", {}) \/ Answer("raised", {})
      BY <2>1, <2>6, AnswerIsVerdict DEF STATUSES
    <2> QED BY <2>2, <2>3, <2>5, <2>6
  <1>6. CASE AskCoreReport \/ AskBackendReport
    BY <1>2, <1>6 DEF AskCoreReport, AskBackendReport, Ask
  <1>7. FactComesOrGoes \/ ReadSource \/ BackendCall => UNCHANGED verdict
    BY DEF FactComesOrGoes, ReadSource, BackendCall
  <1>8. CASE UNCHANGED reportsVars
    BY <1>1, <1>8 DEF reportsVars
  <1> QED BY <1>1, <1>3, <1>4, <1>5, <1>6, <1>7, <1>8
          DEF ReportsNext, CoreReportsNext, BackendReportsNext

\* The rests of a sequence of reads, one by one.
LEMMA RestsOfOne ==
    ASSUME NEW a
    PROVE  Len(<<a>>) = 1 /\ SubSeq(<<a>>, 1, 1) = <<a>> /\ SubSeq(<<a>>, 2, 1) = <<>>
  <1>1. <<a>> \in Seq({a}) /\ Len(<<a>>) = 1
    OBVIOUS
  <1>2. SubSeq(<<a>>, 1, Len(<<a>>)) = <<a>>
    BY <1>1, SubSeqFull
  <1>3. SubSeq(<<a>>, 2, 1) = <<>>
    BY SubSeqEmpty
  <1> QED BY <1>1, <1>2, <1>3

LEMMA RestsOfTwo ==
    ASSUME NEW a, NEW b
    PROVE  /\ Len(<<a, b>>) = 2
           /\ SubSeq(<<a, b>>, 1, 2) = <<a, b>> /\ SubSeq(<<a, b>>, 2, 2) = <<b>>
           /\ SubSeq(<<a, b>>, 3, 2) = <<>>
  <1>1. <<a, b>> \in Seq({a, b}) /\ Len(<<a, b>>) = 2 /\ <<a, b>> # <<>>
    OBVIOUS
  <1>2. SubSeq(<<a, b>>, 1, Len(<<a, b>>)) = <<a, b>>
    BY <1>1, SubSeqFull
  <1>3. Tail(<<a, b>>) = SubSeq(<<a, b>>, 2, Len(<<a, b>>))
    BY <1>1, TailIsSubSeq
  <1>4. Tail(<<a, b>>) = <<b>>
    OBVIOUS
  <1>5. SubSeq(<<a, b>>, 3, 2) = <<>>
    BY SubSeqEmpty
  <1> QED BY <1>1, <1>2, <1>3, <1>4, <1>5

LEMMA RestsOfThree ==
    ASSUME NEW a, NEW b, NEW c
    PROVE  /\ Len(<<a, b, c>>) = 3
           /\ SubSeq(<<a, b, c>>, 1, 3) = <<a, b, c>> /\ SubSeq(<<a, b, c>>, 2, 3) = <<b, c>>
           /\ SubSeq(<<a, b, c>>, 3, 3) = <<c>> /\ SubSeq(<<a, b, c>>, 4, 3) = <<>>
  <1> DEFINE s == <<a, b, c>>
  <1>1. s \in Seq({a, b, c}) /\ Len(s) = 3 /\ s # <<>> /\ Tail(s) = <<b, c>>
    OBVIOUS
  <1>2. Tail(<<b, c>>) = <<c>>
    OBVIOUS
  <1> HIDE DEF s
  <1>3. SubSeq(s, 1, Len(s)) = s
    BY <1>1, SubSeqFull
  <1>4. Tail(s) = SubSeq(s, 2, Len(s))
    BY <1>1, TailIsSubSeq
  <1>5. 2 \in 1 .. Len(s) /\ 3 \in 2 .. Len(s)
    BY <1>1
  <1>6. Tail(SubSeq(s, 2, 3)) = SubSeq(s, 2 + 1, 3)
    BY <1>1, <1>5, HeadTailOfSubSeq
  <1>7. SubSeq(s, 4, 3) = <<>>
    BY SubSeqEmpty
  <1>8. SubSeq(s, 1, 3) = s /\ SubSeq(s, 2, 3) = <<b, c>>
    BY <1>1, <1>3, <1>4
  <1>9. 2 + 1 = 3
    OBVIOUS
  <1>10. SubSeq(s, 3, 3) = <<c>>
    BY Zenon, <1>2, <1>6, <1>8, <1>9
  <1> QED BY Zenon, <1>1, <1>7, <1>8, <1>10 DEF s

\* What is still to be read is the rest of the report's reads.
LEMMA TodoIsARest ==
    ASSUME ReportsInv, asked \in CoreKinds
    PROVE  \E k \in 1 .. Len(Reads[asked]) + 1 :
             todo = SubSeq(Reads[asked], k, Len(Reads[asked]))
  <1> DEFINE reads == Reads[asked]
  <1>1. CASE asked = "whatsapp"
    <2>1. /\ reads = <<"stats", "dlq">> /\ Len(reads) = 2
          /\ SubSeq(reads, 1, Len(reads)) = <<"stats", "dlq">>
          /\ SubSeq(reads, 2, Len(reads)) = <<"dlq">> /\ SubSeq(reads, 3, Len(reads)) = <<>>
      BY <1>1, ReadsAre, RestsOfTwo
    <2>2. todo \in {<<"stats", "dlq">>, <<"dlq">>, <<>>}
      BY <1>1 DEF ReportsInv, Progress
    <2> HIDE DEF reads
    <2>3. 1 \in 1 .. Len(reads) + 1 /\ 2 \in 1 .. Len(reads) + 1 /\ 3 \in 1 .. Len(reads) + 1
      BY <2>1
    <2>4. \E m \in 1 .. Len(reads) + 1 : todo = SubSeq(reads, m, Len(reads))
      BY Zenon, <2>1, <2>2, <2>3
    <2> QED BY <2>4 DEF reads
  <1>2. CASE asked \in {"bridges", "system"}
    <2>1. PICK s : reads = <<s>> /\ todo \in {<<s>>, <<>>}
      BY <1>2, ReadsAre DEF ReportsInv, Progress
    <2>2. /\ Len(reads) = 1 /\ SubSeq(reads, 1, Len(reads)) = <<s>>
          /\ SubSeq(reads, 2, Len(reads)) = <<>>
      BY <2>1, RestsOfOne
    <2> HIDE DEF reads
    <2>3. 1 \in 1 .. Len(reads) + 1 /\ 2 \in 1 .. Len(reads) + 1
      BY <2>2
    <2>4. \E m \in 1 .. Len(reads) + 1 : todo = SubSeq(reads, m, Len(reads))
      BY Zenon, <2>1, <2>2, <2>3
    <2> QED BY <2>4 DEF reads
  <1>3. CASE asked = "social"
    <2>1. /\ reads = <<"social", "queue", "flagged">> /\ Len(reads) = 3
          /\ SubSeq(reads, 1, Len(reads)) = <<"social", "queue", "flagged">>
          /\ SubSeq(reads, 2, Len(reads)) = <<"queue", "flagged">>
          /\ SubSeq(reads, 3, Len(reads)) = <<"flagged">> /\ SubSeq(reads, 4, Len(reads)) = <<>>
      BY <1>3, ReadsAre, RestsOfThree
    <2>2. todo \in {<<"social", "queue", "flagged">>, <<"queue", "flagged">>, <<"flagged">>, <<>>}
      BY <1>3 DEF ReportsInv, Progress
    <2> HIDE DEF reads
    <2>3. /\ 1 \in 1 .. Len(reads) + 1 /\ 2 \in 1 .. Len(reads) + 1
          /\ 3 \in 1 .. Len(reads) + 1 /\ 4 \in 1 .. Len(reads) + 1
      BY <2>1
    <2>4. \E m \in 1 .. Len(reads) + 1 : todo = SubSeq(reads, m, Len(reads))
      BY Zenon, <2>1, <2>2, <2>3
    <2> QED BY <2>4 DEF reads
  <1> QED BY <1>1, <1>2, <1>3, CoreKindsAre

\* The reports' variables stay of their kinds: no report is given the facts of another,
\* and what it still has to read is always the rest of its own reads.
THEOREM ReportsTypeCorrect == ReportsSpec => []ReportsTypeOK
  <1>1. ReportsInit => VerdictIsOne
    <2>1. NoVerdict.kind = "none" /\ NoVerdict.status = "UNKNOWN" /\ NoVerdict.problems = {}
      BY DEF NoVerdict
    <2> QED BY <2>1 DEF ReportsInit, VerdictIsOne, STATUSES
  <1>2. ReportsInv /\ VerdictIsOne => ReportsTypeOK
    <2> SUFFICES ASSUME ReportsInv, VerdictIsOne PROVE ReportsTypeOK
      OBVIOUS
    <2>1. asked \in CoreKinds \union BackendKinds \union {"none"}
      BY CoreKindsAre DEF ReportsInv, AskedKinds, BackendKinds
    <2>2. \A known \in {facts, seen, ever, always} : known \subseteq Facts(asked)
      BY DEF ReportsInv, Witnessed
    <2>3. asked \in CoreKinds =>
            \E k \in 1 .. Len(Reads[asked]) + 1 :
              todo = SubSeq(Reads[asked], k, Len(Reads[asked]))
      BY TodoIsARest
    <2>4. failed \subseteq Sources
      BY DEF ReportsInv
    <2> QED BY <2>1, <2>2, <2>3, <2>4 DEF ReportsTypeOK, VerdictIsOne, Sources
  <1> QED BY <1>1, <1>2, ReportsInitInv, ReportsNextInv, VerdictNextInv, PTL DEF ReportsSpec

=============================================================================
