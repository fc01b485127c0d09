--------------------------- MODULE DomainReports ---------------------------
(***************************************************************************)
(* The operational reports: each makes one or more reads of fazle-core, or *)
(* one call of the assistant backend through BridgeSession, and composes   *)
(* a status, a list of problems and the numbers behind them.  The reads of *)
(* one report are made one after another while what they read moves on;    *)
(* any of them may fail.                                                   *)
(*                                                                         *)
(* The world is what is wrong with the part a report is about: `facts`,    *)
(* of which each is told by one source.  It is kept while a report of that *)
(* part is being made, for no other time matters.                          *)
(***************************************************************************)
EXTENDS BridgeSession, Sequences

\* The requests of the reports on fazle-core, in order.
Reads == [whatsapp |-> <<"stats", "dlq">>, bridges |-> <<"diagnostics">>,
          system |-> <<"health">>, social |-> <<"social", "queue", "flagged">>]
CoreKinds == DOMAIN Reads
BackendKinds == {"recruitment", "escort", "payroll"}

\* fazle-core sums its probes up in a word of its own, which need not name every probe
\* that is not ok, and need not be one that the report knows ("otherwise").
SummedUp == {"summed_up_degraded", "summed_up_critical", "summed_up_otherwise"}

\* What can be wrong, by the source that tells it.  "failed" is one to five messages.
FactsOf(source) ==
    CASE source = "stats" -> {"stuck_messages"}
      [] source = "dlq" -> {"dead_letters"}
      [] source = "diagnostics" -> {"unhealthy_bridge"}
      [] source = "health" -> {"bad_probe"} \union SummedUp
      [] source = "social" -> {"disabled", "paused", "failed", "failed_over_5", "flagged"}
      [] source = "escort" -> {"unassigned_program"}
      [] OTHER -> {}

Facts(kind) ==
    IF kind \in CoreKinds THEN UNION {FactsOf(Reads[kind][k]) : k \in DOMAIN Reads[kind]}
    ELSE FactsOf(kind)

VARIABLES asked,     \* the report being made, or "none"
          facts,     \* what is wrong now
          todo,      \* the sources still to be read
          seen,      \* the facts in the answers
          failed,    \* the sources that answered with an error
          verdict,   \* the last report: its kind, status and problems
          ever, always \* history: the facts at some instant, at every instant of it

reading == <<todo, seen, failed>>
reportsVars == <<asked, facts, reading, verdict, ever, always, vars>>

STATUSES == {"HEALTHY", "DEGRADED", "CRITICAL", "UNKNOWN"}
NoVerdict == [kind |-> "none", status |-> "UNKNOWN", problems |-> {}]
AllFacts == UNION {Facts(k) : k \in CoreKinds \union BackendKinds}

ReportsTypeOK ==
    /\ asked \in CoreKinds \union BackendKinds \union {"none"}
    /\ \A known \in {facts, seen, ever, always} : known \subseteq Facts(asked)
    /\ asked \in CoreKinds =>
         \E k \in 1 .. Len(Reads[asked]) + 1 : todo = SubSeq(Reads[asked], k, Len(Reads[asked]))
    /\ failed \subseteq {"stats", "dlq", "diagnostics", "health", "social", "queue", "flagged"}
    /\ verdict.kind \in CoreKinds \union BackendKinds \union {"none", "cash"}
    /\ verdict.status \in STATUSES \union {"raised"}
    /\ verdict.problems \subseteq AllFacts

ReportsInit ==
    /\ Init
    /\ asked = "none" /\ facts = {} /\ todo = <<>> /\ seen = {} /\ failed = {}
    /\ verdict = NoVerdict
    /\ ever = {} /\ always = {}

-----------------------------------------------------------------------------
(* The world while a report is being made. *)

FactComesOrGoes ==
    /\ asked # "none"
    /\ \E f \in Facts(asked) :
         facts' = IF f \in facts THEN facts \ {f} ELSE facts \union {f}
    /\ ever' = ever \union facts'
    /\ always' = always \intersect facts'
    /\ UNCHANGED <<asked, reading, verdict>>

\* Any state of the world may be met.
Ask(kind, sources) ==
    /\ asked = "none"
    /\ asked' = kind
    /\ todo' = sources
    /\ \E now \in SUBSET Facts(kind) :
         facts' = now /\ ever' = now /\ always' = now
    /\ seen' = {} /\ failed' = {}
    /\ verdict' = NoVerdict

Answer(status, problems) ==
    /\ verdict' = [kind |-> asked, status |-> status, problems |-> problems]
    /\ asked' = "none"
    /\ facts' = {} /\ ever' = {} /\ always' = {}
    /\ todo' = <<>> /\ seen' = {} /\ failed' = {}

-----------------------------------------------------------------------------
(* The reports on fazle-core; its client never raises. *)

\* Starts over whenever a read fails.
ReadSourceAgain ==
    /\ todo # <<>>
    /\ \/ todo' = Tail(todo) /\ seen' = seen \union (facts \intersect FactsOf(Head(todo)))
          /\ UNCHANGED failed
       \/ todo' = Reads[asked] /\ failed' = failed \union {Head(todo)}
          /\ UNCHANGED seen
    /\ UNCHANGED <<asked, facts, verdict, ever, always>>

\* One read, answered or failed.  get_social_report gives up when its first read fails;
\* get_whatsapp_ops_report makes its second all the same.
ReadSource ==
    /\ todo # <<>>
    /\ \/ /\ seen' = seen \union (facts \intersect FactsOf(Head(todo)))
          /\ todo' = Tail(todo)
          /\ UNCHANGED failed
       \/ /\ failed' = failed \union {Head(todo)}
          /\ todo' = IF Head(todo) = "social" THEN <<>> ELSE Tail(todo)
          /\ UNCHANGED seen
    /\ UNCHANGED <<asked, facts, verdict, ever, always>>

\* The reads without which there is no report.  Not the dead-letter queue, and not
\* the samples of the social report: their errors are passed over.
Essential == {"stats", "diagnostics", "health", "social"}

\* Takes an error for an answer without problems.
StatusOfUnchecked(kind, read, errors) ==
    IF read = {} THEN "HEALTHY" ELSE IF kind = "bridges" THEN "CRITICAL" ELSE "DEGRADED"

\* The status, by the answers.
StatusOf(kind, read, errors) ==
    IF errors \intersect Essential # {} THEN "UNKNOWN"
    ELSE CASE kind = "whatsapp" -> IF read # {} THEN "DEGRADED" ELSE "HEALTHY"
           [] kind = "bridges" -> IF read # {} THEN "CRITICAL" ELSE "HEALTHY"
           [] kind = "system" -> IF "summed_up_critical" \in read THEN "CRITICAL"
                                 ELSE IF "summed_up_degraded" \in read THEN "DEGRADED"
                                 ELSE IF "summed_up_otherwise" \in read THEN "UNKNOWN"
                                 ELSE "HEALTHY"
           [] kind = "social" -> IF read \intersect {"disabled", "failed_over_5"} # {}
                                 THEN "CRITICAL"
                                 ELSE IF read # {} THEN "DEGRADED" ELSE "HEALTHY"
           [] kind = "escort" -> IF read # {} THEN "DEGRADED" ELSE "HEALTHY"
           [] OTHER -> "HEALTHY"

\* fazle-core's summing up is no problem of its own in the list.
Problems(read) == read \ SummedUp

ComposeCoreReport ==
    /\ asked \in CoreKinds
    /\ todo = <<>>
    /\ Answer(StatusOf(asked, seen, failed),
              IF failed \intersect Essential # {} THEN {} ELSE Problems(seen))

AskCoreReport == \E kind \in CoreKinds : Ask(kind, Reads[kind])

\* server.py's get_cash_report calls domain_reports.get_cash_report, which is not
\* there: AttributeError.
GetCashReport ==
    /\ asked = "none"
    /\ verdict' = [kind |-> "cash", status |-> "raised", problems |-> {}]
    /\ UNCHANGED <<asked, facts, reading, ever, always>>

CoreReportsNext ==
    /\ \/ AskCoreReport \/ GetCashReport
       \/ asked \in CoreKinds /\ (FactComesOrGoes \/ ReadSource \/ ComposeCoreReport)
    /\ UNCHANGED vars

-----------------------------------------------------------------------------
(* The reports on the assistant backend, whose rows one bridge.get() brings. *)

AskBackendReport == \E kind \in BackendKinds : Ask(kind, <<>>) /\ Call

\* The rows are those of the instant at which a GET is answered with data.
BackendCall ==
    /\ asked \in BackendKinds
    /\ Advance
    /\ IF step' # "idle" THEN UNCHANGED reading
       ELSE /\ seen' = IF outcome' = "data" THEN facts ELSE {}
            /\ UNCHANGED <<todo, failed>>
    /\ UNCHANGED <<asked, facts, verdict, ever, always>>

\* What get() raises, the report raises.
ComposeBackendReport ==
    /\ asked \in BackendKinds
    /\ ~Active
    /\ CASE outcome = "data" -> Answer(StatusOf(asked, seen, {}), Problems(seen))
         [] outcome \in {"error", "unauthorized"} -> Answer("UNKNOWN", {})
         [] OTHER -> Answer("raised", {})
    /\ UNCHANGED vars

BackendReportsNext ==
    \/ AskBackendReport \/ BackendCall \/ ComposeBackendReport
    \/ asked \in BackendKinds /\ FactComesOrGoes /\ UNCHANGED vars
    \/ /\ GoDownOrUp \/ EndSession \/ CacheLapses
       /\ UNCHANGED <<asked, facts, reading, verdict, ever, always>>

ReportsNext == CoreReportsNext \/ BackendReportsNext

\* Every request has a timeout, and composing waits for nothing.
ReportsFairness ==
    /\ WF_reportsVars(ReadSource /\ UNCHANGED vars)
    /\ WF_reportsVars(ComposeCoreReport /\ UNCHANGED vars)
    /\ WF_reportsVars(BackendCall)
    /\ WF_reportsVars(ComposeBackendReport)

ReportsSpec == ReportsInit /\ [][ReportsNext]_reportsVars /\ ReportsFairness

-----------------------------------------------------------------------------
(* Properties. *)

\* What a report says was so: a problem it names was there at some instant of the
\* call, a bad status has a cause, and HEALTHY is never said of a part with something
\* wrong all through the call -- unless it was in the dead-letter queue, whose read
\* had failed, or in a probe that fazle-core itself does not sum up as bad.
VerdictWasTrue ==
    [][asked # "none" /\ asked' = "none" =>
         /\ verdict'.problems \subseteq ever
         /\ verdict'.status \in {"DEGRADED", "CRITICAL"} => ever # {}
         /\ verdict'.status = "HEALTHY" =>
              always \subseteq {"bad_probe"} \union (IF "dlq" \in failed THEN {"dead_letters"} ELSE {})
      ]_reportsVars

\* Every report that is asked for comes, or an exception does, whatever fails on
\* the way; through the backend too, with its logins and its second GET.
ReportEnds == asked # "none" ~> asked = "none"

=============================================================================
