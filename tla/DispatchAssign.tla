--------------------------- MODULE DispatchAssign ---------------------------
(***************************************************************************)
(* The optimistic concurrency of dispatch_assign_program and               *)
(* dispatch_unassign_program, for one program, once their gates have       *)
(* passed: the caller reads who is assigned, decides, and sends the        *)
(* decision with the employee it read; people and other turns assign the   *)
(* same program meanwhile, a request may be served after its caller gave   *)
(* up, and the caller may then send the same decision again.  fazle-core's *)
(* dispatch engine is external: it compares the expectation, when there is *)
(* one, with the employee assigned at that moment, in one transaction.     *)
(***************************************************************************)
EXTENDS Integers

CONSTANTS Employee, Nobody,
          Decisions,  \* the decisions made in a run
          MaxSends    \* bound: how often one decision is sent

ASSUME NobodyAssumption == Nobody \notin Employee
ASSUME MaxSendsAssumption == MaxSends \in Nat

VARIABLES assigned,  \* the program's escort_employee_id
          decision,  \* decision[d]
          relieved   \* history: the employees in whose place a decision was carried out
                     \* and who have not been assigned again since

dispatchVars == <<assigned, decision, relieved>>

Holders == Employee \union {Nobody}

\* read: whom the caller saw assigned; wanted: whom it wants, or Nobody to unassign;
\* waiting: it waits for the answer; flying: requests not yet served; sends, served:
\* how many were sent and carried out.
Undecided == [made |-> FALSE, tool |-> "none", read |-> Nobody, wanted |-> Nobody,
              waiting |-> FALSE, flying |-> 0, sends |-> 0, served |-> 0]

DispatchTypeOK ==
    /\ assigned \in Holders /\ relieved \subseteq Employee
    /\ decision \in [Decisions ->
         [made : BOOLEAN, tool : {"none", "assign", "unassign"}, read : Holders,
          wanted : Holders, waiting : BOOLEAN, flying : 0 .. MaxSends,
          sends : 0 .. MaxSends, served : 0 .. MaxSends]]
    /\ \A d \in Decisions : decision[d].flying + decision[d].served <= decision[d].sends

DispatchInit ==
    /\ assigned = Nobody /\ relieved = {}
    /\ decision = [d \in Decisions |-> Undecided]

\* A person, or the dispatch of another program's escort.
AssignedByHand ==
    /\ assigned' \in Holders \ {assigned}
    /\ relieved' = relieved \ {assigned'}
    /\ UNCHANGED decision

\* The caller reads the program and decides.  expected_current_employee_id is an
\* integer that dispatch_unassign_program cannot do without.
Decide(d) ==
    /\ ~decision[d].made
    /\ \E tool \in {"assign", "unassign"}, wanted \in Holders \ {assigned} :
         /\ tool = "unassign" <=> wanted = Nobody
         /\ decision' = [decision EXCEPT ![d] =
              [Undecided EXCEPT !.made = TRUE, !.tool = tool, !.read = assigned,
                                !.wanted = wanted]]
    /\ UNCHANGED <<assigned, relieved>>

\* The first request, or the same again after an answer that left things open.
Send(d) ==
    /\ decision[d].made /\ ~decision[d].waiting
    /\ decision[d].sends < MaxSends
    /\ decision' = [decision EXCEPT ![d].waiting = TRUE, ![d].sends = @ + 1,
                                    ![d].flying = @ + 1]
    /\ UNCHANGED <<assigned, relieved>>

\* Only the unassigning tool sends the expectation.
BodyOfUnassign(d) ==
    IF decision[d].tool = "unassign" THEN {decision[d].read} ELSE {}

\* expected_current_employee_id in the body: the employee read, and nothing at all
\* when an assigning caller read None, which then asks for no comparison.
Body(d) ==
    IF decision[d].read = Nobody THEN {} ELSE {decision[d].read}

\* The engine carries a request out, whether or not its caller still waits.
ServeDispatch(d) ==
    /\ decision[d].flying > 0
    /\ \A expected \in Body(d) : assigned = expected
    /\ assigned' = decision[d].wanted
    /\ relieved' = (relieved \union ({decision[d].read} \ {Nobody})) \ {assigned'}
    /\ decision' = [decision EXCEPT ![d].flying = @ - 1, ![d].served = @ + 1]

\* Refused (stale, a conflict, an error) or lost on the way.
RefuseDispatch(d) ==
    /\ decision[d].flying > 0
    /\ decision' = [decision EXCEPT ![d].flying = @ - 1]
    /\ UNCHANGED <<assigned, relieved>>

\* _result_from hands the answer on, or the request timed out.
DispatchReturns(d) ==
    /\ decision[d].waiting
    /\ decision' = [decision EXCEPT ![d].waiting = FALSE]
    /\ UNCHANGED <<assigned, relieved>>

DispatchNext ==
    \/ AssignedByHand
    \/ \E d \in Decisions :
         \/ Decide(d) \/ Send(d) \/ ServeDispatch(d) \/ RefuseDispatch(d)
         \/ DispatchReturns(d)

DispatchSpec == DispatchInit /\ [][DispatchNext]_dispatchVars

-----------------------------------------------------------------------------
(* Properties. *)

\* No update is lost among the callers that read the same employee: one of them is
\* carried out, once, and every other, and every repetition of a request that timed out,
\* is refused until somebody puts that employee back, however late it is served.
NoLostUpdate ==
    [][\A d \in Decisions :
         decision'[d].served > decision[d].served => decision[d].read \notin relieved
      ]_dispatchVars

\* dispatch_assign_program: "pass the program's CURRENT escort_employee_id (None if
\* unassigned) [...] if it has changed since you last read it, this call is rejected as
\* stale rather than silently overwriting a concurrent change".  Refuted: a caller that
\* read None takes whoever was assigned meanwhile off the program.
NothingIsOverwritten ==
    [][\A d \in Decisions :
         decision'[d].served > decision[d].served =>
           assigned \in {decision[d].read, decision[d].wanted}]_dispatchVars

=============================================================================
