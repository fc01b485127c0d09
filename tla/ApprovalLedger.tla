--------------------------- MODULE ApprovalLedger ---------------------------
(***************************************************************************)
(* What the propose / approve / execute flow promises, without processes,  *)
(* modes, confirmations or messages: each action-approval request moves    *)
(* through its statuses one way only, and a hard-gated tool changes        *)
(* something under an approval of its own type that stands, or that was    *)
(* recorded as executed while the change was under way.                    *)
(***************************************************************************)
EXTENDS ToolCatalog

CONSTANT Action

VARIABLES status,  \* status[a]: "none" until the request exists
          kind,    \* kind[a]: the action type it was made for
          done     \* <<tool, a>>: tool has made its change under a

vars == <<status, kind, done>>

Init ==
    /\ status = [a \in Action |-> "none"]
    /\ kind = [a \in Action |-> "none"]
    /\ done = {}

\* A request is made; the fused path makes it already approved.
Request(a, k) ==
    /\ status[a] = "none"
    /\ \E st \in {"pending", "approved"} : status' = [status EXCEPT ![a] = st]
    /\ kind' = [kind EXCEPT ![a] = k]
    /\ UNCHANGED done

\* A pending request is decided once.
Decide(a) ==
    /\ status[a] = "pending"
    /\ \E st \in {"approved", "rejected"} : status' = [status EXCEPT ![a] = st]
    /\ UNCHANGED <<kind, done>>

\* The outcome of an approved action is recorded.
Record(a) ==
    /\ status[a] = "approved"
    /\ status' = [status EXCEPT ![a] = "executed"]
    /\ UNCHANGED <<kind, done>>

Execute(a, tool) ==
    /\ status[a] \in {"approved", "executed"}
    /\ kind[a] = RequiredType(tool)
    /\ done' = done \union {<<tool, a>>}
    /\ UNCHANGED <<status, kind>>

Next ==
    \E a \in Action :
        \/ \E k \in ActionTypes : Request(a, k)
        \/ Decide(a)
        \/ Record(a)
        \/ \E tool \in ExecTools : Execute(a, tool)

Spec == Init /\ [][Next]_vars

=============================================================================
