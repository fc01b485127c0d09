-------------------------- MODULE ConfirmedChanges --------------------------
(***************************************************************************)
(* The tools that change business data on RUN and confirm=True alone:      *)
(* WhatsApp sends, reply and payment drafts, operator reviews, attendance, *)
(* employees, escort roster, manual transactions, admin directives.  Each  *)
(* is one reading of the mode file and one request to fazle-core, and what *)
(* the caller is told is made from the answer to that request.             *)
(*                                                                         *)
(* A tool reviews a row that waits in fazle-core (a draft, a submission, a *)
(* change request), or makes its change directly.  Calls are numbered in   *)
(* the order they are made; calls in progress at the same time are those   *)
(* of different fazle-mcp processes, and a retry is a new call.  A request *)
(* may be refused, lost, answered too late, or served after its caller     *)
(* gave up; people review the same rows on the dashboard meanwhile; the    *)
(* bridge delivers queued messages in its own time, or never.  A reply     *)
(* draft comes into being by draft_whatsapp_reply.  The rows' and the      *)
(* queue's life is fazle-core's, so those actions are external.            *)
(***************************************************************************)
EXTENDS Integers, FiniteSets

CONSTANTS Item,     \* the rows waiting for a review, <<kind, id>>
          NoItem,   \* the subject of a direct change
          Tools,    \* the tools called in a run
          MaxCalls  \* bound: calls made

\* The tools, by the source file they are in.
SendingTools == {"send_whatsapp_message", "approve_draft"}
PaymentDraftTools ==
    {"approve_payment_draft", "edit_payment_draft", "reject_payment_draft"}
AccountingTools ==
    {"approve_operator_pending", "reject_operator_pending",
     "create_manual_transaction", "reverse_transaction"}
AttendanceTools ==
    {"create_attendance", "create_attendance_draft", "update_attendance",
     "delete_attendance"}
EmployeeTools ==
    {"create_employee", "update_employee",
     "approve_employee_edit_request", "reject_employee_edit_request"}
RosterTools ==
    {"create_roster_entry", "patch_roster_entry", "delete_roster_entry",
     "recalculate_roster_entry",
     "approve_roster_change_request", "reject_roster_change_request"}
DirectiveTools == {"remember_business_rule", "revoke_directive"}

AllTools ==
    UNION {SendingTools, PaymentDraftTools, AccountingTools, AttendanceTools,
           EmployeeTools, RosterTools, DirectiveTools}

\* And by what they do with a row that waits for a review.
ApproveTools ==
    {"approve_draft", "approve_payment_draft", "approve_operator_pending",
     "approve_employee_edit_request", "approve_roster_change_request"}
RejectTools ==
    {"reject_payment_draft", "reject_operator_pending",
     "reject_employee_edit_request", "reject_roster_change_request"}
ReviewTools == ApproveTools \union RejectTools \union {"edit_payment_draft"}

RowKinds ==
    {"reply draft", "payment draft", "operator submission", "employee edit request",
     "roster change request"}

\* The kind of row a reviewing tool reviews.
KindOf(tool) ==
    IF tool \in SendingTools THEN "reply draft"
    ELSE IF tool \in PaymentDraftTools THEN "payment draft"
    ELSE IF tool \in AccountingTools THEN "operator submission"
    ELSE IF tool \in EmployeeTools THEN "employee edit request"
    ELSE "roster change request"

ASSUME ItemAssumption == \A i \in Item : i[1] \in RowKinds
ASSUME NoItemAssumption == NoItem \notin Item
ASSUME ToolsAssumption == Tools \subseteq AllTools
ASSUME MaxCallsAssumption == MaxCalls \in Nat

-----------------------------------------------------------------------------
VARIABLES mode,      \* what _read_mode would answer now
          item,      \* item[i]: fazle-core's status of a reviewed row
          byHand,    \* byHand[i]: approvals of i by a person
          call,      \* call[n]: the n-th call
          outbound,  \* outbound[n]: the queue row that call n made
          told       \* told[n]: the status the caller last heard of it

vars == <<mode, item, byHand, call, outbound, told>>

Modes == {"READ", "BUILD", "RUN"}
Numbers == 1 .. MaxCalls
Answers == {"none", "denied", "ok", "error"}
Deliveries == {"none", "pending", "sending", "sent", "failed", "dlq"}

\* flying: sent, not served yet, and nobody waits for the answer.  run and served
\* are history: RUN was in force during the call; how often its change was made.
NotMade == [step |-> "new", tool |-> "none", item |-> NoItem, confirm |-> FALSE,
            flying |-> FALSE, answer |-> "none", run |-> FALSE, served |-> 0]

TypeOK ==
    /\ mode \in Modes
    /\ item \in [Item -> {"absent", "pending", "approved", "rejected"}]
    /\ byHand \in [Item -> {0, 1}]
    /\ call \in [Numbers ->
         [step : {"new", "mode", "post", "over"},
          tool : AllTools \union {"none"},
          item : Item \union {NoItem}, confirm : BOOLEAN, flying : BOOLEAN,
          answer : Answers, run : BOOLEAN, served : 0 .. 2]]
    /\ outbound \in [Numbers -> Deliveries]
    /\ told \in [Numbers -> Deliveries \union {"queued"}]

Init ==
    /\ mode = "READ"
    /\ item = [i \in Item |-> IF i[1] = "reply draft" THEN "absent" ELSE "pending"]
    /\ byHand = [i \in Item |-> 0]
    /\ call = [n \in Numbers |-> NotMade]
    /\ outbound = [n \in Numbers |-> "none"]
    /\ told = [n \in Numbers |-> "none"]

Active(n) == call[n].step \in {"mode", "post"}

-----------------------------------------------------------------------------
(* The environment. *)

SwitchMode ==
    /\ \E m \in Modes \ {mode} :
         /\ mode' = m
         /\ call' = [n \in Numbers |->
                       IF Active(n) THEN [call[n] EXCEPT !.run = @ \/ m = "RUN"]
                       ELSE call[n]]
    /\ UNCHANGED <<item, byHand, outbound, told>>

\* A person decides the row, on the dashboard or by a WhatsApp command.
ReviewByHand ==
    /\ \E i \in Item :
         /\ item[i] = "pending"
         /\ \/ /\ item' = [item EXCEPT ![i] = "approved"]
               /\ byHand' = [byHand EXCEPT ![i] = @ + 1]
            \/ /\ item' = [item EXCEPT ![i] = "rejected"]
               /\ UNCHANGED byHand
    /\ UNCHANGED <<mode, call, outbound, told>>

\* The queue's worker takes a row up, sends it, or fails and in the end gives up.
WorkQueue ==
    /\ \E n \in Numbers :
         \/ /\ outbound[n] \in {"pending", "failed"}
            /\ outbound' = [outbound EXCEPT ![n] = "sending"]
         \/ /\ outbound[n] = "sending"
            /\ \E st \in {"sent", "failed", "dlq"} :
                 outbound' = [outbound EXCEPT ![n] = st]
    /\ UNCHANGED <<mode, item, byHand, call, told>>

-----------------------------------------------------------------------------
(* draft_whatsapp_reply puts a reply up for review, without a gate and whether or not
   its caller hears of it.  A blank recipient or text, or a draft to the same recipient
   less than five minutes old, and there is no new row. *)

DraftWhatsappReply(i) ==
    /\ i[1] = "reply draft" /\ item[i] = "absent"
    /\ item' = [item EXCEPT ![i] = "pending"]
    /\ UNCHANGED <<mode, byHand, call, outbound, told>>

-----------------------------------------------------------------------------
(* fazle-core serves the request of call n. *)

\* Only a row still pending is reviewed.
Servable(n) == call[n].tool \in ReviewTools => item[call[n].item] = "pending"

\* An edit takes the row out of review.
ItemAfterEdited(n) ==
    IF call[n].tool \in ApproveTools THEN [item EXCEPT ![call[n].item] = "approved"]
    ELSE IF call[n].tool \in ReviewTools THEN [item EXCEPT ![call[n].item] = "edited"]
    ELSE item

\* The rejecting tools post to the approving route.
ItemAfterCopied(n) ==
    IF call[n].tool \in ApproveTools \union RejectTools
    THEN [item EXCEPT ![call[n].item] = "approved"]
    ELSE item

\* What the route a tool posts to does to the row: .../approve and .../reject decide
\* it, .../edit leaves it pending.
ItemAfter(n) ==
    IF call[n].tool \in ApproveTools THEN [item EXCEPT ![call[n].item] = "approved"]
    ELSE IF call[n].tool \in RejectTools THEN [item EXCEPT ![call[n].item] = "rejected"]
    ELSE item

\* A send becomes a row of the queue; so does an approved reply draft, unless its
\* intent has a follow-up of its own (an attendance draft is finalised instead).
Serve(n) ==
    /\ Servable(n)
    /\ item' = ItemAfter(n)
    /\ \/ /\ call[n].tool \in SendingTools
          /\ outbound' = [outbound EXCEPT ![n] = "pending"]
       \/ call[n].tool # "send_whatsapp_message" /\ UNCHANGED outbound

-----------------------------------------------------------------------------
(* A tool call. *)

Begin(n) ==
    /\ call[n].step = "new"
    /\ \A m \in 1 .. n - 1 : call[m].step # "new"
    /\ \E tool \in Tools, i \in Item \union {NoItem}, confirm \in BOOLEAN :
         /\ i \in Item <=> tool \in ReviewTools
         /\ i \in Item => i[1] = KindOf(tool)
         /\ call' = [call EXCEPT ![n] =
              [NotMade EXCEPT !.step = "mode", !.tool = tool, !.item = i,
                              !.confirm = confirm, !.run = mode = "RUN"]]
    /\ UNCHANGED <<mode, item, byHand, outbound, told>>

Finish(n, answer) ==
    call' = [call EXCEPT ![n].step = "over", ![n].answer = answer]

\* Denies outside RUN and forgets to ask for the confirmation.
GateUnconfirmed(n) == mode = "RUN"

\* _gate: RUN first, then confirm=True.
Gate(n) == mode = "RUN" /\ call[n].confirm

PassGate(n) ==
    /\ call[n].step = "mode"
    /\ IF Gate(n) THEN call' = [call EXCEPT ![n].step = "post"]
       ELSE Finish(n, "denied")
    /\ UNCHANGED <<mode, item, byHand, outbound, told>>

\* Calls a message sent as soon as fazle-core has taken it.
StatusSent(n) == IF call[n].tool \in SendingTools THEN "sent" ELSE "none"

\* The status a success is reported with: a message is "queued", never "sent".
Status(n) == IF call[n].tool \in SendingTools THEN "queued" ELSE "none"

\* Served.  The answer may still be lost, time out or be no JSON: an error then.
PostServed(n) ==
    /\ call[n].step = "post"
    /\ Serve(n)
    /\ \E answer \in {"ok", "error"} :
         /\ call' = [call EXCEPT ![n].step = "over", ![n].answer = answer,
                                 ![n].served = @ + 1]
         /\ told' = IF answer = "ok" THEN [told EXCEPT ![n] = Status(n)] ELSE told
    /\ UNCHANGED <<mode, byHand>>

\* Takes every answer that arrives for a success.
PostRefusedUnread(n) ==
    /\ call[n].step = "post"
    /\ Finish(n, "ok")
    /\ UNCHANGED <<mode, item, byHand, outbound, told>>

\* Unreachable, or refused with a status that _handle_response makes an error of.
PostRefused(n) ==
    /\ call[n].step = "post"
    /\ Finish(n, "error")
    /\ UNCHANGED <<mode, item, byHand, outbound, told>>

\* Sends the request again when it times out.
PostLateResent(n) ==
    /\ call[n].step = "post"
    /\ Serve(n)
    /\ call' = [call EXCEPT ![n].step = "over", ![n].answer = "error",
                            ![n].flying = TRUE, ![n].served = @ + 1]
    /\ UNCHANGED <<mode, byHand, told>>

\* The client gives up ("fazle-core request timed out") while the request is on its
\* way; it is not sent again.
PostLate(n) ==
    /\ call[n].step = "post"
    /\ call' = [call EXCEPT ![n].step = "over", ![n].answer = "error",
                            ![n].flying = TRUE]
    /\ UNCHANGED <<mode, item, byHand, outbound, told>>

\* The process is killed with its turn, before or after sending.
Crash(n) ==
    /\ Active(n)
    /\ \E flying \in BOOLEAN :
         /\ flying => call[n].step = "post"
         /\ call' = [call EXCEPT ![n].step = "over", ![n].flying = flying]
    /\ UNCHANGED <<mode, item, byHand, outbound, told>>

ServeLate(n) ==
    /\ call[n].flying
    /\ Serve(n)
    /\ call' = [call EXCEPT ![n].flying = FALSE, ![n].served = @ + 1]
    /\ UNCHANGED <<mode, byHand, told>>

RefuseLate(n) ==
    /\ call[n].flying
    /\ call' = [call EXCEPT ![n].flying = FALSE]
    /\ UNCHANGED <<mode, item, byHand, outbound, told>>

\* check_outbound_status, by the queue id or the recipient, hands on the row's status;
\* it has no gate.
CheckOutboundStatus(n) ==
    /\ outbound[n] # "none"
    /\ told' = [told EXCEPT ![n] = outbound[n]]
    /\ UNCHANGED <<mode, item, byHand, call, outbound>>

Next ==
    \/ SwitchMode \/ ReviewByHand \/ WorkQueue
    \/ \E i \in Item : DraftWhatsappReply(i)
    \/ \E n \in Numbers :
         \/ Begin(n) \/ PassGate(n) \/ PostServed(n) \/ PostRefused(n) \/ PostLate(n)
         \/ Crash(n) \/ ServeLate(n) \/ RefuseLate(n) \/ CheckOutboundStatus(n)

Spec == Init /\ [][Next]_vars

-----------------------------------------------------------------------------
(* Properties. *)

\* Every change, even one served after its caller gave up or died, comes of a
\* confirmed call during which RUN was in force.
ChangeIsAuthorised ==
    \A n \in Numbers :
        call[n].served > 0 \/ call[n].flying => call[n].confirm /\ call[n].run

\* The answer is true and stays true: success means this very call's change was
\* made and the row shows its decision ever after, a denial that it was not made and
\* never will be.
AnswerIsTrue ==
    \A n \in Numbers :
        /\ call[n].answer = "ok" =>
             /\ call[n].served > 0
             /\ call[n].tool \in ApproveTools => item[call[n].item] = "approved"
             /\ call[n].tool \in RejectTools => item[call[n].item] = "rejected"
        /\ call[n].answer = "denied" => call[n].served = 0 /\ ~call[n].flying

\* One call changes things at most once: a timeout is answered, not resent, so a
\* repeated change always goes back to a repeated call.
OncePerCall ==
    \A n \in Numbers : call[n].served + (IF call[n].flying THEN 1 ELSE 0) <= 1

Approvals(i) == {n \in Numbers : call[n].item = i /\ call[n].tool \in ApproveTools
                                 /\ call[n].served > 0}

\* However calls are retried, raced by other processes, by people or by their
\* own late requests, a row is approved at most once, never after a rejection, and
\* only by a tool or a person that meant to approve it.
ApprovedAtMostOnce ==
    \A i \in Item :
        Cardinality(Approvals(i)) + byHand[i] = IF item[i] = "approved" THEN 1 ELSE 0

\* The caller hears "sent" only of a message the bridge has sent, whichever tool told
\* it and however the queue has moved since; and a message is queued by no other call
\* than one whose change it is.
SentMeansSent ==
    \A n \in Numbers :
        /\ told[n] = "sent" => outbound[n] = "sent"
        /\ outbound[n] # "none" => call[n].served > 0 /\ call[n].tool \in SendingTools

=============================================================================
