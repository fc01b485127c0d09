---------------------------- MODULE ToolCatalog ----------------------------
(***************************************************************************)
(* The tools of the propose / approve / execute flow, by the gate they     *)
(* stand behind, and the action type each hard-gated one demands of the    *)
(* approval it is given.                                                   *)
(***************************************************************************)

DispatchTools ==
    {"dispatch_assign_program", "dispatch_unassign_program", "dispatch_replace_escort"}
BillingTools ==
    {"generate_bill", "mark_bill_paid", "create_client_billing_profile",
     "update_client_billing_profile", "delete_client_billing_profile"}
EscortTools == {"create_escort_program"}
OpencodeTools == {"opencode_dispatch"}

ExecTools == DispatchTools \union BillingTools \union EscortTools \union OpencodeTools

\* Behind task_tools._gate.
DecisionTools == {"approve_action", "reject_action", "authorize_action"}

\* Planning bookkeeping, no gate at all.
UngatedTools == {"propose_action", "record_execution_result", "authorize_build"}

AllTools == ExecTools \union DecisionTools \union UngatedTools

\* The tools that make a request, and those that are given the id of one.
RequestingTools == {"propose_action", "authorize_action"}
OnActionTools == {"approve_action", "reject_action", "record_execution_result"}

ActionTypes ==
    {"dispatch_assignment", "billing_mutation", "escort_program_creation",
     "opencode_dispatch", "git_commit"}

\* ACTION_TYPE of the tool's module.
RequiredType(tool) ==
    IF tool \in DispatchTools THEN "dispatch_assignment"
    ELSE IF tool \in BillingTools THEN "billing_mutation"
    ELSE IF tool \in EscortTools THEN "escort_program_creation"
    ELSE "opencode_dispatch"

=============================================================================
