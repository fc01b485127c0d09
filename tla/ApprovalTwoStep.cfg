SPECIFICATION FairSpec
CONSTANTS
  Proc = {p1, p2}
  Task = {t1}
  Action = {a1}
  NoTask = NoTask
  NoAction = NoAction
  Kinds = {"opencode_dispatch", "billing_mutation"}
  Tools = {"propose_action", "approve_action", "reject_action", "record_execution_result", "opencode_dispatch"}
  MaxLate = 1
INVARIANTS
  ExecutionIsApproved
  ExecutionIsCurrent
PROPERTIES
  CallsReturn
  LedgerIsImplemented
