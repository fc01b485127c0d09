SPECIFICATION Spec
CONSTANTS
  Proc = {p1, p2}
  Task = {t1, t2}
  Action = {a1}
  NoTask = NoTask
  NoAction = NoAction
  Kinds = {"dispatch_assignment"}
  Tools = {"authorize_build", "authorize_action", "record_execution_result", "dispatch_assign_program"}
  MaxLate = 1
SYMMETRY Symmetry
INVARIANTS
  TypeOK
  GrantIsAuthorised
  IInv
