SPECIFICATION Spec
CONSTANTS
  Proc = {p1}
  Task = {t1}
  Action = {a1}
  NoTask = NoTask
  NoAction = NoAction
  Kinds = {"git_commit"}
  Tools = {"authorize_build", "authorize_action"}
  MaxLate = 0
INVARIANT
  LabelIsHonest
