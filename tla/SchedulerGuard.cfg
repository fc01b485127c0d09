SPECIFICATION Spec
CONSTANTS
  Proc = {p1, p2}
  Jobs = {"lock_cleanup", "payment_reconciliation"}
  Window = 2
  MaxTime = 2
SYMMETRY Symmetry
INVARIANTS
  TypeOK
  DenialHasACause
PROPERTIES
  TriggeredMeansDenial
  TriggerIsAuthorised
