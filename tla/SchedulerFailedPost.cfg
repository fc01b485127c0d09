SPECIFICATION Spec
CONSTANTS
  Proc = {p1}
  Jobs = {"lock_cleanup"}
  Window = 2
  MaxTime = 3
PROPERTY
  DenialMeansTriggered
