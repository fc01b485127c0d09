SPECIFICATION Spec
CONSTANTS
  MaxTime = 3
  Second = 1
  Lifetimes = {2}
INVARIANT
  ReportAgreesWithGate
