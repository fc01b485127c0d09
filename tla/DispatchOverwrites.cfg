SPECIFICATION DispatchSpec
CONSTANTS
  Employee = {e1, e2}
  Nobody = Nobody
  Decisions = {d1, d2}
  MaxSends = 1
PROPERTY
  NothingIsOverwritten
