SPECIFICATION Spec
CONSTANTS
  MaxTime = 7
  Second = 2
  Lifetimes = {1, 2, 5}
INVARIANTS
  TypeOK
  GateWithinGrant
  ReportShowsAuthority
  CountdownIsKept
PROPERTIES
  AuthorityOnlyLapses
  TtlReverts
