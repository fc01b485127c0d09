SPECIFICATION ComponentsSpec
CONSTANTS
  JobOrder <- MCJobOrder
  StaleAfter <- MCStaleAfter
  RunOutcomes <- MCRunOutcomes
  ClientId = {c1, c2}
  Mobiles <- MCMobiles
  Phones <- MCPhones
  Names = {"MV Asia", "MV Banga"}
  Within <- MCWithin
  Parts = {"none", " ", "asia", "mv"}
  NoPart = "none"
  TailLength = 2
  Employee = {e1, e2}
  Nobody = Nobody
  Decisions = {d1, d2}
  MaxSends = 2
  None = None
  DefaultLines = 2
  MostLines = 3
  SmallLines = 3
  MaxLength = 5
  Phrases = {"rm_-rf", "git_push", "--force", "-f", "git_commit", "psql", "DELETE_FROM", "WHERE", "systemctl_restart", "pytest", "git_log", "cat", "sed_-i"}
  MaxPhrases = 4
INVARIANTS
  ComponentsTypeOK
  RetriesOnce
  VerdictIsWorst
  FoundIsTheOnlyMatch
  PagesCover
PROPERTIES
  StaleTokenHeals
  ReportEnds
  VerdictWasTrue
  HealthyMeansRunning
  NoLostUpdate
  NoLineTwice
  ApprovalSurvivesChaining
