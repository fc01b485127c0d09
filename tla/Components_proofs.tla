-------------------------- MODULE Components_proofs --------------------------
(***************************************************************************)
(* Side by side: a behaviour of all the components is one of each of them, *)
(* so that whatever was proved of one alone holds of it among the others.  *)
(***************************************************************************)
EXTENDS MCComponents, StaleReads_proofs, Reports_proofs, Decisions_proofs

\* A step of one component is a step of it, or leaves it alone.
LEMMA StepOfEach ==
    [ComponentsNext]_componentsVars =>
      /\ [ReportsNext]_reportsVars /\ [MonitoringNext]_monitoringVars
      /\ [ResolutionNext]_resolutionVars /\ [DispatchNext]_dispatchVars
      /\ [AuditNext]_auditVars /\ [PolicyNext]_command
      /\ component \in Components => component' \in Components
  <1>1. CASE ComponentsNext
    <2>1. CASE CoreReportsNext /\ OnlyReports
      BY <2>1 DEF OnlyReports, ReportsNext
    <2>2. CASE BackendReportsNext /\ OnlyReports
      BY <2>2 DEF OnlyReports, ReportsNext
    <2>3. CASE MonitoringNext /\ OnlyMonitoring
      BY <2>3 DEF OnlyMonitoring
    <2>4. CASE ResolutionNext /\ OnlyResolution
      BY <2>4 DEF OnlyResolution
    <2>5. CASE DispatchNext /\ OnlyDispatch
      BY <2>5 DEF OnlyDispatch
    <2>6. CASE AuditNext /\ OnlyAudit
      BY <2>6 DEF OnlyAudit
    <2>7. CASE PolicyNext /\ OnlyPolicy
      BY <2>7 DEF OnlyPolicy
    <2> QED
      BY <1>1, <2>1, <2>2, <2>3, <2>4, <2>5, <2>6, <2>7 DEF ComponentsNext
  <1>2. CASE UNCHANGED componentsVars
    BY <1>2 DEF componentsVars
  <1> QED
    BY <1>1, <1>2

LEMMA InitOfEach ==
    ComponentsInit =>
      /\ ReportsInit /\ MonitoringInit /\ ResolutionInit
      /\ DispatchInit /\ AuditInit /\ PolicyInit
      /\ component \in Components
  BY DEF ComponentsInit

\* Put side by side, every component still does what its own specification says, its
\* fairness included (the reports', MonitoringReport's clock).
THEOREM ComponentsKeepTheirSpecs ==
    ComponentsSpec => /\ ReportsSpec /\ MonitoringSpec /\ ResolutionSpec
                      /\ DispatchSpec /\ AuditSpec /\ PolicySpec
  BY InitOfEach, StepOfEach, PTL
     DEF ComponentsSpec, ReportsSpec, MonitoringSpec, ResolutionSpec, DispatchSpec,
         AuditSpec, PolicySpec

\* The type of everything the components keep, in every state of all of them.
THEOREM ComponentsTypeCorrect == ComponentsSpec => []ComponentsTypeOK
  <1>1. TypeOK /\ ReportsTypeOK /\ MonitoringTypeOK /\ ResolutionTypeOK
          /\ DispatchTypeOK /\ AuditTypeOK /\ PolicyTypeOK /\ component \in Components
          => ComponentsTypeOK
    BY DEF ComponentsTypeOK
  <1>2. ComponentsSpec => [](component \in Components)
    <2>1. component \in Components /\ [ComponentsNext]_componentsVars => (component \in Components)'
      BY StepOfEach
    <2>2. ComponentsInit => component \in Components
      BY InitOfEach
    <2> QED
      BY <2>1, <2>2, PTL DEF ComponentsSpec
  <1>3. ReportsSpec => []TypeOK
    <2>1. SessionInv => TypeOK
      BY Zenon DEF SessionInv, Flags, Kinds, TypeOK
    <2> QED
      BY <2>1, ReportsUseTheSession, SessionInitInv, SessionNextInv, PTL
  <1> QED
    BY <1>1, <1>2, <1>3, ComponentsKeepTheirSpecs, ReportsTypeCorrect, MonitoringTypeCorrect,
       ResolutionTypeCorrect, DispatchTypeCorrect, AuditTypeCorrect, PolicyTypeCorrect, PTL

\* What was proved of each alone holds of it among the others: all that the run of the
\* components checks, but for the two liveness properties.
THEOREM ComponentsKeepTheirPromises ==
    ComponentsSpec => /\ [](RetriesOnce /\ VerdictIsWorst /\ FoundIsTheOnlyMatch /\ PagesCover)
                      /\ StaleTokenHeals /\ VerdictWasTrue /\ NoLostUpdate
                      /\ NoLineTwice /\ ApprovalSurvivesChaining
  <1>1. ResolutionSpec => []FoundIsTheOnlyMatch
    BY OnlyMatchIsFound, MCTelephones
  <1> QED
    BY <1>1, ComponentsKeepTheirSpecs, ReportsRetryOnce, VerdictsAreWorst, PagesAreComplete,
       VerdictsWereTrue, UpdatesAreNotLost, LinesComeOnce, ApprovalsSurviveChaining, PTL

=============================================================================
