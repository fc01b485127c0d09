---------------------------- MODULE MCComponents ----------------------------
(***************************************************************************)
(* The components that share no state with one another, checked side by    *)
(* side: a behaviour is one of one component, chosen in its first state,   *)
(* and the others stay as they began.                                      *)
(***************************************************************************)
EXTENDS DomainReports, MonitoringReport, ClientResolution, DispatchAssign, AuditPages,
        ActionPolicy

VARIABLE component

componentsVars ==
    <<component, reportsVars, monitoringVars, resolutionVars, dispatchVars, auditVars, command>>

MCJobOrder == <<"bridge_watchdog", "dlq_alert">>
MCStaleAfter == [j \in {"bridge_watchdog", "dlq_alert"} |-> 1]

\* A good run, one that leaves an error text, one that failed without a text, and
\* rows whose last_run_at has no offset or cannot be read.
MCRunOutcomes ==
    {[status |-> "ok", error |-> FALSE, stamp |-> "aware"],
     [status |-> "ok", error |-> TRUE, stamp |-> "aware"],
     [status |-> "error", error |-> FALSE, stamp |-> "none"],
     [status |-> "ok", error |-> FALSE, stamp |-> "naive"],
     [status |-> "ok", error |-> FALSE, stamp |-> "bad"]}

\* Two telephones in several forms, one without a country or a trunk prefix that is too
\* short to be one of them, and one without digits.
MCMobiles ==
    {<<>>, <<"0", "1", "7">>, <<"+", "8", "8", "0", "-", "1", "7">>, <<"0", "7", "-", "7">>}
MCPhones ==
    {<<>>, <<"0", "1", "7">>, <<"8", "8", "0", "1", "7">>, <<"8", "8", "0", "7", "7">>,
     <<"7">>, <<"-">>}
MCWithin ==
    {<<"asia", "MV Asia">>, <<"mv", "MV Asia">>, <<"mv", "MV Banga">>,
     <<" ", "MV Asia">>, <<" ", "MV Banga">>}

\* Among these, agreeing in the last digits is being the same telephone.
ASSUME MCTelephones == Last10TellsTelephones

Components ==
    {"reports_on_fazle_core", "reports_on_the_backend", "monitoring", "client_resolution",
     "dispatch", "audit_pages", "action_policy"}

ComponentsTypeOK ==
    /\ component \in Components
    /\ TypeOK /\ ReportsTypeOK /\ MonitoringTypeOK /\ ResolutionTypeOK
    /\ DispatchTypeOK /\ AuditTypeOK /\ PolicyTypeOK

ComponentsInit ==
    /\ component \in Components
    /\ ReportsInit /\ MonitoringInit /\ ResolutionInit
    /\ DispatchInit /\ AuditInit /\ PolicyInit

OnlyReports ==
    UNCHANGED <<component, monitoringVars, resolutionVars, dispatchVars, auditVars, command>>
OnlyMonitoring ==
    UNCHANGED <<component, reportsVars, resolutionVars, dispatchVars, auditVars, command>>
OnlyResolution ==
    UNCHANGED <<component, reportsVars, monitoringVars, dispatchVars, auditVars, command>>
OnlyDispatch ==
    UNCHANGED <<component, reportsVars, monitoringVars, resolutionVars, auditVars, command>>
OnlyAudit ==
    UNCHANGED <<component, reportsVars, monitoringVars, resolutionVars, dispatchVars, command>>
OnlyPolicy ==
    UNCHANGED <<component, reportsVars, monitoringVars, resolutionVars, dispatchVars, auditVars>>

ComponentsNext ==
    \/ component = "reports_on_fazle_core" /\ CoreReportsNext /\ OnlyReports
    \/ component = "reports_on_the_backend" /\ BackendReportsNext /\ OnlyReports
    \/ component = "monitoring" /\ MonitoringNext /\ OnlyMonitoring
    \/ component = "client_resolution" /\ ResolutionNext /\ OnlyResolution
    \/ component = "dispatch" /\ DispatchNext /\ OnlyDispatch
    \/ component = "audit_pages" /\ AuditNext /\ OnlyAudit
    \/ component = "action_policy" /\ PolicyNext /\ OnlyPolicy

\* The fairness of each; that of a component that was not chosen asks for nothing.
ComponentsSpec ==
    /\ ComponentsInit /\ [][ComponentsNext]_componentsVars
    /\ ReportsFairness /\ WF_monitoringVars(MonitoringTick)

=============================================================================
