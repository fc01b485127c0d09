--------------------------- MODULE ActionApproval ---------------------------
(***************************************************************************)
(* The propose / approve / execute flow of fazle-mcp.                      *)
(*                                                                         *)
(* A consequential change is first an action-approval request kept by      *)
(* fazle-core.  An admin's instruction turns it into an approval, through  *)
(* approve_action or through the fused authorize_action, and only then may *)
(* a hard-gated tool (dispatch, billing, escort program, OpenCode) quote   *)
(* its id and change something.  Several fazle-mcp processes run at once,  *)
(* one per Hermes turn; each makes one tool call at a time, and a call is  *)
(* a sequence of separate reads (the approval, the mode file, the task)    *)
(* before the one request that changes something.  Between two of those    *)
(* steps anything else may happen: the mode is switched or lapses, a build *)
(* authorization lapses, another process approves, rejects, executes or    *)
(* records, the process dies, a request is lost, answered after the caller *)
(* gave up, or served after it gave up.                                    *)
(*                                                                         *)
(* mode is what _read_mode would answer now (ModeFile gives that reading   *)
(* and ModeReport what it is worth); build holds the tasks whose lookup    *)
(* would answer with a live BUILD authorization.  fazle-core is not in the *)
(* repository: Serve is external, modelled from what the tools' docstrings *)
(* and gates rely on.  The status of a task, which fazle-core moves along  *)
(* with its actions, and the link from an action to its task are projected *)
(* away: no gate reads them.                                               *)
(***************************************************************************)
EXTENDS FiniteSets, ModeFile, ToolCatalog

CONSTANTS Proc,     \* fazle-mcp processes
          Task,     \* task ids
          Action,   \* action-approval ids
          NoTask,   \* task_id = None
          NoAction, \* approved_action_id missing
          Kinds,    \* the action types proposed in a run
          Tools,    \* the tools called in a run
          MaxLate   \* bound: requests in flight whose caller has given up

ASSUME NoTaskAssumption == NoTask \notin Task
ASSUME NoActionAssumption == NoAction \notin Action
ASSUME MaxLateAssumption == MaxLate \in Nat

ASSUME KindsAssumption == Kinds \subseteq ActionTypes
ASSUME ToolsAssumption == Tools \subseteq AllTools

-----------------------------------------------------------------------------
VARIABLES
    mode,         \* what the gates read from the mode file
    build,        \* the tasks with a live BUILD authorization
    status,       \* status[a]: the row of hermes_action_approvals
    kind,         \* kind[a]: its action_type
    late,         \* requests still on their way, nobody waits for the answer
    call,         \* call[p]: the tool call process p is in, or its result
    \* History, read by the properties alone.
    witnessed,    \* witnessed[p]: what held at some instant of p's call
    warrant,      \* warrant[a]: what the call that approved a witnessed
    ran           \* the changes hard-gated tools have made

ledger == <<status, kind, build, warrant, ran>>
vars == <<mode, build, status, kind, late, call, witnessed, warrant, ran>>

Statuses == {"none", "pending", "approved", "rejected", "executed"}
Steps == {"idle", "check", "mode", "lookup", "label", "session", "post"}
Paths == {"none", "RUN", "TASK_BUILD_AUTHORIZED"}

NoCall == [tool |-> "none", step |-> "idle", action |-> NoAction, task |-> NoTask,
           kind |-> "none", confirm |-> FALSE, path |-> "none", label |-> "none"]

\* Of a call: RUN was in force; the task it names carried a live authorization;
\* the approval it quotes stood approved.
Witness == [run : BOOLEAN, live : BOOLEAN, approved : BOOLEAN]
NothingSeen == [run |-> FALSE, live |-> FALSE, approved |-> FALSE]

Calls ==
    [tool : AllTools \union {"none"}, step : Steps, action : Action \union {NoAction},
     task : Task \union {NoTask}, kind : ActionTypes \union {"none"},
     confirm : BOOLEAN, path : Paths, label : Paths]

Requests ==
    [tool : AllTools, action : Action \union {NoAction}, task : Task \union {NoTask},
     kind : ActionTypes \union {"none"}, confirm : BOOLEAN, witness : Witness]

Warrants == [confirm : BOOLEAN, witness : Witness]

Executions ==
    [tool : ExecTools, action : Action \union {NoAction}, confirm : BOOLEAN,
     witness : Witness]

TypeOK ==
    /\ mode \in Modes
    /\ build \in SUBSET Task
    /\ status \in [Action -> Statuses]
    /\ kind \in [Action -> ActionTypes \union {"none"}]
    /\ late \in SUBSET Requests
    /\ call \in [Proc -> Calls]
    /\ witnessed \in [Proc -> Witness]
    /\ warrant \in [Action -> Warrants]
    /\ ran \in SUBSET Executions

Init ==
    /\ mode = "READ"
    /\ build = {}
    /\ status = [a \in Action |-> "none"]
    /\ kind = [a \in Action |-> "none"]
    /\ late = {}
    /\ call = [p \in Proc |-> NoCall]
    /\ witnessed = [p \in Proc |-> NothingSeen]
    /\ warrant = [a \in Action |-> [confirm |-> FALSE, witness |-> NothingSeen]]
    /\ ran = {}

Active(p) == call[p].step # "idle"

\* What call c may rest on in a state where the mode is m, the authorizations
\* are b and the approvals stand as in st.  Bookkeeping tools rest on nothing.
Sees(c, m, b, st) ==
    IF c.tool \in ExecTools \union DecisionTools
    THEN [run |-> m = "RUN", live |-> c.task \in b,
          approved |-> c.action \in Action /\ st[c.action] = "approved"]
    ELSE NothingSeen

Either(w, v) ==
    [run |-> w.run \/ v.run, live |-> w.live \/ v.live,
     approved |-> w.approved \/ v.approved]

\* The history of a call: it starts with the call, gathers what holds in every
\* state of it, and is forgotten when it ends.
Observe ==
    witnessed' = [p \in Proc |->
        IF Active(p)'
        THEN Either(IF Active(p) THEN witnessed[p] ELSE NothingSeen,
                    Sees(call'[p], mode', build', status'))
        ELSE NothingSeen]

-----------------------------------------------------------------------------
(* The environment. *)

\* hermes-runner switches the mode, or its TTL lapses.
SwitchMode ==
    /\ \E m \in Modes \ {mode} : mode' = m
    /\ UNCHANGED <<ledger, late, call>>
    /\ Observe

\* build_expires_at passes.
BuildLapses ==
    /\ \E t \in build : build' = build \ {t}
    /\ UNCHANGED <<mode, status, kind, warrant, ran, late, call>>
    /\ Observe

-----------------------------------------------------------------------------
(* fazle-core, as the tools rely on it. *)

WarrantOf(r) == [confirm |-> r.confirm, witness |-> r.witness]

\* POST /api/actions: a new pending row.
ServePropose(r) ==
    /\ r.tool = "propose_action"
    /\ \E a \in Action :
         /\ status[a] = "none"
         /\ status' = [status EXCEPT ![a] = "pending"]
         /\ kind' = [kind EXCEPT ![a] = r.kind]
    /\ UNCHANGED <<build, warrant, ran>>

\* POST /api/actions/authorize: a new row, already approved.
ServeAuthorize(r) ==
    /\ r.tool = "authorize_action"
    /\ \E a \in Action :
         /\ status[a] = "none"
         /\ status' = [status EXCEPT ![a] = "approved"]
         /\ kind' = [kind EXCEPT ![a] = r.kind]
         /\ warrant' = [warrant EXCEPT ![a] = WarrantOf(r)]
    /\ UNCHANGED <<build, ran>>

\* Only a pending request is decided.
ServeApprove(r) ==
    /\ r.tool = "approve_action"
    /\ status[r.action] = "pending"
    /\ status' = [status EXCEPT ![r.action] = "approved"]
    /\ warrant' = [warrant EXCEPT ![r.action] = WarrantOf(r)]
    /\ UNCHANGED <<kind, build, ran>>

ServeReject(r) ==
    /\ r.tool = "reject_action"
    /\ status[r.action] = "pending"
    /\ status' = [status EXCEPT ![r.action] = "rejected"]
    /\ UNCHANGED <<kind, build, warrant, ran>>

\* "only valid from status='approved'".
ServeRecord(r) ==
    /\ r.tool = "record_execution_result"
    /\ status[r.action] = "approved"
    /\ status' = [status EXCEPT ![r.action] = "executed"]
    /\ UNCHANGED <<kind, build, warrant, ran>>

ServeAuthorizeBuild(r) ==
    /\ r.tool = "authorize_build"
    /\ build' = build \union {r.task}
    /\ UNCHANGED <<status, kind, warrant, ran>>

\* The business routes and OpenCode do not see the approval: the tool's own gate
\* is all there is between the caller and the change.
ServeExecute(r) ==
    /\ r.tool \in ExecTools
    /\ ran' = ran \union {[tool |-> r.tool, action |-> r.action,
                           confirm |-> r.confirm, witness |-> r.witness]}
    /\ UNCHANGED <<status, kind, build, warrant>>

Serve(r) ==
    \/ ServePropose(r) \/ ServeAuthorize(r) \/ ServeApprove(r) \/ ServeReject(r)
    \/ ServeRecord(r) \/ ServeAuthorizeBuild(r) \/ ServeExecute(r)

-----------------------------------------------------------------------------
(* A tool call, step by step. *)

\* What a caller may pass; only authorize_action's task_id is optional, and only the
\* executing tools can be called without an approval to quote.
Arguments(tool) ==
    [action  : IF tool \in ExecTools THEN Action \union {NoAction}
               ELSE IF tool \in OnActionTools THEN Action ELSE {NoAction},
     task    : IF tool = "authorize_build" THEN Task
               ELSE IF tool = "authorize_action" THEN Task \union {NoTask} ELSE {NoTask},
     kind    : IF tool \in RequestingTools THEN Kinds ELSE {"none"},
     confirm : IF tool \in UngatedTools THEN {FALSE} ELSE BOOLEAN]

\* What a tool does first: check the approval it quotes, read the mode, or post.
FirstStep(tool) ==
    IF tool \in ExecTools THEN "check"
    ELSE IF tool \in DecisionTools THEN "mode" ELSE "post"

Begin(p) ==
    /\ ~Active(p)
    /\ \E tool \in Tools : \E args \in Arguments(tool) :
         call' = [call EXCEPT ![p] =
             [NoCall EXCEPT !.tool = tool, !.step = FirstStep(tool),
                            !.action = args.action, !.task = args.task,
                            !.kind = args.kind, !.confirm = args.confirm]]
    /\ UNCHANGED <<mode, ledger, late>>
    /\ Observe

\* Returning to the caller.  Of all the answers only the label of a successful
\* authorize_action is looked at again.
Return(p) == call' = [call EXCEPT ![p] = NoCall]

ReturnLabelled(p) ==
    call' = [call EXCEPT ![p] =
        [NoCall EXCEPT !.path = call[p].path, !.label = call[p].label]]

Continue(p, step) == call' = [call EXCEPT ![p].step = step]

\* The gate takes any status but "pending" for an approval.
UsableDecided(a, tool) ==
    /\ a \in Action
    /\ status[a] \in {"approved", "executed"}
    /\ kind[a] = RequiredType(tool)

\* The gate does not compare the action type.
UsableAnyType(a, tool) == a \in Action /\ status[a] = "approved"

\* The gate looks at the type and forgets the status.
UsableAnyStatus(a, tool) == a \in Action /\ kind[a] = RequiredType(tool)

\* _require_approved_action: a genuinely approved, correctly typed action.
Usable(a, tool) ==
    /\ a \in Action
    /\ status[a] = "approved"
    /\ kind[a] = RequiredType(tool)

\* GET /api/actions/{id}: denied when the id is missing, the row cannot be read,
\* is not approved or is of another type.
CheckApproval(p) ==
    /\ call[p].step = "check"
    /\ \/ Usable(call[p].action, call[p].tool) /\ Continue(p, "mode")
       \/ Return(p)
    /\ UNCHANGED <<mode, ledger, late>>
    /\ Observe

\* Where a call goes once the gate has let it through.
Onward(tool) ==
    IF tool = "authorize_action" THEN "label"
    ELSE IF tool \in OpencodeTools THEN "session" ELSE "post"

\* The task is not asked for: any live BUILD authorization will do.
AuthorizedAnywhere(t) == build # {}

\* _task_build_authorized: a live, unexpired BUILD authorization on this task.
TaskBuildAuthorized(t) == t \in build

\* BUILD is let through as well as RUN.
GatePassesInBuild(p) == mode \in {"BUILD", "RUN"} /\ call[p].confirm

\* The part of _gate that RUN alone satisfies.
GatePasses(p) == mode = "RUN" /\ call[p].confirm

\* The path by which the gate was passed, for the tool that tells.
PathOf(tool, path) == IF tool = "authorize_action" THEN path ELSE "none"

\* A gate that waits for the right mode instead of denying.
PassGateWaiting(p) ==
    /\ call[p].step = "mode"
    /\ GatePasses(p)
    /\ call' = [call EXCEPT ![p].step = Onward(call[p].tool),
                            ![p].path = PathOf(call[p].tool, "RUN")]
    /\ UNCHANGED <<mode, ledger, late>>
    /\ Observe

\* _gate reads the mode file.  RUN and confirm=True pass; outside RUN only
\* authorize_action on a task goes on to ask for the task's own authorization.
PassGate(p) ==
    /\ call[p].step = "mode"
    /\ \/ /\ GatePasses(p)
          /\ call' = [call EXCEPT ![p].step = Onward(call[p].tool),
                                  ![p].path = PathOf(call[p].tool, "RUN")]
       \/ /\ mode # "RUN"
          /\ call[p].tool = "authorize_action"
          /\ call[p].task \in Task
          /\ Continue(p, "lookup")
       \/ /\ ~GatePasses(p)
          /\ mode = "RUN" \/ call[p].tool # "authorize_action" \/ call[p].task = NoTask
          /\ Return(p)
    /\ UNCHANGED <<mode, ledger, late>>
    /\ Observe

\* GET /api/tasks/{id}, fail-closed: any lookup failure is a denial.
LookupTask(p) ==
    /\ call[p].step = "lookup"
    /\ \/ /\ TaskBuildAuthorized(call[p].task) /\ call[p].confirm
          /\ call' = [call EXCEPT ![p].step = "label",
                                  ![p].path = "TASK_BUILD_AUTHORIZED"]
       \/ Return(p)
    /\ UNCHANGED <<mode, ledger, late>>
    /\ Observe

\* Answers with the bare mode instead of the name of the path.
ReadLabelRaw(p) ==
    /\ call[p].step = "label"
    /\ call' = [call EXCEPT ![p].step = "post", ![p].label = mode]
    /\ UNCHANGED <<mode, ledger, late>>
    /\ Observe

\* authorize_action reads the mode file a second time to say how it was let through.
ReadLabel(p) ==
    /\ call[p].step = "label"
    /\ call' = [call EXCEPT ![p].step = "post",
                            ![p].label = IF mode = "RUN" THEN "RUN"
                                         ELSE "TASK_BUILD_AUTHORIZED"]
    /\ UNCHANGED <<mode, ledger, late>>
    /\ Observe

\* opencode_dispatch creates a session before it sends the prompt; when that
\* fails the prompt is never sent.
OpenSession(p) ==
    /\ call[p].step = "session"
    /\ Continue(p, "post") \/ Return(p)
    /\ UNCHANGED <<mode, ledger, late>>
    /\ Observe

Request(p) ==
    [tool |-> call[p].tool, action |-> call[p].action, task |-> call[p].task,
     kind |-> call[p].kind, confirm |-> call[p].confirm, witness |-> witnessed[p]]

\* The request is served; the answer arrives, or is lost or times out on its way.
PostServed(p) ==
    /\ call[p].step = "post"
    /\ Serve(Request(p))
    /\ ReturnLabelled(p) \/ Return(p)
    /\ UNCHANGED <<mode, late>>
    /\ Observe

\* It never arrives, or fazle-core refuses it.
PostRefused(p) ==
    /\ call[p].step = "post"
    /\ Return(p)
    /\ UNCHANGED <<mode, ledger, late>>
    /\ Observe

\* The client times out while the request is still on its way.
PostLate(p) ==
    /\ call[p].step = "post"
    /\ Cardinality(late) < MaxLate
    /\ late' = late \union {Request(p)}
    /\ Return(p)
    /\ UNCHANGED <<mode, ledger>>
    /\ Observe

\* The process is killed with its Hermes turn, before or after sending.
Crash(p) ==
    /\ Active(p)
    /\ call' = [call EXCEPT ![p] = NoCall]
    /\ \/ late' = late
       \/ /\ call[p].step = "post"
          /\ Cardinality(late) < MaxLate
          /\ late' = late \union {Request(p)}
    /\ UNCHANGED <<mode, ledger>>
    /\ Observe

ServeLate ==
    /\ \E r \in late : Serve(r) /\ late' = late \ {r}
    /\ UNCHANGED <<mode, call>>
    /\ Observe

RefuseLate ==
    /\ \E r \in late : late' = late \ {r}
    /\ UNCHANGED <<mode, ledger, call>>
    /\ Observe

\* The steps of a call in progress, those its HTTP timeouts bound.
Advance(p) ==
    \/ CheckApproval(p) \/ PassGate(p) \/ LookupTask(p) \/ ReadLabel(p)
    \/ OpenSession(p) \/ PostServed(p) \/ PostRefused(p) \/ PostLate(p)

Next ==
    \/ SwitchMode \/ BuildLapses
    \/ \E p \in Proc : Begin(p) \/ Advance(p) \/ Crash(p)
    \/ ServeLate \/ RefuseLate

Spec == Init /\ [][Next]_vars

\* Every request has a timeout, so a call in progress always comes to its next
\* step; nobody is obliged to call, to switch a mode or to serve a late request.
Fairness == \A p \in Proc : WF_vars(Advance(p))

FairSpec == Spec /\ Fairness

-----------------------------------------------------------------------------
(* What a call has gathered by the time it is where it is: the strengthening
   that makes the properties below inductive. *)

\* The authority behind a request that is sent, waiting or served late.
Justified(r) ==
    /\ r.tool = "authorize_action" => r.confirm /\ (r.witness.run \/ r.witness.live)
    /\ r.tool \in {"approve_action", "reject_action"} => r.confirm /\ r.witness.run
    /\ r.tool \in ExecTools =>
         /\ r.confirm /\ r.witness.run /\ r.witness.approved
         /\ r.action \in Action
         /\ status[r.action] \in {"approved", "executed"}
         /\ kind[r.action] = RequiredType(r.tool)

\* A call in progress holds, for the step it is at, what the steps behind it
\* established; a lapse or a switch of the environment takes nothing of it away.
CallIsJustified(p) ==
    LET c == call[p] IN
    /\ c.step = "check" => c.tool \in ExecTools
    /\ c.step = "mode" => c.tool \in ExecTools \union DecisionTools
    /\ c.step \in {"lookup", "label"} => c.tool = "authorize_action"
    /\ c.step = "session" => c.tool \in OpencodeTools
    /\ c.step \in {"label", "session", "post"} => Justified(Request(p))
    /\ c.step = "mode" /\ c.tool \in ExecTools =>
         /\ witnessed[p].approved
         /\ c.action \in Action
         /\ status[c.action] \in {"approved", "executed"}
         /\ kind[c.action] = RequiredType(c.tool)

CallsAreJustified == \A p \in Proc : CallIsJustified(p)

LateIsJustified == \A r \in late : Justified(r)

\* The history of a gated call includes the present state.
WitnessIsFresh ==
    \A p \in Proc : Active(p) =>
        LET now == Sees(call[p], mode, build, status) IN
        /\ now.run => witnessed[p].run
        /\ now.live => witnessed[p].live
        /\ now.approved => witnessed[p].approved

\* The arguments are those the tool takes.
Fits(r) ==
    /\ r.tool \in OnActionTools => r.action \in Action
    /\ r.tool \in RequestingTools => r.kind \in ActionTypes
    /\ r.tool = "authorize_build" => r.task \in Task

CallFits(p) == Fits(call[p]) /\ (Active(p) => call[p].tool \in AllTools)

ArgumentsFit ==
    /\ \A p \in Proc : CallFits(p)
    /\ \A r \in late : Fits(r)

-----------------------------------------------------------------------------
(* Properties. *)

\* An approval exists only on an admin's authority over that very action: the
\* call that made it carried confirm=True, and while it was in progress either
\* RUN was in force or, on the fused path alone, the action's own task carried a
\* live BUILD authorization.  Another task's authorization, or one that had
\* lapsed before the call began, never counts.
GrantIsAuthorised ==
    \A a \in Action : status[a] \in {"approved", "executed"} =>
        /\ warrant[a].confirm
        /\ warrant[a].witness.run \/ warrant[a].witness.live

\* Whatever a hard-gated tool changes, even by a request served after its caller
\* gave up, it changes under an approval of its own type that stands or has been
\* recorded as executed, never one pending or rejected.
ExecutionIsApproved ==
    \A e \in ran :
        /\ e.action \in Action
        /\ status[e.action] \in {"approved", "executed"}
        /\ kind[e.action] = RequiredType(e.tool)

\* And the reads it rests on are those of the same call: the approval was still
\* open (not yet recorded as executed) and RUN in force at some instant of the
\* call, and the call was confirmed.  What an earlier call saw never counts.
ExecutionIsCurrent ==
    \A e \in ran : e.witness.approved /\ e.witness.run /\ e.confirm

\* Every tool call returns: no gate waits for an approval, a mode or a task.
CallsReturn == \A p \in Proc : Active(p) ~> ~Active(p)

\* "RUN only if the global mode genuinely was RUN; a task-scoped BUILD
\* authorization satisfying it instead [...] gets its own label": the label an
\* authorize_action answers with names the path its gate took.  Refuted.
LabelIsHonest == \A p \in Proc : ~Active(p) => call[p].label = call[p].path

\* The whole of it implements the ledger that promises it.
Ledger == INSTANCE ApprovalLedger WITH done <- {<<e.tool, e.action>> : e \in ran}

LedgerIsImplemented == Ledger!Spec

\* Checked and proved inductive.
IInv ==
    /\ TypeOK /\ ArgumentsFit /\ WitnessIsFresh
    /\ CallsAreJustified /\ LateIsJustified
    /\ GrantIsAuthorised /\ ExecutionIsApproved /\ ExecutionIsCurrent

=============================================================================
