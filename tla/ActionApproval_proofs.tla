----------------------- MODULE ActionApproval_proofs -----------------------
(***************************************************************************)
(* Proofs about ActionApproval, for any number of processes, tasks and     *)
(* action ids.  IInv is inductive; the three safety properties and the     *)
(* implementation of ApprovalLedger follow from it.                        *)
(***************************************************************************)
EXTENDS ActionApproval, TLAPS

(* The catalogue's groups do not overlap, which is all the proofs need of it. *)
LEMMA Catalogue ==
    /\ ExecTools \subseteq AllTools
    /\ DecisionTools \subseteq AllTools
    /\ OpencodeTools \subseteq ExecTools
    /\ ExecTools \cap DecisionTools = {}
    /\ ExecTools \cap UngatedTools = {}
    /\ ExecTools \cap OnActionTools = {}
    /\ "none" \notin AllTools
    /\ \A t \in AllTools :
         \/ t \in ExecTools
         \/ t \in {"approve_action", "reject_action", "authorize_action"}
         \/ t \in {"propose_action", "record_execution_result", "authorize_build"}
BY DEF AllTools, ExecTools, DecisionTools, UngatedTools, OnActionTools, DispatchTools,
       BillingTools, EscortTools, OpencodeTools

(* What the two dispatching operators return. *)
LEMMA StepFacts ==
    ASSUME NEW t \in AllTools
    PROVE  /\ FirstStep(t) \in {"check", "mode", "post"}
           /\ FirstStep(t) = "check" <=> t \in ExecTools
           /\ FirstStep(t) = "mode" <=> t \in DecisionTools
           /\ Onward(t) \in {"label", "session", "post"}
           /\ Onward(t) = "label" <=> t = "authorize_action"
           /\ Onward(t) = "session" => t \in OpencodeTools
           /\ RequiredType(t) \in ActionTypes
BY Catalogue DEF FirstStep, Onward, RequiredType, DecisionTools, ActionTypes

(* The arguments a call is begun with. *)
LEMMA ArgumentFacts ==
    ASSUME NEW t \in AllTools, NEW args \in Arguments(t)
    PROVE  /\ args.action \in Action \union {NoAction}
           /\ args.task \in Task \union {NoTask}
           /\ args.kind \in ActionTypes \union {"none"}
           /\ args.confirm \in BOOLEAN
           /\ t \in OnActionTools => args.action \in Action
           /\ t \in RequestingTools => args.kind \in ActionTypes
           /\ t = "authorize_build" => args.task \in Task
BY Catalogue, KindsAssumption DEF Arguments

-----------------------------------------------------------------------------
(* The history of calls. *)

LEMMA ObserveKeeps ==
    ASSUME TypeOK, Observe, call' \in [Proc -> Calls]
    PROVE  /\ witnessed' \in [Proc -> Witness]
           /\ WitnessIsFresh'
           /\ \A p \in Proc : Active(p) /\ Active(p)' =>
                /\ witnessed[p].run => witnessed'[p].run
                /\ witnessed[p].live => witnessed'[p].live
                /\ witnessed[p].approved => witnessed'[p].approved
<1>1. \A p \in Proc : Sees(call'[p], mode', build', status') \in Witness
  BY DEF Sees, Witness, NothingSeen
<1>2. \A p \in Proc : (IF Active(p) THEN witnessed[p] ELSE NothingSeen) \in Witness
  BY DEF TypeOK, Witness, NothingSeen
<1>3. \A w, v \in Witness :
         /\ Either(w, v) \in Witness
         /\ (w.run \/ v.run) => Either(w, v).run
         /\ (w.live \/ v.live) => Either(w, v).live
         /\ (w.approved \/ v.approved) => Either(w, v).approved
  BY DEF Either, Witness
<1>4. NothingSeen \in Witness
  BY DEF NothingSeen, Witness
<1>5. witnessed' \in [Proc -> Witness]
  BY <1>1, <1>2, <1>3, <1>4 DEF Observe
<1>6. ASSUME NEW p \in Proc, Active(p)'
      PROVE  witnessed'[p] = Either(IF Active(p) THEN witnessed[p] ELSE NothingSeen,
                                    Sees(call'[p], mode', build', status'))
  BY <1>6 DEF Observe
<1>7. WitnessIsFresh'
  BY <1>1, <1>2, <1>3, <1>6 DEF WitnessIsFresh
<1>8. ASSUME NEW p \in Proc, Active(p), Active(p)'
      PROVE  /\ witnessed[p].run => witnessed'[p].run
             /\ witnessed[p].live => witnessed'[p].live
             /\ witnessed[p].approved => witnessed'[p].approved
  BY <1>1, <1>2, <1>3, <1>6, <1>8
<1>9. QED
  BY <1>5, <1>7, <1>8

-----------------------------------------------------------------------------
(* fazle-core's side of a step. *)

\* A grant is never taken back nor given another type.
Kept ==
    \A a \in Action : status[a] \in {"approved", "executed"} =>
        status'[a] \in {"approved", "executed"} /\ kind'[a] = kind[a]

LedgerTyped ==
    /\ build \in SUBSET Task
    /\ status \in [Action -> Statuses]
    /\ kind \in [Action -> ActionTypes \union {"none"}]
    /\ warrant \in [Action -> Warrants]
    /\ ran \in SUBSET Executions

LEMMA ServeTyped ==
    ASSUME LedgerTyped, NEW r \in Requests, Fits(r), Serve(r)
    PROVE  LedgerTyped' /\ Kept
<1>1. CASE ServePropose(r)
  BY <1>1, Catalogue DEF LedgerTyped, ServePropose, Kept, Statuses, Fits, RequestingTools
<1>2. CASE ServeAuthorize(r)
  BY <1>2, Catalogue DEF LedgerTyped, ServeAuthorize, Kept, Statuses, Fits,
       RequestingTools, WarrantOf, Warrants, Requests
<1>3. CASE ServeApprove(r)
  BY <1>3, Catalogue DEF LedgerTyped, ServeApprove, Kept, Statuses, Fits,
       OnActionTools, WarrantOf, Warrants, Requests
<1>4. CASE ServeReject(r)
  BY <1>4, Catalogue DEF LedgerTyped, ServeReject, Kept, Statuses, Fits, OnActionTools
<1>5. CASE ServeRecord(r)
  BY <1>5, Catalogue DEF LedgerTyped, ServeRecord, Kept, Statuses, Fits, OnActionTools
<1>6. CASE ServeAuthorizeBuild(r)
  BY <1>6 DEF LedgerTyped, ServeAuthorizeBuild, Kept, Fits
<1>7. CASE ServeExecute(r)
  BY <1>7 DEF LedgerTyped, ServeExecute, Kept, Executions, Requests
<1>8. QED
  BY <1>1, <1>2, <1>3, <1>4, <1>5, <1>6, <1>7 DEF Serve

Promises == GrantIsAuthorised /\ ExecutionIsApproved /\ ExecutionIsCurrent

\* Serving a justified request breaks no promise.
LEMMA ServeKeepsPromises ==
    ASSUME LedgerTyped, NEW r \in Requests, Fits(r), Serve(r), Justified(r), Promises
    PROVE  Promises'
<1>1. LedgerTyped' /\ Kept
  BY ServeTyped
<1>2. ExecutionIsApproved'
  <2>1. CASE ran' = ran
    BY <1>1, <2>1 DEF Promises, ExecutionIsApproved, Kept
  <2>2. CASE ServeExecute(r)
    BY <2>2 DEF Promises, ExecutionIsApproved, ServeExecute, Justified
  <2>3. QED
    BY <2>1, <2>2 DEF Serve, ServePropose, ServeAuthorize, ServeApprove, ServeReject,
         ServeRecord, ServeAuthorizeBuild
<1>3. ExecutionIsCurrent'
  <2>1. CASE ran' = ran
    BY <2>1 DEF Promises, ExecutionIsCurrent
  <2>2. CASE ServeExecute(r)
    BY <2>2 DEF Promises, ExecutionIsCurrent, ServeExecute, Justified
  <2>3. QED
    BY <2>1, <2>2 DEF Serve, ServePropose, ServeAuthorize, ServeApprove, ServeReject,
         ServeRecord, ServeAuthorizeBuild
<1>4. GrantIsAuthorised'
  <2>1. CASE ServeAuthorize(r)
    BY <2>1 DEF Promises, GrantIsAuthorised, ServeAuthorize, Justified, WarrantOf, LedgerTyped
  <2>2. CASE ServeApprove(r)
    BY <2>2 DEF Promises, GrantIsAuthorised, ServeApprove, Justified, WarrantOf, LedgerTyped
  <2>3. CASE ServePropose(r) \/ ServeReject(r)
    BY <2>3 DEF Promises, GrantIsAuthorised, ServePropose, ServeReject, LedgerTyped
  <2>4. CASE ServeRecord(r)
    BY <2>4 DEF Promises, GrantIsAuthorised, ServeRecord, LedgerTyped
  <2>5. CASE ServeAuthorizeBuild(r) \/ ServeExecute(r)
    BY <2>5 DEF Promises, GrantIsAuthorised, ServeAuthorizeBuild, ServeExecute
  <2>6. QED
    BY <2>1, <2>2, <2>3, <2>4, <2>5 DEF Serve
<1>5. QED
  BY <1>2, <1>3, <1>4 DEF Promises

-----------------------------------------------------------------------------
(* What a step leaves alone. *)

\* The invariant of a process that the step is not about: what it gathered, it
\* keeps, and an approval it saw open is at most recorded as executed.
LEMMA BystanderKeeps ==
    ASSUME TypeOK, Observe, Kept, call' \in [Proc -> Calls],
           NEW q \in Proc, call'[q] = call[q], CallIsJustified(q)
    PROVE  CallIsJustified(q)'
<1>1. CASE ~Active(q)
  BY <1>1 DEF CallIsJustified, Active
<1>2. CASE Active(q)
  <2>1. /\ witnessed[q].run => witnessed'[q].run
        /\ witnessed[q].live => witnessed'[q].live
        /\ witnessed[q].approved => witnessed'[q].approved
    BY <1>2, ObserveKeeps DEF Active
  <2>2. ASSUME Justified(Request(q))
        PROVE  Justified(Request(q))'
    BY <2>1, <2>2 DEF Justified, Request, Kept
  <2>3. QED
    BY <2>1, <2>2 DEF CallIsJustified, Kept
<1>3. QED
  BY <1>1, <1>2

LEMMA LateKeeps ==
    ASSUME Kept, LateIsJustified, late' \subseteq late
    PROVE  LateIsJustified'
BY DEF LateIsJustified, Justified, Kept

\* Requests a process may send are requests.
LEMMA RequestTyped ==
    ASSUME TypeOK, NEW p \in Proc, CallFits(p), Active(p)
    PROVE  /\ Request(p) \in Requests
           /\ Fits(Request(p))
BY DEF TypeOK, CallFits, Fits, Request, Requests, Calls

LEMMA NoCallTyped == NoCall \in Calls /\ Fits(NoCall) /\ NoCall.step = "idle"
BY Catalogue DEF NoCall, Calls, Steps, Paths, Fits, OnActionTools, RequestingTools

\* The parts of the invariant put together after a step.
LEMMA StepKeeps ==
    ASSUME IInv, Observe, Kept, LedgerTyped', Promises',
           mode' \in Modes, late' \in SUBSET Requests, call' \in [Proc -> Calls],
           \A r \in late' : Fits(r), LateIsJustified',
           \A q \in Proc : \/ call'[q] = call[q]
                           \/ call'[q].step = "idle" /\ Fits(call[q])'
                           \/ CallFits(q)' /\ CallIsJustified(q)'
    PROVE  IInv'
<1>1. witnessed' \in [Proc -> Witness] /\ WitnessIsFresh'
  BY ObserveKeeps DEF IInv
<1>2. TypeOK'
  BY <1>1 DEF TypeOK, LedgerTyped
<1>3. ASSUME NEW q \in Proc
      PROVE  CallFits(q)'
  BY DEF IInv, ArgumentsFit, CallFits, Active, Fits
<1>4. ArgumentsFit'
  BY <1>3 DEF ArgumentsFit
<1>5. ASSUME NEW q \in Proc
      PROVE  CallIsJustified(q)'
  <2>1. CASE call'[q] = call[q]
    BY <2>1, BystanderKeeps DEF IInv, CallsAreJustified
  <2>2. CASE call'[q].step = "idle"
    BY <2>2 DEF CallIsJustified
  <2>3. QED
    BY <2>1, <2>2
<1>6. CallsAreJustified'
  BY <1>5 DEF CallsAreJustified
<1>7. QED
  BY <1>1, <1>2, <1>4, <1>6 DEF IInv, Promises

\* A step of one process that sends nothing.
LEMMA LocalStepKeeps ==
    ASSUME IInv, Observe, NEW p \in Proc, UNCHANGED <<mode, ledger, late>>,
           NEW CONSTANT c \in Calls, call' = [call EXCEPT ![p] = c],
           \/ c.step = "idle" /\ Fits(c)
           \/ CallFits(p)' /\ CallIsJustified(p)'
    PROVE  IInv'
<1>1. /\ Kept /\ LedgerTyped' /\ Promises'
      /\ mode' \in Modes /\ late' \in SUBSET Requests
  BY DEF IInv, TypeOK, ledger, Kept, LedgerTyped, Promises, GrantIsAuthorised,
         ExecutionIsApproved, ExecutionIsCurrent
<1>2. call' \in [Proc -> Calls]
  BY DEF IInv, TypeOK
<1>3. LateIsJustified' /\ \A r \in late' : Fits(r)
  BY <1>1, LateKeeps DEF IInv, ArgumentsFit
<1>4. call'[p] = c /\ \A q \in Proc \ {p} : call'[q] = call[q]
  BY DEF IInv, TypeOK
<1>5. \A q \in Proc : \/ call'[q] = call[q]
                      \/ call'[q].step = "idle" /\ Fits(call[q])'
                      \/ CallFits(q)' /\ CallIsJustified(q)'
  BY <1>4 DEF Fits
<1>6. QED
  BY <1>1, <1>2, <1>3, <1>5, StepKeeps

-----------------------------------------------------------------------------
(* One lemma per action. *)

LEMMA SwitchModeKeeps ==
    ASSUME IInv, SwitchMode
    PROVE  IInv'
<1>1. /\ Kept /\ LedgerTyped' /\ Promises' /\ Observe
      /\ mode' \in Modes /\ late' \in SUBSET Requests /\ call' \in [Proc -> Calls]
  BY DEF SwitchMode, IInv, TypeOK, ledger, Kept, LedgerTyped, Promises,
         GrantIsAuthorised, ExecutionIsApproved, ExecutionIsCurrent
<1>2. LateIsJustified' /\ \A r \in late' : Fits(r)
  BY <1>1, LateKeeps DEF IInv, ArgumentsFit, SwitchMode
<1>3. QED
  BY <1>1, <1>2, StepKeeps DEF SwitchMode

LEMMA BuildLapsesKeeps ==
    ASSUME IInv, BuildLapses
    PROVE  IInv'
<1>1. /\ Kept /\ LedgerTyped' /\ Promises' /\ Observe
      /\ mode' \in Modes /\ late' \in SUBSET Requests /\ call' \in [Proc -> Calls]
  BY DEF BuildLapses, IInv, TypeOK, Kept, LedgerTyped, Promises,
         GrantIsAuthorised, ExecutionIsApproved, ExecutionIsCurrent
<1>2. LateIsJustified' /\ \A r \in late' : Fits(r)
  BY <1>1, LateKeeps DEF IInv, ArgumentsFit, BuildLapses
<1>3. QED
  BY <1>1, <1>2, StepKeeps DEF BuildLapses

\* A request fresh from its arguments rests on nothing yet, which is enough for the
\* step it starts at.
LEMMA BeginKeeps ==
    ASSUME IInv, NEW p \in Proc, Begin(p)
    PROVE  IInv'
<1>0. PICK tool \in Tools : \E args \in Arguments(tool) :
         call' = [call EXCEPT ![p] =
             [NoCall EXCEPT !.tool = tool, !.step = FirstStep(tool),
                            !.action = args.action, !.task = args.task,
                            !.kind = args.kind, !.confirm = args.confirm]]
  BY DEF Begin
<1>1. PICK args \in Arguments(tool) :
         call' = [call EXCEPT ![p] =
             [NoCall EXCEPT !.tool = tool, !.step = FirstStep(tool),
                            !.action = args.action, !.task = args.task,
                            !.kind = args.kind, !.confirm = args.confirm]]
  BY <1>0
<1> DEFINE c == [NoCall EXCEPT !.tool = tool, !.step = FirstStep(tool),
                               !.action = args.action, !.task = args.task,
                               !.kind = args.kind, !.confirm = args.confirm]
<1>2. tool \in AllTools
  BY ToolsAssumption
<1>3. /\ c.tool = tool /\ c.step = FirstStep(tool) /\ c.action = args.action
      /\ c.task = args.task /\ c.kind = args.kind /\ c.confirm = args.confirm
  BY DEF NoCall
<1>4. c \in Calls
  BY <1>2, ArgumentFacts, StepFacts, NoCallTyped DEF Calls, Steps, NoCall
<1>5. call'[p] = c
  BY <1>1 DEF IInv, TypeOK
<1>6. CallFits(p)'
  BY <1>2, <1>3, <1>5, ArgumentFacts DEF CallFits, Fits
<1>7. CallIsJustified(p)'
  <2>1. tool \in ExecTools \/ tool \in DecisionTools => FirstStep(tool) # "post"
    BY <1>2, StepFacts, Catalogue
  <2>2. FirstStep(tool) = "post" => Justified(Request(p))'
    BY <1>3, <1>5, <2>1, Catalogue DEF Justified, Request, DecisionTools
  <2>3. QED
    BY <1>2, <1>3, <1>5, <2>1, <2>2, StepFacts, Catalogue DEF CallIsJustified
<1>8. QED
  BY <1>1, <1>4, <1>6, <1>7, LocalStepKeeps DEF Begin

LEMMA ReturnKeeps ==
    ASSUME IInv, NEW p \in Proc, Return(p), UNCHANGED <<mode, ledger, late>>, Observe
    PROVE  IInv'
BY LocalStepKeeps, NoCallTyped DEF Return

LEMMA CheckApprovalKeeps ==
    ASSUME IInv, NEW p \in Proc, CheckApproval(p)
    PROVE  IInv'
<1>1. CASE Return(p)
  BY <1>1, ReturnKeeps DEF CheckApproval
<1>2. CASE Usable(call[p].action, call[p].tool) /\ Continue(p, "mode")
  <2> DEFINE c == [call[p] EXCEPT !.step = "mode"]
  <2>1. call' = [call EXCEPT ![p] = c] /\ c \in Calls
    BY <1>2 DEF Continue, IInv, TypeOK, Calls, Steps
  <2>2. /\ call'[p].step = "mode" /\ call'[p].tool = call[p].tool
        /\ call'[p].action = call[p].action /\ call'[p].kind = call[p].kind
        /\ call'[p].task = call[p].task /\ Active(p)
    BY <1>2 DEF Continue, CheckApproval, Active, IInv, TypeOK, Calls
  <2>3. CallFits(p)'
    BY <2>2 DEF IInv, ArgumentsFit, CallFits, Fits, Active
  <2>4. call[p].tool \in ExecTools
    BY DEF CheckApproval, IInv, CallsAreJustified, CallIsJustified
  <2>5. Sees(call'[p], mode', build', status').approved
    BY <1>2, <2>2, <2>4 DEF Usable, Sees, CheckApproval, ledger
  <2>6. witnessed'[p].approved
    BY <2>1, <2>2, <2>5, ObserveKeeps DEF CheckApproval, IInv, TypeOK, Active, WitnessIsFresh
  <2>7. CallIsJustified(p)'
    BY <1>2, <2>2, <2>4, <2>6 DEF CallIsJustified, Usable, CheckApproval, ledger
  <2>8. QED
    BY <2>1, <2>3, <2>7, LocalStepKeeps DEF CheckApproval
<1>3. QED
  BY <1>1, <1>2 DEF CheckApproval

\* What a call carries over a step that changes its step, path and label alone.
LEMMA CarriedOver ==
    ASSUME IInv, NEW p \in Proc, Active(p), Observe,
           NEW CONSTANT c \in Calls, call' = [call EXCEPT ![p] = c],
           c.tool = call[p].tool, c.action = call[p].action, c.task = call[p].task,
           c.kind = call[p].kind, c.confirm = call[p].confirm
    PROVE  /\ call' \in [Proc -> Calls]
           /\ call'[p] = c
           /\ CallFits(p)'
           /\ c.step # "idle" =>
                /\ witnessed[p].run => witnessed'[p].run
                /\ witnessed[p].live => witnessed'[p].live
                /\ witnessed[p].approved => witnessed'[p].approved
                /\ Sees(call[p], mode', build', status').run => witnessed'[p].run
                /\ Sees(call[p], mode', build', status').live => witnessed'[p].live
<1>1. call'[p] = c /\ call' \in [Proc -> Calls]
  BY DEF IInv, TypeOK
<1>2. CallFits(p)'
  BY <1>1 DEF IInv, ArgumentsFit, CallFits, Fits, Active
<1>3. Sees(c, mode', build', status') = Sees(call[p], mode', build', status')
  BY DEF Sees
<1>4. c.step # "idle" =>
        /\ witnessed[p].run => witnessed'[p].run
        /\ witnessed[p].live => witnessed'[p].live
        /\ witnessed[p].approved => witnessed'[p].approved
        /\ Sees(c, mode', build', status').run => witnessed'[p].run
        /\ Sees(c, mode', build', status').live => witnessed'[p].live
  BY <1>1, ObserveKeeps DEF IInv, Active, WitnessIsFresh
<1>5. QED
  BY <1>1, <1>2, <1>3, <1>4

\* Past the gate a call is confirmed and, here, backed by RUN.
LEMMA PassGateKeeps ==
    ASSUME IInv, NEW p \in Proc, PassGate(p)
    PROVE  IInv'
<1>1. /\ Active(p) /\ call[p].step = "mode" /\ call[p] \in Calls
      /\ call[p].tool \in ExecTools \union DecisionTools /\ call[p].tool \in AllTools
  BY Catalogue DEF PassGate, Active, IInv, CallsAreJustified, CallIsJustified, TypeOK
<1>2. CASE Return(p)
  BY <1>2, ReturnKeeps DEF PassGate
<1>3. CASE /\ GatePasses(p)
           /\ call' = [call EXCEPT ![p].step = Onward(call[p].tool),
                                   ![p].path = PathOf(call[p].tool, "RUN")]
  <2> DEFINE c == [call[p] EXCEPT !.step = Onward(call[p].tool),
                                  !.path = PathOf(call[p].tool, "RUN")]
  <2>1. /\ c \in Calls /\ c.step = Onward(call[p].tool) /\ c.tool = call[p].tool
        /\ c.action = call[p].action /\ c.task = call[p].task
        /\ c.kind = call[p].kind /\ c.confirm = call[p].confirm
    BY <1>1, StepFacts DEF Calls, Steps, PathOf, Paths
  <2>2. call' = [call EXCEPT ![p] = c]
    BY <1>3 DEF IInv, TypeOK
  <2>3. /\ call'[p] = c /\ CallFits(p)' /\ c.step \in {"label", "session", "post"}
        /\ witnessed[p].approved => witnessed'[p].approved
        /\ Sees(call[p], mode', build', status').run => witnessed'[p].run
    BY <1>1, <2>1, <2>2, CarriedOver, StepFacts DEF PassGate
  <2>4. witnessed'[p].run /\ call[p].confirm
    BY <1>1, <1>3, <2>3 DEF GatePasses, Sees, PassGate
  <2>5. call[p].tool \in ExecTools =>
          /\ witnessed'[p].approved
          /\ call[p].action \in Action
          /\ status'[call[p].action] \in {"approved", "executed"}
          /\ kind'[call[p].action] = RequiredType(call[p].tool)
    BY <1>1, <2>3 DEF IInv, CallsAreJustified, CallIsJustified, PassGate, ledger
  <2>6. Justified(Request(p))'
    BY <2>1, <2>3, <2>4, <2>5 DEF Justified, Request
  <2>7. CallIsJustified(p)'
    BY <1>1, <2>1, <2>3, <2>6, StepFacts DEF CallIsJustified
  <2>8. QED
    BY <2>1, <2>2, <2>3, <2>7, LocalStepKeeps DEF PassGate
<1>4. CASE call[p].tool = "authorize_action" /\ Continue(p, "lookup")
  <2> DEFINE c == [call[p] EXCEPT !.step = "lookup"]
  <2>1. /\ c \in Calls /\ c.step = "lookup" /\ c.tool = call[p].tool
        /\ c.action = call[p].action /\ c.task = call[p].task
        /\ c.kind = call[p].kind /\ c.confirm = call[p].confirm
    BY <1>1 DEF Calls, Steps
  <2>2. call' = [call EXCEPT ![p] = c]
    BY <1>4 DEF Continue, IInv, TypeOK
  <2>3. call'[p] = c /\ CallFits(p)'
    BY <1>1, <2>1, <2>2, CarriedOver DEF PassGate
  <2>4. CallIsJustified(p)'
    BY <1>4, <2>1, <2>3 DEF CallIsJustified
  <2>5. QED
    BY <2>1, <2>2, <2>3, <2>4, LocalStepKeeps DEF PassGate
<1>5. QED
  BY <1>2, <1>3, <1>4 DEF PassGate

\* Past the lookup it is confirmed and backed by the task's own authorization.
LEMMA LookupTaskKeeps ==
    ASSUME IInv, NEW p \in Proc, LookupTask(p)
    PROVE  IInv'
<1>1. /\ Active(p) /\ call[p].step = "lookup" /\ call[p] \in Calls
      /\ call[p].tool = "authorize_action"
  BY DEF LookupTask, Active, IInv, CallsAreJustified, CallIsJustified, TypeOK
<1>2. CASE Return(p)
  BY <1>2, ReturnKeeps DEF LookupTask
<1>3. CASE /\ TaskBuildAuthorized(call[p].task) /\ call[p].confirm
           /\ call' = [call EXCEPT ![p].step = "label",
                                   ![p].path = "TASK_BUILD_AUTHORIZED"]
  <2> DEFINE c == [call[p] EXCEPT !.step = "label", !.path = "TASK_BUILD_AUTHORIZED"]
  <2>1. /\ c \in Calls /\ c.step = "label" /\ c.tool = call[p].tool
        /\ c.action = call[p].action /\ c.task = call[p].task
        /\ c.kind = call[p].kind /\ c.confirm = call[p].confirm
    BY <1>1 DEF Calls, Steps, Paths
  <2>2. call' = [call EXCEPT ![p] = c]
    BY <1>3 DEF IInv, TypeOK
  <2>3. /\ call'[p] = c /\ CallFits(p)'
        /\ Sees(call[p], mode', build', status').live => witnessed'[p].live
    BY <1>1, <2>1, <2>2, CarriedOver DEF LookupTask
  <2>4. witnessed'[p].live
    BY <1>1, <1>3, <2>3 DEF TaskBuildAuthorized, Sees, LookupTask, ledger, DecisionTools
  <2>5. Justified(Request(p))'
    BY <1>1, <1>3, <2>1, <2>3, <2>4, Catalogue DEF Justified, Request, DecisionTools
  <2>6. CallIsJustified(p)'
    BY <1>1, <2>1, <2>3, <2>5 DEF CallIsJustified
  <2>7. QED
    BY <2>1, <2>2, <2>3, <2>6, LocalStepKeeps DEF LookupTask
<1>4. QED
  BY <1>2, <1>3 DEF LookupTask

\* Steps between the gate and the request change nothing of what backs it.
LEMMA OnwardKeeps ==
    ASSUME IInv, NEW p \in Proc, Observe, UNCHANGED <<mode, ledger, late>>,
           call[p].step \in {"label", "session"},
           NEW CONSTANT c \in Calls, call' = [call EXCEPT ![p] = c], c.step = "post",
           c.tool = call[p].tool, c.action = call[p].action, c.task = call[p].task,
           c.kind = call[p].kind, c.confirm = call[p].confirm
    PROVE  IInv'
<1>1. Active(p) /\ Justified(Request(p))
  BY DEF Active, IInv, CallsAreJustified, CallIsJustified
<1>2. /\ call'[p] = c /\ CallFits(p)'
      /\ witnessed[p].run => witnessed'[p].run
      /\ witnessed[p].live => witnessed'[p].live
      /\ witnessed[p].approved => witnessed'[p].approved
  BY <1>1, CarriedOver
<1>3. Justified(Request(p))'
  BY <1>1, <1>2 DEF Justified, Request, ledger
<1>4. CallIsJustified(p)'
  BY <1>2, <1>3 DEF CallIsJustified
<1>5. QED
  BY <1>2, <1>4, LocalStepKeeps

LEMMA ReadLabelKeeps ==
    ASSUME IInv, NEW p \in Proc, ReadLabel(p)
    PROVE  IInv'
<1> DEFINE c == [call[p] EXCEPT !.step = "post",
                                !.label = IF mode = "RUN" THEN "RUN"
                                          ELSE "TASK_BUILD_AUTHORIZED"]
<1>1. /\ c \in Calls /\ c.step = "post" /\ c.tool = call[p].tool
      /\ c.action = call[p].action /\ c.task = call[p].task
      /\ c.kind = call[p].kind /\ c.confirm = call[p].confirm
  BY DEF IInv, TypeOK, Calls, Steps, Paths
<1>2. call' = [call EXCEPT ![p] = c]
  BY DEF ReadLabel, IInv, TypeOK
<1>3. QED
  BY <1>1, <1>2, OnwardKeeps DEF ReadLabel

LEMMA OpenSessionKeeps ==
    ASSUME IInv, NEW p \in Proc, OpenSession(p)
    PROVE  IInv'
<1>1. CASE Return(p)
  BY <1>1, ReturnKeeps DEF OpenSession
<1>2. CASE Continue(p, "post")
  <2> DEFINE c == [call[p] EXCEPT !.step = "post"]
  <2>1. /\ c \in Calls /\ c.step = "post" /\ c.tool = call[p].tool
        /\ c.action = call[p].action /\ c.task = call[p].task
        /\ c.kind = call[p].kind /\ c.confirm = call[p].confirm
    BY DEF IInv, TypeOK, Calls, Steps
  <2>2. call' = [call EXCEPT ![p] = c]
    BY <1>2 DEF Continue, IInv, TypeOK
  <2>3. QED
    BY <2>1, <2>2, OnwardKeeps DEF OpenSession
<1>3. QED
  BY <1>1, <1>2 DEF OpenSession

\* The call ends; what it sent is served, lost or on its way.
LEMMA PostServedKeeps ==
    ASSUME IInv, NEW p \in Proc, PostServed(p)
    PROVE  IInv'
<1>1. /\ Active(p) /\ Justified(Request(p)) /\ CallFits(p)
      /\ LedgerTyped /\ Promises /\ TypeOK
  BY DEF PostServed, Active, IInv, ArgumentsFit, CallsAreJustified, CallIsJustified,
         TypeOK, LedgerTyped, Promises
<1>2. Request(p) \in Requests /\ Fits(Request(p)) /\ Serve(Request(p))
  BY <1>1, RequestTyped DEF PostServed
<1>3. LedgerTyped' /\ Kept
  BY <1>1, <1>2, ServeTyped
<1>4. Promises'
  BY <1>1, <1>2, ServeKeepsPromises
<1>5. PICK c \in Calls : /\ call' = [call EXCEPT ![p] = c]
                         /\ c.step = "idle" /\ Fits(c)
  <2>1. CASE Return(p)
    BY <2>1, NoCallTyped DEF Return
  <2>2. CASE ReturnLabelled(p)
    <3> DEFINE c == [NoCall EXCEPT !.path = call[p].path, !.label = call[p].label]
    <3>1. c \in Calls /\ c.step = "idle"
      BY <1>1, NoCallTyped DEF TypeOK, Calls, Steps
    <3>2. Fits(c)
      BY Catalogue DEF NoCall, Fits, OnActionTools, RequestingTools
    <3>3. QED
      BY <2>2, <3>1, <3>2 DEF ReturnLabelled
  <2>3. QED
    BY <2>1, <2>2 DEF PostServed
<1>6. /\ call' \in [Proc -> Calls] /\ mode' \in Modes /\ late' \in SUBSET Requests
      /\ \A q \in Proc : call'[q] = call[q] \/ call'[q] = c
  BY <1>1, <1>5 DEF PostServed, TypeOK
<1>7. \A q \in Proc : \/ call'[q] = call[q]
                      \/ call'[q].step = "idle" /\ Fits(call[q])'
  BY <1>5, <1>6 DEF Fits
<1>8. LateIsJustified' /\ \A r \in late' : Fits(r)
  BY <1>3, LateKeeps DEF IInv, ArgumentsFit, PostServed
<1>9. QED
  BY <1>3, <1>4, <1>6, <1>7, <1>8, StepKeeps DEF PostServed

\* A call ends and leaves its request behind.
LEMMA LeftBehindKeeps ==
    ASSUME IInv, NEW p \in Proc, call[p].step = "post", Return(p),
           late' = late \union {Request(p)}, UNCHANGED <<mode, ledger>>, Observe
    PROVE  IInv'
<1>1. /\ Active(p) /\ Justified(Request(p)) /\ CallFits(p) /\ TypeOK
  BY DEF Active, IInv, ArgumentsFit, CallsAreJustified, CallIsJustified
<1>2. Request(p) \in Requests /\ Fits(Request(p))
  BY <1>1, RequestTyped
<1>3. /\ Kept /\ LedgerTyped' /\ Promises'
      /\ mode' \in Modes /\ late' \in SUBSET Requests
  BY <1>2 DEF IInv, TypeOK, ledger, Kept, LedgerTyped, Promises, GrantIsAuthorised,
         ExecutionIsApproved, ExecutionIsCurrent
<1>4. \A r \in late' : Fits(r) /\ Justified(r)
  BY <1>1, <1>2 DEF IInv, ArgumentsFit, LateIsJustified
<1>5. LateIsJustified'
  BY <1>4 DEF LateIsJustified, Justified, ledger
<1>6. /\ call' \in [Proc -> Calls]
      /\ \A q \in Proc : call'[q] = call[q] \/ call'[q] = NoCall
  BY <1>1, NoCallTyped DEF Return, TypeOK
<1>7. \A q \in Proc : \/ call'[q] = call[q]
                      \/ call'[q].step = "idle" /\ Fits(call[q])'
  BY <1>6, NoCallTyped DEF Fits
<1>8. QED
  BY <1>3, <1>4, <1>5, <1>6, <1>7, StepKeeps

LEMMA CrashKeeps ==
    ASSUME IInv, NEW p \in Proc, Crash(p)
    PROVE  IInv'
<1>1. Return(p)
  BY DEF Crash, Return
<1>2. CASE late' = late
  BY <1>1, <1>2, ReturnKeeps DEF Crash, ledger
<1>3. CASE call[p].step = "post" /\ late' = late \union {Request(p)}
  BY <1>1, <1>3, LeftBehindKeeps DEF Crash
<1>4. QED
  BY <1>2, <1>3 DEF Crash

LEMMA ServeLateKeeps ==
    ASSUME IInv, ServeLate
    PROVE  IInv'
<1>1. PICK r \in late : Serve(r) /\ late' = late \ {r}
  BY DEF ServeLate
<1>2. /\ r \in Requests /\ Fits(r) /\ Justified(r)
      /\ LedgerTyped /\ Promises /\ TypeOK
  BY DEF IInv, ArgumentsFit, LateIsJustified, TypeOK, LedgerTyped, Promises
<1>3. LedgerTyped' /\ Kept
  BY <1>1, <1>2, ServeTyped
<1>4. Promises'
  BY <1>1, <1>2, ServeKeepsPromises
<1>5. LateIsJustified' /\ (\A s \in late' : Fits(s)) /\ late' \in SUBSET Requests
  BY <1>1, <1>2, <1>3, LateKeeps DEF IInv, ArgumentsFit, TypeOK
<1>6. QED
  BY <1>2, <1>3, <1>4, <1>5, StepKeeps DEF ServeLate, TypeOK

LEMMA RefuseLateKeeps ==
    ASSUME IInv, RefuseLate
    PROVE  IInv'
<1>1. /\ Kept /\ LedgerTyped' /\ Promises' /\ Observe
      /\ mode' \in Modes /\ late' \in SUBSET Requests /\ call' \in [Proc -> Calls]
  BY DEF RefuseLate, IInv, TypeOK, ledger, Kept, LedgerTyped, Promises,
         GrantIsAuthorised, ExecutionIsApproved, ExecutionIsCurrent
<1>2. LateIsJustified' /\ \A r \in late' : Fits(r)
  BY <1>1, LateKeeps DEF IInv, ArgumentsFit, RefuseLate
<1>3. QED
  BY <1>1, <1>2, StepKeeps DEF RefuseLate

-----------------------------------------------------------------------------
(* The invariant. *)

LEMMA InitIInv == Init => IInv
<1> SUFFICES ASSUME Init
             PROVE  IInv
  OBVIOUS
<1>1. TypeOK
  BY NoCallTyped DEF Init, TypeOK, Modes, Statuses, Witness, NothingSeen, Warrants
<1>2. ArgumentsFit /\ WitnessIsFresh /\ CallsAreJustified
  BY NoCallTyped DEF Init, ArgumentsFit, CallFits, WitnessIsFresh, CallsAreJustified,
       CallIsJustified, Active
<1>3. LateIsJustified /\ GrantIsAuthorised /\ ExecutionIsApproved /\ ExecutionIsCurrent
  BY DEF Init, LateIsJustified, GrantIsAuthorised, ExecutionIsApproved, ExecutionIsCurrent
<1>4. QED
  BY <1>1, <1>2, <1>3 DEF IInv

LEMMA NextIInv == IInv /\ [Next]_vars => IInv'
<1> SUFFICES ASSUME IInv, [Next]_vars
             PROVE  IInv'
  OBVIOUS
<1>1. CASE SwitchMode
  BY <1>1, SwitchModeKeeps
<1>2. CASE BuildLapses
  BY <1>2, BuildLapsesKeeps
<1>3. ASSUME NEW p \in Proc, Begin(p)
      PROVE  IInv'
  BY <1>3, BeginKeeps
<1>4. ASSUME NEW p \in Proc, CheckApproval(p)
      PROVE  IInv'
  BY <1>4, CheckApprovalKeeps
<1>5. ASSUME NEW p \in Proc, PassGate(p)
      PROVE  IInv'
  BY <1>5, PassGateKeeps
<1>6. ASSUME NEW p \in Proc, LookupTask(p)
      PROVE  IInv'
  BY <1>6, LookupTaskKeeps
<1>7. ASSUME NEW p \in Proc, ReadLabel(p)
      PROVE  IInv'
  BY <1>7, ReadLabelKeeps
<1>8. ASSUME NEW p \in Proc, OpenSession(p)
      PROVE  IInv'
  BY <1>8, OpenSessionKeeps
<1>9. ASSUME NEW p \in Proc, PostServed(p)
      PROVE  IInv'
  BY <1>9, PostServedKeeps
<1>10. ASSUME NEW p \in Proc, PostRefused(p)
       PROVE  IInv'
  BY <1>10, ReturnKeeps DEF PostRefused
<1>11. ASSUME NEW p \in Proc, PostLate(p)
       PROVE  IInv'
  BY <1>11, LeftBehindKeeps DEF PostLate
<1>12. ASSUME NEW p \in Proc, Crash(p)
       PROVE  IInv'
  BY <1>12, CrashKeeps
<1>13. CASE ServeLate
  BY <1>13, ServeLateKeeps
<1>14. CASE RefuseLate
  BY <1>14, RefuseLateKeeps
<1>15. CASE UNCHANGED vars
  BY <1>15 DEF vars, IInv, TypeOK, ArgumentsFit, CallFits, Fits, Active, WitnessIsFresh,
       Sees, CallsAreJustified, CallIsJustified, LateIsJustified, Justified, Request,
       GrantIsAuthorised, ExecutionIsApproved, ExecutionIsCurrent
<1>16. QED
  BY <1>1, <1>2, <1>3, <1>4, <1>5, <1>6, <1>7, <1>8, <1>9, <1>10, <1>11, <1>12,
     <1>13, <1>14, <1>15 DEF Next, Advance

\* Whatever processes, tasks and actions there are, every reachable state of the
\* approval flow satisfies the inductive invariant.
THEOREM Invariance == Spec => []IInv
BY InitIInv, NextIInv, PTL DEF Spec

\* The variables always have their types.
THEOREM TypeCorrect == Spec => []TypeOK
<1>1. IInv => TypeOK
  BY DEF IInv
<1>2. QED
  BY <1>1, Invariance, PTL

\* An approval is only ever made on an admin's authority over that action.
THEOREM GrantsAreAuthorised == Spec => []GrantIsAuthorised
<1>1. IInv => GrantIsAuthorised
  BY DEF IInv
<1>2. QED
  BY <1>1, Invariance, PTL

\* A hard-gated tool changes things only under a standing or recorded approval of
\* its type.
THEOREM ExecutionsAreApproved == Spec => []ExecutionIsApproved
<1>1. IInv => ExecutionIsApproved
  BY DEF IInv
<1>2. QED
  BY <1>1, Invariance, PTL

\* And only on an approval and a mode read during the same, confirmed, call.
THEOREM ExecutionsAreCurrent == Spec => []ExecutionIsCurrent
<1>1. IInv => ExecutionIsCurrent
  BY DEF IInv
<1>2. QED
  BY <1>1, Invariance, PTL

-----------------------------------------------------------------------------
(* The ledger.  A step of the system is a step of ApprovalLedger when it serves a
   request, and a stutter of it otherwise. *)

Done == {<<e.tool, e.action>> : e \in ran}

LEMMA SameCatalogue ==
    /\ Ledger!ActionTypes = ActionTypes
    /\ Ledger!ExecTools = ExecTools
    /\ \A tool : Ledger!RequiredType(tool) = RequiredType(tool)
BY DEF Ledger!ActionTypes, ActionTypes, Ledger!ExecTools, ExecTools, Ledger!RequiredType,
       RequiredType, Ledger!DispatchTools, DispatchTools, Ledger!BillingTools,
       BillingTools, Ledger!EscortTools, EscortTools, Ledger!OpencodeTools, OpencodeTools

LEMMA ServeIsALedgerStep ==
    ASSUME LedgerTyped, NEW r \in Requests, Fits(r), Justified(r), Serve(r)
    PROVE  Ledger!Next \/ UNCHANGED Ledger!vars
<1>1. CASE ServePropose(r)
  <2>1. r.kind \in ActionTypes
    BY <1>1 DEF ServePropose, Fits, RequestingTools
  <2>2. PICK a \in Action : /\ status[a] = "none"
                            /\ status' = [status EXCEPT ![a] = "pending"]
                            /\ kind' = [kind EXCEPT ![a] = r.kind]
    BY <1>1 DEF ServePropose
  <2>3. Ledger!Request(a, r.kind)
    BY <1>1, <2>2 DEF Ledger!Request, ServePropose
  <2>4. QED
    BY <2>1, <2>3, SameCatalogue DEF Ledger!Next
<1>2. CASE ServeAuthorize(r)
  <2>1. r.kind \in ActionTypes
    BY <1>2 DEF ServeAuthorize, Fits, RequestingTools
  <2>2. PICK a \in Action : /\ status[a] = "none"
                            /\ status' = [status EXCEPT ![a] = "approved"]
                            /\ kind' = [kind EXCEPT ![a] = r.kind]
    BY <1>2 DEF ServeAuthorize
  <2>3. Ledger!Request(a, r.kind)
    BY <1>2, <2>2 DEF Ledger!Request, ServeAuthorize
  <2>4. QED
    BY <2>1, <2>3, SameCatalogue DEF Ledger!Next
<1>3. CASE ServeApprove(r) \/ ServeReject(r)
  <2>1. r.action \in Action
    BY <1>3 DEF ServeApprove, ServeReject, Fits, OnActionTools
  <2>2. Ledger!Decide(r.action)
    BY <1>3 DEF Ledger!Decide, ServeApprove, ServeReject
  <2>3. QED
    BY <2>1, <2>2 DEF Ledger!Next
<1>4. CASE ServeRecord(r)
  <2>1. r.action \in Action
    BY <1>4 DEF ServeRecord, Fits, OnActionTools
  <2>2. Ledger!Record(r.action)
    BY <1>4 DEF Ledger!Record, ServeRecord
  <2>3. QED
    BY <2>1, <2>2 DEF Ledger!Next
<1>5. CASE ServeAuthorizeBuild(r)
  BY <1>5 DEF ServeAuthorizeBuild, Ledger!vars
<1>6. CASE ServeExecute(r)
  <2>1. /\ r.tool \in ExecTools /\ r.action \in Action
        /\ status[r.action] \in {"approved", "executed"}
        /\ kind[r.action] = RequiredType(r.tool)
    BY <1>6 DEF ServeExecute, Justified
  <2>2. Done' = Done \union {<<r.tool, r.action>>}
    <3> DEFINE x == [tool |-> r.tool, action |-> r.action,
                     confirm |-> r.confirm, witness |-> r.witness]
    <3>1. x.tool = r.tool /\ x.action = r.action
      OBVIOUS
    <3>2. ran' = ran \union {x}
      BY <1>6 DEF ServeExecute
    <3> HIDE DEF x
    <3>3. {<<e.tool, e.action>> : e \in ran \union {x}}
            = {<<e.tool, e.action>> : e \in ran} \union {<<x.tool, x.action>>}
      OBVIOUS
    <3>4. QED
      BY <3>1, <3>2, <3>3 DEF Done
  <2>3. Ledger!Execute(r.action, r.tool)
    BY <1>6, <2>1, <2>2, SameCatalogue DEF Ledger!Execute, ServeExecute, Done
  <2>4. QED
    BY <2>1, <2>3, SameCatalogue DEF Ledger!Next
<1>7. QED
  BY <1>1, <1>2, <1>3, <1>4, <1>5, <1>6 DEF Serve

LEMMA NextIsALedgerStep ==
    ASSUME IInv, [Next]_vars
    PROVE  Ledger!Next \/ UNCHANGED Ledger!vars
<1>1. LedgerTyped
  BY DEF IInv, TypeOK, LedgerTyped
<1>2. ASSUME NEW p \in Proc, PostServed(p)
      PROVE  Ledger!Next \/ UNCHANGED Ledger!vars
  <2>1. Active(p) /\ Justified(Request(p)) /\ CallFits(p) /\ TypeOK
    BY <1>2 DEF PostServed, Active, IInv, ArgumentsFit, CallsAreJustified, CallIsJustified
  <2>2. Request(p) \in Requests /\ Fits(Request(p)) /\ Serve(Request(p))
    BY <1>2, <2>1, RequestTyped DEF PostServed
  <2>3. QED
    BY <1>1, <2>1, <2>2, ServeIsALedgerStep
<1>3. CASE ServeLate
  <2>1. PICK r \in late : Serve(r)
    BY <1>3 DEF ServeLate
  <2>2. r \in Requests /\ Fits(r) /\ Justified(r)
    BY DEF IInv, TypeOK, ArgumentsFit, LateIsJustified
  <2>3. QED
    BY <1>1, <2>1, <2>2, ServeIsALedgerStep
<1>4. CASE /\ ~ServeLate
           /\ \A p \in Proc : ~PostServed(p)
  BY <1>4 DEF Next, Advance, vars, ledger, Ledger!vars, SwitchMode, BuildLapses, Begin,
     CheckApproval, PassGate, LookupTask, ReadLabel, OpenSession, PostRefused, PostLate,
     Crash, RefuseLate
<1>5. QED
  BY <1>2, <1>3, <1>4

\* Processes, modes, confirmations, lost and late requests and all, the approval
\* flow implements the ledger that promises each request a one-way life and every
\* change an approval of its own type.
THEOREM ImplementsLedger == Spec => LedgerIsImplemented
<1>1. Init => Ledger!Init
  BY DEF Init, Ledger!Init
<1>2. IInv /\ [Next]_vars => [Ledger!Next]_(Ledger!vars)
  BY NextIsALedgerStep
<1>3. QED
  BY <1>1, <1>2, Invariance, PTL DEF Spec, LedgerIsImplemented, Ledger!Spec

=============================================================================
