--------------------------- MODULE SchedulerGuard ---------------------------
(***************************************************************************)
(* run_scheduled_task: an allowlisted fazle-core job is triggered by name. *)
(* A call reads the mode file, compares it with the job's risk tier, asks  *)
(* the on-disk debounce whether the job was triggered a moment ago, and    *)
(* posts the trigger.  The debounce is one marker file per job, read and   *)
(* rewritten without a lock: a call takes the time, reads the marker,      *)
(* truncates it, writes its own time into it, and only then posts.  The    *)
(* post may fail, or succeed and lose its answer, and the process may die  *)
(* anywhere between; the marker outlives it.                               *)
(*                                                                         *)
(* fazle-mcp is written for one process per Hermes turn and one turn after *)
(* another, but nothing keeps two turns from overlapping; overlapped       *)
(* remembers whether they have.                                            *)
(***************************************************************************)
EXTENDS Integers, FiniteSets

CONSTANTS Proc,     \* fazle-mcp processes
          Jobs,     \* the jobs asked for in a run
          Window,   \* _DUPLICATE_WINDOW_SECONDS, in clock ticks
          MaxTime   \* bound: the clock stops here

READ_ONLY == "READ_ONLY"
LOW_RISK == "LOW_RISK_ACTION"
DESTRUCTIVE == "DESTRUCTIVE"

ReadOnlyJobs ==
    {"dlq_alert", "health_summary", "agent_incident_summary", "backup_staleness_alert",
     "bridge_watchdog", "daily_admin_digest", "rag_rebuild"}
LowRiskJobs ==
    {"stale_escort_reminder", "lock_cleanup", "draft_ttl_cleanup",
     "combined_draft_cleanup", "daily_db_backup", "daily_memory_review",
     "daily_contact_sync"}
DestructiveJobs == {"daily_payroll_compute", "payment_reconciliation"}

JOB_REGISTRY ==
    [job \in ReadOnlyJobs \union LowRiskJobs \union DestructiveJobs |->
        IF job \in ReadOnlyJobs THEN READ_ONLY
        ELSE IF job \in LowRiskJobs THEN LOW_RISK ELSE DESTRUCTIVE]

ASSUME JobsAssumption == Jobs \subseteq DOMAIN JOB_REGISTRY
ASSUME WindowAssumption == Window \in Nat \ {0}
ASSUME MaxTimeAssumption == MaxTime \in Nat

Modes == {"READ", "BUILD", "RUN"}

-----------------------------------------------------------------------------
VARIABLES mode,    \* what _read_mode would answer now
          now,     \* the wall clock all processes share
          marker,  \* marker[job]: the content of last_run/<job>.json
          call,    \* call[p]: where process p is in run_scheduled_task
          passed,  \* history: passed[job], the last call the debounce let through
          sent,    \* history: the triggers that reached fazle-core
          overlapped \* history: two turns have been in a call at the same time

vars == <<mode, now, marker, call, passed, sent, overlapped>>

Missing == [form |-> "missing", at |-> 0]
Empty == [form |-> "empty", at |-> 0]
Stamp(t) == [form |-> "stamp", at |-> t]

Steps == {"idle", "mode", "clock", "guard", "truncate", "stamp", "post"}

\* best is history: the highest mode in force at some instant of the call.
NoCall == [step |-> "idle", job |-> "none", confirm |-> FALSE, at |-> 0, best |-> "READ"]

Rank(m) == IF m = "READ" THEN 0 ELSE IF m = "BUILD" THEN 1 ELSE 2
Higher(m, n) == IF Rank(m) < Rank(n) THEN n ELSE m

Never == -1

TypeOK ==
    /\ mode \in Modes
    /\ now \in 0 .. MaxTime
    /\ marker \in [Jobs -> {Missing, Empty} \union {Stamp(t) : t \in 0 .. MaxTime}]
    /\ call \in [Proc -> [step : Steps, job : Jobs \union {"none"}, confirm : BOOLEAN,
                          at : 0 .. MaxTime, best : Modes]]
    /\ passed \in [Jobs -> Never .. MaxTime]
    /\ sent \in SUBSET [job : Jobs, at : 0 .. MaxTime]
    /\ overlapped \in BOOLEAN

Init ==
    /\ mode = "READ"
    /\ now = 0
    /\ marker = [job \in Jobs |-> Missing]
    /\ call = [p \in Proc |-> NoCall]
    /\ passed = [job \in Jobs |-> Never]
    /\ sent = {}
    /\ overlapped = FALSE

Active(p) == call[p].step # "idle"

-----------------------------------------------------------------------------
(* The environment. *)

Tick ==
    /\ now < MaxTime
    /\ now' = now + 1
    /\ UNCHANGED <<mode, marker, call, passed, sent, overlapped>>

SwitchMode ==
    /\ \E m \in Modes \ {mode} :
         /\ mode' = m
         /\ call' = [p \in Proc |->
                       IF Active(p) THEN [call[p] EXCEPT !.best = Higher(@, m)]
                       ELSE call[p]]
    /\ UNCHANGED <<now, marker, passed, sent, overlapped>>

\* The process is killed with its turn.
Crash(p) ==
    /\ Active(p)
    /\ call' = [call EXCEPT ![p] = NoCall]
    /\ UNCHANGED <<mode, now, marker, passed, sent, overlapped>>

-----------------------------------------------------------------------------
(* run_scheduled_task. *)

Call(p) ==
    /\ ~Active(p)
    /\ \E job \in Jobs, confirm \in BOOLEAN :
         call' = [call EXCEPT ![p] =
             [step |-> "mode", job |-> job, confirm |-> confirm, at |-> 0, best |-> mode]]
    /\ overlapped' = (overlapped \/ \E q \in Proc : Active(q))
    /\ UNCHANGED <<mode, now, marker, passed, sent>>

Return(p) == call' = [call EXCEPT ![p] = NoCall]

\* A gate that asks for RUN or for confirmation, not for both.
TierAllowsEither(job, confirm) ==
    /\ mode # "READ"
    /\ JOB_REGISTRY[job] = DESTRUCTIVE => mode = "RUN" \/ confirm

\* READ triggers nothing; a DESTRUCTIVE job needs RUN and confirmation as well.
TierAllows(job, confirm) ==
    /\ mode # "READ"
    /\ JOB_REGISTRY[job] = DESTRUCTIVE => mode = "RUN" /\ confirm

PassGate(p) ==
    /\ call[p].step = "mode"
    /\ IF TierAllows(call[p].job, call[p].confirm)
       THEN call' = [call EXCEPT ![p].step = "clock"]
       ELSE Return(p)
    /\ UNCHANGED <<mode, now, marker, passed, sent, overlapped>>

\* `now = time.time()`, before the marker is looked at.
ReadClock(p) ==
    /\ call[p].step = "clock"
    /\ call' = [call EXCEPT ![p].step = "guard", ![p].at = now]
    /\ UNCHANGED <<mode, now, marker, passed, sent, overlapped>>

\* The key asked for is not the key written: .get falls back to 0.
FreshOtherKey(m, t) == m.form = "stamp" /\ t - 0 < Window

\* Only a marker that can be read denies; a missing or empty one, left by a call
\* that died after truncating it, does not.
Fresh(m, t) == m.form = "stamp" /\ t - m.at < Window

\* A denial that restarts the window.
DenyAndStamp(p) ==
    /\ call[p].step = "guard"
    /\ Fresh(marker[call[p].job], call[p].at)
    /\ marker' = [marker EXCEPT ![call[p].job] = Stamp(call[p].at)]
    /\ Return(p)
    /\ UNCHANGED <<mode, now, passed, sent, overlapped>>

\* _duplicate_guard answers True: denied as a duplicate, the marker left alone.
Deny(p) ==
    /\ call[p].step = "guard"
    /\ Fresh(marker[call[p].job], call[p].at)
    /\ Return(p)
    /\ UNCHANGED <<mode, now, marker, passed, sent, overlapped>>

\* And False: on the way to writing a marker of its own.
Admit(p) ==
    /\ call[p].step = "guard"
    /\ ~Fresh(marker[call[p].job], call[p].at)
    /\ call' = [call EXCEPT ![p].step = "truncate"]
    /\ passed' = [passed EXCEPT ![call[p].job] =
                    IF @ < call[p].at THEN call[p].at ELSE @]
    /\ UNCHANGED <<mode, now, marker, sent, overlapped>>

\* open(path, "w")
Truncate(p) ==
    /\ call[p].step = "truncate"
    /\ marker' = [marker EXCEPT ![call[p].job] = Empty]
    /\ call' = [call EXCEPT ![p].step = "stamp"]
    /\ UNCHANGED <<mode, now, passed, sent, overlapped>>

\* Stamps the end of the window instead of its start.
WriteStampEnd(p) ==
    /\ call[p].step = "stamp"
    /\ marker' = [marker EXCEPT ![call[p].job] = Stamp(call[p].at + Window)]
    /\ call' = [call EXCEPT ![p].step = "post"]
    /\ UNCHANGED <<mode, now, passed, sent, overlapped>>

\* The write reaches the file when it is closed.
WriteStamp(p) ==
    /\ call[p].step = "stamp"
    /\ marker' = [marker EXCEPT ![call[p].job] = Stamp(call[p].at)]
    /\ call' = [call EXCEPT ![p].step = "post"]
    /\ UNCHANGED <<mode, now, passed, sent, overlapped>>

\* The trigger reaches fazle-core; the caller hears of it, or times out.
PostServed(p) ==
    /\ call[p].step = "post"
    /\ sent' = sent \union {[job |-> call[p].job, at |-> call[p].at]}
    /\ Return(p)
    /\ UNCHANGED <<mode, now, marker, passed, overlapped>>

\* It does not, or fazle-core answers with an error.
PostFailed(p) ==
    /\ call[p].step = "post"
    /\ Return(p)
    /\ UNCHANGED <<mode, now, marker, passed, sent, overlapped>>

Advance(p) ==
    \/ PassGate(p) \/ ReadClock(p) \/ Deny(p) \/ Admit(p)
    \/ Truncate(p) \/ WriteStamp(p) \/ PostServed(p) \/ PostFailed(p)

Next ==
    \/ Tick \/ SwitchMode
    \/ \E p \in Proc : Call(p) \/ Advance(p) \/ Crash(p)

Spec == Init /\ [][Next]_vars

-----------------------------------------------------------------------------
(* Properties. *)

\* A job was triggered within the window, dated as the guard dates it.
Triggered(job, t) == \E s \in sent : s.job = job /\ t - s.at < Window

\* Nothing is triggered out of a call that saw READ alone, and a DESTRUCTIVE job
\* only out of a confirmed call during which RUN was in force.
TriggerIsAuthorised ==
    [][\A p \in Proc : PostServed(p) =>
         /\ call[p].best # "READ"
         /\ JOB_REGISTRY[call[p].job] = DESTRUCTIVE =>
              call[p].confirm /\ call[p].best = "RUN"]_vars

\* For as long as no two turns have overlapped, and across crashes, lost answers and
\* clock ticks between any two steps, no call is let through while its job was
\* triggered within the window: an impatient retry of a job whose answer was lost
\* does not run it twice.  (Two overlapping turns can both be let through: neither
\* lock nor exclusive create stands between reading the marker and writing it, and
\* a marker one of them truncated as it died lets a later turn through as well.)
TriggeredMeansDenial ==
    [][~overlapped =>
        \A p \in Proc : Admit(p) => ~Triggered(call[p].job, call[p].at)]_vars

\* A marker that still denies goes back to a call let through within the window:
\* denied calls do not keep a job denied, and no crash leaves it denied for good.
DenialHasACause ==
    \A job \in Jobs : Fresh(marker[job], now) =>
        passed[job] # Never /\ now - passed[job] < Window

\* "Returns True if this job was already successfully triggered within the
\* debounce window": a denial means a trigger.  Refuted: the marker is written
\* before the post, so a failed one denies its own retry.
DenialMeansTriggered ==
    [][\A p \in Proc : Deny(p) => Triggered(call[p].job, call[p].at)]_vars

=============================================================================
