# fazle-mcp: a verification project

fazle-mcp is the stdio MCP server through which Hermes (an LLM agent) works on
fazle-core's business data. It is a thin program: nearly every tool checks who may do
what, sends one HTTP request and tells the caller what came of it. What can go wrong in
it is therefore not computation but *authority and truth*: whether a change was allowed
when it was made, and whether what the caller is told of it is so, while modes lapse,
approvals move, requests are lost or served late, processes are started and killed with
every turn, and people work on the same rows.

The modules here model that control, TLC checks it on small instances, and TLAPS proves
the most important results for every value of the constants.

## 1. Inventory

| Part | State | Operations | Talks to | Hard behaviour |
|---|---|---|---|---|
| Mode gate (`_read_mode`, copied into every tool module) and mode report (`mode_tools.py`) | none of its own; reads `current_mode.txt` of hermes-runner | `_read_mode`, `get_mode_state` | a file another process writes | expiry at an instant, damaged content, two readers that must agree |
| Action approvals (`task_tools.py`) | rows of `hermes_action_approvals` and a task's BUILD authorization, in fazle-core | propose, approve, reject, authorize (fused), record result, authorize build | fazle-core | several reads before one write; two ways through one gate |
| Hard-gated tools (`dispatch_tools.py`, `client_billing_tools.py`, `escort_program_tools.py`, `opencode_tools.py`) | none | ten mutations, each quoting an approval | task_tools, fazle-core, OpenCode | the approval, the mode and the request are separate steps; OpenCode needs two requests |
| Scheduler (`scheduler_tools.py`) | one marker file per job, surviving the process | `run_scheduled_task`, `list_available_tasks` | fazle-core | read-then-write without a lock, crash between truncate and write, write before post |
| Confirmed changes (`send_whatsapp_tools.py`, `payment_draft_tools.py`, `accounting_tools.py`, `attendance_tools.py`, `employee_tools.py`, `escort_roster_tools.py`, `admin_directive_tools.py`) | none; rows and the outbound queue are fazle-core's | 25 mutations, `check_outbound_status` | fazle-core | queued is not sent; retries after a timeout; people deciding the same rows |
| fazle-core client (`fazle_core_client.py`) | none | get, post, put, patch, delete | fazle-core over HTTP | a request answered, refused, lost, or served after its timeout |
| Assistant bridge client (`assistant_bridge_client.py`) | a session token and its end | `get` | assistant-backend over HTTP | a session that ends before the cache, the 401 retry, requests outside the try |
| Reports and metrics (`domain_reports.py`, `metrics_tools.py`, `operational_tools.py`, `report_schema.py`) | none | seven reports of one to three reads | fazle-core; assistant-backend through the bridge client | a read that fails beside others that do not; data that moves between two reads |
| Monitoring (`monitoring_tools.py`) | none; judges fazle-core's job rows by their age | `get_monitoring_status`, `get_monitoring_report` | fazle-core, `audit_tools` | a job that stops silently, an unreadable row, a log search that fails |
| Client resolution (`client_billing_tools.py`) | none | `find_client_billing_profile` | fazle-core | one telephone in many forms, shared phones, a name beside a phone |
| Assignments (`dispatch_tools.py`) | none | assign, unassign with the employee read before | fazle-core's dispatch engine | a decision served late, or twice, after somebody else was assigned |
| Audit (`audit_tools.py`) | none | `audit_read_file`; searches of files, logs, git, databases | files | paging through a file that grows |
| Action policy (`action_policy.py`) | none | `classify_terminal_command`, `requires_gated_approval` | | a command that falls under several categories |
| Reply drafts (`draft_tools.py`) | none | `draft_whatsapp_reply` | fazle-core | a draft is decided by others than its author |
| Task bookkeeping, PII masking, lookups, server registration | none | reads and pass-throughs | fazle-core | see section 8 |

How they interact: `server.py` registers every tool and hands its arguments on. A
hard-gated tool asks `task_tools.get_action` for the approval, reads the mode file and
sends its request; nothing is locked and nothing is cached in between. The reports of
`server.py` and `domain_reports.py` use the bridge client; everything else uses the
fazle-core client. One fazle-mcp process lives for one Hermes turn, so whatever must
outlive a turn is in a file (mode, debounce markers) or in fazle-core.

What makes each part correct, in a sentence:

* mode: no gate acts on more authority than was granted, a TTL ends it, and the report
  neither hides nor invents it;
* approvals: an approval has an admin's confirmed authority behind it; a change has a
  standing approval of its own type behind it, seen by the very call that makes it;
* scheduler: no second run within the window, no denial without a cause;
* confirmed changes: authorised, at most once per call, and truthfully reported;
* bridge: a dead session heals inside the call, without a storm of logins, and errors
  are returned, not raised;
* reports: what a report says was so at some instant of the call, and nothing that was
  wrong throughout is reported healthy; a report always comes;
* monitoring: the gravest state decides, and a job that stops is noticed;
* client resolution: found is only whom the question can mean, in whatever form;
* assignments: of the decisions made on one employee one is carried out, and nobody who was
  assigned meanwhile is taken off unseen (which does not hold of callers that read nobody,
  section 5);
* audit pages: going on from the reported end, no line is lost or repeated, unless that
  end was asked for as a negative number;
* action policy: a command that needs an approval of its own, or is never run, stays so
  whatever is chained onto it (one that needs a BUILD scope does not, section 5).

## 2. Modules

| Module | Models | Built on |
|---|---|---|
| `ModeFile` | the two readers of the mode file, as operators of content and time | |
| `ModeReport` | the mode file over time: grants, damage, the clock | `ModeFile` |
| `ToolCatalog` | the tools by gate, and the action type each demands | |
| `ApprovalLedger` | abstract: what the approval flow promises | `ToolCatalog` |
| `ActionApproval` | the approval flow, call by call and step by step | `ModeFile`, `ToolCatalog`, INSTANCE `ApprovalLedger` |
| `SchedulerGuard` | `run_scheduled_task` with its debounce | |
| `ConfirmedChanges` | the tools behind RUN and confirm=True alone | |
| `BridgeSession` | `assistant_bridge_client.get` | |
| `DomainReports` | the operational reports, composed with the bridge session under three of them | `BridgeSession` |
| `MonitoringReport` | the monitoring report over jobs that run and age | |
| `ClientResolution` | `find_client_billing_profile` over profiles that change | |
| `DispatchAssign` | assign and unassign with their optimistic concurrency | |
| `AuditPages` | `audit_read_file` on a file that is written to | |
| `ActionPolicy` | `classify_terminal_command` on commands put together phrase by phrase | |
| `MCComponents` | the seven parts above that share no state, side by side in one run | the six modules above |
| `ModeReport_proofs`, `ActionApproval_proofs`, `SchedulerGuard_proofs`, `ConfirmedChanges_proofs` | theorems | the module they are named after |
| `StaleReads_proofs` | theorems about acting on what was read before | `DispatchAssign`, `AuditPages` |
| `Reports_proofs` | theorems about the bridge session and the reports | `DomainReports`, `MonitoringReport` |
| `Decisions_proofs` | theorems about what a command and a client are taken for | `ActionPolicy`, `ClientResolution` |
| `Components_proofs` | that these hold of the components side by side | `MCComponents`, the three above |
| `MCActionApproval`, `MCSchedulerGuard`, `MCConfirmedChanges` | values and symmetry for TLC | the module they are named after |

### ModeFile and ModeReport

A content of the file is the least a reader can tell apart: how far the parse gets
(`form`), the mode named, the shape of `expires_at` (`ttl`) and, when it denotes an
instant, which one. `ReadMode` is `_read_mode`; the branch worth knowing is an expiry
without a UTC offset, where the comparison raises `TypeError` and the outer handler,
meant for bare words, answers READ. `ReportedMode`, `Countdown` and `Verified` are
`get_mode_state`. In `ModeReport` the file is written by hermes-runner and damaged by
anything; since readers are functions of the state, each invariant speaks of what a call
at any moment would conclude. `grant` is history: the last mode granted and its end.

### ActionApproval

A process is one fazle-mcp; it makes one call at a time. A call is the sequence of
separate reads the code makes: `check` (GET the approval), `mode` (read the file),
`lookup` (GET the task), `label` (the second reading in `authorize_action`), `session`
(OpenCode), `post`. Between two of them anything else may happen. A request can be served
with its answer arriving or not (`PostServed`), refused or lost (`PostRefused`), or left
on its way by a timeout or the death of its process (`PostLate`, `Crash`), to be served
(`ServeLate`) or lost (`RefuseLate`) at any later time. `mode` is what `_read_mode` would
answer now, `build` the tasks whose lookup would answer with a live authorization.
fazle-core's part (`Serve*`) is external and modelled from what the tools rely on.

Three variables are history and guard nothing: `witnessed[p]` gathers, over all states of
the call, whether RUN was in force, whether the call's own task was authorized, whether
the quoted approval stood; `warrant[a]` is what the call that approved `a` had witnessed;
`ran` is what the hard-gated tools changed. They let an invariant say "at some instant of
the same call", the strongest thing a program without locks can promise.

Abstracted: the task's own status, the text of a proposal, the difference between
business routes of one module. Ids are never compared but for equality.

### ApprovalLedger

The promise without the machinery: a request goes one way through its statuses and a
tool changes something under an approval of its type that stands, or was recorded while
the change was under way. `ActionApproval` implements it with `done` mapped to the
<<tool, action>> pairs of `ran`.

### SchedulerGuard

One action per file operation: take the time, read the marker (`Deny` or `Admit`),
truncate it, write it, post. The marker is missing, empty or a stamp, and outlives its
process. One turn after another is the life the docstring describes ("fazle-mcp is spawned
fresh per Hermes turn"), but nothing enforces it: `overlapped` is history and remembers
whether two turns have been in a call at once, which is where `TriggeredMeansDenial`
stops being claimed.

### ConfirmedChanges

Calls are numbered as they are made; those in progress together belong to different
processes, and a retry is a new call. A tool reviews a row waiting in fazle-core
or makes its change directly; a send or an approved reply draft becomes a row of the
outbound queue, which the queue's worker moves and `check_outbound_status` reads. A reply
draft is absent until `draft_whatsapp_reply` puts it up for review, without a gate. Checks
of arguments ahead of the gate (an empty recipient) are left out: they only deny.
Tools of one source file share their gate, so the tool sets carry the files, and the sets
by what they do to a row (`ApproveTools`, `RejectTools`) carry the difference between
them. The keys of fazle-core's answers are taken to be those its tests show: none is
called `status`, so the tool's own "queued" stands.

### BridgeSession

`_token`, whether the fifteen minutes run, and one call of `get`. The backend goes down
or up, ends sessions and answers as it likes. `raised` is an exception of a login or a
second GET; `garbled` one of `resp.json()` on a 2xx answer that is no JSON. It runs under
the reports that use it, in `DomainReports`.

### DomainReports

What can be wrong with the part a report is about is a set of `facts`, each told by one
source; they come and go while the report is being made. A report on fazle-core makes its
reads in the code's order, each answered with the facts of that instant or failed; a
report on the assistant backend makes one `Call` of `BridgeSession`, and its rows are those
of the instant a GET was answered. `StatusOf` and `Problems` stand for the composing of
each report. Which failed reads matter is the code's choice: an unread dead-letter queue
or an unread sample passes for nothing wrong. `ever` and `always` are history: the facts at
some instant, and at every instant, of the call. fazle-core sums its health probes up in a
word of its own, which the report takes for its status, UNKNOWN if it is none that it
knows (`summed_up_otherwise`): whether that word names every probe that is not ok is not
for this code to say, so `VerdictWasTrue` leaves it out.

### MonitoringReport

A row is its `last_status`, whether there is a `last_error`, the shape of `last_run_at` and
its age in ticks, counted up to one past the job's own limit. Fetching and composing are
two steps, because the log is searched after the fetch. A row without a UTC offset raises
out of `get_monitoring_status` (`StatusRaises`).

### ClientResolution, DispatchAssign, AuditPages, ActionPolicy

Each is a question asked of a state that others change. A phone is a short sequence of
characters of which the last `TailLength` digits count (ten in the code, two in the run),
because the form-independence of the comparison is what matters; names are related to what
they contain (`Within`). Whether the last digits tell the telephones at hand apart is a
fact about the phones, not about the code: `Last10TellsTelephones` says so, and
`MCComponents` has TLC check it of the run's phones. A decision in `DispatchAssign` remembers whom its caller read; a
request is served when the engine comes to it, also after the caller gave up, and may be
sent again. `relieved` is history: the employees in whose place a decision was carried out
and who have not been assigned since; it lets `NoLostUpdate` say of all callers and their
repetitions together that an employee is replaced once. A file in `AuditPages` is the number
of its lines; `from`, `next`, `covered` are the reader's. An `end_line` may be negative: the
answer then holds the lines up to so many from the end and tells the negative number for
its last, so that going on from there begins the file again; `fromEnd` remembers that the
reader began so, and the two properties of paging speak of the others. A command in `ActionPolicy` is a sequence of the phrases the regular
expressions look for, with the ones that look at what follows (`--force`, `WHERE`, the
verbs after `psql`) kept as such; newlines, which `.` does not match, are left out. `Held`
ranks the four ways of being gated: never run, on an approval of its own, in an authorized
BUILD scope, freely.

### MCComponents

These parts share no variable, so they are checked in one run: the first state chooses the
component that moves. It is a sum of state spaces, not a product, and each property is
about the component whose variables it names.

## 3. Runs

| Run | What it shows | States |
|---|---|---|
| `mode_report` | gates within grants, report shows authority, countdown exact, authority only lapses, TTL reverts | 2 112 |
| `approval_two_step` | propose / approve / reject / execute / record by two processes: executions approved and current, every call returns, the flow implements the ledger | 152 768 |
| `approval_fused` | fused authorization by two processes on two tasks: grants authorised; `IInv` is an invariant | 1 882 827 |
| `scheduler_guard` | two turns, apart or overlapping: no second run within the window while apart, denials have a cause, triggers were allowed | 4 667 167 |
| `confirmed_changes` | authorised, true, once, decided once, sent means sent | 858 129 |
| `components` | the six modules of section 2 named in `MCComponents`, and the bridge session: verdicts true and gravest, silent jobs noticed, reports come, one retry, healing, found is meant, no update lost, pages cover, approvals survive chaining | 232 277 |
| `mode_report_disagrees`, `approval_label`, `scheduler_failed_post`, `dispatch_overwrites`, `bridge_session_raises`, `monitoring_evidence` | the six disagreements of section 5 | |

Bounds, all named constants, and why they are enough:

* `mode_report`: `MaxTime = 7`, two ticks to a second, lifetimes of half a second, one
  second and two and a half: every remainder of the countdown, an expiry on and off a full
  second, and room for a grant after an expired one.
* `approval_*`: one approval id, because no property relates two approvals and every
  operator reads one row at a time (the theorems hold for any number); two processes,
  because every race is between one call and what the rest of the world does, and the
  world (mode, lapses, late requests) is unbounded; two tasks where the wrong task's
  authorization matters; two action types where a wrong type does; one late request.
  The two runs split the tools so that each flow is complete: two-step with OpenCode and
  liveness, fused with dispatch. Symmetry of processes and tasks is used in the fused run,
  which has no liveness property.
* `scheduler_guard`: two processes, a destructive and a low-risk job, a window of two ticks
  and a clock of three instants, so that a marker is fresh and on the edge of the window.
  The clock stops at its bound; the other steps go on.
* `confirmed_changes`: two calls, enough for a retry or a race, with a reply draft and a
  payment draft under review at once, each also decided by people. The tools of the
  other files differ from these only by name and kind of row.
* `components`: the reports and the bridge session have no bounds, they are finite. Two
  monitored jobs, so that one can cover the other, each stale after one tick; two clients
  and two names, four written phones; two employees, two decisions sent twice at most;
  files of up to five lines read in pages of two and three (the code's 500 and 2000);
  commands of up to four of thirteen phrases, at least one of every category: two that
  interact (`git push` and `--force`), one before and one after.

Every property of a passing run comes with a mutated definition of the code (the
operators with a comment such as "The gate does not compare the action type") under which
TLC finds it violated.

## 4. Fairness

Only two things are assumed to happen. A call in progress takes its next step
(`WF_vars(Advance(p))` in `ActionApproval`, `ReportsFairness` in `DomainReports`): each
step is a local file read or an HTTP request with a timeout (15 s, 30 s, 155 s for an
OpenCode prompt, 10 s for a login), which ends in an answer or an error, or the composing
of what was read. And the clock ticks (`Tick` in `ModeReport`, `MonitoringTick` in
`MonitoringReport`). Nobody is obliged to call, to ask for a report, to decide, to switch a
mode, to run a job, to serve a late request or to bring a backend up.

## 5. Where code and comments disagree

1. `mode_tools.py:109` passes over an `expires_at` it cannot parse and reports the file's
   mode as verified; the gates answer READ for the same content, and the comments
   say the readers match. (`ReportAgreesWithGate`)
2. `task_tools.py:256` labels the answer of `authorize_action` by a second reading of the
   mode file; a mode that lapses in between gives the label of a task authorization that
   does not exist. (`LabelIsHonest`)
3. `scheduler_tools.py:121` writes the marker before the post, so a failed post denies its
   own retry as "already triggered"; the docstring says "successfully triggered".
   (`DenialMeansTriggered`)
4. `assistant_bridge_client.py:43,51-52` log in and repeat the GET outside the try; the
   docstring says `get` never raises for a reachability or auth failure. (`NeverRaises`)
5. `dispatch_tools.py:255-256` leaves an expectation of None out of the request; the
   docstring gives None the meaning "unassigned" and promises that a call decided on what
   has changed since "is rejected as stale rather than silently overwriting a concurrent
   change". A caller that read nobody takes off whoever was assigned meanwhile. What
   fazle-core makes of the missing key is external: no expectation. (`NothingIsOverwritten`)
6. `monitoring_tools.py:108` takes a log search that failed for one without matches, and
   the report says that no matching log lines were found; the docstring of
   `_gather_evidence` says that an empty list means genuinely no evidence.
   (`EmptyMeansNone`)

Two more have no run of their own, for what they show is had more plainly:

* `classify_terminal_command` "checked in descending risk order so nothing dangerous falls
  through to a weaker bucket by accident", with unrecognized commands "never treated as
  [...] fully-free" (`action_policy.py:79-85`). The two free lists are tried before the
  default, and their patterns look anywhere in the command: `sed -i x` is
  WORKSPACE_MUTATION and needs an authorized BUILD scope, `sed -i x; pytest` is
  SAFE_EXECUTION and `sed -i x; git log` READ_ONLY, neither gated. It is the second
  exception of `ApprovalSurvivesChaining`, and the theorem `ChainingFreesAnEdit` proves it
  of exactly these commands.
* `server.py:968` calls `domain_reports.get_cash_report`, which is not defined: the tool
  always ends in `AttributeError` (`GetCashReport`), where its docstring promises a report.

Two smaller ones show no behaviour: the docstring of `get_monitoring_report`
in `server.py` promises evidence "for any alerting/stale job", and only alerting jobs are
looked into (`monitoring_tools.py:150`); `action_policy.py:14` says that `task_tools.py` uses
it, and nothing in `src/` outside its tests does.

## 6. Proofs

`ActionApproval_proofs`, for any finite or infinite sets of processes, tasks, actions and
any choice of tools and kinds, from the named assumptions of `ActionApproval` (ids are not
`NoTask`/`NoAction`, `Kinds` and `Tools` are known ones, `MaxLate` is a natural number):

* `TypeCorrect`, `GrantsAreAuthorised`, `ExecutionsAreApproved`, `ExecutionsAreCurrent`,
  all from `Invariance == Spec => []IInv`. The properties are not inductive alone: that
  an execution is approved depends on what its call established two steps earlier. `IInv`
  adds `CallsAreJustified` (a call at each step holds what the steps behind it
  established, in a form no lapse or switch of the environment takes away: "approved"
  becomes "approved or executed", "RUN now" becomes "RUN witnessed"), `LateIsJustified`
  (the same of requests whose caller has gone), `WitnessIsFresh` (history includes the
  present, so that a guard on the present state yields a fact about history) and
  `ArgumentsFit`. The proof has one lemma per action; `StepKeeps` carries what every
  action of one process leaves alone about the others.
* `ImplementsLedger == Spec => LedgerIsImplemented`: initial states map to initial states,
  and under `IInv` every step is a step of the ledger or a stutter. The invariant is needed
  where a request is served: the ledger's `Execute` asks for a standing approval that
  fazle-core's routes never look at.

`ModeReport_proofs`, for any clock bound, tick length and lifetimes: `TypeCorrect`,
`GatesStayWithinGrants` (strengthened by `FileIsTheGrant`: a file that still names a mode
names the granted one with the granted end), `AuthorityLapsesOnly`, `AuthorityIsShown`
and `CountdownsAreKept`. The last two are about the two readers on one file and need no
more than its type; for the countdown, that a remainder of a second is cut off, never
rounded up.

`SchedulerGuard_proofs`, for any processes, jobs, clock bound and window:

* `TypeCorrect`, `DenialsHaveACause` and `TriggersAreAuthorised`, for any number of
  overlapping turns, from `IInv`: a call past the gate has seen a mode that allowed it
  (`CallAllowed`, with the rank of the highest mode seen never below the present one), a
  call past the guard is remembered in `passed` (`CallDated`), and a marker is never
  younger than the last call let through (`MarkersInOrder`).
* `RetriesAreDenied`, for any number of processes, as long as no two of their turns have
  overlapped: `OneActive` (until then at most one is in a call), `TriggersCovered` (every
  trigger is still covered by a marker at least as young, or its window is over) and
  `CallsInformed`, which carries that across the steps between the reading of the marker
  and the post. Once turns overlap, the steps of the other call break `CallsInformed`
  between the read and the write.

`ConfirmedChanges_proofs`, for any rows of the five kinds, any choice of the tools and any
number of calls: `TypeCorrect`, `ChangesAreAuthorised`, `AnswersAreTrue`,
`CallsChangeOnce`, `RowsAreApprovedOnce` and `SentIsSent`, from `IInv`. Of its parts,
`CallsFit` says what a call at each step may hold and have done: past the gate it is
confirmed and has seen RUN, a request on its way has not been served, and a call in
progress has noticed the mode in force (`CallIsFresh`), without which the gate would
establish nothing. `RowsShowDecisions` keeps what a served call decided on its row.
`RowsApprovedOnce` puts "at most one approval" as: no two calls approved the row, no call
if a person did, and somebody if it is approved; the number in `ApprovedAtMostOnce`
follows from it. Every change of a row goes through `Serve`, in time or late, so two
lemmas (`LocalStepKeeps` for a step that only its call sees, `ServeStepKeeps` for one that
makes its change) carry eight of the thirteen actions.

`StaleReads_proofs`, for any employees, decisions and number of requests, and for any page
sizes and length of the file: `DispatchTypeCorrect` (with no more requests served and on
their way than sent), `UpdatesAreNotLost`, `AuditTypeCorrect`, `PagesAreComplete` and
`LinesComeOnce`. `NoLostUpdate` needs `DispatchInv`: nobody is assigned who was relieved and
not put back, by hand or by a decision. `PagesCover` is not inductive: a reader told to go on past the end of
the file would leave a gap when the file grows. `AuditInv` adds that it goes on in the file
or one line after its end, until the file is rewritten; `PageBounds` and `PageGoesOn` are
what `audit_read_file` returns, for every `start_line` and `max_lines` and every `end_line`
that is not negative (`FromEnd`); of a negative one, that the page holds lines of the file.

`Reports_proofs`, for any list of jobs, any limits and run outcomes; the session and the
operational reports have no bounds.

* `VerdictsAreWorst`: the loop over the jobs comes to the gravest state of all of them.
  `LoopComputesWorst` gives the loop in closed form. It is an induction over the jobs,
  which is not to be had from the induction theorems here; `LeastNat` (a set of naturals has
  a least element) takes its place: the first prefix of the list at which the loop and the
  closed form differ would have to be neither empty nor one job longer than one at which
  they agree. `VerdictFits` then keeps the fetched judgement and the verdict together.
* `CallsRetryOnce` and `DeadSessionsHeal`, from `SessionInv`. `Counted` relates the
  requests made to where the call is: it has to say that a call that starts over has no
  token left, or the second GET could be made without a login. `Untroubled` says that a
  call nothing has upset holds a living session by its second GET.
* `ReportsUseTheSession`: what the reports do is, in the session's variables, a step of
  the session or a stutter; so `ReportsRetryOnce`, for the calls that the reports make.
* `VerdictsWereTrue`, from `ReportsInv`: `Witnessed` (what was so at every instant is so
  now, what is so now was so at some instant, and no answer holds what never was),
  `Progress` (how far each kind of report has come, and that each source behind it has
  failed or told what has been so all along) and `RowsTell`, the same of the rows of a
  backend call. Without `Progress` a HEALTHY report has nothing to show for the reads made
  before the last.
* `MonitoringTypeCorrect`, `SessionTypeCorrect`, `ReportsTypeCorrect`.

`Decisions_proofs`:

* `ApprovalsSurviveChaining`, for commands of any phrases and length. `HeldByLists` says what
  `classify_terminal_command` holds a command back by, from the order of its lists alone:
  a command is destructive if the first list matches, gated if one of the next four does,
  and in need of a BUILD scope if none does. `DestructiveStays`, `GatedStays` and
  `FreedByThePhrase` are then about one pattern at a time. `ChainingFreesAnEdit` shows that
  the exception for the BUILD scope cannot be dropped.
* `OnlyMatchIsFound`, for any profiles, names, phones and telephones of which
  `Last10TellsTelephones` holds. The hypothesis is needed and is true of the run's phones
  (`MCTelephones`); what `_last10` makes of a phone is a computation over its characters.
  The invariant behind it, `AnswerStands`, is that the answer given is the one the
  profiles give now, or was an error.

`Components_proofs`: `ComponentsKeepTheirSpecs` (each component does, among the others,
what its own specification says, with its fairness), `ComponentsTypeCorrect` and
`ComponentsKeepTheirPromises`, by which all that the run `components` checks but its two
liveness properties is proved of the specification it checks. `MCTelephones` is assumed
there, as TLC checks it.

All assumptions are named `ASSUME`s of the modules: counts and bounds are natural numbers,
page sizes are positive, placeholders (`None`, `NoTask`, `NoItem`) are no values, the job
list is a sequence, run outcomes are what fazle-core may write. TLC evaluates each in a run.

Two definitions were found wrong by their proofs: `StatusOf` and `Find` were a CASE whose
arms overlapped. The language then leaves open which arm is taken, where Python takes the
first (TLC does too, so that no run could tell); both now put the earlier return first.

Only model-checked: liveness (`CallsReturn`, `TtlReverts`, `ReportEnds`,
`HealthyMeansRunning`), which is beyond this prover, and what `_last10` computes. Every
invariant and every action property of the passing runs is proved.

## 7. Plan

Done: every part of the inventory that keeps or races with state; every safety property of
the passing runs, and the ledger that the approval flow implements, proved. Next, in order:

* An abstract specification of a reviewed row (absent, pending, decided once), and
  `ConfirmedChanges` shown to implement it.
* Lemmas on `_last10` that give `Last10TellsTelephones` for telephones of any length.
* `classify_file_op` beside `ClassifyTerminalCommand`, when a caller of it is in the
  repository.

## 8. Not modelled, and why

* The searches of `audit_tools.py` (files, logs, git, databases) and its path checks, and
  the lookups: read-only I/O and text; they change no state and no gate depends on them.
* Task bookkeeping: each tool hands one ungated request on; the task statuses and the
  transitions between them are enforced by fazle-core, of which nothing is here.
* `pii_mask.py`: every caller says that its context is the admin's, for which the masking
  is not applied.
* `classify_file_op` and `action_type_for` of `action_policy.py`: one lookup each.
* `server.py`: registration. Its wrappers matter here only for their defaults
  (`confirm=False`, `task_id=None`), which the models take from them, and for
  `get_cash_report`.
* fazle-core, hermes-runner, OpenCode and assistant-backend are not in the repository.
  What the tools rely on of them is modelled and marked external: only a pending row is
  decided, only an approved action is recorded, a message is sent by the queue's worker, an
  expectation is compared with the employee assigned.
* The wall clock never steps back and is the same for all processes (they share a
  machine); a clock set back is listed among the hazards.
