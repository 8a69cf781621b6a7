# William AI system: a TLA+ verification project

William is a multi-tenant assistant: a FastAPI backend, a Master Agent that plans work for
specialised agents, a Next.js dashboard, and *device workers* that carry out commands on a
user's own computer. This directory holds specifications of the parts of it in which
several processes share state, model-checking instances for TLC, and theorems checked by
TLAPS.

    tlc -workers 2 -config MC_WorkerQueue.cfg MC_WorkerQueue      # a model-checking run
    tlapm WorkerQueueProofs.tla                                    # the proofs of a module

## The system

| Part | Where | State it keeps | Operations | What is hard about it |
|---|---|---|---|---|
| Device command queue | `database/models/worker_task.py`, `apps/api/routes/system_worker.py` | `worker_tasks` rows, `last_command`/`last_result` of the presence row | create, poll, report | no claim on polled rows, reports lost, late or repeated |
| Windows worker | `apps/worker_nodes/windows/windows_worker.py` | `current_task_id`, stop event, next heartbeat | register, heartbeat, poll, execute, report, stop | crash between effect and report, revoked credential, exceptions that escape |
| Device onboarding | `apps/api/routes/device_setup.py`, `device_setup_token.py`, `system_worker.py` (models) | setup tokens, one presence row per workspace with the device token's hash and status | mint, register, disable, authenticate, heartbeat | several API processes, unlocked read-then-write transactions |
| System Agent device control | `agents/system_agent/system_agent.py` | none | check the connection, queue a command | a check made stale by a disable or a new registration |
| Task routes | `apps/api/routes/tasks.py` | `TASK_STORE` in the memory of one process | create, run, cancel, list; quota and history limit | status read before an `await` and overwritten after it |
| Accounts | `apps/api/routes/auth.py` | sessions and revocation lists in the memory of each process | log in, refresh, switch workspace, log out, revoke | rotation races, restarts, reviews awaited between look and write |
| Dashboard token renewal | `apps/dashboard/src/lib/api-client.ts`, `auth.ts` | one stored token pair for all tabs, one `refreshPromise` per tab | attach, renew, retry, sign out | two tabs renewing one token, lost answers |
| Security Agent approvals | `agents/security_agent/approval_manager.py` | approval requests, idempotency index | create, read, decide, cancel, revoke | reads that write stale copies, limits checked early |
| Assistant conversations | `apps/api/routes/assistant.py`, `database/models/conversation_session.py` | conversation threads: status, fields asked and answered | start, continue, execute, record the outcome | two processes save one thread, a thread that waits while it executes |
| Master Agent pipeline | `core/master_agent.py`, `router.py`, `planner.py`, `*_bridge.py` | plan, step states | route, plan, approve, execute with timeouts, verify | abandoned threads, repeated entrypoints |
| Core task manager | `core/task_manager.py` | tasks, parent/child links, events | life cycle, retry, delete | lock released between failing and retrying |
| Agent framework | `agents/registry.py`, `agent_router.py`, ... | registry, health, routing state | register, load, route, fall back, chain, broadcast | fallback loops |
| Voice | `apps/api/routes/voice.py`, `services/voice_service.py` | pending voice approvals | turn, confirm, cancel | confirmation of a stale question |
| Subscriptions | `subscriptions/` | usage snapshots, plans | check, record | check-then-record |
| The rest | other routes, super agents, other pages, deployment | rows and documents | mostly validation, wording and I/O | little shared protocol |

How they interact.  The dashboard calls the API over HTTP with the access token of a session.
`tasks.py` and `assistant.py` call the Master Agent or one of the agents in process; the System
Agent, called by them, looks at the presence row and inserts a `worker_tasks` row.  The worker
authenticates with a device token (`get_worker_auth_context`), sends heartbeats, polls,
executes and reports over HTTP.  The dashboard can disable the device at any time.  The API
runs in several processes (`deploy/systemd/william-api.service:158`, `--workers
${WORKERS:-2}`); the database is what they share.  `TASK_STORE`, the session store and the
revocation lists are what they do not.

What makes each part correct:

* **Queue and worker** - a command shown as completed was performed; a command parked for
  approval never is; a reported command never returns to the queue; a command is repeated
  only for a reason (another worker, a fault); queued commands are served in the end.
* **Onboarding** - consuming a setup token and registering a device are one thing; a revoked
  device token is never accepted again; a registered one works until a disable or a later
  registration ends it, however their transactions overlap.
* **Queue and onboarding together** - credentials behave as the queue assumes; a command
  reaches another device than the one it was asked of only after that one was cut off.
* **Task routes** - a task is executed by one request at a time; a sensitive task is executed
  only when approved; a running record has somebody to finish it; the list and the store
  agree.
* **Accounts** - a refresh token is redeemed once; an ended session stays ended, in every
  process and across restarts; a page that stays open does not leave the browser on a token
  that was rotated away.
* **Approvals** - an approved request has its quorum; a refusal is final; no approval is lost;
  limits are exceeded by no more than the threads under way.
* **Conversations** - no field of a task gets lost over the rounds but by what the client itself
  blanks or a stale save leaves out; an answer is not lost to a message that had seen it; a
  thread that has ended is not taken up again.

## Modules

| Module | Role |
|---|---|
| `CommandContract` | abstract specification: what the queue promises about each command |
| `WorkerQueue` | queue, API handlers and worker processes; implements `CommandContract` |
| `DeviceSetup` | device onboarding as overlapping transactions |
| `DeviceConnector` | composes the two behind the System Agent; implements `WorkerQueue` |
| `TaskRoutes` | the `/tasks` handlers of one process as coroutines |
| `SessionContract` | abstract specification: one store of sessions, each with one good refresh token |
| `AuthSessions` | session stores, refresh tokens and the browser's tabs; implements `SessionContract` |
| `ApprovalManager` | approval requests under several threads |
| `Conversations` | assistant threads under several API processes |
| `MC_*` | small instances and symmetry for TLC |
| `*Proofs` | inductive invariants and theorems of the module they extend |
| `WorkerQueueExecutions` | theorems of `WorkerQueue` that count executions |

### WorkerQueue

`row[t]` is the `worker_tasks` row of command `t` (its status, and which of the result and
error columns have ever been filled), `lastReport` the presence row's `last_command` and
`last_result`.  `executed` counts effects on the user's machine and `late` the reports whose
sender has given up but that the API will still serve: neither is a program variable, both
are what the environment knows.  Per worker, `pc` is the place in `run_forever`, `cur` is
`current_task_id`, `beatDue` is `now >= next_heartbeat`, `stop` is `stop_event`, and `live`
says whether the API accepts the credential.

One HTTP call is one step with every outcome `_post` and `_get` can see: served, 401, lost on
the way out, lost on the way back, given up on and served later.  `Perform` and `HandlerFails`
are the two outcomes of the handler; `ReportRaises` is the `except`/`finally` structure of
`execute_task`, where a report that raises inside the `try` leads to a FAILED report, and one
that raises inside an `except` branch ends the process.  `Accept` is the whole transaction of
`report_worker_task_result`, which looks at no status.

Simplifications: the order of rows by `created_at` is the order of their numbers, and rows
may be dispatched in any order; a handler raises before its effect or not at all (the queued
actions end with the call that has the effect); a report transaction is one step; the
permission gates of `execute_task` never refuse an action the backend queues; pause and
resume have no caller and are left out.

### DeviceSetup

A handler is an `async def` with no `await` between its reads and its commit, so one process
runs one transaction at a time, and the processes overlap.  Each transaction is a `Begin`
step, which records in `txn[p]` what the handler read, and a `Commit` step.  `Merge` is what
the ORM does at commit under READ COMMITTED: it writes only the columns whose value the
handler changed from what it read.  `InsertConflict` is the unique `workspace_id`.  A device
stands for its `device_id` and its token.  `redeemed` and `disabled` are history variables.
`RegistrationHolds` says what a registered token is worth under overlap: it works from its
commit on, unless a disable committed since the registration read the row (`DisabledSince`:
the status column is not written again, as if the disable had come second), and stops working
only by a disable or by a later registration.  It says nothing of the answer, which may be
lost: `DeviceConnector` has that.
A heartbeat carries no assumption about who sends it: the caller was authenticated in an
earlier transaction, or by the JWT of a development worker.

### DeviceConnector

One workspace end to end, as an instance of both modules.  A worker of `WorkerQueue` is an
installed device token, and `live` is `Setup!Accepts`: the queue's `Revoke` becomes whatever in
onboarding makes a token refused, a disable or another registration.  `Install` is the
installer writing its config file, which does not happen when the answer to a registration is
lost.  `CheckConnection` and `Send` are the two transactions of `open_app`; `addressee` is a
history variable, the device that was connected when the command was asked for.

`ImplementsQueue` states that every behaviour of the composition is one of `WorkerQueue`, with
`live` read as "not cut off": what the queue's own model assumes of credentials (once refused,
always refused; one change at a time) is what onboarding delivers.

Simplifications: one command is dispatched at a time; the write of a heartbeat follows its
authentication at any later moment; the run has one API process, and the overlap of
onboarding's transactions is the subject of `setup`, which has two; workers in
development mode, which use a person's access token, and `stop()` are left out.

### TaskRoutes

What lies between two suspending awaits is one step.  `req[q]` is where request `q` is
suspended: in a security review, in the Master Agent, or nowhere.  The Master Agent call does
suspend (its agents use threads and subprocesses, and its steps have timeouts).  The
repository's Security Agent answers without suspending, which is `ReviewSuspends = FALSE`;
the hook would also await an agent that does suspend, which is `TRUE`.  Stating both shows
which properties rest on that accident: `RunsAlone` and `OnlyCancelledRunsAreLost` do.

Tasks are numbered in order of creation up to `TaskLimit`, the plan's quota, which counts
every task ever created.  `Trim` is the history limit: the oldest ids leave the list, and of
those only the finished tasks leave the store.

### AuthSessions

The store of a process is `session_by_id` and `revoked_jti`, in its memory only: `home[s]` is the
process that holds session `s` (`Nowhere` after a restart), `active[s]` and `jti[s]` its
`is_active` and `refresh_jti`, `revoked[p]` the list of process `p`.  A request is served by any
process; `touch_session` refuses it in one that does not hold the session, whatever the comment
above it says of the bookkeeping being for listings only.  `refresh` looks at both the list and
`refresh_jti`, `switch_workspace` only at the list (`Redeemable`, `Switchable`).  `logout` and
`revoke_session` await a security review between looking and ending, so a `BeginLogout` or
`BeginRevoke` leaves a handler in `waiting` that `EndApproved` or `EndDenied` resumes.

The browser has one stored pair for all tabs; `tab[t]` is the request a tab has in flight:
`asking`, `renewing` (refused, its `refreshPromise` pending) or `renewed` (rotated on the server, the
answer on its way).  Whatever the answer says, `performRefresh` fails on it, so `RenewAnswered`
signs out; see the findings.  A page can be closed, reloaded or crash meanwhile (`TabGone`): then
neither `saveSession` nor `clearSession` runs, and if the server had rotated the token, the old
pair stays stored.  `forsaken` is a history variable that remembers such tokens; they are the one
case in which `StoredTokenIsCurrent` lets the browser keep a token that was rotated away.  A
reloaded page is another page of the same tab.

`ActsAsOneStore` states that every behaviour is one of `SessionContract`: a single store in which a
session has at most one good refresh token, redeeming it replaces it (or moves the user to a
new session), and a session without one never gets another.  A session's good token is its
`refresh_jti` while some process would renew it (`Renewable`).  What must match is every
redemption: those of `refresh`, which checks the session's own token, and those of
`switch_workspace`, which does not and still must never redeem another.

Simplifications: a sign-in is one step with its answer; the pair is in `localStorage`
(`rememberMe` defaults to true); the dashboard itself never logs out or switches, API clients
do; a token expires with its session, and `aged` is the expiry of access tokens.

### ApprovalManager

The repository hands out copies and takes back whole records.  `call[c]` is what thread `c` is in
the middle of: a creation whose limit has been checked (`counted`) and whose security check has
passed (`vetted`), a read that found the request (`reading`), or a decision that holds the
mutation lock (`holding`, and `deciding` once the request was examined), each with its copy.  `Expire`
is `_expire_record_if_needed`, which any of the last three does when the deadline has passed and
which writes the copy back.  `index` is the idempotency index, which `update` re-points.

The class is a library: nothing in production creates it yet.  Token hashes, receipts and
prompts are left out: a receipt is good while its request reads approved.

### Conversations

A row of `conversation_sessions` is its status, the fields of its template, those it still asks
for (`required_inputs`), those that have a value in `collected_inputs` and those that have a blank
there, an empty string or `None`.  A call is a message: `reading` between the read of the row and
the commit of its bookkeeping, `executing` in `_dispatch`, `closing` between the second read and the
outcome.  `Merged` is what a message does to the inputs: `payload.collected_inputs` is merged in
unchecked, so it may give any field a value or a blank, asked for or not, answered or not.
`Missing` looks only at what is still asked for.  `Saved` is the ORM's UPDATE: it names the columns
that changed, so a stale call can overwrite questions and answers but never brings a status
back.  `Free` says that bookkeeping has no `await`: within a process it is atomic.

Two things take a field from a task.  A blank does, in one process and without a race: it
replaces an answer whose question `mark_waiting` has struck off, and nobody asks again (see the
findings).  And a stale copy does, when its message answers none of the questions it saw: it
writes back answers without the one given meanwhile, while the questions stay narrowed.
`vanished` is a history variable that collects exactly these fields (`LeftOut`), and `stale` names the
calls whose copy was committed over.  `DispatchIsComplete` says there is no third way; `AnswersAreKept`
that an answer is lost only to a blank put in its place, or to a message that read the thread
before the answer was given.  `OneProcessNeverRaces` proves that in one process only the blanks
remain.

Simplifications: what an answer says; the owner check of `get` and a thread id that does not exist
change nothing and are left out; the classification and the agents are choices.

## Runs

| Run | Instance | Distinct states | Shows |
|---|---|---|---|
| `queue` | 2 workers, 2 commands, 2 faults | 1.7 million | safety of the queue and refinement of `CommandContract` |
| `queue_live` | 1 worker, 3 commands, 2 faults | 281 thousand | served in the end; a revoked worker stops; exactness of a sole worker |
| `queue_crash` | 1 worker, 1 command, 2 faults | violation | a report that fails after a failure, or a revocation during execution, crashes the worker |
| `setup` | 2 processes, 2 tokens, 4 devices | 251 thousand | revocation, registration and consumption under overlap |
| `setup_twice` | as `setup` | violation | two processes redeem one token |
| `connector` | 2 setup tokens, 2 devices, 1 command, 1 fault | 1.5 million | the composition: repeats explained, addressees reached, the queue's assumptions met |
| `routes` | 3 requests, 4 tasks, history 2 | 242 thousand | exclusion, and which runs can lose their record |
| `routes_suspending` | 2 requests, 3 tasks, history 1 | 418 thousand | approval, orphan freedom, listing and termination with suspending reviews |
| `routes_cancelled` | 2 requests, 2 tasks | violation | a cancellation during a run is overwritten |
| `sessions` | 2 processes, 2 tabs, 2 sessions, 4 tokens, 1 review, 2 faults | 505 thousand | refinement of `SessionContract`, single use, finality of ends, the browser's token |
| `approvals` | 2 threads, 2 approvers, 3 requests, 1 key, quorum 2, limit 1 | 9.3 million | quorum, finality of refusals, kept approvals, limits |
| `conversations` | 2 processes, 4 messages, 1 thread, 3 fields | 251 thousand | what a dispatch can lack, when an answer is lost, finality of ends |

Why the bounds are enough to be interesting: two workers give every duplicate poll and every
order of two reports; two faults give the pair that a crash needs (the report and its
fallback) and one late report beside one lost one.  Three commands are the head of the queue,
one behind it and one dispatched later.  Two processes and four devices let both processes
redeem one token, re-register after a disable, and let a disable commit inside a
registration; more processes are covered by the proofs.
In `connector`, two devices are one and its replacement, and one command is asked of either.
Three requests allow two runs of one task beside a cancellation, and four tasks over a history
of two trim while tasks are in progress.  Four refresh tokens are two sessions rotated once
each, or one session rotated three times; two faults are a restart and a lost renewal.  Pages
go away any number of times.  A
quorum of two with two approvers and two threads has partial approvals and both orders of two
decisions, and a limit of one with three requests has it exceeded and reopened.  One message
starts a conversation and three continue it: two from overlapping copies and one that
executes what they left, which with three fields is the shortest way to lose one to a race;
a blank does it with two.
`NumTasks`, `MaxFaults`, `MaxDevices`, `SetupTokens`, `MaxSessions`, `MaxTokens`, `MaxWaiting`,
`MaxRequests`, `Calls` and `Threads` are bounds of the models; `TaskLimit`, `MaxHistory`, `Required` and
`MaxPending` are settings of the program.

Deadlock is checked except where the system really stops: in the `TaskRoutes` runs when the
quota is used up and no request is in progress; in `connector` when every worker has ended and
every device and command has been used; in `sessions` when all sessions have lapsed or been lost
and no token is left to issue; in `conversations` when every message has been answered.

Fairness.  `WorkerQueue!Fairness` is weak fairness of what a running worker does by itself
(`Progress`) and of its clock (`BeatDue`): the loop has no branch that waits for anything else,
and every call has a timeout.  Nothing restarts a worker, delivers a late report or dispatches
a command of necessity, so liveness is stated up to the worker going down or losing its
credential.  `TaskRoutes!FairSpec` is weak fairness of the answers a handler awaits: the hooks
turn exceptions into answers, and the Master Agent puts a timeout on each step.  The other
modules state safety only: a conversation whose process dies while it executes waits or runs
for ever, and an approval may stay pending until somebody reads it.

Three runs expect a violation, and four more findings stand without a run; each is a
disagreement between the code and what the repository says of it:

* `run_forever` says network errors retry without crashing and a revoked token stops the loop
  deliberately.  Reports are sent from inside `execute_task`, outside both protections.
* A setup token is called single-use, but two processes can both find it valid.
* A cancelled task is called finished, but the run in progress overwrites it.
* A renewal is said to bring the membership back with the tokens; it does not, and the first
  renewal of a session signs the browser out.
* A decision is said to need a pending and unexpired request, and a denial to be final; a read
  that found the request pending can still turn either into expired.
* A thread is said to wait for clarifications and then to end; it also waits while it executes,
  so a repeated message executes it again and its outcome can change.
* The assistant is said to ask for what is missing and to execute once the task is complete; a
  blank given for a field that was answered before is not asked about, and the task executes.

## Theorems

All theorems hold for every value of the constants, under `QueueAssumption`,
`SetupAssumption`, `ConnectorAssumption`, `RoutesAssumption`, `SessionsAssumption`, `ApprovalAssumption` and
`ConversationsAssumption` (naturals, finite sets; `MaxHistory`, `Required` and `MaxPending`
positive; the two "none" values are not names of a process or thread).

**WorkerQueueProofs.** `IInv` is `TypeOK`, `HoldsWhileBusy`, `OnlyQueuedIsTaken`,
`CompletionIsBacked` and `LastReportAgrees`.  `CompletedWasExecuted` is not inductive by
itself: a completed row comes from a report, so the invariant must also speak of the reports
still to be made.  `CompletionIsBacked` says that every completed row, every late COMPLETED report and
every worker about to report COMPLETED belongs to a command that was executed.
`OnlyQueuedIsTaken` says that what a worker holds or what is late is neither absent nor parked; it
gives `ApprovalRequiredIsInert` and the guards of `CommandContract`'s actions, so
`QueueKeepsContract` maps each step of the queue to a step of the contract or a stutter.
`CrashesHaveCauses` is what remains of the promise that `run_forever` does not crash: a crash
has seen a fault or a dead credential.

**WorkerQueueExecutions.** How often a command takes effect.  `ExecutionsBounded` (at most once per
worker and once more per fault) is not inductive, and the workers that executed a command are
no state of the program.  `Spent(t)` is: the workers that have had their go at `t`, because they
performed it and have not reported yet, or can never take it up again, their credential dead
or the row settled.  Every execution makes one more worker spent, and a worker stops being
spent only by a fault, so `executed[t]` is at most `Cardinality(Spent(t)) + faults` (`OneGoEach`), in
every order of polls, reports, kills and revocations.  `FailureWasAGo` is the same count with one go to
spare, which gives `FailureIsHonest`; `SoleCount` is the exact count for one worker, which gives
`SoleWorkerIsExact`.

**DeviceSetupProofs.** `SInv` is `TypeOK`, `ConsumedIffRedeemed` and four facts that tie the
snapshots of open transactions to the rows: `TokensAreFresh` (a device token still in a
transaction is nobody else's), `RevokedStays` (the row's device, once disabled, still reads
revoked), `RowWasRedeemed` and `SnapshotsAreRows` (a transaction that read a row still finds
one).  `DisabledIsFinal` needs the first two: a stale snapshot could otherwise carry a
disabled device, or an active status, back into the row.  `OneRedemptionPerProcess` is a counting
argument (`RedemptionsFit`): the devices registered with a token plus the
registrations in flight for it never exceed the number of processes.  With a single process
`RedeemedAtMostOnce` is that bound itself (`SingleUse`).  `RegistrationsHold` is about any number of
processes: a registration always writes its own device, which `TokensAreFresh` says differs from
what it read (`RegisterWrites`, `RegisterRegisters`), and writes the status unless it read one that was
not revoked (`RegisterAccepts`); the other commits leave the device alone (`UpdateWrites`).

**DeviceConnectorProofs.** The proof modules of the two parts are instances here, `S` and `Q`, `Q` with
`live` read as "not `Dead`", so that their invariants, and their lemmas about steps, are cited and not
proved again.  Every step of the composition is a step of `S` that leaves the queue alone, or a
step of `Q` that leaves onboarding alone (`ImplementsSetup`); `OnboardingRevokes` then says that what
onboarding does to credentials is `Q`'s `Revoke` or nothing.  It needs `DeathIsSingle`: one commit makes at most one device dead,
because the row names one, and makes none live again, because a registration that leaves the
row active carries a token nobody had, and nothing else takes a row out of revoked.  From this
follow `ConnectorImplementsQueue` and, since the queue implements its contract, `WholeKeepsContract`: true
completions, inert parked commands and `CommandContract` hold end to end.
`CInv` is both parts' invariants with `OnlyRegisteredRun` (only a registered device has a worker),
`AskedOfRegistered`, `ReachesAddressee` and `OneGoPerRegistered` (the count of `WorkerQueueExecutions`
restricted to registered devices: those that can be but are not yet do not count).
`RepeatsHaveCauses` follows from it: the only device not cut off is the row's.
`DisabledIsCutOff` joins the two halves of a disable: from its commit on the device is handed no
command, whatever heartbeats and registrations overlap.

**TaskRoutesProofs.** `AInv` (`TypeOK`, `AwaitedExists`, `SensitiveIsApproved`,
`RunningIsExecuted`, `ListedIsStored`) holds for both kinds of review.  `SInv` adds, for a
review that does not suspend, that no review is ever pending and that a task in execution is
not runnable (`ExecutingIsNotRunnable`), from which `RunsAlone` follows, and that a cancelled
task is in `cancelled`, from which `OnlyCancelledRunsAreLost` does.

**AuthSessionsProofs.** `SInv` is `TypeOK`, `Numbered` (nothing exists beyond the counters, and
each session's `refresh_jti` is a token of it), `EndedIsInactive`, `SpentIsRevoked` and `SingleUse`.
`SingleUse` is not inductive: a restart forgets the revocation lists.  `SpentIsRevoked` says
why that is harmless: the list that matters is the one of the process that holds the session,
and both are forgotten together.  `OneTokenPerSession` follows from it, and `StoresActAsOne`, the
refinement of `SessionContract`: a token that a switch redeems is on no list, so by
`SpentIsRevoked` it is the session's own, and the switch's weaker check is worth as much as
`refresh`'s.  That a withdrawn session stays so needs that only opened sessions lapse
(`LapsedWereOpen`), or a new session could be born without its token.  `PInv` is a second layer
for the browser: `PairsAreSound` (stored and renewed pairs belong to a session of the browser,
and no API client logs out with its token) and `PairIsCurrent`.

**ApprovalManagerProofs.** `AInv` is `TypeOK`, `IndexIsSound`, `Exclusive` (one thread decides at a
time), `CopiesAreSound`, `LockedIsCurrent`, `ReadersAreBehind` and `RefusalIsFinal`.  The hard part
is the writer without the lock.  `LockedIsCurrent` says that under the lock the request is as the
copy has it, or has been written expired by a reader; `ReadersAreBehind` that a reader's copy never
has an approval the record, or the decision under way, lacks.  `PendingLimit` and `KeyLimit` are
counting arguments (`Room`, `KeysCounted`): requests plus the threads about to add one never exceed
the bound.

**ConversationsProofs.** `CInv` is `TypeOK`, `TemplatesAgree`, `ThreadsExist`, `FreshIsCurrent`,
`Accounted` and `DispatchIsComplete`.  That a dispatch is complete says nothing of the rounds before
it.  `Accounted` does: every row, and every copy a call has read, has each field of its template
among its answers, blanks or questions, or it has vanished.  A call's own session keeps this
(`SessionAccounts`), and so does the mixture of columns a stale copy's save leaves, but for what
`LeftOut` names (`StaleSaveAccounts`): the hard case is a stale message that answers a question, which
leaves none open or writes the narrowed questions along with its answers, and so loses nothing.
`FreshIsCurrent` says a copy nobody committed over is the row, which gives `AnswersKept`.  `OneProcessNeverRaces` rests on
`OneInside`: one call of a process is between a read and its commit.

The `SingleUse` of `DeviceSetupProofs` and `OneProcessNeverRaces` are statements about a single process
and have no run; `CrashesHaveCauses` and `DisabledIsCutOff` are proved only; `RevokedIsCutOff`,
`AcceptanceIsEarned`, `OnlyRegistering`, `OneGoodToken` (now part of what `ActsAsOneStore` says) and the type
correctness of `Conversations` are proved and no longer run.

Model-checked only: the liveness properties `QueuedIsServed`, `RevokedWorkerStops` and `RunningEnds`.
Liveness under fairness and `ENABLED` are beyond the prover, as is induction over data; none of the
proved modules contains a recursive operator.  Every safety invariant, action property and
refinement that a passing run checks is also a theorem.

## Not modelled

The repository has some 710 thousand lines; the models stand for a few thousand of them, those
in which several actors share state.  Most of the rest is scoring, validation, prompt and
report wording and calls to external tools (the files of `agents/security_agent` alone
are more than 80 thousand lines of heuristics over one request's data), in which a state model has
nothing to interleave.

Of the modelled parts: scope and role checks of the routes, the verification and memory
payloads stored with a task, its metadata, the second `await` of `cancel_task` (it guards only
verification fields), the unlimited quota of the enterprise plan, worker activity events, and
the loss of `TASK_STORE` at a restart or between processes.  A task dropped from the list before it finished
stays in the store for good; the model has it (`status` without `listed`) but no property
calls it wrong.

The Master Agent pipeline runs its steps one after another inside one request; its two
hazards (an abandoned thread after a step timeout, a `TypeError` taken for a wrong signature)
end in the agents' own effects, which are external.  `core/task_manager.py` is dead code in
production: `MasterAgent._create_task` hands it an object its `dict()` refuses.

Of the rest of the system: see `components` in `PROJECT.json`, which gives each part's reason.

## Plan

1. Proofs: the safety half of the liveness properties (a queued command that is never served
   has only lost workers, a running record's request is always resumable), and an abstract
   specification that `ApprovalManager` and `Conversations` implement, as `SessionContract` is for
   the session stores.
2. **Approval records of `core/safety_bridge.py`** and **`session_guard`**: stores with expiry like
   `ApprovalManager`'s, closer to the routes.
3. **Voice approvals** (`services/voice_service.py`): a confirmation that meets a stale question.
4. **Workflow agent retries** and **usage metering**: retry of a step already done,
   check-then-record.
