----------------------------- MODULE WorkerQueue -----------------------------
(***************************************************************************)
(* The device command queue of one workspace: the worker_tasks rows the    *)
(* API keeps, and the Windows worker processes that poll, perform and      *)
(* report them over HTTP.  The poll takes no claim on a row (mark_running  *)
(* has no caller), so a row stays queued until some report settles it.     *)
(*                                                                         *)
(* One HTTP call is one step here, with the outcomes the worker's _post    *)
(* and _get can produce: served, refused with 401, lost on the way out,    *)
(* lost on the way back, or given up on by the worker and served later.    *)
(* Each outcome the network is to blame for spends one unit of MaxFaults.  *)
(***************************************************************************)
EXTENDS Naturals, FiniteSets

CONSTANTS Workers,      \* worker processes configured for the workspace
          NumTasks,     \* bound: rows that are ever dispatched
          MaxFaults     \* bound: network faults and kills in a behaviour

ASSUME QueueAssumption == /\ NumTasks \in Nat
                          /\ MaxFaults \in Nat
                          /\ IsFiniteSet(Workers)

Tasks    == 1 .. NumTasks          \* numbered by created_at
NoTask   == 0
Outcomes == {"completed", "failed"}
Down     == {"off", "stopped", "crashed"}

VARIABLES
  row,         \* the worker_tasks rows: status, and which outcome's columns are filled
  lastReport,  \* system_worker_status.last_command / last_result
  executed,    \* how often each command took effect on the user's machine
  late,        \* reports the worker gave up on that the API has yet to serve
  pc,          \* where each worker is in run_forever
  cur,         \* current_task_id
  beatDue,     \* now >= next_heartbeat
  stop,        \* stop_event
  live,        \* the worker's credential is still accepted by the API
  faults       \* faults so far

rowVars    == <<row, lastReport>>
workerVars == <<pc, cur, beatDue, stop>>
vars       == <<row, lastReport, executed, late, workerVars, live, faults>>

TypeOK ==
  /\ row \in [Tasks -> [status : {"absent", "queued", "approval_required"} \cup Outcomes,
                        filled : SUBSET Outcomes]]
  /\ lastReport \in [task : Tasks \cup {NoTask}, result : Outcomes]
  /\ executed \in [Tasks -> Nat]
  /\ late \in [Tasks -> [Outcomes -> Nat]]
  /\ pc \in [Workers -> Down \cup {"registering", "loop", "polling", "executing",
                                   "reporting", "reportingFailure"}]
  /\ cur \in [Workers -> Tasks \cup {NoTask}]
  /\ beatDue \in [Workers -> BOOLEAN]
  /\ stop \in [Workers -> BOOLEAN]
  /\ live \in [Workers -> BOOLEAN]
  /\ faults \in 0 .. MaxFaults

Init ==
  /\ row = [t \in Tasks |-> [status |-> "absent", filled |-> {}]]
  /\ lastReport = [task |-> NoTask, result |-> "failed"]
  /\ executed = [t \in Tasks |-> 0]
  /\ late = [t \in Tasks |-> [o \in Outcomes |-> 0]]
  /\ pc = [w \in Workers |-> "off"]
  /\ cur = [w \in Workers |-> NoTask]
  /\ beatDue = [w \in Workers |-> TRUE]
  /\ stop = [w \in Workers |-> FALSE]
  /\ live = [w \in Workers |-> TRUE]
  /\ faults = 0

-----------------------------------------------------------------------------
(* The API side *)

\* WorkerTaskService.create: a risky action is parked for approval, an allowed one queued.
CreateStatus(class) ==
  IF class = "requires_approval" THEN "approval_required" ELSE "queued"

Dispatch(t, class) ==
  /\ row[t].status = "absent"
  /\ row' = [row EXCEPT ![t] = [status |-> CreateStatus(class), filled |-> {}]]
  /\ UNCHANGED <<lastReport, executed, late, workerVars, live, faults>>

\* Mutant: the filter reads every status create() may set.
QueuedOrParked == {t \in Tasks : row[t].status \in {"queued", "approval_required"}}
\* Mutant: the filter reads ACTIVE_WORKER_TASK_STATUSES.
QueuedOrActive == {t \in Tasks : row[t].status \in {"queued", "completed"}}

Queued == {t \in Tasks : row[t].status = "queued"}

\* list_queued_for_workspace with limit 1: the oldest queued row.
IsOffered(t) == t \in Queued /\ \A u \in Queued : t <= u

\* Mutant: a failed command is put back for another try.
AcceptRequeues(t, o) ==
  /\ row' = [row EXCEPT ![t] = [status |-> IF o = "failed" THEN "queued" ELSE o,
                                filled |-> @.filled \cup {o}]]
  /\ lastReport' = [task |-> t, result |-> o]
\* Mutant: one update writes result and error columns alike.
AcceptFillsBoth(t, o) ==
  /\ row' = [row EXCEPT ![t] = [status |-> o, filled |-> Outcomes]]
  /\ lastReport' = [task |-> t, result |-> o]

\* report_worker_task_result: mark_completed / mark_failed whatever the row's status was,
\* leaving the other outcome's columns, then last_command / last_result.
Accept(t, o) ==
  /\ row' = [row EXCEPT ![t] = [status |-> o, filled |-> @.filled \cup {o}]]
  /\ lastReport' = [task |-> t, result |-> o]

\* A request whose caller has timed out is still served.
DeliverLate(t, o) ==
  /\ late[t][o] > 0
  /\ late' = [late EXCEPT ![t][o] = @ - 1]
  /\ Accept(t, o)
  /\ UNCHANGED <<executed, workerVars, live, faults>>

\* The device token is revoked from the dashboard, or the dev-mode JWT expires.
Revoke(w) ==
  /\ live[w]
  /\ live' = [live EXCEPT ![w] = FALSE]
  /\ UNCHANGED <<rowVars, executed, late, workerVars, faults>>

-----------------------------------------------------------------------------
(* The worker process *)

Fault == faults < MaxFaults /\ faults' = faults + 1

\* The steps that move a worker and leave the API's rows alone.
Moves(w, to) ==
  /\ pc' = [pc EXCEPT ![w] = to]
  /\ UNCHANGED <<rowVars, executed, late, live>>

Start(w) ==
  /\ pc[w] \in Down
  /\ cur' = [cur EXCEPT ![w] = NoTask]
  /\ beatDue' = [beatDue EXCEPT ![w] = TRUE]
  /\ stop' = [stop EXCEPT ![w] = FALSE]
  /\ Moves(w, "registering")
  /\ UNCHANGED faults

\* run_forever's first loop: until a heartbeat is accepted, refused, or stop() is called.
Register(w) ==
  /\ pc[w] = "registering" /\ ~stop[w]
  /\ Moves(w, IF live[w] THEN "loop" ELSE "stopped")
  /\ UNCHANGED <<cur, beatDue, stop, faults>>

RegisterFails(w) ==
  /\ pc[w] = "registering" /\ Fault
  /\ UNCHANGED <<rowVars, executed, late, workerVars, live>>

BeatDue(w) ==
  /\ pc[w] = "loop" /\ ~beatDue[w]
  /\ beatDue' = [beatDue EXCEPT ![w] = TRUE]
  /\ UNCHANGED <<rowVars, executed, late, pc, cur, stop, live, faults>>

\* Mutant: the heartbeat treats a 401 like any other error.
HeartbeatSwallows(w) ==
  /\ pc[w] = "loop" /\ beatDue[w] /\ ~stop[w]
  /\ beatDue' = [beatDue EXCEPT ![w] = FALSE]
  /\ Moves(w, IF live[w] THEN "polling" ELSE "loop")
  /\ UNCHANGED <<cur, stop, faults>>

\* A refused heartbeat ends the loop; an accepted one goes on to poll.
Heartbeat(w) ==
  /\ pc[w] = "loop" /\ beatDue[w] /\ ~stop[w]
  /\ beatDue' = [beatDue EXCEPT ![w] = FALSE]
  /\ Moves(w, IF live[w] THEN "polling" ELSE "stopped")
  /\ UNCHANGED <<cur, stop, faults>>

\* A failed heartbeat sends the worker back to the top of the loop without a poll.
HeartbeatFails(w) ==
  /\ pc[w] = "loop" /\ beatDue[w] /\ ~stop[w]
  /\ Fault
  /\ beatDue' = [beatDue EXCEPT ![w] = FALSE]
  /\ UNCHANGED <<rowVars, executed, late, pc, cur, stop, live>>

AtPoll(w) == pc[w] = "polling" \/ (pc[w] = "loop" /\ ~beatDue[w] /\ ~stop[w])

PollTask(w, t) ==
  /\ AtPoll(w) /\ live[w] /\ IsOffered(t)
  /\ cur' = [cur EXCEPT ![w] = t]
  /\ Moves(w, "executing")
  /\ UNCHANGED <<beatDue, stop, faults>>

\* No task: the queue is empty, or the poll was refused -- the loop swallows the
\* DeviceAuthError of a poll like any other exception.
PollNothing(w) ==
  /\ AtPoll(w) /\ (live[w] => Queued = {})
  /\ Moves(w, "loop")
  /\ UNCHANGED <<cur, beatDue, stop, faults>>

PollFails(w) ==
  /\ AtPoll(w) /\ Fault
  /\ Moves(w, "loop")
  /\ UNCHANGED <<cur, beatDue, stop>>

\* Mutant: a result without an "ok" entry counts as a failure.
PerformReportsFailure(w) ==
  /\ pc[w] = "executing"
  /\ executed' = [executed EXCEPT ![cur[w]] = @ + 1]
  /\ pc' = [pc EXCEPT ![w] = "reportingFailure"]
  /\ UNCHANGED <<rowVars, late, cur, beatDue, stop, live, faults>>

\* execute_task: the handler takes effect and its COMPLETED report is due ...
Perform(w) ==
  /\ pc[w] = "executing"
  /\ executed' = [executed EXCEPT ![cur[w]] = @ + 1]
  /\ pc' = [pc EXCEPT ![w] = "reporting"]
  /\ UNCHANGED <<rowVars, late, cur, beatDue, stop, live, faults>>

\* Mutant: the handler swallows its error and returns normally.
HandlerFailsQuietly(w) ==
  /\ pc[w] = "executing"
  /\ Moves(w, "reporting")
  /\ UNCHANGED <<cur, beatDue, stop, faults>>

\* ... or the handler raises before any effect, and an except branch reports.
HandlerFails(w) ==
  /\ pc[w] = "executing"
  /\ Moves(w, "reportingFailure")
  /\ UNCHANGED <<cur, beatDue, stop, faults>>

Reporting(w)  == pc[w] \in {"reporting", "reportingFailure"}
\* Mutant: the worker's own TaskStatus goes onto the wire.
OutcomeUnfolded(w) == IF pc[w] = "reporting" THEN "completed" ELSE "rejected"
OutcomeOf(w)  == IF pc[w] = "reporting" THEN "completed" ELSE "failed"

\* A report that raises: from the try block the except branch reports FAILED for the
\* same task; from an except branch the exception escapes run_forever.
ReportRaises(w) ==
  /\ pc' = [pc EXCEPT ![w] = IF @ = "reporting" THEN "reportingFailure" ELSE "crashed"]
  /\ cur' = [cur EXCEPT ![w] = IF pc[w] = "reporting" THEN @ ELSE NoTask]
  /\ UNCHANGED <<executed, beatDue, stop, live>>

ReportDelivered(w) ==
  /\ Reporting(w) /\ live[w]
  /\ Accept(cur[w], OutcomeOf(w))
  /\ pc' = [pc EXCEPT ![w] = "loop"]
  /\ cur' = [cur EXCEPT ![w] = NoTask]
  /\ UNCHANGED <<executed, late, beatDue, stop, live, faults>>

ReportDenied(w) ==
  /\ Reporting(w) /\ ~live[w]
  /\ ReportRaises(w)
  /\ UNCHANGED <<rowVars, late, faults>>

ReportRequestLost(w) ==
  /\ Reporting(w) /\ Fault
  /\ ReportRaises(w)
  /\ UNCHANGED <<rowVars, late>>

ReportResponseLost(w) ==
  /\ Reporting(w) /\ live[w] /\ Fault
  /\ Accept(cur[w], OutcomeOf(w))
  /\ ReportRaises(w)
  /\ UNCHANGED late

ReportDelayed(w) ==
  /\ Reporting(w) /\ live[w] /\ Fault
  /\ late' = [late EXCEPT ![cur[w]][OutcomeOf(w)] = @ + 1]
  /\ ReportRaises(w)
  /\ UNCHANGED rowVars

\* stop(), from a signal handler: noticed at the head of either loop only.
StopRequest(w) ==
  /\ pc[w] \notin Down /\ ~stop[w]
  /\ stop' = [stop EXCEPT ![w] = TRUE]
  /\ UNCHANGED <<rowVars, executed, late, pc, cur, beatDue, live, faults>>

\* Mutant: the signal handler exits at once, task or no task.
ExitAtOnce(w) ==
  /\ pc[w] \notin Down /\ stop[w]
  /\ cur' = [cur EXCEPT ![w] = NoTask]
  /\ Moves(w, "stopped")
  /\ UNCHANGED <<beatDue, stop, faults>>

ExitLoop(w) ==
  /\ pc[w] \in {"registering", "loop"} /\ stop[w]
  /\ Moves(w, "stopped")
  /\ UNCHANGED <<cur, beatDue, stop, faults>>

\* The machine or the process dies; current_task_id dies with it.
Kill(w) ==
  /\ pc[w] \notin Down /\ Fault
  /\ cur' = [cur EXCEPT ![w] = NoTask]
  /\ Moves(w, "off")
  /\ UNCHANGED <<beatDue, stop>>

-----------------------------------------------------------------------------
\* What a running worker does by itself, with the network up.
Progress(w) ==
  \/ Register(w) \/ Heartbeat(w)
  \/ (\E t \in Tasks : PollTask(w, t)) \/ PollNothing(w)
  \/ Perform(w) \/ HandlerFails(w)
  \/ ReportDelivered(w) \/ ReportDenied(w)
  \/ ExitLoop(w)

Faulty(w) ==
  \/ RegisterFails(w) \/ HeartbeatFails(w) \/ PollFails(w)
  \/ ReportRequestLost(w) \/ ReportResponseLost(w) \/ ReportDelayed(w)
  \/ Kill(w)

Api ==
  \/ \E t \in Tasks, class \in {"allowed", "requires_approval"} : Dispatch(t, class)
  \/ \E t \in Tasks, o \in Outcomes : DeliverLate(t, o)
  \/ \E w \in Workers : Revoke(w)

Next ==
  \/ Api
  \/ \E w \in Workers : Progress(w) \/ Faulty(w) \/ BeatDue(w) \/ Start(w) \/ StopRequest(w)

Spec == Init /\ [][Next]_vars

\* The loop of a running process is scheduled, and its clock advances.  Nothing restarts
\* a worker, delivers a late report or dispatches a task of necessity.
Fairness == \A w \in Workers : WF_vars(Progress(w)) /\ WF_vars(BeatDue(w))

FairSpec == Spec /\ Fairness

-----------------------------------------------------------------------------
(* Properties *)

Status(t) == row[t].status
Settled(t) == Status(t) \in Outcomes
Holds(w, t) == cur[w] = t
AllLive == \A w \in Workers : live[w]

\* "Only the worker's own result report can ever mark a task completed", and a worker
\* reports completion only of what it did: a completed row was really executed, through
\* duplicate polls, restarts, revocations and reports served after their sender gave up.
CompletedWasExecuted == \A t \in Tasks : Status(t) = "completed" => executed[t] > 0

\* A risky command parked by create() stays inert: no worker holds it, no report of it is
\* under way, it has no effect -- the poll's status filter is all that keeps it out.
ApprovalRequiredIsInert ==
  \A t \in Tasks : Status(t) = "approval_required" =>
    /\ executed[t] = 0
    /\ \A w \in Workers : ~Holds(w, t)
    /\ \A o \in Outcomes : late[t][o] = 0

\* A poll claims nothing, so a command can run twice; but each worker repeats a command
\* only after a fault kept its report from settling the row.
ExecutionsBounded == \A t \in Tasks : executed[t] <= Cardinality(Workers) + faults

\* A command that took effect and is still queued is one some worker is about to report,
\* unless a fault or a revocation has cut the report off.
EffectIsAccountedFor ==
  \A t \in Tasks : (Status(t) = "queued" /\ executed[t] > 0 /\ faults = 0 /\ AllLive) =>
    \E w \in Workers : Holds(w, t) /\ pc[w] = "reporting"

\* With the network up and the credentials valid, a row reads failed only if at least one
\* worker that took the command did not carry it out.
FailureIsHonest ==
  \A t \in Tasks : (Status(t) = "failed" /\ faults = 0 /\ AllLive) =>
    executed[t] < Cardinality(Workers)

\* A sole worker without faults settles each command by one report, after exactly one
\* execution or none, and the row's result and error columns tell the same story.
SoleWorkerIsExact ==
  (Cardinality(Workers) = 1 /\ faults = 0 /\ AllLive) =>
    \A t \in Tasks : Settled(t) =>
      /\ row[t].filled = {Status(t)}
      /\ executed[t] = IF Status(t) = "completed" THEN 1 ELSE 0

\* last_command / last_result of the presence row agree with the row they name: both are
\* written by the transaction of the latest report.
LastReportAgrees ==
  lastReport.task # NoTask => Status(lastReport.task) = lastReport.result

\* A worker holds a command exactly while it executes or reports it, so that one that has
\* left execute_task, been killed or crashed never reports a command again.
HoldsWhileBusy ==
  \A w \in Workers : (cur[w] # NoTask) <=> pc[w] \in {"executing", "reporting", "reportingFailure"}

\* Once its credential is dead a worker takes no new command from the queue.
RevokedTakesNothing ==
  [][\A w \in Workers : ~live[w] /\ cur[w] = NoTask => cur'[w] = NoTask]_vars

\* A running worker serves every queued command in the end, unless it goes down or loses
\* its credential first: no command starves behind newer ones, behind heartbeats, or behind
\* a command whose reports keep failing.
QueuedIsServed ==
  \A t \in Tasks, w \in Workers :
    Status(t) = "queued" ~> Settled(t) \/ ~live[w] \/ pc[w] \in Down

\* Retrying a dead credential can never succeed: a revoked worker stops by itself, though
\* the poll and the report swallow or escalate the 401 that the heartbeat acts on.
RevokedWorkerStops == \A w \in Workers : ~live[w] ~> pc[w] \in Down

\* run_forever's docstring: a revoked token stops the loop deliberately, and a network
\* error always retries, without crashing.
NeverCrashes == \A w \in Workers : pc[w] # "crashed"

Contract == INSTANCE CommandContract
              WITH Commands  <- Tasks,
                   outcome   <- [t \in Tasks |-> row[t].status],
                   performed <- executed

\* The queue keeps the contract: every step is a step of CommandContract or changes
\* nothing the contract speaks of.
KeepsContract == Contract!ContractSpec
=============================================================================
