-------------------------- MODULE WorkerQueueProofs --------------------------
(***************************************************************************)
(* Theorems about WorkerQueue, for any finite set of workers, any number   *)
(* of commands and any number of faults.                                   *)
(***************************************************************************)
EXTENDS WorkerQueue, TLAPS

Reportable == {"queued", "completed", "failed"}   \* statuses a report can meet
Idle       == Down \cup {"registering", "loop", "polling"}
Busy       == {"executing", "reporting", "reportingFailure"}

\* Whoever may still report a command -- a worker or a late request -- speaks of one
\* that was put on the queue.
OnlyQueuedIsTaken ==
  \A t \in Tasks : Status(t) \notin Reportable =>
    /\ executed[t] = 0
    /\ \A w \in Workers : cur[w] # t
    /\ \A o \in Outcomes : late[t][o] = 0

\* Every claim of completion, recorded, in flight or about to be sent, is backed by an
\* execution.
CompletionIsBacked ==
  /\ CompletedWasExecuted
  /\ \A t \in Tasks : late[t]["completed"] > 0 => executed[t] > 0
  /\ \A w \in Workers : pc[w] = "reporting" => executed[cur[w]] > 0

IInv == TypeOK /\ HoldsWhileBusy /\ OnlyQueuedIsTaken /\ CompletionIsBacked /\ LastReportAgrees

-----------------------------------------------------------------------------
LEMMA TaskFacts == NoTask \notin Tasks /\ Tasks \subseteq Nat
  BY QueueAssumption DEF NoTask, Tasks

LEMMA InitIInv == Init => IInv
  BY QueueAssumption, TaskFacts
  DEF Init, IInv, TypeOK, HoldsWhileBusy, OnlyQueuedIsTaken, CompletionIsBacked,
      CompletedWasExecuted, LastReportAgrees, Status, Outcomes, Down, Reportable

\* What serving a report of a command does to the rows.
LEMMA AcceptStep ==
  ASSUME TypeOK, LastReportAgrees, NEW t \in Tasks, NEW o \in Outcomes, Accept(t, o)
  PROVE  /\ row' \in [Tasks -> [status : {"absent", "queued", "approval_required"} \cup Outcomes,
                                filled : SUBSET Outcomes]]
         /\ lastReport' \in [task : Tasks \cup {NoTask}, result : Outcomes]
         /\ row'[t].status = o
         /\ \A u \in Tasks \ {t} : row'[u] = row[u]
         /\ LastReportAgrees'
  BY TaskFacts DEF TypeOK, LastReportAgrees, Accept, Status

LEMMA AcceptKeeps ==
  ASSUME IInv, NEW t \in Tasks, NEW o \in Outcomes, Accept(t, o),
         Status(t) \in Reportable, o = "completed" => executed[t] > 0,
         executed' = executed
  PROVE  /\ row' \in [Tasks -> [status : {"absent", "queued", "approval_required"} \cup Outcomes,
                                filled : SUBSET Outcomes]]
         /\ lastReport' \in [task : Tasks \cup {NoTask}, result : Outcomes]
         /\ CompletedWasExecuted'
         /\ LastReportAgrees'
         /\ \A u \in Tasks : Status(u)' \notin Reportable => Status(u) \notin Reportable
  <1>1. TypeOK /\ LastReportAgrees /\ CompletedWasExecuted
    BY DEF IInv, CompletionIsBacked
  <1>2. /\ row' \in [Tasks -> [status : {"absent", "queued", "approval_required"} \cup Outcomes,
                               filled : SUBSET Outcomes]]
        /\ lastReport' \in [task : Tasks \cup {NoTask}, result : Outcomes]
        /\ row'[t].status = o
        /\ \A u \in Tasks \ {t} : row'[u] = row[u]
        /\ LastReportAgrees'
    BY <1>1, AcceptStep
  <1>3. CompletedWasExecuted'
    BY <1>1, <1>2 DEF CompletedWasExecuted, Status
  <1>4. \A u \in Tasks : Status(u)' \notin Reportable => Status(u) \notin Reportable
    BY <1>2 DEF Status, Reportable, Outcomes
  <1> QED BY <1>2, <1>3, <1>4

\* The worker that reports holds a command that can be reported, and a COMPLETED report
\* is sent only after an execution.
LEMMA ReporterFacts ==
  ASSUME IInv, NEW w \in Workers, Reporting(w)
  PROVE  /\ cur[w] \in Tasks
         /\ OutcomeOf(w) \in Outcomes
         /\ Status(cur[w]) \in Reportable
         /\ OutcomeOf(w) = "completed" => executed[cur[w]] > 0
  BY TaskFacts
  DEF IInv, TypeOK, HoldsWhileBusy, OnlyQueuedIsTaken, CompletionIsBacked, Reporting,
      OutcomeOf, Outcomes, Busy

\* Any step that leaves rows, executions and late reports alone, and moves one worker to a
\* place that claims nothing new, keeps the invariant.
LEMMA WorkerMove ==
  ASSUME IInv, NEW w \in Workers,
         UNCHANGED <<row, lastReport, executed, late>>,
         live' \in [Workers -> BOOLEAN], faults' \in 0 .. MaxFaults,
         beatDue' \in [Workers -> BOOLEAN], stop' \in [Workers -> BOOLEAN],
         NEW p \in Down \cup {"registering", "loop", "polling", "executing", "reportingFailure"},
         pc' = [pc EXCEPT ![w] = p],
         NEW c \in Tasks \cup {NoTask},
         cur' = [cur EXCEPT ![w] = c],
         c # NoTask <=> p \in {"executing", "reportingFailure"},
         c # NoTask => Status(c) \in Reportable
  PROVE  IInv'
  <1>1. TypeOK'
    BY TaskFacts DEF IInv, TypeOK, Down
  <1>2. HoldsWhileBusy'
    BY DEF IInv, TypeOK, HoldsWhileBusy, Down
  <1>3. OnlyQueuedIsTaken'
    BY TaskFacts DEF IInv, TypeOK, OnlyQueuedIsTaken, Status
  <1>4. CompletionIsBacked'
    BY TaskFacts DEF IInv, TypeOK, CompletionIsBacked, CompletedWasExecuted, Status, Down
  <1>5. LastReportAgrees'
    BY DEF IInv, LastReportAgrees, Status
  <1> QED BY <1>1, <1>2, <1>3, <1>4, <1>5 DEF IInv

\* The special case of a worker that goes, empty-handed, where it holds no command.
LEMMA IdleMove ==
  ASSUME IInv, NEW w \in Workers, NEW p \in Idle, Moves(w, p),
         cur' = [cur EXCEPT ![w] = NoTask],
         faults' \in 0 .. MaxFaults,
         beatDue' \in [Workers -> BOOLEAN], stop' \in [Workers -> BOOLEAN]
  PROVE  IInv'
  <1>1. UNCHANGED <<row, lastReport, executed, late>> /\ pc' = [pc EXCEPT ![w] = p]
    BY DEF Moves, rowVars
  <1>2. live' \in [Workers -> BOOLEAN]
    BY DEF Moves, IInv, TypeOK
  <1>3. p \in Down \cup {"registering", "loop", "polling", "executing", "reportingFailure"}
    BY DEF Idle
  <1>4. p \notin {"executing", "reportingFailure"}
    BY DEF Idle, Down
  <1>5. NoTask \in Tasks \cup {NoTask}
    OBVIOUS
  <1> QED
    BY <1>1, <1>2, <1>3, <1>4, <1>5, WorkerMove

\* What a raising report does to the worker: it is left with the same command and a FAILED
\* report to send, or it crashes with none.
LEMMA RaiseFacts ==
  ASSUME IInv, NEW w \in Workers, Reporting(w), ReportRaises(w)
  PROVE  /\ pc' \in [Workers -> Down \cup {"registering", "loop", "polling"} \cup Busy]
         /\ cur' \in [Workers -> Tasks \cup {NoTask}]
         /\ \A v \in Workers : cur'[v] # NoTask <=> pc'[v] \in Busy
         /\ \A v \in Workers : cur'[v] \in {cur[v], NoTask}
         /\ \A v \in Workers : pc'[v] = "reporting" => pc[v] = "reporting" /\ cur'[v] = cur[v]
         /\ UNCHANGED <<executed, beatDue, stop, live>>
  BY TaskFacts DEF IInv, TypeOK, HoldsWhileBusy, Reporting, ReportRaises, Down, Busy

\* Serving a report, whatever then happens to the worker that sent it, keeps the invariant
\* as long as no worker takes up a command.
LEMMA ServeStep ==
  ASSUME IInv, NEW t \in Tasks, NEW o \in Outcomes, Accept(t, o),
         Status(t) \in Reportable, o = "completed" => executed[t] > 0,
         UNCHANGED <<executed, beatDue, stop, live>>, faults' \in 0 .. MaxFaults,
         late' \in [Tasks -> [Outcomes -> Nat]],
         \A u \in Tasks, q \in Outcomes : late'[u][q] > 0 => late[u][q] > 0,
         pc' \in [Workers -> Down \cup {"registering", "loop", "polling"} \cup Busy],
         cur' \in [Workers -> Tasks \cup {NoTask}],
         \A v \in Workers : cur'[v] # NoTask <=> pc'[v] \in Busy,
         \A v \in Workers : cur'[v] \in {cur[v], NoTask},
         \A v \in Workers : pc'[v] = "reporting" => pc[v] = "reporting" /\ cur'[v] = cur[v]
  PROVE  IInv'
  <1>1. /\ row' \in [Tasks -> [status : {"absent", "queued", "approval_required"} \cup Outcomes,
                               filled : SUBSET Outcomes]]
        /\ lastReport' \in [task : Tasks \cup {NoTask}, result : Outcomes]
        /\ CompletedWasExecuted'
        /\ LastReportAgrees'
        /\ \A u \in Tasks : Status(u)' \notin Reportable => Status(u) \notin Reportable
    BY AcceptKeeps
  <1>2. TypeOK'
    BY <1>1 DEF IInv, TypeOK, Busy
  <1>3. HoldsWhileBusy'
    BY DEF HoldsWhileBusy, Busy
  <1>4. OnlyQueuedIsTaken'
    <2> SUFFICES ASSUME NEW u \in Tasks, Status(u)' \notin Reportable
                 PROVE  /\ executed'[u] = 0
                        /\ \A w \in Workers : cur'[w] # u
                        /\ \A q \in Outcomes : late'[u][q] = 0
      BY DEF OnlyQueuedIsTaken
    <2>1. /\ executed[u] = 0
          /\ \A w \in Workers : cur[w] # u
          /\ \A q \in Outcomes : late[u][q] = 0
      BY <1>1 DEF IInv, OnlyQueuedIsTaken
    <2>2. \A q \in Outcomes : late'[u][q] = 0
      BY <2>1
    <2> QED BY <2>1, <2>2, TaskFacts
  <1>5. CompletionIsBacked'
    <2>1. "completed" \in Outcomes
      BY DEF Outcomes
    <2> QED BY <1>1, <2>1 DEF IInv, CompletionIsBacked
  <1> QED BY <1>1, <1>2, <1>3, <1>4, <1>5 DEF IInv

\* The invariant is inductive.
LEMMA NextIInv == IInv /\ [Next]_vars => IInv'
  <1> SUFFICES ASSUME IInv, [Next]_vars PROVE IInv'
    OBVIOUS
  <1>t. TypeOK
    BY DEF IInv
  <1> USE DEF Down
  <1>1. ASSUME NEW t \in Tasks, NEW class \in {"allowed", "requires_approval"},
               Dispatch(t, class)
        PROVE  IInv'
    <2>1. /\ row'[t].status \in {"queued", "approval_required"}
          /\ \A u \in Tasks \ {t} : row'[u] = row[u]
          /\ row' \in [Tasks -> [status : {"absent", "queued", "approval_required"} \cup Outcomes,
                                 filled : SUBSET Outcomes]]
      BY <1>1, <1>t DEF Dispatch, CreateStatus, TypeOK
    <2>2. Status(t) \notin Reportable
      BY <1>1 DEF Dispatch, Reportable, Status
    <2>3. TypeOK'
      BY <1>1, <1>t, <2>1 DEF Dispatch, TypeOK, workerVars
    <2>4. HoldsWhileBusy'
      BY <1>1 DEF IInv, HoldsWhileBusy, Dispatch, workerVars
    <2>5. OnlyQueuedIsTaken'
      BY <1>1, <2>1, <2>2 DEF IInv, OnlyQueuedIsTaken, Status, Dispatch, workerVars, Reportable
    <2>6. CompletionIsBacked'
      BY <1>1, <2>1 DEF IInv, CompletionIsBacked, CompletedWasExecuted, Status, Dispatch, workerVars
    <2>7. LastReportAgrees'
      BY <1>1, <1>t, <2>1, <2>2
      DEF IInv, TypeOK, LastReportAgrees, Status, Dispatch, Reportable, Outcomes
    <2> QED BY <2>3, <2>4, <2>5, <2>6, <2>7 DEF IInv
  <1>2. ASSUME NEW t \in Tasks, NEW o \in Outcomes, DeliverLate(t, o)
        PROVE  IInv'
    <2>1. late[t][o] > 0 /\ Accept(t, o)
      BY <1>2 DEF DeliverLate
    <2>2. Status(t) \in Reportable /\ (o = "completed" => executed[t] > 0)
      BY <2>1 DEF IInv, OnlyQueuedIsTaken, CompletionIsBacked
    <2>3. /\ late' \in [Tasks -> [Outcomes -> Nat]]
          /\ \A u \in Tasks, q \in Outcomes : late'[u][q] > 0 => late[u][q] > 0
      BY <1>2, <2>1, <1>t DEF DeliverLate, TypeOK
    <2>4. UNCHANGED <<executed, pc, cur, beatDue, stop, live, faults>>
      BY <1>2 DEF DeliverLate, workerVars
    <2> QED BY <2>1, <2>2, <2>3, <2>4, <1>t, ServeStep DEF IInv, TypeOK, HoldsWhileBusy, Busy
  <1>3. ASSUME NEW w \in Workers, Revoke(w)
        PROVE  IInv'
    BY <1>3 DEF Revoke, rowVars, workerVars, IInv, TypeOK, HoldsWhileBusy, OnlyQueuedIsTaken,
                CompletionIsBacked, CompletedWasExecuted, LastReportAgrees, Status
  <1>4. ASSUME NEW w \in Workers, Start(w)
        PROVE  IInv'
    BY <1>4, <1>t, IdleMove DEF Start, TypeOK, Idle
  <1>5. ASSUME NEW w \in Workers, Register(w)
        PROVE  IInv'
    <2>1. cur' = [cur EXCEPT ![w] = NoTask]
      BY <1>5, <1>t DEF IInv, TypeOK, Register, HoldsWhileBusy
    <2>2. \E p \in Idle : Moves(w, p)
      BY <1>5 DEF Register, Idle
    <2> QED BY <1>5, <2>1, <2>2, <1>t, IdleMove DEF Register, TypeOK
  <1>6. ASSUME NEW w \in Workers, RegisterFails(w) \/ BeatDue(w) \/ HeartbeatFails(w) \/ StopRequest(w)
        PROVE  IInv'
    <2>1. UNCHANGED <<row, lastReport, executed, late, pc, cur, live>>
      BY <1>6 DEF RegisterFails, BeatDue, HeartbeatFails, StopRequest, rowVars, workerVars
    <2>2. faults' \in 0 .. MaxFaults
      BY <1>6, <1>t, QueueAssumption
      DEF RegisterFails, BeatDue, HeartbeatFails, StopRequest, Fault, TypeOK
    <2>3. beatDue' \in [Workers -> BOOLEAN]
      BY <1>6, <1>t DEF RegisterFails, BeatDue, HeartbeatFails, StopRequest, workerVars, TypeOK
    <2>4. stop' \in [Workers -> BOOLEAN]
      BY <1>6, <1>t DEF RegisterFails, BeatDue, HeartbeatFails, StopRequest, workerVars, TypeOK
    <2> QED BY <2>1, <2>2, <2>3, <2>4 DEF IInv, TypeOK, HoldsWhileBusy, OnlyQueuedIsTaken,
               CompletionIsBacked, CompletedWasExecuted, LastReportAgrees, Status
  <1>7. ASSUME NEW w \in Workers, Heartbeat(w)
        PROVE  IInv'
    <2>1. cur' = [cur EXCEPT ![w] = NoTask]
      BY <1>7, <1>t DEF IInv, TypeOK, Heartbeat, HoldsWhileBusy
    <2>2. \E p \in Idle : Moves(w, p)
      BY <1>7 DEF Heartbeat, Idle
    <2> QED BY <1>7, <2>1, <2>2, <1>t, IdleMove DEF Heartbeat, TypeOK
  <1>8. ASSUME NEW w \in Workers, NEW t \in Tasks, PollTask(w, t)
        PROVE  IInv'
    <2>1. Status(t) \in Reportable
      BY <1>8 DEF PollTask, IsOffered, Queued, Status, Reportable
    <2> QED BY <1>8, <2>1, <1>t, TaskFacts, WorkerMove DEF PollTask, Moves, rowVars, TypeOK
  <1>9. ASSUME NEW w \in Workers, PollNothing(w) \/ PollFails(w)
        PROVE  IInv'
    <2>1. cur' = [cur EXCEPT ![w] = NoTask] /\ faults' \in 0 .. MaxFaults
      BY <1>9, <1>t, QueueAssumption
      DEF IInv, TypeOK, PollNothing, PollFails, AtPoll, Fault, HoldsWhileBusy
    <2>2. Moves(w, "loop") /\ "loop" \in Idle
      BY <1>9 DEF PollNothing, PollFails, Idle
    <2> QED BY <1>9, <2>1, <2>2, <1>t, IdleMove DEF PollNothing, PollFails, TypeOK
  <1>10. ASSUME NEW w \in Workers, Perform(w)
         PROVE  IInv'
    <2>1. cur[w] \in Tasks /\ Status(cur[w]) \in Reportable
      BY <1>10, <1>t DEF IInv, TypeOK, HoldsWhileBusy, OnlyQueuedIsTaken, Perform
    <2>2. /\ executed' \in [Tasks -> Nat]
          /\ executed'[cur[w]] > 0
          /\ \A u \in Tasks : executed[u] > 0 => executed'[u] > 0
          /\ \A u \in Tasks \ {cur[w]} : executed'[u] = executed[u]
      BY <1>10, <1>t, <2>1 DEF Perform, TypeOK
    <2>3. TypeOK'
      BY <1>10, <1>t, <2>2 DEF Perform, TypeOK, rowVars
    <2>4. HoldsWhileBusy'
      BY <1>10, <1>t DEF IInv, TypeOK, HoldsWhileBusy, Perform
    <2>5. OnlyQueuedIsTaken'
      BY <1>10, <2>1, <2>2 DEF IInv, OnlyQueuedIsTaken, Perform, Status, rowVars
    <2>6. CompletionIsBacked'
      <3>1. CompletedWasExecuted' /\ \A u \in Tasks : late'[u]["completed"] > 0 => executed'[u] > 0
        BY <1>10, <2>2 DEF IInv, CompletionIsBacked, CompletedWasExecuted, Perform, Status, rowVars
      <3>2. ASSUME NEW v \in Workers, pc'[v] = "reporting" PROVE executed'[cur'[v]] > 0
        <4>1. CASE v = w
          BY <4>1, <1>10, <2>2 DEF Perform
        <4>2. CASE v # w
          <5>1. pc[v] = "reporting" /\ cur[v] \in Tasks
            BY <4>2, <3>2, <1>10, <1>t DEF Perform, TypeOK, IInv, HoldsWhileBusy
          <5> QED BY <5>1, <2>2, <1>10 DEF IInv, CompletionIsBacked, Perform
        <4> QED BY <4>1, <4>2
      <3> QED BY <3>1, <3>2 DEF CompletionIsBacked
    <2>7. LastReportAgrees'
      BY <1>10 DEF IInv, LastReportAgrees, Perform, Status, rowVars
    <2> QED BY <2>3, <2>4, <2>5, <2>6, <2>7 DEF IInv
  <1>11. ASSUME NEW w \in Workers, HandlerFails(w)
         PROVE  IInv'
    <2>1. cur[w] \in Tasks /\ Status(cur[w]) \in Reportable /\ cur' = [cur EXCEPT ![w] = cur[w]]
      BY <1>11, <1>t DEF IInv, TypeOK, HoldsWhileBusy, OnlyQueuedIsTaken, HandlerFails
    <2> QED BY <1>11, <2>1, <1>t, TaskFacts, WorkerMove DEF HandlerFails, Moves, rowVars, TypeOK
  <1>12. ASSUME NEW w \in Workers, ReportDelivered(w)
         PROVE  IInv'
    <2>1. Reporting(w) /\ Accept(cur[w], OutcomeOf(w))
      BY <1>12 DEF ReportDelivered
    <2>2. /\ pc' \in [Workers -> Down \cup {"registering", "loop", "polling"} \cup Busy]
          /\ cur' \in [Workers -> Tasks \cup {NoTask}]
          /\ \A v \in Workers : cur'[v] # NoTask <=> pc'[v] \in Busy
          /\ \A v \in Workers : cur'[v] \in {cur[v], NoTask}
          /\ \A v \in Workers : pc'[v] = "reporting" => pc[v] = "reporting" /\ cur'[v] = cur[v]
      BY <1>12, <1>t, TaskFacts DEF ReportDelivered, IInv, TypeOK, HoldsWhileBusy, Busy
    <2>3. UNCHANGED <<executed, late, beatDue, stop, live, faults>>
      BY <1>12 DEF ReportDelivered
    <2> QED BY <2>1, <2>2, <2>3, <1>t, ReporterFacts, ServeStep DEF TypeOK
  <1>13. ASSUME NEW w \in Workers, ReportResponseLost(w)
         PROVE  IInv'
    <2>1. Reporting(w) /\ Accept(cur[w], OutcomeOf(w)) /\ ReportRaises(w)
      BY <1>13 DEF ReportResponseLost
    <2>2. late' = late /\ faults' \in 0 .. MaxFaults
      BY <1>13, <1>t, QueueAssumption DEF ReportResponseLost, Fault, TypeOK
    <2> QED BY <2>1, <2>2, <1>t, ReporterFacts, RaiseFacts, ServeStep DEF TypeOK
  <1>14. ASSUME NEW w \in Workers, ReportDenied(w) \/ ReportRequestLost(w)
         PROVE  IInv'
    <2>1. Reporting(w) /\ ReportRaises(w) /\ UNCHANGED <<row, lastReport, late>>
      BY <1>14 DEF ReportDenied, ReportRequestLost, rowVars
    <2>2. faults' \in 0 .. MaxFaults
      BY <1>14, <1>t, QueueAssumption DEF ReportDenied, ReportRequestLost, Fault, TypeOK
    <2>3. TypeOK' /\ HoldsWhileBusy'
      BY <2>1, <2>2, <1>t, RaiseFacts DEF TypeOK, HoldsWhileBusy, Busy
    <2>4. OnlyQueuedIsTaken' /\ CompletionIsBacked' /\ LastReportAgrees'
      BY <2>1, RaiseFacts, TaskFacts
      DEF IInv, OnlyQueuedIsTaken, CompletionIsBacked, CompletedWasExecuted, LastReportAgrees, Status
    <2> QED BY <2>3, <2>4 DEF IInv
  <1>15. ASSUME NEW w \in Workers, ReportDelayed(w)
         PROVE  IInv'
    <2>1. Reporting(w) /\ ReportRaises(w) /\ UNCHANGED <<row, lastReport>>
      BY <1>15 DEF ReportDelayed, rowVars
    <2>2. faults' \in 0 .. MaxFaults
      BY <1>15, <1>t, QueueAssumption DEF ReportDelayed, Fault, TypeOK
    <2>3. /\ late' \in [Tasks -> [Outcomes -> Nat]]
          /\ \A u \in Tasks, q \in Outcomes :
               late'[u][q] # late[u][q] => u = cur[w] /\ q = OutcomeOf(w)
      BY <1>15, <1>t, <2>1, ReporterFacts DEF ReportDelayed, TypeOK
    <2>4. TypeOK' /\ HoldsWhileBusy'
      BY <2>1, <2>2, <2>3, <1>t, RaiseFacts DEF TypeOK, HoldsWhileBusy, Busy
    <2>5. OnlyQueuedIsTaken'
      BY <2>1, <2>3, RaiseFacts, ReporterFacts, TaskFacts DEF IInv, OnlyQueuedIsTaken, Status
    <2>6. CompletionIsBacked'
      <3>1. "completed" \in Outcomes
        BY DEF Outcomes
      <3>2. \A u \in Tasks : late'[u]["completed"] > 0 => executed[u] > 0
        BY <3>1, <2>1, <2>3, ReporterFacts DEF IInv, CompletionIsBacked
      <3> QED BY <3>2, <2>1, RaiseFacts DEF IInv, CompletionIsBacked, CompletedWasExecuted, Status
    <2>7. LastReportAgrees'
      BY <2>1 DEF IInv, LastReportAgrees, Status
    <2> QED BY <2>4, <2>5, <2>6, <2>7 DEF IInv
  <1>16. ASSUME NEW w \in Workers, ExitLoop(w)
         PROVE  IInv'
    <2>1. cur' = [cur EXCEPT ![w] = NoTask]
      BY <1>16, <1>t DEF IInv, TypeOK, ExitLoop, HoldsWhileBusy
    <2>2. \E p \in Idle : Moves(w, p)
      BY <1>16 DEF ExitLoop, Idle
    <2> QED BY <1>16, <2>1, <2>2, <1>t, IdleMove DEF ExitLoop, TypeOK
  <1>17. ASSUME NEW w \in Workers, Kill(w)
         PROVE  IInv'
    <2>1. faults' \in 0 .. MaxFaults
      BY <1>17, <1>t, QueueAssumption DEF Kill, Fault, TypeOK
    <2> QED BY <1>17, <2>1, <1>t, IdleMove DEF Kill, TypeOK, Idle
  <1>18. CASE UNCHANGED vars
    BY <1>18 DEF vars, workerVars, IInv, TypeOK, HoldsWhileBusy, OnlyQueuedIsTaken,
                 CompletionIsBacked, CompletedWasExecuted, LastReportAgrees, Status
  <1> QED
    BY <1>1, <1>2, <1>3, <1>4, <1>5, <1>6, <1>7, <1>8, <1>9, <1>10, <1>11, <1>12, <1>13, <1>14,
       <1>15, <1>16, <1>17, <1>18
    DEF Next, Api, Progress, Faulty

-----------------------------------------------------------------------------
LEMMA SpecIInv == Spec => []IInv
  <1>1. Init => IInv
    BY InitIInv
  <1>2. IInv /\ [Next]_vars => IInv'
    BY NextIInv
  <1> QED BY <1>1, <1>2, PTL DEF Spec

\* The variables keep their types, the fault budget its bound.
THEOREM TypeCorrect == Spec => []TypeOK
  <1>1. IInv => TypeOK
    BY DEF IInv
  <1> QED BY <1>1, SpecIInv, PTL

\* No command is ever shown as completed that was not executed, with any number of workers
\* sharing the queue and any pattern of lost, late and repeated reports.
THEOREM CompletionIsTrue == Spec => []CompletedWasExecuted
  <1>1. IInv => CompletedWasExecuted
    BY DEF IInv, CompletionIsBacked
  <1> QED BY <1>1, SpecIInv, PTL

\* A command parked for approval is never held, performed or reported.
THEOREM ParkedStaysInert == Spec => []ApprovalRequiredIsInert
  <1>1. IInv => ApprovalRequiredIsInert
    BY DEF IInv, OnlyQueuedIsTaken, ApprovalRequiredIsInert, Reportable, Holds
  <1> QED BY <1>1, SpecIInv, PTL

\* The presence row's last result is the result of the row it names.
THEOREM LastReportIsCurrent == Spec => []LastReportAgrees
  <1>1. IInv => LastReportAgrees
    BY DEF IInv
  <1> QED BY <1>1, SpecIInv, PTL

\* A worker holds a command exactly while it is inside execute_task.
THEOREM HoldsOnlyWhileBusy == Spec => []HoldsWhileBusy
  <1>1. IInv => HoldsWhileBusy
    BY DEF IInv
  <1> QED BY <1>1, SpecIInv, PTL

\* A worker whose credential is dead never takes another command from the queue.
THEOREM RevokedIsCutOff == Spec => RevokedTakesNothing
  <1>1. TypeOK /\ [Next]_vars
          => [\A w \in Workers : ~live[w] /\ cur[w] = NoTask => cur'[w] = NoTask]_vars
    <2> SUFFICES ASSUME TypeOK, [Next]_vars, NEW v \in Workers, ~live[v], cur[v] = NoTask,
                        cur' # cur
                 PROVE  cur'[v] = NoTask
      BY DEF vars, workerVars
    <2>1. ASSUME NEW w \in Workers, NEW c \in Tasks \cup {NoTask},
                 cur' = [cur EXCEPT ![w] = c], c = NoTask \/ live[w]
          PROVE  cur'[v] = NoTask
      BY <2>1 DEF TypeOK
    <2>2. ASSUME NEW w \in Workers, Start(w) \/ Kill(w) \/ ReportDelivered(w)
          PROVE  cur'[v] = NoTask
      BY <2>2, <2>1 DEF Start, Kill, ReportDelivered
    <2>3. ASSUME NEW w \in Workers, NEW t \in Tasks, PollTask(w, t)
          PROVE  cur'[v] = NoTask
      BY <2>3, <2>1 DEF PollTask
    <2>4. ASSUME NEW w \in Workers,
                 ReportDenied(w) \/ ReportRequestLost(w) \/ ReportResponseLost(w) \/ ReportDelayed(w)
          PROVE  cur'[v] = NoTask
      BY <2>4 DEF ReportDenied, ReportRequestLost, ReportResponseLost, ReportDelayed,
                  ReportRaises, TypeOK
    <2>5. \A w \in Workers :
            /\ ~Register(w) /\ ~Heartbeat(w) /\ ~PollNothing(w) /\ ~Perform(w)
            /\ ~HandlerFails(w) /\ ~ExitLoop(w) /\ ~RegisterFails(w) /\ ~HeartbeatFails(w)
            /\ ~PollFails(w) /\ ~BeatDue(w) /\ ~StopRequest(w)
      BY DEF Register, Heartbeat, PollNothing, Perform, HandlerFails, ExitLoop, RegisterFails,
             HeartbeatFails, PollFails, BeatDue, StopRequest, workerVars
    <2>6. ~Api
      BY DEF Api, Dispatch, DeliverLate, Revoke, workerVars
    <2> QED BY <2>2, <2>3, <2>4, <2>5, <2>6 DEF Next, Progress, Faulty, vars, workerVars
  <1> QED BY <1>1, TypeCorrect, PTL DEF Spec, RevokedTakesNothing

-----------------------------------------------------------------------------
(* What it takes to crash a worker *)

\* run_forever's promise of never crashing is broken by the reports, but only by those that
\* meet a fault or a dead credential.
CrashHasCause == \A w \in Workers : pc[w] = "crashed" => faults > 0 \/ ~live[w]

\* A worker on a sound network and with a valid credential never crashes, whatever its
\* handlers raise and however other workers fare.
THEOREM CrashesHaveCauses == Spec => []CrashHasCause
  <1>1. Init => CrashHasCause
    BY DEF Init, CrashHasCause
  <1>2. TypeOK /\ CrashHasCause /\ [Next]_vars => CrashHasCause'
    <2> SUFFICES ASSUME TypeOK, CrashHasCause, [Next]_vars,
                        NEW v \in Workers, pc'[v] = "crashed"
                 PROVE  faults' > 0 \/ ~live'[v]
      BY DEF CrashHasCause
    <2>t. faults \in Nat /\ (pc[v] = "crashed" => faults > 0 \/ ~live[v])
      BY QueueAssumption DEF TypeOK, CrashHasCause
    <2>1. ASSUME NEW w \in Workers,
                 \/ RegisterFails(w) \/ HeartbeatFails(w) \/ PollFails(w) \/ ReportRequestLost(w)
                 \/ ReportResponseLost(w) \/ ReportDelayed(w) \/ Kill(w)
          PROVE  faults' > 0
      BY <2>1, <2>t DEF RegisterFails, HeartbeatFails, PollFails, ReportRequestLost,
                        ReportResponseLost, ReportDelayed, Kill, Fault
    <2>2. ASSUME NEW w \in Workers, ReportDenied(w)
          PROVE  faults' > 0 \/ ~live'[v]
      BY <2>2, <2>t DEF ReportDenied, ReportRaises, TypeOK
    <2>3. ASSUME NEW w \in Workers,
                 \/ Register(w) \/ Heartbeat(w) \/ (\E t \in Tasks : PollTask(w, t)) \/ PollNothing(w)
                 \/ Perform(w) \/ HandlerFails(w) \/ ReportDelivered(w) \/ ExitLoop(w)
                 \/ BeatDue(w) \/ Start(w) \/ StopRequest(w) \/ Revoke(w)
          PROVE  faults' > 0 \/ ~live'[v]
      <3>1. pc[v] = "crashed" /\ faults' = faults
        BY <2>3 DEF Register, Heartbeat, PollTask, PollNothing, Perform, HandlerFails,
                    ReportDelivered, ExitLoop, BeatDue, Start, StopRequest, Revoke, Moves,
                    workerVars, TypeOK
      <3>2. live'[v] => live[v]
        BY <2>3 DEF Register, Heartbeat, PollTask, PollNothing, Perform, HandlerFails,
                    ReportDelivered, ExitLoop, BeatDue, Start, StopRequest, Revoke, Moves, TypeOK
      <3> QED BY <2>t, <3>1, <3>2
    <2>4. CASE \/ \E t \in Tasks, class \in {"allowed", "requires_approval"} : Dispatch(t, class)
               \/ \E t \in Tasks, o \in Outcomes : DeliverLate(t, o)
               \/ UNCHANGED vars
      BY <2>4, <2>t DEF Dispatch, DeliverLate, workerVars, vars
    <2> QED BY <2>1, <2>2, <2>3, <2>4 DEF Next, Api, Progress, Faulty
  <1> QED BY <1>1, <1>2, TypeCorrect, PTL DEF Spec

-----------------------------------------------------------------------------
(* WorkerQueue implements CommandContract. *)

\* Serving a report is a Report step of the contract.
LEMMA AcceptReports ==
  ASSUME IInv, NEW t \in Tasks, NEW o \in Outcomes, Accept(t, o),
         Status(t) \in Reportable, o = "completed" => executed[t] > 0,
         executed' = executed
  PROVE  Contract!Report(t)
  <1>1. [u \in Tasks |-> row'[u].status] = [[u \in Tasks |-> row[u].status] EXCEPT ![t] = o]
    BY DEF IInv, TypeOK, Accept
  <1>2. [u \in Tasks |-> row[u].status][t] \in Reportable
    BY DEF Status
  <1> QED BY <1>1, <1>2 DEF Contract!Report, Reportable, Outcomes

LEMMA StepKeepsContract ==
  IInv /\ [Next]_vars => [Contract!ContractNext]_(Contract!contractVars)
  <1> SUFFICES ASSUME IInv, [Next]_vars
               PROVE  Contract!ContractNext \/ UNCHANGED <<row, executed>>
    BY DEF Contract!contractVars
  <1>t. TypeOK
    BY DEF IInv
  <1>1. ASSUME NEW t \in Tasks, NEW class \in {"allowed", "requires_approval"},
               Dispatch(t, class)
        PROVE  Contract!Issue(t)
    <2>1. /\ [u \in Tasks |-> row'[u].status]
               = [[u \in Tasks |-> row[u].status] EXCEPT ![t] = CreateStatus(class)]
          /\ [u \in Tasks |-> row[u].status][t] = "absent"
          /\ executed' = executed
      BY <1>1, <1>t DEF Dispatch, TypeOK
    <2>2. CreateStatus(class) \in {"queued", "approval_required"}
      BY DEF CreateStatus
    <2> QED BY <2>1, <2>2 DEF Contract!Issue
  <1>2. ASSUME NEW t \in Tasks, NEW o \in Outcomes, DeliverLate(t, o)
        PROVE  Contract!Report(t)
    <2>1. late[t][o] > 0 /\ Accept(t, o) /\ executed' = executed
      BY <1>2 DEF DeliverLate
    <2>2. Status(t) \in Reportable /\ (o = "completed" => executed[t] > 0)
      BY <2>1 DEF IInv, OnlyQueuedIsTaken, CompletionIsBacked
    <2> QED BY <2>1, <2>2, AcceptReports
  <1>3. ASSUME NEW w \in Workers, Perform(w)
        PROVE  \E t \in Tasks : Contract!Act(t)
    <2>1. cur[w] \in Tasks /\ Status(cur[w]) \in Reportable
      BY <1>3, <1>t DEF IInv, TypeOK, HoldsWhileBusy, OnlyQueuedIsTaken, Perform
    <2>2. [u \in Tasks |-> row[u].status][cur[w]] \in Reportable
      BY <2>1 DEF Status
    <2>3. row' = row /\ executed' = [executed EXCEPT ![cur[w]] = @ + 1]
      BY <1>3 DEF Perform, rowVars
    <2> QED BY <2>1, <2>2, <2>3 DEF Contract!Act, Reportable
  <1>4. ASSUME NEW w \in Workers, ReportDelivered(w) \/ ReportResponseLost(w)
        PROVE  \E t \in Tasks : Contract!Report(t)
    <2>1. Reporting(w) /\ Accept(cur[w], OutcomeOf(w)) /\ executed' = executed
      BY <1>4 DEF ReportDelivered, ReportResponseLost, ReportRaises
    <2> QED BY <2>1, ReporterFacts, AcceptReports
  <1>5. ASSUME NEW w \in Workers,
               ReportDenied(w) \/ ReportRequestLost(w) \/ ReportDelayed(w)
        PROVE  UNCHANGED <<row, executed>>
    BY <1>5 DEF ReportDenied, ReportRequestLost, ReportDelayed, ReportRaises, rowVars
  <1>6. ASSUME NEW w \in Workers,
               \/ Register(w) \/ Heartbeat(w) \/ (\E t \in Tasks : PollTask(w, t))
               \/ PollNothing(w) \/ HandlerFails(w) \/ ExitLoop(w) \/ PollFails(w)
               \/ Kill(w) \/ Start(w)
        PROVE  UNCHANGED <<row, executed>>
    BY <1>6 DEF Register, Heartbeat, PollTask, PollNothing, HandlerFails, ExitLoop, PollFails,
                Kill, Start, Moves, rowVars
  <1>7. ASSUME NEW w \in Workers,
               RegisterFails(w) \/ HeartbeatFails(w) \/ BeatDue(w) \/ StopRequest(w) \/ Revoke(w)
        PROVE  UNCHANGED <<row, executed>>
    BY <1>7 DEF RegisterFails, HeartbeatFails, BeatDue, StopRequest, Revoke, rowVars
  <1>8. CASE UNCHANGED vars
    BY <1>8 DEF vars
  <1> QED BY <1>1, <1>2, <1>3, <1>4, <1>5, <1>6, <1>7, <1>8
          DEF Next, Api, Progress, Faulty, Contract!ContractNext

\* The queue honours the contract it offers the rest of the system: every step of rows,
\* workers and network is a step of CommandContract or leaves its variables alone.
THEOREM QueueKeepsContract == Spec => KeepsContract
  <1>1. Init => Contract!ContractInit
    BY DEF Init, Contract!ContractInit
  <1>2. IInv /\ [Next]_vars => [Contract!ContractNext]_(Contract!contractVars)
    BY StepKeepsContract
  <1> QED BY <1>1, <1>2, SpecIInv, PTL DEF Spec, KeepsContract, Contract!ContractSpec

=============================================================================
