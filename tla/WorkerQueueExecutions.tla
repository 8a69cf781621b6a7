------------------------ MODULE WorkerQueueExecutions ------------------------
(***************************************************************************)
(* How often a command of WorkerQueue can take effect, for any finite set  *)
(* of workers, any number of commands and any number of faults.            *)
(*                                                                         *)
(* Nothing claims a row, so the bound is on workers: each has one go at a  *)
(* command, and only a fault gives it another.                             *)
(***************************************************************************)
EXTENDS WorkerQueueProofs, FiniteSetTheorems

\* The workers that have had their go at command t: they have performed it and not yet
\* reported, or they can never take it up (again), because their credential is dead or
\* the row is settled.
Spent(t) ==
  {w \in Workers : IF Holds(w, t)
                   THEN pc[w] = "reporting" \/ (pc[w] = "reportingFailure" /\ ~live[w])
                   ELSE ~live[w] \/ Settled(t)}

Undisturbed == faults = 0 /\ AllLive

\* Every execution is some worker's one go, or the second go a fault gave it.
OneGoEach == \A t \in Tasks : executed[t] <= Cardinality(Spent(t)) + faults

\* Whoever made an undisturbed row read failed had its go without executing.
FailureWasAGo ==
  \A t \in Tasks : (Status(t) = "failed" /\ Undisturbed) => executed[t] < Cardinality(Spent(t))

\* Only a fault leaves a report behind.
LateIsAFault == \A t \in Tasks, o \in Outcomes : late[t][o] > 0 => faults > 0

\* A row no report has reached has no outcome's columns filled.
UnsettledIsBlank == \A t \in Tasks : ~Settled(t) => row[t].filled = {}

\* With one worker and no disturbance: what was done is what is reported or about to be.
SoleCount(t) ==
  /\ executed[t] = IF Status(t) = "completed" \/ (\E w \in Workers : Holds(w, t) /\ pc[w] = "reporting")
                   THEN 1 ELSE 0
  /\ Settled(t) => /\ row[t].filled = {Status(t)}
                   /\ \A w \in Workers : ~Holds(w, t)

SoleWorkerKeepsCount ==
  (Cardinality(Workers) = 1 /\ Undisturbed) => \A t \in Tasks : SoleCount(t)

EInv == /\ OneGoEach
        /\ FailureWasAGo
        /\ LateIsAFault
        /\ EffectIsAccountedFor
        /\ UnsettledIsBlank
        /\ SoleWorkerKeepsCount
-----------------------------------------------------------------------------
(* Cardinalities *)

LEMMA Grows ==
  ASSUME NEW S, NEW T, IsFiniteSet(T), S \subseteq T
  PROVE  Cardinality(S) \in Nat /\ Cardinality(T) \in Nat /\ Cardinality(S) <= Cardinality(T)
  BY FS_Subset, FS_CardinalityType

LEMMA GrowsByOne ==
  ASSUME NEW S, NEW T, IsFiniteSet(T), S \subseteq T, NEW x \in T, x \notin S
  PROVE  Cardinality(S) + 1 <= Cardinality(T)
  <1>1. S \subseteq T \ {x} /\ IsFiniteSet(T \ {x}) /\ Cardinality(T \ {x}) = Cardinality(T) - 1
    BY FS_RemoveElement
  <1>2. Cardinality(S) \in Nat /\ Cardinality(T) \in Nat /\ Cardinality(S) <= Cardinality(T \ {x})
    BY <1>1, Grows
  <1> QED BY <1>1, <1>2

LEMMA ShrinksByOneAtMost ==
  ASSUME NEW S, NEW T, IsFiniteSet(S), IsFiniteSet(T), NEW x, S \ {x} \subseteq T
  PROVE  Cardinality(S) <= Cardinality(T) + 1
  <1>1. Cardinality(S \ {x}) \in Nat /\ Cardinality(T) \in Nat /\ Cardinality(S \ {x}) <= Cardinality(T)
    BY Grows
  <1>2. CASE x \in S
    <2>1. Cardinality(S \ {x}) = Cardinality(S) - 1 /\ Cardinality(S) \in Nat
      BY <1>2, FS_RemoveElement, FS_CardinalityType
    <2> QED BY <1>1, <2>1
  <1>3. CASE x \notin S
    <2>1. S \subseteq T
      BY <1>3
    <2>2. Cardinality(S) \in Nat /\ Cardinality(S) <= Cardinality(T)
      BY <2>1, Grows
    <2> QED BY <1>1, <2>2
  <1> QED BY <1>2, <1>3

LEMMA SpentFacts ==
  ASSUME NEW t \in Tasks
  PROVE  /\ IsFiniteSet(Spent(t)) /\ IsFiniteSet(Spent(t)')
         /\ Cardinality(Spent(t)) \in Nat /\ Cardinality(Spent(t)') \in Nat
         /\ Cardinality(Workers) \in Nat
         /\ Cardinality(Spent(t)) <= Cardinality(Workers)
  <1>1. Spent(t) \subseteq Workers /\ Spent(t)' \subseteq Workers
    BY DEF Spent
  <1>2. IsFiniteSet(Spent(t)) /\ IsFiniteSet(Spent(t)')
    BY <1>1, QueueAssumption, FS_Subset
  <1> QED BY <1>1, <1>2, QueueAssumption, FS_Subset, FS_CardinalityType

-----------------------------------------------------------------------------
(* What a step of each kind does to rows, credentials and the spent workers *)

Acts(w) == Progress(w) \/ Faulty(w) \/ BeatDue(w) \/ Start(w) \/ StopRequest(w)

\* Serving a report settles its row, and unsettles none.
LEMMA AcceptSettles ==
  ASSUME TypeOK, NEW t \in Tasks, NEW o \in Outcomes, Accept(t, o)
  PROVE  /\ row'[t].status = o /\ row'[t].filled = row[t].filled \cup {o}
         /\ \A u \in Tasks \ {t} : row'[u] = row[u]
         /\ \A u \in Tasks : Settled(u) => Settled(u)'
  BY DEF TypeOK, Accept, Settled, Status

\* A worker's step leaves the other workers, the credentials, and settled rows as they are.
LEMMA ActFacts ==
  ASSUME IInv, NEW w \in Workers, Acts(w)
  PROVE  /\ \A v \in Workers \ {w} : pc'[v] = pc[v] /\ cur'[v] = cur[v]
         /\ live' = live
         /\ \A t \in Tasks : Settled(t) => Settled(t)'
  <1>t. TypeOK
    BY DEF IInv
  <1>1. CASE ReportDelivered(w) \/ ReportResponseLost(w)
    <2>1. Reporting(w) /\ Accept(cur[w], OutcomeOf(w))
      BY <1>1 DEF ReportDelivered, ReportResponseLost
    <2>2. \A t \in Tasks : Settled(t) => Settled(t)'
      BY <2>1, <1>t, ReporterFacts, AcceptSettles
    <2> QED BY <1>1, <1>t, <2>2 DEF ReportDelivered, ReportResponseLost, ReportRaises, TypeOK
  <1>2. CASE ReportDenied(w) \/ ReportRequestLost(w) \/ ReportDelayed(w)
    BY <1>2, <1>t DEF ReportDenied, ReportRequestLost, ReportDelayed, ReportRaises, TypeOK,
                      rowVars, Settled, Status
  <1>3. CASE \/ Register(w) \/ Heartbeat(w) \/ (\E t \in Tasks : PollTask(w, t)) \/ PollNothing(w)
             \/ HandlerFails(w) \/ ExitLoop(w) \/ PollFails(w) \/ Kill(w) \/ Start(w)
    BY <1>3, <1>t DEF Register, Heartbeat, PollTask, PollNothing, HandlerFails, ExitLoop,
                      PollFails, Kill, Start, Moves, TypeOK, rowVars, Settled, Status
  <1>4. CASE RegisterFails(w) \/ HeartbeatFails(w) \/ BeatDue(w) \/ StopRequest(w) \/ Perform(w)
    BY <1>4, <1>t DEF RegisterFails, HeartbeatFails, BeatDue, StopRequest, Perform, TypeOK,
                      rowVars, workerVars, Settled, Status
  <1> QED BY <1>1, <1>2, <1>3, <1>4 DEF Acts, Progress, Faulty

\* So it can return at most its own go.
LEMMA OthersStaySpent ==
  ASSUME IInv, NEW w \in Workers, Acts(w), NEW t \in Tasks
  PROVE  Spent(t) \ {w} \subseteq Spent(t)'
  BY ActFacts DEF Spent, Holds

\* A fault executes nothing, and is counted.
LEMMA FaultFacts ==
  ASSUME IInv, NEW w \in Workers, Faulty(w)
  PROVE  executed' = executed /\ faults \in Nat /\ faults' = faults + 1
  <1>1. faults \in Nat
    BY QueueAssumption DEF IInv, TypeOK
  <1> QED BY <1>1 DEF Faulty, RegisterFails, HeartbeatFails, PollFails, ReportRequestLost,
                 ReportResponseLost, ReportDelayed, Kill, Moves, ReportRaises, Fault

\* Without a fault no worker gets its go back.
LEMMA CalmKeepsSpent ==
  ASSUME IInv, NEW w \in Workers, Progress(w) \/ BeatDue(w) \/ Start(w) \/ StopRequest(w),
         NEW t \in Tasks
  PROVE  Spent(t) \subseteq Spent(t)' /\ faults' = faults /\ late' = late
  <1>t. TypeOK /\ HoldsWhileBusy
    BY DEF IInv
  <1>a. Spent(t) \ {w} \subseteq Spent(t)' /\ live' = live /\ (Settled(t) => Settled(t)')
    BY OthersStaySpent, ActFacts DEF Acts
  <1> SUFFICES /\ w \in Spent(t) => w \in Spent(t)'
               /\ faults' = faults /\ late' = late
    BY <1>a
  <1>1. CASE \E u \in Tasks : PollTask(w, u)
    <2>1. PICK u \in Tasks : PollTask(w, u)
      BY <1>1
    <2>2. cur[w] = NoTask /\ cur'[w] = u /\ live[w] /\ faults' = faults /\ late' = late
      BY <2>1, <1>t DEF PollTask, AtPoll, Moves, TypeOK, HoldsWhileBusy
    <2>3. ~Settled(u)
      BY <2>1 DEF PollTask, IsOffered, Queued, Settled, Status, Outcomes
    <2> QED BY <2>2, <2>3, <1>a, TaskFacts DEF Spent, Holds
  <1>2. CASE Start(w) \/ Register(w) \/ Heartbeat(w) \/ PollNothing(w) \/ ExitLoop(w)
             \/ BeatDue(w) \/ StopRequest(w)
    <2>1. \/ cur'[w] = cur[w] /\ cur[w] = NoTask
          \/ pc'[w] = pc[w] /\ cur'[w] = cur[w]
      BY <1>2, <1>t DEF Start, Register, Heartbeat, PollNothing, ExitLoop, BeatDue, StopRequest,
                        AtPoll, TypeOK, HoldsWhileBusy, Down
    <2>2. faults' = faults /\ late' = late
      BY <1>2 DEF Start, Register, Heartbeat, PollNothing, ExitLoop, BeatDue, StopRequest, Moves
    <2> QED BY <2>1, <2>2, <1>a, TaskFacts DEF Spent, Holds
  <1>3. CASE Perform(w) \/ HandlerFails(w)
    <2>1. /\ pc[w] = "executing" /\ cur' = cur
          /\ faults' = faults /\ late' = late
      BY <1>3 DEF Perform, HandlerFails, Moves
    <2> QED BY <2>1, <1>a DEF Spent, Holds
  <1>4. CASE ReportDelivered(w)
    <2>1. Reporting(w) /\ Accept(cur[w], OutcomeOf(w)) /\ cur[w] \in Tasks /\ OutcomeOf(w) \in Outcomes
      BY <1>4, ReporterFacts DEF ReportDelivered
    <2>2. cur'[w] = NoTask /\ faults' = faults /\ late' = late
      BY <1>4, <1>t DEF ReportDelivered, TypeOK
    <2>3. cur[w] = t => Settled(t)'
      BY <2>1, <1>t, AcceptSettles DEF Settled, Status
    <2> QED BY <2>2, <2>3, <1>a, TaskFacts DEF Spent, Holds
  <1>5. CASE ReportDenied(w)
    <2>1. /\ Reporting(w) /\ ~live[w] /\ faults' = faults /\ late' = late
          /\ \/ cur'[w] = cur[w] /\ pc'[w] = "reportingFailure"
             \/ cur'[w] = NoTask
      BY <1>5, <1>t DEF ReportDenied, ReportRaises, Reporting, TypeOK
    <2> QED BY <2>1, <1>a, TaskFacts DEF Spent, Holds
  <1> QED BY <1>1, <1>2, <1>3, <1>4, <1>5 DEF Progress

\* Only execute_task executes.
LEMMA CalmExecutesNothing ==
  ASSUME NEW w \in Workers, Progress(w) \/ BeatDue(w) \/ Start(w) \/ StopRequest(w), ~Perform(w)
  PROVE  executed' = executed
  BY DEF Progress, Register, Heartbeat, PollTask, PollNothing, HandlerFails, ReportDelivered,
         ReportDenied, ReportRaises, ExitLoop, BeatDue, Start, StopRequest, Moves

\* The API side, too, only ever adds to the spent workers.
LEMMA ApiFacts ==
  ASSUME IInv, Api, NEW t \in Tasks
  PROVE  /\ Spent(t) \subseteq Spent(t)'
         /\ executed' = executed /\ faults' = faults /\ pc' = pc /\ cur' = cur
         /\ \A w \in Workers : live'[w] => live[w]
  <1>t. TypeOK
    BY DEF IInv
  <1>1. /\ executed' = executed /\ faults' = faults /\ pc' = pc /\ cur' = cur
        /\ \A w \in Workers : live'[w] => live[w]
    BY <1>t DEF Api, Dispatch, DeliverLate, Revoke, workerVars, TypeOK
  <1>2. Settled(t) => Settled(t)'
    <2>1. ASSUME NEW u \in Tasks, NEW o \in Outcomes, DeliverLate(u, o)
          PROVE  Settled(t) => Settled(t)'
      BY <2>1, <1>t, AcceptSettles DEF DeliverLate
    <2>2. ASSUME NEW u \in Tasks, NEW class \in {"allowed", "requires_approval"}, Dispatch(u, class)
          PROVE  Settled(t) => Settled(t)'
      BY <2>2, <1>t DEF Dispatch, Settled, Status, Outcomes, TypeOK
    <2>3. ASSUME NEW w \in Workers, Revoke(w)
          PROVE  Settled(t) => Settled(t)'
      BY <2>3 DEF Revoke, rowVars, Settled, Status
    <2> QED BY <2>1, <2>2, <2>3 DEF Api
  <1> QED BY <1>1, <1>2 DEF Spent, Holds

LEMMA ApiKeepsFaults ==
  ASSUME TypeOK, Api
  PROVE  faults' = faults /\ \A w \in Workers : live'[w] => live[w]
  BY DEF Api, Dispatch, DeliverLate, Revoke, TypeOK

LEMMA CalmKeepsFaults ==
  ASSUME IInv, NEW w \in Workers, Progress(w) \/ BeatDue(w) \/ Start(w) \/ StopRequest(w)
  PROVE  faults' = faults /\ late' = late
  BY DEF Progress, Register, Heartbeat, PollTask, PollNothing, Perform, HandlerFails,
         ReportDelivered, ReportDenied, ReportRaises, ExitLoop, BeatDue, Start, StopRequest, Moves

\* A row changes by being created or by a report that is served.
LEMMA RowSteps ==
  ASSUME IInv, [Next]_vars
  PROVE  \/ row' = row
         \/ \E t \in Tasks, o \in Outcomes : Accept(t, o)
         \/ \E t \in Tasks, class \in {"allowed", "requires_approval"} : Dispatch(t, class)
  <1>1. ASSUME NEW w \in Workers, ReportDelivered(w) \/ ReportResponseLost(w)
        PROVE  \E t \in Tasks, o \in Outcomes : Accept(t, o)
    BY <1>1, ReporterFacts DEF ReportDelivered, ReportResponseLost
  <1>2. ASSUME NEW w \in Workers, Acts(w), ~ReportDelivered(w), ~ReportResponseLost(w)
        PROVE  row' = row
    BY <1>2 DEF Acts, Progress, Faulty, Register, Heartbeat, PollTask, PollNothing, Perform,
                HandlerFails, ReportDenied, ExitLoop, RegisterFails, HeartbeatFails, PollFails,
                ReportRequestLost, ReportDelayed, Kill, BeatDue, Start, StopRequest, Moves, rowVars
  <1>3. CASE Api
    BY <1>3 DEF Api, DeliverLate, Revoke, rowVars
  <1>4. CASE UNCHANGED vars
    BY <1>4 DEF vars
  <1> QED BY <1>1, <1>2, <1>3, <1>4 DEF Next, Acts

\* Every step leaves the spent workers and the executions of t alone or adds to the former,
\* or is a fault that returns one worker its go, or is the go of one worker.
LEMMA SpentSteps ==
  ASSUME IInv, [Next]_vars, NEW t \in Tasks
  PROVE  \/ Spent(t) \subseteq Spent(t)' /\ executed'[t] = executed[t] /\ faults' = faults
         \/ \E w \in Workers : /\ Spent(t) \ {w} \subseteq Spent(t)'
                              /\ executed'[t] = executed[t] /\ faults' = faults + 1
         \/ \E w \in Workers : /\ pc[w] = "executing"
                              /\ Spent(t) \subseteq Spent(t)' /\ w \in Spent(t)' /\ w \notin Spent(t)
                              /\ executed'[t] = executed[t] + 1 /\ faults' = faults
  <1>t. TypeOK
    BY DEF IInv
  <1>1. ASSUME NEW w \in Workers, Faulty(w)
        PROVE  /\ Spent(t) \ {w} \subseteq Spent(t)'
               /\ executed'[t] = executed[t] /\ faults' = faults + 1
    BY <1>1, OthersStaySpent, FaultFacts DEF Acts
  <1>2. ASSUME NEW w \in Workers, Perform(w)
        PROVE  /\ pc[w] = "executing" /\ faults' = faults /\ Spent(t) \subseteq Spent(t)'
               /\ cur[w] # t => executed'[t] = executed[t]
               /\ cur[w] = t => /\ executed'[t] = executed[t] + 1
                                /\ w \in Spent(t)' /\ w \notin Spent(t)
    <2>1. Spent(t) \subseteq Spent(t)' /\ faults' = faults
      BY <1>2, CalmKeepsSpent DEF Progress
    <2>2. cur[w] = t => w \in Spent(t)' /\ w \notin Spent(t)
      BY <1>2, <1>t DEF Perform, Spent, Holds, TypeOK
    <2> QED BY <1>2, <2>1, <2>2, <1>t DEF Perform, TypeOK
  <1>3. ASSUME NEW w \in Workers, Progress(w) \/ BeatDue(w) \/ Start(w) \/ StopRequest(w), ~Perform(w)
        PROVE  Spent(t) \subseteq Spent(t)' /\ executed'[t] = executed[t] /\ faults' = faults
    BY <1>3, CalmKeepsSpent, CalmExecutesNothing
  <1>4. CASE Api
    BY <1>4, ApiFacts
  <1>5. CASE UNCHANGED vars
    BY <1>5 DEF vars, workerVars, Spent, Holds, Settled, Status
  <1> QED BY <1>1, <1>2, <1>3, <1>4, <1>5 DEF Next

\* Commands come into being by Dispatch only ...
LEMMA OnlyDispatchCreates ==
  ASSUME IInv, NEW t \in Tasks, Status(t) = "absent",
         \/ \E w \in Workers : Acts(w)
         \/ \E u \in Tasks, o \in Outcomes : DeliverLate(u, o)
  PROVE  Status(t)' = "absent"
  <1>t. TypeOK
    BY DEF IInv
  <1>1. ASSUME NEW u \in Tasks, NEW o \in Outcomes, Accept(u, o), Status(u) \in Reportable
        PROVE  Status(t)' = "absent"
    BY <1>1, <1>t, AcceptSettles DEF Status, Reportable
  <1>2. ASSUME NEW w \in Workers, ReportDelivered(w) \/ ReportResponseLost(w)
        PROVE  Status(t)' = "absent"
    BY <1>2, <1>1, ReporterFacts DEF ReportDelivered, ReportResponseLost
  <1>3. ASSUME NEW w \in Workers, Acts(w), ~ReportDelivered(w), ~ReportResponseLost(w)
        PROVE  Status(t)' = "absent"
    BY <1>3 DEF Acts, Progress, Faulty, Register, Heartbeat, PollTask, PollNothing, Perform,
                HandlerFails, ReportDenied, ExitLoop, RegisterFails, HeartbeatFails, PollFails,
                ReportRequestLost, ReportDelayed, Kill, BeatDue, Start, StopRequest, Moves, rowVars,
                Status
  <1>4. ASSUME NEW u \in Tasks, NEW o \in Outcomes, DeliverLate(u, o)
        PROVE  Status(t)' = "absent"
    BY <1>4, <1>1 DEF DeliverLate, IInv, OnlyQueuedIsTaken
  <1> QED BY <1>2, <1>3, <1>4

\* ... and into a worker's hands by a poll only.
LEMMA OnlyPollTakes ==
  ASSUME IInv, NEW w \in Workers, Acts(w)
  PROVE  cur'[w] \in {cur[w], NoTask} \/ \E t \in Tasks : PollTask(w, t)
  BY DEF IInv, TypeOK, Acts, Progress, Faulty, Register, Heartbeat, PollNothing, Perform,
         HandlerFails, ReportDelivered, ReportDenied, ReportRaises, ExitLoop, RegisterFails,
         HeartbeatFails, PollFails, ReportRequestLost, ReportResponseLost, ReportDelayed, Kill,
         BeatDue, Start, StopRequest, Moves, workerVars

-----------------------------------------------------------------------------
(* The invariant *)

LEMMA InitEInv == Init => EInv
  <1> SUFFICES ASSUME Init PROVE EInv
    OBVIOUS
  <1>1. OneGoEach
    <2> SUFFICES ASSUME NEW t \in Tasks PROVE executed[t] <= Cardinality(Spent(t)) + faults
      BY DEF OneGoEach
    <2>1. executed[t] = 0 /\ faults = 0
      BY DEF Init
    <2> QED BY <2>1, SpentFacts
  <1> QED BY <1>1, TaskFacts
          DEF Init, EInv, FailureWasAGo, LateIsAFault, EffectIsAccountedFor, UnsettledIsBlank,
              SoleWorkerKeepsCount, SoleCount, Status, Settled, Outcomes, Holds

LEMMA NextOneGoEach ==
  ASSUME IInv, OneGoEach, [Next]_vars
  PROVE  OneGoEach'
  <1> SUFFICES ASSUME NEW t \in Tasks
               PROVE  executed'[t] <= Cardinality(Spent(t)') + faults'
    BY DEF OneGoEach
  <1>n. /\ executed[t] \in Nat /\ faults \in Nat
        /\ executed[t] <= Cardinality(Spent(t)) + faults
        /\ Cardinality(Spent(t)) \in Nat /\ Cardinality(Spent(t)') \in Nat
    BY QueueAssumption, SpentFacts DEF IInv, TypeOK, OneGoEach
  <1>1. CASE Spent(t) \subseteq Spent(t)' /\ executed'[t] = executed[t] /\ faults' = faults
    <2>1. Cardinality(Spent(t)) <= Cardinality(Spent(t)')
      BY <1>1, SpentFacts, Grows
    <2> QED BY <1>1, <2>1, <1>n
  <1>2. ASSUME NEW w \in Workers, Spent(t) \ {w} \subseteq Spent(t)',
               executed'[t] = executed[t], faults' = faults + 1
        PROVE  executed'[t] <= Cardinality(Spent(t)') + faults'
    <2>1. Cardinality(Spent(t)) <= Cardinality(Spent(t)') + 1
      BY <1>2, SpentFacts, ShrinksByOneAtMost
    <2> QED BY <1>2, <2>1, <1>n
  <1>3. ASSUME NEW w \in Workers, Spent(t) \subseteq Spent(t)', w \in Spent(t)', w \notin Spent(t),
               executed'[t] = executed[t] + 1, faults' = faults
        PROVE  executed'[t] <= Cardinality(Spent(t)') + faults'
    <2>1. Cardinality(Spent(t)) + 1 <= Cardinality(Spent(t)')
      BY <1>3, SpentFacts, GrowsByOne
    <2> QED BY <1>3, <2>1, <1>n
  <1> QED BY <1>1, <1>2, <1>3, SpentSteps

\* The steps a worker takes empty-handed.
Quiet(w) ==
  \/ Register(w) \/ Heartbeat(w) \/ PollNothing(w) \/ ExitLoop(w)
  \/ BeatDue(w) \/ Start(w) \/ StopRequest(w)

\* Quiet steps move a worker that holds nothing and is about to report nothing.
LEMMA QuietFacts ==
  ASSUME IInv, NEW w \in Workers, Quiet(w)
  PROVE  /\ row' = row /\ executed' = executed /\ faults' = faults /\ live' = live /\ cur' = cur
         /\ \A v \in Workers : pc'[v] = "reporting" <=> pc[v] = "reporting"
  <1>t. TypeOK /\ HoldsWhileBusy
    BY DEF IInv
  <1>1. CASE Start(w)
    BY <1>1, <1>t DEF Start, Moves, rowVars, Down, TypeOK, HoldsWhileBusy
  <1>2. CASE Register(w) \/ Heartbeat(w) \/ PollNothing(w) \/ ExitLoop(w)
    BY <1>2, <1>t DEF Register, Heartbeat, PollNothing, ExitLoop, AtPoll, Moves, rowVars, TypeOK
  <1>3. CASE BeatDue(w) \/ StopRequest(w)
    BY <1>3, <1>t DEF BeatDue, StopRequest, rowVars
  <1> QED BY <1>1, <1>2, <1>3 DEF Quiet

\* Faults are counted for good, and a dead credential stays dead.
LEMMA UndisturbedBefore ==
  ASSUME IInv, [Next]_vars, Undisturbed'
  PROVE  /\ Undisturbed
         /\ \A w \in Workers : ~Faulty(w) /\ ~ReportDenied(w) /\ ~Revoke(w)
  <1>n. faults \in Nat /\ faults' = 0 /\ TypeOK
    BY QueueAssumption DEF IInv, TypeOK, Undisturbed
  <1>1. \A w \in Workers : ~Faulty(w)
    BY <1>n, FaultFacts
  <1>2. faults = 0 /\ \A w \in Workers : live'[w] => live[w]
    <2>1. ASSUME NEW w \in Workers, Progress(w) \/ BeatDue(w) \/ Start(w) \/ StopRequest(w)
          PROVE  faults' = faults /\ live' = live
      <3>1. live' = live
        BY <2>1, ActFacts DEF Acts
      <3>2. faults' = faults
        BY <2>1, CalmKeepsFaults
      <3> QED BY <3>1, <3>2
    <2>2. CASE Api
      BY <2>2, <1>n, ApiKeepsFaults
    <2>3. CASE UNCHANGED vars
      BY <2>3, <1>n DEF vars
    <2> QED BY <2>1, <2>2, <2>3, <1>1, <1>n DEF Next
  <1>3. Undisturbed
    BY <1>2 DEF Undisturbed, AllLive
  <1> QED BY <1>1, <1>3, <1>n DEF Undisturbed, AllLive, ReportDenied, Revoke, TypeOK

LEMMA NextLateIsAFault == IInv /\ LateIsAFault /\ [Next]_vars => LateIsAFault'
  <1> SUFFICES ASSUME IInv, LateIsAFault, [Next]_vars, NEW t \in Tasks, NEW o \in Outcomes,
                      late'[t][o] > 0
               PROVE  faults' > 0
    BY DEF LateIsAFault
  <1>t. TypeOK /\ faults \in Nat
    BY QueueAssumption DEF IInv, TypeOK
  <1>1. ASSUME late[t][o] > 0, faults' = faults
        PROVE  faults' > 0
    BY <1>1 DEF LateIsAFault
  <1>2. ASSUME NEW w \in Workers, Faulty(w)
        PROVE  faults' > 0
    BY <1>2, FaultFacts
  <1>3. ASSUME NEW w \in Workers, Progress(w) \/ BeatDue(w) \/ Start(w) \/ StopRequest(w)
        PROVE  faults' > 0
    BY <1>3, <1>1, CalmKeepsFaults
  <1>4. CASE Api
    <2>1. faults' = faults
      BY <1>4, <1>t, ApiKeepsFaults
    <2>2. late[t][o] > 0
      BY <1>4, <1>t DEF Api, Dispatch, DeliverLate, Revoke, TypeOK
    <2> QED BY <2>1, <2>2, <1>1
  <1>5. CASE UNCHANGED vars
    BY <1>5, <1>1 DEF vars
  <1> QED BY <1>2, <1>3, <1>4, <1>5 DEF Next

LEMMA NextUnsettledIsBlank == IInv /\ UnsettledIsBlank /\ [Next]_vars => UnsettledIsBlank'
  <1> SUFFICES ASSUME IInv, UnsettledIsBlank, [Next]_vars PROVE UnsettledIsBlank'
    OBVIOUS
  <1>t. TypeOK
    BY DEF IInv
  <1>1. ASSUME NEW t \in Tasks, NEW o \in Outcomes, Accept(t, o)
        PROVE  UnsettledIsBlank'
    BY <1>1, <1>t, AcceptSettles DEF UnsettledIsBlank, Settled, Status
  <1>2. CASE row' = row
    BY <1>2 DEF UnsettledIsBlank, Settled, Status
  <1>3. ASSUME NEW t \in Tasks, NEW class \in {"allowed", "requires_approval"}, Dispatch(t, class)
        PROVE  UnsettledIsBlank'
    BY <1>3, <1>t DEF Dispatch, UnsettledIsBlank, Settled, Status, TypeOK
  <1>4. \/ row' = row
        \/ \E t \in Tasks, o \in Outcomes : Accept(t, o)
        \/ \E t \in Tasks, class \in {"allowed", "requires_approval"} : Dispatch(t, class)
    BY RowSteps
  <1> QED BY <1>1, <1>2, <1>3, <1>4

LEMMA NextEffect == IInv /\ EffectIsAccountedFor /\ [Next]_vars => EffectIsAccountedFor'
  <1> SUFFICES ASSUME IInv, EffectIsAccountedFor, [Next]_vars, NEW t \in Tasks,
                      Status(t)' = "queued", executed'[t] > 0, Undisturbed'
               PROVE  \E w \in Workers : Holds(w, t)' /\ pc'[w] = "reporting"
    BY DEF EffectIsAccountedFor, Undisturbed
  <1>t. TypeOK /\ HoldsWhileBusy
    BY DEF IInv
  <1>u. Undisturbed /\ \A w \in Workers : ~Faulty(w) /\ ~ReportDenied(w) /\ ~Revoke(w)
    BY UndisturbedBefore
  <1>b. ASSUME Status(t) = "queued", executed[t] > 0
        PROVE  \E w \in Workers : Holds(w, t) /\ pc[w] = "reporting"
    BY <1>b, <1>u DEF EffectIsAccountedFor, Undisturbed
  <1>1. ASSUME NEW w \in Workers, Quiet(w) \/ (\E u \in Tasks : PollTask(w, u)) \/ HandlerFails(w)
        PROVE  \E v \in Workers : Holds(v, t)' /\ pc'[v] = "reporting"
    <2>1. row' = row /\ executed' = executed
      BY <1>1, QuietFacts DEF PollTask, HandlerFails, Moves, rowVars
    <2>2. PICK v \in Workers : Holds(v, t) /\ pc[v] = "reporting"
      BY <1>b, <2>1 DEF Status
    <2>3. Holds(v, t)' /\ pc'[v] = "reporting"
      BY <1>1, <2>2, <1>t, QuietFacts DEF PollTask, HandlerFails, AtPoll, Moves, Holds, TypeOK
    <2> QED BY <2>3
  <1>2. ASSUME NEW w \in Workers, Perform(w)
        PROVE  \E v \in Workers : Holds(v, t)' /\ pc'[v] = "reporting"
    <2>1. CASE cur[w] = t
      BY <1>2, <2>1, <1>t DEF Perform, Holds, TypeOK
    <2>2. CASE cur[w] # t
      <3>1. Status(t) = "queued" /\ executed[t] > 0
        BY <1>2, <2>2, <1>t DEF Perform, rowVars, Status, TypeOK
      <3>2. PICK v \in Workers : Holds(v, t) /\ pc[v] = "reporting"
        BY <1>b, <3>1
      <3> QED BY <3>2, <1>2, <1>t DEF Perform, Holds, TypeOK
    <2> QED BY <2>1, <2>2
  <1>3. ASSUME NEW w \in Workers, ReportDelivered(w)
        PROVE  \E v \in Workers : Holds(v, t)' /\ pc'[v] = "reporting"
    <2>1. Reporting(w) /\ Accept(cur[w], OutcomeOf(w)) /\ cur[w] \in Tasks /\ OutcomeOf(w) \in Outcomes
      BY <1>3, ReporterFacts DEF ReportDelivered
    <2>2. cur[w] # t /\ row'[t] = row[t]
      BY <2>1, <1>t, AcceptSettles DEF Status, Outcomes
    <2>3. PICK v \in Workers : Holds(v, t) /\ pc[v] = "reporting"
      BY <1>b, <1>3, <2>2 DEF Status, ReportDelivered
    <2> QED BY <2>2, <2>3, <1>3, <1>t DEF ReportDelivered, Holds, TypeOK
  <1>4. ASSUME NEW u \in Tasks, NEW class \in {"allowed", "requires_approval"}, Dispatch(u, class)
        PROVE  \E v \in Workers : Holds(v, t)' /\ pc'[v] = "reporting"
    <2>1. executed' = executed /\ cur' = cur /\ pc' = pc /\ Status(u) = "absent"
      BY <1>4 DEF Dispatch, workerVars, Status
    <2>2. u # t
      BY <2>1 DEF IInv, OnlyQueuedIsTaken, Reportable
    <2>3. Status(t) = "queued"
      BY <1>4, <2>2, <1>t DEF Dispatch, Status, TypeOK
    <2> QED BY <1>b, <2>1, <2>3 DEF Holds
  <1>5. ASSUME NEW u \in Tasks, NEW o \in Outcomes, DeliverLate(u, o)
        PROVE  \E v \in Workers : Holds(v, t)' /\ pc'[v] = "reporting"
    <2>1. Accept(u, o) /\ executed' = executed /\ cur' = cur /\ pc' = pc
      BY <1>5 DEF DeliverLate, workerVars
    <2>2. Status(t) = "queued"
      BY <2>1, <1>t, AcceptSettles DEF Status, Outcomes
    <2> QED BY <1>b, <2>1, <2>2 DEF Holds
  <1>6. CASE UNCHANGED vars
    BY <1>6, <1>b DEF vars, workerVars, Status, Holds
  <1> QED BY <1>1, <1>2, <1>3, <1>4, <1>5, <1>6, <1>u DEF Next, Api, Progress, Quiet

LEMMA NextFailure ==
  IInv /\ OneGoEach /\ LateIsAFault /\ FailureWasAGo /\ [Next]_vars => FailureWasAGo'
  <1> SUFFICES ASSUME IInv, OneGoEach, LateIsAFault, FailureWasAGo, [Next]_vars,
                      NEW t \in Tasks, Status(t)' = "failed", Undisturbed'
               PROVE  executed'[t] < Cardinality(Spent(t)')
    BY DEF FailureWasAGo, Undisturbed
  <1>t. TypeOK
    BY DEF IInv
  <1>u. Undisturbed /\ \A w \in Workers : ~Faulty(w) /\ ~ReportDenied(w) /\ ~Revoke(w)
    BY UndisturbedBefore
  <1>n. /\ executed[t] \in Nat /\ executed[t] <= Cardinality(Spent(t))
        /\ Cardinality(Spent(t)) \in Nat /\ Cardinality(Spent(t)') \in Nat
        /\ Status(t) = "failed" => executed[t] < Cardinality(Spent(t))
    BY <1>t, <1>u, SpentFacts DEF TypeOK, OneGoEach, FailureWasAGo, Undisturbed
  <1>1. ASSUME Spent(t) \subseteq Spent(t)', executed'[t] = executed[t], Status(t) = "failed"
        PROVE  executed'[t] < Cardinality(Spent(t)')
    <2>1. Cardinality(Spent(t)) <= Cardinality(Spent(t)')
      BY <1>1, SpentFacts, Grows
    <2> QED BY <1>1, <2>1, <1>n
  <1>2. ASSUME NEW w \in Workers, Perform(w)
        PROVE  executed'[t] < Cardinality(Spent(t)')
    <2>1. Spent(t) \subseteq Spent(t)'
      BY <1>2, CalmKeepsSpent DEF Progress
    <2>2. Status(t) = "failed"
      BY <1>2 DEF Perform, rowVars, Status
    <2>3. CASE cur[w] = t
      <3>1. w \notin Spent(t) /\ w \in Spent(t)'
        BY <1>2, <2>3, <1>t DEF Perform, Spent, Holds, TypeOK
      <3>2. Cardinality(Spent(t)) + 1 <= Cardinality(Spent(t)')
        BY <2>1, <3>1, SpentFacts, GrowsByOne
      <3>3. executed'[t] = executed[t] + 1
        BY <1>2, <2>3, <1>t DEF Perform, TypeOK
      <3> QED BY <2>2, <3>2, <3>3, <1>n
    <2>4. CASE cur[w] # t
      <3>1. executed'[t] = executed[t]
        BY <1>2, <2>4, <1>t DEF Perform, TypeOK
      <3> QED BY <2>1, <2>2, <3>1, <1>1
    <2> QED BY <2>3, <2>4
  <1>3. ASSUME NEW w \in Workers, ReportDelivered(w)
        PROVE  executed'[t] < Cardinality(Spent(t)')
    <2>1. /\ Reporting(w) /\ Accept(cur[w], OutcomeOf(w)) /\ live[w]
          /\ cur[w] \in Tasks /\ OutcomeOf(w) \in Outcomes
      BY <1>3, ReporterFacts DEF ReportDelivered
    <2>2. Spent(t) \subseteq Spent(t)' /\ executed' = executed
      BY <1>3, CalmKeepsSpent DEF Progress, ReportDelivered
    <2>3. CASE cur[w] = t
      <3>1. OutcomeOf(w) = "failed"
        BY <2>1, <2>3, <1>t, AcceptSettles DEF Status
      <3>2. w \notin Spent(t)
        BY <2>1, <2>3, <3>1 DEF OutcomeOf, Spent, Holds
      <3>3. w \in Spent(t)'
        BY <1>3, <2>3, <1>t, TaskFacts DEF ReportDelivered, Spent, Holds, Settled, Outcomes, TypeOK
      <3>4. Cardinality(Spent(t)) + 1 <= Cardinality(Spent(t)')
        BY <2>2, <3>2, <3>3, SpentFacts, GrowsByOne
      <3> QED BY <2>2, <3>4, <1>n
    <2>4. CASE cur[w] # t
      <3>1. Status(t) = "failed"
        BY <2>1, <2>4, <1>t, AcceptSettles DEF Status
      <3> QED BY <2>2, <3>1, <1>1
    <2> QED BY <2>3, <2>4
  <1>4. ASSUME NEW w \in Workers, Quiet(w) \/ (\E u \in Tasks : PollTask(w, u)) \/ HandlerFails(w)
        PROVE  executed'[t] < Cardinality(Spent(t)')
    <2>1. row' = row /\ executed' = executed
      BY <1>4, QuietFacts DEF PollTask, HandlerFails, Moves, rowVars
    <2>2. Spent(t) \subseteq Spent(t)'
      BY <1>4, CalmKeepsSpent DEF Quiet, Progress
    <2> QED BY <2>1, <2>2, <1>1 DEF Status
  <1>5. CASE Api
    <2>1. Spent(t) \subseteq Spent(t)' /\ executed' = executed
      BY <1>5, ApiFacts
    <2>2. ASSUME NEW u \in Tasks, NEW class \in {"allowed", "requires_approval"}, Dispatch(u, class)
          PROVE  Status(t) = "failed"
      BY <2>2, <1>t DEF Dispatch, CreateStatus, Status, TypeOK
    <2>3. ~\E u \in Tasks, o \in Outcomes : DeliverLate(u, o)
      BY <1>u DEF LateIsAFault, DeliverLate, Undisturbed
    <2> QED BY <1>5, <2>1, <2>2, <2>3, <1>1, <1>u DEF Api
  <1>6. CASE UNCHANGED vars
    <2>1. Spent(t)' = Spent(t) /\ executed' = executed /\ Status(t)' = Status(t)
      BY <1>6 DEF vars, workerVars, Spent, Holds, Settled, Status
    <2> QED BY <2>1, <1>1
  <1> QED BY <1>2, <1>3, <1>4, <1>5, <1>6, <1>u DEF Next, Progress, Quiet

LEMMA NextSoleWorker ==
  IInv /\ LateIsAFault /\ UnsettledIsBlank /\ SoleWorkerKeepsCount /\ [Next]_vars
    => SoleWorkerKeepsCount'
  <1> SUFFICES ASSUME IInv, LateIsAFault, UnsettledIsBlank, SoleWorkerKeepsCount, [Next]_vars,
                      Cardinality(Workers) = 1, Undisturbed'
               PROVE  \A t \in Tasks : SoleCount(t)'
    BY DEF SoleWorkerKeepsCount, SoleCount, Undisturbed
  <1>t. TypeOK /\ HoldsWhileBusy
    BY DEF IInv
  <1>u. Undisturbed /\ \A w \in Workers : ~Faulty(w) /\ ~ReportDenied(w) /\ ~Revoke(w)
    BY UndisturbedBefore
  <1>c. \A t \in Tasks : SoleCount(t)
    BY <1>u DEF SoleWorkerKeepsCount, SoleCount
  <1>s. \A v, w \in Workers : v = w
    <2>1. \E x : Workers = {x}
      BY QueueAssumption, FS_Singleton
    <2> QED BY <2>1
  <1> SUFFICES ASSUME NEW t \in Tasks PROVE SoleCount(t)'
    OBVIOUS
  <1>1. ASSUME row' = row, executed' = executed, cur' = cur,
               \A v \in Workers : pc'[v] = "reporting" <=> pc[v] = "reporting"
        PROVE  SoleCount(t)'
    BY <1>1, <1>c DEF SoleCount, Holds, Settled, Status
  <1>2. ASSUME NEW w \in Workers, Quiet(w) \/ HandlerFails(w)
        PROVE  SoleCount(t)'
    <2>1. CASE Quiet(w)
      BY <2>1, <1>1, QuietFacts
    <2>2. CASE HandlerFails(w)
      BY <2>2, <1>1, <1>t DEF HandlerFails, Moves, rowVars, TypeOK
    <2> QED BY <1>2, <2>1, <2>2
  <1>3. ASSUME NEW w \in Workers, NEW u \in Tasks, PollTask(w, u)
        PROVE  SoleCount(t)'
    <2>1. /\ row' = row /\ executed' = executed /\ ~Settled(u)
          /\ cur[w] = NoTask /\ cur'[w] = u /\ pc'[w] = "executing"
      BY <1>3, <1>t DEF PollTask, AtPoll, IsOffered, Queued, Moves, rowVars, Settled, Status,
                        Outcomes, TypeOK, HoldsWhileBusy
    <2> QED BY <2>1, <1>c, <1>s, TaskFacts DEF SoleCount, Holds, Settled, Status
  <1>4. ASSUME NEW w \in Workers, Perform(w)
        PROVE  SoleCount(t)'
    <2>1. /\ row' = row /\ cur' = cur /\ cur[w] \in Tasks
          /\ pc[w] = "executing" /\ pc'[w] = "reporting"
          /\ executed' = [executed EXCEPT ![cur[w]] = @ + 1]
      BY <1>4, <1>t DEF Perform, rowVars, TypeOK, HoldsWhileBusy
    <2>2. CASE cur[w] = t
      <3>1. ~Settled(t) /\ Status(t) # "completed"
        BY <2>2, <1>c DEF SoleCount, Holds, Settled, Outcomes
      <3>2. executed[t] = 0
        BY <3>1, <2>1, <1>c, <1>s DEF SoleCount
      <3>3. executed'[t] = 1
        BY <3>2, <2>1, <2>2, <1>t DEF TypeOK
      <3> QED BY <2>1, <2>2, <3>1, <3>3 DEF SoleCount, Holds, Settled, Status
    <2>3. CASE cur[w] # t
      <3>1. executed'[t] = executed[t]
        BY <2>1, <2>3, <1>t DEF TypeOK
      <3>2. \A v \in Workers : ~Holds(v, t) /\ ~Holds(v, t)'
        BY <2>1, <2>3, <1>s DEF Holds
      <3> QED BY <3>1, <3>2, <2>1, <1>c DEF SoleCount, Settled, Status
    <2> QED BY <2>2, <2>3
  <1>5. ASSUME NEW w \in Workers, ReportDelivered(w)
        PROVE  SoleCount(t)'
    <2>1. /\ Reporting(w) /\ Accept(cur[w], OutcomeOf(w)) /\ executed' = executed
          /\ cur[w] \in Tasks /\ OutcomeOf(w) \in Outcomes /\ cur'[w] = NoTask
      BY <1>5, <1>t, ReporterFacts DEF ReportDelivered, TypeOK
    <2>2. \A v \in Workers : ~Holds(v, t)'
      BY <2>1, <1>s, TaskFacts DEF Holds
    <2>3. CASE cur[w] = t
      <3>1. ~Settled(t) /\ Status(t) # "completed" /\ row[t].filled = {}
        BY <2>3, <1>c DEF SoleCount, Holds, Settled, Outcomes, UnsettledIsBlank
      <3>2. row'[t].status = OutcomeOf(w) /\ row'[t].filled = {OutcomeOf(w)}
        BY <2>1, <2>3, <3>1, <1>t, AcceptSettles
      <3>3. executed[t] = IF OutcomeOf(w) = "completed" THEN 1 ELSE 0
        BY <2>1, <2>3, <3>1, <1>c, <1>s DEF SoleCount, Holds, OutcomeOf, Reporting
      <3> QED BY <2>1, <2>2, <3>2, <3>3 DEF SoleCount, Status
    <2>4. CASE cur[w] # t
      <3>1. row'[t] = row[t] /\ \A v \in Workers : ~Holds(v, t)
        BY <2>1, <2>4, <1>s, <1>t, AcceptSettles DEF Holds
      <3> QED BY <3>1, <2>1, <2>2, <1>c DEF SoleCount, Settled, Status
    <2> QED BY <2>3, <2>4
  <1>6. ASSUME NEW u \in Tasks, NEW class \in {"allowed", "requires_approval"}, Dispatch(u, class)
        PROVE  SoleCount(t)'
    <2>1. executed' = executed /\ cur' = cur /\ pc' = pc
      BY <1>6 DEF Dispatch, workerVars
    <2>2. CASE u = t
      <3>1. Status(t) = "absent" /\ \A v \in Workers : ~Holds(v, t)
        BY <1>6, <2>2 DEF Dispatch, Status, IInv, OnlyQueuedIsTaken, Reportable, Holds
      <3>2. Status(t)' \in {"queued", "approval_required"}
        BY <1>6, <2>2, <1>t DEF Dispatch, CreateStatus, Status, TypeOK
      <3> QED BY <2>1, <3>1, <3>2, <1>c DEF SoleCount, Holds, Settled, Outcomes
    <2>3. CASE u # t
      <3>1. row'[t] = row[t]
        BY <1>6, <2>3, <1>t DEF Dispatch, TypeOK
      <3> QED BY <3>1, <2>1, <1>c DEF SoleCount, Holds, Settled, Status
    <2> QED BY <2>2, <2>3
  <1>7. ~\E u \in Tasks, o \in Outcomes : DeliverLate(u, o)
    BY <1>u DEF LateIsAFault, DeliverLate, Undisturbed
  <1>8. CASE UNCHANGED vars
    BY <1>8, <1>1 DEF vars, workerVars
  <1> QED BY <1>2, <1>3, <1>4, <1>5, <1>6, <1>7, <1>8, <1>u DEF Next, Api, Progress, Quiet

LEMMA SpecEInv == Spec => []EInv
  <1>1. Init => EInv
    BY InitEInv
  <1>2. IInv /\ EInv /\ [Next]_vars => EInv'
    BY NextOneGoEach, NextFailure, NextLateIsAFault, NextEffect, NextUnsettledIsBlank,
       NextSoleWorker DEF EInv
  <1> QED BY <1>1, <1>2, SpecIInv, PTL DEF Spec

-----------------------------------------------------------------------------
(* Theorems *)

\* Nothing claims a polled row, yet a command takes effect at most once per worker and once
\* more per fault, with any number of workers racing for it.
THEOREM ExecutionsAreBounded == Spec => []ExecutionsBounded
  <1>1. IInv /\ EInv => ExecutionsBounded
    <2> SUFFICES ASSUME IInv, EInv, NEW t \in Tasks
                 PROVE  executed[t] <= Cardinality(Workers) + faults
      BY DEF ExecutionsBounded
    <2>1. executed[t] \in Nat /\ faults \in Nat /\ executed[t] <= Cardinality(Spent(t)) + faults
      BY QueueAssumption DEF IInv, TypeOK, EInv, OneGoEach
    <2> QED BY <2>1, SpentFacts
  <1> QED BY <1>1, SpecIInv, SpecEInv, PTL

\* Without faults and revocations a command that took effect and still reads queued is in
\* the hands of a worker about to report it.
THEOREM EffectsAreReported == Spec => []EffectIsAccountedFor
  <1>1. EInv => EffectIsAccountedFor
    BY DEF EInv
  <1> QED BY <1>1, SpecEInv, PTL

\* Without faults and revocations a row reads failed only if some worker did not carry the
\* command out.
THEOREM FailuresAreHonest == Spec => []FailureIsHonest
  <1>1. IInv /\ EInv => FailureIsHonest
    <2> SUFFICES ASSUME IInv, EInv, NEW t \in Tasks, Status(t) = "failed", faults = 0, AllLive
                 PROVE  executed[t] < Cardinality(Workers)
      BY DEF FailureIsHonest
    <2>1. executed[t] \in Nat /\ executed[t] < Cardinality(Spent(t))
      BY DEF IInv, TypeOK, EInv, FailureWasAGo, Undisturbed
    <2> QED BY <2>1, SpentFacts
  <1> QED BY <1>1, SpecIInv, SpecEInv, PTL

\* A workspace with one undisturbed worker gets exactly-once execution and one report per
\* command, out of a queue that promises neither.
THEOREM SoleWorkerExactness == Spec => []SoleWorkerIsExact
  <1>1. EInv => SoleWorkerIsExact
    BY DEF EInv, SoleWorkerKeepsCount, SoleCount, SoleWorkerIsExact, Undisturbed
  <1> QED BY <1>1, SpecEInv, PTL
=============================================================================
