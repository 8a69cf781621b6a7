------------------------ MODULE DeviceConnectorProofs ------------------------
(***************************************************************************)
(* Theorems about DeviceConnector, for any number of API processes, setup  *)
(* tokens, devices, commands and faults.                                   *)
(*                                                                         *)
(* The composition implements each of its parts: DeviceSetup as it stands, *)
(* and WorkerQueue with a credential that is live until its device is      *)
(* Dead.  So what is proved of the parts holds here, and the lemmas about  *)
(* their steps are cited from their own modules.                           *)
(***************************************************************************)
EXTENDS DeviceConnector, FiniteSetTheorems, TLAPS

S == INSTANCE DeviceSetupProofs
Q == INSTANCE WorkerQueueExecutions
       WITH Workers <- Devices, live <- [d \in Devices |-> ~Dead(d)]

LEMMA SetupAssumed == S!SetupAssumption
  BY ConnectorAssumption DEF S!SetupAssumption, IsFiniteSet, S!IsFiniteSet

LEMMA DeviceFacts == IsFiniteSet(Devices) /\ Nobody \notin Devices /\ Devices \subseteq Nat
  BY ConnectorAssumption, FS_Interval DEF Devices, Nobody

LEMMA QueueAssumed == Q!QueueAssumption
  <1>1. Q!IsFiniteSet(Devices)
    BY DeviceFacts DEF IsFiniteSet, Q!IsFiniteSet
  <1> QED BY <1>1, ConnectorAssumption DEF Q!QueueAssumption

-----------------------------------------------------------------------------
(* The onboarding side *)

\* The actions of Setup are those the theorems of S speak of.
LEMMA SetupActions ==
  ASSUME NEW p, NEW k
  PROVE  /\ Setup!CreateSetupToken(k) => S!CreateSetupToken(k)
         /\ Setup!Expire(k) => S!Expire(k)
         /\ Setup!BeginRegister(p, k) => S!BeginRegister(p, k)
         /\ Setup!CommitRegister(p) => S!CommitRegister(p)
         /\ Setup!BeginDisable(p) => S!BeginDisable(p)
         /\ Setup!CommitDisable(p) => S!CommitDisable(p)
         /\ Setup!BeginHeartbeat(p) => S!BeginHeartbeat(p)
         /\ Setup!CommitHeartbeat(p) => S!CommitHeartbeat(p)
         /\ Setup!Rollback(p) => S!Rollback(p)
         /\ Setup!GoStale => S!GoStale
  <1> USE DEF Setup!rowVars, S!rowVars, Setup!Idle, S!Idle, Setup!Finish, S!Finish,
              Setup!NoDevice, S!NoDevice, Setup!InsertConflict, S!InsertConflict,
              Setup!Written, S!Written, Setup!Merge, S!Merge
  <1>1. Setup!CreateSetupToken(k) => S!CreateSetupToken(k)
    BY DEF Setup!CreateSetupToken, S!CreateSetupToken
  <1>2. Setup!Expire(k) => S!Expire(k)
    BY DEF Setup!Expire, S!Expire
  <1>3. Setup!BeginRegister(p, k) => S!BeginRegister(p, k)
    BY DEF Setup!BeginRegister, S!BeginRegister, Setup!IsValid, S!IsValid
  <1>4. Setup!CommitRegister(p) => S!CommitRegister(p)
    BY DEF Setup!CommitRegister, S!CommitRegister
  <1>5. Setup!BeginDisable(p) => S!BeginDisable(p)
    BY DEF Setup!BeginDisable, S!BeginDisable
  <1>6. Setup!CommitDisable(p) => S!CommitDisable(p)
    BY DEF Setup!CommitDisable, S!CommitDisable
  <1>7. Setup!BeginHeartbeat(p) => S!BeginHeartbeat(p)
    BY DEF Setup!BeginHeartbeat, S!BeginHeartbeat
  <1>8. Setup!CommitHeartbeat(p) => S!CommitHeartbeat(p)
    BY DEF Setup!CommitHeartbeat, S!CommitHeartbeat
  <1>9. Setup!Rollback(p) => S!Rollback(p)
    BY DEF Setup!Rollback, S!Rollback
  <1>10. Setup!GoStale => S!GoStale
    BY DEF Setup!GoStale, S!GoStale
  <1> QED BY <1>1, <1>2, <1>3, <1>4, <1>5, <1>6, <1>7, <1>8, <1>9, <1>10

\* The steps of the composition that are onboarding's.
Onboarding ==
  \/ Dashboard \/ Registration \/ Presence
  \/ \E p \in Procs, d \in Devices : WriteBeat(p, d)

LEMMA OnboardingSteps == Onboarding => S!Next /\ UNCHANGED queueVars
  BY SetupActions DEF Onboarding, Dashboard, Registration, Presence, WriteBeat, S!Next

\* Every step is onboarding's or leaves onboarding alone.
LEMMA SetupSteps == [Next]_vars => [S!Next]_(S!vars)
  <1>1. Next => Onboarding \/ UNCHANGED setupVars
    BY DEF Next, Onboarding, Install, Beat, Launch, Work, LateReport, CheckConnection, Refuse, Send
  <1>2. UNCHANGED vars \/ UNCHANGED setupVars => UNCHANGED S!vars
    BY DEF vars, setupVars, S!vars, S!rowVars
  <1> QED BY <1>1, <1>2, OnboardingSteps

LEMMA SetupInit == Init => S!Init
  BY DEF Init, Setup!Init, S!Init, Setup!NoRow, S!NoRow, Setup!NoDevice, S!NoDevice,
         Setup!Idle, S!Idle

\* The composition is a behaviour of onboarding: heartbeats that need an accepted device
\* token are some of the heartbeats DeviceSetup allows.
THEOREM ImplementsSetup == Spec => Setup!Spec
  <1>1. Init => Setup!Init
    BY DEF Init
  <1>2. [Next]_vars => [Setup!Next]_(Setup!vars)
    <2>1. Onboarding => Setup!Next
      BY DEF Onboarding, Dashboard, Registration, Presence, WriteBeat, Setup!Next
    <2>2. Next => Onboarding \/ UNCHANGED setupVars
      BY DEF Next, Onboarding, Install, Beat, Launch, Work, LateReport, CheckConnection, Refuse,
             Send
    <2>3. UNCHANGED vars \/ UNCHANGED setupVars => UNCHANGED Setup!vars
      BY DEF vars, setupVars, Setup!vars, Setup!rowVars
    <2> QED BY <2>1, <2>2, <2>3
  <1> QED BY <1>1, <1>2, PTL DEF Spec, Setup!Spec

LEMMA SpecSInv == Spec => []S!SInv
  <1>1. Spec => S!Spec
    BY SetupInit, SetupSteps, PTL DEF Spec, S!Spec
  <1> QED BY <1>1, SetupAssumed, S!SpecSInv, PTL

-----------------------------------------------------------------------------
(* Dead credentials *)

AcceptedOnly(d) == exists /\ worker.device = d /\ worker.status # "revoked"

LEMMA AcceptsIs ==
  ASSUME NEW d
  PROVE  /\ Setup!Accepts(d) <=> AcceptedOnly(d)
         /\ Setup!Accepts(d)' <=> AcceptedOnly(d)'
         /\ Dead(d) <=> d \in Registered /\ ~AcceptedOnly(d)
         /\ Dead(d)' <=> d \in Registered' /\ ~AcceptedOnly(d)'
  BY DEF Setup!Accepts, AcceptedOnly, Dead

LEMMA RegisteredIs ==
  /\ \A d : d \in Registered <=> \E k \in SetupTokens : d \in redeemed[k]
  /\ \A d : d \in Registered' <=> \E k \in SetupTokens : d \in redeemed'[k]
  BY DEF Registered

\* What a step of onboarding does to the registered devices and to the row.
LEMMA OnboardingFacts ==
  ASSUME S!SInv, S!Next
  PROVE  /\ Registered \subseteq Registered'
         /\ \/ UNCHANGED <<exists, worker, redeemed>>
            \/ /\ Registered' = Registered /\ exists'
               /\ worker'.device = worker.device
               /\ worker.status = "revoked" => worker'.status = "revoked"
            \/ \E d \in Devices :
                 /\ d \notin Registered /\ Registered' = Registered \cup {d}
                 /\ exists' /\ worker'.device = d
                 /\ worker'.status # "revoked" \/ worker.status = "revoked"
  <1>1. ASSUME NEW p \in Procs, S!CommitRegister(p)
        PROVE  \E d \in Devices :
                 /\ d \notin Registered /\ Registered' = Registered \cup {d}
                 /\ exists' /\ worker'.device = d
                 /\ worker'.status # "revoked" \/ worker.status = "revoked"
    <2>1. /\ txn[p] \in S!Registers /\ S!Registering(p)
          /\ redeemed' = [redeemed EXCEPT ![txn[p].token] = @ \cup {txn[p].device}]
          /\ exists'
      BY <1>1, SetupAssumed, S!TxnKinds DEF S!CommitRegister, S!Registering, S!SInv
    <2>2. txn[p].token \in SetupTokens /\ txn[p].device \in Devices
      BY <2>1 DEF S!Registers, S!Devices, Devices
    <2>3. \A k \in SetupTokens : txn[p].device \notin redeemed[k]
      BY <2>1 DEF S!SInv, S!TokensAreFresh
    <2>4. \A d : d \in Registered' <=> d \in Registered \/ d = txn[p].device
      BY <2>1, <2>2, RegisteredIs DEF S!SInv, S!TypeOK
    <2>5. worker'.device = txn[p].device
      BY <1>1, SetupAssumed, S!RegisterWrites
    <2>6. worker'.status # "revoked" \/ worker.status = "revoked"
      BY <1>1 DEF S!CommitRegister, S!Written, S!Merge
    <2> QED BY <2>1, <2>2, <2>3, <2>4, <2>5, <2>6, RegisteredIs
  <1>2. ASSUME NEW p \in Procs, S!CommitDisable(p) \/ S!CommitHeartbeat(p)
        PROVE  /\ Registered' = Registered /\ exists'
               /\ worker'.device = worker.device
               /\ worker.status = "revoked" => worker'.status = "revoked"
    <2>1. redeemed' = redeemed
      BY <1>2 DEF S!CommitDisable, S!CommitHeartbeat
    <2>2. exists'
      BY <1>2, SetupAssumed, S!TxnKinds
      DEF S!CommitDisable, S!CommitHeartbeat, S!SInv, S!SnapshotsAreRows, S!Idle
    <2> QED BY <1>2, <2>1, <2>2, SetupAssumed, S!UpdateWrites DEF Registered
  <1>3. \/ UNCHANGED <<exists, worker, redeemed>>
        \/ \E p \in Procs : S!CommitRegister(p) \/ S!CommitDisable(p) \/ S!CommitHeartbeat(p)
    BY DEF S!Next, S!CreateSetupToken, S!Expire, S!BeginRegister, S!BeginDisable,
           S!BeginHeartbeat, S!Rollback, S!GoStale, S!rowVars
  <1>4. CASE UNCHANGED <<exists, worker, redeemed>>
    BY <1>4 DEF Registered
  <1>5. CASE \E p \in Procs : S!CommitDisable(p) \/ S!CommitHeartbeat(p)
    BY <1>5, <1>2
  <1>6. CASE \E p \in Procs : S!CommitRegister(p)
    BY <1>6, <1>1
  <1> QED BY <1>3, <1>4, <1>5, <1>6

\* The device the row names is registered, and there is a row if it names one.
LEMMA RowFacts ==
  ASSUME S!SInv
  PROVE  /\ worker.device \in Devices \cup {Nobody}
         /\ worker.device # Nobody => exists /\ worker.device \in Registered
  <1>1. worker.device \in Devices \cup {Nobody}
    BY DEF S!SInv, S!TypeOK, S!Columns, S!Devices, Devices, S!NoDevice, Nobody
  <1>2. worker.device # Nobody => exists
    BY DEF S!SInv, S!SnapshotsAreRows, S!NoRow, S!NoDevice, Nobody
  <1>3. worker.device # Nobody => worker.device \in Registered
    BY RegisteredIs DEF S!SInv, S!RowWasRedeemed, S!NoDevice, Nobody
  <1> QED BY <1>1, <1>2, <1>3

\* Onboarding refuses at most one more device in a step, and for good.
LEMMA DeathIsSingle ==
  ASSUME S!SInv, S!Next
  PROVE  \/ \A d \in Devices : Dead(d)' <=> Dead(d)
         \/ \E d \in Devices : /\ ~Dead(d) /\ Dead(d)'
                              /\ \A e \in Devices \ {d} : Dead(e)' <=> Dead(e)
  <1>1. CASE UNCHANGED <<exists, worker, redeemed>>
    BY <1>1 DEF Dead, Setup!Accepts, Registered
  <1>2. CASE /\ Registered' = Registered /\ exists'
             /\ worker'.device = worker.device
             /\ worker.status = "revoked" => worker'.status = "revoked"
    BY <1>2, RowFacts, AcceptsIs, DeviceFacts DEF AcceptedOnly
  <1>3. ASSUME NEW d \in Devices,
               d \notin Registered, Registered' = Registered \cup {d},
               exists', worker'.device = d,
               worker'.status # "revoked" \/ worker.status = "revoked"
        PROVE  \/ \A e \in Devices : Dead(e)' <=> Dead(e)
               \/ \E f \in Devices : /\ ~Dead(f) /\ Dead(f)'
                                    /\ \A e \in Devices \ {f} : Dead(e)' <=> Dead(e)
    <2>1. worker.device # d
      BY <1>3, RowFacts, DeviceFacts
    <2>2. CASE worker'.status = "revoked"
      \* The row was revoked already, and the new device is refused from its birth.
      <3>1. \A e \in Devices \ {d} : Dead(e)' <=> Dead(e)
        BY <1>3, <2>2, AcceptsIs DEF AcceptedOnly
      <3>2. ~Dead(d) /\ Dead(d)'
        BY <1>3, <2>2, AcceptsIs DEF AcceptedOnly
      <3> QED BY <3>1, <3>2
    <2>3. CASE worker'.status # "revoked"
      \* The device that was accepted, if any, is replaced.
      <3>1. ~Dead(d) /\ ~Dead(d)'
        BY <1>3, <2>3, AcceptsIs DEF AcceptedOnly
      <3>2. \A e \in Devices \ {d} : Dead(e)' <=> e \in Registered
        BY <1>3, <2>3, AcceptsIs DEF AcceptedOnly
      <3>3. PICK old \in Devices \cup {Nobody} : old = worker.device
        BY RowFacts
      <3>4. \A e \in Devices \ {d} : e # old => (Dead(e)' <=> Dead(e))
        BY <3>2, <3>3, AcceptsIs DEF AcceptedOnly
      <3>5. CASE old = Nobody \/ Dead(old)
        <4>1. old \in Devices => (Dead(old)' <=> Dead(old))
          BY <3>2, <3>3, <3>5, <2>1, AcceptsIs, DeviceFacts
        <4> QED BY <3>1, <3>4, <4>1
      <3>6. CASE old \in Devices /\ ~Dead(old)
        <4>1. Dead(old)'
          BY <3>2, <3>3, <3>6, <2>1, RowFacts, DeviceFacts
        <4>2. \A e \in Devices \ {old} : Dead(e)' <=> Dead(e)
          BY <3>1, <3>4
        <4> QED BY <3>6, <4>1, <4>2
      <3> QED BY <3>3, <3>5, <3>6
    <2> QED BY <2>2, <2>3
  <1> QED BY <1>1, <1>2, <1>3, OnboardingFacts

-----------------------------------------------------------------------------
(* The queue side *)

Live == [d \in Devices |-> ~Dead(d)]

LEMMA LiveKept ==
  ASSUME UNCHANGED setupVars
  PROVE  Live' = Live /\ UNCHANGED [d \in Devices |-> Setup!Accepts(d)] /\ Registered' = Registered
  BY DEF setupVars, Live, Dead, Registered, Setup!Accepts

\* For a device whose credential is accepted exactly when it is not Dead, the actions of
\* Queue are those the theorems of Q speak of.
LEMMA QueueActions ==
  ASSUME NEW d \in Devices, Setup!Accepts(d) <=> ~Dead(d), UNCHANGED setupVars, NEW t
  PROVE  /\ Queue!Register(d) => Q!Register(d)
         /\ Queue!Heartbeat(d) => Q!Heartbeat(d)
         /\ Queue!RegisterFails(d) => Q!RegisterFails(d)
         /\ Queue!HeartbeatFails(d) => Q!HeartbeatFails(d)
         /\ Queue!Start(d) => Q!Start(d)
         /\ Queue!BeatDue(d) => Q!BeatDue(d)
         /\ Queue!PollTask(d, t) => Q!PollTask(d, t)
         /\ Queue!PollNothing(d) => Q!PollNothing(d)
         /\ Queue!PollFails(d) => Q!PollFails(d)
         /\ Queue!Perform(d) => Q!Perform(d)
         /\ Queue!HandlerFails(d) => Q!HandlerFails(d)
         /\ Queue!ReportDelivered(d) => Q!ReportDelivered(d)
         /\ Queue!ReportDenied(d) => Q!ReportDenied(d)
         /\ Queue!ReportRequestLost(d) => Q!ReportRequestLost(d)
         /\ Queue!ReportResponseLost(d) => Q!ReportResponseLost(d)
         /\ Queue!ReportDelayed(d) => Q!ReportDelayed(d)
         /\ Queue!Kill(d) => Q!Kill(d)
  <1>l. Live' = Live /\ UNCHANGED [e \in Devices |-> Setup!Accepts(e)]
    BY LiveKept
  <1>d. [e \in Devices |-> Setup!Accepts(e)][d] <=> [e \in Devices |-> ~Dead(e)][d]
    BY Zenon
  <1> USE <1>l DEF Live, Queue!rowVars, Q!rowVars, Queue!workerVars, Q!workerVars,
              Queue!Fault, Q!Fault, Queue!Moves, Q!Moves, Queue!Down, Q!Down,
              Queue!NoTask, Q!NoTask, Queue!AtPoll, Q!AtPoll
  <1>1. Queue!Register(d) => Q!Register(d)
    BY <1>d DEF Queue!Register, Q!Register
  <1>2. Queue!Heartbeat(d) => Q!Heartbeat(d)
    BY <1>d DEF Queue!Heartbeat, Q!Heartbeat
  <1>3. Queue!RegisterFails(d) => Q!RegisterFails(d)
    BY DEF Queue!RegisterFails, Q!RegisterFails
  <1>4. Queue!HeartbeatFails(d) => Q!HeartbeatFails(d)
    BY DEF Queue!HeartbeatFails, Q!HeartbeatFails
  <1>5. Queue!Start(d) => Q!Start(d)
    BY DEF Queue!Start, Q!Start
  <1>6. Queue!BeatDue(d) => Q!BeatDue(d)
    BY DEF Queue!BeatDue, Q!BeatDue
  <1>q. Queue!Queued = Q!Queued
    BY DEF Queue!Queued, Q!Queued, Queue!Tasks, Q!Tasks
  <1>7. Queue!PollTask(d, t) => Q!PollTask(d, t)
    BY <1>d, <1>q DEF Queue!PollTask, Q!PollTask, Queue!IsOffered, Q!IsOffered
  <1>8. Queue!PollNothing(d) => Q!PollNothing(d)
    BY <1>d, <1>q DEF Queue!PollNothing, Q!PollNothing
  <1>9. Queue!PollFails(d) => Q!PollFails(d)
    BY DEF Queue!PollFails, Q!PollFails
  <1>10. Queue!Perform(d) => Q!Perform(d)
    BY DEF Queue!Perform, Q!Perform
  <1>11. Queue!HandlerFails(d) => Q!HandlerFails(d)
    BY DEF Queue!HandlerFails, Q!HandlerFails
  <1> USE DEF Queue!Reporting, Q!Reporting, Queue!OutcomeOf, Q!OutcomeOf,
              Queue!ReportRaises, Q!ReportRaises, Queue!Accept, Q!Accept
  <1>12. Queue!ReportDelivered(d) => Q!ReportDelivered(d)
    BY <1>d DEF Queue!ReportDelivered, Q!ReportDelivered
  <1>13. Queue!ReportDenied(d) => Q!ReportDenied(d)
    BY <1>d DEF Queue!ReportDenied, Q!ReportDenied
  <1>14. Queue!ReportRequestLost(d) => Q!ReportRequestLost(d)
    BY DEF Queue!ReportRequestLost, Q!ReportRequestLost
  <1>15. Queue!ReportResponseLost(d) => Q!ReportResponseLost(d)
    BY <1>d DEF Queue!ReportResponseLost, Q!ReportResponseLost
  <1>16. Queue!ReportDelayed(d) => Q!ReportDelayed(d)
    BY <1>d DEF Queue!ReportDelayed, Q!ReportDelayed
  <1>17. Queue!Kill(d) => Q!Kill(d)
    BY DEF Queue!Kill, Q!Kill
  <1> QED BY <1>1, <1>2, <1>3, <1>4, <1>5, <1>6, <1>7, <1>8, <1>9, <1>10, <1>11, <1>12, <1>13,
             <1>14, <1>15, <1>16, <1>17

\* So do the two actions that are no worker's.
LEMMA RouteActions ==
  ASSUME UNCHANGED setupVars, NEW t, NEW o, NEW class
  PROVE  /\ Queue!Dispatch(t, class) => Q!Dispatch(t, class)
         /\ Queue!DeliverLate(t, o) => Q!DeliverLate(t, o)
  <1>l. Live' = Live /\ UNCHANGED [e \in Devices |-> Setup!Accepts(e)]
    BY LiveKept
  <1>1. Queue!Dispatch(t, class) => Q!Dispatch(t, class)
    BY <1>l DEF Live, Queue!workerVars, Q!workerVars, Queue!Dispatch, Q!Dispatch,
                Queue!CreateStatus, Q!CreateStatus
  <1>2. Queue!DeliverLate(t, o) => Q!DeliverLate(t, o)
    BY <1>l DEF Live, Queue!workerVars, Q!workerVars, Queue!DeliverLate, Q!DeliverLate,
                Queue!Accept, Q!Accept
  <1> QED BY <1>1, <1>2

-----------------------------------------------------------------------------
(* The invariant of the composition *)

\* Only a registered device has a worker that runs.
OnlyRegisteredRun ==
  /\ installed \subseteq Registered
  /\ \A d \in Devices : pc[d] # "off" => d \in installed

\* Every command was asked of a registered device.
AskedOfRegistered ==
  /\ seen \in Registered \cup {Nobody}
  /\ addressee \in [Tasks -> Devices \cup {Nobody}]
  /\ \A t \in Tasks : row[t].status # "absent" => addressee[t] \in Registered

\* Every execution is some registered device's one go, or the second go a fault gave it.
OneGoPerRegistered ==
  \A t \in Tasks : executed[t] <= Cardinality(Q!Spent(t) \cap Registered) + faults

CInv == /\ S!SInv
        /\ Q!IInv
        /\ OnlyRegisteredRun
        /\ AskedOfRegistered
        /\ ReachesAddressee
        /\ OneGoPerRegistered

-----------------------------------------------------------------------------
(* The composition implements the queue *)

\* The steps of the composition by what they touch.
Works(d) == Beat(d) \/ Launch(d) \/ Work(d)
Aside    == (\E d \in Devices : Install(d)) \/ CheckConnection \/ Refuse

LEMMA NextIs ==
  Next <=> \/ Onboarding \/ Aside \/ LateReport
           \/ \E d \in Devices : Works(d)
           \/ \E t \in Tasks : Send(t)
  BY DEF Next, Onboarding, Aside, Works

LEMMA SeparateVars ==
  /\ \A d \in Devices : Works(d) => UNCHANGED <<setupVars, installed, agentVars>>
  /\ LateReport => UNCHANGED <<setupVars, installed, agentVars>>
  /\ \A t \in Tasks : Send(t) => UNCHANGED <<setupVars, installed>>
  /\ Aside => UNCHANGED <<setupVars, queueVars, addressee>>
  /\ Onboarding => UNCHANGED <<queueVars, installed, agentVars>>
  BY DEF Works, Beat, Launch, Work, LateReport, Send, Aside, Install, CheckConnection, Refuse,
         Onboarding, Dashboard, Registration, Presence, WriteBeat, agentVars

\* A device whose worker does anything is registered, so accepted unless Dead.
LEMMA WorkersAreRegistered ==
  ASSUME OnlyRegisteredRun, NEW d \in Devices, Works(d)
  PROVE  d \in installed /\ (Setup!Accepts(d) <=> ~Dead(d))
  <1>1. d \in installed
    BY DEF Works, Launch, Beat, Work, OnlyRegisteredRun, Queue!Register, Queue!Heartbeat,
           Queue!RegisterFails, Queue!HeartbeatFails, Queue!BeatDue, Queue!PollTask,
           Queue!PollNothing, Queue!PollFails, Queue!AtPoll, Queue!Perform, Queue!HandlerFails,
           Queue!ReportDelivered, Queue!ReportDenied, Queue!ReportRequestLost,
           Queue!ReportResponseLost, Queue!ReportDelayed, Queue!Reporting, Queue!Kill, Queue!Down
  <1> QED BY <1>1 DEF OnlyRegisteredRun, Dead

\* A worker's step of the composition is the same worker's step of the queue.
LEMMA WorksActs ==
  ASSUME OnlyRegisteredRun, NEW d \in Devices, Works(d)
  PROVE  Q!Acts(d)
  <1>1. Setup!Accepts(d) <=> ~Dead(d)
    BY WorkersAreRegistered
  <1>2. UNCHANGED setupVars
    BY SeparateVars
  <1>3. Beat(d) => Q!Acts(d)
    BY <1>1, <1>2, QueueActions DEF Beat, Q!Acts, Q!Progress, Q!Faulty
  <1>4. Launch(d) => Q!Acts(d)
    BY <1>1, <1>2, QueueActions DEF Launch, Q!Acts
  <1>5. Work(d) => Q!Acts(d)
    BY <1>1, <1>2, QueueActions DEF Work, Q!Acts, Q!Progress, Q!Faulty, Tasks, Q!Tasks
  <1> QED BY <1>3, <1>4, <1>5 DEF Works

\* A step of onboarding revokes one credential of the queue, or none.
LEMMA OnboardingRevokes ==
  ASSUME S!SInv, Onboarding
  PROVE  Live' = Live \/ \E d \in Devices : Q!Revoke(d)
  <1>1. S!Next /\ UNCHANGED queueVars
    BY OnboardingSteps
  <1>2. CASE \A d \in Devices : Dead(d)' <=> Dead(d)
    BY <1>2 DEF Live
  <1>3. ASSUME NEW d \in Devices, ~Dead(d), Dead(d)',
               \A e \in Devices \ {d} : Dead(e)' <=> Dead(e)
        PROVE  Q!Revoke(d)
    <2>1. [e \in Devices |-> ~Dead(e)]' = [[e \in Devices |-> ~Dead(e)] EXCEPT ![d] = FALSE]
      BY <1>3
    <2>2. [e \in Devices |-> ~Dead(e)][d]
      BY <1>3
    <2> QED BY <2>1, <2>2, <1>1 DEF Q!Revoke, Q!rowVars, Q!workerVars, queueVars
  <1> QED BY <1>1, <1>2, <1>3, DeathIsSingle

LEMMA QueueSteps ==
  ASSUME S!SInv, OnlyRegisteredRun, [Next]_vars
  PROVE  [Q!Next]_(Q!vars)
  <1>0. ASSUME Live' = Live, UNCHANGED queueVars
        PROVE  UNCHANGED Q!vars
    BY <1>0 DEF queueVars, Live, Q!vars, Q!workerVars
  <1>1. CASE Onboarding
    <2>1. UNCHANGED queueVars
      BY <1>1, OnboardingSteps
    <2>2. CASE Live' = Live
      BY <2>1, <2>2, <1>0
    <2>3. CASE \E d \in Devices : Q!Revoke(d)
      BY <2>3 DEF Q!Next, Q!Api
    <2> QED BY <1>1, <2>2, <2>3, OnboardingRevokes
  <1>2. ASSUME NEW d \in Devices, Works(d)
        PROVE  Q!Next
    BY <1>2, WorksActs DEF Q!Next, Q!Acts
  <1>3. CASE Aside \/ UNCHANGED vars
    <2>1. UNCHANGED <<setupVars, queueVars>>
      BY <1>3, SeparateVars DEF vars
    <2> QED BY <2>1, LiveKept, <1>0
  <1>4. CASE LateReport
    <2>1. PICK t \in Tasks, o \in Queue!Outcomes : Queue!DeliverLate(t, o)
      BY <1>4 DEF LateReport
    <2>2. Q!DeliverLate(t, o)
      BY <1>4, <2>1, SeparateVars, RouteActions
    <2> QED BY <2>2 DEF Q!Next, Q!Api, Tasks, Q!Tasks, Queue!Outcomes, Q!Outcomes
  <1>5. ASSUME NEW t \in Tasks, Send(t)
        PROVE  Q!Next
    <2>1. PICK class \in {"allowed", "requires_approval"} : Queue!Dispatch(t, class)
      BY <1>5 DEF Send
    <2>2. Q!Dispatch(t, class)
      BY <1>5, <2>1, SeparateVars, RouteActions
    <2> QED BY <2>2 DEF Q!Next, Q!Api, Tasks, Q!Tasks
  <1> QED BY <1>1, <1>2, <1>3, <1>4, <1>5, NextIs

-----------------------------------------------------------------------------
(* The invariant is inductive *)

LEMMA InitQueue == Init => Q!Init
  <1> SUFFICES ASSUME Init PROVE Q!Init
    OBVIOUS
  <1>1. \A d \in Devices : ~Dead(d)
    BY RegisteredIs DEF Init, Setup!Init, Dead
  <1>2. [d \in Devices |-> ~Dead(d)] = [d \in Devices |-> TRUE]
    BY <1>1
  <1> QED BY <1>2 DEF Init, Q!Init, Tasks, Q!Tasks, Queue!Outcomes, Q!Outcomes, Nobody, Q!NoTask

LEMMA InitCInv == Init => CInv
  <1> SUFFICES ASSUME Init PROVE CInv
    OBVIOUS
  <1>1. S!SInv
    BY SetupAssumed, SetupInit, S!InitSInv
  <1>2. Registered = {}
    BY RegisteredIs DEF Init, Setup!Init
  <1>3. Q!Init
    BY InitQueue
  <1>4. Q!IInv
    BY <1>3, QueueAssumed, Q!InitIInv
  <1>5. OnlyRegisteredRun /\ AskedOfRegistered /\ ReachesAddressee
    BY <1>2 DEF Init, OnlyRegisteredRun, AskedOfRegistered, ReachesAddressee
  <1>6. OneGoPerRegistered
    <2> SUFFICES ASSUME NEW t \in Tasks
                 PROVE  executed[t] <= Cardinality(Q!Spent(t) \cap Registered) + faults
      BY DEF OneGoPerRegistered
    <2>1. executed[t] = 0 /\ faults = 0 /\ Q!Spent(t) \cap Registered = {}
      BY <1>2 DEF Init
    <2> QED BY <2>1, FS_EmptySet
  <1> QED BY <1>1, <1>4, <1>5, <1>6 DEF CInv

\* Registrations and refusals are for good.
LEMMA ForGood ==
  ASSUME S!SInv, [Next]_vars
  PROVE  /\ Registered \subseteq Registered'
         /\ \A d \in Devices : Dead(d) => Dead(d)'
  <1>1. CASE Onboarding
    BY <1>1, OnboardingSteps, OnboardingFacts, DeathIsSingle
  <1>2. CASE UNCHANGED setupVars
    BY <1>2 DEF setupVars, Dead, Registered, Setup!Accepts
  <1> QED BY <1>1, <1>2, NextIs, SeparateVars DEF vars

LEMMA NextOnlyRegisteredRun ==
  ASSUME CInv, [Next]_vars
  PROVE  OnlyRegisteredRun'
  <1>1. Registered \subseteq Registered' /\ OnlyRegisteredRun /\ Q!IInv
    BY ForGood DEF CInv
  <1>2. ASSUME NEW d \in Devices, Works(d)
        PROVE  OnlyRegisteredRun'
    <2>1. installed' = installed /\ d \in installed
      BY <1>1, <1>2, SeparateVars, WorkersAreRegistered
    <2>2. \A e \in Devices \ {d} : pc'[e] = pc[e]
      BY <1>1, <1>2, WorksActs, QueueAssumed, Q!ActFacts
    <2> QED BY <1>1, <2>1, <2>2 DEF OnlyRegisteredRun
  <1>3. CASE \/ Onboarding \/ Aside \/ LateReport \/ (\E t \in Tasks : Send(t)) \/ UNCHANGED vars
    <2>1. pc' = pc
      BY <1>3, SeparateVars
      DEF queueVars, vars, LateReport, Queue!DeliverLate, Queue!workerVars, Send, Queue!Dispatch
    <2>2. installed' \subseteq installed \cup Registered /\ installed \subseteq installed'
      BY <1>3, SeparateVars DEF Aside, Install, CheckConnection, Refuse, vars
    <2> QED BY <1>1, <2>1, <2>2 DEF OnlyRegisteredRun
  <1> QED BY <1>2, <1>3, NextIs

LEMMA NextAskedOfRegistered ==
  ASSUME CInv, [Next]_vars
  PROVE  AskedOfRegistered'
  <1>1. Registered \subseteq Registered' /\ AskedOfRegistered /\ Q!IInv /\ S!SInv
    BY ForGood DEF CInv
  <1>2. CASE \/ \E d \in Devices : Works(d)
             \/ LateReport
    <2>1. UNCHANGED <<seen, addressee>>
      BY <1>2, SeparateVars DEF agentVars
    <2>2. \/ \E d \in Devices : Q!Acts(d)
          \/ \E t \in Q!Tasks, o \in Q!Outcomes : Q!DeliverLate(t, o)
      BY <1>2, WorksActs, SeparateVars, RouteActions
      DEF CInv, LateReport, Tasks, Q!Tasks, Queue!Outcomes, Q!Outcomes
    <2>3. \A t \in Tasks : row[t].status = "absent" => row'[t].status = "absent"
      BY <1>1, <2>2, QueueAssumed, Q!OnlyDispatchCreates DEF Q!Status, Tasks, Q!Tasks
    <2> QED BY <1>1, <2>1, <2>3 DEF AskedOfRegistered
  <1>3. ASSUME NEW t \in Tasks, Send(t)
        PROVE  AskedOfRegistered'
    <2>1. /\ seen \in Registered /\ seen' = Nobody
          /\ addressee' = [addressee EXCEPT ![t] = seen]
          /\ Registered \subseteq Devices
      BY <1>1, <1>3, RegisteredIs
      DEF Send, AskedOfRegistered, S!SInv, S!TypeOK, S!Devices, Devices
    <2>2. \A u \in Tasks \ {t} : row'[u] = row[u]
      BY <1>1, <1>3 DEF Send, Queue!Dispatch, Q!IInv, Q!TypeOK, Tasks, Q!Tasks
    <2> QED BY <1>1, <2>1, <2>2 DEF AskedOfRegistered
  <1>4. CASE Onboarding \/ Aside \/ UNCHANGED vars
    <2>1. UNCHANGED <<row, addressee>>
      BY <1>4, SeparateVars DEF queueVars, agentVars, vars
    <2>2. seen' \in Registered \cup {Nobody}
      BY <1>1, <1>4, SeparateVars, RowFacts
      DEF AskedOfRegistered, agentVars, Aside, Install, CheckConnection, Refuse, vars
    <2> QED BY <1>1, <2>1, <2>2 DEF AskedOfRegistered
  <1> QED BY <1>2, <1>3, <1>4, NextIs

\* A device takes from the queue only while it is the one the row names and accepts.
LEMMA TakersAreAccepted ==
  ASSUME S!SInv, OnlyRegisteredRun, NEW d \in Devices, Works(d), NEW t, Q!PollTask(d, t)
  PROVE  AcceptedOnly(d) /\ t \in Q!Queued /\ cur' = [cur EXCEPT ![d] = t]
  <1>1. [e \in Devices |-> ~Dead(e)][d]
    BY DEF Q!PollTask
  <1>2. ~Dead(d)
    BY <1>1
  <1> QED BY <1>2, WorkersAreRegistered, AcceptsIs DEF Q!PollTask, Q!IsOffered

\* What holds of a device after the step holds of the addressee that is this device then.
LEMMA AddresseeDead ==
  ASSUME NEW a, NEW d, a = addressee'[cur'[d]], Dead(a)'
  PROVE  Dead(addressee[cur[d]])'
  BY DEF Dead, Setup!Accepts, Registered

LEMMA NextReachesAddressee ==
  ASSUME CInv, [Next]_vars
  PROVE  ReachesAddressee'
  <1>1. ReachesAddressee /\ AskedOfRegistered /\ OnlyRegisteredRun /\ S!SInv /\ Q!IInv
    BY DEF CInv
  <1>2. \A d \in Devices : Dead(d) => Dead(d)'
    BY <1>1, ForGood
  <1>3. \A d \in Devices : cur[d] # Nobody => cur[d] \in Tasks /\ addressee[cur[d]] \in Registered
    BY <1>1 DEF Q!IInv, Q!TypeOK, Q!OnlyQueuedIsTaken, Q!Reportable, Q!Status, Q!NoTask, Nobody,
                Tasks, Q!Tasks, AskedOfRegistered
  <1>4. Registered \subseteq Devices
    BY <1>1, RegisteredIs DEF S!SInv, S!TypeOK, S!Devices, Devices
  <1> SUFFICES ASSUME NEW d \in Devices, cur'[d] # Nobody,
                      cur'[d] \in Tasks => addressee'[cur'[d]] # d
               PROVE  Dead(addressee[cur[d]])'
    BY DEF ReachesAddressee
  \* A command that was held before, and still is.
  <1>5. ASSUME cur'[d] = cur[d], addressee'[cur[d]] = addressee[cur[d]]
        PROVE  Dead(addressee[cur[d]])'
    <2>1. PICK a \in Registered : a = addressee[cur[d]]
      BY <1>3, <1>5
    <2>2. Dead(a)
      BY <1>1, <1>3, <1>5, <2>1 DEF ReachesAddressee
    <2>3. Dead(a)'
      BY <1>2, <1>4, <2>2
    <2>4. a = addressee'[cur'[d]]
      BY <1>5, <2>1
    <2> QED BY <2>3, <2>4, AddresseeDead
  <1>6. ASSUME NEW e \in Devices, Works(e)
        PROVE  Dead(addressee[cur[d]])'
    <2>1. addressee' = addressee /\ UNCHANGED setupVars
      BY <1>6, SeparateVars DEF agentVars
    <2>2. \A f \in Devices \ {e} : cur'[f] = cur[f]
      BY <1>1, <1>6, WorksActs, QueueAssumed, Q!ActFacts
    <2>3. CASE cur'[d] = cur[d]
      BY <2>1, <2>3, <1>5
    <2>4. CASE cur'[d] # cur[d]
      <3>1. d = e /\ \E t \in Tasks : Q!PollTask(e, t)
        BY <1>1, <1>6, <2>2, <2>4, WorksActs, QueueAssumed, Q!OnlyPollTakes
        DEF Q!NoTask, Nobody, Tasks, Q!Tasks
      <3>2. PICK t \in Tasks : Q!PollTask(d, t)
        BY <3>1
      <3>3. AcceptedOnly(d) /\ t \in Q!Queued /\ cur'[d] = t
        BY <1>1, <1>6, <3>1, <3>2, TakersAreAccepted DEF Q!IInv, Q!TypeOK
      <3>4. PICK a \in Registered : a = addressee[t]
        BY <1>1, <3>3 DEF AskedOfRegistered, Q!Queued
      <3>5. a # d
        BY <3>3, <3>4, <2>1
      <3>6. Dead(a)
        BY <3>3, <3>5, AcceptsIs DEF AcceptedOnly
      <3>7. Dead(a)'
        BY <3>6, <1>2, <1>4
      <3>8. a = addressee'[cur'[d]]
        BY <3>3, <3>4, <2>1
      <3> QED BY <3>7, <3>8, AddresseeDead
    <2> QED BY <2>3, <2>4
  <1>7. ASSUME NEW t \in Tasks, Send(t)
        PROVE  Dead(addressee[cur[d]])'
    <2>1. /\ cur' = cur /\ row[t].status = "absent"
          /\ addressee' = [addressee EXCEPT ![t] = seen]
      BY <1>7 DEF Send, Queue!Dispatch, Queue!workerVars
    <2>2. cur[d] # t
      BY <1>1, <2>1 DEF Q!IInv, Q!OnlyQueuedIsTaken, Q!Reportable, Q!Status, Tasks, Q!Tasks
    <2>3. addressee'[cur[d]] = addressee[cur[d]]
      BY <1>1, <1>3, <2>1, <2>2 DEF AskedOfRegistered
    <2> QED BY <2>1, <2>3, <1>5
  <1>8. CASE Onboarding \/ Aside \/ LateReport \/ UNCHANGED vars
    <2>1. UNCHANGED <<cur, addressee>>
      BY <1>8, SeparateVars
      DEF queueVars, agentVars, vars, LateReport, Queue!DeliverLate, Queue!workerVars
    <2> QED BY <2>1, <1>5
  <1> QED BY <1>6, <1>7, <1>8, NextIs

LEMMA CountsKept ==
  ASSUME NEW A, NEW B, IsFiniteSet(A), IsFiniteSet(B)
  PROVE  /\ Cardinality(A) \in Nat /\ Cardinality(B) \in Nat
         /\ A \subseteq B => Cardinality(A) <= Cardinality(B)
         /\ \A x \in B : x \notin A /\ A \subseteq B => Cardinality(A) + 1 <= Cardinality(B)
         /\ \A x : A \ {x} \subseteq B => Cardinality(A) <= Cardinality(B) + 1
  <1>1. Cardinality(A) \in Nat /\ Cardinality(B) \in Nat
    BY FS_CardinalityType
  <1>2. A \subseteq B => Cardinality(A) <= Cardinality(B)
    BY FS_Subset
  <1>3. ASSUME NEW x \in B, x \notin A, A \subseteq B
        PROVE  Cardinality(A) + 1 <= Cardinality(B)
    <2>1. A \subseteq B \ {x} /\ IsFiniteSet(B \ {x}) /\ Cardinality(B \ {x}) = Cardinality(B) - 1
      BY <1>3, FS_RemoveElement
    <2>2. Cardinality(A) <= Cardinality(B \ {x})
      BY <2>1, FS_Subset
    <2> QED BY <1>1, <2>1, <2>2
  <1>4. ASSUME NEW x, A \ {x} \subseteq B
        PROVE  Cardinality(A) <= Cardinality(B) + 1
    <2>1. CASE x \in A
      <3>1. IsFiniteSet(A \ {x}) /\ Cardinality(A \ {x}) = Cardinality(A) - 1
        BY <2>1, FS_RemoveElement
      <3>2. Cardinality(A \ {x}) <= Cardinality(B)
        BY <1>4, FS_Subset
      <3> QED BY <1>1, <3>1, <3>2
    <2>2. CASE x \notin A
      BY <1>1, <1>2, <1>4, <2>2
    <2> QED BY <2>1, <2>2
  <1> QED BY <1>1, <1>2, <1>3, <1>4

LEMMA NextOneGoPerRegistered ==
  ASSUME CInv, [Next]_vars
  PROVE  OneGoPerRegistered'
  <1>1. OneGoPerRegistered /\ OnlyRegisteredRun /\ S!SInv /\ Q!IInv
    BY DEF CInv
  <1>2. [Q!Next]_(Q!vars) /\ Registered \subseteq Registered'
    BY <1>1, QueueSteps, ForGood
  <1>3. \A d \in Devices : pc[d] = "executing" => d \in Registered
    BY <1>1 DEF OnlyRegisteredRun
  <1> SUFFICES ASSUME NEW t \in Tasks
               PROVE  executed'[t] <= Cardinality(Q!Spent(t)' \cap Registered') + faults'
    BY DEF OneGoPerRegistered
  <1>4. PICK A : A = Q!Spent(t) \cap Registered
    OBVIOUS
  <1>5. PICK B : B = Q!Spent(t)' \cap Registered'
    OBVIOUS
  <1>6. A \subseteq Devices /\ B \subseteq Devices
    BY <1>4, <1>5 DEF Q!Spent
  <1>7. IsFiniteSet(A) /\ IsFiniteSet(B)
    BY <1>6, DeviceFacts, FS_Subset
  <1>8. /\ executed[t] \in Nat /\ faults \in Nat
        /\ executed[t] <= Cardinality(A) + faults
    BY <1>1, <1>4, ConnectorAssumption DEF OneGoPerRegistered, Q!IInv, Q!TypeOK, Tasks, Q!Tasks
  <1>9. /\ Cardinality(A) \in Nat /\ Cardinality(B) \in Nat
        /\ A \subseteq B => Cardinality(A) <= Cardinality(B)
        /\ \A w \in B : w \notin A /\ A \subseteq B => Cardinality(A) + 1 <= Cardinality(B)
        /\ \A w : A \ {w} \subseteq B => Cardinality(A) <= Cardinality(B) + 1
    BY <1>7, CountsKept
  <1>10. executed'[t] <= Cardinality(B) + faults'
    <2>1. CASE Q!Spent(t) \subseteq Q!Spent(t)' /\ executed'[t] = executed[t] /\ faults' = faults
      <3>1. A \subseteq B
        BY <1>2, <1>4, <1>5, <2>1
      <3> QED BY <2>1, <3>1, <1>8, <1>9
    <2>2. ASSUME NEW w \in Devices, Q!Spent(t) \ {w} \subseteq Q!Spent(t)',
                 executed'[t] = executed[t], faults' = faults + 1
          PROVE  executed'[t] <= Cardinality(B) + faults'
      <3>1. A \ {w} \subseteq B
        BY <1>2, <1>4, <1>5, <2>2
      <3> QED BY <2>2, <3>1, <1>8, <1>9
    <2>3. ASSUME NEW w \in Devices, pc[w] = "executing",
                 Q!Spent(t) \subseteq Q!Spent(t)', w \in Q!Spent(t)', w \notin Q!Spent(t),
                 executed'[t] = executed[t] + 1, faults' = faults
          PROVE  executed'[t] <= Cardinality(B) + faults'
      <3>1. A \subseteq B /\ w \in B /\ w \notin A
        BY <1>2, <1>3, <1>4, <1>5, <2>3
      <3> QED BY <2>3, <3>1, <1>8, <1>9
    <2> QED BY <2>1, <2>2, <2>3, <1>1, <1>2, QueueAssumed, Q!SpentSteps DEF Tasks, Q!Tasks
  <1> QED BY <1>5, <1>10

LEMMA SpecCInv == Spec => []CInv
  <1>1. Init => CInv
    BY InitCInv
  <1>2. CInv /\ [Next]_vars => CInv'
    <2> SUFFICES ASSUME CInv, [Next]_vars PROVE CInv'
      OBVIOUS
    <2>1. S!SInv'
      BY SetupAssumed, SetupSteps, S!NextSInv DEF CInv
    <2>2. Q!IInv'
      BY QueueAssumed, QueueSteps, Q!NextIInv DEF CInv
    <2> QED BY <2>1, <2>2, NextOnlyRegisteredRun, NextAskedOfRegistered, NextReachesAddressee,
               NextOneGoPerRegistered DEF CInv
  <1> QED BY <1>1, <1>2, PTL DEF Spec

-----------------------------------------------------------------------------
(* Theorems about the whole *)

\* A command asked of one device is taken by another only once the first is cut off, for
\* good: no interleaving of registrations, disables, polls and dispatches misroutes it.
THEOREM CommandsReachAddressee == Spec => []ReachesAddressee
  <1>1. CInv => ReachesAddressee
    BY DEF CInv
  <1> QED BY <1>1, SpecCInv, PTL

\* Beyond its one execution a command takes effect once more at most for every fault and
\* for every device that was cut off, though nothing claims the rows the poll returns and
\* any number of devices may be registered.
THEOREM RepeatsHaveCauses == Spec => []RepeatsAreExplained
  <1>1. CInv => RepeatsAreExplained
    <2> SUFFICES ASSUME CInv, NEW t \in Tasks
                 PROVE  executed[t] <= 1 + faults + Cardinality({d \in Devices : Dead(d)})
      BY DEF RepeatsAreExplained
    <2> DEFINE A == Q!Spent(t) \cap Registered
               B == {d \in Devices : Dead(d)}
    <2>1. A \subseteq Devices /\ B \subseteq Devices
      BY DEF Q!Spent
    <2>2. IsFiniteSet(A) /\ IsFiniteSet(B)
      BY <2>1, DeviceFacts, FS_Subset
    \* At most the device the row names is registered and not cut off.
    <2>3. A \ {worker.device} \subseteq B
      BY <2>1, AcceptsIs DEF AcceptedOnly
    <2>4. /\ executed[t] \in Nat /\ faults \in Nat
          /\ executed[t] <= Cardinality(A) + faults
      BY ConnectorAssumption
      DEF CInv, OneGoPerRegistered, Q!IInv, Q!TypeOK, Tasks, Q!Tasks
    <2> HIDE DEF A, B
    <2>5. /\ Cardinality(A) \in Nat /\ Cardinality(B) \in Nat
          /\ Cardinality(A) <= Cardinality(B) + 1
      BY <2>2, <2>3, CountsKept
    <2>6. executed[t] <= 1 + faults + Cardinality(B)
      BY <2>4, <2>5
    <2> QED BY <2>6 DEF B
  <1> QED BY <1>1, SpecCInv, PTL

LEMMA SpecQueue == Spec => Q!Spec
  <1>1. Init => Q!Init
    BY InitQueue
  <1>2. CInv /\ [Next]_vars => [Q!Next]_(Q!vars)
    BY QueueSteps DEF CInv
  <1> QED BY <1>1, <1>2, SpecCInv, PTL DEF Spec, Q!Spec

\* Contracted is the queue the theorems of Q speak of.
LEMMA ContractedSteps == Q!Next => Contracted!Next
  <1> USE DEF Contracted!CreateStatus, Q!CreateStatus, Contracted!Accept, Q!Accept,
              Contracted!Queued, Q!Queued, Contracted!IsOffered, Q!IsOffered, Contracted!Moves,
              Q!Moves, Contracted!Fault, Q!Fault, Contracted!AtPoll, Q!AtPoll,
              Contracted!Reporting, Q!Reporting, Contracted!OutcomeOf, Q!OutcomeOf,
              Contracted!ReportRaises, Q!ReportRaises, Contracted!Down, Q!Down, Contracted!NoTask,
              Q!NoTask, Contracted!Outcomes, Q!Outcomes, Contracted!Tasks, Q!Tasks,
              Contracted!rowVars, Q!rowVars, Contracted!workerVars, Q!workerVars
  <1>1. Q!Api => Contracted!Api
    BY DEF Contracted!Api, Q!Api, Contracted!Dispatch, Q!Dispatch, Contracted!DeliverLate,
           Q!DeliverLate, Contracted!Revoke, Q!Revoke
  <1>2. ASSUME NEW d \in Devices
        PROVE  Q!Progress(d) => Contracted!Progress(d)
    BY DEF Contracted!Progress, Q!Progress, Contracted!Register, Q!Register, Contracted!Heartbeat,
           Q!Heartbeat, Contracted!PollTask, Q!PollTask, Contracted!PollNothing, Q!PollNothing,
           Contracted!Perform, Q!Perform, Contracted!HandlerFails, Q!HandlerFails,
           Contracted!ReportDelivered, Q!ReportDelivered, Contracted!ReportDenied, Q!ReportDenied,
           Contracted!ExitLoop, Q!ExitLoop
  <1>3. ASSUME NEW d \in Devices
        PROVE  Q!Faulty(d) => Contracted!Faulty(d)
    BY DEF Contracted!Faulty, Q!Faulty, Contracted!RegisterFails, Q!RegisterFails,
           Contracted!HeartbeatFails, Q!HeartbeatFails, Contracted!PollFails, Q!PollFails,
           Contracted!ReportRequestLost, Q!ReportRequestLost, Contracted!ReportResponseLost,
           Q!ReportResponseLost, Contracted!ReportDelayed, Q!ReportDelayed, Contracted!Kill, Q!Kill
  <1>4. ASSUME NEW d \in Devices
        PROVE  /\ Q!BeatDue(d) => Contracted!BeatDue(d)
               /\ Q!Start(d) => Contracted!Start(d)
               /\ Q!StopRequest(d) => Contracted!StopRequest(d)
    BY DEF Contracted!BeatDue, Q!BeatDue, Contracted!Start, Q!Start, Contracted!StopRequest,
           Q!StopRequest
  <1> QED BY <1>1, <1>2, <1>3, <1>4 DEF Q!Next, Contracted!Next

\* Onboarding keeps what the queue assumes of its credentials: every behaviour of the whole
\* is a behaviour of the queue.
THEOREM ConnectorImplementsQueue == Spec => ImplementsQueue
  <1>1. Q!Init => Contracted!Init
    BY DEF Q!Init, Contracted!Init, Q!Tasks, Contracted!Tasks, Q!Outcomes, Contracted!Outcomes,
           Q!NoTask, Contracted!NoTask
  <1>2. [Q!Next]_(Q!vars) => [Contracted!Next]_(Contracted!vars)
    BY ContractedSteps DEF Q!vars, Contracted!vars, Q!workerVars, Contracted!workerVars
  <1> QED BY <1>1, <1>2, SpecQueue, PTL DEF Q!Spec, Contracted!Spec, ImplementsQueue

\* So what the queue promises holds of the whole, whatever onboarding and the System Agent
\* do meanwhile: nothing is shown completed that was not done, a parked command stays inert,
\* and an issued command is never taken back.
THEOREM WholeKeepsContract ==
  /\ Spec => []Q!CompletedWasExecuted
  /\ Spec => []Q!ApprovalRequiredIsInert
  /\ Spec => Q!KeepsContract
  <1>1. Q!Spec => []Q!CompletedWasExecuted
    BY QueueAssumed, Q!CompletionIsTrue
  <1>2. Q!Spec => []Q!ApprovalRequiredIsInert
    BY QueueAssumed, Q!ParkedStaysInert
  <1>3. Q!Spec => Q!KeepsContract
    BY QueueAssumed, Q!QueueKeepsContract
  <1> QED BY <1>1, <1>2, <1>3, SpecQueue, PTL

\* A device the owner disabled takes no further command, even if its worker process runs on
\* and a heartbeat of it is still to be written.
DisabledTakesNothing == [][\A d \in disabled : cur[d] = Nobody => cur'[d] = Nobody]_vars

\* disable_device is durable end to end: from its commit on the queue hands that device
\* nothing, for any interleaving with registrations, heartbeats and polls.
THEOREM DisabledIsCutOff == Spec => DisabledTakesNothing
  <1>1. CInv /\ [Next]_vars => [\A d \in disabled : cur[d] = Nobody => cur'[d] = Nobody]_vars
    <2> SUFFICES ASSUME CInv, Next, NEW d \in disabled, cur[d] = Nobody
                 PROVE  cur'[d] = Nobody
      OBVIOUS
    <2>1. S!SInv /\ Q!IInv /\ OnlyRegisteredRun
      BY DEF CInv
    <2>2. d \in Devices /\ ~AcceptedOnly(d)
      BY <2>1 DEF S!SInv, S!TypeOK, S!Devices, Devices, S!RevokedStays, AcceptedOnly
    <2>3. CASE cur' = cur
      BY <2>3
    <2>4. ASSUME NEW e \in Devices, Works(e)
          PROVE  cur'[d] = Nobody
      <3> SUFFICES ASSUME cur'[d] # Nobody PROVE FALSE
        OBVIOUS
      <3>1. d = e
        BY <2>1, <2>2, <2>4, WorksActs, QueueAssumed, Q!ActFacts
      <3>2. \E t \in Tasks : Q!PollTask(d, t)
        BY <2>1, <2>4, <3>1, WorksActs, QueueAssumed, Q!OnlyPollTakes
        DEF Q!NoTask, Nobody, Tasks, Q!Tasks
      <3>3. AcceptedOnly(d)
        BY <2>1, <2>4, <3>1, <3>2, TakersAreAccepted
      <3> QED BY <2>2, <3>3
    <2>5. Onboarding \/ Aside \/ LateReport \/ (\E t \in Tasks : Send(t)) => cur' = cur
      BY SeparateVars DEF queueVars, LateReport, Queue!DeliverLate, Queue!workerVars, Send,
                          Queue!Dispatch
    <2> QED BY <2>3, <2>4, <2>5, NextIs
  <1> QED BY <1>1, SpecCInv, PTL DEF Spec, DisabledTakesNothing
=============================================================================
