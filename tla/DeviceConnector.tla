--------------------------- MODULE DeviceConnector ---------------------------
(***************************************************************************)
(* One workspace's devices end to end: the System Agent checks that a      *)
(* device is connected and queues a command, the queue hands it to the     *)
(* worker whose device token the API accepts, and onboarding decides whose *)
(* token that is.  This composes DeviceSetup and WorkerQueue: a worker     *)
(* process stands for one installed device token, and its credential is    *)
(* live exactly while get_worker_auth_context accepts the token.           *)
(*                                                                         *)
(* A heartbeat is authenticated in one transaction and written by a later  *)
(* one.  The worker's next steps read nothing the write changes, so the    *)
(* worker moves on with the first and the write follows when it may.       *)
(* Dev-mode workers, which paste a user's JWT, and stop(), which only ends *)
(* a worker the way a refused heartbeat does, are left out here.           *)
(***************************************************************************)
EXTENDS Naturals, FiniteSets

CONSTANTS Procs,       \* API processes
          SetupTokens, \* bound: setup tokens ever minted
          MaxDevices,  \* bound: registrations ever begun with a valid token
          NumTasks,    \* bound: commands ever dispatched
          MaxFaults    \* bound: network faults and kills in a behaviour

ASSUME ConnectorAssumption == /\ MaxDevices \in Nat
                              /\ NumTasks \in Nat
                              /\ MaxFaults \in Nat
                              /\ IsFiniteSet(Procs)

VARIABLES
  setup, expired, exists, worker, fresh, txn, minted, redeemed, disabled, \* DeviceSetup
  row, lastReport, executed, late, pc, cur, beatDue, stop, faults,        \* WorkerQueue
  installed,  \* devices whose registration answer reached the installer, with their config file
  beats,      \* devices with an authenticated heartbeat that is still to be written
  seen,       \* the device the System Agent saw connected for the command it is dispatching
  addressee   \* history: the device that was connected when each command was asked for

Setup == INSTANCE DeviceSetup

Tasks   == 1 .. NumTasks
Devices == 1 .. MaxDevices
Nobody  == 0

Queue == INSTANCE WorkerQueue
           WITH Workers <- Devices, live <- [d \in Devices |-> Setup!Accepts(d)]

setupVars == <<setup, expired, exists, worker, fresh, txn, minted, redeemed, disabled>>
queueVars == <<row, lastReport, executed, late, pc, cur, beatDue, stop, faults>>
agentVars == <<seen, addressee>>
vars      == <<setupVars, queueVars, installed, beats, agentVars>>

Registered == UNION {redeemed[k] : k \in SetupTokens}

Init ==
  /\ Setup!Init
  /\ row = [t \in Tasks |-> [status |-> "absent", filled |-> {}]]
  /\ lastReport = [task |-> Nobody, result |-> "failed"]
  /\ executed = [t \in Tasks |-> 0]
  /\ late = [t \in Tasks |-> [o \in Queue!Outcomes |-> 0]]
  /\ pc = [d \in Devices |-> "off"]
  /\ cur = [d \in Devices |-> Nobody]
  /\ beatDue = [d \in Devices |-> TRUE]
  /\ stop = [d \in Devices |-> FALSE]
  /\ faults = 0
  /\ installed = {} /\ beats = {}
  /\ seen = Nobody
  /\ addressee = [t \in Tasks |-> Nobody]

-----------------------------------------------------------------------------
(* The dashboard, the installer and the device routes *)

Dashboard ==
  /\ \/ \E k \in SetupTokens : Setup!CreateSetupToken(k) \/ Setup!Expire(k)
     \/ \E p \in Procs : Setup!BeginDisable(p) \/ Setup!CommitDisable(p)
  /\ UNCHANGED <<queueVars, installed, beats, agentVars>>

Registration ==
  /\ \E p \in Procs :
       \/ \E k \in SetupTokens : Setup!BeginRegister(p, k)
       \/ Setup!CommitRegister(p)
  /\ UNCHANGED <<queueVars, installed, beats, agentVars>>

\* install_windows_worker.ps1 has the answer and writes the config file the worker reads.
\* A registration whose answer is lost never gets here, though its token is consumed.
Install(d) ==
  /\ d \in Registered \ installed
  /\ installed' = installed \cup {d}
  /\ UNCHANGED <<setupVars, queueVars, beats, agentVars>>

\* worker_heartbeat's own transaction, for a heartbeat authenticated before.
WriteBeat(p, d) ==
  /\ d \in beats
  /\ Setup!BeginHeartbeat(p)
  /\ beats' = beats \ {d}
  /\ UNCHANGED <<queueVars, installed, agentVars>>

Presence ==
  /\ \/ \E p \in Procs : Setup!CommitHeartbeat(p) \/ Setup!Rollback(p)
     \/ Setup!GoStale
  /\ UNCHANGED <<queueVars, installed, beats, agentVars>>

-----------------------------------------------------------------------------
(* The worker processes *)

\* A heartbeat the worker heard back of, or gave up on after the API had it.
Beat(d) ==
  /\ UNCHANGED <<setupVars, installed, agentVars>>
  /\ \/ /\ Queue!Register(d) \/ Queue!Heartbeat(d)
        /\ beats' = IF Setup!Accepts(d) THEN beats \cup {d} ELSE beats
     \/ /\ Queue!RegisterFails(d) \/ Queue!HeartbeatFails(d)
        /\ beats' \in {beats, IF Setup!Accepts(d) THEN beats \cup {d} ELSE beats}

\* The worker starts from its config file and is given its device token there.
Launch(d) ==
  /\ UNCHANGED <<setupVars, installed, beats, agentVars>>
  /\ d \in installed
  /\ Queue!Start(d)

Work(d) ==
  /\ UNCHANGED <<setupVars, installed, beats, agentVars>>
  /\ \/ Queue!BeatDue(d)
     \/ (\E t \in Tasks : Queue!PollTask(d, t)) \/ Queue!PollNothing(d) \/ Queue!PollFails(d)
     \/ Queue!Perform(d) \/ Queue!HandlerFails(d)
     \/ Queue!ReportDelivered(d) \/ Queue!ReportDenied(d)
     \/ Queue!ReportRequestLost(d) \/ Queue!ReportResponseLost(d) \/ Queue!ReportDelayed(d)
     \/ Queue!Kill(d)

LateReport ==
  /\ UNCHANGED <<setupVars, installed, beats, agentVars>>
  /\ \E t \in Tasks, o \in Queue!Outcomes : Queue!DeliverLate(t, o)

-----------------------------------------------------------------------------
(* The System Agent *)

\* open_app reads the presence row and goes on only if it says connected.
CheckConnection ==
  /\ seen = Nobody /\ \E t \in Tasks : row[t].status = "absent"
  /\ Setup!ConnectionState = "connected"
  /\ seen' = worker.device
  /\ UNCHANGED <<setupVars, queueVars, installed, beats, addressee>>

\* _dispatch_worker_action queues the command, or parks it, in a later transaction that
\* knows nothing of the device ...
Send(t) ==
  /\ UNCHANGED <<setupVars, installed, beats>>
  /\ seen # Nobody
  /\ \E class \in {"allowed", "requires_approval"} : Queue!Dispatch(t, class)
  /\ addressee' = [addressee EXCEPT ![t] = seen]
  /\ seen' = Nobody

\* ... or classify_worker_action rejects it.
Refuse ==
  /\ seen # Nobody /\ seen' = Nobody
  /\ UNCHANGED <<setupVars, queueVars, installed, beats, addressee>>

Next ==
  \/ Dashboard \/ Registration \/ Presence
  \/ \E d \in Devices : Install(d) \/ Beat(d) \/ Launch(d) \/ Work(d)
  \/ \E p \in Procs, d \in Devices : WriteBeat(p, d)
  \/ LateReport
  \/ CheckConnection \/ Refuse
  \/ \E t \in Tasks : Send(t)

Spec == Init /\ [][Next]_vars

-----------------------------------------------------------------------------
(* Properties *)

\* A device that was registered and is refused: disabled, or replaced by a registration.
Dead(d) == d \in Registered /\ ~Setup!Accepts(d)

Contracted == INSTANCE WorkerQueue
                WITH Workers <- Devices, live <- [d \in Devices |-> ~Dead(d)]

\* Onboarding keeps what the queue assumes of credentials: a worker that was refused once
\* is refused for ever, one device at a time is refused, and no other step of onboarding
\* or of the System Agent reaches into the queue.
ImplementsQueue == Contracted!Spec

\* A command takes effect again only after a fault, or after the device that held it was
\* disabled or replaced: one credential at a time polls the queue, though nothing claims
\* the rows it returns.
RepeatsAreExplained ==
  \A t \in Tasks : executed[t] <= 1 + faults + Cardinality({d \in Devices : Dead(d)})

\* A queued row names no device and any accepted device may take it; even so a command
\* asked of one device is taken by another only once the first has been cut off.
ReachesAddressee ==
  \A d \in Devices : cur[d] \notin {Nobody} \cup {t \in Tasks : addressee[t] = d} =>
    Dead(addressee[cur[d]])
=============================================================================
