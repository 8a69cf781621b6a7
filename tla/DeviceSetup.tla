----------------------------- MODULE DeviceSetup -----------------------------
(***************************************************************************)
(* Device onboarding of one workspace: setup tokens minted in the          *)
(* dashboard, redeemed by a worker installer for a device token, device    *)
(* tokens revoked by disable, worker presence kept alive by heartbeats.    *)
(*                                                                         *)
(* The API runs in several processes.  A handler reads its rows, computes, *)
(* and commits in one database transaction under READ COMMITTED; it holds  *)
(* no lock on what it read, and the ORM writes only the columns whose      *)
(* value it changed.  So each transaction is a Begin step, which takes a   *)
(* snapshot, and a Commit step.                                            *)
(***************************************************************************)
EXTENDS Naturals, FiniteSets

CONSTANTS Procs,       \* API worker processes; each runs one transaction at a time
          SetupTokens, \* bound: setup tokens ever minted
          MaxDevices   \* bound: registrations ever begun with a valid token

ASSUME SetupAssumption == MaxDevices \in Nat /\ IsFiniteSet(Procs)

Devices  == 1 .. MaxDevices    \* a device stands for its device_id and its token
NoDevice == 0
Columns  == [device : Devices \cup {NoDevice}, status : {"none", "active", "revoked"},
             connected : BOOLEAN]
NoRow    == [device |-> NoDevice, status |-> "none", connected |-> FALSE]

VARIABLES
  setup,      \* device_setup_tokens: status of each token
  expired,    \* setup tokens whose expires_at has passed
  exists,     \* the workspace has its one system_worker_status row
  worker,     \* that row: device_id and device_token_hash, device_token_status, worker_connected
  fresh,      \* worker_last_seen_at is at most WORKER_STALE_AFTER_SECONDS old
  txn,        \* the transaction each process has open, with what it read
  minted,     \* device tokens generated so far
  redeemed,   \* history: the devices registered with each setup token
  disabled    \* history: the devices whose token was ever revoked

rowVars == <<exists, worker, fresh>>
vars    == <<setup, expired, rowVars, txn, minted, redeemed, disabled>>

Idle == [op |-> "none"]
Registers == [op : {"register"}, token : SetupTokens, device : Devices,
              had : BOOLEAN, seen : Columns]
Updates   == [op : {"disable", "heartbeat"}, had : BOOLEAN, seen : Columns]

TypeOK ==
  /\ setup \in [SetupTokens -> {"absent", "pending", "consumed"}]
  /\ expired \in SUBSET SetupTokens
  /\ exists \in BOOLEAN
  /\ worker \in Columns
  /\ fresh \in BOOLEAN
  /\ txn \in [Procs -> {Idle} \cup Registers \cup Updates]
  /\ minted \in 0 .. MaxDevices
  /\ redeemed \in [SetupTokens -> SUBSET Devices]
  /\ disabled \in SUBSET Devices

Init ==
  /\ setup = [k \in SetupTokens |-> "absent"]
  /\ expired = {}
  /\ exists = FALSE
  /\ worker = NoRow
  /\ fresh = FALSE
  /\ txn = [p \in Procs |-> Idle]
  /\ minted = 0
  /\ redeemed = [k \in SetupTokens |-> {}]
  /\ disabled = {}

-----------------------------------------------------------------------------
(* Setup tokens *)

\* create_setup_token: one insert, so one step.
CreateSetupToken(k) ==
  /\ setup[k] = "absent"
  /\ setup' = [setup EXCEPT ![k] = "pending"]
  /\ UNCHANGED <<expired, rowVars, txn, minted, redeemed, disabled>>

\* SETUP_TOKEN_TTL_SECONDS go by.  The status column keeps saying pending.
Expire(k) ==
  /\ setup[k] # "absent" /\ k \notin expired
  /\ expired' = expired \cup {k}
  /\ UNCHANGED <<setup, rowVars, txn, minted, redeemed, disabled>>

\* Mutant: only the expiry is checked.
IsUnexpired(k) == setup[k] # "absent" /\ k \notin expired

\* is_valid
IsValid(k) == setup[k] = "pending" /\ k \notin expired

-----------------------------------------------------------------------------
(* The workspace's worker row *)

\* Mutant: a registration leaves the device token of the device before it working.
AcceptsEarlier(d) == exists /\ worker.device >= d /\ worker.status # "revoked"

\* get_worker_auth_context: the token of device d opens the worker routes.
Accepts(d) == exists /\ worker.device = d /\ worker.status # "revoked"

\* Device d was registered, with some setup token.
IsRegistered(d) == \E k \in SetupTokens : d \in redeemed[k]

\* compute_worker_connected and compute_connection_state
ConnectionState ==
  IF ~exists THEN "needs_setup"
  ELSE IF worker.status = "revoked" THEN "disabled"
  ELSE IF worker.connected /\ fresh THEN "connected"
  ELSE "offline"

\* What the ORM's UPDATE leaves in a row that now reads `now`, when the handler read
\* `seen` and set the row to `new`.
Merge(now, seen, new) ==
  [device    |-> IF new.device = seen.device THEN now.device ELSE new.device,
   status    |-> IF new.status = seen.status THEN now.status ELSE new.status,
   connected |-> IF new.connected = seen.connected THEN now.connected ELSE new.connected]

Written(x, new) == IF x.had THEN Merge(worker, x.seen, new) ELSE new

Finish(p) == txn' = [txn EXCEPT ![p] = Idle]

\* The insert of a first row fails on the unique workspace_id if another process
\* inserted it since; session_scope rolls the whole transaction back.
InsertConflict(x) == ~x.had /\ exists

\* register_device: the token is found valid and a device token is generated ...
BeginRegister(p, k) ==
  /\ txn[p] = Idle /\ IsValid(k)
  /\ minted < MaxDevices
  /\ minted' = minted + 1
  /\ txn' = [txn EXCEPT ![p] = [op |-> "register", token |-> k, device |-> minted + 1,
                                had |-> exists, seen |-> worker]]
  /\ UNCHANGED <<setup, expired, rowVars, redeemed, disabled>>

\* Mutant: an existing row keeps its device_token_status.
CommitRegisterKeepsStatus(p) ==
  /\ txn[p].op = "register" /\ ~InsertConflict(txn[p])
  /\ exists' = TRUE
  /\ worker' = Written(txn[p], [device    |-> txn[p].device,
                                status    |-> IF txn[p].had THEN txn[p].seen.status ELSE "active",
                                connected |-> TRUE])
  /\ fresh' = TRUE
  /\ setup' = [setup EXCEPT ![txn[p].token] = "consumed"]
  /\ redeemed' = [redeemed EXCEPT ![txn[p].token] = @ \cup {txn[p].device}]
  /\ UNCHANGED disabled
  /\ Finish(p)
  /\ UNCHANGED <<expired, minted>>

\* ... then the row is overwritten and the setup token consumed, whatever has become of
\* either since they were read.
CommitRegister(p) ==
  /\ txn[p].op = "register" /\ ~InsertConflict(txn[p])
  /\ exists' = TRUE
  /\ worker' = Written(txn[p], [device |-> txn[p].device, status |-> "active", connected |-> TRUE])
  /\ fresh' = TRUE
  /\ setup' = [setup EXCEPT ![txn[p].token] = "consumed"]
  /\ redeemed' = [redeemed EXCEPT ![txn[p].token] = @ \cup {txn[p].device}]
  /\ disabled' = IF worker'.status = "revoked" THEN disabled \cup {worker'.device} ELSE disabled
  /\ Finish(p)
  /\ UNCHANGED <<expired, minted>>

\* disable_device does nothing in a workspace without a row.
BeginDisable(p) ==
  /\ txn[p] = Idle /\ exists
  /\ txn' = [txn EXCEPT ![p] = [op |-> "disable", had |-> TRUE, seen |-> worker]]
  /\ UNCHANGED <<setup, expired, rowVars, minted, redeemed, disabled>>

\* Mutant: the connection state's word is stored as the token status.
CommitDisableMisnamed(p) ==
  /\ txn[p].op = "disable"
  /\ worker' = Written(txn[p], [txn[p].seen EXCEPT !.status = "disabled", !.connected = FALSE])
  /\ UNCHANGED disabled
  /\ Finish(p)
  /\ UNCHANGED <<setup, expired, exists, fresh, minted, redeemed>>

CommitDisable(p) ==
  /\ txn[p].op = "disable"
  /\ worker' = Written(txn[p], [device |-> txn[p].seen.device, status |-> "revoked",
                                connected |-> FALSE])
  /\ disabled' = IF worker'.status = "revoked" /\ worker'.device # NoDevice
                 THEN disabled \cup {worker'.device} ELSE disabled
  /\ Finish(p)
  /\ UNCHANGED <<setup, expired, exists, fresh, minted, redeemed>>

\* worker_heartbeat.  Its caller was authenticated in an earlier transaction, by a device
\* token that may have been revoked since, or by the JWT of a dev-mode worker.
BeginHeartbeat(p) ==
  /\ txn[p] = Idle
  /\ txn' = [txn EXCEPT ![p] = [op |-> "heartbeat", had |-> exists, seen |-> worker]]
  /\ UNCHANGED <<setup, expired, rowVars, minted, redeemed, disabled>>

\* Mutant: a heartbeat marks the device token active.
CommitHeartbeatActivates(p) ==
  /\ txn[p].op = "heartbeat" /\ ~InsertConflict(txn[p])
  /\ exists' = TRUE
  /\ worker' = Written(txn[p], [txn[p].seen EXCEPT !.connected = TRUE, !.status = "active"])
  /\ fresh' = TRUE
  /\ Finish(p)
  /\ UNCHANGED <<setup, expired, minted, redeemed, disabled>>

CommitHeartbeat(p) ==
  /\ txn[p].op = "heartbeat" /\ ~InsertConflict(txn[p])
  /\ exists' = TRUE
  /\ worker' = Written(txn[p], [device |-> txn[p].seen.device, status |-> txn[p].seen.status,
                                connected |-> TRUE])
  /\ fresh' = TRUE
  /\ Finish(p)
  /\ UNCHANGED <<setup, expired, minted, redeemed, disabled>>

\* Mutant: the setup token is consumed in a transaction of its own.
RollbackConsumes(p) ==
  /\ txn[p] # Idle
  /\ Finish(p)
  /\ setup' = IF txn[p].op = "register" THEN [setup EXCEPT ![txn[p].token] = "consumed"] ELSE setup
  /\ UNCHANGED <<expired, rowVars, minted, redeemed, disabled>>

\* session_scope's except branch: a failed commit, a lost database, a killed process.
Rollback(p) ==
  /\ txn[p] # Idle
  /\ Finish(p)
  /\ UNCHANGED <<setup, expired, rowVars, minted, redeemed, disabled>>

\* No heartbeat for WORKER_STALE_AFTER_SECONDS.
GoStale ==
  /\ fresh
  /\ fresh' = FALSE
  /\ UNCHANGED <<setup, expired, exists, worker, txn, minted, redeemed, disabled>>

-----------------------------------------------------------------------------
Next ==
  \/ \E k \in SetupTokens : CreateSetupToken(k) \/ Expire(k)
  \/ \E p \in Procs :
       \/ \E k \in SetupTokens : BeginRegister(p, k)
       \/ CommitRegister(p)
       \/ BeginDisable(p) \/ CommitDisable(p)
       \/ BeginHeartbeat(p) \/ CommitHeartbeat(p)
       \/ Rollback(p)
  \/ GoStale

Spec == Init /\ [][Next]_vars

-----------------------------------------------------------------------------
(* Properties *)

\* A setup token is redeemed at most once per API process: every redemption after the first
\* was already under way, in another process, when the first one committed.
RedemptionsBounded == \A k \in SetupTokens : Cardinality(redeemed[k]) <= Cardinality(Procs)

\* The module docstring: a worker process redeems a setup token exactly once.
RedeemedAtMostOnce == \A k \in SetupTokens : Cardinality(redeemed[k]) <= 1

\* Consuming the token and registering the device stand or fall together: a registration
\* that loses the insert race or is rolled back leaves its token redeemable.
ConsumedIffRedeemed == \A k \in SetupTokens : setup[k] = "consumed" <=> redeemed[k] # {}

\* Revocation is durable: the token of a device once disabled is never accepted again,
\* whatever heartbeats and registrations were in flight.
DisabledIsFinal == \A d \in disabled : ~Accepts(d)

\* A disabled workspace stays disabled until a device registers: no heartbeat, late or
\* fresh, brings the worker back to connected or offline.
OnlyRegistrationReenables ==
  [][ConnectionState = "disabled" /\ ConnectionState' # "disabled" => redeemed' # redeemed]_vars

\* A disable committed after the registration of process p had read the row: its status is
\* kept, as if the disable had come second.
DisabledSince(p) ==
  txn[p].op = "register" /\ txn[p].had /\ txn[p].seen.status # "revoked"
    /\ worker.status = "revoked"

\* The device token a registration hands out works, whether it inserts the row, replaces
\* another device's or re-enables a disabled one, and goes on working until it is revoked or
\* a later registration takes the row: overlapping registrations, disables and heartbeats of
\* any process never leave the row with a mixture no token opens.  Only a disable that
\* commits while the registration is under way makes it fail from the start.
RegistrationHolds ==
  [][\A d \in Devices :
       /\ IsRegistered(d)' /\ ~IsRegistered(d) =>
            \/ Accepts(d)'
            \/ \E p \in Procs : DisabledSince(p) /\ txn[p].device = d
       /\ Accepts(d) =>
            \/ Accepts(d)'
            \/ d \in disabled'
            \/ \E e \in Devices :
                 IsRegistered(e)' /\ ~IsRegistered(e) /\ worker'.device = e]_vars

\* The presence row never names a device that has not been registered: what the API
\* accepts, some redemption has issued.
AcceptedWasRedeemed == \A d \in Devices : Accepts(d) => IsRegistered(d)
=============================================================================
