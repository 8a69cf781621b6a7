-------------------------- MODULE DeviceSetupProofs --------------------------
(***************************************************************************)
(* Theorems about DeviceSetup, for any number of API processes, setup      *)
(* tokens and registrations.                                               *)
(***************************************************************************)
EXTENDS DeviceSetup, FiniteSetTheorems, TLAPS

Registering(p) == txn[p].op = "register"

\* Device tokens are minted once: one that is still in a transaction is nobody else's --
\* not the row's, not another transaction's, not a registered or a disabled device's.
TokensAreFresh ==
  /\ worker.device <= minted
  /\ \A p \in Procs : txn[p] # Idle => txn[p].seen.device <= minted
  /\ \A d \in disabled : d <= minted
  /\ \A k \in SetupTokens : \A d \in redeemed[k] : d <= minted
  /\ \A p \in Procs : Registering(p) =>
       LET d == txn[p].device IN
       /\ d <= minted
       /\ d # worker.device /\ d # txn[p].seen.device
       /\ d \notin disabled
       /\ \A k \in SetupTokens : d \notin redeemed[k]
       /\ \A q \in Procs : (q # p /\ Registering(q)) => txn[q].device # d

\* The row's device, if it was disabled, is still marked revoked.
RevokedStays == worker.device \in disabled => worker.status = "revoked"

\* What the row names was registered.
RowWasRedeemed ==
  worker.device # NoDevice => \E k \in SetupTokens : worker.device \in redeemed[k]

\* A transaction that read no row, read the empty row; one that read a row, or disables
\* it, finds it there for good.
SnapshotsAreRows ==
  /\ ~exists => worker = NoRow
  /\ \A p \in Procs : txn[p] # Idle =>
       /\ ~txn[p].had => txn[p].seen = NoRow
       /\ txn[p].had => exists
       /\ txn[p].op = "disable" => txn[p].had

SInv == /\ TypeOK
        /\ SnapshotsAreRows
        /\ TokensAreFresh
        /\ RevokedStays
        /\ RowWasRedeemed
        /\ ConsumedIffRedeemed

-----------------------------------------------------------------------------
LEMMA DeviceFacts == NoDevice \notin Devices /\ Devices \subseteq Nat /\ NoDevice \in Nat
  BY SetupAssumption DEF NoDevice, Devices

LEMMA InitSInv == Init => SInv
  <1> SUFFICES ASSUME Init PROVE SInv
    OBVIOUS
  <1>1. TypeOK
    <2>1. worker \in Columns
      BY DEF Init, NoRow, Columns
    <2>2. minted \in 0 .. MaxDevices
      BY SetupAssumption DEF Init
    <2> QED BY <2>1, <2>2 DEF Init, TypeOK
  <1>2. TokensAreFresh
    <2>1. worker.device = 0 /\ minted = 0 /\ disabled = {} /\ \A k \in SetupTokens : redeemed[k] = {}
      BY DEF Init, NoRow, NoDevice
    <2>2. \A p \in Procs : txn[p] = Idle /\ ~Registering(p)
      BY DEF Init, Registering, Idle
    <2> QED BY <2>1, <2>2 DEF TokensAreFresh
  <1>3. RevokedStays /\ RowWasRedeemed /\ SnapshotsAreRows
    BY DEF Init, RevokedStays, RowWasRedeemed, SnapshotsAreRows, NoRow
  <1>4. ConsumedIffRedeemed
    BY DEF Init, ConsumedIffRedeemed
  <1> QED BY <1>1, <1>2, <1>3, <1>4 DEF SInv

\* Which transactions a process can have open.
LEMMA TxnKinds ==
  ASSUME TypeOK, NEW p \in Procs
  PROVE  /\ txn[p].op = "register" => txn[p] \in Registers
         /\ txn[p].op \in {"disable", "heartbeat"} => txn[p] \in Updates
         /\ txn[p].op = "none" <=> txn[p] = Idle
  BY DEF TypeOK, Registers, Updates, Idle

\* The row a registration leaves: its own device, and the status it read or wrote.
LEMMA RegisterWrites ==
  ASSUME SInv, NEW p \in Procs, CommitRegister(p)
  PROVE  /\ worker' \in Columns
         /\ worker'.device = txn[p].device
  <1>1. txn[p] \in Registers /\ txn[p].device # txn[p].seen.device
    BY TxnKinds DEF SInv, CommitRegister, TokensAreFresh, Registering
  <1> QED BY <1>1 DEF SInv, TypeOK, CommitRegister, Written, Merge, Registers, Columns

\* The other commits leave the row's device and a revoked status alone; a disable that
\* finds the row it read leaves it revoked.
LEMMA UpdateWrites ==
  ASSUME SInv, NEW p \in Procs, CommitDisable(p) \/ CommitHeartbeat(p)
  PROVE  /\ worker' \in Columns
         /\ worker'.device = worker.device
         /\ worker.status = "revoked" => worker'.status = "revoked"
  <1>1. /\ txn[p] \in Updates /\ txn[p] # Idle
        /\ CommitDisable(p) => txn[p].had
    BY TxnKinds DEF SInv, CommitDisable, CommitHeartbeat, SnapshotsAreRows, Idle
  <1>2. txn[p].seen \in Columns /\ worker \in Columns
    BY <1>1 DEF SInv, TypeOK, Updates
  <1>3. PICK new \in Columns :
          /\ worker' = Written(txn[p], new)
          /\ new.device = txn[p].seen.device
          /\ new.status \in {"revoked", txn[p].seen.status}
    <2>1. CASE CommitDisable(p)
      <3> DEFINE n == [device |-> txn[p].seen.device, status |-> "revoked", connected |-> FALSE]
      <3>1. n \in Columns /\ n.device = txn[p].seen.device /\ n.status = "revoked"
        BY <1>2 DEF Columns
      <3>2. worker' = Written(txn[p], n)
        BY <2>1 DEF CommitDisable
      <3> HIDE DEF n
      <3> QED BY <3>1, <3>2
    <2>2. CASE CommitHeartbeat(p)
      <3> DEFINE n == [device |-> txn[p].seen.device, status |-> txn[p].seen.status,
                       connected |-> TRUE]
      <3>1. n \in Columns /\ n.device = txn[p].seen.device /\ n.status = txn[p].seen.status
        BY <1>2 DEF Columns
      <3>2. worker' = Written(txn[p], n)
        BY <2>2 DEF CommitHeartbeat
      <3> HIDE DEF n
      <3> QED BY <3>1, <3>2
    <2> QED BY <2>1, <2>2
  <1>4. CASE txn[p].had
    BY <1>2, <1>3, <1>4 DEF Written, Merge, Columns
  <1>5. CASE ~txn[p].had
    <2>1. ~exists /\ worker = NoRow /\ txn[p].seen = NoRow
      BY <1>1, <1>5 DEF SInv, SnapshotsAreRows, CommitHeartbeat, CommitDisable, InsertConflict
    <2> QED BY <2>1, <1>3, <1>5 DEF Written, NoRow
  <1> QED BY <1>4, <1>5

\* Ending a transaction cannot disturb the others.
LEMMA FinishFacts ==
  ASSUME TypeOK, NEW p \in Procs, Finish(p)
  PROVE  /\ txn' \in [Procs -> {Idle} \cup Registers \cup Updates]
         /\ txn'[p] = Idle
         /\ \A q \in Procs : q # p => txn'[q] = txn[q]
         /\ \A q \in Procs : txn'[q] # Idle => q # p /\ txn'[q] = txn[q]
  BY DEF TypeOK, Finish

LEMMA NextSInv == SInv /\ [Next]_vars => SInv'
  <1> SUFFICES ASSUME SInv, [Next]_vars PROVE SInv'
    OBVIOUS
  <1>t. TypeOK
    BY DEF SInv
  <1>i. Idle.op = "none"
    BY DEF Idle
  <1>1. ASSUME NEW k \in SetupTokens, CreateSetupToken(k) \/ Expire(k)
        PROVE  SInv'
    <2>1. /\ setup' \in [SetupTokens -> {"absent", "pending", "consumed"}]
          /\ expired' \in SUBSET SetupTokens
          /\ \A l \in SetupTokens : setup'[l] = "consumed" <=> setup[l] = "consumed"
      BY <1>1, <1>t DEF CreateSetupToken, Expire, TypeOK
    <2>2. UNCHANGED <<exists, worker, fresh, txn, minted, redeemed, disabled>>
      BY <1>1 DEF CreateSetupToken, Expire, rowVars
    <2> QED BY <2>1, <2>2 DEF SInv, TypeOK, SnapshotsAreRows, TokensAreFresh, Registering,
                              RevokedStays, RowWasRedeemed, ConsumedIffRedeemed
  <1>2. ASSUME NEW p \in Procs, NEW k \in SetupTokens, BeginRegister(p, k)
        PROVE  SInv'
    <2> DEFINE x == [op |-> "register", token |-> k, device |-> minted + 1,
                     had |-> exists, seen |-> worker]
    <2>1. minted \in Nat /\ minted + 1 \in Devices /\ minted' = minted + 1 /\ minted' \in 0 .. MaxDevices
      BY <1>2, <1>t, SetupAssumption DEF BeginRegister, TypeOK, Devices
    <2>2. x \in Registers
      BY <2>1, <1>t DEF TypeOK, Registers
    <2>3. /\ txn' = [txn EXCEPT ![p] = x]
          /\ UNCHANGED <<setup, expired, exists, worker, fresh, redeemed, disabled>>
      BY <1>2 DEF BeginRegister, rowVars
    <2>4. TypeOK'
      BY <2>1, <2>2, <2>3, <1>t DEF TypeOK
    <2>5. /\ txn'[p].op = "register" /\ txn'[p].device = minted + 1
          /\ txn'[p].had = exists /\ txn'[p].seen = worker
          /\ \A q \in Procs : q # p => txn'[q] = txn[q]
      BY <2>3, <1>t DEF TypeOK
    <2>6. SnapshotsAreRows'
      BY <2>3, <2>5 DEF SInv, SnapshotsAreRows
    <2>7. TokensAreFresh'
      <3>1. \A d \in Devices \cup {NoDevice} : d <= minted => d <= minted' /\ d # minted + 1
        BY <2>1, DeviceFacts
      <3>2. worker.device \in Devices \cup {NoDevice}
        BY <1>t DEF TypeOK, Columns
      <3>3. \A q \in Procs : txn[q] # Idle => txn[q].seen.device \in Devices \cup {NoDevice}
        BY <1>t DEF TypeOK, Registers, Updates, Columns
      <3>4. \A q \in Procs : Registering(q) => txn[q] # Idle /\ txn[q].device \in Devices
        BY <1>t, <1>i DEF TypeOK, Registers, Updates, Registering
      <3>5. \A d \in disabled : d \in Devices
        BY <1>t DEF TypeOK
      <3>6. \A l \in SetupTokens : \A d \in redeemed[l] : d \in Devices
        BY <1>t DEF TypeOK
      <3>7. /\ worker'.device <= minted'
            /\ \A d \in disabled' : d <= minted'
            /\ \A l \in SetupTokens : \A d \in redeemed'[l] : d <= minted'
            /\ \A q \in Procs : txn'[q] # Idle => txn'[q].seen.device <= minted'
        BY <2>3, <2>5, <3>1, <3>2, <3>3, <3>5, <3>6 DEF SInv, TokensAreFresh
      <3>8. ASSUME NEW q \in Procs, Registering(q)'
            PROVE  /\ txn'[q].device <= minted'
                   /\ txn'[q].device # worker.device /\ txn'[q].device # txn'[q].seen.device
                   /\ txn'[q].device \notin disabled
                   /\ \A l \in SetupTokens : txn'[q].device \notin redeemed[l]
                   /\ \A r \in Procs : (r # q /\ Registering(r)') => txn'[r].device # txn'[q].device
        <4>1. CASE q = p
          <5>1. minted + 1 <= minted'
            BY <2>1
          <5>2. \A r \in Procs : (r # q /\ Registering(r)') => txn'[r].device # minted + 1
            BY <2>5, <3>1, <3>4, <4>1 DEF SInv, TokensAreFresh, Registering
          <5> QED BY <4>1, <5>1, <5>2, <2>5, <3>1, <3>2, <3>5, <3>6 DEF SInv, TokensAreFresh
        <4>2. CASE q # p
          <5>1. Registering(q) /\ txn'[q] = txn[q]
            BY <4>2, <3>8, <2>5 DEF Registering
          <5>2. txn[q].device <= minted' /\ txn[q].device # minted + 1
            BY <5>1, <3>1, <3>4 DEF SInv, TokensAreFresh
          <5>3. \A r \in Procs : (r # q /\ Registering(r)') => txn'[r].device # txn[q].device
            BY <5>1, <5>2, <2>5 DEF SInv, TokensAreFresh, Registering
          <5> QED BY <5>1, <5>2, <5>3 DEF SInv, TokensAreFresh
        <4> QED BY <4>1, <4>2
      <3> QED BY <3>7, <3>8, <2>3 DEF TokensAreFresh
    <2>8. RevokedStays' /\ RowWasRedeemed' /\ ConsumedIffRedeemed'
      BY <2>3 DEF SInv, RevokedStays, RowWasRedeemed, ConsumedIffRedeemed
    <2> QED BY <2>4, <2>6, <2>7, <2>8 DEF SInv
  <1>3. ASSUME NEW p \in Procs, CommitRegister(p)
        PROVE  SInv'
    <2> DEFINE d == txn[p].device
    <2>1. /\ txn[p] \in Registers /\ Registering(p) /\ txn[p] # Idle
          /\ d \in Devices /\ d <= minted /\ d \notin disabled
          /\ d # worker.device
      BY <1>3, <1>t, <1>i, TxnKinds
      DEF CommitRegister, Registering, SInv, TokensAreFresh, Registers
    <2>2. worker' \in Columns /\ worker'.device = d
      BY <1>3, RegisterWrites
    <2>3. Finish(p)
      BY <1>3 DEF CommitRegister
    <2>4. /\ txn' \in [Procs -> {Idle} \cup Registers \cup Updates]
          /\ \A q \in Procs : txn'[q] # Idle => q # p /\ txn'[q] = txn[q]
      BY <2>3, <1>t, FinishFacts
    <2>5. /\ exists' = TRUE /\ fresh' = TRUE /\ UNCHANGED <<expired, minted>>
          /\ setup' = [setup EXCEPT ![txn[p].token] = "consumed"]
          /\ redeemed' = [redeemed EXCEPT ![txn[p].token] = @ \cup {d}]
          /\ disabled' = IF worker'.status = "revoked" THEN disabled \cup {d} ELSE disabled
      BY <1>3, <2>2 DEF CommitRegister
    <2>6. TypeOK'
      BY <2>1, <2>2, <2>4, <2>5, <1>t DEF TypeOK, Registers
    <2>7. SnapshotsAreRows'
      BY <2>4, <2>5 DEF SInv, SnapshotsAreRows
    <2>8. TokensAreFresh'
      <3>1. /\ \A l \in SetupTokens : redeemed'[l] \in {redeemed[l], redeemed[l] \cup {d}}
            /\ disabled' \in {disabled, disabled \cup {d}}
        BY <2>1, <2>5, <1>t DEF TypeOK, Registers
      <3>2. /\ worker'.device <= minted'
            /\ \A e \in disabled' : e <= minted'
            /\ \A l \in SetupTokens : \A e \in redeemed'[l] : e <= minted'
            /\ \A q \in Procs : txn'[q] # Idle => txn'[q].seen.device <= minted'
        BY <2>1, <2>2, <2>4, <2>5, <3>1 DEF SInv, TokensAreFresh
      <3>3. ASSUME NEW q \in Procs, Registering(q)'
            PROVE  /\ q # p /\ txn'[q] = txn[q] /\ Registering(q)
                   /\ txn[q].device # d
        BY <3>3, <2>1, <2>4, <1>i DEF SInv, TokensAreFresh, Registering
      <3> QED BY <3>1, <3>2, <3>3, <2>2, <2>5 DEF SInv, TokensAreFresh
    <2>9. RevokedStays'
      BY <2>1, <2>2, <2>5 DEF SInv, RevokedStays
    <2>10. RowWasRedeemed'
      BY <2>1, <2>2, <2>5, <1>t DEF RowWasRedeemed, TypeOK, Registers
    <2>11. ConsumedIffRedeemed'
      BY <2>1, <2>5, <1>t DEF SInv, ConsumedIffRedeemed, TypeOK, Registers
    <2> QED BY <2>6, <2>7, <2>8, <2>9, <2>10, <2>11 DEF SInv
  <1>4. ASSUME NEW p \in Procs, CommitDisable(p)
        PROVE  SInv'
    <2>1. /\ txn[p] \in Updates /\ txn[p] # Idle /\ txn[p].had /\ exists
      BY <1>4, <1>t, <1>i, TxnKinds DEF CommitDisable, SInv, SnapshotsAreRows
    <2>2. /\ worker' \in Columns
          /\ worker'.device = worker.device
          /\ worker.status = "revoked" => worker'.status = "revoked"
      BY <1>4, UpdateWrites
    <2>3. Finish(p)
      BY <1>4 DEF CommitDisable
    <2>4. /\ txn' \in [Procs -> {Idle} \cup Registers \cup Updates]
          /\ \A q \in Procs : txn'[q] # Idle => q # p /\ txn'[q] = txn[q]
      BY <2>3, <1>t, FinishFacts
    <2>5. /\ UNCHANGED <<setup, expired, exists, fresh, minted, redeemed>>
          /\ disabled' = IF worker'.status = "revoked" /\ worker'.device # NoDevice
                         THEN disabled \cup {worker'.device} ELSE disabled
      BY <1>4 DEF CommitDisable
    <2>6. TypeOK'
      BY <2>2, <2>4, <2>5, <1>t DEF TypeOK, Columns
    <2>7. SnapshotsAreRows'
      BY <2>1, <2>4, <2>5 DEF SInv, SnapshotsAreRows
    <2>8. TokensAreFresh'
      <3>1. disabled' \in {disabled, disabled \cup {worker.device}}
        BY <2>2, <2>5
      <3>2. ASSUME NEW q \in Procs, Registering(q)'
            PROVE  q # p /\ txn'[q] = txn[q] /\ Registering(q)
        BY <3>2, <2>4, <1>i DEF Registering
      <3> QED BY <3>1, <3>2, <2>2, <2>4, <2>5 DEF SInv, TokensAreFresh, Registering
    <2>9. RevokedStays'
      BY <2>2, <2>5 DEF SInv, RevokedStays
    <2>10. RowWasRedeemed' /\ ConsumedIffRedeemed'
      BY <2>2, <2>5 DEF SInv, RowWasRedeemed, ConsumedIffRedeemed
    <2> QED BY <2>6, <2>7, <2>8, <2>9, <2>10 DEF SInv
  <1>5. ASSUME NEW p \in Procs, CommitHeartbeat(p)
        PROVE  SInv'
    <2>2. /\ worker' \in Columns
          /\ worker'.device = worker.device
          /\ worker.status = "revoked" => worker'.status = "revoked"
      BY <1>5, UpdateWrites
    <2>3. Finish(p)
      BY <1>5 DEF CommitHeartbeat
    <2>4. /\ txn' \in [Procs -> {Idle} \cup Registers \cup Updates]
          /\ \A q \in Procs : txn'[q] # Idle => q # p /\ txn'[q] = txn[q]
      BY <2>3, <1>t, FinishFacts
    <2>5. UNCHANGED <<setup, expired, minted, redeemed, disabled>> /\ exists' = TRUE /\ fresh' = TRUE
      BY <1>5 DEF CommitHeartbeat
    <2>6. TypeOK'
      BY <2>2, <2>4, <2>5, <1>t DEF TypeOK
    <2>7. SnapshotsAreRows'
      BY <2>4, <2>5 DEF SInv, SnapshotsAreRows
    <2>8. TokensAreFresh'
      <3>2. ASSUME NEW q \in Procs, Registering(q)'
            PROVE  q # p /\ txn'[q] = txn[q] /\ Registering(q)
        BY <3>2, <2>4, <1>i DEF Registering
      <3> QED BY <3>2, <2>2, <2>4, <2>5 DEF SInv, TokensAreFresh, Registering
    <2>9. RevokedStays' /\ RowWasRedeemed' /\ ConsumedIffRedeemed'
      BY <2>2, <2>5 DEF SInv, RevokedStays, RowWasRedeemed, ConsumedIffRedeemed
    <2> QED BY <2>6, <2>7, <2>8, <2>9 DEF SInv
  <1>6. ASSUME NEW p \in Procs, BeginDisable(p) \/ BeginHeartbeat(p)
        PROVE  SInv'
    <2>1. PICK x \in Updates : /\ txn' = [txn EXCEPT ![p] = x]
                               /\ x.had = exists /\ x.seen = worker
      <3>1. CASE BeginDisable(p)
        <4> DEFINE u == [op |-> "disable", had |-> TRUE, seen |-> worker]
        <4>1. u \in Updates /\ u.had = exists /\ u.seen = worker /\ txn' = [txn EXCEPT ![p] = u]
          BY <3>1, <1>t DEF BeginDisable, Updates, TypeOK
        <4> HIDE DEF u
        <4> QED BY <4>1
      <3>2. CASE BeginHeartbeat(p)
        <4> DEFINE u == [op |-> "heartbeat", had |-> exists, seen |-> worker]
        <4>1. u \in Updates /\ u.had = exists /\ u.seen = worker /\ txn' = [txn EXCEPT ![p] = u]
          BY <3>2, <1>t DEF BeginHeartbeat, Updates, TypeOK
        <4> HIDE DEF u
        <4> QED BY <4>1
      <3> QED BY <3>1, <3>2, <1>6
    <2>2. UNCHANGED <<setup, expired, exists, worker, fresh, minted, redeemed, disabled>>
      BY <1>6 DEF BeginDisable, BeginHeartbeat, rowVars
    <2>3. x.op \in {"disable", "heartbeat"} /\ (x.op = "disable" => exists)
      <3>1. x.op \in {"disable", "heartbeat"}
        BY DEF Updates
      <3>2. BeginHeartbeat(p) => x.op = "heartbeat"
        BY <2>1, <1>t DEF BeginHeartbeat, TypeOK
      <3>3. BeginDisable(p) => exists
        BY DEF BeginDisable
      <3> QED BY <3>1, <3>2, <3>3, <1>6
    <2>4. /\ txn'[p] = x /\ \A q \in Procs : q # p => txn'[q] = txn[q]
          /\ TypeOK'
      BY <2>1, <2>2, <1>t DEF TypeOK
    <2>5. SnapshotsAreRows'
      BY <2>1, <2>2, <2>3, <2>4 DEF SInv, SnapshotsAreRows
    <2>6. TokensAreFresh'
      <3>1. ASSUME NEW q \in Procs, Registering(q)'
            PROVE  q # p /\ txn'[q] = txn[q] /\ Registering(q)
        BY <3>1, <2>3, <2>4 DEF Registering
      <3>2. \A q \in Procs : txn'[q] # Idle => txn'[q].seen.device <= minted'
        BY <2>1, <2>2, <2>4 DEF SInv, TokensAreFresh
      <3> QED BY <3>1, <3>2, <2>2 DEF SInv, TokensAreFresh, Registering
    <2>7. RevokedStays' /\ RowWasRedeemed' /\ ConsumedIffRedeemed'
      BY <2>2 DEF SInv, RevokedStays, RowWasRedeemed, ConsumedIffRedeemed
    <2> QED BY <2>4, <2>5, <2>6, <2>7 DEF SInv
  <1>7. ASSUME NEW p \in Procs, Rollback(p)
        PROVE  SInv'
    <2>1. /\ txn' \in [Procs -> {Idle} \cup Registers \cup Updates]
          /\ \A q \in Procs : txn'[q] # Idle => q # p /\ txn'[q] = txn[q]
      BY <1>7, <1>t, FinishFacts DEF Rollback
    <2>2. UNCHANGED <<setup, expired, exists, worker, fresh, minted, redeemed, disabled>>
      BY <1>7 DEF Rollback, rowVars
    <2>3. TypeOK' /\ SnapshotsAreRows'
      BY <2>1, <2>2 DEF SInv, TypeOK, SnapshotsAreRows
    <2>4. TokensAreFresh'
      <3>1. ASSUME NEW q \in Procs, Registering(q)'
            PROVE  q # p /\ txn'[q] = txn[q] /\ Registering(q)
        BY <3>1, <2>1, <1>i DEF Registering
      <3> QED BY <3>1, <2>1, <2>2 DEF SInv, TokensAreFresh, Registering
    <2>5. RevokedStays' /\ RowWasRedeemed' /\ ConsumedIffRedeemed'
      BY <2>2 DEF SInv, RevokedStays, RowWasRedeemed, ConsumedIffRedeemed
    <2> QED BY <2>3, <2>4, <2>5 DEF SInv
  <1>8. CASE GoStale \/ UNCHANGED vars
    BY <1>8 DEF GoStale, vars, rowVars, SInv, TypeOK, SnapshotsAreRows, TokensAreFresh,
                Registering, RevokedStays, RowWasRedeemed, ConsumedIffRedeemed
  <1> QED BY <1>1, <1>2, <1>3, <1>4, <1>5, <1>6, <1>7, <1>8 DEF Next

LEMMA SpecSInv == Spec => []SInv
  BY InitSInv, NextSInv, PTL DEF Spec

-----------------------------------------------------------------------------
(* Theorems *)

\* Every state the handlers reach is well typed: the row's columns, the tokens, and the
\* snapshot of every open transaction.
THEOREM SetupTypeCorrect == Spec => []TypeOK
  <1>1. SInv => TypeOK
    BY DEF SInv
  <1> QED BY SpecSInv, <1>1, PTL

\* register_device consumes a setup token exactly when it registers a device with it, for
\* any interleaving of its transactions, conflicts and rollbacks included.
THEOREM ConsumingIsRegistering == Spec => []ConsumedIffRedeemed
  <1>1. SInv => ConsumedIffRedeemed
    BY DEF SInv
  <1> QED BY SpecSInv, <1>1, PTL

\* disable_device is durable: no interleaving makes the worker routes accept a device token
\* that was ever disabled.
THEOREM RevocationIsFinal == Spec => []DisabledIsFinal
  <1>1. SInv => DisabledIsFinal
    BY DEF SInv, RevokedStays, DisabledIsFinal, Accepts
  <1> QED BY SpecSInv, <1>1, PTL

\* The worker routes accept only device tokens that a redeemed setup token was exchanged for.
THEOREM AcceptanceIsEarned == Spec => []AcceptedWasRedeemed
  <1>1. SInv => AcceptedWasRedeemed
    BY DeviceFacts DEF SInv, RowWasRedeemed, AcceptedWasRedeemed, IsRegistered, Accepts
  <1> QED BY SpecSInv, <1>1, PTL

\* Only a committed registration takes a workspace out of the disabled state: a heartbeat
\* whose caller was authenticated before the disable does not.
THEOREM OnlyRegistering == Spec => OnlyRegistrationReenables
  <1>1. SInv /\ [Next]_vars
          => [ConnectionState = "disabled" /\ ConnectionState' # "disabled"
                => redeemed' # redeemed]_vars
    <2> SUFFICES ASSUME SInv, Next, ConnectionState = "disabled", ConnectionState' # "disabled"
                 PROVE  redeemed' # redeemed
      OBVIOUS
    <2>1. exists /\ worker.status = "revoked"
      BY DEF ConnectionState
    <2>2. ~(exists' /\ worker'.status = "revoked")
      BY DEF ConnectionState
    <2>3. PICK p \in Procs : CommitRegister(p)
      <3>1. ASSUME NEW p \in Procs, CommitDisable(p) \/ CommitHeartbeat(p)
            PROVE  FALSE
        <4>1. exists'
          BY <3>1, <2>1 DEF CommitDisable, CommitHeartbeat
        <4>2. worker'.status = "revoked"
          BY <3>1, <2>1, UpdateWrites
        <4> QED BY <4>1, <4>2, <2>2
      <3>2. \/ UNCHANGED <<exists, worker>>
            \/ \E p \in Procs : CommitRegister(p) \/ CommitDisable(p) \/ CommitHeartbeat(p)
        BY DEF Next, CreateSetupToken, Expire, BeginRegister, BeginDisable, BeginHeartbeat,
               Rollback, GoStale, rowVars
      <3> QED BY <3>1, <3>2, <2>1, <2>2
    <2>4. /\ txn[p] \in Registers /\ Registering(p)
          /\ redeemed' = [redeemed EXCEPT ![txn[p].token] = @ \cup {txn[p].device}]
      BY <2>3, TxnKinds DEF CommitRegister, Registering, SInv
    <2>5. txn[p].token \in SetupTokens /\ txn[p].device \notin redeemed[txn[p].token]
      BY <2>4 DEF SInv, TokensAreFresh, Registers
    <2> QED BY <2>4, <2>5 DEF SInv, TypeOK
  <1> QED BY SpecSInv, <1>1, PTL DEF Spec, OnlyRegistrationReenables

-----------------------------------------------------------------------------
(* At most one redemption per process *)

\* The processes that found setup token k valid and have not finished.
Redeeming(k) == {p \in Procs : Registering(p) /\ txn[p].token = k}

\* Past and possible redemptions together are no more than the processes.
RedemptionsFit == \A k \in SetupTokens :
  /\ IsFiniteSet(redeemed[k])
  /\ Cardinality(redeemed[k]) + Cardinality(Redeeming(k)) <= Cardinality(Procs)

LEMMA RedeemingFacts ==
  ASSUME NEW k \in SetupTokens
  PROVE  /\ IsFiniteSet(Redeeming(k)) /\ Cardinality(Redeeming(k)) \in Nat
         /\ Cardinality(Procs) \in Nat
         /\ Cardinality(Redeeming(k)) <= Cardinality(Procs)
  BY SetupAssumption, FS_Subset, FS_CardinalityType DEF Redeeming

LEMMA InitRedemptionsFit == Init => RedemptionsFit
  <1> SUFFICES ASSUME Init, NEW k \in SetupTokens
               PROVE  /\ IsFiniteSet(redeemed[k])
                      /\ Cardinality(redeemed[k]) + Cardinality(Redeeming(k)) <= Cardinality(Procs)
    BY DEF RedemptionsFit
  <1>1. redeemed[k] = {}
    BY DEF Init
  <1> QED BY <1>1, FS_EmptySet, RedeemingFacts

LEMMA NextRedemptionsFit == SInv /\ RedemptionsFit /\ [Next]_vars => RedemptionsFit'
  <1> SUFFICES ASSUME SInv, RedemptionsFit, [Next]_vars, NEW k \in SetupTokens
               PROVE  /\ IsFiniteSet(redeemed'[k])
                      /\ Cardinality(redeemed'[k]) + Cardinality(Redeeming(k)')
                            <= Cardinality(Procs)
    BY DEF RedemptionsFit
  <1>n. /\ IsFiniteSet(redeemed[k]) /\ Cardinality(redeemed[k]) \in Nat
        /\ Cardinality(Redeeming(k)) \in Nat /\ Cardinality(Procs) \in Nat
        /\ Cardinality(redeemed[k]) + Cardinality(Redeeming(k)) <= Cardinality(Procs)
    BY RedeemingFacts, FS_CardinalityType DEF RedemptionsFit
  \* A step that redeems nothing and starts no redemption of k.
  <1>s. ASSUME redeemed'[k] = redeemed[k], Redeeming(k)' \subseteq Redeeming(k)
        PROVE  /\ IsFiniteSet(redeemed'[k])
               /\ Cardinality(redeemed'[k]) + Cardinality(Redeeming(k)') <= Cardinality(Procs)
    <2>1. /\ Cardinality(Redeeming(k)') \in Nat
          /\ Cardinality(Redeeming(k)') <= Cardinality(Redeeming(k))
      BY <1>s, RedeemingFacts, FS_Subset, FS_CardinalityType
    <2> QED BY <1>n, <1>s, <2>1
  <1>1. ASSUME NEW p \in Procs, NEW l \in SetupTokens, BeginRegister(p, l)
        PROVE  /\ IsFiniteSet(redeemed'[k])
               /\ Cardinality(redeemed'[k]) + Cardinality(Redeeming(k)') <= Cardinality(Procs)
    <2>1. redeemed' = redeemed /\ setup[l] = "pending"
      BY <1>1 DEF BeginRegister, IsValid
    <2>2. CASE l = k
      <3>1. redeemed'[k] = {}
        BY <2>1, <2>2 DEF SInv, ConsumedIffRedeemed
      <3>2. /\ Cardinality(Redeeming(k)') \in Nat
            /\ Cardinality(Redeeming(k)') <= Cardinality(Procs)
        BY SetupAssumption, FS_Subset, FS_CardinalityType DEF Redeeming
      <3> QED BY <3>1, <3>2, FS_EmptySet, <1>n
    <2>3. CASE l # k
      <3>1. Redeeming(k)' \subseteq Redeeming(k)
        BY <1>1, <2>3 DEF BeginRegister, Redeeming, Registering, SInv, TypeOK
      <3> QED BY <3>1, <2>1, <1>s
    <2> QED BY <2>2, <2>3
  <1>2. ASSUME NEW p \in Procs, CommitRegister(p)
        PROVE  /\ IsFiniteSet(redeemed'[k])
               /\ Cardinality(redeemed'[k]) + Cardinality(Redeeming(k)') <= Cardinality(Procs)
    <2>1. /\ txn[p] \in Registers /\ Registering(p)
          /\ redeemed' = [redeemed EXCEPT ![txn[p].token] = @ \cup {txn[p].device}]
          /\ Finish(p)
      BY <1>2, TxnKinds DEF CommitRegister, Registering, SInv
    <2>2. Redeeming(k)' \subseteq Redeeming(k) \ {p}
      BY <2>1 DEF Redeeming, Registering, Finish, Idle, SInv, TypeOK
    <2>3. CASE txn[p].token = k
      <3>1. p \in Redeeming(k)
        BY <2>1, <2>3 DEF Redeeming
      <3>2. Cardinality(Redeeming(k) \ {p}) = Cardinality(Redeeming(k)) - 1
            /\ IsFiniteSet(Redeeming(k) \ {p})
        BY <3>1, RedeemingFacts, FS_RemoveElement
      <3>3. /\ Cardinality(Redeeming(k)') \in Nat
            /\ Cardinality(Redeeming(k)') <= Cardinality(Redeeming(k)) - 1
        BY <2>2, <3>2, FS_Subset, FS_CardinalityType
      <3>4. redeemed'[k] = redeemed[k] \cup {txn[p].device}
        BY <2>1, <2>3 DEF SInv, TypeOK
      <3>5. /\ IsFiniteSet(redeemed'[k])
            /\ Cardinality(redeemed'[k]) \in Nat
            /\ Cardinality(redeemed'[k]) <= Cardinality(redeemed[k]) + 1
        <4> DEFINE R == redeemed[k]
                   d == txn[p].device
        <4>1. IsFiniteSet(R) /\ Cardinality(R) \in Nat
          BY <1>n
        <4> HIDE DEF R, d
        <4>2. /\ IsFiniteSet(R \cup {d})
              /\ Cardinality(R \cup {d}) = IF d \in R THEN Cardinality(R) ELSE Cardinality(R) + 1
          BY <4>1, FS_AddElement
        <4>3. /\ IsFiniteSet(R \cup {d})
              /\ Cardinality(R \cup {d}) \in Nat
              /\ Cardinality(R \cup {d}) <= Cardinality(R) + 1
          BY <4>1, <4>2
        <4> QED BY <4>3, <3>4 DEF R, d
      <3> QED BY <3>3, <3>5, <1>n
    <2>4. CASE txn[p].token # k
      <3>1. redeemed'[k] = redeemed[k]
        BY <2>1, <2>4 DEF SInv, TypeOK
      <3> QED BY <3>1, <2>2, <1>s
    <2> QED BY <2>3, <2>4
  <1>3. ASSUME NEW p \in Procs,
               \/ BeginDisable(p) \/ CommitDisable(p) \/ BeginHeartbeat(p)
               \/ CommitHeartbeat(p) \/ Rollback(p)
        PROVE  redeemed' = redeemed /\ Redeeming(k)' \subseteq Redeeming(k)
    <2>1. redeemed' = redeemed
      BY <1>3 DEF BeginDisable, CommitDisable, BeginHeartbeat, CommitHeartbeat, Rollback
    <2>2. CASE CommitDisable(p) \/ CommitHeartbeat(p) \/ Rollback(p)
      <3>1. Finish(p)
        BY <2>2 DEF CommitDisable, CommitHeartbeat, Rollback
      <3>2. /\ txn'[p] = Idle
            /\ \A q \in Procs : q # p => txn'[q] = txn[q]
        BY <3>1, FinishFacts DEF SInv
      <3> QED BY <2>1, <3>2 DEF Redeeming, Registering, Idle
    <2>3. CASE BeginDisable(p)
      BY <2>1, <2>3 DEF BeginDisable, Redeeming, Registering, SInv, TypeOK
    <2>4. CASE BeginHeartbeat(p)
      BY <2>1, <2>4 DEF BeginHeartbeat, Redeeming, Registering, SInv, TypeOK
    <2> QED BY <1>3, <2>2, <2>3, <2>4
  <1>4. ASSUME \/ \E l \in SetupTokens : CreateSetupToken(l) \/ Expire(l)
               \/ GoStale \/ UNCHANGED vars
        PROVE  redeemed' = redeemed /\ Redeeming(k)' \subseteq Redeeming(k)
    BY <1>4 DEF CreateSetupToken, Expire, GoStale, vars, Redeeming, Registering
  <1> QED BY <1>1, <1>2, <1>3, <1>4, <1>s DEF Next

\* However register_device's transactions interleave, one setup token buys at most as many
\* devices as there are API processes.
THEOREM OneRedemptionPerProcess == Spec => []RedemptionsBounded
  <1>1. RedemptionsFit => RedemptionsBounded
    <2> SUFFICES ASSUME RedemptionsFit, NEW k \in SetupTokens
                 PROVE  Cardinality(redeemed[k]) <= Cardinality(Procs)
      BY DEF RedemptionsBounded
    <2>1. Cardinality(redeemed[k]) \in Nat
      BY FS_CardinalityType DEF RedemptionsFit
    <2> QED BY <2>1, RedeemingFacts DEF RedemptionsFit
  <1>2. Spec => []RedemptionsFit
    BY SpecSInv, InitRedemptionsFit, NextRedemptionsFit, PTL DEF Spec
  <1> QED BY <1>1, <1>2, PTL

-----------------------------------------------------------------------------
(* A single API process *)

\* With one process "single-use" holds to the letter.
THEOREM SingleUse ==
  ASSUME Cardinality(Procs) = 1
  PROVE  Spec => []RedeemedAtMostOnce
  <1>1. RedemptionsBounded => RedeemedAtMostOnce
    BY DEF RedemptionsBounded, RedeemedAtMostOnce
  <1> QED BY <1>1, OneRedemptionPerProcess, PTL

-----------------------------------------------------------------------------
(* Overlapping registrations *)

\* A registration leaves its own device in the row, and a token that works unless a disable
\* committed since it read the row.
LEMMA RegisterAccepts ==
  ASSUME SInv, NEW p \in Procs, CommitRegister(p), ~DisabledSince(p),
         NEW d \in Devices, d = txn[p].device
  PROVE  Accepts(d)'
  <1>1. exists' /\ worker'.device = d
    BY RegisterWrites DEF CommitRegister
  <1>2. worker'.status # "revoked"
    BY DEF CommitRegister, DisabledSince, Written, Merge
  <1> QED BY <1>1, <1>2 DEF Accepts

\* The device of a registration is registered by its commit and not before.
LEMMA RegisterRegisters ==
  ASSUME SInv, NEW p \in Procs, CommitRegister(p), NEW d \in Devices
  PROVE  /\ txn[p].device \in Devices
         /\ IsRegistered(d)' /\ ~IsRegistered(d) <=> d = txn[p].device
  <1>1. txn[p] \in Registers /\ Registering(p)
    BY TxnKinds DEF SInv, CommitRegister, Registering
  <1>2. /\ txn[p].device \in Devices /\ txn[p].token \in SetupTokens
        /\ \A k \in SetupTokens : txn[p].device \notin redeemed[k]
    BY <1>1 DEF SInv, TokensAreFresh, Registers
  <1>3. /\ redeemed'[txn[p].token] = redeemed[txn[p].token] \cup {txn[p].device}
        /\ \A k \in SetupTokens : k # txn[p].token => redeemed'[k] = redeemed[k]
    BY <1>2 DEF SInv, TypeOK, CommitRegister
  <1>4. IsRegistered(d)' <=> \E k \in SetupTokens : d \in redeemed'[k]
    BY DEF IsRegistered
  <1>5. IsRegistered(d) <=> \E k \in SetupTokens : d \in redeemed[k]
    BY DEF IsRegistered
  <1> QED BY <1>2, <1>3, <1>4, <1>5

\* However many processes register, disable and send heartbeats at once, the device token of
\* a registration works, unless a disable committed while it was under way, until a disable
\* or a later registration ends it.
THEOREM RegistrationsHold == Spec => RegistrationHolds
  <1> DEFINE Starts(d) == IsRegistered(d)' /\ ~IsRegistered(d)
             Overtaken(d) == \E p \in Procs : DisabledSince(p) /\ txn[p].device = d
             Replaced == \E e \in Devices : Starts(e) /\ worker'.device = e
             Holds(d) == /\ Starts(d) => Accepts(d)' \/ Overtaken(d)
                         /\ Accepts(d) => Accepts(d)' \/ d \in disabled' \/ Replaced
  <1>1. ASSUME SInv, Next, NEW d \in Devices
        PROVE  Holds(d)
    <2>1. ASSUME NEW p \in Procs, CommitRegister(p)
          PROVE  Holds(d)
      <3>1. Starts(d) => Accepts(d)' \/ Overtaken(d)
        <4>1. Starts(d) => d = txn[p].device
          BY <1>1, <2>1, RegisterRegisters
        <4>2. ~DisabledSince(p) /\ d = txn[p].device => Accepts(d)'
          BY <1>1, <2>1, RegisterAccepts
        <4> QED BY <4>1, <4>2
      <3>2. Replaced
        <4>1. PICK e \in Devices : e = txn[p].device
          BY <1>1, <2>1, RegisterRegisters
        <4>2. Starts(e)
          BY <1>1, <2>1, <4>1, RegisterRegisters
        <4> QED BY <1>1, <2>1, <4>1, <4>2, RegisterWrites
      <3> QED BY <3>1, <3>2
    <2>2. ASSUME NEW p \in Procs, CommitDisable(p) \/ CommitHeartbeat(p)
          PROVE  Holds(d)
      <3>1. ~Starts(d)
        BY <2>2 DEF CommitDisable, CommitHeartbeat, IsRegistered
      <3>2. ASSUME Accepts(d)
            PROVE  Accepts(d)' \/ d \in disabled'
        <4>1. exists' /\ worker'.device = d
          BY <1>1, <2>2, <3>2, UpdateWrites DEF Accepts, CommitDisable, CommitHeartbeat
        <4>2. CASE worker'.status # "revoked"
          BY <4>1, <4>2 DEF Accepts
        <4>3. CASE worker'.status = "revoked"
          <5>1. CASE CommitDisable(p)
            BY <4>1, <4>3, <5>1, DeviceFacts DEF CommitDisable
          <5>2. CASE CommitHeartbeat(p)
            <6>1. txn[p] \in Updates /\ txn[p].had = TRUE
              BY <1>1, <3>2, <5>2, TxnKinds
              DEF SInv, CommitHeartbeat, InsertConflict, Accepts, Updates
            <6>2. worker'.status = worker.status
              BY <1>1, <5>2, <6>1 DEF CommitHeartbeat, Written, Merge, SInv, TypeOK
            <6> QED BY <3>2, <4>3, <6>2 DEF Accepts
          <5> QED BY <2>2, <5>1, <5>2
        <4> QED BY <4>2, <4>3
      <3> QED BY <3>1, <3>2
    <2>3. ASSUME UNCHANGED <<exists, worker, redeemed>>
          PROVE  Holds(d)
      BY <2>3 DEF Accepts, IsRegistered
    <2>4. \/ UNCHANGED <<exists, worker, redeemed>>
          \/ \E p \in Procs : CommitRegister(p) \/ CommitDisable(p) \/ CommitHeartbeat(p)
      BY <1>1 DEF Next, CreateSetupToken, Expire, BeginRegister, BeginDisable, BeginHeartbeat,
                  Rollback, GoStale, rowVars
    <2> QED BY <2>1, <2>2, <2>3, <2>4
  <1>2. SInv /\ [Next]_vars =>
          [\A d \in Devices :
             /\ IsRegistered(d)' /\ ~IsRegistered(d) =>
                  \/ Accepts(d)'
                  \/ \E p \in Procs : DisabledSince(p) /\ txn[p].device = d
             /\ Accepts(d) =>
                  \/ Accepts(d)'
                  \/ d \in disabled'
                  \/ \E e \in Devices :
                       IsRegistered(e)' /\ ~IsRegistered(e) /\ worker'.device = e]_vars
    BY <1>1
  <1> QED BY <1>2, SpecSInv, PTL DEF Spec, RegistrationHolds
=============================================================================
