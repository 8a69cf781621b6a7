------------------------ MODULE ApprovalManagerProofs ------------------------
(***************************************************************************)
(* Theorems about ApprovalManager, for any number of threads, approvers,   *)
(* keys and requests and any quorum and limit.                             *)
(***************************************************************************)
EXTENDS ApprovalManager, FiniteSetTheorems, TLAPS

Locked(c) == call[c].at \in {"holding", "deciding"}
Reads(c)  == call[c].at = "reading"
Works(c)  == Locked(c) \/ Reads(c)
IsOpen(c) == call[c].copy.status \in Active

QuorumOf(x) ==
  /\ x.status \in {"approved", "revoked"} => Cardinality(x.approved_by) >= Required
  /\ x.status = "partially_approved" => Cardinality(x.approved_by) < Required
  /\ x.status = "absent" => x.approved_by = {}

\* The mutation lock has one holder.
Exclusive == \A c, d \in Calls : Locked(c) /\ Locked(d) => c = d

\* Copies are of stored requests and, like the records, count their approvals honestly.
CopiesAreSound ==
  /\ \A c \in Calls : Works(c) =>
       /\ call[c].id \in Stored
       /\ call[c].copy.status # "absent"
       /\ QuorumOf(call[c].copy)
  /\ \A r \in Requests : QuorumOf(record[r])

\* Under the lock an open copy is current, but for readers who wrote the request expired.
LockedIsCurrent ==
  \A c \in Calls : Locked(c) /\ IsOpen(c) =>
    /\ call[c].id \notin refused
    /\ record[call[c].id].status \in {call[c].copy.status, "expired"}
    /\ record[call[c].id].approved_by \subseteq call[c].copy.approved_by

\* A reader's open copy has no approval that the record, or the decision under way, lacks.
ReadersAreBehind ==
  \A c \in Calls : Reads(c) /\ IsOpen(c) =>
    /\ record[call[c].id].status \in Active \cup {"approved"} =>
         call[c].copy.approved_by \subseteq record[call[c].id].approved_by
    /\ \A d \in Calls : Locked(d) /\ IsOpen(d) /\ call[d].id = call[c].id =>
         call[c].copy.approved_by \subseteq call[d].copy.approved_by

\* The index names stored requests.
IndexIsSound == \A k \in Keys : index[k] # None => index[k] \in Stored

AInv == /\ TypeOK
        /\ IndexIsSound
        /\ Exclusive
        /\ CopiesAreSound
        /\ LockedIsCurrent
        /\ ReadersAreBehind
        /\ RefusalIsFinal

-----------------------------------------------------------------------------
\* What a thread is in the middle of.
LEMMA CallKinds ==
  ASSUME TypeOK, NEW c \in Calls
  PROVE  /\ Works(c) => call[c] \in Working
         /\ call[c].at \in {"counted", "vetted"} => call[c] \in Creating
         /\ call[c] = Idle => ~Works(c)
  BY DEF TypeOK, Works, Locked, Reads, Working, Creating, Idle

\* Numbers of approvers can be compared.
LEMMA ApproverCount ==
  ASSUME NEW A \in SUBSET Actors
  PROVE  Cardinality(A) \in Nat
  BY ApprovalAssumption, FS_Subset, FS_CardinalityType

LEMMA InitAInv == Init => AInv
  <1> SUFFICES ASSUME Init PROVE AInv
    OBVIOUS
  <1>1. TypeOK
    BY ApprovalAssumption DEF Init, TypeOK, Records, Idle, None, Active, Terminal, Refused
  <1>2. \A c \in Calls : ~Works(c)
    BY <1>1, CallKinds DEF Init
  <1>3. \A r \in Requests : QuorumOf(record[r])
    BY DEF Init, QuorumOf
  <1>4. refused = {}
    BY DEF Init
  <1>5. IndexIsSound
    BY DEF Init, IndexIsSound
  <1> QED
    BY <1>1, <1>2, <1>3, <1>4, <1>5
    DEF AInv, Exclusive, CopiesAreSound, LockedIsCurrent, ReadersAreBehind, RefusalIsFinal, Works

-----------------------------------------------------------------------------
(* Steps that leave the repository alone.  A thread's new state is x. *)

\* A thread that ends, or goes on creating, gives up its copy.
LEMMA QuietEnd ==
  ASSUME AInv, NEW c \in Calls, NEW x \in {Idle} \cup Creating, Goes(c, x),
         UNCHANGED storeVars, overdue' \in SUBSET Requests
  PROVE  AInv'
  <1>1. TypeOK'
    BY DEF AInv, TypeOK, Goes, storeVars
  <1>2. \A d \in Calls : (d # c /\ call'[d] = call[d]) \/ ~Works(d)'
    BY DEF AInv, TypeOK, Goes, Works, Locked, Reads, Idle, Creating
  <1>3. \A d \in Calls : Works(d)' => Works(d) /\ call'[d] = call[d]
                                      /\ (Locked(d)' <=> Locked(d)) /\ (IsOpen(d)' <=> IsOpen(d))
    BY <1>2 DEF Works, Locked, Reads, IsOpen
  <1>4. record' = record /\ refused' = refused
    BY DEF storeVars
  <1>5. Exclusive'
    BY <1>3 DEF AInv, Exclusive, Works
  <1>6. CopiesAreSound'
    BY <1>3, <1>4 DEF AInv, CopiesAreSound, Stored, QuorumOf
  <1>7. LockedIsCurrent'
    BY <1>3, <1>4 DEF AInv, LockedIsCurrent, Works
  <1>8. ReadersAreBehind'
    BY <1>3, <1>4 DEF AInv, ReadersAreBehind, Works, Reads
  <1>9. RefusalIsFinal'
    BY <1>4 DEF AInv, RefusalIsFinal
  <1>10. IndexIsSound'
    BY DEF AInv, IndexIsSound, Stored, storeVars
  <1> QED BY <1>1, <1>5, <1>6, <1>7, <1>8, <1>9, <1>10 DEF AInv

\* A thread takes a copy of a record, to read it or, if nobody else is there, under the lock.
LEMMA QuietCopy ==
  ASSUME AInv, NEW c \in Calls, ~Works(c), NEW r \in Stored, NEW at \in {"reading", "holding"},
         at = "holding" => \A d \in Calls : ~Locked(d),
         Goes(c, [at |-> at, id |-> r, copy |-> record[r]]),
         UNCHANGED <<storeVars, overdue>>
  PROVE  AInv'
  <1> DEFINE x == [at |-> at, id |-> r, copy |-> record[r]]
  <1>1. r \in Requests /\ record[r] \in Records /\ record[r].status # "absent"
    BY DEF AInv, TypeOK, Stored
  <1>2. x \in Working /\ x.at = at /\ x.id = r /\ x.copy = record[r]
    BY <1>1 DEF Working
  <1>3. call' \in [Calls -> {Idle} \cup Creating \cup Working] /\ call' = [call EXCEPT ![c] = x]
    BY <1>2 DEF AInv, TypeOK, Goes
  <1> HIDE DEF x
  <1>4. TypeOK'
    BY <1>3 DEF AInv, TypeOK, storeVars
  <1>5. /\ call'[c] = x
        /\ \A d \in Calls \ {c} : /\ call'[d] = call[d] /\ (Locked(d)' <=> Locked(d))
                                  /\ (Reads(d)' <=> Reads(d)) /\ (IsOpen(d)' <=> IsOpen(d))
    BY <1>3 DEF AInv, TypeOK, Locked, Reads, IsOpen
  <1>6. record' = record /\ refused' = refused
    BY DEF storeVars
  <1>7. Exclusive'
    BY <1>2, <1>5 DEF AInv, Exclusive, Locked
  <1>8. CopiesAreSound'
    BY <1>1, <1>2, <1>5, <1>6 DEF AInv, CopiesAreSound, Stored, QuorumOf, Works
  <1>9. LockedIsCurrent'
    <2> SUFFICES ASSUME NEW d \in Calls, Locked(d)', IsOpen(d)'
                 PROVE  (/\ call[d].id \notin refused
                         /\ record[call[d].id].status \in {call[d].copy.status, "expired"}
                         /\ record[call[d].id].approved_by \subseteq call[d].copy.approved_by)'
      BY DEF LockedIsCurrent
    <2>1. CASE d = c
      <3>1. record[r].status \in Active
        BY <1>2, <1>5, <2>1 DEF IsOpen
      <3>2. r \notin refused
        BY <3>1 DEF AInv, RefusalIsFinal, Active, Refused
      <3> QED BY <3>2, <1>2, <1>5, <1>6, <2>1
    <2>2. CASE d # c
      BY <1>5, <1>6, <2>2 DEF AInv, LockedIsCurrent
    <2> QED BY <2>1, <2>2
  <1>10. ReadersAreBehind'
    <2> SUFFICES ASSUME NEW b \in Calls, Reads(b)', IsOpen(b)'
                 PROVE  (/\ record[call[b].id].status \in Active \cup {"approved"} =>
                              call[b].copy.approved_by \subseteq record[call[b].id].approved_by
                         /\ \A d \in Calls : Locked(d) /\ IsOpen(d) /\ call[d].id = call[b].id =>
                              call[b].copy.approved_by \subseteq call[d].copy.approved_by)'
      BY DEF ReadersAreBehind
    <2>1. CASE b = c
      <3>1. \A d \in Calls : Locked(d)' => d # c
        BY <1>2, <1>5, <2>1 DEF Locked, Reads
      <3> QED BY <3>1, <1>2, <1>5, <1>6, <2>1 DEF AInv, LockedIsCurrent
    <2>2. CASE b # c
      <3>1. \A d \in Calls \ {c} : Locked(d)' /\ IsOpen(d)' /\ call'[d].id = call'[b].id =>
              call'[b].copy.approved_by \subseteq call'[d].copy.approved_by
        BY <1>5, <2>2 DEF AInv, ReadersAreBehind
      <3>2. Locked(c)' /\ IsOpen(c)' /\ call'[c].id = call'[b].id =>
              call'[b].copy.approved_by \subseteq call'[c].copy.approved_by
        BY <1>2, <1>5, <2>2 DEF AInv, ReadersAreBehind, IsOpen
      <3> QED BY <3>1, <3>2, <1>5, <1>6, <2>2 DEF AInv, ReadersAreBehind
    <2> QED BY <2>1, <2>2
  <1>11. RefusalIsFinal'
    BY <1>6 DEF AInv, RefusalIsFinal
  <1>12. IndexIsSound'
    BY DEF AInv, IndexIsSound, Stored, storeVars
  <1> QED BY <1>4, <1>7, <1>8, <1>9, <1>10, <1>11, <1>12 DEF AInv

\* The holder of the lock goes on from reading to deciding, with the same copy.
LEMMA QuietDecide ==
  ASSUME AInv, NEW c \in Calls, call[c].at = "holding",
         Goes(c, [call[c] EXCEPT !.at = "deciding"]), UNCHANGED <<storeVars, overdue>>
  PROVE  AInv'
  <1>1. Works(c) /\ call[c] \in Working
    BY CallKinds DEF AInv, Works, Locked
  <1>2. call'[c] = [call[c] EXCEPT !.at = "deciding"] /\ call'[c] \in Working
    BY <1>1 DEF AInv, TypeOK, Goes, Working
  <1>3. \A d \in Calls : /\ Works(d) => call'[d].id = call[d].id /\ call'[d].copy = call[d].copy
                         /\ d # c => call'[d] = call[d]
    BY <1>1, <1>2 DEF AInv, TypeOK, Goes, Working
  <1>4. \A d \in Calls : /\ (Locked(d)' <=> Locked(d)) /\ (Reads(d)' <=> Reads(d))
                         /\ Works(d) => (IsOpen(d)' <=> IsOpen(d))
    BY <1>1, <1>2, <1>3 DEF Locked, Reads, IsOpen, Working
  <1>5. record' = record /\ refused' = refused
    BY DEF storeVars
  <1>6. TypeOK'
    <2>1. call' \in [Calls -> {Idle} \cup Creating \cup Working]
      BY <1>2 DEF AInv, TypeOK, Goes
    <2> QED BY <2>1 DEF AInv, TypeOK, storeVars
  <1>7. Exclusive'
    BY <1>4 DEF AInv, Exclusive
  <1>8. CopiesAreSound'
    BY <1>3, <1>4, <1>5 DEF AInv, CopiesAreSound, Works, Stored, QuorumOf
  <1>9. LockedIsCurrent'
    BY <1>3, <1>4, <1>5 DEF AInv, LockedIsCurrent, Works
  <1>10. ReadersAreBehind'
    BY <1>3, <1>4, <1>5 DEF AInv, ReadersAreBehind, Works
  <1>11. RefusalIsFinal'
    BY <1>5 DEF AInv, RefusalIsFinal
  <1>12. IndexIsSound'
    BY DEF AInv, IndexIsSound, Stored, storeVars
  <1> QED BY <1>6, <1>7, <1>8, <1>9, <1>10, <1>11, <1>12 DEF AInv

-----------------------------------------------------------------------------
(* Steps that write the repository *)

\* The repository keeps its shape when a request is replaced.
LEMMA UpdateType ==
  ASSUME TypeOK, NEW c \in Calls, NEW r \in Requests, NEW new \in Records,
         Update(r, new), Ends(c)
  PROVE  /\ TypeOK'
         /\ record' = [record EXCEPT ![r] = new]
         /\ record'[r] = new /\ \A s \in Requests \ {r} : record'[s] = record[s]
         /\ call'[c] = Idle /\ \A d \in Calls \ {c} : call'[d] = call[d]
         /\ ~Works(c)'
         /\ \A d \in Calls \ {c} : /\ (Locked(d)' <=> Locked(d)) /\ (Reads(d)' <=> Reads(d))
                                   /\ (IsOpen(d)' <=> IsOpen(d)) /\ (Works(d)' <=> Works(d))
  <1>1. record' \in [Requests -> Records]
    BY DEF TypeOK, Update
  <1>2. keyed[r] \in Keys \cup {NoKey}
    BY DEF TypeOK
  <1>3. index' \in [Keys -> Requests \cup {None}]
    BY <1>2 DEF TypeOK, Update, Indexed
  <1>4. refused' \in SUBSET Requests
    BY DEF TypeOK, Update
  <1>5. call' \in [Calls -> {Idle} \cup Creating \cup Working]
    BY DEF TypeOK, Ends, Goes
  <1>6. TypeOK'
    BY <1>1, <1>3, <1>4, <1>5 DEF TypeOK, Update
  <1>7. /\ record' = [record EXCEPT ![r] = new]
        /\ record'[r] = new /\ \A s \in Requests \ {r} : record'[s] = record[s]
    BY DEF TypeOK, Update
  <1>8. call'[c] = Idle /\ \A d \in Calls \ {c} : call'[d] = call[d]
    BY DEF TypeOK, Ends, Goes
  <1>9. ~Works(c)'
    BY <1>8 DEF Works, Locked, Reads, Idle
  <1> QED BY <1>6, <1>7, <1>8, <1>9 DEF Locked, Reads, IsOpen, Works

\* Expiry writes back a copy that has no approval a decision under way lacks.
LEMMA WriteExpired ==
  ASSUME AInv, NEW c \in Calls, Works(c), IsOpen(c),
         Update(call[c].id, [call[c].copy EXCEPT !.status = "expired"]), Ends(c)
  PROVE  AInv'
  <1> DEFINE r == call[c].id
             new == [call[c].copy EXCEPT !.status = "expired"]
  <1>1. call[c] \in Working /\ r \in Requests /\ call[c].copy \in Records
    BY CallKinds DEF AInv, Working
  <1>2. new \in Records /\ new.status = "expired" /\ new.approved_by = call[c].copy.approved_by
    BY <1>1 DEF Records, Terminal
  <1>3. Update(r, new)
    OBVIOUS
  <1> HIDE DEF r, new
  <1>4. /\ TypeOK'
        /\ record'[r] = new /\ \A s \in Requests \ {r} : record'[s] = record[s]
        /\ call'[c] = Idle /\ \A d \in Calls \ {c} : call'[d] = call[d]
        /\ ~Works(c)'
        /\ \A d \in Calls \ {c} : /\ (Locked(d)' <=> Locked(d)) /\ (Reads(d)' <=> Reads(d))
                                  /\ (IsOpen(d)' <=> IsOpen(d)) /\ (Works(d)' <=> Works(d))
    BY <1>1, <1>2, <1>3, UpdateType DEF AInv
  <1>5. refused' = refused
    BY <1>2, <1>3 DEF Update, Refused
  <1>6. Exclusive'
    BY <1>4 DEF AInv, Exclusive, Works
  <1>7. QuorumOf(new)
    BY <1>2 DEF QuorumOf
  <1>8. CopiesAreSound'
    <2>1. \A s \in Requests : QuorumOf(record'[s])
      BY <1>4, <1>7 DEF AInv, CopiesAreSound
    <2>2. Stored \subseteq Stored'
      BY <1>2, <1>4 DEF Stored
    <2>3. ASSUME NEW d \in Calls, Works(d)'
          PROVE  call'[d].id \in Stored' /\ call'[d].copy.status # "absent"
                 /\ QuorumOf(call'[d].copy)
      BY <1>4, <2>2, <2>3 DEF AInv, CopiesAreSound
    <2>4. \A s \in Requests : QuorumOf(record[s])'
      BY <2>1 DEF QuorumOf
    <2>5. \A d \in Calls : Works(d)' => QuorumOf(call[d].copy)'
      BY <2>3 DEF QuorumOf
    <2> QED BY <2>3, <2>4, <2>5 DEF CopiesAreSound
  <1>9. LockedIsCurrent'
    <2> SUFFICES ASSUME NEW d \in Calls, Locked(d)', IsOpen(d)'
                 PROVE  (/\ call[d].id \notin refused
                         /\ record[call[d].id].status \in {call[d].copy.status, "expired"}
                         /\ record[call[d].id].approved_by \subseteq call[d].copy.approved_by)'
      BY DEF LockedIsCurrent
    <2>1. d # c
      BY <1>4 DEF Works
    <2>2. Locked(d) /\ IsOpen(d) /\ call'[d] = call[d] /\ call[d].id \in Requests
      BY <1>4, <2>1, CallKinds DEF AInv, Works, Working
    <2>3. CASE call[d].id = r
      <3>1. Reads(c)
        BY <2>1, <2>2 DEF AInv, Exclusive, Works
      <3>2. call[c].copy.approved_by \subseteq call[d].copy.approved_by
        BY <2>2, <2>3, <3>1 DEF AInv, ReadersAreBehind, r
      <3> QED BY <1>2, <1>4, <1>5, <2>2, <2>3, <3>2 DEF AInv, LockedIsCurrent
    <2>4. CASE call[d].id # r
      BY <1>4, <1>5, <2>2, <2>4 DEF AInv, LockedIsCurrent
    <2> QED BY <2>3, <2>4
  <1>10. ReadersAreBehind'
    <2> SUFFICES ASSUME NEW b \in Calls, Reads(b)', IsOpen(b)'
                 PROVE  (/\ record[call[b].id].status \in Active \cup {"approved"} =>
                              call[b].copy.approved_by \subseteq record[call[b].id].approved_by
                         /\ \A d \in Calls : Locked(d) /\ IsOpen(d) /\ call[d].id = call[b].id =>
                              call[b].copy.approved_by \subseteq call[d].copy.approved_by)'
      BY DEF ReadersAreBehind
    <2>1. b # c /\ \A d \in Calls : Locked(d)' => d # c
      BY <1>4 DEF Works
    <2>2. Reads(b) /\ IsOpen(b) /\ call'[b] = call[b] /\ call[b].id \in Requests
      BY <1>4, <2>1, CallKinds DEF AInv, Works, Working
    <2>3. \A d \in Calls : Locked(d)' /\ IsOpen(d)' /\ call'[d].id = call'[b].id =>
            call'[b].copy.approved_by \subseteq call'[d].copy.approved_by
      BY <1>4, <2>1, <2>2 DEF AInv, ReadersAreBehind
    <2>4. record'[r].status \notin Active \cup {"approved"}
      BY <1>2, <1>4 DEF Active
    <2> QED BY <1>4, <2>2, <2>3, <2>4 DEF AInv, ReadersAreBehind
  <1>11. RefusalIsFinal'
    BY <1>2, <1>4, <1>5 DEF AInv, RefusalIsFinal, TypeOK
  <1>12. IndexIsSound'
    BY <1>1, <1>2, <1>3, <1>4 DEF AInv, IndexIsSound, Stored, Update, Indexed, TypeOK
  <1> QED BY <1>4, <1>6, <1>8, <1>9, <1>10, <1>11, <1>12 DEF AInv

\* A decision or transition writes under the lock what it made of its copy: a refusal, or
\* the copy's approvals and perhaps one more.
LEMMA WriteDecision ==
  ASSUME AInv, NEW c \in Calls, Locked(c),
         NEW new \in Records, QuorumOf(new), new.status # "absent",
         new.status \notin Refused =>
           IsOpen(c) /\ call[c].copy.approved_by \subseteq new.approved_by,
         Update(call[c].id, new), Ends(c)
  PROVE  AInv'
  <1> DEFINE r == call[c].id
  <1>1. call[c] \in Working /\ r \in Requests
    BY CallKinds DEF AInv, Working, Works
  <1>2. Update(r, new)
    OBVIOUS
  <1> HIDE DEF r
  <1>3. /\ TypeOK'
        /\ record'[r] = new /\ \A s \in Requests \ {r} : record'[s] = record[s]
        /\ call'[c] = Idle /\ \A d \in Calls \ {c} : call'[d] = call[d]
        /\ ~Works(c)'
        /\ \A d \in Calls \ {c} : /\ (Locked(d)' <=> Locked(d)) /\ (Reads(d)' <=> Reads(d))
                                  /\ (IsOpen(d)' <=> IsOpen(d)) /\ (Works(d)' <=> Works(d))
    BY <1>1, <1>2, UpdateType DEF AInv
  <1>4. \A d \in Calls : ~Locked(d)'
    BY <1>3 DEF AInv, Exclusive, Works
  <1>5. Exclusive' /\ LockedIsCurrent'
    BY <1>4 DEF Exclusive, LockedIsCurrent
  <1>6. CopiesAreSound'
    <2>1. \A s \in Requests : QuorumOf(record'[s])
      BY <1>3 DEF AInv, CopiesAreSound
    <2>2. Stored \subseteq Stored'
      BY <1>3 DEF Stored
    <2>3. ASSUME NEW d \in Calls, Works(d)'
          PROVE  call'[d].id \in Stored' /\ call'[d].copy.status # "absent"
                 /\ QuorumOf(call'[d].copy)
      BY <1>3, <2>2, <2>3 DEF AInv, CopiesAreSound
    <2>4. \A s \in Requests : QuorumOf(record[s])'
      BY <2>1 DEF QuorumOf
    <2>5. \A d \in Calls : Works(d)' => QuorumOf(call[d].copy)'
      BY <2>3 DEF QuorumOf
    <2> QED BY <2>3, <2>4, <2>5 DEF CopiesAreSound
  <1>7. ReadersAreBehind'
    <2> SUFFICES ASSUME NEW b \in Calls, Reads(b)', IsOpen(b)',
                        record'[call'[b].id].status \in Active \cup {"approved"}
                 PROVE  call'[b].copy.approved_by \subseteq record'[call'[b].id].approved_by
      BY <1>4 DEF ReadersAreBehind
    <2>1. b # c
      BY <1>3 DEF Works
    <2>2. Reads(b) /\ IsOpen(b) /\ call'[b] = call[b] /\ call[b].id \in Requests
      BY <1>3, <2>1, CallKinds DEF AInv, Works, Working
    <2>3. CASE call[b].id = r
      <3>1. new.status \notin Refused
        BY <1>3, <2>2, <2>3 DEF Active, Refused
      <3>2. call[b].copy.approved_by \subseteq call[c].copy.approved_by
        BY <2>2, <2>3, <3>1 DEF AInv, ReadersAreBehind, r
      <3> QED BY <1>3, <2>2, <2>3, <3>1, <3>2
    <2>4. CASE call[b].id # r
      BY <1>3, <2>2, <2>4 DEF AInv, ReadersAreBehind
    <2> QED BY <2>3, <2>4
  <1>8. RefusalIsFinal'
    <2>1. new.status \notin Refused => r \notin refused
      BY DEF AInv, LockedIsCurrent, r
    <2>2. refused' = IF new.status \in Refused THEN refused \cup {r} ELSE refused
      BY <1>2 DEF Update
    <2> QED BY <1>1, <1>3, <2>1, <2>2 DEF AInv, RefusalIsFinal, TypeOK
  <1>9. IndexIsSound'
    BY <1>1, <1>2, <1>3 DEF AInv, IndexIsSound, Stored, Update, Indexed, TypeOK
  <1> QED BY <1>3, <1>5, <1>6, <1>7, <1>8, <1>9 DEF AInv

\* A new request is stored where nobody has a copy.
LEMMA StoreKeepsAInv ==
  ASSUME AInv, NEW c \in Calls, NEW r \in Requests, Store(c, r)
  PROVE  AInv'
  <1> DEFINE new == [status |-> "pending", approved_by |-> {}]
  <1>1. new \in Records /\ new.status = "pending" /\ new.approved_by = {}
    BY DEF Records, Active
  <1>2. /\ record' = [record EXCEPT ![r] = new] /\ keyed' = [keyed EXCEPT ![r] = call[c].key]
        /\ index' = Indexed(call[c].key, r) /\ call' = [call EXCEPT ![c] = Idle]
        /\ overdue' = overdue /\ refused' = refused
        /\ r \notin Stored /\ call[c] \in Creating /\ ~Works(c)
    BY CallKinds DEF AInv, Store, Ends, Goes, IsNext, Works, Locked, Reads
  <1> HIDE DEF new
  <1>3. call[c].key \in Keys \cup {NoKey}
    BY <1>2 DEF Creating
  <1>4. TypeOK'
    <2>1. index' \in [Keys -> Requests \cup {None}]
      BY <1>2, <1>3 DEF AInv, TypeOK, Indexed
    <2> QED BY <1>1, <1>2, <1>3, <2>1 DEF AInv, TypeOK
  <1>5. record'[r] = new /\ \A s \in Requests \ {r} : record'[s] = record[s]
    BY <1>2 DEF AInv, TypeOK
  <1>6. call'[c] = Idle /\ \A d \in Calls \ {c} : call'[d] = call[d]
    BY <1>2 DEF AInv, TypeOK
  <1>7. \A d \in Calls : Works(d)' =>
          /\ Works(d) /\ call'[d] = call[d] /\ (Locked(d)' <=> Locked(d))
          /\ (Reads(d)' <=> Reads(d)) /\ (IsOpen(d)' <=> IsOpen(d))
    BY <1>6 DEF Works, Locked, Reads, IsOpen, Idle
  <1>8. \A d \in Calls : Works(d)' =>
          call[d].id \in Requests \ {r} /\ record'[call[d].id] = record[call[d].id]
    BY <1>2, <1>5, <1>7 DEF AInv, CopiesAreSound, Stored
  <1>9. Exclusive'
    BY <1>7 DEF AInv, Exclusive, Works
  <1>10. CopiesAreSound'
    <2>1. \A s \in Requests : QuorumOf(record'[s])
      BY <1>1, <1>5 DEF AInv, CopiesAreSound, QuorumOf
    <2>2. Stored \subseteq Stored'
      BY <1>1, <1>5 DEF Stored
    <2>3. ASSUME NEW d \in Calls, Works(d)'
          PROVE  call'[d].id \in Stored' /\ call'[d].copy.status # "absent"
                 /\ QuorumOf(call'[d].copy)
      BY <1>7, <2>2, <2>3 DEF AInv, CopiesAreSound
    <2>4. \A s \in Requests : QuorumOf(record[s])'
      BY <2>1 DEF QuorumOf
    <2>5. \A d \in Calls : Works(d)' => QuorumOf(call[d].copy)'
      BY <2>3 DEF QuorumOf
    <2> QED BY <2>3, <2>4, <2>5 DEF CopiesAreSound
  <1>11. LockedIsCurrent'
    BY <1>2, <1>7, <1>8 DEF AInv, LockedIsCurrent, Works
  <1>12. ReadersAreBehind'
    BY <1>7, <1>8 DEF AInv, ReadersAreBehind, Works
  <1>13. RefusalIsFinal'
    <2>1. r \notin refused
      BY <1>2 DEF AInv, RefusalIsFinal, Stored, Refused
    <2> QED BY <1>2, <1>5, <2>1 DEF AInv, RefusalIsFinal, TypeOK
  <1>14. IndexIsSound'
    BY <1>1, <1>2, <1>3, <1>5 DEF AInv, IndexIsSound, Stored, Indexed, TypeOK
  <1> QED BY <1>4, <1>9, <1>10, <1>11, <1>12, <1>13, <1>14 DEF AInv

\* The status a vote leads to agrees with the number of approvers.
LEMMA VoteIsCounted ==
  ASSUME NEW A \in SUBSET Actors
  PROVE  LET new == [status |-> IF Cardinality(A) >= Required
                                THEN "approved" ELSE "partially_approved",
                     approved_by |-> A]
         IN  new \in Records /\ QuorumOf(new) /\ new.status # "absent" /\ new.approved_by = A
  <1>1. Cardinality(A) \in Nat /\ Required \in Nat
    BY ApproverCount, ApprovalAssumption
  <1> QED BY <1>1 DEF Records, Active, Terminal, QuorumOf

LEMMA StepAInv == AInv /\ [Next]_vars => AInv'
  <1> SUFFICES ASSUME AInv, [Next]_vars PROVE AInv'
    OBVIOUS
  <1>1. CASE UNCHANGED vars
    BY <1>1 DEF vars, storeVars, AInv, TypeOK, Exclusive, CopiesAreSound, LockedIsCurrent,
       ReadersAreBehind, RefusalIsFinal, IndexIsSound, Stored, Works, Locked, Reads, IsOpen,
       QuorumOf
  <1>2. ASSUME NEW c \in Calls, NEW k \in Keys \cup {NoKey}, Count(c, k) PROVE AInv'
    <2>1. [at |-> "counted", key |-> k] \in Creating
      BY DEF Creating
    <2> QED BY <1>2, <2>1, QuietEnd DEF Count, AInv, TypeOK
  <1>3. ASSUME NEW c \in Calls, Replay(c) PROVE AInv'
    <2>1. call[c] \in Creating /\ ~Works(c)
      BY <1>3, CallKinds DEF AInv, Replay, Works, Locked, Reads
    <2>2. index[call[c].key] \in Stored
      BY <1>3, <2>1 DEF AInv, IndexIsSound, Replay, Found, Creating
    <2> QED BY <1>3, <2>1, <2>2, QuietCopy DEF Replay
  <1>4. ASSUME NEW c \in Calls, Vet(c) PROVE AInv'
    <2>1. call[c] \in Creating
      BY <1>4, CallKinds DEF AInv, Vet
    <2>2. [call[c] EXCEPT !.at = "vetted"] \in Creating
      BY <2>1 DEF Creating
    <2> QED BY <1>4, <2>2, QuietEnd DEF Vet, AInv, TypeOK
  <1>5. ASSUME NEW c \in Calls, NEW r \in Requests, Store(c, r) PROVE AInv'
    BY <1>5, StoreKeepsAInv
  <1>6. ASSUME NEW c \in Calls, NEW r \in Requests, Read(c, r) PROVE AInv'
    <2>1. r \in Stored /\ ~Works(c)
      BY <1>6, CallKinds DEF AInv, Read, Pending, Stored, Active
    <2> QED BY <1>6, <2>1, QuietCopy DEF Read
  <1>7. ASSUME NEW c \in Calls, NEW r \in Requests, Lock(c, r) PROVE AInv'
    <2>1. r \in Stored /\ ~Works(c) /\ \A d \in Calls : ~Locked(d)
      BY <1>7, CallKinds DEF AInv, Lock, Locked
    <2> QED BY <1>7, <2>1, QuietCopy DEF Lock
  <1>8. ASSUME NEW c \in Calls, Expire(c) PROVE AInv'
    BY <1>8, WriteExpired DEF Expire, IsExpired, Works, Locked, Reads, IsOpen
  <1>9. ASSUME NEW c \in Calls, Examine(c) PROVE AInv'
    <2>1. CASE call[c].at = "holding"
      BY <1>9, <2>1, QuietDecide DEF Examine
    <2>2. CASE call[c].at = "reading"
      BY <1>9, <2>2, QuietEnd DEF Examine, AInv, TypeOK
    <2> QED BY <1>9, <2>1, <2>2 DEF Examine
  <1>10. ASSUME NEW c \in Calls, NEW a \in Actors, Approve(c, a) PROVE AInv'
    <2> DEFINE A == call[c].copy.approved_by \cup {a}
    <2>1. Locked(c) /\ IsOpen(c) /\ Ends(c)
      BY <1>10 DEF Approve, Locked, IsOpen
    <2>2. A \in SUBSET Actors /\ call[c].copy.approved_by \subseteq A
      BY <2>1, CallKinds DEF AInv, Works, Working, Records
    <2>3. Update(call[c].id, [status |-> IF Cardinality(A) >= Required
                                         THEN "approved" ELSE "partially_approved",
                              approved_by |-> A])
      BY <1>10 DEF Approve
    <2> HIDE DEF A
    <2> QED BY <2>1, <2>2, <2>3, VoteIsCounted, WriteDecision
  <1>11. ASSUME NEW c \in Calls, NEW s \in Refused, Locked(c), call[c].at = "deciding",
                s = "revoked" => call[c].copy.status = "approved",
                Update(call[c].id, [call[c].copy EXCEPT !.status = s]), Ends(c)
         PROVE  AInv'
    <2> DEFINE new == [call[c].copy EXCEPT !.status = s]
    <2>1. call[c].copy \in Records /\ QuorumOf(call[c].copy)
      BY <1>11, CallKinds DEF AInv, Works, Working, CopiesAreSound
    <2>2. new \in Records /\ new.status = s /\ new.approved_by = call[c].copy.approved_by
      BY <2>1 DEF Records, Terminal
    <2>3. Update(call[c].id, new)
      BY <1>11
    <2> HIDE DEF new
    <2>4. QuorumOf(new) /\ new.status # "absent"
      BY <1>11, <2>1, <2>2 DEF QuorumOf, Refused
    <2> QED BY <1>11, <2>2, <2>3, <2>4, WriteDecision
  <1>12. ASSUME NEW c \in Calls, Deny(c) PROVE AInv'
    BY <1>11, <1>12 DEF Deny, Locked, Refused
  <1>13. ASSUME NEW c \in Calls, Cancel(c) PROVE AInv'
    BY <1>11, <1>13 DEF Cancel, Locked, Refused
  <1>14. ASSUME NEW c \in Calls, Revoke(c) PROVE AInv'
    BY <1>11, <1>14 DEF Revoke, Locked, Refused
  <1>15. ASSUME NEW c \in Calls, GiveUp(c) PROVE AInv'
    BY <1>15, QuietEnd DEF GiveUp, Ends, AInv, TypeOK
  <1>16. ASSUME NEW r \in Requests, Deadline(r) PROVE AInv'
    <2>1. TypeOK'
      BY <1>16 DEF AInv, TypeOK, Deadline, storeVars
    <2> QED BY <1>16, <2>1 DEF Deadline, storeVars, AInv, Exclusive, CopiesAreSound,
            LockedIsCurrent, ReadersAreBehind, RefusalIsFinal, IndexIsSound, Stored, Works,
            Locked, Reads, IsOpen, QuorumOf
  <1> QED BY <1>1, <1>2, <1>3, <1>4, <1>5, <1>6, <1>7, <1>8, <1>9, <1>10, <1>12, <1>13, <1>14,
          <1>15, <1>16 DEF Next

LEMMA SpecAInv == Spec => []AInv
  BY InitAInv, StepAInv, PTL DEF Spec

-----------------------------------------------------------------------------
(* The theorems *)

\* The repository and the threads' copies keep their types: every status that is written is
\* one its readers know.
THEOREM TypeCorrect == Spec => []TypeOK
  BY SpecAInv, PTL DEF AInv

\* A status that says approved has a quorum of distinct approvers behind it, and one that
\* says partially approved has not, however many threads decide and expire the request.
THEOREM Quorum == Spec => []ApprovedHasQuorum
  <1>1. AInv => ApprovedHasQuorum
    BY DEF AInv, CopiesAreSound, QuorumOf, ApprovedHasQuorum
  <1> QED BY <1>1, SpecAInv, PTL

\* A request that was denied, cancelled or revoked is never open or approved again.
THEOREM RefusalFinal == Spec => []RefusalIsFinal
  BY SpecAInv, PTL DEF AInv

\* A write that leaves a request open or approved loses no approval.
THEOREM ApprovalsKept == Spec => ApprovalsAreKept
  <1> DEFINE Kept == \A r \in Requests :
                       record'[r].status \in Active \cup {"approved"} =>
                         record[r].approved_by \subseteq record'[r].approved_by
  <1>1. ASSUME AInv, [Next]_vars PROVE Kept \/ UNCHANGED vars
    <2> SUFFICES ASSUME NEW r \in Requests, record'[r] # record[r],
                        record'[r].status \in Active \cup {"approved"}
                 PROVE  record[r].approved_by \subseteq record'[r].approved_by
      BY DEF Kept
    <2> USE <1>1
    <2>1. ASSUME record' = record PROVE FALSE
      BY <2>1
    <2>2. ASSUME NEW c \in Calls, Works(c), NEW new, Update(call[c].id, new)
          PROVE  r = call[c].id /\ record'[r] = new
      BY <2>2, CallKinds DEF AInv, TypeOK, Update, Working
    <2>3. ASSUME NEW c \in Calls, NEW s \in Refused \cup {"expired"}, Works(c),
                 Update(call[c].id, [call[c].copy EXCEPT !.status = s])
          PROVE  FALSE
      <3>1. call[c].copy \in Records
        BY <2>3, CallKinds DEF AInv, Working
      <3>2. record'[r] = [call[c].copy EXCEPT !.status = s]
        BY <2>3, <2>2
      <3>3. record'[r].status = s
        BY <3>1, <3>2 DEF Records
      <3> QED BY <3>3 DEF Refused, Active
    <2>4. CASE UNCHANGED vars
      BY <2>1, <2>4 DEF vars, storeVars
    <2>5. ASSUME NEW c \in Calls, NEW s \in Requests, Store(c, s)
          PROVE  record[r].approved_by \subseteq record'[r].approved_by
      <3>1. s = r /\ r \notin Stored
        BY <2>5 DEF AInv, TypeOK, Store, IsNext
      <3> QED BY <3>1 DEF AInv, CopiesAreSound, QuorumOf, Stored
    <2>6. ASSUME NEW c \in Calls, NEW a \in Actors, Approve(c, a)
          PROVE  record[r].approved_by \subseteq record'[r].approved_by
      <3> DEFINE A == call[c].copy.approved_by \cup {a}
                 new == [status |-> IF Cardinality(A) >= Required
                                    THEN "approved" ELSE "partially_approved",
                         approved_by |-> A]
      <3>1. Works(c) /\ Locked(c) /\ IsOpen(c) /\ Update(call[c].id, new)
        BY <2>6 DEF Approve, Works, Locked, IsOpen
      <3>2. new.approved_by = A
        OBVIOUS
      <3> HIDE DEF new
      <3>3. r = call[c].id /\ record'[r] = new
        BY <2>2, <3>1
      <3> QED BY <3>1, <3>2, <3>3 DEF AInv, LockedIsCurrent
    <2>7. ASSUME NEW c \in Calls, Expire(c) PROVE FALSE
      BY <2>3, <2>7 DEF Expire, Works, Locked, Reads
    <2>8. ASSUME NEW c \in Calls, Deny(c) \/ Cancel(c) \/ Revoke(c) PROVE FALSE
      <3>1. Works(c)
        BY <2>8 DEF Deny, Cancel, Revoke, Works, Locked
      <3>2. PICK s \in Refused : Update(call[c].id, [call[c].copy EXCEPT !.status = s])
        BY <2>8 DEF Deny, Cancel, Revoke, Refused
      <3> QED BY <2>3, <3>1, <3>2
    <2> QED BY <2>1, <2>4, <2>5, <2>6, <2>7, <2>8
            DEF Next, Count, Replay, Vet, Read, Lock, Examine, GiveUp, Deadline, storeVars
  <1>2. Spec => [][Kept]_vars
    <2>1. AInv /\ [Next]_vars => [Kept]_vars
      BY <1>1
    <2> QED BY <2>1, SpecAInv, PTL DEF Spec
  <1> QED BY <1>2 DEF ApprovalsAreKept

-----------------------------------------------------------------------------
(* The bounds on requests *)

LEMMA OneMore ==
  ASSUME NEW S, IsFiniteSet(S), NEW x, NEW T \in SUBSET (S \cup {x})
  PROVE  /\ IsFiniteSet(T) /\ Cardinality(T) \in Nat /\ Cardinality(S) \in Nat
         /\ Cardinality(T) <= Cardinality(S) + 1
  <1>1. /\ IsFiniteSet(S \cup {x}) /\ Cardinality(S) \in Nat
        /\ Cardinality(S \cup {x}) \in {Cardinality(S), Cardinality(S) + 1}
    BY FS_AddElement, FS_CardinalityType
  <1>2. IsFiniteSet(T) /\ Cardinality(T) <= Cardinality(S \cup {x})
    BY <1>1, FS_Subset
  <1> QED BY <1>1, <1>2, FS_CardinalityType

LEMMA OneLess ==
  ASSUME NEW S, IsFiniteSet(S), NEW x \in S, NEW T \in SUBSET (S \ {x})
  PROVE  /\ IsFiniteSet(T) /\ Cardinality(T) \in Nat /\ Cardinality(S) \in Nat
         /\ Cardinality(T) <= Cardinality(S) - 1
  <1>1. IsFiniteSet(S \ {x}) /\ Cardinality(S \ {x}) = Cardinality(S) - 1 /\ Cardinality(S) \in Nat
    BY FS_RemoveElement, FS_CardinalityType
  <1>2. IsFiniteSet(T) /\ Cardinality(T) <= Cardinality(S \ {x})
    BY <1>1, FS_Subset
  <1> QED BY <1>1, <1>2, FS_CardinalityType

LEMMA NoMore ==
  ASSUME NEW S, IsFiniteSet(S), NEW T \in SUBSET S
  PROVE  /\ IsFiniteSet(T) /\ Cardinality(T) \in Nat /\ Cardinality(S) \in Nat
         /\ Cardinality(T) <= Cardinality(S)
  BY FS_Subset, FS_CardinalityType

LEMMA FiniteParts ==
  /\ IsFiniteSet(Requests) /\ IsFiniteSet(Calls) /\ Cardinality(Calls) \in Nat
  /\ MaxPending \in Nat /\ MaxPending >= 1
  BY ApprovalAssumption, FS_Interval, FS_CardinalityType DEF Requests

\* Threads that may yet add an active request: creations past the count, and decisions on
\* a request that expired under them.
Opens(c) ==
  \/ call[c].at \in {"counted", "vetted"}
  \/ Locked(c) /\ IsOpen(c) /\ record[call[c].id].status = "expired"

Opening == {c \in Calls : Opens(c)}

Room == Cardinality(Pending) + Cardinality(Opening) <= MaxPending - 1 + Cardinality(Calls)

\* What a step takes from one set it may add to the other.
LEMMA RoomKept ==
  ASSUME Room,
         \/ Pending' \subseteq Pending /\ Opening' \subseteq Opening
         \/ \E r, c : Pending' \subseteq Pending \cup {r} /\ c \in Opening
                      /\ Opening' \subseteq Opening \ {c}
         \/ \E r, c : r \in Pending /\ Pending' \subseteq Pending \ {r}
                      /\ Opening' \subseteq Opening \cup {c}
  PROVE  Room'
  <1>1. IsFiniteSet(Pending) /\ IsFiniteSet(Opening)
    BY FiniteParts, FS_Subset DEF Pending, Opening
  <1>2. /\ Cardinality(Pending) \in Nat /\ Cardinality(Opening) \in Nat
        /\ Cardinality(Calls) \in Nat /\ MaxPending \in Nat
    BY <1>1, FiniteParts, FS_CardinalityType
  <1>3. CASE Pending' \subseteq Pending /\ Opening' \subseteq Opening
    <2>1. Cardinality(Pending') <= Cardinality(Pending) /\ Cardinality(Pending') \in Nat
      BY <1>1, <1>3, NoMore
    <2>2. Cardinality(Opening') <= Cardinality(Opening) /\ Cardinality(Opening') \in Nat
      BY <1>1, <1>3, NoMore
    <2> QED BY <1>2, <2>1, <2>2 DEF Room
  <1>4. ASSUME NEW r, NEW c \in Opening, Pending' \subseteq Pending \cup {r},
               Opening' \subseteq Opening \ {c}
        PROVE  Room'
    <2>1. Cardinality(Pending') <= Cardinality(Pending) + 1 /\ Cardinality(Pending') \in Nat
      BY <1>1, <1>4, OneMore
    <2>2. Cardinality(Opening') <= Cardinality(Opening) - 1 /\ Cardinality(Opening') \in Nat
      BY <1>1, <1>4, OneLess
    <2> QED BY <1>2, <2>1, <2>2 DEF Room
  <1>5. ASSUME NEW r \in Pending, NEW c, Pending' \subseteq Pending \ {r},
               Opening' \subseteq Opening \cup {c}
        PROVE  Room'
    <2>1. Cardinality(Pending') <= Cardinality(Pending) - 1 /\ Cardinality(Pending') \in Nat
      BY <1>1, <1>5, OneLess
    <2>2. Cardinality(Opening') <= Cardinality(Opening) + 1 /\ Cardinality(Opening') \in Nat
      BY <1>1, <1>5, OneMore
    <2> QED BY <1>2, <2>1, <2>2 DEF Room
  <1> QED BY <1>3, <1>4, <1>5

\* A write by a thread that holds the lock, or whose copy goes back as expired.
LEMMA UpdateKeepsRoom ==
  ASSUME AInv, Room, NEW c \in Calls, Works(c), IsOpen(c) \/ Locked(c), NEW new \in Records,
         new.status \in Active => Locked(c) /\ IsOpen(c),
         new.status = "expired" => IsOpen(c),
         Update(call[c].id, new), Ends(c)
  PROVE  Room'
  <1> DEFINE r == call[c].id
  <1>1. call[c] \in Working /\ r \in Requests
    BY CallKinds DEF AInv, Working
  <1>2. Update(r, new)
    OBVIOUS
  <1> HIDE DEF r
  <1>3. /\ record'[r] = new /\ \A s \in Requests \ {r} : record'[s] = record[s]
        /\ call'[c] = Idle /\ \A d \in Calls \ {c} : call'[d] = call[d]
        /\ ~Works(c)'
        /\ \A d \in Calls \ {c} : /\ (Locked(d)' <=> Locked(d)) /\ (Reads(d)' <=> Reads(d))
                                  /\ (IsOpen(d)' <=> IsOpen(d)) /\ (Works(d)' <=> Works(d))
    BY <1>1, <1>2, UpdateType DEF AInv
  <1>4. c \notin Opening'
    BY <1>3 DEF Opening, Opens, Works, Idle
  <1>5. \A d \in Calls \ {c} : Locked(d) => call[d].id \in Requests
    BY CallKinds DEF AInv, Works, Working
  <1>6. ASSUME NEW d \in Opening', d \notin Opening
        PROVE  /\ d \in Calls \ {c} /\ Locked(d) /\ IsOpen(d) /\ call[d].id = r
               /\ record[r].status # "expired" /\ new.status = "expired"
    <2>1. d \in Calls \ {c} /\ Opens(d)' /\ ~Opens(d)
      BY <1>4, <1>6 DEF Opening
    <2>2. Locked(d) /\ IsOpen(d) /\ record'[call[d].id].status = "expired"
          /\ record[call[d].id].status # "expired"
      BY <1>3, <2>1 DEF Opens
    <2> QED BY <1>3, <1>5, <2>1, <2>2
  <1>7. CASE Locked(c)
    <2>1. Opening' \subseteq Opening \ {c}
      BY <1>4, <1>6, <1>7 DEF AInv, Exclusive, Opening
    <2>2. CASE new.status \notin Active \/ record[r].status \in Active
      <3>1. Pending' \subseteq Pending
        BY <1>1, <1>3, <2>2 DEF Pending
      <3> QED BY <2>1, <3>1, RoomKept
    <2>3. CASE new.status \in Active /\ record[r].status \notin Active
      <3>1. record[r].status = "expired"
        BY <1>7, <2>3 DEF AInv, LockedIsCurrent, IsOpen, r
      <3>2. c \in Opening
        BY <1>7, <2>3, <3>1 DEF Opening, Opens, r
      <3>3. Pending' \subseteq Pending \cup {r}
        BY <1>3 DEF Pending
      <3> QED BY <2>1, <3>2, <3>3, RoomKept
    <2> QED BY <2>2, <2>3
  <1>8. CASE ~Locked(c)
    <2>1. new.status \notin Active /\ Pending' \subseteq Pending
      BY <1>1, <1>3, <1>8 DEF Pending
    <2>2. CASE Opening' \subseteq Opening
      BY <2>1, <2>2, RoomKept
    <2>3. CASE ~(Opening' \subseteq Opening)
      <3>1. PICK d \in Opening' : d \notin Opening
        BY <2>3
      <3>2. /\ d \in Calls /\ Locked(d) /\ IsOpen(d) /\ call[d].id = r
            /\ record[r].status # "expired"
        BY <1>6, <3>1
      <3>3. r \in Pending
        BY <1>1, <3>2 DEF AInv, LockedIsCurrent, Pending, IsOpen
      <3>4. Pending' \subseteq Pending \ {r}
        BY <1>1, <1>3, <2>1 DEF Pending
      <3>5. Opening' \subseteq Opening \cup {d}
        BY <1>6, <3>2 DEF AInv, Exclusive
      <3> QED BY <3>3, <3>4, <3>5, RoomKept
    <2> QED BY <2>2, <2>3
  <1> QED BY <1>7, <1>8

\* A thread that leaves the repository alone, and adds nothing unless it did before.
LEMMA QuietKeepsRoom ==
  ASSUME AInv, Room, NEW c \in Calls, NEW x, Goes(c, x), UNCHANGED record,
         Opens(c)' => Opens(c)
  PROVE  Room'
  <1>1. \A d \in Calls \ {c} : call'[d] = call[d]
    BY DEF AInv, TypeOK, Goes
  <1>2. Opening' \subseteq Opening
    BY <1>1 DEF Opening, Opens, Locked, IsOpen
  <1>3. Pending' = Pending
    BY DEF Pending
  <1> QED BY <1>2, <1>3, RoomKept

LEMMA StepRoom == AInv /\ AInv' /\ Room /\ [Next]_vars => Room'
  <1> SUFFICES ASSUME AInv, AInv', Room, [Next]_vars PROVE Room'
    OBVIOUS
  <1>1. CASE UNCHANGED vars
    BY <1>1 DEF vars, storeVars, Room, Pending, Opening, Opens, Locked, IsOpen
  <1>2. ASSUME NEW c \in Calls, NEW k \in Keys \cup {NoKey}, Count(c, k) PROVE Room'
    <2>1. Pending' = Pending /\ Opening' \subseteq Calls
      BY <1>2 DEF Count, storeVars, Pending, Opening
    <2>2. Cardinality(Opening') <= Cardinality(Calls) /\ Cardinality(Opening') \in Nat
      BY <2>1, FiniteParts, NoMore
    <2>3. Cardinality(Pending) \in Nat /\ Cardinality(Pending) <= MaxPending - 1
      <3>1. IsFiniteSet(Pending)
        BY FiniteParts, FS_Subset DEF Pending
      <3> QED BY <1>2, <3>1, FiniteParts, FS_CardinalityType DEF Count
    <2> QED BY <2>1, <2>2, <2>3, FiniteParts DEF Room
  <1>3. ASSUME NEW c \in Calls, Replay(c) \/ Vet(c) PROVE Room'
    <2>1. Opens(c) /\ UNCHANGED record
      BY <1>3 DEF Replay, Vet, Opens, storeVars
    <2>2. PICK x : Goes(c, x)
      BY <1>3 DEF Replay, Vet
    <2> QED BY <2>1, <2>2, QuietKeepsRoom
  <1>4. ASSUME NEW c \in Calls, NEW r \in Requests, Store(c, r) PROVE Room'
    <2>1. /\ call' = [call EXCEPT ![c] = Idle] /\ c \in Opening /\ ~Works(c) /\ r \notin Stored
          /\ record' = [record EXCEPT ![r] = [status |-> "pending", approved_by |-> {}]]
      BY <1>4 DEF Store, Ends, Goes, Opening, Opens, IsNext, Works, Locked, Reads
    <2>2. /\ call'[c] = Idle /\ \A d \in Calls \ {c} : call'[d] = call[d]
          /\ \A s \in Requests \ {r} : record'[s] = record[s]
      BY <2>1 DEF AInv, TypeOK
    <2>3. \A d \in Calls : Locked(d) => call[d].id \in Requests \ {r}
      BY <2>1 DEF AInv, CopiesAreSound, Works, Stored
    <2>4. Opening' \subseteq Opening \ {c}
      BY <2>2, <2>3 DEF Opening, Opens, Locked, IsOpen, Idle
    <2>5. Pending' \subseteq Pending \cup {r}
      BY <2>2 DEF Pending
    <2> QED BY <2>1, <2>4, <2>5, RoomKept
  <1>5. ASSUME NEW c \in Calls, NEW r \in Requests, Read(c, r) PROVE Room'
    <2>1. Goes(c, [at |-> "reading", id |-> r, copy |-> record[r]]) /\ UNCHANGED record
      BY <1>5 DEF Read, storeVars
    <2>2. call'[c].at = "reading"
      BY <2>1 DEF AInv, TypeOK, Goes
    <2>3. ~Opens(c)'
      BY <2>2 DEF Opens, Locked
    <2> QED BY <2>1, <2>3, QuietKeepsRoom
  <1>6. ASSUME NEW c \in Calls, NEW r \in Requests, Lock(c, r) PROVE Room'
    <2>1. Goes(c, [at |-> "holding", id |-> r, copy |-> record[r]]) /\ UNCHANGED record
      BY <1>6 DEF Lock, storeVars
    <2>2. call'[c] = [at |-> "holding", id |-> r, copy |-> record[r]]
      BY <2>1 DEF AInv, TypeOK, Goes
    <2>3. ~Opens(c)'
      BY <2>1, <2>2 DEF Opens, Locked, IsOpen, Active
    <2> QED BY <2>1, <2>3, QuietKeepsRoom
  <1>7. ASSUME NEW c \in Calls, Expire(c) PROVE Room'
    <2>1. Works(c) /\ IsOpen(c) /\ Ends(c)
      BY <1>7 DEF Expire, IsExpired, Works, Locked, Reads, IsOpen
    <2>2. call[c].copy \in Records
      BY <2>1, CallKinds DEF AInv, Working
    <2> DEFINE new == [call[c].copy EXCEPT !.status = "expired"]
    <2>3. new \in Records /\ new.status = "expired" /\ Update(call[c].id, new)
      BY <1>7, <2>2 DEF Expire, Records, Terminal
    <2> HIDE DEF new
    <2> QED BY <2>1, <2>3, UpdateKeepsRoom DEF Active
  <1>8. ASSUME NEW c \in Calls, Examine(c) PROVE Room'
    <2>1. Works(c) /\ UNCHANGED record
      BY <1>8 DEF Examine, Works, Locked, Reads, storeVars
    <2>2. CASE call[c].at = "holding"
      <3>1. Goes(c, [call[c] EXCEPT !.at = "deciding"]) /\ call[c] \in Working
        BY <1>8, <2>1, <2>2, CallKinds DEF Examine, AInv
      <3>2. call'[c] = [call[c] EXCEPT !.at = "deciding"]
        BY <3>1 DEF AInv, TypeOK, Goes
      <3>3. Opens(c)' => Opens(c)
        BY <2>1, <2>2, <3>1, <3>2 DEF Opens, Locked, IsOpen, Working
      <3> QED BY <2>1, <3>1, <3>3, QuietKeepsRoom
    <2>3. CASE call[c].at # "holding"
      <3>1. Goes(c, Idle)
        BY <1>8, <2>3 DEF Examine
      <3>2. call'[c] = Idle
        BY <3>1 DEF AInv, TypeOK, Goes
      <3>3. ~Opens(c)'
        BY <3>2 DEF Opens, Locked, Idle
      <3> QED BY <2>1, <3>1, <3>3, QuietKeepsRoom
    <2> QED BY <2>2, <2>3
  <1>9. ASSUME NEW c \in Calls, NEW a \in Actors, Approve(c, a) PROVE Room'
    <2> DEFINE A == call[c].copy.approved_by \cup {a}
               new == [status |-> IF Cardinality(A) >= Required
                                  THEN "approved" ELSE "partially_approved",
                       approved_by |-> A]
    <2>1. Works(c) /\ Locked(c) /\ IsOpen(c) /\ Ends(c)
      BY <1>9 DEF Approve, Works, Locked, IsOpen
    <2>2. A \in SUBSET Actors
      BY <2>1, CallKinds DEF AInv, Working, Records
    <2>3. new \in Records /\ Update(call[c].id, new)
      BY <1>9, <2>2, VoteIsCounted DEF Approve
    <2> HIDE DEF new
    <2> QED BY <2>1, <2>3, UpdateKeepsRoom
  <1>10. ASSUME NEW c \in Calls, Deny(c) \/ Cancel(c) \/ Revoke(c) PROVE Room'
    <2>1. Works(c) /\ Locked(c) /\ Ends(c)
      BY <1>10 DEF Deny, Cancel, Revoke, Works, Locked
    <2>2. PICK s \in Refused : Update(call[c].id, [call[c].copy EXCEPT !.status = s])
      BY <1>10 DEF Deny, Cancel, Revoke, Refused
    <2> DEFINE new == [call[c].copy EXCEPT !.status = s]
    <2>3. call[c].copy \in Records
      BY <2>1, CallKinds DEF AInv, Working
    <2>4. new \in Records /\ new.status = s /\ Update(call[c].id, new)
      BY <2>2, <2>3 DEF Records, Terminal
    <2> HIDE DEF new
    <2> QED BY <2>1, <2>4, UpdateKeepsRoom DEF Active, Refused
  <1>11. ASSUME NEW c \in Calls, GiveUp(c) PROVE Room'
    <2>1. Goes(c, Idle) /\ UNCHANGED record
      BY <1>11 DEF GiveUp, Ends, storeVars
    <2>2. call'[c] = Idle
      BY <2>1 DEF AInv, TypeOK, Goes
    <2>3. ~Opens(c)'
      BY <2>2 DEF Opens, Locked, Idle
    <2> QED BY <2>1, <2>3, QuietKeepsRoom
  <1>12. ASSUME NEW r \in Requests, Deadline(r) PROVE Room'
    BY <1>12 DEF Deadline, storeVars, Room, Pending, Opening, Opens, Locked, IsOpen
  <1> QED BY <1>1, <1>2, <1>3, <1>4, <1>5, <1>6, <1>7, <1>8, <1>9, <1>10, <1>11, <1>12 DEF Next

\* Creation counts and stores without the mutation lock, and decisions reopen requests that
\* expired under them; the limit is still exceeded by no more than the other threads.
THEOREM PendingLimit == Spec => []PendingBounded
  <1>1. Init => Room
    <2> SUFFICES ASSUME Init PROVE Room
      OBVIOUS
    <2>1. Pending = {} /\ Opening = {}
      BY DEF Init, Pending, Opening, Opens, Locked, Idle, Active
    <2> QED BY <2>1, FiniteParts, FS_EmptySet DEF Room
  <1>2. Room => PendingBounded
    <2>1. IsFiniteSet(Pending) /\ IsFiniteSet(Opening)
      BY FiniteParts, FS_Subset DEF Pending, Opening
    <2>2. Cardinality(Pending) \in Nat /\ Cardinality(Opening) \in Nat
      BY <2>1, FS_CardinalityType
    <2> QED BY <2>2, FiniteParts DEF Room, PendingBounded
  <1> QED BY <1>1, <1>2, SpecAInv, StepRoom, PTL DEF Spec

\* The requests of a key, and the threads about to store another.
Keyed(k)   == {r \in Stored : keyed[r] = k}
Storing(k) == {c \in Calls : call[c].at = "vetted" /\ call[c].key = k}

\* Once a request is stored its key is found, so that nobody new starts storing.
KeysCounted ==
  \A k \in Keys :
    /\ index[k] = None => Keyed(k) = {}
    /\ Cardinality(Keyed(k)) + Cardinality(Storing(k)) <= Cardinality(Calls)

LEMMA KeySets ==
  ASSUME NEW k
  PROVE  IsFiniteSet(Keyed(k)) /\ IsFiniteSet(Storing(k))
  BY FiniteParts, FS_Subset DEF Keyed, Storing, Stored

\* Storing sheds a thread for every request it adds.
LEMMA StepKeys == AInv /\ KeysCounted /\ [Next]_vars => KeysCounted'
  <1> SUFFICES ASSUME AInv, KeysCounted, [Next]_vars, NEW k \in Keys
               PROVE  (/\ index[k] = None => Keyed(k) = {}
                       /\ Cardinality(Keyed(k)) + Cardinality(Storing(k)) <= Cardinality(Calls))'
    BY DEF KeysCounted
  <1> DEFINE Goal == (/\ index[k] = None => Keyed(k) = {}
                      /\ Cardinality(Keyed(k)) + Cardinality(Storing(k)) <= Cardinality(Calls))'
  <1>1. ASSUME index'[k] = None => index[k] = None, Keyed(k)' \subseteq Keyed(k),
               Storing(k)' \subseteq Storing(k)
        PROVE  Goal
    <2>1. Cardinality(Keyed(k)') <= Cardinality(Keyed(k)) /\ Cardinality(Keyed(k)') \in Nat
          /\ Cardinality(Keyed(k)) \in Nat
      BY <1>1, KeySets, NoMore
    <2>2. Cardinality(Storing(k)') <= Cardinality(Storing(k)) /\ Cardinality(Storing(k)') \in Nat
          /\ Cardinality(Storing(k)) \in Nat
      BY <1>1, KeySets, NoMore
    <2> QED BY <1>1, <2>1, <2>2, FiniteParts DEF KeysCounted
  <1>2. ASSUME UNCHANGED storeVars, NEW c \in Calls, NEW x, Goes(c, x), x.at # "vetted"
        PROVE  Goal
    <2>1. Storing(k)' \subseteq Storing(k)
      BY <1>2 DEF AInv, TypeOK, Goes, Storing
    <2> QED BY <1>1, <1>2, <2>1 DEF storeVars, Keyed, Stored
  <1>3. ASSUME NEW c \in Calls, NEW r \in Requests, NEW new \in Records, r \in Stored,
               Update(r, new), Ends(c)
        PROVE  Goal
    <2>1. Stored' \subseteq Stored
      BY <1>3 DEF AInv, TypeOK, Update, Stored
    <2>2. Keyed(k)' \subseteq Keyed(k)
      BY <1>3, <2>1 DEF Update, Keyed
    <2>3. Storing(k)' \subseteq Storing(k)
      BY <1>3 DEF AInv, TypeOK, Ends, Goes, Storing, Idle
    <2>4. index'[k] = None => index[k] = None
      BY <1>3 DEF AInv, TypeOK, Update, Indexed, None, Requests
    <2> QED BY <1>1, <2>2, <2>3, <2>4
  <1>4. CASE UNCHANGED vars
    BY <1>4, <1>1 DEF vars, storeVars, Keyed, Stored, Storing
  <1>5. ASSUME NEW c \in Calls, NEW l \in Keys \cup {NoKey}, Count(c, l) PROVE Goal
    BY <1>2, <1>5 DEF Count
  <1>6. ASSUME NEW c \in Calls, Replay(c) PROVE Goal
    BY <1>2, <1>6 DEF Replay
  <1>7. ASSUME NEW c \in Calls, Vet(c) PROVE Goal
    <2>1. call[c] \in Creating /\ index' = index /\ Keyed(k)' = Keyed(k)
      BY <1>7, CallKinds DEF AInv, Vet, storeVars, Keyed, Stored
    <2>2. call' = [call EXCEPT ![c] = [call[c] EXCEPT !.at = "vetted"]]
      BY <1>7 DEF Vet, Goes
    <2>3. CASE call[c].key = k
      <3>1. index[k] = None
        BY <1>7, <2>3, ApprovalAssumption DEF Vet, Found
      <3>2. Keyed(k)' = {}
        BY <2>1, <3>1 DEF KeysCounted
      <3>3. Cardinality(Storing(k)') <= Cardinality(Calls) /\ Cardinality(Storing(k)') \in Nat
        <4>1. Storing(k)' \subseteq Calls
          BY DEF Storing
        <4> QED BY <4>1, FiniteParts, NoMore
      <3> QED BY <3>2, <3>3, FiniteParts, FS_EmptySet
    <2>4. CASE call[c].key # k
      <3>1. [call[c] EXCEPT !.at = "vetted"].key = call[c].key
        BY <2>1 DEF Creating
      <3>2. Storing(k)' \subseteq Storing(k)
        BY <2>2, <2>4, <3>1 DEF AInv, TypeOK, Storing
      <3> QED BY <1>1, <2>1, <3>2
    <2> QED BY <2>3, <2>4
  <1>8. ASSUME NEW c \in Calls, NEW r \in Requests, Store(c, r) PROVE Goal
    <2>1. /\ call' = [call EXCEPT ![c] = Idle] /\ index' = Indexed(call[c].key, r)
          /\ keyed' = [keyed EXCEPT ![r] = call[c].key]
          /\ record' = [record EXCEPT ![r] = [status |-> "pending", approved_by |-> {}]]
      BY <1>8 DEF Store, Ends, Goes
    <2>2. Stored' \subseteq Stored \cup {r}
      BY <2>1 DEF AInv, TypeOK, Stored
    <2>3. CASE call[c].key = k
      <3>1. c \in Storing(k) /\ Storing(k)' \subseteq Storing(k) \ {c}
        BY <1>8, <2>1, <2>3 DEF AInv, TypeOK, Store, Storing, Idle
      <3>2. Keyed(k)' \subseteq Keyed(k) \cup {r}
        BY <2>1, <2>2 DEF AInv, TypeOK, Keyed, Stored
      <3>3. index'[k] # None
        BY <2>1, <2>3, ApprovalAssumption DEF AInv, TypeOK, Indexed, None, Requests
      <3>4. Cardinality(Keyed(k)') <= Cardinality(Keyed(k)) + 1 /\ Cardinality(Keyed(k)') \in Nat
            /\ Cardinality(Keyed(k)) \in Nat
        BY <3>2, KeySets, OneMore
      <3>5. /\ Cardinality(Storing(k)') <= Cardinality(Storing(k)) - 1
            /\ Cardinality(Storing(k)') \in Nat /\ Cardinality(Storing(k)) \in Nat
        BY <3>1, KeySets, OneLess
      <3> QED BY <3>3, <3>4, <3>5, FiniteParts DEF KeysCounted
    <2>4. CASE call[c].key # k
      <3>1. Storing(k)' \subseteq Storing(k)
        BY <2>1 DEF AInv, TypeOK, Storing, Idle
      <3>2. Keyed(k)' \subseteq Keyed(k)
        BY <2>1, <2>2, <2>4 DEF AInv, TypeOK, Keyed, Stored
      <3>3. index'[k] = index[k]
        BY <2>1, <2>4 DEF AInv, TypeOK, Indexed
      <3> QED BY <1>1, <3>1, <3>2, <3>3
    <2> QED BY <2>3, <2>4
  <1>9. ASSUME NEW c \in Calls, NEW r \in Requests, Read(c, r) \/ Lock(c, r) PROVE Goal
    BY <1>2, <1>9 DEF Read, Lock
  <1>10. ASSUME NEW c \in Calls, NEW s \in Refused \cup {"expired"}, Works(c), Ends(c),
                Update(call[c].id, [call[c].copy EXCEPT !.status = s])
         PROVE  Goal
    <2>1. call[c].id \in Requests /\ call[c].id \in Stored /\ call[c].copy \in Records
      BY <1>10, CallKinds DEF AInv, CopiesAreSound, Working
    <2>2. [call[c].copy EXCEPT !.status = s] \in Records
      BY <2>1 DEF Records, Terminal
    <2> QED BY <1>3, <1>10, <2>1, <2>2
  <1>11. ASSUME NEW c \in Calls, Expire(c) PROVE Goal
    BY <1>10, <1>11 DEF Expire, Works, Locked, Reads
  <1>12. ASSUME NEW c \in Calls, Examine(c) PROVE Goal
    <2>1. CASE call[c].at = "holding"
      <3>1. call[c] \in Working /\ Goes(c, [call[c] EXCEPT !.at = "deciding"])
        BY <1>12, <2>1, CallKinds DEF AInv, Examine, Works, Locked
      <3>2. [call[c] EXCEPT !.at = "deciding"].at = "deciding"
        BY <3>1 DEF Working
      <3> QED BY <1>2, <1>12, <3>1, <3>2 DEF Examine
    <2>2. CASE call[c].at # "holding"
      BY <1>2, <1>12, <2>2 DEF Examine, Idle
    <2> QED BY <2>1, <2>2
  <1>13. ASSUME NEW c \in Calls, NEW a \in Actors, Approve(c, a) PROVE Goal
    <2> DEFINE A == call[c].copy.approved_by \cup {a}
               new == [status |-> IF Cardinality(A) >= Required
                                  THEN "approved" ELSE "partially_approved",
                       approved_by |-> A]
    <2>1. Works(c) /\ Ends(c)
      BY <1>13 DEF Approve, Works, Locked
    <2>2. call[c].id \in Requests /\ call[c].id \in Stored /\ A \in SUBSET Actors
      BY <2>1, CallKinds DEF AInv, CopiesAreSound, Working, Records
    <2>3. new \in Records /\ Update(call[c].id, new)
      BY <1>13, <2>2, VoteIsCounted DEF Approve
    <2> HIDE DEF new
    <2> QED BY <1>3, <2>1, <2>2, <2>3
  <1>14. ASSUME NEW c \in Calls, Deny(c) \/ Cancel(c) \/ Revoke(c) PROVE Goal
    <2>1. Works(c) /\ Ends(c)
      BY <1>14 DEF Deny, Cancel, Revoke, Works, Locked
    <2>2. PICK s \in Refused : Update(call[c].id, [call[c].copy EXCEPT !.status = s])
      BY <1>14 DEF Deny, Cancel, Revoke, Refused
    <2> QED BY <1>10, <2>1, <2>2
  <1>15. ASSUME NEW c \in Calls, GiveUp(c) PROVE Goal
    BY <1>2, <1>15 DEF GiveUp, Ends, Idle
  <1>16. ASSUME NEW r \in Requests, Deadline(r) PROVE Goal
    BY <1>1, <1>16 DEF Deadline, storeVars, Keyed, Stored, Storing
  <1> QED BY <1>4, <1>5, <1>6, <1>7, <1>8, <1>9, <1>11, <1>12, <1>13, <1>14, <1>15, <1>16
          DEF Next

\* Creations with one key race between the lookup and the store, and only the threads that
\* were under way together can each leave a request behind.
THEOREM KeyLimit == Spec => []KeyBounded
  <1>1. Init => KeysCounted
    <2> SUFFICES ASSUME Init, NEW k \in Keys
                 PROVE  Keyed(k) = {} /\ Storing(k) = {}
      BY FiniteParts, FS_EmptySet DEF KeysCounted
    <2> QED BY DEF Init, Keyed, Stored, Storing, Idle
  <1>2. KeysCounted => KeyBounded
    <2> SUFFICES ASSUME KeysCounted, NEW k \in Keys
                 PROVE  Cardinality(Keyed(k)) <= Cardinality(Calls)
      BY DEF KeyBounded, Keyed
    <2>1. Cardinality(Keyed(k)) \in Nat /\ Cardinality(Storing(k)) \in Nat
      BY KeySets, FS_CardinalityType
    <2> QED BY <2>1, FiniteParts DEF KeysCounted
  <1> QED BY <1>1, <1>2, SpecAInv, StepKeys, PTL DEF Spec
=============================================================================
