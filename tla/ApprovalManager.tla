--------------------------- MODULE ApprovalManager ---------------------------
(***************************************************************************)
(* The Security Agent's approval requests of one user and workspace, kept  *)
(* by an InMemoryApprovalRepository that several threads call.             *)
(*                                                                         *)
(* The repository hands out copies and takes back whole records, each      *)
(* under a lock of its own.  Decisions, cancellations and revocations read *)
(* and write under the manager's mutation lock.  Creation and every read   *)
(* do not take it, and a read of an overdue request writes its own, by     *)
(* then possibly stale, copy back as expired.                              *)
(*                                                                         *)
(* Permission, security and prompt checks are choices here, token hashes   *)
(* and receipts are left out: a receipt is honoured only while its         *)
(* request's status reads approved.                                        *)
(***************************************************************************)
EXTENDS Naturals, FiniteSets

CONSTANTS Calls,        \* threads inside the manager
          Actors,       \* eligible approvers
          Keys,         \* idempotency keys of create_approval_request
          NoKey,        \* a creation without one
          MaxRequests,  \* bound: requests ever stored
          Required,     \* required_approvals of each request
          MaxPending    \* maximum_pending_per_user_workspace

ASSUME ApprovalAssumption == /\ MaxRequests \in Nat
                             /\ Required \in Nat \ {0}
                             /\ MaxPending \in Nat \ {0}
                             /\ IsFiniteSet(Calls) /\ IsFiniteSet(Actors)
                             /\ NoKey \notin Keys

Requests == 1 .. MaxRequests
None     == 0

Active   == {"pending", "partially_approved"}
Refused  == {"denied", "cancelled", "revoked"}
Terminal == Refused \cup {"approved", "expired"}
Records  == [status : {"absent"} \cup Active \cup Terminal, approved_by : SUBSET Actors]

VARIABLES
  record,    \* repository._records: status and approved_by
  keyed,     \* history: the key each request was created with
  index,     \* repository._idempotency_index
  overdue,   \* requests whose expires_at has passed
  call,      \* what each thread is in the middle of, with the copy it works on
  refused    \* history: requests that were ever denied, cancelled or revoked

storeVars == <<record, keyed, index, refused>>
vars      == <<storeVars, overdue, call>>

Idle     == [at |-> "idle"]
Creating == [at : {"counted", "vetted"}, key : Keys \cup {NoKey}]
Working  == [at : {"reading", "holding", "deciding"}, id : Requests, copy : Records]

TypeOK ==
  /\ record \in [Requests -> Records]
  /\ keyed \in [Requests -> Keys \cup {NoKey}]
  /\ index \in [Keys -> Requests \cup {None}]
  /\ overdue \in SUBSET Requests
  /\ call \in [Calls -> {Idle} \cup Creating \cup Working]
  /\ refused \in SUBSET Requests

Init ==
  /\ record = [r \in Requests |-> [status |-> "absent", approved_by |-> {}]]
  /\ keyed = [r \in Requests |-> NoKey]
  /\ index = [k \in Keys |-> None]
  /\ overdue = {}
  /\ call = [c \in Calls |-> Idle]
  /\ refused = {}

-----------------------------------------------------------------------------
(* The repository *)

Stored  == {r \in Requests : record[r].status # "absent"}
Pending == {r \in Requests : record[r].status \in Active}

IsNext(r) == r \notin Stored /\ \A s \in Requests : s < r => s \in Stored

Indexed(k, r) == IF k = NoKey THEN index ELSE [index EXCEPT ![k] = r]

\* update: the whole record is replaced, and its idempotency key points to it again.
Update(r, new) ==
  /\ record' = [record EXCEPT ![r] = new]
  /\ index' = Indexed(keyed[r], r)
  /\ refused' = IF new.status \in Refused THEN refused \cup {r} ELSE refused
  /\ UNCHANGED <<keyed, overdue>>

Goes(c, to) == call' = [call EXCEPT ![c] = to]
Ends(c) == Goes(c, Idle)

-----------------------------------------------------------------------------
(* create_approval_request, outside the mutation lock *)

\* Mutant: the limit itself is still let through.
CountOffByOne(c, k) ==
  /\ call[c] = Idle /\ Cardinality(Pending) <= MaxPending
  /\ Goes(c, [at |-> "counted", key |-> k])
  /\ UNCHANGED <<storeVars, overdue>>

\* The active requests are counted first; at the limit the call is refused.
Count(c, k) ==
  /\ call[c] = Idle /\ Cardinality(Pending) < MaxPending
  /\ Goes(c, [at |-> "counted", key |-> k])
  /\ UNCHANGED <<storeVars, overdue>>

\* Mutant: only an active request answers for its key.
FoundActive(k) == k # NoKey /\ index[k] \in Pending

\* find_by_idempotency_hash
Found(k) == k # NoKey /\ index[k] # None

\* A request with the same key is read and returned instead ...
Replay(c) ==
  /\ call[c].at = "counted" /\ Found(call[c].key)
  /\ Goes(c, [at |-> "reading", id |-> index[call[c].key], copy |-> record[index[call[c].key]]])
  /\ UNCHANGED <<storeVars, overdue>>

\* ... or there is none; security and permission are asked about the new one ...
Vet(c) ==
  /\ call[c].at = "counted" /\ ~Found(call[c].key)
  /\ Goes(c, [call[c] EXCEPT !.at = "vetted"])
  /\ UNCHANGED <<storeVars, overdue>>

\* ... and it is stored, whatever others have stored since.
Store(c, r) ==
  /\ call[c].at = "vetted" /\ IsNext(r)
  /\ record' = [record EXCEPT ![r] = [status |-> "pending", approved_by |-> {}]]
  /\ keyed' = [keyed EXCEPT ![r] = call[c].key]
  /\ index' = Indexed(call[c].key, r)
  /\ Ends(c)
  /\ UNCHANGED <<overdue, refused>>

-----------------------------------------------------------------------------
(* Reads *)

\* repository.get or list, for get, list, expire_pending_requests, validate_approval and
\* validate_approval_receipt: a listing is one such read per record.  Reading a closed
\* request changes nothing.
Read(c, r) ==
  /\ call[c] = Idle /\ r \in Pending
  /\ Goes(c, [at |-> "reading", id |-> r, copy |-> record[r]])
  /\ UNCHANGED <<storeVars, overdue>>

\* Mutant: _transition_request and record_decision without the mutation lock.
LockForgotten(c, r) ==
  /\ call[c] = Idle /\ r \in Stored
  /\ Goes(c, [at |-> "holding", id |-> r, copy |-> record[r]])
  /\ UNCHANGED <<storeVars, overdue>>

\* record_decision, cancel_approval_request and revoke_approval read under the lock.
Lock(c, r) ==
  /\ call[c] = Idle /\ r \in Stored
  /\ \A d \in Calls : call[d].at \notin {"holding", "deciding"}
  /\ Goes(c, [at |-> "holding", id |-> r, copy |-> record[r]])
  /\ UNCHANGED <<storeVars, overdue>>

IsExpired(c) == call[c].copy.status \in Active /\ call[c].id \in overdue

\* _expire_record_if_needed: the copy goes back as expired, whatever the record has become
\* since it was read.  A decision or transition then finds the request closed.
Expire(c) ==
  /\ call[c].at \in {"reading", "holding"} /\ IsExpired(c)
  /\ Update(call[c].id, [call[c].copy EXCEPT !.status = "expired"])
  /\ Ends(c)

\* Nothing to expire: a read answers from its copy, and the others go on to decide.
Examine(c) ==
  /\ call[c].at \in {"reading", "holding"} /\ ~IsExpired(c)
  /\ Goes(c, IF call[c].at = "holding" THEN [call[c] EXCEPT !.at = "deciding"] ELSE Idle)
  /\ UNCHANGED <<storeVars, overdue>>

-----------------------------------------------------------------------------
(* Decisions and transitions, under the mutation lock *)

\* Mutant: approvals are counted by decisions, not by approvers.
ApproveTwice(c, a) ==
  /\ call[c].at = "deciding" /\ call[c].copy.status \in Active
  /\ LET approvers == call[c].copy.approved_by \cup {a}
     IN  Update(call[c].id,
                [status |-> IF call[c].copy.status = "partially_approved" \/ Required = 1
                            THEN "approved" ELSE "partially_approved",
                 approved_by |-> approvers])
  /\ Ends(c)

\* record_decision with approve.  An actor who approved before gets this far with another
\* decision key, and counts once.
Approve(c, a) ==
  /\ call[c].at = "deciding" /\ call[c].copy.status \in Active
  /\ LET approvers == call[c].copy.approved_by \cup {a}
     IN  Update(call[c].id,
                [status |-> IF Cardinality(approvers) >= Required
                            THEN "approved" ELSE "partially_approved",
                 approved_by |-> approvers])
  /\ Ends(c)

\* record_decision with deny, whoever has approved: one denial is final.
Deny(c) ==
  /\ call[c].at = "deciding" /\ call[c].copy.status \in Active
  /\ Update(call[c].id, [call[c].copy EXCEPT !.status = "denied"])
  /\ Ends(c)

\* Mutant: the status is spelt another way than its readers spell it.
CancelMisspelt(c) ==
  /\ call[c].at = "deciding" /\ call[c].copy.status \in Active
  /\ Update(call[c].id, [call[c].copy EXCEPT !.status = "canceled"])
  /\ Ends(c)

Cancel(c) ==
  /\ call[c].at = "deciding" /\ call[c].copy.status \in Active
  /\ Update(call[c].id, [call[c].copy EXCEPT !.status = "cancelled"])
  /\ Ends(c)

Revoke(c) ==
  /\ call[c].at = "deciding" /\ call[c].copy.status = "approved"
  /\ Update(call[c].id, [call[c].copy EXCEPT !.status = "revoked"])
  /\ Ends(c)

\* A refused creation, a replayed decision, a wrong status, token, approver or permission.
GiveUp(c) ==
  /\ call[c].at \in {"vetted", "deciding"}
  /\ Ends(c)
  /\ UNCHANGED <<storeVars, overdue>>

\* expires_at passes.
Deadline(r) ==
  /\ r \in Stored \ overdue
  /\ overdue' = overdue \cup {r}
  /\ UNCHANGED <<storeVars, call>>

-----------------------------------------------------------------------------
Next ==
  \/ \E c \in Calls :
       \/ \E k \in Keys \cup {NoKey} : Count(c, k)
       \/ Replay(c) \/ Vet(c)
       \/ \E r \in Requests : Store(c, r) \/ Read(c, r) \/ Lock(c, r)
       \/ Expire(c) \/ Examine(c)
       \/ \E a \in Actors : Approve(c, a)
       \/ Deny(c) \/ Cancel(c) \/ Revoke(c) \/ GiveUp(c)
  \/ \E r \in Requests : Deadline(r)

Spec == Init /\ [][Next]_vars

-----------------------------------------------------------------------------
(* Properties *)

\* An approval that holds, or held until it was revoked, has as many distinct approvers
\* behind it as were required, and a partial one has fewer: stale copies and decisions
\* repeated under other keys neither lend approvals nor lose the last one.
ApprovedHasQuorum ==
  \A r \in Requests :
    /\ record[r].status \in {"approved", "revoked"} => Cardinality(record[r].approved_by) >= Required
    /\ record[r].status = "partially_approved" => Cardinality(record[r].approved_by) < Required

\* A request once denied, cancelled or revoked is never open or approved again.  Its status
\* may still turn to expired: a reader that had it pending writes that over the refusal.
RefusalIsFinal == \A r \in refused : record[r].status \in Refused \cup {"expired"}

\* An approval given is not lost to another thread's write: while a request is open or
\* approved its approvers only grow, whoever overwrites the record with an older copy.
ApprovalsAreKept ==
  [][\A r \in Requests :
       record'[r].status \in Active \cup {"approved"} =>
         record[r].approved_by \subseteq record'[r].approved_by]_vars

\* Creation counts and stores without the lock, and a decision can reopen a request that
\* expired under it; even so the limit is exceeded by the other threads at most.
PendingBounded == Cardinality(Pending) <= MaxPending - 1 + Cardinality(Calls)

\* Two creations with one key can both find none, but only while both are under way: a key
\* never has more requests than there are threads.
KeyBounded ==
  \A k \in Keys : Cardinality({r \in Stored : keyed[r] = k}) <= Cardinality(Calls)
=============================================================================
