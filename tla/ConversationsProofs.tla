------------------------- MODULE ConversationsProofs -------------------------
(***************************************************************************)
(* Theorems about Conversations, for any number of processes, messages,    *)
(* threads and fields.                                                     *)
(***************************************************************************)
EXTENDS Conversations, TLAPS

Reading(c) == pc[c] = "reading"
Inside(c)  == pc[c] \in {"reading", "closing"}

\* A row or copy accounts for its template: a field is answered, blank, asked for, or one of
\* those that a stale copy's save has lost.
Accounts(x, lost) == x.template \subseteq x.required \cup x.collected \cup x.blank \cup lost

\* A copy is a copy of its thread.
TemplatesAgree == \A c \in Calls : Reading(c) => copy[c].template = thread[on[c]].template

\* There is no row until a call works on it.
ThreadsExist ==
  /\ \A t \in Threads : thread[t].status = "absent" => thread[t] = NoRow
  /\ \A c \in Calls : pc[c] # "idle" => thread[on[c]].status # "absent"

\* A copy nobody has committed over is the row.
FreshIsCurrent == \A c \in Calls : Reading(c) /\ c \notin stale => copy[c] = thread[on[c]]

\* Rows and copies account for their templates.
Accounted ==
  /\ \A t \in Threads : Accounts(thread[t], vanished[t])
  /\ \A c \in Calls : Reading(c) => Accounts(copy[c], vanished[on[c]])

CInv == /\ TypeOK
        /\ TemplatesAgree
        /\ ThreadsExist
        /\ FreshIsCurrent
        /\ Accounted
        /\ DispatchIsComplete

-----------------------------------------------------------------------------
(* What a message does to the columns *)

\* The columns a call holds after merging and narrowing ...
Holds(session, old, answered, blanked) ==
  /\ session \in Row /\ session.template = old.template
  /\ session.collected = (old.collected \ blanked) \cup answered
  /\ session.blank = (old.blank \cup blanked) \ answered
  /\ session.required = IF old.required \ session.collected = {}
                        THEN old.required ELSE old.required \ session.collected
  /\ Missing(session) = old.required \ session.collected

\* ... and those of the row after the UPDATE.
Becomes(saved, row, old, new, inputs) ==
  /\ saved \in Row /\ saved.template = row.template /\ saved.status = row.status
  /\ saved.collected = IF inputs = {} THEN row.collected ELSE new.collected
  /\ saved.blank = IF inputs = {} THEN row.blank ELSE new.blank
  /\ saved.required = IF new.required # old.required THEN new.required ELSE row.required

LEMMA SessionColumns ==
  ASSUME NEW old \in Row, NEW answered \in SUBSET Fields, NEW blanked \in SUBSET Fields,
         NEW session, session = Narrowed(Merged(old, answered, blanked))
  PROVE  Holds(session, old, answered, blanked)
  <1> DEFINE merged  == Merged(old, answered, blanked)
             missing == old.required \ session.collected
  <1>1. /\ merged \in Row /\ merged.template = old.template /\ merged.required = old.required
        /\ merged.collected = (old.collected \ blanked) \cup answered
        /\ merged.blank = (old.blank \cup blanked) \ answered
    BY DEF Merged, Row
  <1> HIDE DEF merged
  <1>2. /\ session = Narrowed(merged)
        /\ session \in Row /\ session.template = merged.template
        /\ session.collected = merged.collected /\ session.blank = merged.blank
        /\ session.required = IF Missing(merged) = {} THEN merged.required ELSE Missing(merged)
    BY <1>1 DEF Narrowed, Missing, Row, merged
  <1>3. Missing(merged) = missing
    BY <1>1, <1>2 DEF Missing
  <1>4. session.required = IF missing = {} THEN old.required ELSE missing
    BY <1>1, <1>2, <1>3
  <1>5. Missing(session) = missing
    BY <1>4 DEF Missing
  <1> QED BY <1>1, <1>2, <1>4, <1>5 DEF Holds

LEMMA SavedColumns ==
  ASSUME NEW row \in Row, NEW old, NEW new \in Row, NEW inputs,
         NEW saved, saved = Saved(row, old, new, inputs)
  PROVE  Becomes(saved, row, old, new, inputs)
  BY DEF Saved, Row, Becomes

\* The session of an accounting copy accounts for its template; when it misses nothing, it
\* does so without its questions.
LEMMA SessionAccounts ==
  ASSUME NEW old \in Row, NEW lost, Accounts(old, lost),
         NEW answered \in SUBSET Fields, NEW blanked \in SUBSET Fields,
         NEW session, session = Narrowed(Merged(old, answered, blanked))
  PROVE  /\ Accounts(session, lost)
         /\ Missing(session) = {} =>
              session.template \subseteq session.collected \cup session.blank \cup lost
  <1> DEFINE missing == old.required \ session.collected
  <1>1. /\ session.template = old.template
        /\ session.collected = (old.collected \ blanked) \cup answered
        /\ session.blank = (old.blank \cup blanked) \ answered
        /\ session.required = IF missing = {} THEN old.required ELSE missing
        /\ Missing(session) = missing
    <2>1. Holds(session, old, answered, blanked)
      BY SessionColumns
    <2> QED BY <2>1 DEF Holds
  <1>2. old.collected \cup old.blank \subseteq session.collected \cup session.blank
    BY <1>1
  <1>3. old.required \subseteq session.required \cup session.collected
    BY <1>1
  <1>4. old.template \subseteq old.required \cup old.collected \cup old.blank \cup lost
    BY DEF Accounts
  <1>5. Accounts(session, lost)
    BY <1>1, <1>2, <1>3, <1>4 DEF Accounts
  <1>6. Missing(session) = {} => old.required \subseteq session.collected
    BY <1>1
  <1> QED BY <1>1, <1>2, <1>4, <1>5, <1>6

\* A stale copy's save leaves the row accounting, but for what LeftOut says it lost.
LEMMA StaleSaveAccounts ==
  ASSUME NEW row \in Row, NEW lost, Accounts(row, lost),
         NEW old \in Row, Accounts(old, lost), row.template = old.template,
         NEW answered \in SUBSET Fields, NEW blanked \in SUBSET Fields,
         NEW session, session = Narrowed(Merged(old, answered, blanked)),
         NEW saved, saved = Saved(row, old, session, answered \cup blanked),
         NEW left,
         answered \cap old.required = {} =>
           left = saved.template \ (saved.required \cup saved.collected \cup saved.blank)
  PROVE  Accounts(saved, lost \cup left)
  <1> DEFINE missing == old.required \ session.collected
  <1>1. /\ session \in Row /\ session.template = old.template
        /\ session.collected = (old.collected \ blanked) \cup answered
        /\ session.blank = (old.blank \cup blanked) \ answered
        /\ session.required = IF missing = {} THEN old.required ELSE missing
        /\ Missing(session) = missing
    <2>1. Holds(session, old, answered, blanked)
      BY SessionColumns
    <2> QED BY <2>1 DEF Holds
  <1>2. /\ Accounts(session, lost)
        /\ Missing(session) = {} =>
             session.template \subseteq session.collected \cup session.blank \cup lost
    BY SessionAccounts
  <1>3. /\ saved.template = row.template
        /\ saved.collected = IF answered \cup blanked = {} THEN row.collected ELSE session.collected
        /\ saved.blank = IF answered \cup blanked = {} THEN row.blank ELSE session.blank
        /\ saved.required = IF session.required # old.required THEN session.required
                                                               ELSE row.required
    <2>1. Becomes(saved, row, old, session, answered \cup blanked)
      BY <1>1, SavedColumns
    <2> QED BY <2>1 DEF Becomes
  <1>4. session.template \subseteq session.required \cup session.collected \cup session.blank
                                     \cup lost
    BY <1>2 DEF Accounts
  <1>5. CASE answered \cap old.required = {}
    BY <1>5 DEF Accounts
  <1>6. CASE answered \cup blanked # {} /\ (session.required # old.required \/ missing = {})
    <2>1. saved.collected = session.collected /\ saved.blank = session.blank
      BY <1>3, <1>6
    <2>2. row.template \subseteq saved.required \cup saved.collected \cup saved.blank \cup lost
      <3>1. CASE session.required # old.required
        BY <1>1, <1>3, <1>4, <2>1, <3>1
      <3>2. CASE missing = {}
        BY <1>1, <1>2, <2>1, <3>2
      <3> QED BY <1>6, <3>1, <3>2
    <2> QED BY <1>3, <2>2 DEF Accounts
  <1>7. CASE answered \cap old.required # {}
    <2>1. answered \cup blanked # {}
      BY <1>7
    <2>2. session.required # old.required \/ missing = {}
      BY <1>1, <1>7
    <2> QED BY <1>6, <2>1, <2>2
  <1> QED BY <1>5, <1>7

-----------------------------------------------------------------------------
(* What the two actions that write questions and answers come down to *)

\* A new thread accounts for its template; its call executes it only when it is complete.
Opens(c, t, created) ==
  /\ created.status \in {"running", "waiting_for_user"}
  /\ Accounts(created, {})
  /\ thread' = [thread EXCEPT ![t] = created]
  /\ \/ Dispatch(c, created) /\ created.template \subseteq created.collected
     \/ Answer(c, t)

\* A message writes what its session makes of the columns, and then executes or answers.
Saves(c, answered, blanked, session, saved) ==
  /\ session = Narrowed(Merged(copy[c], answered, blanked))
  /\ saved = Saved(thread[on[c]], copy[c], session, answered \cup blanked)
  /\ Holds(session, copy[c], answered, blanked)
  /\ Becomes(saved, thread[on[c]], copy[c], session, answered \cup blanked)
  /\ thread' = [thread EXCEPT ![on[c]] = saved]
  /\ vanished' = [vanished EXCEPT
                    ![on[c]] = @ \cup LeftOut(c, saved, answered)]
  /\ \/ Dispatch(c, session) /\ Missing(session) = {}
     \/ Answer(c, on[c])

LEMMA Starting ==
  ASSUME NEW c \in Calls, NEW t \in Threads, NEW template \in SUBSET Fields,
         NEW given \in SUBSET Fields, NEW blank \in SUBSET Fields,
         Start(c, t, template, given, blank)
  PROVE  \E created \in Row : Opens(c, t, created)
  <1> DEFINE missing == template \ given
             created == [status    |-> IF missing = {} THEN "running" ELSE "waiting_for_user",
                         template  |-> template,
                         required  |-> IF missing = {} THEN template ELSE missing,
                         collected |-> given,
                         blank     |-> blank]
  <1>1. /\ created \in Row
        /\ created.status \in {"running", "waiting_for_user"}
        /\ created.template = template /\ created.collected = given
        /\ created.required = IF missing = {} THEN template ELSE missing
    BY DEF Row
  <1>2. Accounts(created, {})
    BY <1>1 DEF Accounts
  <1>3. /\ thread' = [thread EXCEPT ![t] = created]
        /\ IF missing = {} THEN Dispatch(c, created) ELSE Answer(c, t)
    BY DEF Start
  <1>4. \/ Dispatch(c, created) /\ created.template \subseteq created.collected
        \/ Answer(c, t)
    BY <1>1, <1>3
  <1>5. Opens(c, t, created)
    BY <1>1, <1>2, <1>3, <1>4 DEF Opens
  <1> QED BY <1>1, <1>5

LEMMA Continuing ==
  ASSUME TypeOK, NEW c \in Calls, NEW answered \in SUBSET Fields, NEW blanked \in SUBSET Fields,
         Continue(c, answered, blanked)
  PROVE  \E session \in Row, saved \in Row : Saves(c, answered, blanked, session, saved)
  <1>1. on[c] \in Threads /\ copy[c] \in Row /\ thread[on[c]] \in Row
    BY DEF TypeOK, Continue
  <1> DEFINE session == Narrowed(Merged(copy[c], answered, blanked))
             saved   == Saved(thread[on[c]], copy[c], session, answered \cup blanked)
  <1>2. Holds(session, copy[c], answered, blanked) /\ session \in Row
    <2>1. Holds(session, copy[c], answered, blanked)
      BY <1>1, SessionColumns
    <2> QED BY <2>1 DEF Holds
  <1>3. /\ thread' = [thread EXCEPT ![on[c]] = saved]
        /\ IF Missing(session) = {} THEN Dispatch(c, session) ELSE Answer(c, on[c])
        /\ vanished' = [vanished EXCEPT
                          ![on[c]] = @ \cup LeftOut(c, saved, answered)]
    BY DEF Continue
  <1> HIDE DEF session
  <1>4. Becomes(saved, thread[on[c]], copy[c], session, answered \cup blanked) /\ saved \in Row
    <2>1. Becomes(saved, thread[on[c]], copy[c], session, answered \cup blanked)
      BY <1>1, <1>2, SavedColumns
    <2> QED BY <2>1 DEF Becomes
  <1>5. Saves(c, answered, blanked, session, saved)
    BY <1>2, <1>3, <1>4 DEF Saves, session
  <1> QED BY <1>2, <1>4, <1>5

-----------------------------------------------------------------------------
(* Type correctness *)

LEMMA StepTypes == TypeOK /\ [Next]_vars => TypeOK'
  <1> SUFFICES ASSUME TypeOK, [Next]_vars PROVE TypeOK'
    OBVIOUS
  <1> USE DEF TypeOK
  <1>1. CASE UNCHANGED vars
    BY <1>1 DEF vars
  <1>2. ASSUME NEW c \in Calls, NEW t \in Threads,
               NEW template \in SUBSET Fields, NEW given \in SUBSET Fields,
               NEW blank \in SUBSET Fields, Start(c, t, template, given, blank)
        PROVE  TypeOK'
    <2>1. PICK created \in Row : Opens(c, t, created)
      BY <1>2, Starting
    <2>2. /\ pc[c] = "idle" /\ on' = [on EXCEPT ![c] = t]
          /\ UNCHANGED <<proc, stale, vanished>>
      BY <1>2 DEF Start
    <2>3. NoRow \in Row
      BY DEF NoRow, Row
    <2> QED
      BY <2>1, <2>2, <2>3, ConversationsAssumption DEF Opens, Dispatch, Answer
  <1>3. ASSUME NEW c \in Calls, NEW t \in Threads, Read(c, t) PROVE TypeOK'
    BY <1>3, ConversationsAssumption DEF Read
  <1>4. ASSUME NEW c \in Calls, NEW answered \in SUBSET Fields, NEW blanked \in SUBSET Fields,
               Continue(c, answered, blanked)
        PROVE  TypeOK'
    <2>1. pc[c] = "reading" /\ UNCHANGED <<proc, on>> /\ on[c] \in Threads
      BY <1>4 DEF Continue
    <2>2. PICK session \in Row, saved \in Row : Saves(c, answered, blanked, session, saved)
      BY <1>4, Continuing
    <2>3. Supersede(c, on[c])
      BY <1>4 DEF Continue
    <2>4. vanished' \in [Threads -> SUBSET Fields]
      <3>1. LeftOut(c, saved, answered) \subseteq Fields
        BY <2>1 DEF LeftOut, Row
      <3> QED BY <2>1, <2>2, <3>1 DEF Saves
    <2>5. stale' \in SUBSET Calls
      BY <2>3 DEF Supersede
    <2>6. NoRow \in Row
      BY DEF NoRow, Row
    <2> QED
      BY <2>1, <2>2, <2>4, <2>5, <2>6 DEF Saves, Dispatch, Answer
  <1>5. ASSUME NEW c \in Calls, ReadBack(c) PROVE TypeOK'
    BY <1>5 DEF ReadBack
  <1>6. ASSUME NEW c \in Calls, NEW outcome \in Closed, Record(c, outcome) PROVE TypeOK'
    <2>1. on[c] \in Threads /\ thread[on[c]] \in Row
      BY <1>6 DEF Record
    <2>2. thread' \in [Threads -> Row]
      BY <1>6, <2>1 DEF Record, Row
    <2> QED
      BY <1>6, <2>1, <2>2 DEF Record, Answer, Supersede, Row, NoRow
  <1>7. ASSUME NEW c \in Calls, Fail(c) PROVE TypeOK'
    BY <1>7 DEF Fail, Row, NoRow
  <1> QED
    BY <1>1, <1>2, <1>3, <1>4, <1>5, <1>6, <1>7 DEF Next

\* Every variable keeps its type: rows and copies have known statuses and fields, and a call
\* works on a thread exactly once it has been taken up.
THEOREM TypeCorrect == Spec => []TypeOK
  <1>1. Init => TypeOK
    BY DEF Init, TypeOK, Row, NoRow
  <1> QED
    BY <1>1, StepTypes, PTL DEF Spec

-----------------------------------------------------------------------------
(* The inductive invariant *)

LEMMA InitCInv == Init => CInv
  <1> SUFFICES ASSUME Init PROVE CInv
    OBVIOUS
  <1>1. TypeOK
    BY DEF Init, TypeOK, Row, NoRow
  <1>2. \A t \in Threads : thread[t] = NoRow
    BY DEF Init
  <1>3. \A c \in Calls : pc[c] = "idle" /\ ~Reading(c)
    BY DEF Init, Reading
  <1> QED
    BY <1>1, <1>2, <1>3
    DEF CInv, TemplatesAgree, ThreadsExist, FreshIsCurrent, Accounted, Accounts,
        DispatchIsComplete, NoRow

\* A new thread disturbs nobody: no call has worked on it.
LEMMA StartCInv ==
  ASSUME CInv, NEW c \in Calls, NEW t \in Threads,
         NEW template \in SUBSET Fields, NEW given \in SUBSET Fields,
         NEW blank \in SUBSET Fields, Start(c, t, template, given, blank), TypeOK'
  PROVE  CInv'
  <1>1. PICK created \in Row : Opens(c, t, created)
    BY Starting
  <1>2. /\ pc[c] = "idle" /\ thread[t].status = "absent"
        /\ on' = [on EXCEPT ![c] = t]
        /\ UNCHANGED <<proc, stale, vanished>>
    BY DEF Start
  <1>3. thread'[t] = created /\ \A u \in Threads \ {t} : thread'[u] = thread[u]
    BY <1>1 DEF Opens, CInv, TypeOK
  <1>4. /\ on'[c] = t
        /\ \A d \in Calls \ {c} : on'[d] = on[d] /\ pc'[d] = pc[d] /\ copy'[d] = copy[d]
    BY <1>1, <1>2 DEF Opens, Dispatch, Answer, CInv, TypeOK
  <1>5. /\ pc'[c] \in {"executing", "done"}
        /\ pc'[c] = "executing" => copy'[c].template \subseteq copy'[c].collected
    BY <1>1 DEF Opens, Dispatch, Answer, CInv, TypeOK
  <1>6. \A d \in Calls \ {c} : pc[d] # "idle" => on[d] \in Threads \ {t}
    BY <1>2 DEF CInv, TypeOK, ThreadsExist
  <1>7. \A d \in Calls : Reading(d)' =>
          /\ Reading(d) /\ on'[d] = on[d] /\ copy'[d] = copy[d]
          /\ on[d] \in Threads \ {t}
    BY <1>4, <1>5, <1>6 DEF Reading
  <1>8. TemplatesAgree'
    BY <1>1, <1>3, <1>7 DEF CInv, TemplatesAgree
  <1>9. ThreadsExist'
    BY <1>1, <1>3, <1>4, <1>6 DEF Opens, CInv, ThreadsExist
  <1>10. FreshIsCurrent'
    BY <1>2, <1>3, <1>7 DEF CInv, FreshIsCurrent
  <1>11. Accounted'
    BY <1>1, <1>2, <1>3, <1>7 DEF Opens, CInv, Accounted, Accounts
  <1>12. DispatchIsComplete'
    BY <1>2, <1>4, <1>5 DEF CInv, DispatchIsComplete
  <1> QED BY <1>8, <1>9, <1>10, <1>11, <1>12 DEF CInv

\* A read takes the row as it is.
LEMMA ReadCInv ==
  ASSUME CInv, NEW c \in Calls, NEW t \in Threads, Read(c, t), TypeOK'
  PROVE  CInv'
  <1>1. /\ pc' = [pc EXCEPT ![c] = "reading"] /\ on' = [on EXCEPT ![c] = t]
        /\ copy' = [copy EXCEPT ![c] = thread[t]]
        /\ thread[t].status = "waiting_for_user"
        /\ UNCHANGED <<thread, stale, vanished>>
    BY DEF Read
  <1>2. /\ on'[c] = t /\ copy'[c] = thread[t] /\ pc'[c] = "reading"
        /\ \A d \in Calls \ {c} : on'[d] = on[d] /\ pc'[d] = pc[d] /\ copy'[d] = copy[d]
    BY <1>1 DEF CInv, TypeOK
  <1>3. TemplatesAgree'
    BY <1>1, <1>2 DEF CInv, TemplatesAgree, Reading
  <1>4. ThreadsExist'
    BY <1>1, <1>2 DEF CInv, ThreadsExist
  <1>5. FreshIsCurrent'
    BY <1>1, <1>2 DEF CInv, FreshIsCurrent, Reading
  <1>6. Accounted'
    BY <1>1, <1>2 DEF CInv, Accounted, Reading, Accounts
  <1>7. DispatchIsComplete'
    BY <1>1, <1>2 DEF CInv, DispatchIsComplete
  <1> QED BY <1>3, <1>4, <1>5, <1>6, <1>7 DEF CInv

\* A message that continues a thread: every other call that has read it is stale from here on.
LEMMA ContinueCInv ==
  ASSUME CInv, NEW c \in Calls, NEW answered \in SUBSET Fields, NEW blanked \in SUBSET Fields,
         Continue(c, answered, blanked), TypeOK'
  PROVE  CInv'
  <1>1. PICK session \in Row, saved \in Row : Saves(c, answered, blanked, session, saved)
    BY Continuing DEF CInv
  <1> DEFINE left == LeftOut(c, saved, answered)
  <1>2. /\ Reading(c) /\ on[c] \in Threads /\ copy[c] \in Row /\ thread[on[c]] \in Row
        /\ on' = on
        /\ stale' = stale \cup {d \in Calls \ {c} : pc[d] = "reading" /\ on[d] = on[c]}
    BY DEF Continue, Reading, Supersede, CInv, TypeOK
  <1>3. /\ thread'[on[c]] = saved /\ \A u \in Threads \ {on[c]} : thread'[u] = thread[u]
        /\ vanished'[on[c]] = vanished[on[c]] \cup left
        /\ \A u \in Threads : vanished[u] \subseteq vanished'[u]
    BY <1>1, <1>2 DEF Saves, CInv, TypeOK
  <1>4. \A d \in Calls \ {c} : pc'[d] = pc[d] /\ copy'[d] = copy[d]
    BY <1>1 DEF Saves, Dispatch, Answer, CInv, TypeOK
  <1>5. /\ pc'[c] \in {"executing", "done"}
        /\ pc'[c] = "executing" => copy'[c] = session /\ Missing(session) = {}
    BY <1>1 DEF Saves, Dispatch, Answer, CInv, TypeOK
  <1>6. \A d \in Calls : Reading(d)' => d # c /\ Reading(d) /\ copy'[d] = copy[d] /\ on[d] \in Threads
    BY <1>4, <1>5 DEF Reading, CInv, TypeOK
  <1>7. /\ copy[c].template = thread[on[c]].template
        /\ thread[on[c]].status # "absent"
        /\ Accounts(copy[c], vanished[on[c]]) /\ Accounts(thread[on[c]], vanished[on[c]])
    BY <1>2 DEF CInv, TemplatesAgree, ThreadsExist, Accounted, Reading
  <1>8. TemplatesAgree'
    BY <1>1, <1>2, <1>3, <1>6 DEF Saves, Becomes, CInv, TemplatesAgree
  <1>9. ThreadsExist'
    <2>1. saved.status # "absent"
      BY <1>1, <1>7 DEF Saves, Becomes
    <2>2. \A u \in Threads : thread'[u].status = "absent" =>
            thread[u].status = "absent" /\ thread'[u] = thread[u]
      BY <1>3, <2>1
    <2>3. \A d \in Calls : pc'[d] # "idle" => pc[d] # "idle" /\ on[d] \in Threads
      BY <1>2, <1>4 DEF CInv, TypeOK, Reading
    <2>4. \A d \in Calls : pc'[d] # "idle" => thread'[on'[d]].status # "absent"
      BY <1>2, <2>2, <2>3 DEF CInv, ThreadsExist
    <2> QED BY <2>2, <2>4 DEF CInv, ThreadsExist
  <1>10. FreshIsCurrent'
    <2> SUFFICES ASSUME NEW d \in Calls, Reading(d)', d \notin stale'
                 PROVE  copy'[d] = thread'[on'[d]]
      BY DEF FreshIsCurrent
    <2>1. d # c /\ Reading(d) /\ copy'[d] = copy[d] /\ d \notin stale /\ on[d] # on[c]
      BY <1>2, <1>6 DEF Reading
    <2>2. on[d] \in Threads
      BY <2>1 DEF CInv, TypeOK, Reading
    <2> QED BY <1>2, <1>3, <2>1, <2>2 DEF CInv, FreshIsCurrent
  <1>11. Accounts(saved, vanished[on[c]] \cup left)
    <2>1. CASE c \in stale
      <3>1. answered \cap copy[c].required = {} =>
              left = saved.template \ (saved.required \cup saved.collected \cup saved.blank)
        BY <2>1 DEF LeftOut
      <3>2. /\ session = Narrowed(Merged(copy[c], answered, blanked))
            /\ saved = Saved(thread[on[c]], copy[c], session, answered \cup blanked)
        BY <1>1 DEF Saves
      <3> HIDE DEF left
      <3> QED BY <1>2, <1>7, <3>1, <3>2, StaleSaveAccounts
    <2>2. CASE c \notin stale
      <3>1. copy[c] = thread[on[c]]
        BY <1>2, <2>2 DEF CInv, FreshIsCurrent
      <3>2. Accounts(session, vanished[on[c]])
        BY <1>1, <1>2, <1>7, SessionAccounts DEF Saves
      <3>3. /\ session.template = copy[c].template
            /\ session.collected = (copy[c].collected \ blanked) \cup answered
            /\ session.blank = (copy[c].blank \cup blanked) \ answered
        BY <1>1 DEF Saves, Holds
      <3>4. /\ saved.template = copy[c].template
            /\ saved.collected = IF answered \cup blanked = {} THEN copy[c].collected
                                                               ELSE session.collected
            /\ saved.blank = IF answered \cup blanked = {} THEN copy[c].blank ELSE session.blank
            /\ saved.required = session.required
        BY <1>1, <3>1 DEF Saves, Becomes
      <3>5. session.collected \cup session.blank \subseteq saved.collected \cup saved.blank
        BY <3>3, <3>4
      <3> QED BY <3>2, <3>3, <3>4, <3>5 DEF Accounts
    <2> QED BY <2>1, <2>2
  <1>12. Accounted'
    <2>1. ASSUME NEW u \in Threads PROVE Accounts(thread'[u], vanished'[u])
      <3>1. CASE u = on[c]
        BY <1>3, <1>11, <3>1
      <3>2. CASE u # on[c]
        BY <1>3, <3>2 DEF CInv, Accounted, Accounts
      <3> QED BY <3>1, <3>2
    <2>2. ASSUME NEW d \in Calls, Reading(d)' PROVE Accounts(copy'[d], vanished'[on'[d]])
      BY <1>2, <1>3, <1>6, <2>2 DEF CInv, Accounted, Accounts
    <2> QED BY <2>1, <2>2 DEF Accounted, Accounts
  <1>13. DispatchIsComplete'
    <2> SUFFICES ASSUME NEW d \in Calls, pc'[d] = "executing"
                 PROVE  copy'[d].template
                          \subseteq copy'[d].collected \cup copy'[d].blank \cup vanished'[on'[d]]
      BY DEF DispatchIsComplete
    <2>1. CASE d = c
      <3>1. copy'[c] = session /\ Missing(session) = {} /\ on'[c] = on[c]
        BY <1>2, <1>5, <2>1
      <3>2. session = Narrowed(Merged(copy[c], answered, blanked))
        BY <1>1 DEF Saves
      <3>3. session.template \subseteq session.collected \cup session.blank \cup vanished[on[c]]
        BY <1>2, <1>7, <3>1, <3>2, SessionAccounts
      <3> QED BY <1>2, <1>3, <2>1, <3>1, <3>3
    <2>2. CASE d # c
      <3>1. pc[d] = "executing" /\ copy'[d] = copy[d] /\ on'[d] = on[d] /\ on[d] \in Threads
        BY <1>2, <1>4, <2>2 DEF CInv, TypeOK
      <3> QED BY <1>3, <3>1 DEF CInv, DispatchIsComplete
    <2> QED BY <2>1, <2>2
  <1> QED BY <1>8, <1>9, <1>10, <1>12, <1>13 DEF CInv

\* The end of a call writes at most a status.
LEMMA RecordCInv ==
  ASSUME CInv, NEW c \in Calls, NEW outcome \in Closed, Record(c, outcome), TypeOK'
  PROVE  CInv'
  <1>1. /\ pc[c] = "closing" /\ on[c] \in Threads /\ thread[on[c]] \in Row
        /\ on' = on /\ vanished' = vanished
        /\ stale' = stale \cup {d \in Calls \ {c} : pc[d] = "reading" /\ on[d] = on[c]}
    BY DEF Record, Supersede, CInv, TypeOK
  <1>2. \A u \in Threads :
          /\ u # on[c] => thread'[u] = thread[u]
          /\ thread'[u].template = thread[u].template
          /\ thread'[u].required = thread[u].required
          /\ thread'[u].collected = thread[u].collected
          /\ thread'[u].blank = thread[u].blank
          /\ thread'[u].status \in {thread[u].status} \cup Closed
    BY <1>1 DEF Record, CInv, TypeOK, Row
  <1>3. pc'[c] = "done" /\ \A d \in Calls \ {c} : pc'[d] = pc[d] /\ copy'[d] = copy[d]
    BY DEF Record, Answer, CInv, TypeOK
  <1>4. \A d \in Calls : Reading(d)' => d # c /\ Reading(d) /\ copy'[d] = copy[d] /\ on[d] \in Threads
    BY <1>1, <1>3 DEF Reading, CInv, TypeOK
  <1>5. TemplatesAgree'
    BY <1>1, <1>2, <1>4 DEF CInv, TemplatesAgree
  <1>6. ThreadsExist'
    <2>1. thread[on[c]].status # "absent"
      BY <1>1 DEF CInv, ThreadsExist
    <2>2. \A u \in Threads : thread'[u].status = "absent" =>
            thread[u].status = "absent" /\ thread'[u] = thread[u]
      BY <1>2, <2>1 DEF Closed
    <2>3. \A d \in Calls : pc'[d] # "idle" => pc[d] # "idle" /\ on[d] \in Threads
      BY <1>1, <1>3 DEF CInv, TypeOK
    <2> QED BY <1>1, <2>2, <2>3 DEF CInv, ThreadsExist
  <1>7. FreshIsCurrent'
    <2> SUFFICES ASSUME NEW d \in Calls, Reading(d)', d \notin stale'
                 PROVE  copy'[d] = thread'[on'[d]]
      BY DEF FreshIsCurrent
    <2>1. d # c /\ Reading(d) /\ copy'[d] = copy[d] /\ d \notin stale /\ on[d] # on[c]
      BY <1>1, <1>4 DEF Reading
    <2> QED BY <1>1, <1>2, <1>4, <2>1 DEF CInv, FreshIsCurrent
  <1>8. Accounted'
    BY <1>1, <1>2, <1>4 DEF CInv, Accounted, Accounts
  <1>9. DispatchIsComplete'
    BY <1>1, <1>3 DEF CInv, DispatchIsComplete
  <1> QED BY <1>5, <1>6, <1>7, <1>8, <1>9 DEF CInv

LEMMA StepCInv == CInv /\ [Next]_vars => CInv'
  <1> SUFFICES ASSUME CInv, [Next]_vars PROVE CInv'
    OBVIOUS
  <1>0. TypeOK'
    BY StepTypes DEF CInv
  <1>1. CASE UNCHANGED vars
    BY <1>0, <1>1
    DEF vars, CInv, TemplatesAgree, ThreadsExist, FreshIsCurrent, Accounted, Accounts,
        DispatchIsComplete, Reading
  <1>2. ASSUME NEW c \in Calls, NEW t \in Threads,
               NEW template \in SUBSET Fields, NEW given \in SUBSET Fields,
               NEW blank \in SUBSET Fields, Start(c, t, template, given, blank)
        PROVE  CInv'
    BY <1>0, <1>2, StartCInv
  <1>3. ASSUME NEW c \in Calls, NEW t \in Threads, Read(c, t) PROVE CInv'
    BY <1>0, <1>3, ReadCInv
  <1>4. ASSUME NEW c \in Calls, NEW answered \in SUBSET Fields, NEW blanked \in SUBSET Fields,
               Continue(c, answered, blanked)
        PROVE  CInv'
    BY <1>0, <1>4, ContinueCInv
  <1>5. ASSUME NEW c \in Calls, ReadBack(c) \/ Fail(c) PROVE CInv'
    <2>1. /\ pc'[c] \in {"closing", "lost"} /\ pc[c] # "idle"
          /\ \A d \in Calls \ {c} : pc'[d] = pc[d] /\ copy'[d] = copy[d]
          /\ UNCHANGED <<thread, on, stale, vanished>>
      BY <1>5 DEF ReadBack, Fail, CInv, TypeOK
    <2>2. \A d \in Calls : Reading(d)' => Reading(d) /\ copy'[d] = copy[d]
      BY <2>1 DEF Reading
    <2>3. TemplatesAgree' /\ ThreadsExist' /\ FreshIsCurrent' /\ DispatchIsComplete'
      BY <2>1, <2>2
      DEF CInv, TemplatesAgree, ThreadsExist, FreshIsCurrent, DispatchIsComplete
    <2>4. Accounted'
      BY <2>1, <2>2 DEF CInv, Accounted, Accounts
    <2> QED BY <1>0, <2>3, <2>4 DEF CInv
  <1>6. ASSUME NEW c \in Calls, NEW outcome \in Closed, Record(c, outcome) PROVE CInv'
    BY <1>0, <1>6, RecordCInv
  <1> QED
    BY <1>1, <1>2, <1>3, <1>4, <1>5, <1>6 DEF Next

LEMMA SpecCInv == Spec => []CInv
  BY InitCInv, StepCInv, PTL DEF Spec

\* A task executes only with every field of its template, however its rounds and its
\* messages overlap, but for the fields the client gave as blanks and those that the save of
\* a stale copy, by a message that answered nothing the copy asks for, left out.
THEOREM CompleteDispatch == Spec => []DispatchIsComplete
  BY SpecCInv, PTL DEF CInv

-----------------------------------------------------------------------------
(* Action properties *)

\* An answer the thread has is lost only to a blank put in its place, or to a call that read
\* the thread before the answer was given.
THEOREM AnswersKept == Spec => AnswersAreKept
  <1> DEFINE Kept(t, f) ==
               \/ f \in thread'[t].blank
               \/ \E c \in stale : /\ on[c] = t /\ f \notin copy[c].collected
                                   /\ pc[c] = "reading" /\ pc'[c] # "reading"
  <1>1. CInv /\ [Next]_vars =>
          \A t \in Threads : \A f \in thread[t].collected \ thread'[t].collected : Kept(t, f)
    <2> SUFFICES ASSUME CInv, [Next]_vars, NEW t \in Threads,
                        NEW f \in thread[t].collected, f \notin thread'[t].collected
                 PROVE  Kept(t, f)
      OBVIOUS
    <2>1. CASE UNCHANGED vars
      BY <2>1 DEF vars
    <2>2. ASSUME NEW c \in Calls, NEW u \in Threads,
                 NEW template \in SUBSET Fields, NEW given \in SUBSET Fields,
                 NEW blank \in SUBSET Fields, Start(c, u, template, given, blank)
          PROVE  Kept(t, f)
      <3>1. thread[u].collected = {}
        BY <2>2 DEF Start, CInv, ThreadsExist, NoRow
      <3>2. t # u => thread'[t] = thread[t]
        BY <2>2 DEF Start, CInv, TypeOK
      <3> QED BY <3>1, <3>2
    <2>3. ASSUME NEW c \in Calls, NEW answered \in SUBSET Fields, NEW blanked \in SUBSET Fields,
                 Continue(c, answered, blanked)
          PROVE  Kept(t, f)
      <3>1. PICK session \in Row, saved \in Row : Saves(c, answered, blanked, session, saved)
        BY <2>3, Continuing DEF CInv
      <3>2. /\ Reading(c) /\ on[c] \in Threads /\ copy[c] \in Row /\ thread[on[c]] \in Row
            /\ pc'[c] \in {"executing", "done"}
        BY <2>3, <3>1 DEF Continue, Reading, Saves, Dispatch, Answer, CInv, TypeOK
      <3>3. t = on[c] /\ thread'[t] = saved
        BY <3>1, <3>2 DEF Saves, CInv, TypeOK
      <3>4. /\ session.collected = (copy[c].collected \ blanked) \cup answered
            /\ session.blank = (copy[c].blank \cup blanked) \ answered
        BY <3>1 DEF Saves, Holds
      <3>5. /\ saved.collected = IF answered \cup blanked = {} THEN thread[t].collected
                                                               ELSE session.collected
            /\ saved.blank = IF answered \cup blanked = {} THEN thread[t].blank ELSE session.blank
        BY <3>1, <3>3 DEF Saves, Becomes
      <3>6. CASE f \in copy[c].collected
        BY <3>3, <3>4, <3>5, <3>6
      <3>7. CASE f \notin copy[c].collected
        <4>1. c \in stale
          BY <3>2, <3>3, <3>7 DEF CInv, FreshIsCurrent
        <4> QED BY <3>2, <3>3, <3>7, <4>1 DEF Reading
      <3> QED BY <3>6, <3>7
    <2>4. ASSUME NEW c \in Calls, NEW outcome \in Closed, Record(c, outcome)
          PROVE  Kept(t, f)
      <3>1. on[c] \in Threads /\ thread[on[c]] \in Row
        BY <2>4 DEF Record, CInv, TypeOK
      <3>2. thread'[t].collected = thread[t].collected
        BY <2>4, <3>1 DEF Record, CInv, TypeOK, Row
      <3> QED BY <3>2
    <2>5. ASSUME NEW c \in Calls, ReadBack(c) \/ Fail(c) \/ \E u \in Threads : Read(c, u)
          PROVE  Kept(t, f)
      BY <2>5 DEF ReadBack, Fail, Read
    <2> QED
      BY <2>1, <2>2, <2>3, <2>4, <2>5 DEF Next
  <1> QED
    BY <1>1, SpecCInv, PTL DEF Spec, AnswersAreKept

\* A thread that has ended never waits or runs again, and only messages that were at work on
\* it when it ended can still execute it: in any process and whatever fails.
THEOREM EndFinal == Spec => EndIsFinal
  <1>1. CInv /\ [Next]_vars =>
          \A t \in Threads :
            thread[t].status \in Closed =>
              thread'[t].status \in Closed /\ Working(t)' \subseteq Working(t)
    <2> SUFFICES ASSUME CInv, [Next]_vars, NEW t \in Threads, thread[t].status \in Closed
                 PROVE  thread'[t].status \in Closed /\ Working(t)' \subseteq Working(t)
      OBVIOUS
    <2>1. CASE UNCHANGED vars
      BY <2>1 DEF vars, Working
    <2>2. ASSUME NEW c \in Calls, NEW u \in Threads,
                 NEW template \in SUBSET Fields, NEW given \in SUBSET Fields,
                 NEW blank \in SUBSET Fields, Start(c, u, template, given, blank)
          PROVE  thread'[t].status \in Closed /\ Working(t)' \subseteq Working(t)
      <3>1. u # t
        BY <2>2 DEF Start, Closed
      <3>2. thread'[t] = thread[t]
        BY <2>2, <3>1 DEF Start, CInv, TypeOK
      <3>3. /\ on'[c] = u
            /\ \A d \in Calls \ {c} : on'[d] = on[d] /\ pc'[d] = pc[d]
        BY <2>2 DEF Start, Dispatch, Answer, CInv, TypeOK
      <3> QED BY <3>1, <3>2, <3>3 DEF Working
    <2>3. ASSUME NEW c \in Calls, NEW u \in Threads, Read(c, u)
          PROVE  thread'[t].status \in Closed /\ Working(t)' \subseteq Working(t)
      <3>1. u # t /\ thread' = thread
        BY <2>3 DEF Read, Closed
      <3>2. /\ on'[c] = u
            /\ \A d \in Calls \ {c} : on'[d] = on[d] /\ pc'[d] = pc[d]
        BY <2>3 DEF Read, CInv, TypeOK
      <3> QED BY <3>1, <3>2 DEF Working
    <2>4. ASSUME NEW c \in Calls, on' = on, pc[c] \in {"reading", "executing", "closing"},
                 \A d \in Calls \ {c} : pc'[d] = pc[d]
          PROVE  Working(t)' \subseteq Working(t)
      BY <2>4 DEF Working
    <2>5. ASSUME NEW c \in Calls, NEW answered \in SUBSET Fields, NEW blanked \in SUBSET Fields,
                 Continue(c, answered, blanked)
          PROVE  thread'[t].status \in Closed /\ Working(t)' \subseteq Working(t)
      <3>1. PICK session \in Row, saved \in Row : Saves(c, answered, blanked, session, saved)
        BY <2>5, Continuing DEF CInv
      <3>2. thread'[t].status = thread[t].status
        BY <3>1 DEF Saves, Becomes, CInv, TypeOK
      <3>3. on' = on /\ pc[c] = "reading" /\ \A d \in Calls \ {c} : pc'[d] = pc[d]
        BY <2>5 DEF Continue, Dispatch, Answer, CInv, TypeOK
      <3> QED BY <2>4, <3>2, <3>3
    <2>6. ASSUME NEW c \in Calls, NEW outcome \in Closed, Record(c, outcome)
          PROVE  thread'[t].status \in Closed /\ Working(t)' \subseteq Working(t)
      <3>1. thread'[t].status \in {thread[t].status, outcome}
        BY <2>6 DEF Record, CInv, TypeOK, Row
      <3>2. on' = on /\ pc[c] = "closing" /\ \A d \in Calls \ {c} : pc'[d] = pc[d]
        BY <2>6 DEF Record, Answer, CInv, TypeOK
      <3> QED BY <2>4, <3>1, <3>2
    <2>7. ASSUME NEW c \in Calls, ReadBack(c) \/ Fail(c)
          PROVE  thread'[t].status \in Closed /\ Working(t)' \subseteq Working(t)
      <3>1. /\ thread' = thread /\ on' = on
            /\ pc[c] \in {"reading", "executing", "closing"}
            /\ \A d \in Calls \ {c} : pc'[d] = pc[d]
        BY <2>7 DEF ReadBack, Fail, CInv, TypeOK
      <3> QED BY <2>4, <3>1
    <2> QED
      BY <2>1, <2>2, <2>3, <2>5, <2>6, <2>7 DEF Next
  <1> QED
    BY <1>1, SpecCInv, PTL DEF Spec, EndIsFinal

-----------------------------------------------------------------------------
(* One process *)

\* The calls of a process do their bookkeeping one at a time.
OneInside == \A c, d \in Calls : proc[c] = proc[d] /\ Inside(c) /\ Inside(d) => c = d

\* While every message goes to one process, no copy ever becomes stale and no field vanishes:
\* then the two theorems on complete dispatches and kept answers except only blanks.
THEOREM OneProcessNeverRaces == Spec => []NeverRaced
  <1> DEFINE Same == \A c, d \in Calls : proc[c] = proc[d]
  <1>1. Init => OneInside /\ NeverRaced
    BY DEF Init, OneInside, NeverRaced, Inside
  <1>2. TypeOK /\ OneInside /\ [Next]_vars => OneInside'
    <2> SUFFICES ASSUME TypeOK, OneInside, [Next]_vars PROVE OneInside'
      OBVIOUS
    <2>1. CASE UNCHANGED vars
      BY <2>1 DEF vars, OneInside, Inside
    <2>2. ASSUME NEW c \in Calls, proc' = proc,
                 \A d \in Calls \ {c} : pc'[d] = pc[d],
                 Inside(c)' => Inside(c) \/ Free(proc[c])
          PROVE  OneInside'
      <3>1. \A d \in Calls \ {c} : Inside(d)' <=> Inside(d)
        BY <2>2 DEF Inside
      <3>2. \A d \in Calls : Free(proc[c]) /\ proc[d] = proc[c] => ~Inside(d)
        BY DEF Free, Inside
      <3> QED BY <2>2, <3>1, <3>2 DEF OneInside
    <2>3. ASSUME NEW c \in Calls, NEW t \in Threads,
                 NEW template \in SUBSET Fields, NEW given \in SUBSET Fields,
                 NEW blank \in SUBSET Fields, Start(c, t, template, given, blank)
          PROVE  OneInside'
      BY <2>2, <2>3 DEF Start, Dispatch, Answer, TypeOK
    <2>4. ASSUME NEW c \in Calls, NEW t \in Threads, Read(c, t) PROVE OneInside'
      BY <2>2, <2>4 DEF Read, TypeOK
    <2>5. ASSUME NEW c \in Calls, NEW answered \in SUBSET Fields, NEW blanked \in SUBSET Fields,
                 Continue(c, answered, blanked)
          PROVE  OneInside'
      <3>1. /\ proc' = proc /\ pc'[c] \in {"executing", "done"}
            /\ \A d \in Calls \ {c} : pc'[d] = pc[d]
        BY <2>5 DEF Continue, Dispatch, Answer, TypeOK
      <3> QED BY <2>2, <3>1 DEF Inside
    <2>6. ASSUME NEW c \in Calls,
                 ReadBack(c) \/ Fail(c) \/ \E outcome \in Closed : Record(c, outcome)
          PROVE  OneInside'
      <3>1. /\ proc' = proc /\ \A d \in Calls \ {c} : pc'[d] = pc[d]
            /\ pc'[c] \in {"done", "lost"} \/ Free(proc[c])
        BY <2>6 DEF ReadBack, Fail, Record, Answer, TypeOK
      <3> QED BY <2>2, <3>1 DEF Inside
    <2> QED
      BY <2>1, <2>3, <2>4, <2>5, <2>6 DEF Next
  <1>3. TypeOK /\ OneInside /\ NeverRaced /\ [Next]_vars => NeverRaced'
    <2> SUFFICES ASSUME TypeOK, OneInside, NeverRaced, [Next]_vars, Same'
                 PROVE  stale' = {} /\ vanished' = [t \in Threads |-> {}]
      BY DEF NeverRaced
    <2>1. proc' = proc
      <3>1. ASSUME NEW c \in Calls, NEW t \in Threads,
                   NEW template \in SUBSET Fields, NEW given \in SUBSET Fields,
                   NEW blank \in SUBSET Fields, Start(c, t, template, given, blank)
            PROVE  proc' = proc
        BY <3>1 DEF Start
      <3>2. ASSUME NEW c \in Calls, NEW answered \in SUBSET Fields,
                   NEW blanked \in SUBSET Fields, Continue(c, answered, blanked)
            PROVE  proc' = proc
        BY <3>2 DEF Continue
      <3>3. ASSUME NEW c \in Calls,
                   \/ \E t \in Threads : Read(c, t)
                   \/ ReadBack(c) \/ Fail(c)
                   \/ \E outcome \in Closed : Record(c, outcome)
            PROVE  proc' = proc
        BY <3>3 DEF Read, ReadBack, Fail, Record
      <3>4. CASE UNCHANGED vars
        BY <3>4 DEF vars
      <3> QED BY <3>1, <3>2, <3>3, <3>4 DEF Next
    <2>2. stale = {} /\ vanished = [t \in Threads |-> {}]
      BY <2>1 DEF NeverRaced
    <2>3. ASSUME NEW c \in Calls, Inside(c), Supersede(c, on[c]) PROVE stale' = {}
      <3>1. \A d \in Calls \ {c} : ~Inside(d)
        BY <2>1, <2>3 DEF OneInside
      <3> QED BY <2>2, <2>3, <3>1 DEF Supersede, Inside
    <2>4. CASE UNCHANGED <<stale, vanished>>
      BY <2>2, <2>4
    <2>5. ASSUME NEW c \in Calls, NEW answered \in SUBSET Fields, NEW blanked \in SUBSET Fields,
                 Continue(c, answered, blanked)
          PROVE  stale' = {} /\ vanished' = [t \in Threads |-> {}]
      <3>1. Inside(c) /\ Supersede(c, on[c])
        BY <2>5 DEF Continue, Inside
      <3>2. \A saved : LeftOut(c, saved, answered) = {}
        BY <2>2 DEF LeftOut
      <3>3. vanished' = [vanished EXCEPT ![on[c]] = @]
        BY <2>5, <3>2 DEF Continue
      <3> QED BY <2>2, <2>3, <3>1, <3>3
    <2>6. ASSUME NEW c \in Calls, NEW outcome \in Closed, Record(c, outcome)
          PROVE  stale' = {} /\ vanished' = [t \in Threads |-> {}]
      BY <2>2, <2>3, <2>6 DEF Record, Inside
    <2>7. ASSUME NEW c \in Calls, NEW t \in Threads, NEW template \in SUBSET Fields,
                 NEW given \in SUBSET Fields, NEW blank \in SUBSET Fields,
                 Start(c, t, template, given, blank)
          PROVE  UNCHANGED <<stale, vanished>>
      BY <2>7 DEF Start
    <2>8. ASSUME NEW c \in Calls, ReadBack(c) \/ Fail(c) \/ \E t \in Threads : Read(c, t)
          PROVE  UNCHANGED <<stale, vanished>>
      BY <2>8 DEF Read, ReadBack, Fail
    <2>9. CASE UNCHANGED vars
      BY <2>4, <2>9 DEF vars
    <2> QED
      BY <2>4, <2>5, <2>6, <2>7, <2>8, <2>9 DEF Next
  <1> QED
    BY <1>1, <1>2, <1>3, TypeCorrect, PTL DEF Spec
=============================================================================
