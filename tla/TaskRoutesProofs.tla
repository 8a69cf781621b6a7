--------------------------- MODULE TaskRoutesProofs ---------------------------
(***************************************************************************)
(* Theorems about TaskRoutes, for any number of requests and tasks, any    *)
(* history limit and any set of sensitive tasks.  Those about executions   *)
(* of one task assume that reviews do not suspend.                         *)
(***************************************************************************)
EXTENDS TaskRoutes, TLAPS

\* The task of a request in progress has been created.
AwaitedExists ==
  \A q \in Requests : req[q] # Idle => status[req[q].task] # "absent"

\* What holds whether or not reviews suspend.
AInv == TypeOK /\ AwaitedExists /\ SensitiveIsApproved /\ RunningIsExecuted /\ ListedIsStored

\* A task that is being executed cannot be run: it is running, or was cancelled and
\* perhaps trimmed since.
ExecutingIsNotRunnable ==
  \A q \in Requests, t \in Tasks :
    InMaster(q, t) => status[t] \in {"running", "cancelled", "removed"}

CancelledIsDated == \A t \in Tasks : status[t] = "cancelled" => t \in cancelled

\* What holds when they do not.
SInv == /\ \A q \in Requests, t \in Tasks : ~At(q, "run_review", t) /\ ~At(q, "cancel_review", t)
        /\ ExecutingIsNotRunnable
        /\ CancelledIsDated
        /\ RunsAlone
        /\ OnlyCancelledRunsAreLost

-----------------------------------------------------------------------------
(* What the building blocks of the actions do *)

LEMMA AwaitFacts ==
  ASSUME TypeOK, NEW q \in Requests, NEW t \in Tasks,
         NEW p \in {"run_review", "master", "cancel_review"}, Await(q, p, t)
  PROVE  /\ req' \in [Requests -> {Idle} \cup Awaiting]
         /\ req'[q] = [at |-> p, task |-> t]
         /\ \A r \in Requests : r # q => req'[r] = req[r]
  <1>1. [at |-> p, task |-> t] \in Awaiting
    BY DEF Awaiting
  <1> QED BY <1>1 DEF TypeOK, Await

LEMMA ReplyFacts ==
  ASSUME TypeOK, NEW q \in Requests, Reply(q)
  PROVE  /\ req' \in [Requests -> {Idle} \cup Awaiting]
         /\ req'[q] = Idle
         /\ \A r \in Requests : r # q => req'[r] = req[r]
  BY DEF TypeOK, Reply

\* An idle request is nowhere, and a request is in one place on one task.
LEMMA Places ==
  ASSUME NEW q \in Requests, NEW p, NEW t, At(q, p, t)
  PROVE  /\ req[q] # Idle /\ req[q].at = p /\ req[q].task = t
         /\ \A r, u : At(q, r, u) => r = p /\ u = t
  <1>1. req[q] = [at |-> p, task |-> t]
    BY DEF At
  <1>2. \A r, u : [at |-> p, task |-> t] = [at |-> r, task |-> u] => r = p /\ u = t
    OBVIOUS
  <1>3. [at |-> p, task |-> t] # [at |-> "idle"]
    OBVIOUS
  <1> QED BY <1>1, <1>2, <1>3 DEF At, Idle

LEMMA TrimFacts ==
  ASSUME NEW st \in [Tasks -> Stored \cup {"absent", "removed"}], NEW ids
  PROVE  /\ Trim(st, ids) \in [Tasks -> Stored \cup {"absent", "removed"}]
         /\ \A t \in Tasks :
              /\ t \notin Dropped(ids) => Trim(st, ids)[t] = st[t]
              /\ \/ Trim(st, ids)[t] = st[t]
                 \/ st[t] \in Finished /\ Trim(st, ids)[t] = "removed"
  BY DEF Trim

\* Creation leaves the tasks that are not finished as they are.
LEMMA CreateFacts ==
  ASSUME TypeOK, NEW n \in Tasks, NEW b \in BOOLEAN, CreateTask(n, b)
  PROVE  /\ status[n] = "absent"
         /\ status' \in [Tasks -> Stored \cup {"absent", "removed"}]
         /\ \A t \in Tasks : t # n =>
              \/ status'[t] = status[t]
              \/ status[t] \in Finished /\ status'[t] = "removed" /\ t \notin listed'
         /\ status'[n] = "created"
         /\ listed' \subseteq listed \cup {n}
         /\ \A t \in Tasks : t # n => approved'[t] = approved[t]
  <1> DEFINE st == [status EXCEPT ![n] = "created"]
             ids == listed \cup {n}
  <1>1. st \in [Tasks -> Stored \cup {"absent", "removed"}]
    BY DEF TypeOK, Stored
  <1>2. /\ status' = Trim(st, ids)
        /\ listed' = ids \ Dropped(ids)
        /\ approved' = [approved EXCEPT ![n] = b]
        /\ status[n] = "absent"
    BY DEF CreateTask
  <1>3. st[n] = "created" /\ \A t \in Tasks : t # n => st[t] = status[t]
    BY DEF TypeOK
  <1>4. \A t \in Tasks :
          \/ status'[t] = st[t]
          \/ st[t] \in Finished /\ status'[t] = "removed" /\ t \in Dropped(ids)
    <2> HIDE DEF st, ids
    <2>1. status' = Trim(st, ids)
      BY <1>2
    <2>2. \A t \in Tasks :
            /\ t \notin Dropped(ids) => Trim(st, ids)[t] = st[t]
            /\ \/ Trim(st, ids)[t] = st[t]
               \/ st[t] \in Finished /\ Trim(st, ids)[t] = "removed"
      BY <1>1, TrimFacts
    <2> QED BY <2>1, <2>2
  <1>5. status' \in [Tasks -> Stored \cup {"absent", "removed"}]
    <2> HIDE DEF st, ids
    <2> QED BY <1>1, <1>2, TrimFacts
  <1>6. status'[n] = "created"
    BY <1>3, <1>4 DEF Finished
  <1> QED BY <1>2, <1>3, <1>4, <1>5, <1>6 DEF TypeOK

\* Which requests are in the Master Agent after a request's step.
LEMMA ExecuteFacts ==
  ASSUME TypeOK, NEW q \in Requests, NEW t \in Tasks, NEW b \in BOOLEAN, Execute(q, t, b)
  PROVE  /\ TypeOK'
         /\ status'[t] = "running" /\ approved'[t] = b
         /\ \A u \in Tasks : u # t => status'[u] = status[u] /\ approved'[u] = approved[u]
         /\ UNCHANGED <<outcome, cancelled, listed>>
         /\ InMaster(q, t)'
         /\ \A u : InMaster(q, u)' => u = t
         /\ \A r \in Requests : r # q => req'[r] = req[r]
  <1>1. /\ req' \in [Requests -> {Idle} \cup Awaiting]
        /\ req'[q] = [at |-> "master", task |-> t]
        /\ \A r \in Requests : r # q => req'[r] = req[r]
    BY AwaitFacts DEF Execute
  <1>2. InMaster(q, t)' /\ \A u : InMaster(q, u)' => u = t
    BY <1>1 DEF InMaster, At
  <1>3. /\ status' = [status EXCEPT ![t] = "running"]
        /\ approved' = [approved EXCEPT ![t] = b]
        /\ UNCHANGED <<outcome, cancelled, listed>>
    BY DEF Execute
  <1> QED BY <1>1, <1>2, <1>3 DEF TypeOK, Stored

\* A reply, with what it writes about its task.
LEMMA ReplyWrites ==
  ASSUME TypeOK, NEW q \in Requests, NEW t \in Tasks, NEW s \in Stored \cup {"removed"},
         Reply(q), status' = [status EXCEPT ![t] = s],
         outcome' \in [Tasks -> {"none", "result", "error"}],
         cancelled' \in SUBSET Tasks, UNCHANGED <<approved, listed>>
  PROVE  /\ TypeOK'
         /\ status'[t] = s /\ \A u \in Tasks : u # t => status'[u] = status[u]
         /\ \A u : ~InMaster(q, u)'
         /\ \A r \in Requests : r # q => req'[r] = req[r]
  <1>1. /\ req' \in [Requests -> {Idle} \cup Awaiting]
        /\ req'[q] = Idle
        /\ \A r \in Requests : r # q => req'[r] = req[r]
    BY ReplyFacts
  <1>2. \A u : ~InMaster(q, u)'
    BY <1>1 DEF InMaster, At, Idle
  <1> QED BY <1>1, <1>2 DEF TypeOK, Stored

-----------------------------------------------------------------------------
(* The invariant that needs no assumption on reviews *)

LEMMA InitAInv == Init => AInv
  BY DEF Init, AInv, TypeOK, Stored, AwaitedExists, SensitiveIsApproved, RunningIsExecuted, ListedIsStored,
         InMaster, At, Idle

\* Creation neither starts nor ends an execution, and trims only finished tasks.
LEMMA CreateKeepsAInv ==
  ASSUME AInv, NEW n \in Tasks, NEW b \in BOOLEAN, CreateTask(n, b)
  PROVE  AInv'
  <1>0. \A q \in Requests : ~InMaster(q, n)
    <2> SUFFICES ASSUME NEW q \in Requests, InMaster(q, n) PROVE FALSE
      OBVIOUS
    <2>1. req[q] # Idle /\ req[q].task = n
      BY Places DEF InMaster
    <2> QED BY <2>1 DEF AInv, AwaitedExists, CreateTask
  <1>1. /\ status' \in [Tasks -> Stored \cup {"absent", "removed"}]
        /\ \A t \in Tasks : t # n =>
             \/ status'[t] = status[t]
             \/ status[t] \in Finished /\ status'[t] = "removed" /\ t \notin listed'
        /\ status'[n] = "created"
        /\ listed' \subseteq listed \cup {n}
        /\ \A t \in Tasks : t # n => approved'[t] = approved[t]
    BY CreateFacts DEF AInv
  <1>2. approved' \in [Tasks -> BOOLEAN] /\ UNCHANGED <<outcome, cancelled, req>>
    BY DEF CreateTask, AInv, TypeOK
  <1>3. TypeOK'
    BY <1>1, <1>2 DEF AInv, TypeOK
  <1>4. \A q, u : InMaster(q, u)' <=> InMaster(q, u)
    BY <1>2 DEF InMaster, At
  <1>5. SensitiveIsApproved'
    BY <1>0, <1>1, <1>4, RoutesAssumption DEF AInv, SensitiveIsApproved
  <1>6. RunningIsExecuted'
    BY <1>1, <1>4 DEF AInv, RunningIsExecuted
  <1>7. ListedIsStored'
    BY <1>1, <1>3 DEF AInv, ListedIsStored, TypeOK, Stored
  <1>8. AwaitedExists'
    BY <1>1, <1>2 DEF AInv, AwaitedExists, TypeOK, Awaiting
  <1> QED BY <1>3, <1>5, <1>6, <1>7, <1>8 DEF AInv

\* Starting an execution of an approved task.
LEMMA ExecuteKeepsAInv ==
  ASSUME AInv, NEW q \in Requests, NEW t \in Tasks, NEW b \in BOOLEAN, Execute(q, t, b),
         status[t] \in Stored, \A u \in Tasks : ~InMaster(q, u), t \in Sensitive => b
  PROVE  AInv'
  <1>1. /\ TypeOK'
        /\ status'[t] = "running" /\ approved'[t] = b
        /\ \A u \in Tasks : u # t => status'[u] = status[u] /\ approved'[u] = approved[u]
        /\ UNCHANGED listed
        /\ InMaster(q, t)'
        /\ \A u : InMaster(q, u)' => u = t
        /\ \A r \in Requests : r # q => req'[r] = req[r]
    BY ExecuteFacts DEF AInv
  <1>2. \A r \in Requests : r # q => \A u : InMaster(r, u)' <=> InMaster(r, u)
    BY <1>1 DEF InMaster, At
  <1>3. SensitiveIsApproved'
    <2> SUFFICES ASSUME NEW r \in Requests, NEW u \in Sensitive, InMaster(r, u)'
                 PROVE  approved'[u]
      BY DEF SensitiveIsApproved
    <2>1. CASE u = t
      BY <2>1, <1>1
    <2>2. CASE u # t
      <3>1. r # q /\ InMaster(r, u)
        BY <2>2, <1>1, <1>2
      <3> QED BY <3>1, <2>2, <1>1, RoutesAssumption DEF AInv, SensitiveIsApproved
    <2> QED BY <2>1, <2>2
  <1>4. RunningIsExecuted'
    BY <1>1, <1>2 DEF AInv, RunningIsExecuted
  <1>5. ListedIsStored'
    BY <1>1 DEF AInv, ListedIsStored, TypeOK, Stored
  <1>6. AwaitedExists'
    <2>1. req'[q] = [at |-> "master", task |-> t]
      BY <1>1 DEF InMaster, At
    <2> QED BY <1>1, <2>1 DEF AInv, AwaitedExists, TypeOK, Awaiting
  <1> QED BY <1>1, <1>3, <1>4, <1>5, <1>6 DEF AInv

\* A reply that leaves its task in status s: an execution that replies leaves it not running.
LEMMA ReplyKeepsAInv ==
  ASSUME AInv, NEW q \in Requests, NEW t \in Tasks, NEW s \in Stored \cup {"removed"},
         Reply(q), status' = [status EXCEPT ![t] = s],
         outcome' \in [Tasks -> {"none", "result", "error"}],
         cancelled' \in SUBSET Tasks, UNCHANGED <<approved, listed>>,
         \A u \in Tasks : InMaster(q, u) => u = t /\ s # "running",
         s \in {"running", "removed"} => s = status[t]
  PROVE  AInv'
  <1>1. /\ TypeOK'
        /\ status'[t] = s /\ \A u \in Tasks : u # t => status'[u] = status[u]
        /\ \A u : ~InMaster(q, u)'
        /\ \A r \in Requests : r # q => req'[r] = req[r]
    BY ReplyWrites DEF AInv
  <1>2. \A r \in Requests : r # q => \A u : InMaster(r, u)' <=> InMaster(r, u)
    BY <1>1 DEF InMaster, At
  <1>3. SensitiveIsApproved'
    BY <1>1, <1>2 DEF AInv, SensitiveIsApproved
  <1>4. RunningIsExecuted'
    <2> SUFFICES ASSUME NEW u \in Tasks, status'[u] = "running"
                 PROVE  \E r \in Requests : InMaster(r, u)'
      BY DEF RunningIsExecuted
    <2>1. status[u] = "running" /\ ~InMaster(q, u)
      BY <1>1
    <2>2. PICK r \in Requests : InMaster(r, u)
      BY <2>1 DEF AInv, RunningIsExecuted
    <2> QED BY <2>1, <2>2, <1>2
  <1>5. ListedIsStored'
    BY <1>1 DEF AInv, ListedIsStored, TypeOK
  <1>6. AwaitedExists'
    <2>1. req'[q] = Idle
      BY ReplyFacts DEF AInv
    <2> QED BY <1>1, <2>1 DEF AInv, AwaitedExists, TypeOK, Awaiting, Stored, Finished
  <1> QED BY <1>1, <1>3, <1>4, <1>5, <1>6 DEF AInv

\* Beginning to wait for a review.
LEMMA AskKeepsAInv ==
  ASSUME AInv, NEW q \in Requests, NEW t \in Tasks, NEW p \in {"run_review", "cancel_review"},
         Await(q, p, t), req[q] = Idle, status[t] \in Stored,
         UNCHANGED <<status, approved, outcome, cancelled, listed>>
  PROVE  AInv'
  <1>0. p \in {"run_review", "master", "cancel_review"}
    OBVIOUS
  <1>1. /\ req' \in [Requests -> {Idle} \cup Awaiting]
        /\ req'[q] = [at |-> p, task |-> t]
        /\ \A r \in Requests : r # q => req'[r] = req[r]
    BY <1>0, AwaitFacts DEF AInv
  <1>2. \A r \in Requests, u \in Tasks : InMaster(r, u)' <=> InMaster(r, u)
    BY <1>1 DEF InMaster, At, Idle
  <1>3. TypeOK' /\ ListedIsStored'
    BY <1>1 DEF AInv, TypeOK, ListedIsStored
  <1>4. AwaitedExists'
    BY <1>1 DEF AInv, AwaitedExists, TypeOK, Awaiting, Stored, Finished
  <1>5. SensitiveIsApproved' /\ RunningIsExecuted'
    BY <1>2, RoutesAssumption DEF AInv, SensitiveIsApproved, RunningIsExecuted
  <1> QED BY <1>3, <1>4, <1>5 DEF AInv

LEMMA NextAInv == AInv /\ [Next]_vars => AInv'
  <1> SUFFICES ASSUME AInv, [Next]_vars PROVE AInv'
    OBVIOUS
  <1>0. TypeOK
    BY DEF AInv
  <1>i. \A q \in Requests : req[q] = Idle => \A u : ~InMaster(q, u)
    BY Places DEF InMaster
  <1>1. ASSUME NEW t \in Tasks, NEW b \in BOOLEAN, CreateTask(t, b)
        PROVE  AInv'
    BY <1>1, CreateKeepsAInv
  <1>2. ASSUME NEW q \in Requests, NEW t \in Tasks, NEW b \in BOOLEAN, RunUnreviewed(q, t, b)
        PROVE  AInv'
    <2>1. /\ Execute(q, t, approved[t] \/ b) /\ req[q] = Idle /\ status[t] \in Stored
          /\ t \in Sensitive => approved[t] \/ b
      BY <1>2 DEF RunUnreviewed, NeedsReview, Runnable, Stored, Finished
    <2>2. (approved[t] \/ b) \in BOOLEAN
      OBVIOUS
    <2> QED BY <2>1, <2>2, <1>i, ExecuteKeepsAInv
  <1>3. ASSUME NEW q \in Requests, NEW t \in Tasks, Execute(q, t, TRUE), status[t] \in Stored,
               \A u \in Tasks : ~InMaster(q, u)
        PROVE  AInv'
    BY <1>3, ExecuteKeepsAInv
  <1>4. ASSUME NEW q \in Requests, NEW t \in Tasks, Park(q, t), \A u \in Tasks : ~InMaster(q, u)
        PROVE  AInv'
    <2>1. /\ Reply(q) /\ status' = [status EXCEPT ![t] = "waiting_security"]
          /\ UNCHANGED <<approved, listed>> /\ outcome' = outcome /\ cancelled' = cancelled
      BY <1>4 DEF Park
    <2>2. "waiting_security" \in Stored
      BY DEF Stored
    <2> QED BY <2>1, <2>2, <1>0, <1>4, ReplyKeepsAInv DEF TypeOK
  <1>5. ASSUME NEW q \in Requests, NEW t \in Tasks, RunReviewed(q, t)
        PROVE  AInv'
    <2>1. /\ \A u \in Tasks : ~InMaster(q, u)
          /\ status[t] \in Stored
          /\ Execute(q, t, TRUE) \/ Park(q, t)
      BY <1>5, <1>i DEF RunReviewed, Runnable, Stored, Finished
    <2> QED BY <2>1, <1>3, <1>4
  <1>6. ASSUME NEW q \in Requests, NEW t \in Tasks, AskReview(q, t) \/ AskCancel(q, t)
        PROVE  AInv'
    <2>1. \E p \in {"run_review", "cancel_review"} :
            /\ Await(q, p, t) /\ req[q] = Idle /\ status[t] \in Stored
            /\ UNCHANGED <<status, approved, outcome, cancelled, listed>>
      BY <1>6 DEF AskReview, AskCancel, Runnable, Cancellable, Stored, Finished
    <2> QED BY <2>1, AskKeepsAInv
  <1>7. ASSUME NEW q \in Requests, NEW t \in Tasks, ReviewAnswers(q, t)
        PROVE  AInv'
    <2>1. \A u \in Tasks : ~InMaster(q, u)
      BY <1>7, Places DEF ReviewAnswers, InMaster
    <2> QED BY <2>1, <1>3, <1>4, <1>7 DEF ReviewAnswers
  <1>8. ASSUME NEW q \in Requests, NEW t \in Tasks, Cancel(q, t), \A u \in Tasks : ~InMaster(q, u)
        PROVE  AInv'
    <2>1. /\ Reply(q) /\ status' = [status EXCEPT ![t] = "cancelled"]
          /\ UNCHANGED <<approved, listed>> /\ outcome' = outcome /\ cancelled' = cancelled \cup {t}
      BY <1>8 DEF Cancel
    <2>2. "cancelled" \in Stored
      BY DEF Stored, Finished
    <2> QED BY <2>1, <2>2, <1>0, <1>8, ReplyKeepsAInv DEF TypeOK
  <1>9. ASSUME NEW q \in Requests, NEW t \in Tasks, CancelTask(q, t)
        PROVE  AInv'
    BY <1>9, <1>8, <1>i DEF CancelTask
  <1>10. ASSUME NEW q \in Requests, NEW t \in Tasks, Reply(q), status[t] \in Stored \cup {"removed"},
                UNCHANGED <<status, approved, outcome, cancelled, listed>>,
                \A u \in Tasks : InMaster(q, u) => u = t /\ status[t] # "running"
         PROVE  AInv'
    <2>1. status' = [status EXCEPT ![t] = status[t]]
      BY <1>0, <1>10 DEF TypeOK
    <2> QED BY <2>1, <1>0, <1>10, ReplyKeepsAInv DEF TypeOK
  <1>11. ASSUME NEW q \in Requests, NEW t \in Tasks, CancelAnswers(q, t)
         PROVE  AInv'
    <2>1. \A u \in Tasks : ~InMaster(q, u)
      BY <1>11, Places DEF CancelAnswers, InMaster
    <2>2. \/ Cancel(q, t)
          \/ Reply(q) /\ UNCHANGED <<status, approved, outcome, cancelled, listed>>
      BY <1>11 DEF CancelAnswers
    <2>3. status[t] \in Stored
      BY <1>11 DEF CancelAnswers
    <2> QED BY <2>1, <2>2, <2>3, <1>8, <1>10
  <1>12. ASSUME NEW q \in Requests, NEW t \in Tasks, TaskGone(q, t)
         PROVE  AInv'
    <2>1. \A u \in Tasks : InMaster(q, u) => u = t
      BY <1>12, Places DEF TaskGone, InMaster
    <2> QED BY <2>1, <1>10, <1>12 DEF TaskGone
  <1>13. ASSUME NEW q \in Requests, NEW t \in Tasks, FinishRun(q, t)
         PROVE  AInv'
    <2>1. \A u \in Tasks : InMaster(q, u) => u = t
      BY <1>13, Places DEF FinishRun, InMaster
    <2>2. PICK s \in {"completed", "failed"} : status' = [status EXCEPT ![t] = s]
      BY <1>13 DEF FinishRun
    <2>3. /\ outcome' \in [Tasks -> {"none", "result", "error"}]
          /\ Reply(q) /\ UNCHANGED <<approved, listed>> /\ cancelled' = cancelled
      BY <1>13, <1>0 DEF FinishRun, TypeOK
    <2>4. s \in Stored /\ s # "running" /\ s # "removed"
      BY DEF Stored, Finished
    <2> QED BY <2>1, <2>2, <2>3, <2>4, <1>0, ReplyKeepsAInv DEF TypeOK
  <1>14. CASE UNCHANGED vars
    BY <1>14 DEF vars, AInv, TypeOK, AwaitedExists, SensitiveIsApproved, RunningIsExecuted,
                 ListedIsStored, InMaster, At
  <1> QED BY <1>1, <1>2, <1>5, <1>6, <1>7, <1>9, <1>11, <1>12, <1>13, <1>14 DEF Next, Answer

-----------------------------------------------------------------------------
(* The invariant of synchronous reviews *)

LEMMA InitSInv == Init => SInv
  BY DEF Init, SInv, ExecutingIsNotRunnable, CancelledIsDated, RunsAlone,
         OnlyCancelledRunsAreLost, InMaster, At, Idle

LEMMA CreateKeepsSInv ==
  ASSUME AInv, SInv, NEW n \in Tasks, NEW b \in BOOLEAN, CreateTask(n, b)
  PROVE  SInv'
  <1>1. /\ \A t \in Tasks : t # n =>
             \/ status'[t] = status[t]
             \/ status[t] \in Finished /\ status'[t] = "removed"
        /\ status'[n] = "created"
    BY CreateFacts DEF AInv
  <1>2. UNCHANGED <<cancelled, req>> /\ status[n] = "absent"
    BY DEF CreateTask
  <1>3. \A q, p, u : At(q, p, u)' <=> At(q, p, u)
    BY <1>2 DEF At
  <1>4. \A q \in Requests : ~InMaster(q, n)
    BY <1>2 DEF SInv, ExecutingIsNotRunnable
  <1> QED BY <1>1, <1>2, <1>3, <1>4 DEF SInv, ExecutingIsNotRunnable, CancelledIsDated,
             RunsAlone, OnlyCancelledRunsAreLost, InMaster, Finished

\* A run of a runnable task finds nobody executing it.
LEMMA ExecuteKeepsSInv ==
  ASSUME AInv, SInv, NEW q \in Requests, NEW t \in Tasks, NEW b \in BOOLEAN, Execute(q, t, b),
         Runnable(t)
  PROVE  SInv'
  <1>1. /\ status'[t] = "running"
        /\ \A u \in Tasks : u # t => status'[u] = status[u]
        /\ UNCHANGED cancelled
        /\ InMaster(q, t)'
        /\ \A u : InMaster(q, u)' => u = t
        /\ \A r \in Requests : r # q => req'[r] = req[r]
    BY ExecuteFacts DEF AInv
  <1>2. \A r \in Requests : r # q => \A p, u : At(r, p, u)' <=> At(r, p, u)
    BY <1>1 DEF At
  <1>3. \A r \in Requests : ~InMaster(r, t)
    BY DEF SInv, ExecutingIsNotRunnable, Runnable
  <1>4. \A u \in Tasks : ~At(q, "run_review", u)' /\ ~At(q, "cancel_review", u)'
    <2>1. req'[q] = [at |-> "master", task |-> t]
      BY <1>1 DEF InMaster, At
    <2> QED BY <2>1 DEF At
  <1>5. \A r \in Requests, u \in Tasks :
          InMaster(r, u)' => (r = q /\ u = t) \/ (r # q /\ u # t /\ InMaster(r, u))
    BY <1>1, <1>2, <1>3 DEF InMaster
  <1> QED BY <1>1, <1>2, <1>4, <1>5 DEF SInv, ExecutingIsNotRunnable, CancelledIsDated,
             RunsAlone, OnlyCancelledRunsAreLost

\* A reply changes the status only of its own task, which nobody else executes unless the
\* reply cancels it.
LEMMA ReplyKeepsSInv ==
  ASSUME AInv, SInv, NEW q \in Requests, NEW t \in Tasks, NEW s \in Stored \cup {"removed"},
         Reply(q), status' = [status EXCEPT ![t] = s], cancelled \subseteq cancelled',
         s = "cancelled" => t \in cancelled',
         s = "cancelled" \/ \A r \in Requests : InMaster(r, t) => r = q
  PROVE  SInv'
  <1>1. /\ req'[q] = Idle
        /\ \A r \in Requests : r # q => req'[r] = req[r]
    BY ReplyFacts DEF AInv
  <1>2. status'[t] = s /\ \A u \in Tasks : u # t => status'[u] = status[u]
    BY DEF AInv, TypeOK
  <1>3. \A p, u : ~At(q, p, u)'
    BY <1>1 DEF At, Idle
  <1>4. \A r \in Requests : r # q => \A p, u : At(r, p, u)' <=> At(r, p, u)
    BY <1>1 DEF At
  <1>5. \A r \in Requests, u \in Tasks :
          InMaster(r, u)' => r # q /\ InMaster(r, u) /\ (u # t \/ s = "cancelled")
    BY <1>3, <1>4 DEF InMaster
  <1>6. CancelledIsDated'
    BY <1>2 DEF SInv, CancelledIsDated
  <1>7. ExecutingIsNotRunnable' /\ OnlyCancelledRunsAreLost'
    BY <1>2, <1>5 DEF SInv, ExecutingIsNotRunnable, OnlyCancelledRunsAreLost
  <1>8. RunsAlone'
    BY <1>5 DEF SInv, RunsAlone
  <1> QED BY <1>3, <1>4, <1>6, <1>7, <1>8 DEF SInv

LEMMA NextSInv == ~ReviewSuspends /\ AInv /\ SInv /\ [Next]_vars => SInv'
  <1> SUFFICES ASSUME ~ReviewSuspends, AInv, SInv, [Next]_vars PROVE SInv'
    OBVIOUS
  <1>0. TypeOK
    BY DEF AInv
  <1>1. ASSUME NEW t \in Tasks, NEW b \in BOOLEAN, CreateTask(t, b)
        PROVE  SInv'
    BY <1>1, CreateKeepsSInv
  <1>2. ASSUME NEW q \in Requests, NEW t \in Tasks, NEW b \in BOOLEAN, RunUnreviewed(q, t, b)
        PROVE  SInv'
    <2>1. (approved[t] \/ b) \in BOOLEAN
      OBVIOUS
    <2> QED BY <1>2, <2>1, ExecuteKeepsSInv DEF RunUnreviewed
  <1>3. ASSUME NEW q \in Requests, NEW t \in Tasks, RunReviewed(q, t)
        PROVE  SInv'
    <2>1. CASE Execute(q, t, TRUE)
      BY <1>3, <2>1, ExecuteKeepsSInv DEF RunReviewed
    <2>2. CASE Park(q, t)
      <3>1. \A r \in Requests : ~InMaster(r, t)
        BY <1>3 DEF RunReviewed, Runnable, SInv, ExecutingIsNotRunnable
      <3>2. /\ "waiting_security" \in Stored \cup {"removed"}
            /\ Reply(q) /\ status' = [status EXCEPT ![t] = "waiting_security"]
            /\ cancelled' = cancelled
        BY <2>2 DEF Park, Stored
      <3> QED BY <3>1, <3>2, ReplyKeepsSInv
    <2> QED BY <1>3, <2>1, <2>2 DEF RunReviewed
  <1>4. ASSUME NEW q \in Requests, NEW t \in Tasks, CancelTask(q, t)
        PROVE  SInv'
    <2>1. /\ "cancelled" \in Stored \cup {"removed"}
          /\ Reply(q) /\ status' = [status EXCEPT ![t] = "cancelled"]
          /\ cancelled' = cancelled \cup {t}
      BY <1>4 DEF CancelTask, Cancel, Stored, Finished
    <2> QED BY <2>1, ReplyKeepsSInv
  <1>5. ASSUME NEW q \in Requests, NEW t \in Tasks, FinishRun(q, t)
        PROVE  SInv'
    <2>1. PICK s \in {"completed", "failed"} : status' = [status EXCEPT ![t] = s]
      BY <1>5 DEF FinishRun
    <2>2. s \in Stored \cup {"removed"} /\ s # "cancelled"
      BY DEF Stored, Finished
    <2>3. Reply(q) /\ cancelled' = cancelled
      BY <1>5 DEF FinishRun
    <2>4. \A r \in Requests : InMaster(r, t) => r = q
      BY <1>5 DEF FinishRun, InMaster, SInv, RunsAlone
    <2> QED BY <2>1, <2>2, <2>3, <2>4, ReplyKeepsSInv
  <1>6. ASSUME NEW q \in Requests, NEW t \in Tasks, TaskGone(q, t)
        PROVE  SInv'
    <2>1. InMaster(q, t)
      <3>1. req[q] \in Awaiting /\ req[q].task = t
        BY <1>6, <1>0 DEF TaskGone, TypeOK
      <3>2. req[q] = [at |-> req[q].at, task |-> t]
        BY <3>1 DEF Awaiting
      <3>3. req[q].at \in {"run_review", "master", "cancel_review"}
        BY <3>1 DEF Awaiting
      <3> QED BY <3>2, <3>3 DEF SInv, At, InMaster
    <2>2. /\ Reply(q) /\ status[t] = "removed" /\ status' = [status EXCEPT ![t] = "removed"]
          /\ cancelled' = cancelled
      BY <1>6, <1>0 DEF TaskGone, TypeOK
    <2>3. \A r \in Requests : InMaster(r, t) => r = q
      BY <2>1 DEF SInv, RunsAlone
    <2> QED BY <2>2, <2>3, ReplyKeepsSInv
  <1>7. ASSUME NEW q \in Requests, NEW t \in Tasks
        PROVE  ~AskReview(q, t) /\ ~AskCancel(q, t) /\ ~ReviewAnswers(q, t) /\ ~CancelAnswers(q, t)
    BY DEF AskReview, AskCancel, ReviewAnswers, CancelAnswers, SInv
  <1>8. CASE UNCHANGED vars
    BY <1>8 DEF vars, SInv, ExecutingIsNotRunnable, CancelledIsDated, RunsAlone,
                OnlyCancelledRunsAreLost, InMaster, At
  <1> QED BY <1>1, <1>2, <1>3, <1>4, <1>5, <1>6, <1>7, <1>8 DEF Next, Answer

LEMMA SpecAInv == Spec => []AInv
  BY InitAInv, NextAInv, PTL DEF Spec

-----------------------------------------------------------------------------
(* Theorems *)

\* TASK_STORE's records and the requests in progress stay well typed.
THEOREM RoutesTypeCorrect == Spec => []TypeOK
  <1>1. AInv => TypeOK
    BY DEF AInv
  <1> QED BY SpecAInv, <1>1, PTL

\* _run_existing_task hands a sensitive task to the Master Agent only once it is marked
\* approved, whether the Security Agent suspends the handler or not.
THEOREM SensitiveRunsAreApproved == Spec => []SensitiveIsApproved
  <1>1. AInv => SensitiveIsApproved
    BY DEF AInv
  <1> QED BY SpecAInv, <1>1, PTL

\* No interleaving of run, cancel and create requests leaves a task running that no request
\* is executing.
THEOREM NoOrphanedRunning == Spec => []RunningIsExecuted
  <1>1. AInv => RunningIsExecuted
    BY DEF AInv
  <1> QED BY SpecAInv, <1>1, PTL

\* trim_workspace_history never removes a task it leaves in the workspace's list.
THEOREM HistoryIsConsistent == Spec => []ListedIsStored
  <1>1. AInv => ListedIsStored
    BY DEF AInv
  <1> QED BY SpecAInv, <1>1, PTL

\* With a Security Agent that answers synchronously, the status check of a run and its
\* update to running exclude every second execution of the task.
THEOREM ExecutionsExclusive == ASSUME ~ReviewSuspends PROVE Spec => []RunsAlone
  <1>1. SInv => RunsAlone
    BY DEF SInv
  <1>2. Spec => []SInv
    BY SpecAInv, InitSInv, NextSInv, PTL DEF Spec
  <1> QED BY <1>1, <1>2, PTL

\* ... and only a cancelled execution can find its record trimmed when it ends.
THEOREM LostOnlyIfCancelled == ASSUME ~ReviewSuspends PROVE Spec => []OnlyCancelledRunsAreLost
  <1>1. SInv => OnlyCancelledRunsAreLost
    BY DEF SInv
  <1>2. Spec => []SInv
    BY SpecAInv, InitSInv, NextSInv, PTL DEF Spec
  <1> QED BY <1>1, <1>2, PTL

\* A cancelled task comes back to life only through a request that was working on it: a new
\* run request is refused.
THEOREM CancellationStands == Spec => CancelStands
  <1>1. AInv /\ [Next]_vars
          => [\A t \in Tasks : status[t] = "cancelled" /\ status'[t] \notin {"cancelled", "removed"}
                => \E q \in Requests : req[q] # Idle /\ req[q].task = t]_vars
    <2> SUFFICES ASSUME AInv, Next, NEW t \in Tasks, status[t] = "cancelled",
                        status'[t] \notin {"cancelled", "removed"}
                 PROVE  \E q \in Requests : req[q] # Idle /\ req[q].task = t
      OBVIOUS
    <2>1. ASSUME NEW n \in Tasks, NEW b \in BOOLEAN, CreateTask(n, b)
          PROVE  FALSE
      BY <2>1, CreateFacts DEF AInv
    <2>2. ASSUME NEW q \in Requests, NEW u \in Tasks,
                 \/ \E b \in BOOLEAN : RunUnreviewed(q, u, b)
                 \/ RunReviewed(q, u)
          PROVE  FALSE
      BY <2>2 DEF RunUnreviewed, RunReviewed, Runnable, Execute, Park, AInv, TypeOK
    <2>3. ASSUME NEW q \in Requests, NEW u \in Tasks,
                 AskReview(q, u) \/ AskCancel(q, u) \/ CancelTask(q, u) \/ TaskGone(q, u)
                   \/ CancelAnswers(q, u)
          PROVE  FALSE
      BY <2>3 DEF AskReview, AskCancel, CancelTask, TaskGone, CancelAnswers, Cancel, AInv, TypeOK
    <2>4. ASSUME NEW q \in Requests, NEW u \in Tasks, ReviewAnswers(q, u) \/ FinishRun(q, u)
          PROVE  req[q] # Idle /\ req[q].task = t
      <3>1. u = t
        BY <2>4 DEF ReviewAnswers, FinishRun, Execute, Park, AInv, TypeOK
      <3>2. req[q] # Idle /\ req[q].task = u
        BY <2>4, Places DEF ReviewAnswers, FinishRun
      <3> QED BY <3>1, <3>2
    <2> QED BY <2>1, <2>2, <2>3, <2>4 DEF Next, Answer
  <1> QED BY SpecAInv, <1>1, PTL DEF Spec, CancelStands
=============================================================================
