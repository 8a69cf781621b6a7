------------------------------ MODULE TaskRoutes ------------------------------
(***************************************************************************)
(* The /tasks routes of one API process over its in-memory TASK_STORE, for *)
(* one user of one workspace.                                              *)
(*                                                                         *)
(* The handlers are coroutines of one event loop: what lies between two    *)
(* awaits that suspend is one step.  The Master Agent call suspends (its   *)
(* agents run subprocesses in threads and talk to services).  The Security *)
(* Agent is called through a hook that awaits only what is awaitable;      *)
(* ReviewSuspends says whether it is.  That of the repository answers      *)
(* synchronously: ReviewSuspends = FALSE.                                  *)
(***************************************************************************)
EXTENDS Naturals, FiniteSets

CONSTANTS Requests,            \* run and cancel requests that can be in progress at once
          TaskLimit,           \* task_monthly_limit of the user's plan
          MaxHistory,          \* max_task_history_per_workspace
          Sensitive,           \* the tasks looks_sensitive_task recognises
          AllowCancelFinished, \* allow_cancel_completed_tasks
          ReviewSuspends

Tasks == 1 .. TaskLimit   \* a task is its place in the order of creation

ASSUME RoutesAssumption ==
  /\ TaskLimit \in Nat /\ MaxHistory \in Nat \ {0}
  /\ Sensitive \subseteq Tasks
  /\ AllowCancelFinished \in BOOLEAN /\ ReviewSuspends \in BOOLEAN

VARIABLES
  status,    \* TaskRecord.status; "absent" before the task is created, "removed" once trimmed
  approved,  \* approved_by_security
  outcome,   \* which of result and error the record holds
  cancelled, \* tasks with cancelled_at
  listed,    \* task_ids_by_workspace
  req        \* what each request in progress awaits

vars == <<status, approved, outcome, cancelled, listed, req>>

Idle     == [at |-> "idle"]
Awaiting == [at : {"run_review", "master", "cancel_review"}, task : Tasks]

Finished == {"completed", "failed", "cancelled"}
Stored   == {"created", "running", "waiting_security"} \cup Finished

TypeOK ==
  /\ status \in [Tasks -> Stored \cup {"absent", "removed"}]
  /\ approved \in [Tasks -> BOOLEAN]
  /\ outcome \in [Tasks -> {"none", "result", "error"}]
  /\ cancelled \in SUBSET Tasks
  /\ listed \in SUBSET Tasks
  /\ req \in [Requests -> {Idle} \cup Awaiting]

Init ==
  /\ status = [t \in Tasks |-> "absent"]
  /\ approved = [t \in Tasks |-> FALSE]
  /\ outcome = [t \in Tasks |-> "none"]
  /\ cancelled = {}
  /\ listed = {}
  /\ req = [q \in Requests |-> Idle]

At(q, place, t) == req[q] = [at |-> place, task |-> t]

Await(q, place, t) == req' = [req EXCEPT ![q] = [at |-> place, task |-> t]]
Reply(q) == req' = [req EXCEPT ![q] = Idle]

-----------------------------------------------------------------------------
(* Creation and the history limit *)

\* The ids trim_workspace_history drops: the oldest beyond the limit.
Dropped(ids) == {t \in ids : Cardinality({u \in ids : u >= t}) > MaxHistory}

\* Mutant: every dropped task is removed, finished or not.
TrimAll(st, ids) == [t \in Tasks |-> IF t \in Dropped(ids) THEN "removed" ELSE st[t]]

\* Of the dropped tasks only the finished ones leave the store.
Trim(st, ids) ==
  [t \in Tasks |-> IF t \in Dropped(ids) /\ st[t] \in Finished THEN "removed" ELSE st[t]]

\* Mutant: the workspace's list of ids keeps the trimmed ones.
CreateTaskKeepsList(t, byCaller) ==
  /\ status[t] = "absent" /\ \A u \in Tasks : u < t => status[u] # "absent"
  /\ status' = Trim([status EXCEPT ![t] = "created"], listed \cup {t})
  /\ listed' = listed \cup {t}
  /\ approved' = [approved EXCEPT ![t] = byCaller]
  /\ UNCHANGED <<outcome, cancelled, req>>

\* The create route.  The quota counts every task ever created: trimming does not lower it.
\* The auto_run of the same request goes on with a run step.
CreateTask(t, byCaller) ==
  /\ status[t] = "absent" /\ \A u \in Tasks : u < t => status[u] # "absent"
  /\ status' = Trim([status EXCEPT ![t] = "created"], listed \cup {t})
  /\ listed' = (listed \cup {t}) \ Dropped(listed \cup {t})
  /\ approved' = [approved EXCEPT ![t] = byCaller]
  /\ UNCHANGED <<outcome, cancelled, req>>

-----------------------------------------------------------------------------
(* _run_existing_task *)

\* Mutant: a task being executed may be run.
RunnableAgain(t) == status[t] \in {"created", "running", "waiting_security", "failed"}

\* Mutant: a cancelled task may be run.
RunnableCancelled(t) == status[t] \in {"created", "waiting_security", "failed", "cancelled"}

\* The status check of a run: only running, completed and cancelled tasks are refused.
Runnable(t) == status[t] \in {"created", "waiting_security", "failed"}

\* Mutant: only the first run of a task is reviewed.
NeedsFirstReview(t, byCaller) ==
  t \in Sensitive /\ status[t] = "created" /\ ~(approved[t] \/ byCaller)

NeedsReview(t, byCaller) == t \in Sensitive /\ ~(approved[t] \/ byCaller)

\* The record says running, and the Master Agent is called.
Execute(q, t, nowApproved) ==
  /\ approved' = [approved EXCEPT ![t] = nowApproved]
  /\ status' = [status EXCEPT ![t] = "running"]
  /\ Await(q, "master", t)
  /\ UNCHANGED <<outcome, cancelled, listed>>

\* Mutant: the status is that of another task tracker of the repository.
ParkBlocked(q, t) ==
  /\ status' = [status EXCEPT ![t] = "security_blocked"]
  /\ Reply(q)
  /\ UNCHANGED <<approved, outcome, cancelled, listed>>

\* The review is denied or left pending: the status it writes replaces whatever is there.
Park(q, t) ==
  /\ status' = [status EXCEPT ![t] = "waiting_security"]
  /\ Reply(q)
  /\ UNCHANGED <<approved, outcome, cancelled, listed>>

RunUnreviewed(q, t, byCaller) ==
  /\ req[q] = Idle /\ Runnable(t) /\ ~NeedsReview(t, byCaller)
  /\ Execute(q, t, approved[t] \/ byCaller)

\* A review by an agent that answers synchronously.
RunReviewed(q, t) ==
  /\ ~ReviewSuspends
  /\ req[q] = Idle /\ Runnable(t) /\ NeedsReview(t, FALSE)
  /\ Execute(q, t, TRUE) \/ Park(q, t)

\* A review by an agent that suspends the handler ...
AskReview(q, t) ==
  /\ ReviewSuspends
  /\ req[q] = Idle /\ Runnable(t) /\ NeedsReview(t, FALSE)
  /\ Await(q, "run_review", t)
  /\ UNCHANGED <<status, approved, outcome, cancelled, listed>>

\* ... which goes on without a second look at the task's status.
ReviewAnswers(q, t) ==
  /\ At(q, "run_review", t) /\ status[t] \in Stored
  /\ Execute(q, t, TRUE) \/ Park(q, t)

\* update_task of a task that was trimmed meanwhile raises: the request is answered 404.
TaskGone(q, t) ==
  /\ req[q] # Idle /\ req[q].task = t /\ status[t] = "removed"
  /\ Reply(q)
  /\ UNCHANGED <<status, approved, outcome, cancelled, listed>>

\* Mutant: a failed execution leaves the status as it was.
FinishOnlySuccess(q, t) ==
  /\ At(q, "master", t) /\ status[t] \in Stored
  /\ \E success \in BOOLEAN :
       /\ status' = IF success THEN [status EXCEPT ![t] = "completed"] ELSE status
       /\ outcome' = [outcome EXCEPT ![t] = IF success THEN "result" ELSE "error"]
  /\ Reply(q)
  /\ UNCHANGED <<approved, cancelled, listed>>

\* The Master Agent has answered, and so have verification and memory; the outcome is
\* written over whatever status the task has by now.
FinishRun(q, t) ==
  /\ At(q, "master", t) /\ status[t] \in Stored
  /\ \E success \in BOOLEAN :
       /\ status' = [status EXCEPT ![t] = IF success THEN "completed" ELSE "failed"]
       /\ outcome' = [outcome EXCEPT ![t] = IF success THEN "result" ELSE "error"]
  /\ Reply(q)
  /\ UNCHANGED <<approved, cancelled, listed>>

-----------------------------------------------------------------------------
(* cancel_task *)

Cancellable(t) == status[t] \in Stored /\ (status[t] \notin Finished \/ AllowCancelFinished)

Cancel(q, t) ==
  /\ status' = [status EXCEPT ![t] = "cancelled"]
  /\ cancelled' = cancelled \cup {t}
  /\ Reply(q)
  /\ UNCHANGED <<approved, outcome, listed>>

\* Every cancellation is reviewed; one that is denied changes nothing.
CancelTask(q, t) ==
  /\ ~ReviewSuspends
  /\ req[q] = Idle /\ Cancellable(t)
  /\ Cancel(q, t)

AskCancel(q, t) ==
  /\ ReviewSuspends
  /\ req[q] = Idle /\ Cancellable(t)
  /\ Await(q, "cancel_review", t)
  /\ UNCHANGED <<status, approved, outcome, cancelled, listed>>

CancelAnswers(q, t) ==
  /\ At(q, "cancel_review", t) /\ status[t] \in Stored
  /\ \/ Cancel(q, t)
     \/ Reply(q) /\ UNCHANGED <<status, approved, outcome, cancelled, listed>>

-----------------------------------------------------------------------------
Answer(q) ==
  \E t \in Tasks : FinishRun(q, t) \/ ReviewAnswers(q, t) \/ CancelAnswers(q, t) \/ TaskGone(q, t)

Next ==
  \/ \E t \in Tasks, byCaller \in BOOLEAN : CreateTask(t, byCaller)
  \/ \E q \in Requests, t \in Tasks :
       \/ \E byCaller \in BOOLEAN : RunUnreviewed(q, t, byCaller)
       \/ RunReviewed(q, t) \/ AskReview(q, t)
       \/ CancelTask(q, t) \/ AskCancel(q, t)
  \/ \E q \in Requests : Answer(q)

Spec == Init /\ [][Next]_vars

\* Whatever a handler awaits returns: the hooks turn exceptions into answers, and the Master
\* Agent puts a timeout on every step.
FairSpec == Spec /\ \A q \in Requests : WF_vars(Answer(q))

-----------------------------------------------------------------------------
(* Properties *)

InMaster(q, t) == At(q, "master", t)

\* With the repository's Security Agent, a task is never executed by two requests at once:
\* the 409 of a running task holds, cancellations and removals included.
RunsAlone ==
  \A t \in Tasks : \A q, r \in Requests : InMaster(q, t) /\ InMaster(r, t) => q = r

\* What the Master Agent executes, of the sensitive tasks, is marked approved, whatever
\* was denied, cancelled or re-run before.
SensitiveIsApproved ==
  \A q \in Requests, t \in Sensitive : InMaster(q, t) => approved[t]

\* A record that says running has a request executing it: no interleaving of runs, reviews
\* and cancellations leaves a task running with nobody to finish it.
RunningIsExecuted ==
  \A t \in Tasks : status[t] = "running" => \E q \in Requests : InMaster(q, t)

\* An execution loses its record to the history limit only if the task was cancelled
\* while it ran.
OnlyCancelledRunsAreLost ==
  \A q \in Requests, t \in Tasks : InMaster(q, t) /\ status[t] = "removed" => t \in cancelled

\* A cancelled task is revived only by a request that was in progress on it already.
CancelStands ==
  [][\A t \in Tasks : status[t] = "cancelled" /\ status'[t] \notin {"cancelled", "removed"}
       => \E q \in Requests : req[q] # Idle /\ req[q].task = t]_vars

\* A task listed in the workspace is in the store, however long the history has grown.
ListedIsStored == \A t \in listed : status[t] \in Stored

\* The routes call a cancelled task finished, and answer a run of it 409: it stays cancelled.
CancelledIsFinished ==
  [][\A t \in Tasks : status[t] = "cancelled" => status'[t] \in {"cancelled", "removed"}]_vars

\* Every execution ends: a running task gets an outcome or is cancelled.
RunningEnds == \A t \in Tasks : status[t] = "running" ~> status[t] # "running"
=============================================================================
