--------------------------- MODULE Conversations ---------------------------
(***************************************************************************)
(* Assistant conversations: POST /assistant/message asks for the fields a  *)
(* template still misses, keeps the answers in a conversation thread, and  *)
(* executes the task once none is missing.                                 *)
(*                                                                         *)
(* A call's bookkeeping has no await: the calls of one API process do it   *)
(* one at a time, those of two processes overlap between the read of the   *)
(* row and the commit, which writes only the columns the call changed.     *)
(* A thread that waits keeps saying so while its task executes, so another *)
(* message (a retry after the dashboard's timeout) executes it again.      *)
(*                                                                         *)
(* A field is answered, holds a blank (an empty string or None) or has no  *)
(* key at all in collected_inputs; what an answer says, the agents behind  *)
(* _dispatch and the owner check of ConversationSessionService.get are     *)
(* left out.                                                               *)
(***************************************************************************)
CONSTANTS Procs,   \* API processes
          Calls,   \* bound: messages ever sent
          Threads, \* bound: conversation threads ever created
          Fields   \* the fields templates ask for

NoThread == "none"

ASSUME ConversationsAssumption == NoThread \notin Threads

VARIABLES
  thread,   \* conversation_sessions
  pc,       \* where each call stands in process_assistant_message
  proc,     \* the process the load balancer gives each call
  on,       \* the thread a call works on
  copy,     \* its active_session: the columns as it read, and then set, them
  known,    \* threads whose id an answer has brought to the client
  stale,    \* history: calls whose copy has been committed over since they read it
  vanished  \* history: fields of each thread that a stale copy's save left out of both the
            \* answers and the questions

vars == <<thread, pc, proc, on, copy, known, stale, vanished>>

Closed == {"completed", "failed"}

Row == [status    : {"absent", "running", "waiting_for_user"} \cup Closed,
        template  : SUBSET Fields,  \* all the fields of its template
        required  : SUBSET Fields,  \* required_inputs
        collected : SUBSET Fields,  \* fields with a value in collected_inputs
        blank     : SUBSET Fields]  \* fields with a blank there

NoRow == [status |-> "absent", template |-> {}, required |-> {}, collected |-> {}, blank |-> {}]

Init ==
  /\ thread = [t \in Threads |-> NoRow]
  /\ pc = [c \in Calls |-> "idle"]
  /\ proc \in [Calls -> Procs]
  /\ on = [c \in Calls |-> NoThread]
  /\ copy = [c \in Calls |-> NoRow]
  /\ known = {} /\ stale = {}
  /\ vanished = [t \in Threads |-> {}]

-----------------------------------------------------------------------------

\* Between the read and the commit of its bookkeeping a call never yields: the event loop
\* of its process runs nothing else.
Free(p) == \A c \in Calls : proc[c] = p => pc[c] \notin {"reading", "closing"}

\* The response names the thread, if it arrives.
Answer(c, t) ==
  /\ pc' = [pc EXCEPT ![c] = "done"]
  /\ copy' = [copy EXCEPT ![c] = NoRow]
  /\ known' \in {known, known \cup {t}}

\* All the fields are there: the call goes on to await _dispatch with its active_session.
Dispatch(c, session) ==
  /\ pc' = [pc EXCEPT ![c] = "executing"]
  /\ copy' = [copy EXCEPT ![c] = session]
  /\ UNCHANGED known

\* A commit to t leaves every other call that has read t with a superseded copy.
Supersede(c, t) ==
  stale' = stale \cup {d \in Calls \ {c} : pc[d] = "reading" /\ on[d] = t}

\* A message that names no thread, or one that is not waiting, starts a thread of its own.
\* Hints in the message and collected_inputs answer some fields at once; others are blank.
Start(c, t, template, given, blank) ==
  LET missing == template \ given
      created == [status    |-> IF missing = {} THEN "running" ELSE "waiting_for_user",
                  template  |-> template,
                  required  |-> IF missing = {} THEN template ELSE missing,
                  collected |-> given,
                  blank     |-> blank]
  IN  /\ pc[c] = "idle" /\ Free(proc[c])
      /\ given \cap blank = {}
      /\ thread[t].status = "absent"
      /\ thread' = [thread EXCEPT ![t] = created]
      /\ on' = [on EXCEPT ![c] = t]
      /\ IF missing = {} THEN Dispatch(c, created) ELSE Answer(c, t)
      /\ UNCHANGED <<proc, stale, vanished>>

\* Mutant: any thread the client knows is continued, also one that has ended.
ReadAny(c, t) ==
  /\ pc[c] = "idle" /\ Free(proc[c])
  /\ t \in known
  /\ pc' = [pc EXCEPT ![c] = "reading"]
  /\ on' = [on EXCEPT ![c] = t]
  /\ copy' = [copy EXCEPT ![c] = thread[t]]
  /\ UNCHANGED <<thread, proc, known, stale, vanished>>

\* A message that names a waiting thread continues it.
Read(c, t) ==
  /\ pc[c] = "idle" /\ Free(proc[c])
  /\ t \in known
  /\ thread[t].status = "waiting_for_user"
  /\ pc' = [pc EXCEPT ![c] = "reading"]
  /\ on' = [on EXCEPT ![c] = t]
  /\ copy' = [copy EXCEPT ![c] = thread[t]]
  /\ UNCHANGED <<thread, proc, known, stale, vanished>>

\* Mutant: a form replaces what earlier rounds collected.
MergedAnew(session, answered, blanked) ==
  [session EXCEPT
     !.collected = IF answered = {} THEN @ \ blanked ELSE answered,
     !.blank     = (@ \cup blanked) \ answered]

\* payload.collected_inputs is merged in unchecked: any fields of it have a new value
\* (answered) or a new blank (blanked).  What the message itself answers, or a default it
\* asks for, joins the answered fields: those are fields that hold no value by then.
Merged(session, answered, blanked) ==
  [session EXCEPT
     !.collected = (@ \ blanked) \cup answered,
     !.blank     = (@ \cup blanked) \ answered]

Missing(session) == session.required \ session.collected

\* required_inputs narrows to what is still missing; a complete session keeps it as it is.
Narrowed(session) ==
  [session EXCEPT !.required = IF Missing(session) = {} THEN @ ELSE Missing(session)]

\* The UPDATE names the columns whose value the call changed, so never the status:
\* mark_waiting sets the one the call read.
Saved(row, old, new, inputs) ==
  LET set == IF inputs = {} THEN row ELSE new
  IN  [row EXCEPT !.collected = set.collected,
                  !.blank     = set.blank,
                  !.required  = IF new.required # old.required THEN new.required ELSE @]

\* What the save of a stale copy, by a message that answers nothing the copy asks for, leaves
\* out of both the answers and the questions of the row.
LeftOut(c, saved, answered) ==
  IF c \in stale /\ answered \cap copy[c].required = {}
  THEN saved.template \ (saved.required \cup saved.collected \cup saved.blank)
  ELSE {}

Continue(c, answered, blanked) ==
  LET t       == on[c]
      session == Narrowed(Merged(copy[c], answered, blanked))
      saved   == Saved(thread[t], copy[c], session, answered \cup blanked)
  IN  /\ pc[c] = "reading"
      /\ answered \cap blanked = {}
      /\ thread' = [thread EXCEPT ![t] = saved]
      /\ IF Missing(session) = {} THEN Dispatch(c, session) ELSE Answer(c, t)
      /\ Supersede(c, t)
      /\ vanished' = [vanished EXCEPT ![t] = @ \cup LeftOut(c, saved, answered)]
      /\ UNCHANGED <<proc, on>>

\* _dispatch has returned: a second transaction reads the row again ...
ReadBack(c) ==
  /\ pc[c] = "executing" /\ Free(proc[c])
  /\ pc' = [pc EXCEPT ![c] = "closing"]
  /\ copy' = [copy EXCEPT ![c] = thread[on[c]]]
  /\ UNCHANGED <<thread, proc, on, known, stale, vanished>>

\* ... and records the outcome, whatever the status by now: mark_completed, mark_failed.
Record(c, outcome) ==
  /\ pc[c] = "closing"
  /\ thread' = [thread EXCEPT ![on[c]].status = IF outcome # copy[c].status THEN outcome ELSE @]
  /\ Answer(c, on[c])
  /\ Supersede(c, on[c])
  /\ UNCHANGED <<proc, on, vanished>>

\* The agent raises, a commit fails or the process dies: the transaction under way is rolled
\* back and nothing is recorded of the execution.
Fail(c) ==
  /\ pc[c] \in {"reading", "executing", "closing"}
  /\ pc' = [pc EXCEPT ![c] = "lost"]
  /\ copy' = [copy EXCEPT ![c] = NoRow]
  /\ UNCHANGED <<thread, proc, on, known, stale, vanished>>

Next ==
  \E c \in Calls :
    \/ \E t \in Threads, template, given, blank \in SUBSET Fields :
         Start(c, t, template, given, blank)
    \/ \E t \in Threads : Read(c, t)
    \/ \E answered, blanked \in SUBSET Fields : Continue(c, answered, blanked)
    \/ ReadBack(c)
    \/ \E outcome \in Closed : Record(c, outcome)
    \/ Fail(c)

Spec == Init /\ [][Next]_vars

-----------------------------------------------------------------------------
(* Properties *)

TypeOK ==
  /\ thread \in [Threads -> Row]
  /\ pc \in [Calls -> {"idle", "reading", "executing", "closing", "done", "lost"}]
  /\ proc \in [Calls -> Procs]
  /\ on \in [Calls -> Threads \cup {NoThread}]
  /\ \A c \in Calls : on[c] = NoThread <=> pc[c] = "idle"
  /\ copy \in [Calls -> Row]
  /\ known \in SUBSET Threads /\ stale \in SUBSET Calls
  /\ vanished \in [Threads -> SUBSET Fields]

\* A task executes only with every field of its template, over however many rounds they were
\* collected and in however many processes, but for two kinds of fields: those the client
\* itself gave as blanks, also after they were answered, which nobody asks for again; and
\* those a stale copy left out that was saved with nothing the copy asks for.
DispatchIsComplete ==
  \A c \in Calls :
    pc[c] = "executing" =>
      copy[c].template \subseteq copy[c].collected \cup copy[c].blank \cup vanished[on[c]]

\* An answer the thread has is lost only to a message that puts a blank in its place, or to
\* one that read the thread before the answer was given, in another process.
AnswersAreKept ==
  [][\A t \in Threads : \A f \in thread[t].collected \ thread'[t].collected :
       \/ f \in thread'[t].blank
       \/ \E c \in stale : /\ on[c] = t /\ f \notin copy[c].collected
                           /\ pc[c] = "reading" /\ pc'[c] # "reading"]_vars

Working(t) == {c \in Calls : on[c] = t /\ pc[c] \in {"reading", "executing", "closing"}}

\* ConversationSession: a thread ends completed or failed.  It never waits or runs again, in
\* any process, and no message that was not already at work on it ever executes it again.
EndIsFinal ==
  [][\A t \in Threads :
       thread[t].status \in Closed =>
         thread'[t].status \in Closed /\ Working(t)' \subseteq Working(t)]_vars

\* The races above take two processes: in one, only a blank takes an answer away.
NeverRaced ==
  (\A c, d \in Calls : proc[c] = proc[d]) => stale = {} /\ vanished = [t \in Threads |-> {}]
=============================================================================
