---------------------------- MODULE AuthSessions ----------------------------
(***************************************************************************)
(* The login sessions of one user: the session store that each API process *)
(* keeps in its memory, the /auth handlers that open, rotate, switch and   *)
(* end sessions, and the browser whose tabs share one stored token pair    *)
(* and renew it when a request is refused.                                 *)
(*                                                                         *)
(* A handler changes the store between two awaits, so that part is one     *)
(* step; what it does after an await (end a session it looked at, answer   *)
(* with tokens it rotated) is a later step.  Which process serves a        *)
(* request is the load balancer's choice, made for every request.          *)
(***************************************************************************)
EXTENDS Naturals, FiniteSets

CONSTANTS Procs,       \* API worker processes
          Tabs,        \* pages open in the browser, each from its loading to its end
          MaxSessions, \* bound: sessions ever opened
          MaxTokens,   \* bound: refresh tokens ever handed out
          MaxWaiting,  \* bound: handlers waiting for a security review
          MaxFaults    \* bound: process restarts and renewals lost on the network

Nowhere == "nowhere"

ASSUME SessionsAssumption ==
  /\ MaxSessions \in Nat /\ MaxTokens \in Nat /\ MaxWaiting \in Nat /\ MaxFaults \in Nat
  /\ Nowhere \notin Procs

Sessions == 1 .. MaxSessions
Tokens   == 1 .. MaxTokens      \* refresh tokens, each standing for its jti
NoToken  == 0
NoPair   == [session |-> 0, token |-> NoToken]
Pairs    == [session : Sessions, token : Tokens]

VARIABLES
  opened,    \* sessions opened so far
  issued,    \* refresh tokens handed out so far
  home,      \* the process whose session_by_id holds the session
  active,    \* is_active of that record
  jti,       \* refresh_jti of that record
  of,        \* the session_id inside each refresh token
  revoked,   \* revoked_jti of each process
  lapsed,    \* sessions whose expires_at has passed
  aged,      \* sessions whose first access token has expired
  dashboard, \* sessions opened from the browser; the others belong to API clients
  waiting,   \* logout and revoke handlers at their security review
  browser,   \* the token pair under william.session
  tab,       \* what each page has in flight
  faults,    \* restarts and lost renewals so far
  ended,     \* history: sessions that were ended on purpose
  uses,      \* history: how often each refresh token was redeemed
  forsaken   \* history: tokens redeemed for a page that was gone before the answer

store   == <<opened, issued, home, active, jti, of, revoked, dashboard>>
clocks  == <<lapsed, aged>>
history == <<ended, uses, forsaken>>
vars    == <<store, clocks, waiting, browser, tab, faults, history>>

Idle    == [at |-> "idle"]
Asking  == [at : {"asking"}, session : Sessions]
Refused == [at : {"renewing"}, pair : Pairs]
Rotated == [at : {"renewed"}, proc : Procs, pair : Pairs]
Handlers == [proc : Procs, op : {"one", "all"}, session : Sessions, token : Tokens \cup {NoToken}]

TypeOK ==
  /\ opened \in 0 .. MaxSessions
  /\ issued \in 0 .. MaxTokens
  /\ home \in [Sessions -> Procs \cup {Nowhere}]
  /\ active \in [Sessions -> BOOLEAN]
  /\ jti \in [Sessions -> Tokens \cup {NoToken}]
  /\ of \in [Tokens -> Sessions \cup {0}]
  /\ revoked \in [Procs -> SUBSET Tokens]
  /\ lapsed \in SUBSET Sessions
  /\ aged \in SUBSET Sessions
  /\ dashboard \in SUBSET Sessions
  /\ waiting \in SUBSET Handlers
  /\ browser \in Pairs \cup {NoPair}
  /\ tab \in [Tabs -> {Idle} \cup Asking \cup Refused \cup Rotated]
  /\ faults \in 0 .. MaxFaults
  /\ ended \in SUBSET Sessions
  /\ uses \in [Tokens -> Nat]
  /\ forsaken \in SUBSET Tokens

Init ==
  /\ opened = 0
  /\ issued = 0
  /\ home = [s \in Sessions |-> Nowhere]
  /\ active = [s \in Sessions |-> FALSE]
  /\ jti = [s \in Sessions |-> NoToken]
  /\ of = [j \in Tokens |-> 0]
  /\ revoked = [p \in Procs |-> {}]
  /\ lapsed = {}
  /\ aged = {}
  /\ dashboard = {}
  /\ waiting = {}
  /\ browser = NoPair
  /\ tab = [t \in Tabs |-> Idle]
  /\ faults = 0
  /\ ended = {}
  /\ uses = [j \in Tokens |-> 0]
  /\ forsaken = {}

-----------------------------------------------------------------------------
(* The session store of a process *)

\* require_session, which every authenticated request goes through
Known(p, s) == home[s] = p /\ active[s] /\ s \notin lapsed

\* What switch_workspace asks of a refresh token
Switchable(p, j) == j \in 1 .. issued /\ j \notin revoked[p] /\ Known(p, of[j])

\* Mutant: only the session is looked up.
RedeemableIfKnown(p, j) == j \in 1 .. issued /\ Known(p, of[j])

\* What refresh asks of it
Redeemable(p, j) == Switchable(p, j) /\ jti[of[j]] = j

\* create_session and update_session_refresh.  The token minted before the session has an
\* id is handed to nobody.
OpenSession(p) ==
  /\ opened < MaxSessions /\ issued < MaxTokens
  /\ opened' = opened + 1
  /\ issued' = issued + 1
  /\ home' = [home EXCEPT ![opened + 1] = p]
  /\ jti' = [jti EXCEPT ![opened + 1] = issued + 1]
  /\ of' = [of EXCEPT ![issued + 1] = opened + 1]

\* Mutant: the old token is not put on the revocation list.
RotateUnrevoked(p, j) ==
  /\ issued < MaxTokens
  /\ issued' = issued + 1
  /\ jti' = [jti EXCEPT ![of[j]] = issued + 1]
  /\ of' = [of EXCEPT ![issued + 1] = of[j]]
  /\ uses' = [uses EXCEPT ![j] = @ + 1]
  /\ UNCHANGED <<opened, home, active, revoked, dashboard, ended, forsaken>>

\* refresh, up to its await: the token is revoked and the session gets a new one.
Rotate(p, j) ==
  /\ issued < MaxTokens
  /\ issued' = issued + 1
  /\ jti' = [jti EXCEPT ![of[j]] = issued + 1]
  /\ of' = [of EXCEPT ![issued + 1] = of[j]]
  /\ revoked' = [revoked EXCEPT ![p] = @ \cup {j}]
  /\ uses' = [uses EXCEPT ![j] = @ + 1]
  /\ UNCHANGED <<opened, home, active, dashboard, ended, forsaken>>

-----------------------------------------------------------------------------
(* The browser.  Its pages share one stored pair; each renews at most once at a time.  A
   request in flight may still be served when its page is gone: RenewServed, then TabGone. *)

\* The login page of a tab that was opened while nobody was signed in.
SignIn(t, p) ==
  /\ tab[t] = Idle
  /\ OpenSession(p)
  /\ active' = [active EXCEPT ![opened + 1] = TRUE]
  /\ dashboard' = dashboard \cup {opened + 1}
  /\ browser' = [session |-> opened + 1, token |-> issued + 1]
  /\ UNCHANGED <<revoked, clocks, waiting, tab, faults, history>>

\* The request interceptor attaches the stored access token.
Ask(t) ==
  /\ tab[t] = Idle /\ browser # NoPair
  /\ tab' = [tab EXCEPT ![t] = [at |-> "asking", session |-> browser.session]]
  /\ UNCHANGED <<store, clocks, waiting, browser, faults, history>>

\* get_current_auth_context in the process that happens to serve the request
Authenticates(p, s) == Known(p, s) /\ s \notin aged

Answered(t, p) ==
  /\ tab[t].at = "asking" /\ Authenticates(p, tab[t].session)
  /\ tab' = [tab EXCEPT ![t] = Idle]
  /\ UNCHANGED <<store, clocks, waiting, browser, faults, history>>

\* A 401: the response interceptor reads the stored pair, which may no longer be the one
\* the request went out with, and renews it; without one the tab goes to the login page.
Denied(t, p) ==
  /\ tab[t].at = "asking" /\ ~Authenticates(p, tab[t].session)
  /\ tab' = [tab EXCEPT ![t] = IF browser = NoPair THEN Idle
                               ELSE [at |-> "renewing", pair |-> browser]]
  /\ UNCHANGED <<store, clocks, waiting, browser, faults, history>>

\* The request or its answer is lost: no status, so nothing is renewed.
AskLost(t) ==
  /\ tab[t].at = "asking"
  /\ tab' = [tab EXCEPT ![t] = Idle]
  /\ UNCHANGED <<store, clocks, waiting, browser, faults, history>>

\* The renewal reaches a process that redeems the token; its handler is then suspended in
\* prepare_verification.
RenewServed(t, p) ==
  /\ tab[t].at = "renewing" /\ Redeemable(p, tab[t].pair.token)
  /\ Rotate(p, tab[t].pair.token)
  /\ tab' = [tab EXCEPT ![t] = [at |-> "renewed", proc |-> p, pair |-> tab[t].pair]]
  /\ UNCHANGED <<clocks, waiting, browser, faults>>

Fault == faults < MaxFaults /\ faults' = faults + 1

\* clearSession, whatever pair is stored by now
SignOut(t) ==
  /\ browser' = NoPair
  /\ tab' = [tab EXCEPT ![t] = Idle]
  /\ UNCHANGED <<store, clocks, waiting, history>>

RenewDenied(t, p) ==
  /\ tab[t].at = "renewing" /\ ~Redeemable(p, tab[t].pair.token)
  /\ SignOut(t)
  /\ UNCHANGED faults

\* Mutant: a renewal that fails on the network leaves the stored pair alone.
RenewLostSilently(t) ==
  /\ tab[t].at \in {"renewing", "renewed"} /\ Fault
  /\ tab' = [tab EXCEPT ![t] = Idle]
  /\ UNCHANGED <<store, clocks, waiting, browser, history>>

\* The renewal or its answer is lost: performRefresh returns null.
RenewLost(t) ==
  /\ tab[t].at \in {"renewing", "renewed"} /\ Fault
  /\ SignOut(t)

\* The answer arrives, or its process is gone.  The answer is a 401 if the session was ended
\* during the await, and otherwise the new tokens without the user, workspace and membership
\* that normalizeAuthPayload reads: its exception is caught, and performRefresh returns null
\* all the same.
RenewAnswered(t) ==
  /\ tab[t].at = "renewed"
  /\ SignOut(t)
  /\ UNCHANGED faults

\* The page is closed, reloaded or crashes while it renews: nothing of performRefresh and of
\* the interceptor behind it runs any more, and the stored pair stays.
TabGone(t) ==
  /\ tab[t].at \in {"renewing", "renewed"}
  /\ tab' = [tab EXCEPT ![t] = Idle]
  /\ forsaken' = IF tab[t].at = "renewed" THEN forsaken \cup {tab[t].pair.token} ELSE forsaken
  /\ UNCHANGED <<store, clocks, waiting, browser, faults, ended, uses>>

-----------------------------------------------------------------------------
(* API clients, each with sessions and tokens of its own *)

\* login or register; also a sign-in from the browser whose answer is lost.
ApiSignIn(p) ==
  /\ OpenSession(p)
  /\ active' = [active EXCEPT ![opened + 1] = TRUE]
  /\ UNCHANGED <<revoked, dashboard, clocks, waiting, browser, tab, faults, history>>

ApiRefresh(p, j) ==
  /\ of[j] \notin dashboard /\ Redeemable(p, j)
  /\ Rotate(p, j)
  /\ UNCHANGED <<clocks, waiting, browser, tab, faults>>

\* switch_workspace, up to its awaits: the old session ends, another one opens.
SwitchWorkspace(p, j) ==
  /\ of[j] \notin dashboard /\ Switchable(p, j)
  /\ OpenSession(p)
  /\ active' = [active EXCEPT ![of[j]] = FALSE, ![opened + 1] = TRUE]
  /\ revoked' = [revoked EXCEPT ![p] = @ \cup {j, jti[of[j]]}]
  /\ ended' = ended \cup {of[j]}
  /\ uses' = [uses EXCEPT ![j] = @ + 1]
  /\ UNCHANGED <<dashboard, clocks, waiting, browser, tab, faults, forsaken>>

\* logout, up to its security review.  The refresh token in its body may be any that the
\* client holds.
BeginLogout(p, s, j, op) ==
  /\ s \notin dashboard /\ Known(p, s)
  /\ j # NoToken => j <= issued /\ of[j] \notin dashboard
  /\ Cardinality(waiting) < MaxWaiting
  /\ waiting' = waiting \cup {[proc |-> p, op |-> op, session |-> s, token |-> j]}
  /\ UNCHANGED <<store, clocks, browser, tab, faults, history>>

\* revoke_session: session a, of an admin, asks for s to be ended.
BeginRevoke(p, a, s) ==
  /\ a \notin dashboard /\ Known(p, a) /\ Known(p, s)
  /\ Cardinality(waiting) < MaxWaiting
  /\ waiting' = waiting \cup {[proc |-> p, op |-> "one", session |-> s, token |-> NoToken]}
  /\ UNCHANGED <<store, clocks, browser, tab, faults, history>>

\* revoke_all_user_sessions sees the sessions of its own process.
Targets(h) == IF h.op = "one" THEN {h.session} ELSE {s \in Sessions : home[s] = h.proc /\ active[s]}

\* Mutant: logging out only puts the tokens on the revocation list.
EndApprovedTokensOnly(h) ==
  /\ h \in waiting
  /\ waiting' = waiting \ {h}
  /\ revoked' = [revoked EXCEPT ![h.proc] = @ \cup {jti[s] : s \in Targets(h)}]
  /\ ended' = ended \cup Targets(h)
  /\ UNCHANGED <<opened, issued, home, active, jti, of, dashboard, clocks, browser, tab, faults, uses, forsaken>>

\* Mutant: the jti of a refresh token that was not sent is blocked as well.
EndApprovedUnchecked(h) ==
  /\ h \in waiting
  /\ waiting' = waiting \ {h}
  /\ active' = [s \in Sessions |-> active[s] /\ s \notin Targets(h)]
  /\ revoked' = [revoked EXCEPT ![h.proc] = @ \cup {jti[s] : s \in Targets(h)} \cup {h.token}]
  /\ ended' = ended \cup Targets(h)
  /\ UNCHANGED <<opened, issued, home, jti, of, dashboard, clocks, browser, tab, faults, uses, forsaken>>

\* The review allows it.  The sessions are not looked at again before they are ended.
EndApproved(h) ==
  /\ h \in waiting
  /\ waiting' = waiting \ {h}
  /\ active' = [s \in Sessions |-> active[s] /\ s \notin Targets(h)]
  /\ revoked' = [revoked EXCEPT ![h.proc] = @ \cup {jti[s] : s \in Targets(h)}
                                              \cup {j \in {h.token} : j # NoToken /\ of[j] \notin lapsed}]
  /\ ended' = ended \cup Targets(h)
  /\ UNCHANGED <<opened, issued, home, jti, of, dashboard, clocks, browser, tab, faults, uses, forsaken>>

EndDenied(h) ==
  /\ h \in waiting
  /\ waiting' = waiting \ {h}
  /\ UNCHANGED <<store, clocks, browser, tab, faults, history>>

-----------------------------------------------------------------------------
(* Time and failure *)

Lapse(s) ==
  /\ s <= opened /\ s \notin lapsed
  /\ lapsed' = lapsed \cup {s}
  /\ UNCHANGED <<store, aged, faults, waiting, browser, tab, history>>

Age(s) ==
  /\ s <= opened /\ s \notin aged
  /\ aged' = aged \cup {s}
  /\ UNCHANGED <<store, lapsed, faults, waiting, browser, tab, history>>

\* The memory of a process is gone: sessions, revocation list, suspended handlers.
Restart(p) ==
  /\ Fault
  /\ home' = [s \in Sessions |-> IF home[s] = p THEN Nowhere ELSE home[s]]
  /\ revoked' = [revoked EXCEPT ![p] = {}]
  /\ waiting' = {h \in waiting : h.proc # p}
  /\ UNCHANGED <<opened, issued, active, jti, of, dashboard, lapsed, aged, browser, tab, history>>

-----------------------------------------------------------------------------
Browser ==
  \E t \in Tabs :
    \/ Ask(t) \/ AskLost(t) \/ RenewLost(t) \/ RenewAnswered(t) \/ TabGone(t)
    \/ \E p \in Procs : \/ SignIn(t, p) \/ Answered(t, p) \/ Denied(t, p)
                       \/ RenewServed(t, p) \/ RenewDenied(t, p)

Clients ==
  \E p \in Procs :
    \/ ApiSignIn(p)
    \/ \E j \in 1 .. issued : ApiRefresh(p, j) \/ SwitchWorkspace(p, j)
    \/ \E s \in Sessions :
         \/ \E j \in 0 .. issued, op \in {"one", "all"} : BeginLogout(p, s, j, op)
         \/ \E a \in Sessions : BeginRevoke(p, a, s)

Next ==
  \/ Browser
  \/ Clients
  \/ \E h \in waiting : EndApproved(h) \/ EndDenied(h)
  \/ \E s \in Sessions : Lapse(s) \/ Age(s)
  \/ \E p \in Procs : Restart(p)

Spec == Init /\ [][Next]_vars

-----------------------------------------------------------------------------
(* Properties *)

\* Ending a session is final in every process and across restarts: whatever rotation,
\* switch or review was under way, nothing makes a process accept it again.
EndedIsFinal == \A s \in ended : \A p \in Procs : ~Known(p, s)

\* A refresh token is redeemed at most once, by refresh or by switch_workspace, in whichever
\* process and whatever restarts forgot its revocation.
SingleUse == \A j \in Tokens : uses[j] <= 1

\* Of all refresh tokens ever handed out for a session at most one is still good for
\* anything: the revocation list, which switch_workspace relies on, and the session's own
\* refresh_jti, which refresh relies on, agree.
OneTokenPerSession ==
  \A s \in Sessions :
    Cardinality({j \in Tokens : of[j] = s /\ \E p \in Procs : Switchable(p, j)}) <= 1

\* A page that stays open never leaves the browser on a token that was rotated away: as long
\* as its session lives, the stored token is the session's, a renewal of it is still on its
\* way back, or the page that renewed it was gone before the answer.  In that last case the
\* next renewal is refused, and signs the user out of a session that is alive.
StoredTokenIsCurrent ==
  browser # NoPair =>
    \/ browser.session \in ended
    \/ home[browser.session] = Nowhere
    \/ Switchable(home[browser.session], browser.token) \/ browser.session \in lapsed
    \/ \E t \in Tabs : tab[t].at = "renewed" /\ tab[t].pair = browser
    \/ browser.token \in forsaken

\* Some process would renew session s.
Renewable(s) == \E p \in Procs : Known(p, s) /\ Redeemable(p, jti[s])

OneStore == INSTANCE SessionContract
              WITH begun    <- 1 .. opened,
                   granted  <- 1 .. issued,
                   good     <- [s \in Sessions |-> IF Renewable(s) THEN jti[s] ELSE NoToken],
                   redeemed <- uses

\* Stores that share nothing, and are each forgotten at a restart, act like one: whatever
\* process serves it, a redemption is of the one token that is good for its session, and no
\* race of renewals, switches and ends brings a withdrawn token or session back.
ActsAsOneStore == OneStore!OneStoreSpec
=============================================================================
