-------------------------- MODULE AuthSessionsProofs --------------------------
(***************************************************************************)
(* Theorems about AuthSessions, for any number of processes and tabs and   *)
(* any bounds on sessions, tokens, waiting handlers and faults.            *)
(***************************************************************************)
EXTENDS AuthSessions, FiniteSetTheorems, TLAPS

\* Sessions and tokens are numbered in the order they come up, and know each other.
Numbered ==
  /\ \A s \in Sessions : s > opened =>
       home[s] = Nowhere /\ ~active[s] /\ s \notin ended /\ s \notin dashboard
  /\ \A s \in 1 .. opened : jti[s] \in 1 .. issued /\ of[jti[s]] = s
  /\ \A j \in Tokens : j > issued =>
       of[j] = 0 /\ uses[j] = 0 /\ \A p \in Procs : j \notin revoked[p]
  /\ \A j \in 1 .. issued : of[j] \in 1 .. opened
  /\ \A h \in waiting : h.session <= opened /\ h.token <= issued

EndedIsInactive == \A s \in ended : ~active[s]

\* The process that holds a session has on its revocation list every token of the session
\* that was replaced or redeemed.  A restart forgets the list and the session together.
SpentIsRevoked ==
  \A j \in 1 .. issued :
    active[of[j]] /\ home[of[j]] \in Procs /\ (jti[of[j]] # j \/ uses[j] > 0) =>
      j \in revoked[home[of[j]]]

SInv == TypeOK /\ Numbered /\ EndedIsInactive /\ SpentIsRevoked /\ SingleUse

\* A pair the browser has, or a tab renews, is a session of the browser and a token of it;
\* an API client presents no such token when it logs out.
PairOk(x) == x.session \in dashboard /\ x.token \in 1 .. issued /\ of[x.token] = x.session

PairsAreSound ==
  /\ browser # NoPair => PairOk(browser)
  /\ \A t \in Tabs : tab[t].at \in {"renewing", "renewed"} => PairOk(tab[t].pair)
  /\ \A h \in waiting : h.token # NoToken => of[h.token] \notin dashboard

\* A renewal of the stored pair is on its way back.
OnItsWay == \E t \in Tabs : tab[t].at = "renewed" /\ tab[t].pair = browser

Live(x) == active[x.session] /\ x.token \notin revoked[home[x.session]]

\* StoredTokenIsCurrent, for a sound pair.
PairIsCurrent ==
  browser # NoPair =>
    \/ browser.session \in ended
    \/ home[browser.session] = Nowhere
    \/ Live(browser)
    \/ browser.session \in lapsed
    \/ OnItsWay
    \/ browser.token \in forsaken

PInv == PairsAreSound /\ PairIsCurrent

-----------------------------------------------------------------------------
LEMMA Ranges ==
  ASSUME TypeOK
  PROVE  /\ opened \in Nat /\ opened <= MaxSessions /\ MaxSessions \in Nat
         /\ issued \in Nat /\ issued <= MaxTokens /\ MaxTokens \in Nat
         /\ 1 .. opened \subseteq Sessions /\ 1 .. issued \subseteq Tokens
  BY SessionsAssumption DEF TypeOK, Sessions, Tokens

\* What a tab has in flight.
LEMMA TabKinds ==
  ASSUME TypeOK, NEW t \in Tabs
  PROVE  /\ tab[t].at = "asking" => tab[t].session \in Sessions
         /\ tab[t].at \in {"renewing", "renewed"} =>
              tab[t].pair \in Pairs /\ tab[t].pair.session \in Sessions
              /\ tab[t].pair.token \in Tokens
  BY DEF TypeOK, Idle, Asking, Refused, Rotated, Pairs

\* The numbers in a waiting handler.
LEMMA WaitingNumbers ==
  ASSUME SInv, NEW h \in waiting
  PROVE  /\ h.session \in Nat /\ h.session <= opened /\ h.token \in Nat /\ h.token <= issued
         /\ h.token # NoToken => h.token \in 1 .. issued
  BY DEF SInv, Numbered, TypeOK, Handlers, Sessions, Tokens, NoToken

LEMMA InitSInv == Init => SInv
  <1> SUFFICES ASSUME Init PROVE SInv
    OBVIOUS
  <1>1. TypeOK
    BY SessionsAssumption DEF Init, TypeOK, Idle, Sessions, Tokens
  <1>2. Numbered
    BY SessionsAssumption DEF Init, Numbered, Sessions, Tokens
  <1>3. EndedIsInactive /\ SpentIsRevoked /\ SingleUse
    BY DEF Init, EndedIsInactive, SpentIsRevoked, SingleUse
  <1> QED BY <1>1, <1>2, <1>3 DEF SInv

-----------------------------------------------------------------------------
(* One lemma for each way a step changes the session store. *)

\* The store and the histories stay as they are.
LEMMA QuietSInv ==
  ASSUME SInv, TypeOK', UNCHANGED <<store, ended, uses>>,
         \A h \in waiting' : h.session <= opened /\ h.token <= issued
  PROVE  SInv'
  BY DEF SInv, Numbered, EndedIsInactive, SpentIsRevoked, SingleUse, store

\* A sign-in opens a session with the next numbers.
LEMMA OpenSInv ==
  ASSUME SInv, TypeOK', NEW p \in Procs, OpenSession(p),
         active' = [active EXCEPT ![opened + 1] = TRUE],
         dashboard' \in {dashboard, dashboard \cup {opened + 1}},
         UNCHANGED <<revoked, waiting, history>>
  PROVE  SInv'
  <1> DEFINE s == opened + 1
             j == issued + 1
  <1>1. s \in Sessions /\ j \in Tokens /\ opened \in Nat /\ issued \in Nat
    BY Ranges DEF SInv, OpenSession, Sessions, Tokens
  <1>2. /\ opened' = s /\ issued' = j
        /\ home'[s] = p /\ active'[s] = TRUE /\ jti'[s] = j /\ of'[j] = s
        /\ \A q \in Sessions \ {s} : home'[q] = home[q] /\ active'[q] = active[q] /\ jti'[q] = jti[q]
        /\ \A k \in Tokens \ {j} : of'[k] = of[k]
    BY <1>1 DEF SInv, TypeOK, OpenSession
  <1>3. revoked' = revoked /\ waiting' = waiting /\ ended' = ended /\ uses' = uses
    BY DEF history
  <1>4. s \notin ended /\ s \notin dashboard /\ uses[j] = 0 /\ \A q \in Procs : j \notin revoked[q]
    BY <1>1 DEF SInv, Numbered
  <1> HIDE DEF s, j
  <1>5. \A q \in 1 .. opened : q \in Sessions \ {s}
    BY <1>1, Ranges DEF SInv, s
  <1>6. \A k \in 1 .. issued : k \in Tokens \ {j}
    BY <1>1, Ranges DEF SInv, j
  <1>7. 1 .. opened' = 1 .. opened \cup {s} /\ 1 .. issued' = 1 .. issued \cup {j}
    BY <1>1, <1>2 DEF s, j
  <1>8. Numbered'
    <2>1. \A q \in Sessions : q > opened' => q > opened /\ q # s
      BY <1>1, <1>2 DEF s, Sessions
    <2>2. \A q \in Sessions : q > opened' =>
            home'[q] = Nowhere /\ ~active'[q] /\ q \notin ended' /\ q \notin dashboard'
      BY <1>2, <1>3, <2>1 DEF SInv, Numbered, s
    <2>3. ASSUME NEW q \in 1 .. opened'
          PROVE  jti'[q] \in 1 .. issued' /\ of'[jti'[q]] = q
      <3>1. CASE q = s
        BY <1>2, <1>7, <3>1
      <3>2. CASE q # s
        <4>1. q \in 1 .. opened /\ jti'[q] = jti[q]
          BY <1>2, <1>5, <1>7, <3>2
        <4>2. jti[q] \in 1 .. issued /\ of[jti[q]] = q
          BY <4>1 DEF SInv, Numbered
        <4> QED BY <1>2, <1>6, <1>7, <4>1, <4>2
      <3> QED BY <3>1, <3>2
    <2>4. \A k \in Tokens : k > issued' => k > issued /\ k # j
      BY <1>1, <1>2 DEF j, Tokens
    <2>5. \A k \in Tokens : k > issued' =>
            of'[k] = 0 /\ uses'[k] = 0 /\ \A q \in Procs : k \notin revoked'[q]
      BY <1>2, <1>3, <2>4 DEF SInv, Numbered
    <2>6. \A k \in 1 .. issued' : of'[k] \in 1 .. opened'
      BY <1>2, <1>6, <1>7 DEF SInv, Numbered
    <2>7. \A h \in waiting' : h.session <= opened' /\ h.token <= issued'
      BY <1>1, <1>2, <1>3, WaitingNumbers DEF s, j
    <2> QED BY <2>2, <2>3, <2>5, <2>6, <2>7 DEF Numbered
  <1>9. EndedIsInactive'
    BY <1>2, <1>3, <1>4 DEF SInv, EndedIsInactive, TypeOK
  <1>10. SpentIsRevoked'
    <2> SUFFICES ASSUME NEW k \in 1 .. issued', active'[of'[k]], home'[of'[k]] \in Procs,
                        jti'[of'[k]] # k \/ uses'[k] > 0
                 PROVE  k \in revoked'[home'[of'[k]]]
      BY DEF SpentIsRevoked
    <2>1. k # j
      BY <1>2, <1>3, <1>4
    <2>2. k \in 1 .. issued /\ of'[k] = of[k] /\ of[k] \in Sessions \ {s}
      BY <1>2, <1>5, <1>6, <1>7, <2>1 DEF SInv, Numbered
    <2>3. jti'[of'[k]] = jti[of[k]] /\ active'[of'[k]] = active[of[k]] /\ home'[of'[k]] = home[of[k]]
      BY <1>2, <2>2
    <2>4. k \in revoked[home[of[k]]]
      BY <1>3, <2>2, <2>3 DEF SInv, SpentIsRevoked
    <2> QED BY <1>3, <2>3, <2>4
  <1>11. SingleUse'
    BY <1>3 DEF SInv, SingleUse
  <1> QED BY <1>8, <1>9, <1>10, <1>11 DEF SInv

\* A refresh revokes the one token that was good and hands out the next.
LEMMA RotateSInv ==
  ASSUME SInv, TypeOK', NEW p \in Procs, NEW j \in Tokens, Redeemable(p, j), Rotate(p, j),
         UNCHANGED waiting
  PROVE  SInv'
  <1> DEFINE s == of[j]
             n == issued + 1
  <1>1. n \in Tokens /\ issued \in Nat /\ j \in 1 .. issued
    BY Ranges DEF SInv, Rotate, Tokens, Redeemable, Switchable
  <1>2. /\ s \in 1 .. opened /\ s \in Sessions /\ home[s] = p /\ active[s] /\ jti[s] = j
        /\ j \notin revoked[p]
    BY <1>1, Ranges DEF SInv, Numbered, Redeemable, Switchable, Known
  <1>3. uses[j] = 0
    BY <1>1, <1>2 DEF SInv, SpentIsRevoked, TypeOK
  <1>4. uses[n] = 0 /\ n \notin 1 .. issued
    BY <1>1 DEF SInv, Numbered
  <1> HIDE DEF s
  <1>5. /\ issued' = n /\ jti'[s] = n /\ of'[n] = s /\ uses'[j] = 1
        /\ \A q \in Sessions \ {s} : jti'[q] = jti[q]
        /\ \A k \in Tokens \ {n} : of'[k] = of[k]
        /\ \A k \in Tokens \ {j} : uses'[k] = uses[k]
        /\ revoked'[p] = revoked[p] \cup {j} /\ \A q \in Procs \ {p} : revoked'[q] = revoked[q]
        /\ opened' = opened /\ home' = home /\ active' = active /\ dashboard' = dashboard
        /\ ended' = ended /\ waiting' = waiting
    BY <1>1, <1>2, <1>3 DEF SInv, TypeOK, Rotate, s
  <1>6. 1 .. issued' = 1 .. issued \cup {n} /\ 1 .. issued \subseteq Tokens \ {n}
    BY <1>1, <1>4, <1>5, Ranges DEF SInv
  <1> HIDE DEF n
  <1>7. Numbered'
    <2>1. \A q \in 1 .. opened' : jti'[q] \in 1 .. issued' /\ of'[jti'[q]] = q
      BY <1>5, <1>6, Ranges DEF SInv, Numbered
    <2>2. \A k \in Tokens : k > issued' => k > issued /\ k # n /\ k # j
      BY <1>1, <1>5 DEF n, Tokens
    <2>3. \A k \in Tokens : k > issued' =>
            of'[k] = 0 /\ uses'[k] = 0 /\ \A q \in Procs : k \notin revoked'[q]
      BY <1>5, <2>2 DEF SInv, Numbered
    <2>4. \A k \in 1 .. issued' : of'[k] \in 1 .. opened'
      BY <1>2, <1>5, <1>6 DEF SInv, Numbered
    <2>5. \A h \in waiting' : h.session <= opened' /\ h.token <= issued'
      BY <1>1, <1>5, WaitingNumbers DEF n
    <2> QED BY <1>5, <2>1, <2>3, <2>4, <2>5 DEF SInv, Numbered
  <1>8. EndedIsInactive'
    BY <1>5 DEF SInv, EndedIsInactive
  <1>9. SpentIsRevoked'
    <2> SUFFICES ASSUME NEW k \in 1 .. issued', active'[of'[k]], home'[of'[k]] \in Procs,
                        jti'[of'[k]] # k \/ uses'[k] > 0
                 PROVE  k \in revoked'[home'[of'[k]]]
      BY DEF SpentIsRevoked
    <2>1. k # n
      BY <1>1, <1>4, <1>5, <1>6
    <2>2. k \in 1 .. issued /\ k \in Tokens \ {n} /\ of'[k] = of[k] /\ of[k] \in 1 .. opened
      BY <1>5, <1>6, <2>1 DEF SInv, Numbered
    <2>3. CASE k = j
      BY <1>2, <1>5, <2>2, <2>3 DEF s
    <2>4. CASE k # j
      <3>1. jti[of[k]] # k \/ uses[k] > 0
        BY <1>2, <1>5, <2>2, <2>4, Ranges DEF SInv
      <3>2. k \in revoked[home[of[k]]]
        BY <1>5, <2>2, <3>1 DEF SInv, SpentIsRevoked
      <3> QED BY <1>5, <2>2, <3>2
    <2> QED BY <2>3, <2>4
  <1>10. SingleUse'
    BY <1>5 DEF SInv, SingleUse
  <1> QED BY <1>7, <1>8, <1>9, <1>10 DEF SInv

\* Switching ends the old session, with both its tokens, and opens another.
LEMMA SwitchSInv ==
  ASSUME SInv, TypeOK', NEW p \in Procs, NEW k \in Tokens, SwitchWorkspace(p, k)
  PROVE  SInv'
  <1> DEFINE s == opened + 1
             j == issued + 1
             o == of[k]
  <1>1. s \in Sessions /\ j \in Tokens /\ opened \in Nat /\ issued \in Nat /\ k \in 1 .. issued
    BY Ranges DEF SInv, SwitchWorkspace, OpenSession, Sessions, Tokens, Switchable
  <1>2. /\ o \in 1 .. opened /\ o \in Sessions /\ o # s /\ home[o] = p /\ active[o]
        /\ k \notin revoked[p]
    BY <1>1, Ranges DEF SInv, Numbered, SwitchWorkspace, Switchable, Known
  <1>3. uses[k] = 0 /\ k # j
    BY <1>1, <1>2 DEF SInv, SpentIsRevoked, TypeOK
  <1>4. s \notin ended /\ s \notin dashboard /\ uses[j] = 0 /\ \A q \in Procs : j \notin revoked[q]
    BY <1>1 DEF SInv, Numbered
  <1>5. jti[o] \in 1 .. issued
    BY <1>2 DEF SInv, Numbered
  <1> HIDE DEF o
  <1>6. /\ opened' = s /\ issued' = j
        /\ home'[s] = p /\ active'[s] = TRUE /\ jti'[s] = j /\ of'[j] = s /\ ~active'[o]
        /\ \A q \in Sessions \ {s} : home'[q] = home[q] /\ jti'[q] = jti[q]
        /\ \A q \in Sessions \ {s, o} : active'[q] = active[q]
        /\ \A l \in Tokens \ {j} : of'[l] = of[l]
        /\ revoked'[p] = revoked[p] \cup {k, jti[o]}
        /\ \A q \in Procs \ {p} : revoked'[q] = revoked[q]
        /\ uses'[k] = 1 /\ \A l \in Tokens \ {k} : uses'[l] = uses[l]
        /\ ended' = ended \cup {o} /\ dashboard' = dashboard /\ waiting' = waiting
    <2>1. /\ opened' = s /\ issued' = j /\ home' = [home EXCEPT ![s] = p]
          /\ active' = [active EXCEPT ![o] = FALSE, ![s] = TRUE]
          /\ jti' = [jti EXCEPT ![s] = j] /\ of' = [of EXCEPT ![j] = s]
          /\ revoked' = [revoked EXCEPT ![p] = @ \cup {k, jti[o]}]
          /\ uses' = [uses EXCEPT ![k] = @ + 1]
          /\ ended' = ended \cup {o} /\ dashboard' = dashboard /\ waiting' = waiting
      BY DEF SwitchWorkspace, OpenSession, o
    <2>2. /\ home \in [Sessions -> Procs \cup {Nowhere}] /\ active \in [Sessions -> BOOLEAN]
          /\ jti \in [Sessions -> Tokens \cup {NoToken}] /\ of \in [Tokens -> Sessions \cup {0}]
          /\ revoked \in [Procs -> SUBSET Tokens] /\ uses \in [Tokens -> Nat]
      BY DEF SInv, TypeOK
    <2> HIDE DEF s, j
    <2>3. home'[s] = p /\ jti'[s] = j /\ of'[j] = s
      BY <1>1, <2>1, <2>2
    <2>4. active'[s] = TRUE /\ ~active'[o] /\ \A q \in Sessions \ {s, o} : active'[q] = active[q]
      BY <1>1, <1>2, <2>1, <2>2
    <2>5. /\ \A q \in Sessions \ {s} : home'[q] = home[q] /\ jti'[q] = jti[q]
          /\ \A l \in Tokens \ {j} : of'[l] = of[l]
      BY <2>1, <2>2
    <2>6. /\ revoked'[p] = revoked[p] \cup {k, jti[o]}
          /\ \A q \in Procs \ {p} : revoked'[q] = revoked[q]
          /\ uses'[k] = 1 /\ \A l \in Tokens \ {k} : uses'[l] = uses[l]
      BY <1>3, <2>1, <2>2
    <2> QED BY <2>1, <2>3, <2>4, <2>5, <2>6
  <1>7. /\ 1 .. opened' = 1 .. opened \cup {s} /\ 1 .. issued' = 1 .. issued \cup {j}
        /\ 1 .. opened \subseteq Sessions \ {s} /\ 1 .. issued \subseteq Tokens \ {j}
    BY <1>1, <1>6, Ranges DEF SInv
  <1> HIDE DEF s, j
  <1>8. Numbered'
    <2>1. \A q \in Sessions : q > opened' => q > opened /\ q # s /\ q # o
      BY <1>1, <1>2, <1>6 DEF s, Sessions
    <2>2. \A q \in Sessions : q > opened' =>
            home'[q] = Nowhere /\ ~active'[q] /\ q \notin ended' /\ q \notin dashboard'
      BY <1>6, <2>1 DEF SInv, Numbered
    <2>3. ASSUME NEW q \in 1 .. opened'
          PROVE  jti'[q] \in 1 .. issued' /\ of'[jti'[q]] = q
      <3>1. CASE q = s
        BY <1>6, <1>7, <3>1
      <3>2. CASE q # s
        <4>1. q \in 1 .. opened /\ jti'[q] = jti[q]
          BY <1>6, <1>7, <3>2
        <4>2. jti[q] \in 1 .. issued /\ of[jti[q]] = q
          BY <4>1 DEF SInv, Numbered
        <4> QED BY <1>6, <1>7, <4>1, <4>2
      <3> QED BY <3>1, <3>2
    <2>4. \A l \in Tokens : l > issued' => l > issued /\ l # j /\ l # k /\ l # jti[o]
      BY <1>1, <1>5, <1>6 DEF j, Tokens
    <2>5. \A l \in Tokens : l > issued' =>
            of'[l] = 0 /\ uses'[l] = 0 /\ \A q \in Procs : l \notin revoked'[q]
      BY <1>6, <2>4 DEF SInv, Numbered
    <2>6. \A l \in 1 .. issued' : of'[l] \in 1 .. opened'
      BY <1>6, <1>7 DEF SInv, Numbered
    <2>7. \A h \in waiting' : h.session <= opened' /\ h.token <= issued'
      BY <1>1, <1>6, WaitingNumbers DEF s, j
    <2> QED BY <2>2, <2>3, <2>5, <2>6, <2>7 DEF Numbered
  <1>9. EndedIsInactive'
    BY <1>2, <1>4, <1>6 DEF SInv, EndedIsInactive, TypeOK
  <1>10. SpentIsRevoked'
    <2> SUFFICES ASSUME NEW l \in 1 .. issued', active'[of'[l]], home'[of'[l]] \in Procs,
                        jti'[of'[l]] # l \/ uses'[l] > 0
                 PROVE  l \in revoked'[home'[of'[l]]]
      BY DEF SpentIsRevoked
    <2>1. l # j
      BY <1>1, <1>3, <1>4, <1>6
    <2>2. l \in 1 .. issued /\ l \in Tokens \ {j} /\ of'[l] = of[l]
      BY <1>6, <1>7, <2>1
    <2>3. of[l] \in 1 .. opened /\ of[l] \in Sessions \ {s} /\ of[l] # o
      BY <1>6, <1>7, <2>2 DEF SInv, Numbered
    <2>4. l # k /\ uses'[l] = uses[l]
      <3>1. l # k
        BY <2>3 DEF o
      <3> QED BY <1>6, <2>2, <3>1
    <2>5. /\ jti'[of'[l]] = jti[of[l]] /\ active'[of'[l]] = active[of[l]]
          /\ home'[of'[l]] = home[of[l]]
      <3>1. of[l] \in Sessions \ {s, o}
        BY <2>3
      <3>2. /\ jti'[of[l]] = jti[of[l]] /\ home'[of[l]] = home[of[l]]
            /\ active'[of[l]] = active[of[l]]
        BY <1>6, <3>1
      <3> QED BY <2>2, <3>2
    <2>6. l \in revoked[home[of[l]]]
      BY <2>2, <2>4, <2>5 DEF SInv, SpentIsRevoked
    <2> QED BY <1>6, <2>5, <2>6
  <1>11. SingleUse'
    BY <1>6 DEF SInv, SingleUse
  <1> QED BY <1>8, <1>9, <1>10, <1>11 DEF SInv

\* Sessions a handler may end have tokens.
LEMMA TargetTokens ==
  ASSUME SInv, NEW h \in waiting, NEW s \in Targets(h)
  PROVE  s \in 1 .. opened /\ s \in Sessions /\ jti[s] \in 1 .. issued /\ of[jti[s]] = s
  <1>1. h \in Handlers /\ h.session \in Sessions /\ h.proc \in Procs
    BY DEF SInv, TypeOK, Handlers
  <1>2. s \in Sessions
    BY <1>1 DEF Targets
  <1>3. s <= opened
    BY <1>1, <1>2, Ranges DEF SInv, Numbered, Targets, Sessions
  <1> QED BY <1>2, <1>3, Ranges DEF SInv, Numbered, Sessions

\* A review that ends sessions takes nothing off a revocation list.
LEMMA EndSInv ==
  ASSUME SInv, TypeOK', NEW h \in waiting, EndApproved(h)
  PROVE  SInv'
  <1>1. /\ \A s \in Sessions : active'[s] <=> active[s] /\ s \notin Targets(h)
        /\ ended' = ended \cup Targets(h) /\ waiting' \subseteq waiting
        /\ UNCHANGED <<opened, issued, home, jti, of, dashboard, uses>>
    BY DEF EndApproved
  <1>2. \A p \in Procs : /\ revoked[p] \subseteq revoked'[p]
                         /\ \A j \in Tokens : j > issued => j \notin revoked'[p]
    <2> SUFFICES ASSUME NEW p \in Procs
                 PROVE  /\ revoked[p] \subseteq revoked'[p]
                        /\ \A j \in revoked'[p] : j \in revoked[p] \/ j \in 1 .. issued
      BY Ranges DEF SInv, Numbered
    <2>1. CASE p = h.proc
      BY <2>1, TargetTokens, WaitingNumbers DEF EndApproved, SInv, TypeOK
    <2>2. CASE p # h.proc
      BY <2>2 DEF EndApproved, SInv, TypeOK
    <2> QED BY <2>1, <2>2
  <1>3. Targets(h) \subseteq 1 .. opened
    BY TargetTokens
  <1>4. Numbered'
    BY <1>1, <1>2, <1>3, Ranges DEF SInv, Numbered
  <1>5. EndedIsInactive'
    BY <1>1, <1>3, Ranges DEF SInv, EndedIsInactive, TypeOK
  <1>6. SpentIsRevoked'
    <2>1. \A j \in 1 .. issued : of[j] \in Sessions
      BY Ranges DEF SInv, Numbered
    <2> QED BY <1>1, <1>2, <2>1 DEF SInv, SpentIsRevoked
  <1>7. SingleUse'
    BY <1>1 DEF SInv, SingleUse
  <1> QED BY <1>4, <1>5, <1>6, <1>7 DEF SInv

\* A restart forgets a process's sessions and revocations at once.
LEMMA RestartSInv ==
  ASSUME SInv, TypeOK', NEW p \in Procs, Restart(p)
  PROVE  SInv'
  <1>1. /\ \A s \in Sessions : home'[s] = IF home[s] = p THEN Nowhere ELSE home[s]
        /\ revoked'[p] = {} /\ \A q \in Procs \ {p} : revoked'[q] = revoked[q]
        /\ waiting' \subseteq waiting
        /\ UNCHANGED <<opened, issued, active, jti, of, dashboard, ended, uses>>
    BY DEF Restart, SInv, TypeOK, history
  <1>2. Numbered'
    BY <1>1 DEF SInv, Numbered
  <1>3. SpentIsRevoked'
    <2>1. \A j \in 1 .. issued : of[j] \in Sessions
      BY Ranges DEF SInv, Numbered
    <2> QED BY <1>1, <2>1, SessionsAssumption DEF SInv, SpentIsRevoked
  <1> QED BY <1>1, <1>2, <1>3 DEF SInv, EndedIsInactive, SingleUse

-----------------------------------------------------------------------------
(* Every action *)

\* The store's part of the type invariant, and the rest.
StoreType ==
  /\ opened \in 0 .. MaxSessions
  /\ issued \in 0 .. MaxTokens
  /\ home \in [Sessions -> Procs \cup {Nowhere}]
  /\ active \in [Sessions -> BOOLEAN]
  /\ jti \in [Sessions -> Tokens \cup {NoToken}]
  /\ of \in [Tokens -> Sessions \cup {0}]
  /\ revoked \in [Procs -> SUBSET Tokens]
  /\ dashboard \in SUBSET Sessions
  /\ ended \in SUBSET Sessions
  /\ uses \in [Tokens -> Nat]

RestType ==
  /\ lapsed \in SUBSET Sessions
  /\ aged \in SUBSET Sessions
  /\ waiting \in SUBSET Handlers
  /\ browser \in Pairs \cup {NoPair}
  /\ tab \in [Tabs -> {Idle} \cup Asking \cup Refused \cup Rotated]
  /\ faults \in 0 .. MaxFaults
  /\ forsaken \in SUBSET Tokens

LEMMA TypeParts == (TypeOK <=> StoreType /\ RestType) /\ (StoreType' /\ RestType' => TypeOK')
  BY DEF TypeOK, StoreType, RestType

\* Opening and rotating keep the store's types.
LEMMA OpenType ==
  ASSUME StoreType, NEW p \in Procs, OpenSession(p)
  PROVE  /\ opened' \in 0 .. MaxSessions /\ issued' \in 0 .. MaxTokens
         /\ home' \in [Sessions -> Procs \cup {Nowhere}]
         /\ jti' \in [Sessions -> Tokens \cup {NoToken}]
         /\ of' \in [Tokens -> Sessions \cup {0}]
         /\ opened + 1 \in Sessions /\ issued + 1 \in Tokens
  <1>1. opened + 1 \in Sessions /\ issued + 1 \in Tokens
    BY SessionsAssumption DEF StoreType, OpenSession, Sessions, Tokens
  <1> QED BY <1>1, SessionsAssumption DEF StoreType, OpenSession, Sessions, Tokens

LEMMA RotateType ==
  ASSUME StoreType, NEW p \in Procs, NEW j \in Tokens, of[j] \in Sessions, Rotate(p, j)
  PROVE  StoreType'
  <1>1. issued + 1 \in Tokens
    BY SessionsAssumption DEF StoreType, Rotate, Tokens
  <1>2. issued' \in 0 .. MaxTokens
    BY <1>1 DEF StoreType, Rotate, Tokens
  <1>3. uses' \in [Tokens -> Nat] /\ revoked' \in [Procs -> SUBSET Tokens]
    BY DEF StoreType, Rotate
  <1>4. jti' \in [Sessions -> Tokens \cup {NoToken}] /\ of' \in [Tokens -> Sessions \cup {0}]
    BY <1>1 DEF StoreType, Rotate
  <1> QED BY <1>2, <1>3, <1>4 DEF StoreType, Rotate

LEMMA QuietType == ASSUME StoreType, UNCHANGED <<store, ended, uses>> PROVE StoreType'
  BY DEF StoreType, store

\* A token that is good for something belongs to a session.
LEMMA GoodTokens ==
  ASSUME SInv, NEW p, NEW j, Switchable(p, j)
  PROVE  j \in 1 .. issued /\ j \in Tokens /\ of[j] \in 1 .. opened /\ of[j] \in Sessions
  BY Ranges DEF SInv, Numbered, Switchable

LEMMA StepSInv == SInv /\ [Next]_vars => SInv'
  <1> SUFFICES ASSUME SInv, [Next]_vars PROVE SInv'
    OBVIOUS
  <1> USE TypeParts
  <1>1. StoreType /\ RestType /\ TypeOK
    BY DEF SInv
  <1>2. CASE UNCHANGED vars
    <2>1. TypeOK'
      BY <1>1, <1>2 DEF vars, store, clocks, history, TypeOK
    <2> QED BY <1>2, <2>1, QuietSInv, WaitingNumbers DEF vars, history
  <1>3. ASSUME UNCHANGED <<store, waiting, ended, uses>>, RestType' PROVE SInv'
    BY <1>1, <1>3, QuietSInv, QuietType, WaitingNumbers
  <1>4. ASSUME NEW t \in Tabs, NEW p \in Procs, SignIn(t, p) PROVE SInv'
    <2>1. OpenSession(p) /\ opened + 1 \in Sessions /\ issued + 1 \in Tokens
      BY <1>1, <1>4, OpenType DEF SignIn
    <2>2. StoreType'
      BY <1>1, <1>4, <2>1, OpenType DEF SignIn, StoreType, history
    <2>3. RestType'
      BY <1>1, <1>4, <2>1 DEF SignIn, RestType, clocks, history, Pairs
    <2> QED BY <1>4, <2>1, <2>2, <2>3, OpenSInv DEF SignIn
  <1>5. ASSUME NEW t \in Tabs, Ask(t) PROVE SInv'
    <2>1. browser.session \in Sessions
      BY <1>1, <1>5 DEF Ask, RestType, Pairs
    <2>2. [at |-> "asking", session |-> browser.session] \in Asking
      BY <2>1 DEF Asking
    <2>3. RestType'
      BY <1>1, <1>5, <2>2 DEF Ask, RestType, clocks, history
    <2> QED BY <1>3, <1>5, <2>3 DEF Ask, history
  <1>6. ASSUME NEW t \in Tabs, AskLost(t) \/ \E p \in Procs : Answered(t, p) PROVE SInv'
    <2>1. RestType'
      BY <1>1, <1>6 DEF Answered, AskLost, RestType, clocks, history
    <2> QED BY <1>3, <1>6, <2>1 DEF Answered, AskLost, history
  <1>7. ASSUME NEW t \in Tabs, NEW p \in Procs, Denied(t, p) PROVE SInv'
    <2>1. browser # NoPair => [at |-> "renewing", pair |-> browser] \in Refused
      BY <1>1 DEF RestType, Refused
    <2>2. RestType'
      BY <1>1, <1>7, <2>1 DEF Denied, RestType, clocks, history
    <2> QED BY <1>3, <1>7, <2>2 DEF Denied, history
  <1>8. ASSUME NEW t \in Tabs, NEW p \in Procs, RenewServed(t, p) PROVE SInv'
    <2> DEFINE j == tab[t].pair.token
    <2>1. j \in Tokens /\ of[j] \in Sessions /\ Redeemable(p, j) /\ Rotate(p, j)
          /\ tab[t].pair \in Pairs
      BY <1>1, <1>8, GoodTokens, TabKinds DEF RenewServed, Redeemable
    <2>2. [at |-> "renewed", proc |-> p, pair |-> tab[t].pair] \in Rotated
      BY <2>1 DEF Rotated
    <2>3. RestType'
      BY <1>1, <1>8, <2>2 DEF RenewServed, Rotate, RestType, clocks
    <2>4. StoreType'
      BY <1>1, <2>1, RotateType
    <2> QED BY <1>8, <2>1, <2>3, <2>4, RotateSInv DEF RenewServed
  <1>9. ASSUME NEW t \in Tabs, SignOut(t), faults' \in 0 .. MaxFaults PROVE SInv'
    <2>1. RestType'
      BY <1>1, <1>9 DEF SignOut, RestType, clocks, history
    <2> QED BY <1>3, <1>9, <2>1 DEF SignOut, history
  <1>10. ASSUME NEW t \in Tabs,
                RenewLost(t) \/ RenewAnswered(t) \/ \E p \in Procs : RenewDenied(t, p)
         PROVE  SInv'
    BY <1>1, <1>9, <1>10, SessionsAssumption
       DEF RenewDenied, RenewLost, RenewAnswered, Fault, RestType
  <1>11. ASSUME NEW p \in Procs, ApiSignIn(p) PROVE SInv'
    <2>1. OpenSession(p) /\ opened + 1 \in Sessions
      BY <1>1, <1>11, OpenType DEF ApiSignIn
    <2>2. StoreType'
      BY <1>1, <1>11, <2>1, OpenType DEF ApiSignIn, StoreType, history
    <2>3. RestType'
      BY <1>1, <1>11 DEF ApiSignIn, RestType, clocks, history
    <2> QED BY <1>11, <2>1, <2>2, <2>3, OpenSInv DEF ApiSignIn
  <1>12. ASSUME NEW p \in Procs, NEW j \in 1 .. issued, ApiRefresh(p, j) PROVE SInv'
    <2>1. j \in Tokens /\ of[j] \in Sessions
      BY <1>12, GoodTokens DEF ApiRefresh, Redeemable
    <2>2. StoreType' /\ RestType'
      BY <1>1, <1>12, <2>1, RotateType DEF ApiRefresh, Rotate, RestType, clocks
    <2> QED BY <1>12, <2>1, <2>2, RotateSInv DEF ApiRefresh
  <1>13. ASSUME NEW p \in Procs, NEW j \in 1 .. issued, SwitchWorkspace(p, j) PROVE SInv'
    <2>1. /\ OpenSession(p) /\ opened + 1 \in Sessions /\ j \in Tokens /\ of[j] \in 1 .. opened
          /\ of[j] \in Sessions
      BY <1>1, <1>13, GoodTokens, OpenType DEF SwitchWorkspace
    <2>2. jti[of[j]] \in Tokens
      BY <2>1, Ranges DEF SInv, Numbered
    <2>3. active' \in [Sessions -> BOOLEAN] /\ revoked' \in [Procs -> SUBSET Tokens]
          /\ ended' \in SUBSET Sessions /\ uses' \in [Tokens -> Nat]
      <3>1. active' \in [Sessions -> BOOLEAN]
        BY <1>1, <1>13, <2>1 DEF SwitchWorkspace, StoreType
      <3>2. revoked' \in [Procs -> SUBSET Tokens]
        BY <1>1, <1>13, <2>1, <2>2 DEF SwitchWorkspace, StoreType
      <3>3. ended' \in SUBSET Sessions /\ uses' \in [Tokens -> Nat]
        BY <1>1, <1>13, <2>1 DEF SwitchWorkspace, StoreType
      <3> QED BY <3>1, <3>2, <3>3
    <2>4. StoreType'
      BY <1>1, <1>13, <2>1, <2>3, OpenType DEF SwitchWorkspace, StoreType
    <2>5. RestType'
      BY <1>1, <1>13 DEF SwitchWorkspace, RestType, clocks, history
    <2> QED BY <1>13, <2>1, <2>4, <2>5, SwitchSInv
  <1>14. ASSUME NEW p \in Procs, NEW s \in Sessions, NEW j \in 0 .. issued,
                NEW op \in {"one", "all"}, s <= opened,
                waiting' = waiting \cup {[proc |-> p, op |-> op, session |-> s, token |-> j]},
                UNCHANGED <<store, clocks, browser, tab, faults, history>>
         PROVE  SInv'
    <2> DEFINE h == [proc |-> p, op |-> op, session |-> s, token |-> j]
    <2>1. j \in Tokens \cup {NoToken} /\ j <= issued
      BY <1>1, Ranges DEF SInv, Tokens, NoToken
    <2>2. h \in Handlers /\ h.session = s /\ h.token = j
      BY <2>1 DEF Handlers
    <2>3. waiting' = waiting \cup {h}
      BY <1>14
    <2> HIDE DEF h
    <2>4. RestType' /\ StoreType'
      BY <1>1, <1>14, <2>2, <2>3, QuietType DEF RestType, clocks, history
    <2>5. \A g \in waiting' : g.session <= opened /\ g.token <= issued
      BY <1>14, <2>1, <2>2, <2>3, WaitingNumbers
    <2> QED BY <1>14, <2>4, <2>5, QuietSInv DEF history
  <1>15. \A p \in Procs, s \in Sessions : Known(p, s) => s <= opened
    BY Ranges, SessionsAssumption DEF SInv, Numbered, Known, Sessions
  <1>16. ASSUME NEW p \in Procs, NEW s \in Sessions, NEW j \in 0 .. issued,
                NEW op \in {"one", "all"}, BeginLogout(p, s, j, op)
         PROVE  SInv'
    BY <1>14, <1>15, <1>16 DEF BeginLogout
  <1>17. ASSUME NEW p \in Procs, NEW s \in Sessions, NEW a \in Sessions, BeginRevoke(p, a, s)
         PROVE  SInv'
    <2>1. NoToken \in 0 .. issued /\ s <= opened
      BY <1>1, <1>15, <1>17, Ranges DEF BeginRevoke, NoToken
    <2> QED BY <1>14, <1>17, <2>1 DEF BeginRevoke
  <1>18. ASSUME NEW h \in waiting, EndApproved(h) PROVE SInv'
    <2>1. Targets(h) \subseteq Sessions /\ \A s \in Targets(h) : jti[s] \in Tokens
      BY TargetTokens, Ranges DEF SInv
    <2>2. h.token # NoToken => h.token \in Tokens
      BY WaitingNumbers, Ranges DEF SInv
    <2>3. /\ active' \in [Sessions -> BOOLEAN] /\ ended' \in SUBSET Sessions
          /\ revoked' \in [Procs -> SUBSET Tokens]
      <3>1. active' \in [Sessions -> BOOLEAN]
        BY <1>18, Zenon DEF EndApproved
      <3>2. {jti[s] : s \in Targets(h)} \cup {j \in {h.token} : j # NoToken /\ of[j] \notin lapsed}
              \in SUBSET Tokens
        BY <2>1, <2>2
      <3>3. revoked' \in [Procs -> SUBSET Tokens]
        BY <1>1, <1>18, <3>2 DEF EndApproved, StoreType
      <3> QED BY <1>1, <1>18, <2>1, <3>1, <3>3 DEF EndApproved, StoreType
    <2>4. StoreType'
      BY <1>1, <1>18, <2>3 DEF EndApproved, StoreType
    <2>5. RestType'
      BY <1>1, <1>18 DEF EndApproved, RestType, clocks, history
    <2> QED BY <1>18, <2>4, <2>5, EndSInv
  <1>19. ASSUME NEW h \in waiting, EndDenied(h) PROVE SInv'
    <2>1. RestType' /\ StoreType'
      BY <1>1, <1>19, QuietType DEF EndDenied, RestType, clocks, history
    <2> QED BY <1>19, <2>1, QuietSInv, WaitingNumbers DEF EndDenied, history
  <1>20. ASSUME NEW s \in Sessions, Lapse(s) \/ Age(s) PROVE SInv'
    <2>1. RestType'
      BY <1>1, <1>20 DEF Lapse, Age, RestType, history
    <2> QED BY <1>3, <1>20, <2>1 DEF Lapse, Age, history
  <1>21. ASSUME NEW p \in Procs, Restart(p) PROVE SInv'
    <2>1. StoreType'
      BY <1>1, <1>21 DEF Restart, StoreType, history
    <2>2. RestType'
      BY <1>1, <1>21, SessionsAssumption DEF Restart, Fault, RestType, history
    <2> QED BY <1>21, <2>1, <2>2, RestartSInv
  <1>22. ASSUME NEW t \in Tabs, TabGone(t) PROVE SInv'
    <2>1. tab[t].at = "renewed" => tab[t].pair.token \in Tokens
      BY <1>1, TabKinds
    <2>2. RestType'
      BY <1>1, <1>22, <2>1 DEF TabGone, RestType, clocks
    <2> QED BY <1>3, <1>22, <2>2 DEF TabGone
  <1> QED BY <1>2, <1>4, <1>5, <1>6, <1>7, <1>8, <1>10, <1>11, <1>12, <1>13, <1>16, <1>17, <1>18,
          <1>19, <1>20, <1>21, <1>22 DEF Next, Browser, Clients

LEMMA SpecSInv == Spec => []SInv
  BY InitSInv, StepSInv, PTL DEF Spec

-----------------------------------------------------------------------------
(* The browser's pair *)

\* What a step does to the store leaves sound pairs sound ...
LEMMA PairStays ==
  ASSUME SInv, SInv', NEW x, PairOk(x), issued <= issued', dashboard \subseteq dashboard',
         of'[x.token] = of[x.token]
  PROVE  PairOk(x)'
  <1>1. 1 .. issued \subseteq 1 .. issued'
    <2>1. issued \in Nat /\ issued' \in Nat
      BY Ranges DEF SInv, TypeOK
    <2> QED BY <2>1
  <1> QED BY <1>1 DEF PairOk

\* ... and the stored pair current, unless it ends the session, loses it, or revokes the
\* token in order to renew it.
LEMMA CurrentStays ==
  ASSUME PairIsCurrent, browser # NoPair, browser' = browser,
         browser.session \in ended => browser.session \in ended',
         browser.session \in lapsed => browser.session \in lapsed', forsaken \subseteq forsaken',
         home'[browser.session] \in {home[browser.session], Nowhere},
         OnItsWay => OnItsWay',
         Live(browser) =>
           \/ active'[browser.session] /\ browser.token \notin revoked'[home[browser.session]]
           \/ browser.session \in ended' \/ home'[browser.session] = Nowhere \/ OnItsWay'
  PROVE  PairIsCurrent'
  BY DEF PairIsCurrent, Live

\* What is stored is sound only as long as the store knows it.
LEMMA QuietPInv ==
  ASSUME SInv, PInv, UNCHANGED <<store, history, browser>>, waiting' \subseteq waiting,
         lapsed \subseteq lapsed',
         \A t \in Tabs :
           \/ tab'[t] = tab[t]
           \/ tab'[t].at \notin {"renewing", "renewed"} /\ tab[t].at # "renewed"
           \/ /\ tab'[t] = [at |-> "renewing", pair |-> browser] /\ browser # NoPair
              /\ tab[t].at # "renewed"
  PROVE  PInv'
  <1>1. PairsAreSound'
    BY DEF PInv, PairsAreSound, PairOk, store, history
  <1>2. OnItsWay => OnItsWay'
    BY DEF OnItsWay
  <1>3. PairIsCurrent'
    BY <1>2 DEF PInv, PairIsCurrent, Live, store, history
  <1> QED BY <1>1, <1>3 DEF PInv

\* A new session takes no session's place, and no token's.
LEMMA OpenPInv ==
  ASSUME SInv, SInv', PInv, NEW p \in Procs, OpenSession(p),
         dashboard' = dashboard, UNCHANGED <<lapsed, waiting, browser, tab, forsaken>>,
         ended \subseteq ended',
         browser # NoPair /\ Live(browser) =>
           active'[browser.session] /\ \A q \in Procs : browser.token \notin revoked'[q]
                                                       \/ browser.token \in revoked[q]
  PROVE  PInv'
  <1>1. /\ opened \in Nat /\ issued \in Nat /\ issued' = issued + 1
        /\ home' = [home EXCEPT ![opened + 1] = p] /\ of' = [of EXCEPT ![issued + 1] = opened + 1]
        /\ home \in [Sessions -> Procs \cup {Nowhere}] /\ of \in [Tokens -> Sessions \cup {0}]
    BY Ranges DEF SInv, TypeOK, OpenSession
  <1>2. \A j \in 1 .. issued : j \in Tokens /\ of'[j] = of[j] /\ of[j] \in 1 .. opened
    BY <1>1, Ranges DEF SInv, Numbered
  <1>3. \A s \in dashboard : s \in Sessions /\ s <= opened /\ home'[s] = home[s]
    <2>1. \A s \in dashboard : s \in Sessions /\ ~(s > opened)
      BY DEF SInv, TypeOK, Numbered
    <2> QED BY <1>1, <2>1 DEF Sessions
  <1>4. ASSUME NEW x, PairOk(x) PROVE PairOk(x)' /\ home'[x.session] = home[x.session]
    BY <1>1, <1>2, <1>3, <1>4, PairStays DEF PairOk
  <1>5. PairsAreSound'
    <2>1. browser' # NoPair => PairOk(browser)'
      BY <1>4 DEF PInv, PairsAreSound, PairOk
    <2>2. \A t \in Tabs : tab'[t].at \in {"renewing", "renewed"} => PairOk(tab[t].pair)'
      BY <1>4 DEF PInv, PairsAreSound, PairOk
    <2>3. \A h \in waiting' : h.token # NoToken => of'[h.token] \notin dashboard'
      BY <1>2, WaitingNumbers DEF PInv, PairsAreSound
    <2> QED BY <2>1, <2>2, <2>3 DEF PairsAreSound
  <1>6. PairIsCurrent'
    <2>1. CASE browser = NoPair
      BY <2>1 DEF PairIsCurrent
    <2>2. CASE browser # NoPair
      <3>1. PairOk(browser) /\ home'[browser.session] = home[browser.session]
        BY <1>4, <2>2 DEF PInv, PairsAreSound
      <3>2. browser.session \in Sessions
        BY <1>3, <3>1 DEF PairOk
      <3>3. home[browser.session] \in Procs \cup {Nowhere}
        BY <1>1, <3>2
      <3>4. OnItsWay => OnItsWay'
        BY DEF OnItsWay
      <3>5. Live(browser) =>
              \/ active'[browser.session] /\ browser.token \notin revoked'[home[browser.session]]
              \/ home'[browser.session] = Nowhere
        BY <2>2, <3>1, <3>3 DEF Live
      <3> QED BY <2>2, <3>1, <3>4, <3>5, CurrentStays DEF PInv
    <2> QED BY <2>1, <2>2
  <1> QED BY <1>5, <1>6 DEF PInv

\* The browser's own sign-in stores the pair it was given.
LEMMA SignInPInv ==
  ASSUME SInv, SInv', PInv, NEW t \in Tabs, NEW p \in Procs, SignIn(t, p)
  PROVE  PInv'
  <1> DEFINE s == opened + 1
             j == issued + 1
  <1>1. /\ opened \in Nat /\ issued \in Nat /\ s \in Sessions /\ j \in Tokens
        /\ \A q \in Procs : j \notin revoked[q]
    BY Ranges DEF SInv, Numbered, SignIn, OpenSession, Sessions, Tokens
  <1>2. /\ issued' = j /\ home'[s] = p /\ active'[s] /\ of'[j] = s /\ revoked' = revoked
        /\ dashboard' = dashboard \cup {s} /\ browser' = [session |-> s, token |-> j]
        /\ tab' = tab /\ waiting' = waiting
    BY <1>1 DEF SInv, TypeOK, SignIn, OpenSession
  <1>3. of' = [of EXCEPT ![j] = s] /\ of \in [Tokens -> Sessions \cup {0}]
    BY DEF SInv, TypeOK, SignIn, OpenSession
  <1>4. \A k \in 1 .. issued : k \in Tokens /\ k # j /\ of'[k] = of[k] /\ of[k] \in 1 .. opened
    BY <1>1, <1>3, Ranges DEF SInv, Numbered
  <1>5. ASSUME NEW x, PairOk(x) PROVE PairOk(x)'
    BY <1>1, <1>2, <1>4, <1>5, PairStays DEF PairOk
  <1>6. PairOk(browser)'
    BY <1>1, <1>2 DEF PairOk
  <1>7. \A u \in Tabs : tab'[u].at \in {"renewing", "renewed"} => PairOk(tab[u].pair)'
    BY <1>2, <1>5 DEF PInv, PairsAreSound, PairOk
  <1>8. \A h \in waiting' : h.token # NoToken => of'[h.token] \notin dashboard'
    BY <1>1, <1>2, <1>4, WaitingNumbers DEF PInv, PairsAreSound
  <1>9. Live(browser)'
    BY <1>1, <1>2 DEF Live
  <1> QED BY <1>6, <1>7, <1>8, <1>9 DEF PInv, PairsAreSound, PairIsCurrent

\* A token is revoked by a renewal only with the stored pair's renewal on its way.
LEMMA RotatePInv ==
  ASSUME SInv, SInv', PInv, NEW p \in Procs, NEW j \in Tokens, Redeemable(p, j), Rotate(p, j),
         UNCHANGED <<lapsed, waiting, browser>>, OnItsWay => OnItsWay',
         \A t \in Tabs : tab'[t].at \in {"renewing", "renewed"} =>
                           tab[t].at \in {"renewing", "renewed"} /\ tab'[t].pair = tab[t].pair,
         browser # NoPair /\ of[j] = browser.session /\ browser.token = j => OnItsWay'
  PROVE  PInv'
  <1>1. /\ issued \in Nat /\ issued' = issued + 1 /\ of' = [of EXCEPT ![issued + 1] = of[j]]
        /\ of \in [Tokens -> Sessions \cup {0}] /\ revoked \in [Procs -> SUBSET Tokens]
        /\ revoked' = [revoked EXCEPT ![p] = @ \cup {j}]
        /\ home' = home /\ active' = active /\ dashboard' = dashboard /\ ended' = ended
        /\ forsaken' = forsaken
    BY Ranges DEF SInv, TypeOK, Rotate
  <1>2. \A k \in 1 .. issued : k \in Tokens /\ of'[k] = of[k]
    BY <1>1, Ranges DEF SInv
  <1>3. ASSUME NEW x, PairOk(x) PROVE PairOk(x)'
    BY <1>1, <1>2, <1>3, PairStays DEF PairOk
  <1>4. PairsAreSound'
    <2>1. browser' # NoPair => PairOk(browser)'
      BY <1>3 DEF PInv, PairsAreSound, PairOk
    <2>2. \A t \in Tabs : tab'[t].at \in {"renewing", "renewed"} => PairOk(tab[t].pair)'
      <3>1. \A t \in Tabs : tab'[t].at \in {"renewing", "renewed"} =>
              PairOk(tab[t].pair) /\ tab'[t].pair = tab[t].pair
        BY DEF PInv, PairsAreSound
      <3> QED BY <1>3, <3>1 DEF PairOk
    <2>3. \A h \in waiting' : h.token # NoToken => of'[h.token] \notin dashboard'
      BY <1>1, <1>2, WaitingNumbers DEF PInv, PairsAreSound
    <2> QED BY <2>1, <2>2, <2>3 DEF PairsAreSound
  <1>5. PairIsCurrent'
    <2>1. CASE browser = NoPair
      BY <2>1 DEF PairIsCurrent
    <2>2. CASE browser # NoPair /\ browser.token = j
      <3>1. OnItsWay'
        BY <2>2 DEF PInv, PairsAreSound, PairOk
      <3> QED BY <3>1 DEF PairIsCurrent
    <2>3. CASE browser # NoPair /\ browser.token # j
      <3>1. browser.token \notin revoked[home[browser.session]] =>
              browser.token \notin revoked'[home[browser.session]] \/ home[browser.session] = Nowhere
        <4>1. browser.session \in Sessions
          BY <2>3 DEF PInv, PairsAreSound, PairOk, SInv, TypeOK
        <4>2. home[browser.session] \in Procs \cup {Nowhere}
          BY <4>1 DEF SInv, TypeOK
        <4> QED BY <1>1, <2>3, <4>2
      <3> QED BY <1>1, <2>3, <3>1, CurrentStays DEF PInv, Live
    <2> QED BY <2>1, <2>2, <2>3
  <1> QED BY <1>4, <1>5 DEF PInv

\* A review that ends other sessions leaves the stored token alone: the token in a logout's
\* body is none of the browser's.
LEMMA EndPInv ==
  ASSUME SInv, SInv', PInv, NEW h \in waiting, EndApproved(h)
  PROVE  PInv'
  <1>1. /\ \A s \in Sessions : active'[s] <=> active[s] /\ s \notin Targets(h)
        /\ ended' = ended \cup Targets(h) /\ waiting' \subseteq waiting
        /\ UNCHANGED <<issued, home, of, dashboard, lapsed, browser, tab, forsaken>>
    BY DEF EndApproved, clocks
  <1>2. PairsAreSound'
    BY <1>1 DEF PInv, PairsAreSound, PairOk
  <1>3. OnItsWay => OnItsWay'
    BY <1>1 DEF OnItsWay
  <1>4. CASE browser = NoPair
    BY <1>1, <1>2, <1>4 DEF PInv, PairIsCurrent
  <1>5. CASE browser # NoPair
    <2> DEFINE s == browser.session
               j == browser.token
    <2>1. s \in dashboard /\ s \in Sessions /\ of[j] = s
      BY <1>5 DEF PInv, PairsAreSound, PairOk, SInv, TypeOK
    <2>2. CASE s \in Targets(h)
      <3>1. s \in ended'
        BY <1>1, <2>2
      <3> QED BY <1>1, <1>2, <3>1 DEF PInv, PairIsCurrent
    <2>3. CASE s \notin Targets(h)
      <3>1. \A q \in Targets(h) : jti[q] # j
        BY <2>1, <2>3, TargetTokens
      <3>2. h.token # NoToken => h.token # j
        BY <2>1 DEF PInv, PairsAreSound
      <3>3. \A k \in {jti[q] : q \in Targets(h)}
                      \cup {l \in {h.token} : l # NoToken /\ of[l] \notin lapsed} : k # j
        BY <3>1, <3>2
      <3>4. home[s] \in Procs \cup {Nowhere} /\ revoked \in [Procs -> SUBSET Tokens]
        BY <2>1 DEF SInv, TypeOK
      <3>5. j \notin revoked[home[s]] => j \notin revoked'[home[s]] \/ home[s] = Nowhere
        BY <3>3, <3>4 DEF EndApproved
      <3>6. active[s] => active'[s]
        BY <1>1, <2>1, <2>3
      <3> HIDE DEF s, j
      <3>7. PairIsCurrent'
        BY <1>1, <1>3, <1>5, <3>5, <3>6, CurrentStays DEF PInv, Live, s, j
      <3> QED BY <1>2, <3>7 DEF PInv
    <2> QED BY <2>2, <2>3
  <1> QED BY <1>4, <1>5

\* A restart loses the session, or touches neither it nor its revocation list.
LEMMA RestartPInv ==
  ASSUME SInv, SInv', PInv, NEW p \in Procs, Restart(p)
  PROVE  PInv'
  <1>1. /\ home' = [s \in Sessions |-> IF home[s] = p THEN Nowhere ELSE home[s]]
        /\ revoked' = [revoked EXCEPT ![p] = {}] /\ waiting' \subseteq waiting
        /\ UNCHANGED <<issued, active, of, dashboard, lapsed, browser, tab, ended, forsaken>>
    BY DEF Restart, history
  <1>2. PairsAreSound'
    BY <1>1 DEF PInv, PairsAreSound, PairOk
  <1>3. OnItsWay => OnItsWay'
    BY <1>1 DEF OnItsWay
  <1>4. CASE browser = NoPair
    BY <1>1, <1>2, <1>4 DEF PInv, PairIsCurrent
  <1>5. CASE browser # NoPair
    <2>1. browser.session \in Sessions
      BY <1>5 DEF PInv, PairsAreSound, PairOk, SInv, TypeOK
    <2>2. home[browser.session] \in Procs \cup {Nowhere} /\ revoked \in [Procs -> SUBSET Tokens]
      BY <2>1 DEF SInv, TypeOK
    <2>3. \/ home'[browser.session] = Nowhere
          \/ /\ home'[browser.session] = home[browser.session]
             /\ revoked'[home[browser.session]] = revoked[home[browser.session]]
      BY <1>1, <2>1, <2>2
    <2>4. PairIsCurrent'
      BY <1>1, <1>3, <1>5, <2>3, CurrentStays DEF PInv, Live
    <2> QED BY <1>2, <2>4 DEF PInv
  <1> QED BY <1>4, <1>5

LEMMA StepPInv == SInv /\ SInv' /\ PInv /\ [Next]_vars => PInv'
  <1> SUFFICES ASSUME SInv, SInv', PInv, [Next]_vars PROVE PInv'
    OBVIOUS
  <1>1. CASE UNCHANGED vars
    BY <1>1, QuietPInv DEF vars, clocks
  <1>2. ASSUME NEW t \in Tabs, NEW x, tab' = [tab EXCEPT ![t] = x],
               UNCHANGED <<store, clocks, waiting, browser, faults, history>>,
               tab[t].at = "asking" \/ tab[t] = Idle,
               \/ x.at \in {"idle", "asking"}
               \/ browser # NoPair /\ x = [at |-> "renewing", pair |-> browser]
        PROVE  PInv'
    <2>1. tab'[t] = x /\ \A u \in Tabs \ {t} : tab'[u] = tab[u]
      BY <1>2 DEF SInv, TypeOK
    <2>2. tab[t].at # "renewed"
      BY <1>2 DEF Idle
    <2> QED BY <1>2, <2>1, <2>2, QuietPInv DEF clocks
  <1>3. ASSUME NEW t \in Tabs, Ask(t) \/ AskLost(t) \/ \E p \in Procs : Answered(t, p) \/ Denied(t, p)
        PROVE  PInv'
    <2>1. CASE Ask(t)
      BY <1>2, <2>1 DEF Ask
    <2>2. CASE AskLost(t)
      BY <1>2, <2>2 DEF AskLost, Idle
    <2>3. ASSUME NEW p \in Procs, Answered(t, p) PROVE PInv'
      BY <1>2, <2>3 DEF Answered, Idle
    <2>4. ASSUME NEW p \in Procs, Denied(t, p) PROVE PInv'
      BY <1>2, <2>4 DEF Denied, Idle
    <2> QED BY <1>3, <2>1, <2>2, <2>3, <2>4
  <1>4. ASSUME NEW t \in Tabs, SignOut(t) PROVE PInv'
    <2>1. tab'[t] = Idle /\ \A u \in Tabs \ {t} : tab'[u] = tab[u]
      BY <1>4 DEF SInv, TypeOK, SignOut
    <2>2. PairsAreSound'
      BY <1>4, <2>1 DEF PInv, PairsAreSound, PairOk, SignOut, store, Idle
    <2>3. PairIsCurrent'
      BY <1>4 DEF SignOut, PairIsCurrent
    <2> QED BY <2>2, <2>3 DEF PInv
  <1>5. ASSUME NEW t \in Tabs, RenewLost(t) \/ RenewAnswered(t) \/ \E p \in Procs : RenewDenied(t, p)
        PROVE  PInv'
    BY <1>4, <1>5 DEF RenewLost, RenewAnswered, RenewDenied
  <1>6. ASSUME NEW t \in Tabs, NEW p \in Procs, RenewServed(t, p) PROVE PInv'
    <2> DEFINE x == tab[t].pair
               y == [at |-> "renewed", proc |-> p, pair |-> x]
    <2>1. x \in Pairs /\ x.token \in Tokens /\ of[x.token] = x.session
      BY <1>6, TabKinds DEF SInv, RenewServed, PInv, PairsAreSound, PairOk
    <2>2. y.at = "renewed" /\ y.pair = x
      OBVIOUS
    <2> HIDE DEF y
    <2>3. tab'[t] = y /\ \A u \in Tabs \ {t} : tab'[u] = tab[u]
      BY <1>6 DEF SInv, TypeOK, RenewServed, y
    <2>4. tab[t].at = "renewing" /\ browser' = browser /\ waiting' = waiting /\ lapsed' = lapsed
      BY <1>6 DEF RenewServed, clocks
    <2>5. OnItsWay => OnItsWay'
      BY <2>3, <2>4 DEF OnItsWay
    <2>6. browser # NoPair /\ of[x.token] = browser.session /\ browser.token = x.token => OnItsWay'
      <3>1. browser # NoPair /\ of[x.token] = browser.session /\ browser.token = x.token => browser = x
        <4>1. browser # NoPair => browser \in Pairs
          BY DEF SInv, TypeOK
        <4>2. \A y1, y2 \in Pairs : y1.session = y2.session /\ y1.token = y2.token => y1 = y2
          BY DEF Pairs
        <4> QED BY <2>1, <4>1, <4>2
      <3> QED BY <2>2, <2>3, <2>4, <3>1 DEF OnItsWay
    <2>7. \A u \in Tabs : tab'[u].at \in {"renewing", "renewed"} =>
                            tab[u].at \in {"renewing", "renewed"} /\ tab'[u].pair = tab[u].pair
      BY <2>2, <2>3, <2>4
    <2>8. Redeemable(p, x.token) /\ Rotate(p, x.token)
      BY <1>6 DEF RenewServed
    <2> HIDE DEF x
    <2> QED BY <2>1, <2>4, <2>5, <2>6, <2>7, <2>8, RotatePInv
  <1>7. ASSUME NEW t \in Tabs, NEW p \in Procs, SignIn(t, p) PROVE PInv'
    BY <1>7, SignInPInv
  <1>8. browser # NoPair => browser.session \in dashboard /\ browser.session \in Sessions
                            /\ browser.session <= opened /\ of[browser.token] = browser.session
    <2>1. \A s \in dashboard : s \in Sessions /\ ~(s > opened)
      BY DEF SInv, TypeOK, Numbered
    <2> QED BY <2>1, Ranges DEF SInv, PInv, PairsAreSound, PairOk, Sessions
  <1>9. ASSUME NEW p \in Procs, ApiSignIn(p) PROVE PInv'
    <2>1. browser # NoPair /\ Live(browser) => active'[browser.session]
      BY <1>8, <1>9, Ranges DEF SInv, TypeOK, ApiSignIn, Live
    <2> QED BY <1>9, <2>1, OpenPInv DEF ApiSignIn, clocks, history
  <1>10. ASSUME NEW p \in Procs, NEW j \in 1 .. issued, ApiRefresh(p, j) PROVE PInv'
    <2>1. j \in Tokens /\ Redeemable(p, j) /\ Rotate(p, j) /\ of[j] \notin dashboard
          /\ UNCHANGED <<lapsed, waiting, browser, tab>>
      BY <1>10, GoodTokens DEF ApiRefresh, Redeemable, clocks
    <2>2. browser # NoPair => of[j] # browser.session
      BY <1>8, <2>1
    <2>3. OnItsWay => OnItsWay'
      BY <2>1 DEF OnItsWay
    <2> QED BY <2>1, <2>2, <2>3, RotatePInv
  <1>11. ASSUME NEW p \in Procs, NEW j \in 1 .. issued, SwitchWorkspace(p, j) PROVE PInv'
    <2>1. /\ j \in Tokens /\ of[j] \in 1 .. opened /\ of[j] \in Sessions /\ of[j] \notin dashboard
          /\ OpenSession(p) /\ dashboard' = dashboard /\ ended \subseteq ended'
          /\ UNCHANGED <<lapsed, waiting, browser, tab, forsaken>>
      BY <1>11, GoodTokens DEF SwitchWorkspace, clocks
    <2>2. of[jti[of[j]]] = of[j]
      BY <2>1 DEF SInv, Numbered
    <2>3. browser # NoPair => browser.token # j /\ browser.token # jti[of[j]]
      BY <1>8, <2>1, <2>2
    <2>4. browser # NoPair =>
            \A q \in Procs : browser.token \notin revoked'[q] \/ browser.token \in revoked[q]
      BY <1>11, <2>3 DEF SwitchWorkspace, SInv, TypeOK
    <2>5. browser # NoPair /\ Live(browser) => active'[browser.session]
      BY <1>8, <1>11, <2>1 DEF SwitchWorkspace, SInv, TypeOK, Live
    <2> QED BY <2>1, <2>4, <2>5, OpenPInv
  <1>12. ASSUME NEW p \in Procs, NEW s \in Sessions, NEW j, NEW op,
                j # NoToken => of[j] \notin dashboard,
                waiting' = waiting \cup {[proc |-> p, op |-> op, session |-> s, token |-> j]},
                UNCHANGED <<store, clocks, browser, tab, faults, history>>
         PROVE  PInv'
    <2>1. \A h \in waiting' : h \in waiting \/ h.token = j
      BY <1>12
    <2>2. PairsAreSound'
      BY <1>12, <2>1 DEF PInv, PairsAreSound, PairOk, store
    <2>3. PairIsCurrent'
      BY <1>12 DEF PInv, PairIsCurrent, Live, OnItsWay, store, clocks, history
    <2> QED BY <2>2, <2>3 DEF PInv
  <1>13. ASSUME NEW p \in Procs, NEW s \in Sessions, NEW j \in 0 .. issued,
                NEW op \in {"one", "all"}, BeginLogout(p, s, j, op)
         PROVE  PInv'
    BY <1>12, <1>13 DEF BeginLogout
  <1>14. ASSUME NEW p \in Procs, NEW s \in Sessions, NEW a \in Sessions, BeginRevoke(p, a, s)
         PROVE  PInv'
    BY <1>12, <1>14 DEF BeginRevoke
  <1>15. ASSUME NEW h \in waiting, EndApproved(h) PROVE PInv'
    BY <1>15, EndPInv
  <1>16. ASSUME NEW h \in waiting, EndDenied(h) PROVE PInv'
    BY <1>16, QuietPInv DEF EndDenied, clocks
  <1>17. ASSUME NEW s \in Sessions, Lapse(s) \/ Age(s) PROVE PInv'
    BY <1>17, QuietPInv DEF Lapse, Age
  <1>18. ASSUME NEW p \in Procs, Restart(p) PROVE PInv'
    BY <1>18, RestartPInv
  <1>19. ASSUME NEW t \in Tabs, TabGone(t) PROVE PInv'
    <2>1. /\ tab'[t] = Idle /\ \A u \in Tabs \ {t} : tab'[u] = tab[u]
          /\ UNCHANGED <<store, lapsed, waiting, browser, ended>> /\ forsaken \subseteq forsaken'
      BY <1>19 DEF SInv, TypeOK, TabGone, clocks
    <2>2. PairsAreSound'
      BY <2>1 DEF PInv, PairsAreSound, PairOk, store, Idle
    <2>3. tab[t].at = "renewed" /\ tab[t].pair = browser => browser.token \in forsaken'
      BY <1>19 DEF TabGone
    <2>4. OnItsWay => OnItsWay' \/ browser.token \in forsaken'
      BY <2>1, <2>3 DEF OnItsWay
    <2>5. PairIsCurrent'
      BY <2>1, <2>4 DEF PInv, PairIsCurrent, Live, store
    <2> QED BY <2>2, <2>5 DEF PInv
  <1> QED BY <1>1, <1>3, <1>5, <1>6, <1>7, <1>9, <1>10, <1>11, <1>13, <1>14, <1>15, <1>16, <1>17,
          <1>18, <1>19 DEF Next, Browser, Clients

-----------------------------------------------------------------------------
(* The theorems *)

\* The store of every process, the browser and the tabs keep their types.
THEOREM TypeCorrect == Spec => []TypeOK
  BY SpecSInv, PTL DEF SInv

\* A session that was ended on purpose is accepted by no process, ever.
THEOREM EndedFinal == Spec => []EndedIsFinal
  <1>1. SInv => EndedIsFinal
    BY DEF SInv, EndedIsInactive, EndedIsFinal, Known
  <1> QED BY <1>1, SpecSInv, PTL

\* No refresh token is redeemed twice, in one process or in two, before or after a restart.
THEOREM TokensAreSingleUse == Spec => []SingleUse
  BY SpecSInv, PTL DEF SInv

\* At most one refresh token of a session is good for anything.
THEOREM OneGoodToken == Spec => []OneTokenPerSession
  <1>1. SInv => OneTokenPerSession
    <2> SUFFICES ASSUME SInv, NEW s \in Sessions
                 PROVE  Cardinality({j \in Tokens : of[j] = s /\ \E p \in Procs : Switchable(p, j)}) <= 1
      BY DEF OneTokenPerSession
    <2> DEFINE Good == {j \in Tokens : of[j] = s /\ \E p \in Procs : Switchable(p, j)}
    <2>1. Good \subseteq {jti[s]}
      BY DEF SInv, SpentIsRevoked, Switchable, Known
    <2>2. IsFiniteSet({jti[s]}) /\ Cardinality({jti[s]}) = 1
      BY FS_Singleton
    <2>3. Cardinality(Good) <= Cardinality({jti[s]})
      BY <2>1, <2>2, FS_Subset
    <2> QED BY <2>2, <2>3
  <1> QED BY <1>1, SpecSInv, PTL

\* The pair the browser stores is the one its session accepts, while the session lives, no
\* renewal of it is on its way back, and no page went away between renewing it and storing
\* the answer.
THEOREM StoredTokenCurrent == Spec => []StoredTokenIsCurrent
  <1>1. Init => PInv
    BY DEF Init, PInv, PairsAreSound, PairIsCurrent, Idle
  <1>2. SInv /\ PInv => StoredTokenIsCurrent
    <2> SUFFICES ASSUME SInv, PInv, browser # NoPair
                 PROVE  \/ browser.session \in ended
                        \/ home[browser.session] = Nowhere
                        \/ Switchable(home[browser.session], browser.token)
                           \/ browser.session \in lapsed
                        \/ \E t \in Tabs : tab[t].at = "renewed" /\ tab[t].pair = browser
                        \/ browser.token \in forsaken
      BY DEF StoredTokenIsCurrent
    <2>1. PairOk(browser)
      BY DEF PInv, PairsAreSound
    <2> QED BY <2>1 DEF PInv, PairIsCurrent, PairOk, Live, OnItsWay, Switchable, Known
  <1> QED BY <1>1, <1>2, SpecSInv, StepPInv, PTL DEF Spec

-----------------------------------------------------------------------------
(* The stores act like one *)

\* Session s has a token that is good.
HasGood(s) == /\ s \in 1 .. opened /\ active[s] /\ s \notin lapsed
              /\ home[s] \in Procs /\ jti[s] \notin revoked[home[s]]

good == [s \in Sessions |-> IF Renewable(s) THEN jti[s] ELSE NoToken]

LEMMA RenewableIs ==
  /\ SInv => \A s \in Sessions : Renewable(s) <=> HasGood(s)
  /\ SInv' => \A s \in Sessions : Renewable(s)' <=> HasGood(s)'
  <1>1. SInv => \A s \in Sessions : Renewable(s) <=> HasGood(s)
    <2> SUFFICES ASSUME SInv, NEW s \in Sessions PROVE Renewable(s) <=> HasGood(s)
      OBVIOUS
    <2>1. CASE s \in 1 .. opened
      BY <2>1 DEF SInv, Numbered, Renewable, HasGood, Redeemable, Switchable, Known
    <2>2. CASE s \notin 1 .. opened
      <3>1. home[s] = Nowhere
        BY <2>2 DEF SInv, TypeOK, Numbered, Sessions
      <3> QED BY <2>2, <3>1, SessionsAssumption DEF Renewable, HasGood, Known
    <2> QED BY <2>1, <2>2
  <1>2. SInv' => \A s \in Sessions : Renewable(s)' <=> HasGood(s)'
    <2> SUFFICES ASSUME SInv', NEW s \in Sessions PROVE Renewable(s)' <=> HasGood(s)'
      OBVIOUS
    <2>1. CASE s \in 1 .. opened'
      BY <2>1 DEF SInv, Numbered, Renewable, HasGood, Redeemable, Switchable, Known
    <2>2. CASE s \notin 1 .. opened'
      <3>1. home'[s] = Nowhere
        BY <2>2 DEF SInv, TypeOK, Numbered, Sessions
      <3> QED BY <2>2, <3>1, SessionsAssumption DEF Renewable, HasGood, Known
    <2> QED BY <2>1, <2>2
  <1> QED BY <1>1, <1>2

LEMMA GoodIs ==
  ASSUME SInv, SInv'
  PROVE  /\ \A s \in Sessions : good[s] = IF HasGood(s) THEN jti[s] ELSE NoToken
         /\ \A s \in Sessions : good'[s] = IF HasGood(s)' THEN jti'[s] ELSE NoToken
  BY RenewableIs DEF good

\* Only a session that was opened lapses.
LapsedWereOpen == \A s \in lapsed : s \in 1 .. opened

LEMMA SpecLapsed == Spec => []LapsedWereOpen
  <1>1. Init => LapsedWereOpen
    BY DEF Init, LapsedWereOpen
  <1>2. TypeOK /\ LapsedWereOpen /\ [Next]_vars => LapsedWereOpen'
    <2> SUFFICES ASSUME TypeOK, LapsedWereOpen, [Next]_vars
                 PROVE  LapsedWereOpen'
      OBVIOUS
    <2>1. opened \in Nat /\ (opened' = opened \/ opened' = opened + 1)
      BY Ranges DEF Next, Browser, Clients, SignIn, Ask, Answered, Denied, AskLost, RenewServed,
         RenewDenied, RenewLost, RenewAnswered, TabGone, SignOut, ApiSignIn, ApiRefresh, SwitchWorkspace,
         BeginLogout, BeginRevoke, EndApproved, EndDenied, Lapse, Age, Restart, OpenSession,
         Rotate, store, vars
    <2>2. lapsed' = lapsed \/ \E s \in Sessions : s <= opened /\ lapsed' = lapsed \cup {s}
      BY DEF Next, Browser, Clients, SignIn, Ask, Answered, Denied, AskLost, RenewServed,
         RenewDenied, RenewLost, RenewAnswered, TabGone, SignOut, ApiSignIn, ApiRefresh, SwitchWorkspace,
         BeginLogout, BeginRevoke, EndApproved, EndDenied, Lapse, Age, Restart, clocks, vars
    <2> QED BY <2>1, <2>2 DEF LapsedWereOpen, Sessions
  <1> QED BY <1>1, <1>2, SpecSInv, PTL DEF Spec, SInv

\* A step that hands out nothing and makes no token good withdraws some tokens, or none.
LEMMA WithdrawStep ==
  ASSUME SInv, SInv', UNCHANGED <<opened, issued, jti, uses>>,
         \A s \in Sessions : HasGood(s)' => HasGood(s)
  PROVE  OneStore!OneStoreNext
  <1>1. PICK lost \in SUBSET Sessions : lost = {s \in Sessions : good'[s] = NoToken}
    OBVIOUS
  <1>2. good' = [s \in Sessions |-> IF s \in lost THEN NoToken ELSE good[s]]
    <2>1. \A s \in Sessions : good'[s] = IF s \in lost THEN NoToken ELSE good[s]
      BY <1>1, GoodIs
    <2> QED BY <2>1 DEF good
  <1>3. OneStore!Withdraw(lost)
    BY <1>2 DEF OneStore!Withdraw, good
  <1> QED BY <1>3 DEF OneStore!OneStoreNext

LEMMA OpenStep ==
  ASSUME SInv, SInv', LapsedWereOpen, NEW p \in Procs, OpenSession(p),
         active' = [active EXCEPT ![opened + 1] = TRUE],
         UNCHANGED <<revoked, lapsed, uses>>
  PROVE  OneStore!OneStoreNext
  <1>1. PICK n \in Sessions, k \in Tokens : n = opened + 1 /\ k = issued + 1
    BY Ranges DEF SInv, OpenSession, Sessions, Tokens
  <1>2. /\ n \notin 1 .. opened /\ 1 .. opened' = 1 .. opened \cup {n}
        /\ k \notin 1 .. issued /\ 1 .. issued' = 1 .. issued \cup {k}
    BY <1>1, Ranges DEF SInv, OpenSession
  <1>3. /\ home'[n] = p /\ active'[n] /\ jti'[n] = k
        /\ \A s \in Sessions \ {n} : home'[s] = home[s] /\ active'[s] = active[s] /\ jti'[s] = jti[s]
    BY <1>1 DEF SInv, TypeOK, OpenSession
  <1>4. k \notin revoked'[p] /\ n \notin lapsed'
    BY <1>1, <1>2 DEF SInv, TypeOK, Numbered, LapsedWereOpen
  <1>5. good'[n] = k
    BY <1>2, <1>3, <1>4, GoodIs DEF HasGood
  <1>6. \A s \in Sessions \ {n} : good'[s] = good[s]
    BY <1>2, <1>3, GoodIs DEF HasGood
  <1>7. good' = [good EXCEPT ![n] = k]
    BY <1>5, <1>6 DEF good
  <1>8. OneStore!SignsIn(n, k)
    BY <1>2, <1>7 DEF OneStore!SignsIn, OneStore!Begin, good
  <1> QED BY <1>8 DEF OneStore!OneStoreNext

LEMMA RefreshStep ==
  ASSUME SInv, SInv', NEW p \in Procs, NEW j, Redeemable(p, j), Rotate(p, j), lapsed' = lapsed
  PROVE  OneStore!OneStoreNext
  <1>1. PICK k \in Tokens : k = issued + 1
    BY Ranges DEF SInv, Rotate, Tokens
  <1>2. k \notin 1 .. issued /\ 1 .. issued' = 1 .. issued \cup {k} /\ j \in 1 .. issued /\ j \in Tokens
    BY <1>1, Ranges DEF SInv, Rotate, Redeemable, Switchable
  <1>3. PICK s \in Sessions : s = of[j] /\ s \in 1 .. opened
    BY <1>2, Ranges DEF SInv, Numbered
  <1>4. HasGood(s) /\ jti[s] = j
    BY <1>3 DEF HasGood, Redeemable, Switchable, Known
  <1>5. good[s] = j /\ j # NoToken
    BY <1>2, <1>4, GoodIs DEF NoToken
  <1>6. /\ jti'[s] = k /\ revoked'[p] = revoked[p] \cup {j}
        /\ \A q \in Procs \ {p} : revoked'[q] = revoked[q]
        /\ \A r \in Sessions \ {s} : jti'[r] = jti[r]
        /\ UNCHANGED <<opened, home, active, lapsed>>
    BY <1>1, <1>3 DEF SInv, TypeOK, Rotate
  <1>7. home[s] = p /\ k \notin revoked'[p]
    <2>1. k \notin revoked[p]
      BY <1>1, Ranges DEF SInv, Numbered
    <2> QED BY <1>2, <1>3, <1>6, <2>1 DEF Redeemable, Switchable, Known
  <1>8. good'[s] = k
    BY <1>4, <1>6, <1>7, GoodIs DEF HasGood
  <1>9. \A r \in Sessions \ {s} : good'[r] = good[r]
    <2> SUFFICES ASSUME NEW r \in Sessions \ {s} PROVE HasGood(r)' <=> HasGood(r)
      BY <1>6, GoodIs
    <2>1. r \in 1 .. opened => jti[r] # j
      BY <1>3 DEF SInv, Numbered
    <2> QED BY <1>6, <2>1 DEF HasGood
  <1>10. good' = [good EXCEPT ![s] = k]
    BY <1>8, <1>9 DEF good
  <1>11. OneStore!Refresh(s, k)
    BY <1>2, <1>5, <1>6, <1>10 DEF OneStore!Refresh, OneStore!Redeem, Rotate, good
  <1> QED BY <1>11 DEF OneStore!OneStoreNext

LEMMA SwitchStep ==
  ASSUME SInv, SInv', LapsedWereOpen, NEW p \in Procs, NEW j, SwitchWorkspace(p, j)
  PROVE  OneStore!OneStoreNext
  <1>1. PICK n \in Sessions, k \in Tokens : n = opened + 1 /\ k = issued + 1
    BY Ranges DEF SInv, SwitchWorkspace, OpenSession, Sessions, Tokens
  <1>2. /\ n \notin 1 .. opened /\ 1 .. opened' = 1 .. opened \cup {n}
        /\ k \notin 1 .. issued /\ 1 .. issued' = 1 .. issued \cup {k}
        /\ j \in 1 .. issued /\ j \in Tokens
    BY <1>1, Ranges DEF SInv, SwitchWorkspace, OpenSession, Switchable
  <1>3. PICK s \in Sessions : s = of[j] /\ s \in 1 .. opened /\ s # n
    BY <1>2, Ranges DEF SInv, Numbered
  <1>4. home[s] = p /\ active[s] /\ s \notin lapsed /\ j \notin revoked[p]
    BY <1>3 DEF SwitchWorkspace, Switchable, Known
  \* switch_workspace asks less than refresh, and gets the same: a token that is not on the
  \* list of the process that holds the session is the session's own.
  <1>5. jti[s] = j
    BY <1>2, <1>3, <1>4 DEF SInv, SpentIsRevoked
  <1>6. good[s] = j /\ j # NoToken
    BY <1>2, <1>3, <1>4, <1>5, GoodIs DEF HasGood, NoToken
  <1>7. /\ home'[n] = p /\ active'[n] /\ jti'[n] = k /\ ~active'[s]
        /\ \A r \in Sessions \ {n, s} : active'[r] = active[r]
        /\ \A r \in Sessions \ {n} : home'[r] = home[r] /\ jti'[r] = jti[r]
        /\ revoked'[p] = revoked[p] \cup {j}
        /\ \A q \in Procs \ {p} : revoked'[q] = revoked[q]
        /\ lapsed' = lapsed /\ uses' = [uses EXCEPT ![j] = @ + 1]
    <2>1. /\ home' = [home EXCEPT ![n] = p] /\ jti' = [jti EXCEPT ![n] = k]
          /\ active' = [active EXCEPT ![s] = FALSE, ![n] = TRUE]
          /\ revoked' = [revoked EXCEPT ![p] = @ \cup {j, j}]
          /\ lapsed' = lapsed /\ uses' = [uses EXCEPT ![j] = @ + 1]
      BY <1>1, <1>3, <1>5 DEF SwitchWorkspace, OpenSession, clocks
    <2> QED BY <2>1, <1>3 DEF SInv, TypeOK
  <1>8. k \notin revoked'[p] /\ n \notin lapsed'
    BY <1>1, <1>2, <1>7 DEF SInv, TypeOK, Numbered, LapsedWereOpen
  <1>9. good'[n] = k /\ good'[s] = NoToken
    BY <1>2, <1>7, <1>8, GoodIs DEF HasGood
  <1>10. \A r \in Sessions \ {n, s} : good'[r] = good[r]
    <2> SUFFICES ASSUME NEW r \in Sessions \ {n, s} PROVE HasGood(r)' <=> HasGood(r)
      BY <1>7, GoodIs
    <2>1. r \in 1 .. opened => jti[r] # j
      BY <1>3 DEF SInv, Numbered
    <2> QED BY <1>2, <1>7, <2>1 DEF HasGood
  <1>11. good' = [good EXCEPT ![s] = NoToken, ![n] = k]
    BY <1>3, <1>9, <1>10 DEF good
  <1>12. OneStore!Switch(s, n, k)
    BY <1>2, <1>6, <1>7, <1>11 DEF OneStore!Switch, OneStore!Redeem, OneStore!Begin, good
  <1> QED BY <1>12 DEF OneStore!OneStoreNext

\* The other steps make no token good.
LEMMA OtherSteps ==
  ASSUME SInv, SInv',
         \/ \E t \in Tabs : \/ Ask(t) \/ AskLost(t) \/ RenewLost(t) \/ RenewAnswered(t) \/ TabGone(t)
                            \/ \E p \in Procs : Answered(t, p) \/ Denied(t, p) \/ RenewDenied(t, p)
         \/ \E p \in Procs, s \in Sessions :
              \/ \E j \in 0 .. issued, op \in {"one", "all"} : BeginLogout(p, s, j, op)
              \/ \E a \in Sessions : BeginRevoke(p, a, s)
         \/ \E h \in waiting : EndApproved(h) \/ EndDenied(h)
         \/ \E s \in Sessions : Lapse(s) \/ Age(s)
         \/ \E p \in Procs : Restart(p)
         \/ UNCHANGED vars
  PROVE  OneStore!OneStoreNext
  <1>1. CASE UNCHANGED <<store, uses>> /\ lapsed \subseteq lapsed'
    BY <1>1, WithdrawStep DEF store, HasGood
  <1>2. ASSUME NEW h \in waiting, EndApproved(h)
        PROVE  OneStore!OneStoreNext
    <2>1. /\ UNCHANGED <<opened, issued, jti, uses, home, lapsed>>
          /\ \A s \in Sessions : active'[s] => active[s]
          /\ \A q \in Procs : revoked[q] \subseteq revoked'[q]
      BY <1>2 DEF SInv, TypeOK, EndApproved, clocks
    <2> QED BY <2>1, WithdrawStep, Ranges DEF HasGood, SInv
  <1>3. ASSUME NEW p \in Procs, Restart(p)
        PROVE  OneStore!OneStoreNext
    <2>1. /\ UNCHANGED <<opened, issued, jti, uses, active, lapsed>>
          /\ \A s \in Sessions : home'[s] = IF home[s] = p THEN Nowhere ELSE home[s]
          /\ \A q \in Procs \ {p} : revoked'[q] = revoked[q]
      BY <1>3 DEF SInv, TypeOK, Restart, history
    <2> QED BY <2>1, WithdrawStep, SessionsAssumption DEF HasGood
  <1>4. CASE \/ \E t \in Tabs : \/ Ask(t) \/ AskLost(t) \/ RenewLost(t) \/ RenewAnswered(t) \/ TabGone(t)
                               \/ \E p \in Procs : Answered(t, p) \/ Denied(t, p) \/ RenewDenied(t, p)
             \/ \E p \in Procs, s \in Sessions :
                  \/ \E j \in 0 .. issued, op \in {"one", "all"} : BeginLogout(p, s, j, op)
                  \/ \E a \in Sessions : BeginRevoke(p, a, s)
             \/ \E h \in waiting : EndDenied(h)
             \/ \E s \in Sessions : Lapse(s) \/ Age(s)
             \/ UNCHANGED vars
    BY <1>4, <1>1 DEF Ask, AskLost, RenewLost, RenewAnswered, TabGone, SignOut, Answered, Denied, RenewDenied,
                      BeginLogout, BeginRevoke, EndDenied, Lapse, Age, vars, clocks, history
  <1> QED BY <1>2, <1>3, <1>4

\* The session stores of any number of processes, with their separate revocation lists, act
\* like one store in which a session has one good token: whatever is redeemed is that token.
THEOREM StoresActAsOne == Spec => ActsAsOneStore
  <1>1. Init => OneStore!OneStoreInit
    <2> SUFFICES ASSUME Init PROVE OneStore!OneStoreInit
      OBVIOUS
    <2>1. \A s \in Sessions : ~Renewable(s)
      BY DEF Init, Renewable, Known
    <2>2. 1 .. opened = {} /\ 1 .. issued = {}
      BY DEF Init
    <2> QED BY <2>1, <2>2 DEF Init, OneStore!OneStoreInit
  <1>2. SInv /\ SInv' /\ LapsedWereOpen /\ [Next]_vars
          => [OneStore!OneStoreNext]_(OneStore!oneStoreVars)
    <2> SUFFICES ASSUME SInv, SInv', LapsedWereOpen, [Next]_vars
                 PROVE  OneStore!OneStoreNext
      OBVIOUS
    <2>1. ASSUME NEW t \in Tabs, NEW p \in Procs, SignIn(t, p)
          PROVE  OneStore!OneStoreNext
      BY <2>1, OpenStep DEF SignIn, clocks, history
    <2>2. ASSUME NEW p \in Procs, ApiSignIn(p)
          PROVE  OneStore!OneStoreNext
      BY <2>2, OpenStep DEF ApiSignIn, clocks, history
    <2>3. ASSUME NEW t \in Tabs, NEW p \in Procs, RenewServed(t, p)
          PROVE  OneStore!OneStoreNext
      BY <2>3, RefreshStep DEF RenewServed, clocks
    <2>4. ASSUME NEW p \in Procs, NEW j \in 1 .. issued, ApiRefresh(p, j)
          PROVE  OneStore!OneStoreNext
      BY <2>4, RefreshStep DEF ApiRefresh, clocks
    <2>5. ASSUME NEW p \in Procs, NEW j \in 1 .. issued, SwitchWorkspace(p, j)
          PROVE  OneStore!OneStoreNext
      BY <2>5, SwitchStep
    <2> QED BY <2>1, <2>2, <2>3, <2>4, <2>5, OtherSteps DEF Next, Browser, Clients
  <1> QED BY <1>1, <1>2, SpecSInv, SpecLapsed, PTL DEF Spec, ActsAsOneStore, OneStore!OneStoreSpec
=============================================================================
