--------------------------- MODULE SessionContract ---------------------------
(***************************************************************************)
(* What the session stores of all API processes promise together: they act *)
(* like one store.  Each session has at most one refresh token that is     *)
(* good, which is worth one redemption; redeeming it replaces it, or moves *)
(* the user to a new session; and a session without one never gets another.*)
(* The promise is silent on when a session is lost: a restart, a logout or *)
(* the clock may withdraw any number of them.                              *)
(***************************************************************************)
EXTENDS Naturals

CONSTANTS Sessions,  \* the sessions there can be
          Tokens,    \* the refresh tokens there can be
          NoToken

VARIABLES begun,    \* sessions ever begun
          granted,  \* refresh tokens ever handed out
          good,     \* the refresh token of each session that can be redeemed
          redeemed  \* how often each refresh token was redeemed

oneStoreVars == <<begun, granted, good, redeemed>>

OneStoreInit == /\ begun = {} /\ granted = {}
                /\ good = [s \in Sessions |-> NoToken]
                /\ redeemed = [j \in Tokens |-> 0]

Begin(s, j) == /\ s \notin begun /\ begun' = begun \cup {s}
               /\ j \notin granted /\ granted' = granted \cup {j}

SignsIn(s, j) == /\ Begin(s, j)
                 /\ good' = [good EXCEPT ![s] = j]
                 /\ UNCHANGED redeemed

Redeem(s) == /\ good[s] # NoToken
             /\ redeemed' = [redeemed EXCEPT ![good[s]] = @ + 1]

Refresh(s, j) == /\ Redeem(s)
                 /\ j \notin granted /\ granted' = granted \cup {j}
                 /\ good' = [good EXCEPT ![s] = j]
                 /\ UNCHANGED begun

Switch(s, n, j) == /\ Redeem(s)
                   /\ Begin(n, j)
                   /\ good' = [good EXCEPT ![s] = NoToken, ![n] = j]

Withdraw(S) == /\ good' = [s \in Sessions |-> IF s \in S THEN NoToken ELSE good[s]]
               /\ UNCHANGED <<begun, granted, redeemed>>

OneStoreNext ==
  \/ \E s \in Sessions, j \in Tokens :
       SignsIn(s, j) \/ Refresh(s, j) \/ \E n \in Sessions : Switch(s, n, j)
  \/ \E S \in SUBSET Sessions : Withdraw(S)

OneStoreSpec == OneStoreInit /\ [][OneStoreNext]_oneStoreVars
=============================================================================
