--------------------------- MODULE TokenExchange ---------------------------
(***************************************************************************)
(* What POST /auth/refresh promises about the refresh tokens of a user,    *)
(* with nothing said of Redis, locks, requests or time: a token is sold    *)
(* once, for a pair, and that pair is handed out as often as the token is  *)
(* presented in time.  Tokens whose protection lapsed are exempt.          *)
(***************************************************************************)
CONSTANTS Tokens, NotSold

VARIABLES
  sold,        \* the pair a token was traded for, or NotSold
  delivered,   \* the pairs clients received for each token
  exempt       \* the tokens about which nothing is promised any more

vars == <<sold, delivered, exempt>>

Init ==
  /\ sold = [t \in Tokens |-> NotSold]
  /\ delivered = [t \in Tokens |-> {}]
  /\ exempt = {}

Sell(t, p) ==
  /\ sold[t] = NotSold
  /\ sold' = [sold EXCEPT ![t] = p]
  /\ UNCHANGED <<delivered, exempt>>

HandOut(t) ==
  /\ sold[t] # NotSold
  /\ delivered' = [delivered EXCEPT ![t] = @ \cup {sold[t]}]
  /\ UNCHANGED <<sold, exempt>>

\* Tokens become exempt, and anything may happen to exempt ones.
Lapse ==
  /\ exempt \subseteq exempt'
  /\ \A t \in Tokens \ exempt' : sold'[t] = sold[t] /\ delivered'[t] = delivered[t]

Next ==
  \/ Lapse
  \/ \E t \in Tokens : HandOut(t) \/ \E p \in Tokens : Sell(t, p)

Spec == Init /\ [][Next]_vars
=============================================================================
