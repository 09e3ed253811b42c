------------------------- MODULE IdempotentRedemption -------------------------
(***************************************************************************)
(* What POST /entitlements/:id/redeem promises its callers about           *)
(* idempotency keys, with nothing about how it is done: a pair of an       *)
(* entitlement and a key is decided at most once while it is tracked, and  *)
(* every request that names the pair is told the decision there is, or an  *)
(* error. It is tracked for 24 hours, "after which [keys] can be reused    *)
(* safely" (questions.md:287): whether it then is decided anew or keeps    *)
(* its decision is left open. (The code never decides it anew.)            *)
(***************************************************************************)
CONSTANTS
  Entitlements, Keys, Requests

VARIABLES
  ask,        \* the pair each request names, fixed from the start
  outcome,    \* the last decision taken for each pair
  untracked,  \* the pairs decided more than 24 hours ago
  told        \* what each request has been answered

vars == <<ask, outcome, untracked, told>>

Pairs == Entitlements \X Keys
Decisions == {"success", "failure"}

Init ==
  /\ ask \in [Requests -> Pairs]
  /\ outcome = [p \in Pairs |-> "none"]
  /\ untracked = {}
  /\ told = [r \in Requests |-> "nothing"]

\* The first request of a pair settles it, for as long as it is tracked.
Decide(p) ==
  /\ outcome[p] = "none" \/ p \in untracked
  /\ \E d \in Decisions : outcome' = [outcome EXCEPT ![p] = d]
  /\ untracked' = untracked \ {p}
  /\ UNCHANGED <<ask, told>>

\* 24 hours pass.
Lapse ==
  /\ untracked' = {p \in Pairs : outcome[p] # "none"}
  /\ UNCHANGED <<ask, outcome, told>>

\* A request is told the decision taken for its own pair.
Tell(r) ==
  /\ told[r] = "nothing"
  /\ outcome[ask[r]] # "none"
  /\ told' = [told EXCEPT ![r] = outcome[ask[r]]]
  /\ UNCHANGED <<ask, outcome, untracked>>

\* A request ends in an error. Its pair may have been decided all the same:
\* the caller finds out by asking again with the same key.
Break(r) ==
  /\ told[r] = "nothing"
  /\ told' = [told EXCEPT ![r] = "error"]
  /\ UNCHANGED <<ask, outcome, untracked>>

Next ==
  \/ \E p \in Pairs : Decide(p)
  \/ Lapse
  \/ \E r \in Requests : Tell(r) \/ Break(r)

Spec == Init /\ [][Next]_vars
===============================================================================
