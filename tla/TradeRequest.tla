---------------------------- MODULE TradeRequest ----------------------------
(***************************************************************************)
(* What the trader promises of a request for a trade: it is posted at most *)
(* once, with parameters that are fixed before, and it ends in success     *)
(* only after an answer to that post.  Trader implements it; TradePath     *)
(* puts it at the head of the path to the databases.                       *)
(***************************************************************************)
CONSTANT Trades

VARIABLES
  phase,        \* per request: where it is
  bad           \* requests with negative shares and price

requestVars == <<phase, bad>>

Phases == {"new", "post", "waiting", "ok", "failed"}

RequestInit == phase = [t \in Trades |-> "new"] /\ bad = {}

Becomes(t, from, to) == phase[t] = from /\ phase' = [phase EXCEPT ![t] = to]

Decide(t)   == Becomes(t, "new", "post") /\ bad' \in {bad, bad \cup {t}}
Post(t)     == Becomes(t, "post", "waiting") /\ UNCHANGED bad
Answered(t) == Becomes(t, "waiting", "ok") /\ UNCHANGED bad

\* At any time, and then for good.
Fail(t) == \E from \in {"new", "post", "waiting"} : Becomes(t, from, "failed") /\ UNCHANGED bad

RequestNext == \E t \in Trades : Decide(t) \/ Post(t) \/ Answered(t) \/ Fail(t)

RequestSpec == RequestInit /\ [][RequestNext]_requestVars
=============================================================================
