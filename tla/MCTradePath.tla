---------------------------- MODULE MCTradePath -----------------------------
(* TradePath for TLC: two trades of one symbol, one of them for the canary *)
(* recorder, and one process of processor-in that may be upset once.       *)
EXTENDS TradePath

\* Bound of the exploration: by the time a record is in the topic, the trader has had
\* its answer or given up.  An answer that comes later changes nothing but the phase.
SettledBefore == \A t \in ToSet(topic) : phase[t] # "waiting"
=============================================================================
