---------------------------- MODULE MCTradeRelay ----------------------------
(* TradeRelay for TLC: two processes of one group, the old and the new one *)
(* of a rolling update.                                                    *)
EXTENDS TradeRelay
=============================================================================
