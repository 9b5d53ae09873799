------------------------------ MODULE MCTrader ------------------------------
(* Trader for TLC: three requests for one symbol, so that one can reset or *)
(* fill the average that two others work on, a window of one price, which  *)
(* the second price overflows, and one reset.                              *)
EXTENDS Trader, TLC

MCSymmetry == Permutations(Trades)
=============================================================================
