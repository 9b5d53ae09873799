------------------------------ MODULE MCMonkey ------------------------------
(* Monkey for TLC: two customers, so that the dictionary of request errors *)
(* can grow while it is iterated over, and another name, for which the     *)
(* handlers boost the traffic too.                                         *)
EXTENDS Monkey
=============================================================================
