------------------------------ MODULE MCElbApp ------------------------------
(* ElbApp for TLC: two load balancers, so that the flushers visit one      *)
(* after the other and one can drain while another still serves.           *)
EXTENDS ElbApp, TLC

MCSymmetry == Permutations(Requests)
=============================================================================
