---------------------------- MODULE MCBackendPool ----------------------------
(* BackendPool for TLC: two backends, two handlers inside Next() at once.  *)
EXTENDS BackendPool, TLC

MCSymmetry == Permutations(Handlers)
=============================================================================
