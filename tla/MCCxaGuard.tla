----------------------------- MODULE MCCxaGuard -----------------------------
(* CxaGuard on a few threads and statics.                                  *)
EXTENDS CxaGuard, TLC

Symmetry == Permutations(Threads) \cup Permutations(Guards)
=============================================================================
