------------------------------ MODULE PlatformMC -----------------------------
EXTENDS Platform

(* Two transactions at a time are enough for every race over one row; the  *)
(* audit trail is long enough for a row to be made, used, removed and made *)
(* again.                                                                  *)
Symmetry == Permutations(Bindings) \cup Permutations(Items)
=============================================================================
