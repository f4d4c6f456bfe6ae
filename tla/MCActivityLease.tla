--------------------------- MODULE MCActivityLease ---------------------------
(***************************************************************************)
(* Two interchangeable badges and a few attempts, for TLC.                 *)
(***************************************************************************)
EXTENDS ActivityLease, TLC

Symmetry == Permutations(Badges)
=============================================================================
