------------------------------ MODULE MCHandoff ------------------------------
(***************************************************************************)
(* Small rounds for TLC.                                                   *)
(***************************************************************************)
EXTENDS Handoff, TLC

\* A round of three attempts and one of two.
TwoRounds == <<3, 2>>

Symmetry == Permutations(Badges)
=============================================================================
