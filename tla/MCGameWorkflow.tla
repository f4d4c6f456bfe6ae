--------------------------- MODULE MCGameWorkflow ---------------------------
(***************************************************************************)
(* Small rounds for TLC: two or three questions, one or two badges.        *)
(***************************************************************************)
EXTENDS GameWorkflow

MCRust == {"r1"}

\* A round as the controller starts it today.
Patched(questions, badges) ==
    [questions |-> questions, badges |-> badges, override |-> 0,
     fullBacklog |-> TRUE, eligibleRefill |-> TRUE]

\* The template has a Rust question, has none, or is empty.
DeckInputs ==
    {Patched(<<"r1", "g1">>, 1), Patched(<<"g1", "r1", "g2">>, 2),
     Patched(<<"g1">>, 1), Patched(<<>>, 1)}

\* Histories recorded before either patch, one of them with an override, and a
\* round started while no badge was polling.
ReplayInputs ==
    {[Patched(<<"r1", "g1">>, 2) EXCEPT !.override = 1, !.eligibleRefill = FALSE],
     [Patched(<<"r1", "g1">>, 2) EXCEPT !.fullBacklog = FALSE],
     Patched(<<"r1", "g1">>, 0)}

OneBadgeInputs == {Patched(<<"r1", "g1">>, 1)}
ScoreInputs == {Patched(<<"g1", "r1">>, 2)} \cup ReplayInputs

Symmetry == Permutations(Badges)
=============================================================================
