------------------------------ MODULE MCBadgeUi ------------------------------
(***************************************************************************)
(* Small badges for TLC: two questions, one or two rounds, and the samples *)
(* a player can produce: a button that answers when pressed, a side        *)
(* button, both sides, DOWN.                                               *)
(***************************************************************************)
EXTENDS BadgeUi

UpSamples    == {{}, {"up"}}
SleepSamples == {{}, {"down"}, {"left"}, {"left", "right"}}
=============================================================================
