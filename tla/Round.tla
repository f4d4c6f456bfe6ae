-------------------------------- MODULE Round --------------------------------
(***************************************************************************)
(* What a round promises, without its clock, deck, badges and loop: a      *)
(* ledger of questions.  A question is handed out at most once, is settled *)
(* at most once and scored at most once, only while the round runs, and    *)
(* the finished ledger never changes again.                                *)
(***************************************************************************)
EXTENDS Naturals

VARIABLES
    phase,    \* "waiting", "running", "finished"
    out,      \* questions handed out and not settled
    settled,  \* questions scored or given up
    tally     \* how many of them were scored

roundVars == <<phase, out, settled, tally>>

Init == phase = "waiting" /\ out = {} /\ settled = {} /\ tally = 0

Open ==
    /\ phase = "waiting"
    /\ phase' = "running"
    /\ UNCHANGED <<out, settled, tally>>

\* A question that was never handed out before.
HandOut ==
    /\ phase = "running"
    /\ \E q \in out' : q \notin out \cup settled /\ out' = out \cup {q}
    /\ UNCHANGED <<phase, settled, tally>>

\* Score a question or give it up.  The answer may end the round.
Settle ==
    /\ phase = "running"
    /\ \E q \in out : out' = out \ {q} /\ settled' = settled \cup {q}
    /\ tally' \in {tally, tally + 1}
    /\ phase' \in {"running", "finished"}
    /\ phase' = "finished" => tally' = tally + 1

\* Questions that are still out stay unsettled for good.
Close ==
    /\ phase = "running"
    /\ phase' = "finished"
    /\ UNCHANGED <<out, settled, tally>>

Next == Open \/ HandOut \/ Settle \/ Close

Spec == Init /\ [][Next]_roundVars
=============================================================================
