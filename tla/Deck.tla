-------------------------------- MODULE Deck --------------------------------
(***************************************************************************)
(* The question deck of a round (web/src/workflow.rs, deal_question and    *)
(* the functions it calls).                                                *)
(*                                                                         *)
(* A card is a question of the template together with the cycle that put   *)
(* it in the deck.  The pair stands for the Activity ID: cycle 1 is the    *)
(* template's own ID, cycle N the ID with the suffix "-cycle-N".           *)
(***************************************************************************)
EXTENDS Integers, Sequences, SequencesExt

CONSTANT Rust     \* the questions whose category is "rust"

Card(question, cycle) == [question |-> question, cycle |-> cycle]

\* Faulty variant: cycles counted from zero.
FirstCycleFromZero(template) == [i \in 1..Len(template) |-> Card(template[i], 0)]

\* The template as it is dealt first, under its own IDs.
FirstCycle(template) == [i \in 1..Len(template) |-> Card(template[i], 1)]

\* Faulty variant: recycled cards keep the template's IDs.
RefillUnderOldIds(template, cycle) == FirstCycle(template)

\* The template under fresh IDs: rotated left by 97 * cycle, then reversed on
\* every even cycle.
RefillQuestionDeck(template, cycle) ==
    LET n          == Len(template)
        offset     == (97 * cycle) % n
        Rotated(i) == template[IF i + offset <= n THEN i + offset
                                                  ELSE i + offset - n]
    IN  [i \in 1..n |-> Card(Rotated(IF cycle % 2 = 0 THEN n + 1 - i ELSE i),
                             cycle)]

\* i is the position take_next_question deals from: the first card, or under
\* Rust-only the first Rust card.
IsNext(deck, rustOnly, i) ==
    LET eligible == {j \in 1..Len(deck) : rustOnly => deck[j].question \in Rust}
    IN  i \in eligible /\ \A j \in eligible : i <= j

HasNext(deck, rustOnly) == \E i \in 1..Len(deck) : IsNext(deck, rustOnly, i)

\* Faulty variant: the rule before the patch, whatever the history says.
MayRecycleOnlyEmpty(deck, template, eligibleDeckRefill) ==
    template # <<>> /\ deck = <<>>

\* Whether deal_question may copy the template under the next cycle: never
\* without a template, and before the eligible-deck-refill patch only once the
\* deck is empty.
MayRecycle(deck, template, eligibleDeckRefill) ==
    /\ template # <<>>
    /\ eligibleDeckRefill \/ deck = <<>>
=============================================================================
