---------------------------- MODULE QuestionDeck ----------------------------
(***************************************************************************)
(* How the controller makes the deck of a round (web/src/questions.rs):     *)
(* the filter over the Open Trivia DB, the validation of all buckets and    *)
(* the weighted batches of build_deck.                                     *)
(*                                                                         *)
(* An entry of the database is [usable, fits, prompt]: usable stands for    *)
(* its kind, its number of wrong answers, its category and the blocked      *)
(* words, none of which looks at another entry.  An authored question is    *)
(* [prompt, valid]: valid stands for fits and for a correct_index that is    *)
(* one of its answers.  Which questions of a bucket come first is the       *)
(* shuffle's choice and does not matter here, so a question of the deck is  *)
(* <<bucket, position>>.  Within a batch they are shuffled again: a batch   *)
(* is a set.                                                                *)
(***************************************************************************)
EXTENDS Integers, Sequences, FiniteSets, SequencesExt, FiniteSetsExt

CONSTANTS
    Sources,       \* the databases to try: sequences of entries
    AuthoredDecks, \* the authored buckets to try: <<rust, temporal, math>>
    Maxima,        \* the deck sizes to ask for
    Pattern        \* questions of every bucket in a batch; general comes last

ASSUME DeckAssumption ==
    /\ Pattern \in [1..4 -> Nat \ {0}] /\ Maxima \subseteq Nat
    /\ \A database \in Sources : database \in Seq(ToSet(database))
    /\ \A decks \in AuthoredDecks : \A k \in 1..3 : decks[k] \in Seq(ToSet(decks[k]))

VARIABLES
    stage,      \* "filter", "deal", "fill", "shuffle", "ready", "failed"
    source,     \* entries of the database that are still to be looked at
    taken,      \* entries looked at
    seen,       \* prompts accepted so far
    general,    \* the bucket they make
    authored,
    cursors,    \* questions dealt of every bucket
    batches,    \* the deck, batch by batch
    maximum,
    options,    \* the answers of one of its questions
    correct     \* correct_index of that question

shuffleVars == <<options, correct>>
deckVars == <<stage, source, taken, seen, general, authored, cursors, batches,
              maximum, shuffleVars>>

Buckets == 1..4
General == 4

\* The answers as the source lists them, the right one first.
Answers == <<"right", "wrong 1", "wrong 2", "wrong 3">>

DeckFrom(sources, decks, maxima) ==
    /\ stage = "filter"
    /\ source \in sources /\ authored \in decks /\ maximum \in maxima
    /\ taken = <<>> /\ seen = {} /\ general = <<>>
    /\ cursors = [k \in Buckets |-> 0]
    /\ batches = <<>>
    /\ options = Answers /\ correct = 1

Bucket(k) == IF k = General THEN general ELSE authored[k]

\* deck.len()
DeckLength == SumFunction([i \in DOMAIN batches |-> Cardinality(batches[i])])

Dealt == UNION {batches[i] : i \in DOMAIN batches}

DeckInit == DeckFrom(Sources, AuthoredDecks, Maxima)
NoDeck   == DeckFrom({<<>>}, {<< <<>>, <<>>, <<>> >>}, {0})

-----------------------------------------------------------------------------
\* Faulty variant: the text is not measured.
AcceptsAnyPrompt(entry) == entry.usable /\ entry.prompt \notin seen

\* One entry of general_questions.  Only what is accepted counts as seen.
Accepts(entry) == entry.usable /\ entry.fits /\ entry.prompt \notin seen

Filter ==
    /\ stage = "filter" /\ source # <<>>
    /\ LET entry == Head(source) IN
       /\ source' = Tail(source) /\ taken' = Append(taken, entry)
       /\ IF Accepts(entry)
          THEN /\ seen' = seen \cup {entry.prompt}
               /\ general' = Append(general, [entry |-> Len(taken) + 1,
                                              prompt |-> entry.prompt])
          ELSE UNCHANGED <<seen, general>>
    /\ UNCHANGED <<stage, authored, cursors, batches, maximum, shuffleVars>>

\* The prompts of the three authored buckets and the general one, in a row.
Prompts ==
    LET written == authored[1] \o authored[2] \o authored[3]
    IN  [i \in DOMAIN written |-> written[i].prompt]
            \o [i \in DOMAIN general |-> general[i].prompt]

\* What the filter accepts is valid by construction, so only the authored
\* questions can fail the first two checks.
AuthoredValid == \A k \in 1..3 : \A i \in DOMAIN authored[k] : authored[k][i].valid

\* validate_questions
Validate ==
    /\ stage = "filter" /\ source = <<>>
    /\ stage' = IF AuthoredValid /\ IsInjective(Prompts) THEN "deal" ELSE "failed"
    /\ UNCHANGED <<source, taken, seen, general, authored, cursors, batches, maximum,
                   shuffleVars>>

\* Faulty variant: every bucket is taken from its beginning.
DrawsAfresh(k, wanted) == {<<k, i>> : i \in 1..wanted}

\* The next questions of a bucket.
Draws(k, wanted) == {<<k, i>> : i \in cursors[k] + 1..cursors[k] + wanted}

\* Faulty variant: a batch takes all there is of a category.
TakesAll(k, room) == Min({Len(Bucket(k)) - cursors[k], room})

\* How many questions a bucket gives to a batch that has room for some more.
Takes(k, room) == Min({Pattern[k], Len(Bucket(k)) - cursors[k], room})

\* What is left of the deck after the buckets before k have had their share.
Room[k \in Buckets] ==
    IF k = 1 THEN maximum - DeckLength ELSE Room[k - 1] - Takes(k - 1, Room[k - 1])

Share(k) == Takes(k, Room[k])

Batch ==
    /\ stage = "deal" /\ DeckLength < maximum
    /\ LET batch == UNION {Draws(k, Share(k)) : k \in Buckets}
       IN  IF batch = {}
           THEN stage' = "fill" /\ UNCHANGED <<batches, cursors>>
           ELSE /\ batches' = Append(batches, batch)
                /\ cursors' = [k \in Buckets |-> cursors[k] + Share(k)]
                /\ UNCHANGED stage
    /\ UNCHANGED <<source, taken, seen, general, authored, maximum, shuffleVars>>

StopDealing ==
    /\ stage = "deal" /\ DeckLength >= maximum
    /\ stage' = "fill"
    /\ UNCHANGED <<source, taken, seen, general, authored, cursors, batches, maximum,
                   shuffleVars>>

\* The loop that fills up with general questions would run.
CanFill == DeckLength < maximum /\ cursors[General] < Len(general)

\* That loop never does (DeckOrNothing), so this is all that is left.
Deliver ==
    /\ stage = "fill"
    /\ stage' = IF DeckLength = maximum THEN "shuffle" ELSE "failed"
    /\ UNCHANGED <<source, taken, seen, general, authored, cursors, batches, maximum,
                   shuffleVars>>

\* shuffle_answers: the index is that of an answer equal to the right one; the
\* deck is refused if there is none.  The questions are as valid and as different
\* as the first validation found them, so the second one adds nothing.
ShuffleAnswers ==
    /\ stage = "shuffle"
    /\ \E order \in Bijection(1..4, 1..4) : options' = [i \in 1..4 |-> options[order[i]]]
    /\ correct' = SelectInSeq(options', LAMBDA answer : answer = options[correct])
    /\ stage' = IF correct' \in DOMAIN options' THEN "ready" ELSE "failed"
    /\ UNCHANGED <<source, taken, seen, general, authored, cursors, batches, maximum>>

DeckNext == Filter \/ Validate \/ Batch \/ StopDealing \/ Deliver \/ ShuffleAnswers

-----------------------------------------------------------------------------
\* The first entry of every prompt that can be played is in the general bucket,
\* and no other: an entry that is turned down does not shadow a later one
\* (general_questions).
GeneralIsFirstOfEach ==
    LET plays(i) == taken[i].usable /\ taken[i].fits
    IN  {general[j].entry : j \in DOMAIN general} =
            {i \in DOMAIN taken : plays(i) /\
                \A h \in 1..i - 1 : plays(h) => taken[h].prompt # taken[i].prompt}

\* A question of the deck can be shown and answered.
IsValid(card) ==
    IF card[1] = General THEN taken[general[card[2]].entry].fits
                         ELSE authored[card[1]][card[2]].valid

\* A round gets as many questions as were asked for and none of them twice, each
\* of which fits the badge, with the answer the source calls correct as the one
\* that counts, and is refused only for want of questions or for an authored
\* question that is a duplicate or does not fit.  The batches alone see to that:
\* the loop that fills up with general questions never has one to take
\* (build_deck, shuffle_answers).
DeckOrNothing ==
    /\ stage = "ready" => /\ DeckLength = maximum
                          /\ Cardinality(Dealt) = maximum
                          /\ \A card \in Dealt : /\ card[2] <= Len(Bucket(card[1]))
                                                 /\ IsValid(card)
                          /\ options[correct] = "right"
                          /\ ToSet(options) = ToSet(Answers)
    /\ stage = "fill" => ~CanFill
    /\ stage = "failed" => \/ ~IsInjective(Prompts) \/ ~AuthoredValid
                           \/ Len(Prompts) < maximum

\* "Preserve the agreed category weights" (build_deck): after every full batch
\* the deck has the agreed share of every category that has not run out.
WeightsKept ==
    DeckLength < maximum /\ stage = "deal" =>
        \A k \in Buckets :
            cursors[k] = Min({Len(batches) * Pattern[k], Len(Bucket(k))})
=============================================================================
