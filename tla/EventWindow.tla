----------------------------- MODULE EventWindow -----------------------------
(***************************************************************************)
(* The rolling window of events on every snapshot: GameSnapshot::push_kind  *)
(* (shared/src/contract.rs).  An event is [id, kind]; every kind but Answer *)
(* is durable.                                                             *)
(***************************************************************************)
EXTENDS Integers, Sequences, FiniteSets, SequencesExt

CONSTANTS
    EVENT_WINDOW,
    MaxPushed        \* bound: events of a round

ASSUME WindowAssumption == EVENT_WINDOW \in Nat \ {0} /\ MaxPushed \in Nat

VARIABLES
    events,          \* GameSnapshot::events
    pushed           \* history: every event, in order

windowVars == <<events, pushed>>

Kinds == {"Answer", "Durable"}

WindowInit == events = <<>> /\ pushed = <<>>

IsAnswer(event) == event.kind = "Answer"

\* Faulty variant: the newest answer goes first.
VictimNewest(window) ==
    IF \E i \in DOMAIN window : IsAnswer(window[i])
    THEN SelectLastInSeq(window, IsAnswer)
    ELSE 1

\* The oldest answer, or the oldest event where there is none.
Victim(window) ==
    IF \E i \in DOMAIN window : IsAnswer(window[i])
    THEN SelectInSeq(window, IsAnswer)
    ELSE 1

Push(kind) ==
    LET event == [id |-> Len(pushed) + 1, kind |-> kind]
        grown == Append(events, event)
    IN  /\ Len(pushed) < MaxPushed
        /\ pushed' = Append(pushed, event)
        /\ events' = IF Len(grown) > EVENT_WINDOW
                     THEN RemoveAt(grown, Victim(grown))
                     ELSE grown

-----------------------------------------------------------------------------
\* The events of a kind that came after the i-th of all.
Later(kind, i) == {j \in i + 1..Len(pushed) : pushed[j].kind = kind}

\* The events that keep their place rather than the i-th: the durable ones after
\* it, and for an answer every durable one and the answers after it.
Ahead(i) ==
    IF IsAnswer(pushed[i]) THEN Later("Answer", i) \cup Later("Durable", 0)
                           ELSE Later("Durable", i)

\* However answers and durable events come in, the window holds the newest
\* durable ones, as many as it has room for, and in what they leave free the
\* newest answers, all in the order they happened: an answer never costs the
\* board a durable event (push_kind).
WindowTellsTheStory ==
    /\ ToSet(events) = {pushed[i] : i \in {j \in DOMAIN pushed :
                                              Cardinality(Ahead(j)) < EVENT_WINDOW}}
    /\ \A i, j \in DOMAIN events : i < j => events[i].id < events[j].id
=============================================================================
