------------------------- MODULE GameWorkflow_proofs -------------------------
(***************************************************************************)
(* Proofs about GameWorkflow, for every set of badges, every template and  *)
(* every choice of the durations.                                          *)
(***************************************************************************)
EXTENDS GameWorkflow, Data_proofs

-----------------------------------------------------------------------------
(***************************************************************************)
(* The operators of Deck.                                                  *)
(***************************************************************************)
CardsOf(template, cycle) == {Card(q, cycle) : q \in ToSet(template)}

\* The rotation offset is a position of the template.
LEMMA OffsetInRange ==
    ASSUME NEW n \in Nat \ {0}, NEW c \in Nat
    PROVE  (97 * c) % n \in 0..(n - 1)
OBVIOUS

\* A refill holds every question of the template exactly once, under the new
\* cycle: rotating and reversing permute the template, they lose nothing.
LEMMA RefillIsAPermutation ==
    ASSUME NEW Q, NEW template \in Seq(Q), IsInjective(template),
           NEW cycle \in Nat \ {0}
    PROVE  /\ RefillQuestionDeck(template, cycle) \in Seq([question : Q, cycle : Nat \ {0}])
           /\ ToSet(RefillQuestionDeck(template, cycle)) = CardsOf(template, cycle)
           /\ IsInjective(RefillQuestionDeck(template, cycle))
<1> DEFINE n == Len(template)
           offset == (97 * cycle) % n
           rot(i) == IF i + offset <= n THEN i + offset ELSE i + offset - n
           pos(i) == rot(IF cycle % 2 = 0 THEN n + 1 - i ELSE i)
           r == RefillQuestionDeck(template, cycle)
<1>1. r = [i \in 1..n |-> Card(template[pos(i)], cycle)]
  BY DEF RefillQuestionDeck
<1>2. n \in Nat /\ DOMAIN template = 1..n
  OBVIOUS
<1>3. n # 0 => offset \in 0..(n - 1)
  BY <1>2, OffsetInRange
<1>4. DOMAIN r = 1..n
  BY <1>1
<1> HIDE DEF n, offset, r
<1>5. \A i \in 1..n : pos(i) \in 1..n
  BY <1>2, <1>3
<1>6. \A i, j \in 1..n : pos(i) = pos(j) => i = j
  BY <1>2, <1>3
<1>7. ASSUME NEW k \in 1..n  PROVE \E i \in 1..n : pos(i) = k
  <2> DEFINE m == IF k > offset THEN k - offset ELSE k - offset + n
  <2>1. m \in 1..n /\ rot(m) = k
    <3>1. n \in Nat /\ k \in 1..n /\ offset \in 0..(n - 1)
      BY <1>2, <1>3
    <3>2. CASE k > offset
      BY <3>1, <3>2
    <3>3. CASE k <= offset
      BY <3>1, <3>3
    <3>4. QED  BY <3>1, <3>2, <3>3
  <2>2. CASE cycle % 2 = 0
    <3>1. (n + 1 - m) \in 1..n /\ n + 1 - (n + 1 - m) = m
      BY <1>2, <2>1
    <3> HIDE DEF m
    <3>2. pos(n + 1 - m) = k
      BY <2>1, <2>2, <3>1
    <3>3. QED  BY <3>1, <3>2
  <2>3. CASE cycle % 2 # 0
    <3> HIDE DEF m
    <3>1. pos(m) = k
      BY <2>1, <2>3
    <3>2. QED  BY <2>1, <3>1
  <2>4. QED  BY <2>2, <2>3
<1> HIDE DEF rot, pos
<1>8. \A i \in 1..n : /\ r[i] = Card(template[pos(i)], cycle)
                      /\ template[pos(i)] \in Q
  BY <1>1, <1>2, <1>5
<1>9. r \in Seq([question : Q, cycle : Nat \ {0}])
  <2> DEFINE C == [question : Q, cycle : Nat \ {0}]
  <2>1. \A q \in Q : Card(q, cycle) \in C
    BY DEF Card
  <2> HIDE DEF C
  <2>2. r \in [1..n -> C]
    BY <1>1, <1>8, <2>1
  <2>3. r \in Seq(C)
    BY <1>2, <2>2
  <2>4. QED  BY <2>3 DEF C
<1>10. ToSet(r) = CardsOf(template, cycle)
  <2>1. ASSUME NEW x \in ToSet(r)  PROVE x \in CardsOf(template, cycle)
    <3>1. PICK i \in 1..n : x = r[i]
      BY <1>4, <2>1 DEF ToSet
    <3>2. template[pos(i)] \in ToSet(template)
      BY <1>2, <1>5 DEF ToSet
    <3>3. QED  BY <1>8, <3>1, <3>2 DEF CardsOf
  <2>2. ASSUME NEW x \in CardsOf(template, cycle)  PROVE x \in ToSet(r)
    <3>1. PICK k \in 1..n : x = Card(template[k], cycle)
      BY <1>2 DEF CardsOf, ToSet
    <3>2. PICK i \in 1..n : pos(i) = k
      BY <1>7
    <3>3. QED  BY <1>4, <1>8, <3>1, <3>2 DEF ToSet
  <2>3. QED  BY <2>1, <2>2
<1>11. IsInjective(r)
  <2> SUFFICES ASSUME NEW i \in 1..n, NEW j \in 1..n, r[i] = r[j]
               PROVE i = j
    BY <1>4 DEF IsInjective
  <2>1. template[pos(i)] = template[pos(j)]
    <3>1. Card(template[pos(i)], cycle) = Card(template[pos(j)], cycle)
      BY <1>8
    <3>2. \A x, y : Card(x, cycle) = Card(y, cycle) => x = y
      <4> SUFFICES ASSUME NEW x, NEW y, Card(x, cycle) = Card(y, cycle)
                   PROVE x = y
        OBVIOUS
      <4>1. Card(x, cycle).question = x /\ Card(y, cycle).question = y
        BY DEF Card
      <4>2. QED  BY <4>1
    <3>3. QED  BY <3>1, <3>2
  <2>2. pos(i) = pos(j)
    BY <1>2, <1>5, <2>1 DEF IsInjective
  <2>3. QED  BY <1>6, <2>2
<1>12. QED  BY <1>9, <1>10, <1>11 DEF r

-----------------------------------------------------------------------------
(***************************************************************************)
(* Modifiers.  ModifiersExclusive is not inductive: the validator compares *)
(* the modifiers with the time of the last sweep, not with the clock.  It  *)
(* is enough because the sweep never runs ahead of the clock and clears    *)
(* every time it passes, so a modifier that the validator no longer sees   *)
(* in force is not recorded at all.                                        *)
(***************************************************************************)
Timed(until) == until \in Nat /\ (until = Unset \/ until > lastSweep)

AtMostOneRecorded ==
    /\ ~(doubleUntil # Unset /\ rustUntil # Unset)
    /\ ~(doubleUntil # Unset /\ suddenDeath)
    /\ ~(rustUntil # Unset /\ suddenDeath)

ChaosInv ==
    /\ clock \in Nat /\ lastSweep \in Nat /\ lastSweep <= clock
    /\ Timed(doubleUntil) /\ Timed(rustUntil) /\ suddenDeath \in BOOLEAN
    /\ AtMostOneRecorded

\* What ChaosInv is about.
chaosState == <<clock, lastSweep, doubleUntil, rustUntil, suddenDeath>>

\* Each of ChaosInv's parts holds before the round starts.
LEMMA ChaosInit == Init => ChaosInv
<1> SUFFICES ASSUME Init  PROVE ChaosInv
  OBVIOUS
<1>1. /\ clock = 0 /\ lastSweep = 0
      /\ doubleUntil = Unset /\ rustUntil = Unset /\ suddenDeath = FALSE
  BY DEF Init
<1>2. Timed(doubleUntil) /\ Timed(rustUntil)
  BY <1>1 DEF Timed, Unset
<1>3. suddenDeath \in BOOLEAN /\ AtMostOneRecorded
  BY <1>1 DEF AtMostOneRecorded
<1>4. QED  BY <1>1, <1>2, <1>3 DEF ChaosInv

\* A modifier the validator accepts is the only one recorded.
LEMMA AcceptedMeansNoneRecorded ==
    ASSUME ChaosInv, ModifierAccepted
    PROVE  doubleUntil = Unset /\ rustUntil = Unset /\ suddenDeath = FALSE
<1>1. \A m \in Modifiers : m \notin InForce(lastSweep)
  BY DEF ModifierAccepted
<1>2. ~(doubleUntil > lastSweep) /\ ~(rustUntil > lastSweep) /\ ~suddenDeath
  BY <1>1 DEF InForce, Modifiers
<1>3. QED  BY <1>2 DEF ChaosInv, Timed

\* Every step keeps ChaosInv.
LEMMA ChaosStep == ChaosInv /\ [Next]_vars => ChaosInv'
<1> SUFFICES ASSUME ChaosInv, [Next]_vars  PROVE ChaosInv'
  OBVIOUS
<1>0. ASSUME UNCHANGED chaosState  PROVE ChaosInv'
  BY <1>0 DEF ChaosInv, chaosState, Timed, AtMostOneRecorded
<1>1. CASE BeginPass
  BY <1>1 DEF BeginPass, ExpireChaos, ChaosInv, Timed, AtMostOneRecorded, Unset
<1>2. CASE ApplyModifier
  <2>1. doubleUntil = Unset /\ rustUntil = Unset /\ suddenDeath = FALSE
    BY <1>2, AcceptedMeansNoneRecorded DEF ApplyModifier
  <2>2. /\ clock' = clock /\ lastSweep' = lastSweep
        /\ clock + ChaosDuration \in Nat /\ clock + ChaosDuration > lastSweep
    BY <1>2, TimesAssumption DEF ApplyModifier, ChaosInv
  <2>3. CASE doubleUntil' = clock + ChaosDuration /\ UNCHANGED <<rustUntil, suddenDeath>>
    BY <2>1, <2>2, <2>3 DEF ChaosInv, Timed, AtMostOneRecorded
  <2>4. CASE rustUntil' = clock + ChaosDuration /\ UNCHANGED <<doubleUntil, suddenDeath>>
    BY <2>1, <2>2, <2>4 DEF ChaosInv, Timed, AtMostOneRecorded
  <2>5. CASE suddenDeath' = TRUE /\ UNCHANGED <<doubleUntil, rustUntil>>
    BY <2>1, <2>2, <2>5 DEF ChaosInv, Timed, AtMostOneRecorded
  <2>6. QED  BY <1>2, <2>3, <2>4, <2>5 DEF ApplyModifier
<1>3. CASE AdvanceClock
  BY <1>3 DEF AdvanceClock, ChaosInv, Timed, AtMostOneRecorded, chaosVars
<1>4. CASE Start
  BY <1>0, <1>4 DEF Start, chaosState, chaosVars
<1>5. CASE DealCard \/ RecycleAndDeal \/ RecycleInVain \/ StopDealing
  BY <1>0, <1>5 DEF DealCard, RecycleAndDeal, RecycleInVain, StopDealing, chaosState, chaosVars
<1>6. CASE DeckExhausted \/ ArmTimer \/ WakeOnTick
  BY <1>0, <1>6 DEF DeckExhausted, ArmTimer, WakeOnTick, chaosState, chaosVars
<1>7. CASE RecordAnswer \/ RecordFault
  BY <1>0, <1>7 DEF RecordAnswer, RecordFault, TakeResult, chaosState, chaosVars
<1>8. CASE ExtendThirtySeconds \/ EndRound \/ Signal
  BY <1>0, <1>8 DEF ExtendThirtySeconds, EndRound, Signal, chaosState, chaosVars
<1>9. CASE ActivityCompletes \/ ActivityTimesOut
  BY <1>0, <1>9 DEF ActivityCompletes, ActivityTimesOut, CloseActivity, chaosState, chaosVars
<1>10. CASE TimerFires
  BY <1>0, <1>10 DEF TimerFires, chaosState, chaosVars
<1>11. CASE Terminated \/ UNCHANGED vars
  BY <1>0, <1>11 DEF Terminated, vars, chaosState, chaosVars
<1>12. QED
  BY <1>1, <1>2, <1>3, <1>4, <1>5, <1>6, <1>7, <1>8, <1>9, <1>10, <1>11
     DEF Next, RunLoop, Environment

\* With at most one modifier recorded, at most one is in force.
LEMMA ChaosExclusive == ChaosInv => ModifiersExclusive
<1> SUFFICES ASSUME ChaosInv  PROVE Cardinality(InForce(clock)) <= 1
  BY DEF ModifiersExclusive
<1>1. \/ InForce(clock) = {} \/ InForce(clock) = {"double_points"}
      \/ InForce(clock) = {"rust_only"} \/ InForce(clock) = {"sudden_death"}
  BY DEF ChaosInv, Timed, AtMostOneRecorded, InForce, Modifiers, Unset
<1>2. /\ Cardinality({}) = 0
      /\ \A m : Cardinality({m}) = 1
  BY FS_EmptySet, FS_Singleton
<1>3. CASE InForce(clock) = {}
  BY <1>2, <1>3
<1>4. CASE \E m : InForce(clock) = {m}
  <2>1. PICK m : InForce(clock) = {m}
    BY <1>4
  <2>2. Cardinality(InForce(clock)) = 1
    BY <1>2, <2>1
  <2>3. QED  BY <2>2
<1>5. QED  BY <1>1, <1>3, <1>4

\* No two of double points, Rust-only and sudden death are ever in force
\* together (validate_apply_chaos, apply_chaos, expire_chaos).
THEOREM ModifiersNeverOverlap == Spec => []ModifiersExclusive
BY ChaosInit, ChaosStep, ChaosExclusive, PTL DEF Spec
-----------------------------------------------------------------------------
(***************************************************************************)
(* The deck.  UniqueActivityIds says nothing about the cards still in the  *)
(* deck, so it is not inductive.  DeckInv adds where every card is: each   *)
(* question of each cycle opened so far is exactly once either dealt or    *)
(* still available.  A refill is a permutation of the template under a     *)
(* cycle never used before, so it meets no card of the remainder and no    *)
(* card already dealt.                                                     *)
(***************************************************************************)
CardsUpTo(cycle) == {Card(q, n) : q \in ToSet(input.questions), n \in 1..cycle}

DealtCounted == IsFiniteSet(dealt) /\ scheduled = Cardinality(dealt)

DeckInv ==
    /\ input \in Inputs /\ deckCycle \in Nat \ {0}
    /\ available \in Seq(Cards)
    /\ NoCardLost
    /\ DealtCounted

\* What DeckInv is about.
deckState == <<input, available, deckCycle, scheduled, dealt>>

\* A template is a sequence of the round's questions without repetition.
LEMMA Templates ==
    ASSUME NEW in \in Inputs
    PROVE  /\ in.questions \in Seq(Questions)
           /\ IsInjective(in.questions)
           /\ ToSet(in.questions) \subseteq Questions
<1> DEFINE s == in.questions
<1>1. s \in Seq(STRING)
  BY InputsAssumption DEF InputType
<1>2. \A i, j \in 1..Len(s) : s[i] = s[j] => i = j
  BY InputsAssumption
<1>3. ToSet(s) \subseteq Questions
  BY DEF Questions
<1> HIDE DEF s
<1>4. DOMAIN s = 1..Len(s) /\ Len(s) \in Nat
  BY <1>1
<1>5. s \in [1..Len(s) -> Questions]
  <2>1. \A i \in 1..Len(s) : s[i] \in ToSet(s)
    BY <1>4 DEF ToSet
  <2>2. s = [i \in 1..Len(s) |-> s[i]]
    BY <1>1
  <2>3. QED  BY <1>3, <2>1, <2>2
<1>6. s \in Seq(Questions)
  BY <1>4, <1>5
<1>7. IsInjective(s)
  BY <1>2, <1>4 DEF IsInjective
<1>8. QED  BY <1>3, <1>6, <1>7 DEF s

\* The cards of one more cycle.
LEMMA NextCycle ==
    ASSUME NEW c \in Nat
    PROVE  CardsUpTo(c + 1) = CardsUpTo(c) \cup CardsOf(input.questions, c + 1)
<1>1. 1..(c + 1) = (1..c) \cup {c + 1}
  OBVIOUS
<1>2. QED  BY <1>1 DEF CardsUpTo, CardsOf

\* A card of a later cycle is none of the cards before.
LEMMA LaterCycle ==
    ASSUME NEW c \in Nat
    PROVE  CardsUpTo(c) \cap CardsOf(input.questions, c + 1) = {}
<1> SUFFICES ASSUME NEW x \in CardsUpTo(c), x \in CardsOf(input.questions, c + 1)
             PROVE FALSE
  OBVIOUS
<1>1. PICK q \in ToSet(input.questions), n \in 1..c : x = Card(q, n)
  BY DEF CardsUpTo
<1>2. PICK p : x = Card(p, c + 1)
  BY DEF CardsOf
<1>3. x.cycle = n /\ x.cycle = c + 1
  BY <1>1, <1>2 DEF Card
<1>4. QED  BY <1>3

\* FirstCycle holds every question once, under cycle 1.
LEMMA FirstCycleCards ==
    ASSUME NEW in \in Inputs
    PROVE  /\ FirstCycle(in.questions) \in Seq(Cards)
           /\ ToSet(FirstCycle(in.questions)) = CardsOf(in.questions, 1)
           /\ IsInjective(FirstCycle(in.questions))
<1> DEFINE s == in.questions
           r == FirstCycle(s)
<1>1. s \in Seq(Questions) /\ IsInjective(s)
  BY Templates
<1> HIDE DEF s
<1>2. DOMAIN s = 1..Len(s) /\ Len(s) \in Nat
  BY <1>1
<1>3. r = [i \in 1..Len(s) |-> Card(s[i], 1)] /\ DOMAIN r = 1..Len(s)
  BY DEF FirstCycle
<1> HIDE DEF r
<1>4. r \in Seq(Cards)
  <2>1. \A i \in 1..Len(s) : Card(s[i], 1) \in Cards
    BY <1>1, <1>2 DEF Card, Cards
  <2>2. r \in [1..Len(s) -> Cards]
    BY <1>3, <2>1
  <2>3. QED  BY <1>2, <2>2
<1>5. ToSet(r) = CardsOf(s, 1)
  BY <1>2, <1>3 DEF ToSet, CardsOf
<1>6. IsInjective(r)
  <2> SUFFICES ASSUME NEW i \in 1..Len(s), NEW j \in 1..Len(s), r[i] = r[j]
               PROVE i = j
    BY <1>3 DEF IsInjective
  <2>1. s[i] = s[j]
    BY <1>3 DEF Card
  <2>2. QED  BY <1>1, <1>2, <2>1 DEF IsInjective
<1>7. QED  BY <1>4, <1>5, <1>6 DEF r, s

\* DeckInv holds before the first card is dealt.
LEMMA DeckInit == Init => DeckInv
<1> SUFFICES ASSUME Init  PROVE DeckInv
  OBVIOUS
<1>1. /\ input \in Inputs /\ deckCycle = 1
      /\ available = FirstCycle(input.questions)
      /\ scheduled = 0 /\ dealt = {}
  BY DEF Init
<1>2. /\ available \in Seq(Cards) /\ IsInjective(available)
      /\ ToSet(available) = CardsOf(input.questions, 1)
  BY <1>1, FirstCycleCards
<1>3. CardsOf(input.questions, 1) = CardsUpTo(1)
  BY DEF CardsUpTo, CardsOf
<1>4. NoCardLost
  BY <1>1, <1>2, <1>3 DEF NoCardLost, CardsUpTo
<1>5. DealtCounted
  BY <1>1, FS_EmptySet DEF DealtCounted
<1>6. QED  BY <1>1, <1>2, <1>4, <1>5 DEF DeckInv

\* A recycled deck is the remainder and one new cycle, nothing twice.
LEMMA RecycledCards ==
    ASSUME DeckInv
    PROVE  /\ Recycled \in Seq(Cards) /\ IsInjective(Recycled)
           /\ ToSet(Recycled) \cap dealt = {}
           /\ ToSet(Recycled) \cup dealt = CardsUpTo(deckCycle + 1)
<1> DEFINE fresh == RefillQuestionDeck(input.questions, deckCycle + 1)
           new   == CardsOf(input.questions, deckCycle + 1)
<1>1. /\ input.questions \in Seq(Questions) /\ IsInjective(input.questions)
      /\ deckCycle \in Nat /\ (deckCycle + 1) \in Nat \ {0}
  BY Templates DEF DeckInv
<1>2. fresh \in Seq(Cards) /\ ToSet(fresh) = new /\ IsInjective(fresh)
  BY <1>1, RefillIsAPermutation DEF Cards
<1>3. /\ available \in Seq(Cards) /\ IsInjective(available)
      /\ ToSet(available) \cup dealt = CardsUpTo(deckCycle)
      /\ ToSet(available) \cap dealt = {}
  BY DEF DeckInv, NoCardLost, CardsUpTo
<1>4. CardsUpTo(deckCycle) \cap new = {}
  BY <1>1, LaterCycle
<1>5. CardsUpTo(deckCycle + 1) = CardsUpTo(deckCycle) \cup new
  BY <1>1, NextCycle
<1>6. Recycled = available \o fresh
  BY DEF Recycled
<1> HIDE DEF fresh, new
<1>7. ToSet(available) \cap ToSet(fresh) = {}
  BY <1>2, <1>3, <1>4
<1>8. /\ ToSet(Recycled) = ToSet(available) \cup ToSet(fresh)
      /\ IsInjective(Recycled)
  BY <1>2, <1>3, <1>6, <1>7, ConcatSet
<1>9. Recycled \in Seq(Cards)
  BY <1>2, <1>3, <1>6
<1>10. QED  BY <1>2, <1>3, <1>4, <1>5, <1>8, <1>9

\* Scheduling a card moves it from the deck to the cards dealt.
LEMMA ScheduleMovesACard ==
    ASSUME NEW deck \in Seq(Cards), IsInjective(deck), ToSet(deck) \cap dealt = {},
           DealtCounted, NEW i \in 1..Len(deck), Schedule(deck, i)
    PROVE  /\ available' \in Seq(Cards) /\ IsInjective(available')
           /\ ToSet(available') \cap dealt' = {}
           /\ ToSet(available') \cup dealt' = ToSet(deck) \cup dealt
           /\ DealtCounted'
           /\ deck[i] \in Cards \ dealt
<1>1. /\ available' = RemoveAt(deck, i) /\ dealt' = dealt \cup {deck[i]}
      /\ scheduled' = scheduled + 1
  BY DEF Schedule
<1>2. available' \in Seq(Cards)
  BY <1>1, RemoveAtElements
<1>3. IsInjective(available') /\ ToSet(available') = ToSet(deck) \ {deck[i]}
  BY <1>1, RemoveAtSet
<1>4. deck[i] \in ToSet(deck) /\ deck[i] \in Cards
  <2>1. DOMAIN deck = 1..Len(deck)
    OBVIOUS
  <2>2. deck[i] \in Cards
    OBVIOUS
  <2>3. QED  BY <2>1, <2>2 DEF ToSet
<1>5. deck[i] \notin dealt
  BY <1>4
<1>6. IsFiniteSet(dealt') /\ Cardinality(dealt') = Cardinality(dealt) + 1
  BY <1>1, <1>5, FS_AddElement DEF DealtCounted
<1>7. DealtCounted'
  BY <1>1, <1>6 DEF DealtCounted
<1>8. QED  BY <1>1, <1>2, <1>3, <1>4, <1>5, <1>7

\* Every step keeps DeckInv: only dealing touches the deck.
LEMMA DeckStep == DeckInv /\ [Next]_vars => DeckInv'
<1> SUFFICES ASSUME DeckInv, [Next]_vars  PROVE DeckInv'
  OBVIOUS
<1>0. ASSUME UNCHANGED deckState  PROVE DeckInv'
  BY <1>0 DEF DeckInv, deckState, NoCardLost, DealtCounted
<1>1. CASE DealCard
  <2>1. PICK i \in 1..Len(available) : Schedule(available, i)
    BY <1>1 DEF DealCard
  <2>2. input' = input /\ deckCycle' = deckCycle
    BY <1>1 DEF DealCard
  <2>3. /\ available \in Seq(Cards) /\ IsInjective(available)
        /\ ToSet(available) \cap dealt = {} /\ DealtCounted
        /\ ToSet(available) \cup dealt = CardsUpTo(deckCycle)
    BY DEF DeckInv, NoCardLost, CardsUpTo
  <2>4. /\ available' \in Seq(Cards) /\ IsInjective(available')
        /\ ToSet(available') \cap dealt' = {} /\ DealtCounted'
        /\ ToSet(available') \cup dealt' = CardsUpTo(deckCycle)
    BY <2>1, <2>3, ScheduleMovesACard
  <2>5. NoCardLost'
    BY <2>2, <2>4 DEF NoCardLost, CardsUpTo
  <2>6. QED  BY <2>2, <2>4, <2>5 DEF DeckInv
<1>2. CASE RecycleAndDeal
  <2>1. PICK i \in 1..Len(Recycled) : Schedule(Recycled, i)
    BY <1>2 DEF RecycleAndDeal
  <2>2. input' = input /\ deckCycle' = deckCycle + 1
    BY <1>2 DEF RecycleAndDeal
  <2>3. /\ Recycled \in Seq(Cards) /\ IsInjective(Recycled)
        /\ ToSet(Recycled) \cap dealt = {} /\ DealtCounted
        /\ ToSet(Recycled) \cup dealt = CardsUpTo(deckCycle + 1)
    BY RecycledCards DEF DeckInv
  <2>4. /\ available' \in Seq(Cards) /\ IsInjective(available')
        /\ ToSet(available') \cap dealt' = {} /\ DealtCounted'
        /\ ToSet(available') \cup dealt' = CardsUpTo(deckCycle + 1)
    BY <2>1, <2>3, ScheduleMovesACard
  <2>5. NoCardLost'
    BY <2>2, <2>4 DEF NoCardLost, CardsUpTo
  <2>6. QED  BY <2>2, <2>4, <2>5 DEF DeckInv
<1>3. CASE RecycleInVain
  <2>1. /\ input' = input /\ deckCycle' = deckCycle + 1 /\ available' = Recycled
        /\ dealt' = dealt /\ scheduled' = scheduled
    BY <1>3 DEF RecycleInVain
  <2>2. /\ Recycled \in Seq(Cards) /\ IsInjective(Recycled)
        /\ ToSet(Recycled) \cap dealt = {}
        /\ ToSet(Recycled) \cup dealt = CardsUpTo(deckCycle + 1)
    BY RecycledCards
  <2>3. NoCardLost'
    BY <2>1, <2>2 DEF NoCardLost, CardsUpTo
  <2>4. QED  BY <2>1, <2>2, <2>3 DEF DeckInv, DealtCounted
<1>4. CASE Start \/ BeginPass \/ StopDealing
  BY <1>0, <1>4 DEF Start, BeginPass, StopDealing, deckState, deckVars
<1>5. CASE DeckExhausted \/ ArmTimer \/ WakeOnTick
  BY <1>0, <1>5 DEF DeckExhausted, ArmTimer, WakeOnTick, deckState, deckVars
<1>6. CASE RecordAnswer \/ RecordFault
  BY <1>0, <1>6 DEF RecordAnswer, RecordFault, TakeResult, deckState
<1>7. CASE ApplyModifier \/ ExtendThirtySeconds \/ EndRound \/ Signal
  BY <1>0, <1>7 DEF ApplyModifier, ExtendThirtySeconds, EndRound, Signal, deckState, deckVars
<1>8. CASE ActivityCompletes \/ ActivityTimesOut
  BY <1>0, <1>8 DEF ActivityCompletes, ActivityTimesOut, CloseActivity, deckState
<1>9. CASE TimerFires \/ AdvanceClock
  BY <1>0, <1>9 DEF TimerFires, AdvanceClock, deckState, deckVars
<1>10. CASE Terminated \/ UNCHANGED vars
  BY <1>0, <1>10 DEF Terminated, vars, deckState, deckVars
<1>11. QED
  BY <1>1, <1>2, <1>3, <1>4, <1>5, <1>6, <1>7, <1>8, <1>9, <1>10
     DEF Next, RunLoop, Environment

\* The deck's invariant holds throughout a round.
LEMMA DeckAlways == Spec => []DeckInv
BY DeckInit, DeckStep, PTL DEF Spec

\* No two Activities of a round are ever scheduled under one ID, however often
\* and under whichever modifier the deck is recycled (refill_question_deck).
THEOREM ActivityIdsNeverRepeat == Spec => []UniqueActivityIds
<1>1. DeckInv => UniqueActivityIds
  BY DEF DeckInv, DealtCounted, UniqueActivityIds
<1>2. QED  BY <1>1, DeckAlways, PTL

\* Recycling the deck never loses, duplicates or invents a card (deal_question
\* keeps the undealt remainder in front of the refill).
THEOREM RecyclingLosesNoCard == Spec => []NoCardLost
<1>1. DeckInv => NoCardLost
  BY DEF DeckInv
<1>2. QED  BY <1>1, DeckAlways, PTL
-----------------------------------------------------------------------------
(***************************************************************************)
(* Slots.  The loop counts its open slots in `outstanding` and never looks *)
(* at the Activities behind it.  SlotInv ties the counter to them: each    *)
(* open Activity and each unseen result is a different card dealt before.  *)
(***************************************************************************)
PendingSound ==
    /\ IsFiniteSet(DOMAIN pending) /\ DOMAIN pending \subseteq dealt
    /\ \A c \in DOMAIN pending : pending[c] \in Nat

ClosedSound ==
    /\ closed \in Seq(Result)
    /\ \A i \in 1..Len(closed) : closed[i].card \in dealt \ DOMAIN pending
    /\ \A i, j \in 1..Len(closed) : closed[i].card = closed[j].card => i = j

\* QuestionsAccounted with the limit the loop itself compares with.
SlotsCounted ==
    /\ scheduled = outstanding + completed + faults
    /\ outstanding = Cardinality(DOMAIN pending) + Len(closed)
    /\ outstanding <= ActivityTarget

CountersSound ==
    /\ outstanding \in Nat /\ scheduled \in Nat /\ completed \in Nat
    /\ faults \in Nat /\ lateAnswers \in Nat
    /\ SlotsCounted

SlotInv ==
    /\ clock \in Nat
    /\ PendingSound
    /\ ClosedSound
    /\ CountersSound

\* What SlotInv is about.
slotState == <<input, clock, pending, closed, outstanding, scheduled, completed,
               faults, lateAnswers, dealt>>

\* The slots of a round are a natural number.
LEMMA TargetType == \A in \in Inputs : in.override \in Nat /\ in.badges \in Nat
BY InputsAssumption DEF InputType

\* So is activity_target.
LEMMA TargetInt == DeckInv => ActivityTarget \in Int
<1> SUFFICES ASSUME DeckInv  PROVE ActivityTarget \in Int
  OBVIOUS
<1>1. input \in Inputs
  BY DEF DeckInv
<1>2. QED  BY <1>1, TargetType DEF ActivityTarget

\* No slot is taken before the first deal.
LEMMA SlotInit == Init => SlotInv
<1> SUFFICES ASSUME Init  PROVE SlotInv
  OBVIOUS
<1>1. /\ input \in Inputs /\ clock = 0 /\ pending = [c \in {} |-> 0] /\ closed = <<>>
      /\ outstanding = 0 /\ scheduled = 0 /\ completed = 0 /\ faults = 0
      /\ lateAnswers = 0 /\ dealt = {}
  BY DEF Init
<1>2. DOMAIN pending = {} /\ Len(closed) = 0
  BY <1>1
<1>3. PendingSound
  BY <1>1, <1>2, FS_EmptySet DEF PendingSound
<1>4. ClosedSound
  BY <1>1, <1>2 DEF ClosedSound
<1>5. 0 <= ActivityTarget
  BY <1>1, TargetType DEF ActivityTarget
<1>6. CountersSound
  <2>1. Cardinality(DOMAIN pending) = 0
    BY <1>2, FS_EmptySet
  <2>2. QED  BY <1>1, <1>2, <1>5, <2>1 DEF CountersSound, SlotsCounted
<1>7. QED  BY <1>1, <1>3, <1>4, <1>6 DEF SlotInv

\* Scheduling a card that was never dealt takes one slot.
LEMMA ScheduleSlots ==
    ASSUME SlotInv, NEW deck, NEW i, Schedule(deck, i), deck[i] \notin dealt,
           outstanding < ActivityTarget, DeckInv, input' = input,
           UNCHANGED <<clock, closed, completed, faults, lateAnswers>>
    PROVE  SlotInv'
<1> DEFINE card == deck[i]
<1>1. /\ DOMAIN pending' = DOMAIN pending \cup {card}
      /\ \A c \in DOMAIN pending' : pending'[c] \in Nat
      /\ dealt' = dealt \cup {card}
      /\ outstanding' = outstanding + 1 /\ scheduled' = scheduled + 1
  BY DEF Schedule, SlotInv, PendingSound
<1> HIDE DEF card
<1>2. card \notin DOMAIN pending /\ card \notin dealt
  BY DEF SlotInv, PendingSound, card
<1>3. /\ IsFiniteSet(DOMAIN pending')
      /\ Cardinality(DOMAIN pending') = Cardinality(DOMAIN pending) + 1
  BY <1>1, <1>2, FS_AddElement DEF SlotInv, PendingSound
<1>4. PendingSound'
  BY <1>1, <1>3 DEF SlotInv, PendingSound
<1>5. ClosedSound'
  BY <1>1, <1>2 DEF SlotInv, ClosedSound
<1>6. Cardinality(DOMAIN pending) \in Nat /\ Len(closed) \in Nat
  BY FS_CardinalityType DEF SlotInv, PendingSound, ClosedSound
<1>7. ActivityTarget' = ActivityTarget /\ ActivityTarget \in Int
  BY TargetInt DEF ActivityTarget
<1>8. CountersSound'
  <2>1. /\ outstanding \in Nat /\ scheduled \in Nat /\ completed \in Nat /\ faults \in Nat
        /\ scheduled = outstanding + completed + faults
        /\ outstanding = Cardinality(DOMAIN pending) + Len(closed)
    BY DEF SlotInv, CountersSound, SlotsCounted
  <2>2. scheduled' = outstanding' + completed' + faults'
    <3>1. /\ outstanding \in Nat /\ completed \in Nat /\ faults \in Nat
          /\ scheduled = outstanding + completed + faults
      BY <2>1
    <3>2. outstanding' = outstanding + 1 /\ scheduled' = scheduled + 1
      BY <1>1
    <3>3. QED  BY <3>1, <3>2
  <2>3. outstanding' = Cardinality(DOMAIN pending') + Len(closed')
    BY <1>1, <1>3, <1>6, <2>1
  <2>4. outstanding' <= ActivityTarget'
    BY <1>1, <1>7, <2>1
  <2>5. outstanding' \in Nat /\ scheduled' \in Nat
    <3>1. outstanding \in Nat /\ outstanding' = outstanding + 1
      BY <1>1, <2>1
    <3>2. scheduled \in Nat /\ scheduled' = scheduled + 1
      BY <1>1, <2>1
    <3>3. QED  BY <3>1, <3>2
  <2>6. completed' \in Nat /\ faults' \in Nat /\ lateAnswers' \in Nat
    BY <2>1 DEF SlotInv, CountersSound
  <2>7. QED
    BY <2>2, <2>3, <2>4, <2>5, <2>6 DEF CountersSound, SlotsCounted
<1>9. QED  BY <1>4, <1>5, <1>8 DEF SlotInv

\* Consuming a result frees its slot and settles its question.
LEMMA TakeResultSlots ==
    ASSUME SlotInv, DeckInv, TakeResult, lateAnswers' \in Nat,
           \/ completed' = completed + 1 /\ faults' = faults
           \/ completed' = completed /\ faults' = faults + 1
    PROVE  SlotInv'
<1>1. /\ closed # <<>> /\ closed' = Tail(closed) /\ outstanding' = outstanding - 1
      /\ UNCHANGED <<input, clock, pending, scheduled, dealt>>
  BY DEF TakeResult
<1>2. closed \in Seq(Result)
  BY DEF SlotInv, ClosedSound
<1>3. /\ closed' \in Seq(Result) /\ Len(closed) >= 1 /\ Len(closed') = Len(closed) - 1
      /\ \A i \in 1..Len(closed') : closed'[i] = closed[i + 1]
  BY <1>1, <1>2
<1>4. PendingSound'
  BY <1>1 DEF SlotInv, PendingSound
<1>5. ClosedSound'
  <2>1. ASSUME NEW i \in 1..Len(closed')
        PROVE  closed'[i].card \in dealt' \ DOMAIN pending'
    <3>1. (i + 1) \in 1..Len(closed)
      BY <1>2, <1>3
    <3>2. QED  BY <1>1, <1>3, <3>1 DEF SlotInv, ClosedSound
  <2>2. ASSUME NEW i \in 1..Len(closed'), NEW j \in 1..Len(closed'),
               closed'[i].card = closed'[j].card
        PROVE  i = j
    <3>1. (i + 1) \in 1..Len(closed) /\ (j + 1) \in 1..Len(closed)
      BY <1>2, <1>3
    <3>2. i + 1 = j + 1
      BY <1>3, <2>2, <3>1 DEF SlotInv, ClosedSound
    <3>3. QED  BY <3>2
  <2>3. QED  BY <1>3, <2>1, <2>2 DEF ClosedSound
<1>6. Cardinality(DOMAIN pending) \in Nat /\ Len(closed) \in Nat
  BY <1>2, FS_CardinalityType DEF SlotInv, PendingSound
<1>7. ActivityTarget' = ActivityTarget /\ ActivityTarget \in Int
  BY <1>1, TargetInt DEF ActivityTarget
<1>8. CountersSound'
  <2>1. /\ outstanding \in Nat /\ scheduled \in Nat /\ completed \in Nat /\ faults \in Nat
        /\ scheduled = outstanding + completed + faults
        /\ outstanding = Cardinality(DOMAIN pending) + Len(closed)
        /\ outstanding <= ActivityTarget
    BY DEF SlotInv, CountersSound, SlotsCounted
  <2>2. outstanding' \in Nat
    <3>1. Len(closed) >= 1
      BY <1>3
    <3>2. outstanding >= 1
      BY <1>6, <2>1, <3>1
    <3>3. outstanding' = outstanding - 1
      BY <1>1
    <3>4. QED  BY <2>1, <3>2, <3>3
  <2>3. scheduled' = outstanding' + completed' + faults'
    <3>1. /\ outstanding \in Nat /\ completed \in Nat /\ faults \in Nat
          /\ scheduled = outstanding + completed + faults
      BY <2>1
    <3>2. outstanding' = outstanding - 1 /\ scheduled' = scheduled
      BY <1>1
    <3>3. CASE completed' = completed + 1 /\ faults' = faults
      BY <3>1, <3>2, <3>3
    <3>4. CASE completed' = completed /\ faults' = faults + 1
      BY <3>1, <3>2, <3>4
    <3>5. QED  BY <3>3, <3>4
  <2>4. outstanding' = Cardinality(DOMAIN pending') + Len(closed')
    BY <1>1, <1>3, <1>6, <2>1
  <2>5. outstanding' <= ActivityTarget'
    BY <1>1, <1>7, <2>1
  <2>6. completed' \in Nat /\ faults' \in Nat /\ scheduled' \in Nat
    <3>1. completed \in Nat /\ faults \in Nat
      BY <2>1
    <3>2. scheduled' \in Nat
      BY <1>1, <2>1
    <3>3. completed' \in Nat /\ faults' \in Nat
      BY <3>1
    <3>4. QED  BY <3>2, <3>3
  <2>7. QED
    BY <2>2, <2>3, <2>4, <2>5, <2>6 DEF CountersSound, SlotsCounted
<1>9. QED  BY <1>1, <1>4, <1>5, <1>8 DEF SlotInv

\* Closing an open Activity only moves its card to the unseen results.
LEMMA CloseActivitySlots ==
    ASSUME SlotInv, DeckInv, NEW card \in DOMAIN pending, NEW b \in Badges,
           NEW verdict \in Verdicts, CloseActivity(card, b, verdict)
    PROVE  SlotInv'
<1> DEFINE r == [card |-> card, badge |-> b, verdict |-> verdict]
<1>1. /\ DOMAIN pending' = DOMAIN pending \ {card}
      /\ \A c \in DOMAIN pending' : pending'[c] = pending[c]
      /\ closed' = Append(closed, r)
      /\ UNCHANGED <<input, clock, outstanding, scheduled, dealt, completed, faults,
                     lateAnswers>>
  BY DEF CloseActivity, resultVars
<1>2. card \in dealt /\ closed \in Seq(Result) /\ r.card = card
  BY DEF SlotInv, PendingSound, ClosedSound
<1>3. r \in Result
  <2>1. card \in Cards
    BY <1>2 DEF DeckInv, NoCardLost, Cards, Card, Questions
  <2>2. QED  BY <2>1 DEF Result
<1> HIDE DEF r
<1>4. /\ closed' \in Seq(Result) /\ Len(closed') = Len(closed) + 1
      /\ \A i \in 1..Len(closed) : closed'[i] = closed[i]
      /\ closed'[Len(closed) + 1] = r
  BY <1>1, <1>2, <1>3
<1>5. /\ IsFiniteSet(DOMAIN pending')
      /\ Cardinality(DOMAIN pending') = Cardinality(DOMAIN pending) - 1
  BY <1>1, FS_RemoveElement DEF SlotInv, PendingSound
<1>6. PendingSound'
  BY <1>1, <1>5 DEF SlotInv, PendingSound
<1>7. ClosedSound'
  <2>1. Len(closed) \in Nat
    BY <1>2
  <2>2. \A i \in 1..Len(closed') : i \in 1..Len(closed) \/ i = Len(closed) + 1
    BY <1>4, <2>1
  <2>3. \A i \in 1..Len(closed) : closed[i].card \in dealt /\ closed[i].card # card
    BY DEF SlotInv, ClosedSound
  <2>4. \A i \in 1..Len(closed') : closed'[i].card \in dealt' \ DOMAIN pending'
    BY <1>1, <1>2, <1>4, <2>2 DEF SlotInv, ClosedSound
  <2>5. \A i, j \in 1..Len(closed') : closed'[i].card = closed'[j].card => i = j
    BY <1>2, <1>4, <2>2, <2>3 DEF SlotInv, ClosedSound
  <2>6. QED  BY <1>4, <2>4, <2>5 DEF ClosedSound
<1>8. Cardinality(DOMAIN pending) \in Nat /\ Len(closed) \in Nat
  BY <1>2, FS_CardinalityType DEF SlotInv, PendingSound
<1>9. ActivityTarget' = ActivityTarget
  BY <1>1 DEF ActivityTarget
<1>10. CountersSound'
  BY <1>1, <1>4, <1>5, <1>8, <1>9 DEF SlotInv, CountersSound, SlotsCounted
<1>11. QED  BY <1>1, <1>6, <1>7, <1>10 DEF SlotInv

\* Every step keeps SlotInv.
LEMMA SlotStep == SlotInv /\ DeckInv /\ [Next]_vars => SlotInv'
<1> SUFFICES ASSUME SlotInv, DeckInv, [Next]_vars  PROVE SlotInv'
  OBVIOUS
<1>0. ASSUME UNCHANGED slotState  PROVE SlotInv'
  BY <1>0 DEF SlotInv, PendingSound, ClosedSound, CountersSound, SlotsCounted,
              ActivityTarget, slotState
<1>1. CASE DealCard
  <2>1. PICK i \in 1..Len(available) : Schedule(available, i)
    BY <1>1 DEF DealCard
  <2>2. available[i] \notin dealt
    BY <2>1, ScheduleMovesACard DEF DeckInv, NoCardLost
  <2>3. QED  BY <1>1, <2>1, <2>2, ScheduleSlots DEF DealCard, resultVars
<1>2. CASE RecycleAndDeal
  <2>1. PICK i \in 1..Len(Recycled) : Schedule(Recycled, i)
    BY <1>2 DEF RecycleAndDeal
  <2>2. Recycled[i] \notin dealt
    BY <2>1, RecycledCards, ScheduleMovesACard DEF DeckInv
  <2>3. QED  BY <1>2, <2>1, <2>2, ScheduleSlots DEF RecycleAndDeal, resultVars
<1>3. CASE RecordAnswer
  <2>1. TakeResult /\ completed' = completed + 1 /\ faults' = faults
    BY <1>3 DEF RecordAnswer
  <2>2. lateAnswers' \in Nat
    BY <1>3 DEF RecordAnswer, SlotInv, CountersSound
  <2>3. QED  BY <2>1, <2>2, TakeResultSlots
<1>4. CASE RecordFault
  <2>1. TakeResult /\ completed' = completed /\ faults' = faults + 1
    BY <1>4 DEF RecordFault
  <2>2. lateAnswers' \in Nat
    BY <1>4 DEF RecordFault, SlotInv, CountersSound
  <2>3. QED  BY <2>1, <2>2, TakeResultSlots
<1>5. CASE ActivityCompletes
  <2>1. Answers \subseteq Verdicts
    BY AnswersAssumption DEF Verdicts
  <2>2. PICK card \in DOMAIN pending, b \in Badges, verdict \in Answers :
           CloseActivity(card, b, verdict)
    BY <1>5 DEF ActivityCompletes
  <2>3. QED  BY <2>1, <2>2, CloseActivitySlots
<1>6. CASE ActivityTimesOut
  <2>1. "failed" \in Verdicts
    BY DEF Verdicts
  <2>2. PICK card \in DOMAIN pending, b \in Badges : CloseActivity(card, b, "failed")
    BY <1>6 DEF ActivityTimesOut
  <2>3. QED  BY <2>1, <2>2, CloseActivitySlots
<1>7. CASE AdvanceClock
  <2>1. clock' \in Nat
    BY <1>7 DEF AdvanceClock, SlotInv
  <2>2. UNCHANGED <<input, pending, closed, outstanding, scheduled, completed, faults,
                    lateAnswers, dealt>>
    BY <1>7 DEF AdvanceClock, deckVars, resultVars
  <2>3. QED
    BY <2>1, <2>2 DEF SlotInv, PendingSound, ClosedSound, CountersSound,
                      SlotsCounted, ActivityTarget
<1>8. CASE Start \/ BeginPass \/ RecycleInVain \/ StopDealing
  BY <1>0, <1>8 DEF Start, BeginPass, RecycleInVain, StopDealing, slotState, deckVars, resultVars
<1>9. CASE DeckExhausted \/ ArmTimer \/ WakeOnTick
  BY <1>0, <1>9 DEF DeckExhausted, ArmTimer, WakeOnTick, slotState, deckVars, resultVars
<1>10. CASE ApplyModifier \/ ExtendThirtySeconds \/ EndRound \/ Signal
  BY <1>0, <1>10 DEF ApplyModifier, ExtendThirtySeconds, EndRound, Signal, slotState,
                     deckVars, resultVars
<1>11. CASE TimerFires
  BY <1>0, <1>11 DEF TimerFires, slotState, deckVars, resultVars
<1>12. CASE Terminated \/ UNCHANGED vars
  BY <1>0, <1>12 DEF Terminated, vars, slotState, deckVars, resultVars
<1>13. QED
  BY <1>1, <1>2, <1>3, <1>4, <1>5, <1>6, <1>7, <1>8, <1>9, <1>10, <1>11, <1>12
     DEF Next, RunLoop, Environment

\* The slot counter stays tied to the open Activities throughout a round.
LEMMA SlotsAlways == Spec => []SlotInv
BY SlotInit, SlotStep, DeckAlways, PTL DEF Spec

\* Every scheduled question is open, unseen, scored or faulted, and the loop's
\* counter of open slots agrees with them and with the badges of the round
\* (pending_activities in run).
THEOREM NoQuestionUnaccounted == Spec => []QuestionsAccounted
<1>1. SlotInv /\ DeckInv => QuestionsAccounted
  <2> SUFFICES ASSUME SlotInv, DeckInv  PROVE QuestionsAccounted
    OBVIOUS
  <2>1. SlotsCounted /\ outstanding \in Nat
    BY DEF SlotInv, CountersSound
  <2>2. input.override \in Nat /\ input.badges \in Nat
    BY TargetType DEF DeckInv
  <2>3. QED  BY <2>1, <2>2 DEF SlotsCounted, QuestionsAccounted, ActivityTarget
<1>2. QED  BY <1>1, SlotsAlways, DeckAlways, PTL
-----------------------------------------------------------------------------
(***************************************************************************)
(* Types.  The deck, slot and modifier invariants already carry the types  *)
(* that depend on more than the assignment itself; what is left is the     *)
(* loop and the roster.                                                    *)
(***************************************************************************)
LoopTypes ==
    /\ deadline \in Nat /\ ended \in BOOLEAN
    /\ pc \in {"start", "top", "deal", "arm", "wait", "done"}
    /\ status \in {"waiting", "running", "finished"}
    /\ extensionUsed \in BOOLEAN /\ powerups \in Nat
    /\ timer \in [due : Nat, fired : BOOLEAN]

loopState == <<deadline, ended, pc, status, extensionUsed, powerups, timer>>

ScoreTypes ==
    /\ DOMAIN players \subseteq Badges
    /\ \A b \in DOMAIN players : players[b] \in Player
    /\ winners \subseteq DOMAIN players

SignalTypes ==
    /\ DOMAIN assignments \subseteq Cards
    /\ \A q \in DOMAIN assignments : assignments[q] \in Event
    /\ retryReasons \subseteq Cards /\ attemptsSeen \subseteq Cards \X (Nat \ {0})
    /\ reassignments \in Nat /\ heartbeatTimeouts \in Nat

\* Together the parts are TypeOK.
LEMMA TypesTogether ==
    DeckInv /\ SlotInv /\ ChaosInv /\ LoopTypes /\ ScoreTypes /\ SignalTypes => TypeOK
<1> SUFFICES ASSUME DeckInv, SlotInv, ChaosInv, LoopTypes, ScoreTypes, SignalTypes
             PROVE TypeOK
  OBVIOUS
<1>1. dealt \subseteq Cards
  BY DEF DeckInv, NoCardLost, Cards, Card, Questions
<1>2. /\ DOMAIN pending \subseteq Cards
      /\ \A c \in DOMAIN pending : pending[c] \in Nat
  BY <1>1 DEF SlotInv, PendingSound
<1>3. QED
  BY <1>1, <1>2 DEF TypeOK, DeckInv, SlotInv, ClosedSound, CountersSound, ChaosInv, Timed,
                    LoopTypes, ScoreTypes, SignalTypes

\* The loop's types hold before the round starts.
LEMMA LoopTypesInit == Init => LoopTypes
<1> SUFFICES ASSUME Init  PROVE LoopTypes
  OBVIOUS
<1>1. /\ deadline = 0 /\ ended = FALSE /\ pc = "start" /\ status = "waiting"
      /\ extensionUsed = FALSE /\ powerups = 0 /\ timer = [due |-> 0, fired |-> FALSE]
  BY DEF Init, Unset
<1>2. QED  BY <1>1 DEF LoopTypes

\* Every step keeps the loop's types.
LEMMA LoopTypesStep == LoopTypes /\ ChaosInv /\ [Next]_vars => LoopTypes'
<1> SUFFICES ASSUME LoopTypes, ChaosInv, [Next]_vars  PROVE LoopTypes'
  OBVIOUS
<1>0. ASSUME UNCHANGED loopState  PROVE LoopTypes'
  BY <1>0 DEF LoopTypes, loopState
<1>1. clock \in Nat
  BY DEF ChaosInv
<1>2. CASE Start
  BY <1>1, <1>2, TimesAssumption DEF Start, LoopTypes, chaosVars
<1>3. CASE BeginPass
  BY <1>3 DEF BeginPass, ExpireChaos, Finish, LoopTypes, closingVars
<1>4. CASE DealCard \/ RecycleAndDeal \/ RecycleInVain \/ StopDealing
  BY <1>4 DEF DealCard, RecycleAndDeal, RecycleInVain, StopDealing, LoopTypes,
              chaosVars, closingVars
<1>5. CASE DeckExhausted
  BY <1>5 DEF DeckExhausted, Finish, LoopTypes, chaosVars
<1>6. CASE ArmTimer
  <2>1. (IF deadline - clock < TickLength THEN deadline ELSE clock + TickLength) \in Nat
    BY <1>1, TimesAssumption DEF LoopTypes
  <2>2. timer' \in [due : Nat, fired : BOOLEAN]
    BY <1>6, <2>1 DEF ArmTimer
  <2>3. QED  BY <1>6, <2>2 DEF ArmTimer, LoopTypes, chaosVars, closingVars
<1>7. CASE WakeOnTick
  BY <1>7 DEF WakeOnTick, LoopTypes, chaosVars, closingVars
<1>8. CASE RecordAnswer \/ RecordFault
  BY <1>8 DEF RecordAnswer, RecordFault, TakeResult, Finish, LoopTypes, chaosVars, closingVars
<1>9. CASE ApplyModifier
  BY <1>9 DEF ApplyModifier, Notice, LoopTypes, closingVars
<1>10. CASE ExtendThirtySeconds
  BY <1>10, TimesAssumption DEF ExtendThirtySeconds, Notice, LoopTypes, closingVars
<1>11. CASE EndRound
  BY <1>1, <1>11 DEF EndRound, LoopTypes, chaosVars, closingVars
<1>12. CASE TimerFires
  BY <1>12 DEF TimerFires, LoopTypes, chaosVars, closingVars
<1>13. CASE Signal \/ AdvanceClock
  BY <1>0, <1>13 DEF Signal, AdvanceClock, loopState, chaosVars, closingVars
<1>14. CASE ActivityCompletes \/ ActivityTimesOut
  BY <1>0, <1>14 DEF ActivityCompletes, ActivityTimesOut, CloseActivity, loopState,
                     chaosVars, closingVars
<1>15. CASE Terminated \/ UNCHANGED vars
  BY <1>0, <1>15 DEF Terminated, vars, loopState, chaosVars, closingVars
<1>16. QED
  BY <1>2, <1>3, <1>4, <1>5, <1>6, <1>7, <1>8, <1>9, <1>10, <1>11, <1>12, <1>13, <1>14,
     <1>15 DEF Next, RunLoop, Environment

\* Joining adds a line of zeroes at most.
LEMMA JoinedType ==
    ASSUME ScoreTypes, NEW b \in Badges
    PROVE  /\ DOMAIN Joined(b) = DOMAIN players \cup {b}
           /\ DOMAIN Joined(b) \subseteq Badges
           /\ \A x \in DOMAIN Joined(b) : Joined(b)[x] \in Player
<1>1. NewPlayer \in Player
  BY DEF NewPlayer, Player
<1>2. QED  BY <1>1 DEF ScoreTypes, Joined

\* A badge event keeps the roster's types.
LEMMA SignalTyped ==
    ASSUME ScoreTypes, SignalTypes, NEW event \in Event, winners' = winners,
           BadgeStarted(event) \/ PanicEvent(event)
    PROVE  ScoreTypes' /\ SignalTypes'
<1>1. event.badge \in Badges /\ event.question \in Cards /\ event.attempt \in Nat \ {0}
  BY DEF Event
<1> DEFINE J == Joined(event.badge)
<1>2. /\ DOMAIN J = DOMAIN players \cup {event.badge} /\ DOMAIN J \subseteq Badges
      /\ \A x \in DOMAIN J : J[x] \in Player
      /\ J = [x \in DOMAIN J |-> J[x]]
  BY <1>1, JoinedType DEF Joined
<1>3. CASE BadgeStarted(event)
  <2>1. players' = J
    BY <1>3 DEF BadgeStarted
  <2>2. ScoreTypes'
    BY <1>2, <2>1 DEF ScoreTypes
  <2>3. /\ DOMAIN assignments' = DOMAIN assignments \cup {event.question}
        /\ \A q \in DOMAIN assignments' :
              assignments'[q] = IF q = event.question THEN event ELSE assignments[q]
    BY <1>3 DEF BadgeStarted
  <2>4. /\ DOMAIN assignments' \subseteq Cards
        /\ \A q \in DOMAIN assignments' : assignments'[q] \in Event
    BY <1>1, <2>3 DEF SignalTypes
  <2>5. reassignments' \in Nat /\ heartbeatTimeouts' \in Nat
    BY <1>3 DEF BadgeStarted, SignalTypes
  <2>6. retryReasons' \subseteq Cards
    BY <1>3 DEF BadgeStarted, SignalTypes
  <2>7. attemptsSeen' \subseteq Cards \X (Nat \ {0})
    BY <1>1, <1>3 DEF BadgeStarted, SignalTypes
  <2>8. QED  BY <2>2, <2>4, <2>5, <2>6, <2>7 DEF SignalTypes
<1>4. CASE PanicEvent(event)
  <2> HIDE DEF J
  <2>1. players' = [J EXCEPT ![event.badge].panics = @ + 1]
    BY <1>4 DEF PanicEvent, J
  <2>2. DOMAIN players' = DOMAIN J
    BY <2>1
  <2>3. ASSUME NEW x \in DOMAIN J  PROVE players'[x] \in Player
    <3>1. J[x] \in Player
      BY <1>2
    <3>2. CASE x = event.badge
      <4>1. players'[x] = [J[x] EXCEPT !.panics = @ + 1]
        BY <1>2, <2>1, <3>2
      <4>2. QED  BY <3>1, <4>1 DEF Player
    <3>3. CASE x # event.badge
      <4>1. players'[x] = J[x]
        BY <1>2, <2>1, <3>3
      <4>2. QED  BY <3>1, <4>1
    <3>4. QED  BY <3>2, <3>3
  <2>4. ScoreTypes'
    BY <1>2, <2>2, <2>3 DEF ScoreTypes
  <2>5. retryReasons' \subseteq Cards /\ UNCHANGED <<assignments, attemptsSeen, reassignments,
                                                     heartbeatTimeouts>>
    BY <1>1, <1>4 DEF PanicEvent, SignalTypes
  <2>6. QED  BY <2>4, <2>5 DEF SignalTypes
<1>5. QED  BY <1>3, <1>4

\* Updating the numbers of a scoreboard line.
LEMMA LineTyped ==
    ASSUME NEW p \in Player, NEW s \in Int, NEW c \in Nat, NEW w \in Nat
    PROVE  [p EXCEPT !.score = s, !.correct = c, !.wrong = w] \in Player
<1>1. ASSUME NEW r \in Player  PROVE [r EXCEPT !.score = s] \in Player
  BY DEF Player
<1>2. ASSUME NEW r \in Player  PROVE [r EXCEPT !.correct = c] \in Player
  BY DEF Player
<1>3. ASSUME NEW r \in Player  PROVE [r EXCEPT !.wrong = w] \in Player
  BY DEF Player
<1> DEFINE p1 == [p EXCEPT !.score = s]
           p2 == [p1 EXCEPT !.correct = c]
           p3 == [p2 EXCEPT !.wrong = w]
<1>4. p1 \in Player
  BY <1>1
<1> HIDE DEF p1
<1>5. p2 \in Player
  BY <1>2, <1>4
<1> HIDE DEF p2
<1>6. p3 \in Player
  BY <1>3, <1>5
<1>7. [p EXCEPT !.score = s, !.correct = c, !.wrong = w] = p3
  BY DEF p1, p2
<1>8. QED  BY <1>6, <1>7

\* Scoring an answer keeps the scoreboard's type.
LEMMA ScoreTyped ==
    ASSUME ScoreTypes, NEW b \in Badges, NEW correct \in BOOLEAN, NEW points \in Int,
           ScoreAnswer(b, correct, points)
    PROVE  /\ DOMAIN players \subseteq DOMAIN players'
           /\ DOMAIN players' \subseteq Badges
           /\ \A x \in DOMAIN players' : players'[x] \in Player
<1> DEFINE J == Joined(b)
           line == [J[b] EXCEPT !.score   = IF correct THEN @ + points ELSE @ - points,
                                !.correct = IF correct THEN @ + 1 ELSE @,
                                !.wrong   = IF correct THEN @ ELSE @ + 1]
<1>1. /\ DOMAIN J = DOMAIN players \cup {b} /\ DOMAIN J \subseteq Badges
      /\ \A x \in DOMAIN J : J[x] \in Player
      /\ J = [x \in DOMAIN J |-> J[x]]
  BY JoinedType DEF Joined
<1>2. players' = [J EXCEPT ![b].score   = IF correct THEN @ + points ELSE @ - points,
                           ![b].correct = IF correct THEN @ + 1 ELSE @,
                           ![b].wrong   = IF correct THEN @ ELSE @ + 1]
  BY DEF ScoreAnswer
<1> HIDE DEF J
<1>3. J[b] \in Player /\ b \in DOMAIN J
  BY <1>1
<1>4. line \in Player
  <2>1. J[b].score \in Int /\ J[b].correct \in Nat /\ J[b].wrong \in Nat /\ J[b].panics \in Nat
    BY <1>3 DEF Player
  <2> DEFINE s == IF correct THEN J[b].score + points ELSE J[b].score - points
             c == IF correct THEN J[b].correct + 1 ELSE J[b].correct
             w == IF correct THEN J[b].wrong ELSE J[b].wrong + 1
  <2>2. s \in Int /\ c \in Nat /\ w \in Nat
    BY <2>1
  <2>3. line = [J[b] EXCEPT !.score = s, !.correct = c, !.wrong = w]
    OBVIOUS
  <2> HIDE DEF s, c, w, line
  <2>4. QED  BY <1>3, <2>2, <2>3, LineTyped
<1>5. players' = [J EXCEPT ![b] = line]
  BY <1>1, <1>2, <1>3
<1> HIDE DEF line
<1>6. DOMAIN players' = DOMAIN J
  BY <1>5
<1>7. \A x \in DOMAIN J : players'[x] \in Player
  BY <1>1, <1>4, <1>5
<1>8. QED  BY <1>1, <1>6, <1>7

\* The roster's types hold before the round starts.
LEMMA RosterTypesInit == Init => ScoreTypes /\ SignalTypes
<1> SUFFICES ASSUME Init  PROVE ScoreTypes /\ SignalTypes
  OBVIOUS
<1>1. /\ DOMAIN players = {} /\ winners = {} /\ DOMAIN assignments = {}
      /\ retryReasons = {} /\ attemptsSeen = {} /\ reassignments = 0 /\ heartbeatTimeouts = 0
  BY DEF Init, RosterInit
<1>2. QED  BY <1>1 DEF ScoreTypes, SignalTypes

\* Every step keeps the roster's types.
LEMMA RosterTypesStep ==
    ScoreTypes /\ SignalTypes /\ DeckInv /\ SlotInv /\ [Next]_vars
       => ScoreTypes' /\ SignalTypes'
<1> SUFFICES ASSUME ScoreTypes, SignalTypes, DeckInv, SlotInv, [Next]_vars
             PROVE  ScoreTypes' /\ SignalTypes'
  OBVIOUS
<1>0. ASSUME UNCHANGED <<rosterVars, winners>>  PROVE ScoreTypes' /\ SignalTypes'
  BY <1>0 DEF ScoreTypes, SignalTypes, rosterVars
<1>1. \A board : TopScorers(board) \subseteq DOMAIN board
  BY DEF TopScorers
<1>2. ASSUME UNCHANGED rosterVars, Finish(players)  PROVE ScoreTypes' /\ SignalTypes'
  BY <1>1, <1>2 DEF Finish, ScoreTypes, SignalTypes, rosterVars
<1>3. CASE BeginPass
  BY <1>0, <1>2, <1>3 DEF BeginPass, closingVars, rosterVars
<1>4. CASE DeckExhausted
  BY <1>2, <1>4 DEF DeckExhausted
<1>5. CASE RecordAnswer
  <2> DEFINE r == Head(closed)
             correct == r.verdict = "correct"
  <2>1. r.badge \in Badges
    <3>1. closed # <<>> /\ closed \in Seq(Result)
      BY <1>5 DEF RecordAnswer, TakeResult, SlotInv, ClosedSound
    <3>2. r \in Result
      BY <3>1
    <3>3. QED  BY <3>2 DEF Result
  <2>2. /\ ScoreAnswer(r.badge, correct, ActivePoints)
        /\ IF EndsRound(correct) THEN Finish(players') ELSE UNCHANGED closingVars
    BY <1>5 DEF RecordAnswer
  <2>3. ActivePoints \in Int /\ correct \in BOOLEAN
    BY DEF ActivePoints
  <2> HIDE DEF r, correct
  <2>4. /\ DOMAIN players \subseteq DOMAIN players' /\ DOMAIN players' \subseteq Badges
        /\ \A x \in DOMAIN players' : players'[x] \in Player
    BY <2>1, <2>2, <2>3, ScoreTyped
  <2>5. winners' \subseteq DOMAIN players'
    BY <1>1, <2>2, <2>4 DEF Finish, ScoreTypes, closingVars
  <2>6. UNCHANGED signalVars
    BY <2>2 DEF ScoreAnswer
  <2>7. QED  BY <2>4, <2>5, <2>6 DEF ScoreTypes, SignalTypes, signalVars
<1>6. CASE Signal
  <2>1. dealt \subseteq Cards
    BY DEF DeckInv, NoCardLost, Cards, Card, Questions
  <2>2. PICK b \in Badges, card \in dealt, n \in 1..MaxAttempt :
           \/ BadgeStarted([badge |-> b, question |-> card, attempt |-> n])
           \/ PanicEvent([badge |-> b, question |-> card, attempt |-> n])
    BY <1>6 DEF Signal
  <2>3. [badge |-> b, question |-> card, attempt |-> n] \in Event
    BY <2>1, <2>2 DEF Event
  <2>4. winners' = winners
    BY <1>6 DEF Signal, closingVars
  <2>5. QED  BY <2>2, <2>3, <2>4, SignalTyped
<1>7. CASE Start \/ DealCard \/ RecycleAndDeal \/ RecycleInVain \/ StopDealing
  BY <1>0, <1>7 DEF Start, DealCard, RecycleAndDeal, RecycleInVain, StopDealing, closingVars
<1>8. CASE ArmTimer \/ WakeOnTick \/ RecordFault
  BY <1>0, <1>8 DEF ArmTimer, WakeOnTick, RecordFault, closingVars
<1>9. CASE ApplyModifier \/ ExtendThirtySeconds \/ EndRound
  BY <1>0, <1>9 DEF ApplyModifier, ExtendThirtySeconds, EndRound, closingVars
<1>10. CASE ActivityCompletes \/ ActivityTimesOut
  BY <1>0, <1>10 DEF ActivityCompletes, ActivityTimesOut, CloseActivity, closingVars
<1>11. CASE TimerFires \/ AdvanceClock
  BY <1>0, <1>11 DEF TimerFires, AdvanceClock, closingVars
<1>12. CASE Terminated \/ UNCHANGED vars
  BY <1>0, <1>12 DEF Terminated, vars, closingVars
<1>13. QED
  BY <1>3, <1>4, <1>5, <1>6, <1>7, <1>8, <1>9, <1>10, <1>11, <1>12
     DEF Next, RunLoop, Environment

\* The modifiers' invariant holds throughout a round.
LEMMA ChaosAlways == Spec => []ChaosInv
BY ChaosInit, ChaosStep, PTL DEF Spec

\* Every variable of the round keeps the type the code gives it; counters that
\* are unsigned in the code never pass below zero (pending_activities above all).
THEOREM TypeCorrect == Spec => []TypeOK
<1>1. Spec => []LoopTypes
  BY LoopTypesInit, LoopTypesStep, ChaosAlways, PTL DEF Spec
<1>2. Spec => [](ScoreTypes /\ SignalTypes)
  BY RosterTypesInit, RosterTypesStep, DeckAlways, SlotsAlways, PTL DEF Spec
<1>3. QED
  BY <1>1, <1>2, TypesTogether, DeckAlways, SlotsAlways, ChaosAlways, PTL
-----------------------------------------------------------------------------
(***************************************************************************)
(* Sweeping.  ModifiersSwept bounds the clock by the end of a modifier;    *)
(* what a step maintains is a bound by the last sweep.  A pass takes no    *)
(* time, so the tick it arms is due at most a TickLength after its sweep,  *)
(* and every modifier on record ends after the last sweep (ChaosInv).      *)
(***************************************************************************)
SweepInv ==
    /\ pc \in {"deal", "arm"} => clock = lastSweep
    /\ pc = "wait" => /\ timer.due <= lastSweep + TickLength
                      /\ clock <= lastSweep + TickLength + MaxLag

sweepState == <<clock, lastSweep, timer, pc>>

LEMMA SweepInit == Init => SweepInv
BY DEF Init, SweepInv

\* Every step keeps SweepInv.
LEMMA SweepStep == TypeOK /\ SweepInv /\ [Next]_vars => SweepInv'
<1> SUFFICES ASSUME TypeOK, SweepInv, [Next]_vars  PROVE SweepInv'
  OBVIOUS
<1> USE TimesAssumption
<1>0. ASSUME UNCHANGED sweepState  PROVE SweepInv'
  BY <1>0 DEF SweepInv, sweepState
<1>a. clock \in Nat /\ lastSweep \in Nat /\ deadline \in Nat /\ timer.due \in Nat
  BY DEF TypeOK
<1>1. CASE BeginPass
  BY <1>1 DEF BeginPass, ExpireChaos, Finish, SweepInv
<1>2. CASE ArmTimer
  <2>1. pc' = "wait" /\ clock' = clock /\ lastSweep' = lastSweep /\ clock = lastSweep
    BY <1>2 DEF ArmTimer, SweepInv
  <2>2. timer'.due = IF deadline - clock < TickLength
                     THEN deadline ELSE clock + TickLength
    BY <1>2 DEF ArmTimer
  <2>3. timer'.due <= lastSweep + TickLength
    BY <1>a, <2>1, <2>2
  <2>4. clock <= lastSweep + TickLength + MaxLag
    BY <1>a, <2>1
  <2>5. QED  BY <2>1, <2>3, <2>4 DEF SweepInv
<1>3. CASE AdvanceClock
  <2>1. /\ pc = "wait" /\ pc' = pc /\ clock' = clock + 1 /\ clock < timer.due + MaxLag
        /\ timer' = timer /\ lastSweep' = lastSweep
    BY <1>3 DEF AdvanceClock
  <2>2. timer.due <= lastSweep + TickLength
    BY <2>1 DEF SweepInv
  <2>3. clock + 1 <= lastSweep + TickLength + MaxLag
    BY <1>a, <2>1, <2>2
  <2>4. QED  BY <2>1, <2>2, <2>3 DEF SweepInv
<1>4. CASE Start \/ WakeOnTick \/ DeckExhausted \/ RecordAnswer \/ RecordFault
  <2>1. pc' \in {"top", "done"}
    BY <1>4 DEF Start, WakeOnTick, DeckExhausted, RecordAnswer, RecordFault, Finish
  <2>2. QED  BY <2>1 DEF SweepInv
<1>5. CASE DealCard \/ RecycleAndDeal \/ RecycleInVain \/ StopDealing
  <2>1. pc = "deal" /\ pc' \in {"deal", "arm"} /\ UNCHANGED <<clock, lastSweep>>
    BY <1>5 DEF DealCard, RecycleAndDeal, RecycleInVain, StopDealing
  <2>2. QED  BY <2>1 DEF SweepInv
<1>6. CASE ApplyModifier \/ ExtendThirtySeconds \/ EndRound \/ Signal
  BY <1>0, <1>6 DEF ApplyModifier, ExtendThirtySeconds, EndRound, Signal, sweepState
<1>7. CASE ActivityCompletes \/ ActivityTimesOut
  BY <1>0, <1>7 DEF ActivityCompletes, ActivityTimesOut, CloseActivity, sweepState
<1>8. CASE TimerFires
  <2>1. timer'.due = timer.due /\ pc' = pc /\ clock' = clock /\ lastSweep' = lastSweep
    BY <1>8 DEF TimerFires, TypeOK
  <2>2. QED  BY <2>1 DEF SweepInv
<1>9. CASE Terminated \/ UNCHANGED vars
  BY <1>0, <1>9 DEF Terminated, vars, sweepState
<1>10. QED
  BY <1>1, <1>2, <1>3, <1>4, <1>5, <1>6, <1>7, <1>8, <1>9 DEF Next, RunLoop, Environment

\* A modifier on record ends after the last sweep, so a clock bounded by the
\* last sweep is bounded by the modifier's end.
LEMMA SweptInTime == TypeOK /\ ChaosInv /\ SweepInv => ModifiersSwept
<1> SUFFICES ASSUME TypeOK, ChaosInv, SweepInv, pc = "wait",
                    NEW until \in {doubleUntil, rustUntil}, until # Unset
             PROVE  clock < until + TickLength + MaxLag
  BY DEF ModifiersSwept
<1>1. until \in Nat /\ until > lastSweep
  BY DEF ChaosInv, Timed
<1>2. clock \in Nat /\ lastSweep \in Nat /\ clock <= lastSweep + TickLength + MaxLag
  BY DEF TypeOK, SweepInv
<1>3. QED  BY <1>1, <1>2, TimesAssumption

\* A timed modifier is swept within a tick and the worker's lag of its end,
\* for every tick length and lag (expire_chaos, the tick of run).
THEOREM ModifiersSweptInTime == Spec => []ModifiersSwept
BY TypeCorrect, ChaosAlways, SweepInit, SweepStep, SweptInTime, PTL DEF Spec
-----------------------------------------------------------------------------
(***************************************************************************)
(* The round implements its ledger.  A question is out from the deal that  *)
(* schedules it to the pass that consumes its result; SlotInv makes these  *)
(* two steps add and remove exactly one question.                          *)
(***************************************************************************)
PhaseInv ==
    /\ pc = "start" => status = "waiting"
    /\ pc = "done" => status = "finished"
    /\ pc \in {"top", "deal", "arm", "wait"} => status = "running"
    /\ pc \in {"start", "top", "deal", "arm", "wait", "done"}

\* status follows the loop's position throughout a round.
LEMMA PhaseAlways == Spec => []PhaseInv
<1>1. Init => PhaseInv
  BY DEF Init, PhaseInv
<1>2. PhaseInv /\ [Next]_vars => PhaseInv'
  <2> SUFFICES ASSUME PhaseInv, [Next]_vars  PROVE PhaseInv'
    OBVIOUS
  <2>0. ASSUME UNCHANGED <<pc, status>>  PROVE PhaseInv'
    BY <2>0 DEF PhaseInv
  <2>1. CASE Start
    BY <2>1 DEF Start, PhaseInv
  <2>2. CASE BeginPass
    BY <2>2 DEF BeginPass, Finish, PhaseInv, closingVars
  <2>3. CASE DealCard \/ RecycleAndDeal \/ RecycleInVain \/ StopDealing
    BY <2>3 DEF DealCard, RecycleAndDeal, RecycleInVain, StopDealing, PhaseInv, closingVars
  <2>4. CASE DeckExhausted \/ ArmTimer \/ WakeOnTick
    BY <2>4 DEF DeckExhausted, ArmTimer, WakeOnTick, Finish, PhaseInv, closingVars
  <2>5. CASE RecordAnswer \/ RecordFault
    BY <2>5 DEF RecordAnswer, RecordFault, TakeResult, Finish, PhaseInv, closingVars
  <2>6. CASE ApplyModifier \/ ExtendThirtySeconds \/ EndRound \/ Signal
    BY <2>0, <2>6 DEF ApplyModifier, ExtendThirtySeconds, EndRound, Signal, closingVars
  <2>7. CASE ActivityCompletes \/ ActivityTimesOut
    BY <2>0, <2>7 DEF ActivityCompletes, ActivityTimesOut, CloseActivity, closingVars
  <2>8. CASE TimerFires \/ AdvanceClock
    BY <2>0, <2>8 DEF TimerFires, AdvanceClock, closingVars
  <2>9. CASE Terminated \/ UNCHANGED vars
    BY <2>0, <2>9 DEF Terminated, vars, closingVars
  <2>10. QED
    BY <2>1, <2>2, <2>3, <2>4, <2>5, <2>6, <2>7, <2>8, <2>9 DEF Next, RunLoop, Environment
<1>3. QED  BY <1>1, <1>2, PTL DEF Spec

Settled == dealt \ QuestionsOut

\* Only dealt questions are out.
LEMMA OutWasDealt ==
    ASSUME SlotInv
    PROVE  QuestionsOut \subseteq dealt
BY DEF SlotInv, PendingSound, ClosedSound, QuestionsOut

\* Scheduling a card hands out exactly that question.
LEMMA ScheduleHandsOut ==
    ASSUME SlotInv, NEW deck, NEW i, Schedule(deck, i), deck[i] \notin dealt,
           closed' = closed
    PROVE  /\ QuestionsOut' = QuestionsOut \cup {deck[i]}
           /\ deck[i] \notin QuestionsOut \cup Settled
           /\ Settled' = Settled
<1>1. DOMAIN pending' = DOMAIN pending \cup {deck[i]} /\ dealt' = dealt \cup {deck[i]}
  BY DEF Schedule
<1>2. QuestionsOut' = QuestionsOut \cup {deck[i]}
  BY <1>1 DEF QuestionsOut
<1>3. QED  BY <1>1, <1>2, OutWasDealt DEF Settled

\* Consuming a result settles exactly its question.
LEMMA TakeResultSettles ==
    ASSUME SlotInv, TakeResult
    PROVE  \E q \in QuestionsOut : /\ QuestionsOut' = QuestionsOut \ {q}
                                   /\ Settled' = Settled \cup {q}
<1> DEFINE q == closed[1].card
<1>1. /\ closed # <<>> /\ closed' = Tail(closed) /\ pending' = pending /\ dealt' = dealt
  BY DEF TakeResult
<1>2. closed \in Seq(Result)
  BY DEF SlotInv, ClosedSound
<1>3. /\ Len(closed) \in Nat /\ Len(closed) >= 1 /\ Len(closed') = Len(closed) - 1
      /\ \A i \in 1..Len(closed') : closed'[i] = closed[i + 1]
  BY <1>1, <1>2
<1>4. /\ \A i \in 1..Len(closed) : closed[i].card \in dealt \ DOMAIN pending
      /\ \A i, j \in 1..Len(closed) : closed[i].card = closed[j].card => i = j
  BY DEF SlotInv, ClosedSound
<1>5. 1 \in 1..Len(closed)
  BY <1>3
<1>6. q \in QuestionsOut /\ q \in dealt /\ q \notin DOMAIN pending
  BY <1>4, <1>5 DEF QuestionsOut
<1> DEFINE before == {closed[i].card : i \in 1..Len(closed)}
           after  == {closed'[i].card : i \in 1..Len(closed')}
<1>7. after = before \ {q}
  <2>1. ASSUME NEW x \in after  PROVE x \in before \ {q}
    <3>1. PICK i \in 1..Len(closed') : x = closed'[i].card
      BY <2>1
    <3>2. (i + 1) \in 1..Len(closed) /\ i + 1 # 1 /\ x = closed[i + 1].card
      BY <1>3, <3>1
    <3>3. QED  BY <1>4, <1>5, <3>2
  <2>2. ASSUME NEW x \in before \ {q}  PROVE x \in after
    <3>1. PICK i \in 1..Len(closed) : x = closed[i].card
      BY <2>2
    <3>2. i # 1
      BY <2>2, <3>1
    <3>3. (i - 1) \in 1..Len(closed') /\ closed'[i - 1] = closed[(i - 1) + 1]
      BY <1>3, <3>2
    <3>4. closed[(i - 1) + 1].card = x
      BY <3>1
    <3>5. QED  BY <3>3, <3>4
  <2>3. QED  BY <2>1, <2>2
<1>8. QuestionsOut = DOMAIN pending \cup before /\ QuestionsOut' = DOMAIN pending \cup after
  BY <1>1 DEF QuestionsOut
<1> HIDE DEF q, before, after
<1>9. QuestionsOut' = QuestionsOut \ {q}
  BY <1>6, <1>7, <1>8
<1>10. Settled' = Settled \cup {q}
  BY <1>1, <1>6, <1>9 DEF Settled
<1>11. QED  BY <1>6, <1>9, <1>10

\* Closing an Activity keeps its question out.
LEMMA CloseActivityKeepsOut ==
    ASSUME SlotInv, NEW card \in DOMAIN pending, NEW b \in Badges, NEW verdict \in Verdicts,
           CloseActivity(card, b, verdict)
    PROVE  QuestionsOut' = QuestionsOut /\ dealt' = dealt
<1> DEFINE r == [card |-> card, badge |-> b, verdict |-> verdict]
<1>1. /\ DOMAIN pending' = DOMAIN pending \ {card} /\ dealt' = dealt
      /\ closed' = Append(closed, r)
  BY DEF CloseActivity
<1>2. closed \in Seq(Result) /\ r.card = card
  BY DEF SlotInv, ClosedSound
<1> HIDE DEF r
<1>3. /\ Len(closed) \in Nat /\ Len(closed') = Len(closed) + 1
      /\ \A i \in 1..Len(closed) : closed'[i] = closed[i]
      /\ closed'[Len(closed) + 1] = r
  BY <1>1, <1>2
<1>4. {closed'[i].card : i \in 1..Len(closed')}
         = {closed[i].card : i \in 1..Len(closed)} \cup {card}
  <2>1. 1..Len(closed') = (1..Len(closed)) \cup {Len(closed) + 1}
    BY <1>3
  <2>2. QED  BY <1>2, <1>3, <2>1
<1>5. QED  BY <1>1, <1>4 DEF QuestionsOut

\* Every step of the round is a step of its ledger or leaves the ledger alone.
LEMMA LedgerStep ==
    SlotInv /\ DeckInv /\ PhaseInv /\ [Next]_vars => [Promise!Next]_(Promise!roundVars)
<1> SUFFICES ASSUME SlotInv, DeckInv, PhaseInv, [Next]_vars
             PROVE  Promise!Next \/ UNCHANGED <<status, QuestionsOut, Settled, completed>>
  BY DEF Promise!roundVars, Settled
<1>0. ASSUME UNCHANGED <<status, pending, closed, dealt, completed>>
      PROVE  UNCHANGED <<status, QuestionsOut, Settled, completed>>
  BY <1>0 DEF QuestionsOut, Settled
<1>0a. ASSUME status = "running", status' = "finished", UNCHANGED <<pending, closed, dealt, completed>>
       PROVE  Promise!Close
  BY <1>0a DEF Promise!Close, QuestionsOut
<1>1. CASE Start
  <2>1. status = "waiting" /\ status' = "running"
    BY <1>1 DEF Start, PhaseInv
  <2>2. UNCHANGED <<QuestionsOut, Settled, completed>>
    BY <1>1 DEF Start, QuestionsOut, Settled, deckVars, resultVars
  <2>3. Promise!Open
    BY <2>1, <2>2 DEF Promise!Open, Settled
  <2>4. QED  BY <2>3 DEF Promise!Next
<1>2. CASE BeginPass
  <2>1. UNCHANGED <<pending, closed, dealt, completed>> /\ status = "running"
    BY <1>2 DEF BeginPass, PhaseInv, deckVars, resultVars
  <2>2. status' = "finished" \/ status' = status
    BY <1>2 DEF BeginPass, Finish, closingVars
  <2>3. QED  BY <1>0, <1>0a, <2>1, <2>2 DEF Promise!Next
<1>3. CASE DeckExhausted
  <2>1. UNCHANGED <<pending, closed, dealt, completed>> /\ status = "running"
    BY <1>3 DEF DeckExhausted, PhaseInv, deckVars, resultVars
  <2>2. status' = "finished"
    BY <1>3 DEF DeckExhausted, Finish
  <2>3. QED  BY <1>0a, <2>1, <2>2 DEF Promise!Next
<1>4. ASSUME NEW deck, NEW i, Schedule(deck, i), deck[i] \notin dealt,
             status = "running", UNCHANGED <<status, closed, completed>>
      PROVE  Promise!Next
  <2>1. /\ QuestionsOut' = QuestionsOut \cup {deck[i]}
        /\ deck[i] \notin QuestionsOut \cup Settled
        /\ Settled' = Settled
    BY <1>4, ScheduleHandsOut
  <2>2. Promise!HandOut
    BY <1>4, <2>1 DEF Promise!HandOut, Settled
  <2>3. QED  BY <2>2 DEF Promise!Next
<1>5. CASE DealCard
  <2>1. PICK i \in 1..Len(available) : Schedule(available, i)
    BY <1>5 DEF DealCard
  <2>2. available[i] \notin dealt
    BY <2>1, ScheduleMovesACard DEF DeckInv, NoCardLost
  <2>3. status = "running" /\ UNCHANGED <<status, closed, completed>>
    BY <1>5 DEF DealCard, PhaseInv, closingVars, resultVars
  <2>4. QED  BY <1>4, <2>1, <2>2, <2>3
<1>6. CASE RecycleAndDeal
  <2>1. PICK i \in 1..Len(Recycled) : Schedule(Recycled, i)
    BY <1>6 DEF RecycleAndDeal
  <2>2. Recycled[i] \notin dealt
    BY <2>1, RecycledCards, ScheduleMovesACard DEF DeckInv
  <2>3. status = "running" /\ UNCHANGED <<status, closed, completed>>
    BY <1>6 DEF RecycleAndDeal, PhaseInv, closingVars, resultVars
  <2>4. QED  BY <1>4, <2>1, <2>2, <2>3
<1>7. CASE RecordAnswer \/ RecordFault
  <2>1. PICK q \in QuestionsOut : /\ QuestionsOut' = QuestionsOut \ {q}
                                  /\ Settled' = Settled \cup {q}
    BY <1>7, TakeResultSettles DEF RecordAnswer, RecordFault
  <2>2. status = "running"
    BY <1>7 DEF RecordAnswer, RecordFault, TakeResult, PhaseInv
  <2>3. /\ completed' \in {completed, completed + 1}
        /\ status' \in {"running", "finished"}
        /\ status' = "finished" => completed' = completed + 1
    BY <1>7, <2>2 DEF RecordAnswer, RecordFault, Finish, closingVars
  <2>4. Promise!Settle
    BY <2>1, <2>2, <2>3 DEF Promise!Settle, Settled
  <2>5. QED  BY <2>4 DEF Promise!Next
<1>8. CASE ActivityCompletes \/ ActivityTimesOut
  <2>1. \E card \in DOMAIN pending, b \in Badges, verdict \in Verdicts :
           CloseActivity(card, b, verdict)
    BY <1>8, AnswersAssumption DEF ActivityCompletes, ActivityTimesOut, Verdicts
  <2>2. PICK card \in DOMAIN pending, b \in Badges, verdict \in Verdicts :
           CloseActivity(card, b, verdict)
    BY <2>1
  <2>3. QuestionsOut' = QuestionsOut /\ dealt' = dealt
    BY <2>2, CloseActivityKeepsOut
  <2>4. UNCHANGED <<status, completed>>
    BY <2>2 DEF CloseActivity, closingVars, resultVars
  <2>5. QED  BY <2>3, <2>4 DEF Settled
<1>9. CASE RecycleInVain \/ StopDealing \/ ArmTimer \/ WakeOnTick
  BY <1>0, <1>9 DEF RecycleInVain, StopDealing, ArmTimer, WakeOnTick, deckVars, resultVars,
                    closingVars
<1>10. CASE ApplyModifier \/ ExtendThirtySeconds \/ EndRound \/ Signal
  BY <1>0, <1>10 DEF ApplyModifier, ExtendThirtySeconds, EndRound, Signal, deckVars,
                     resultVars, closingVars
<1>11. CASE TimerFires \/ AdvanceClock
  BY <1>0, <1>11 DEF TimerFires, AdvanceClock, deckVars, resultVars, closingVars
<1>12. CASE Terminated \/ UNCHANGED vars
  BY <1>0, <1>12 DEF Terminated, vars, deckVars, resultVars, closingVars
<1>13. QED
  BY <1>1, <1>2, <1>3, <1>5, <1>6, <1>7, <1>8, <1>9, <1>10, <1>11, <1>12
     DEF Next, RunLoop, Environment

\* The Workflow implements the ledger of Round: a question is handed out once,
\* settled once and scored once, only while the round runs, and the finished
\* ledger never changes (run, record_answer).
THEOREM RoundKeepsItsPromise == Spec => KeepsPromise
<1>1. Init => Promise!Init
  BY DEF Init, Promise!Init, QuestionsOut
<1>2. QED
  BY <1>1, LedgerStep, SlotsAlways, DeckAlways, PhaseAlways, PTL
     DEF Spec, KeepsPromise, Promise!Spec
=============================================================================
