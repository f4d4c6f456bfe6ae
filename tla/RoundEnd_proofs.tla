--------------------------- MODULE RoundEnd_proofs ---------------------------
(***************************************************************************)
(* Proofs about how a round of GameWorkflow is kept going and how it ends: *)
(* the slots stay filled, the loop leaves only for a reason, and the last  *)
(* scoreboard names the winners.                                           *)
(***************************************************************************)
EXTENDS GameWorkflow_proofs

-----------------------------------------------------------------------------
(***************************************************************************)
(* Late answers.  Only the deadline's pass looks at the deadline, and it   *)
(* comes before the next result: an answer scored late leaves the loop at  *)
(* the head of a pass that finds the deadline passed.                      *)
(***************************************************************************)
LateInv ==
    /\ lateAnswers \in {0, 1}
    /\ lateAnswers = 1 => \/ pc = "done"
                          \/ pc = "top" /\ clock >= deadline

lateState == <<lateAnswers, pc, clock, deadline>>

\* Every step keeps LateInv.
LEMMA LateStep == LateInv /\ [Next]_vars => LateInv'
<1> SUFFICES ASSUME LateInv, [Next]_vars  PROVE LateInv'
  OBVIOUS
<1>0. ASSUME UNCHANGED lateState  PROVE LateInv'
  BY <1>0 DEF LateInv, lateState
<1>1. CASE Start
  <2>1. lateAnswers = 0 /\ lateAnswers' = lateAnswers
    BY <1>1 DEF Start, LateInv, resultVars
  <2>2. QED  BY <2>1 DEF LateInv
<1>2. CASE BeginPass
  <2>1. pc = "top" /\ lateAnswers' = lateAnswers
    BY <1>2 DEF BeginPass, resultVars
  <2>2. CASE Over
    BY <1>2, <2>1, <2>2 DEF BeginPass, Finish, LateInv
  <2>3. CASE ~Over
    BY <2>1, <2>3 DEF Over, LateInv
  <2>4. QED  BY <2>2, <2>3
<1>3. CASE DealCard \/ RecycleAndDeal \/ RecycleInVain \/ StopDealing \/ ArmTimer \/ WakeOnTick
  <2>1. pc \in {"deal", "arm", "wait"} /\ lateAnswers' = lateAnswers
    BY <1>3 DEF DealCard, RecycleAndDeal, RecycleInVain, StopDealing, ArmTimer,
                WakeOnTick, resultVars
  <2>2. lateAnswers' = 0
    BY <2>1 DEF LateInv
  <2>3. QED  BY <2>2 DEF LateInv
<1>4. CASE DeckExhausted
  BY <1>4 DEF DeckExhausted, Finish, LateInv, resultVars
<1>5. CASE RecordAnswer
  <2>1. pc = "wait" /\ clock' = clock /\ deadline' = deadline
    BY <1>5 DEF RecordAnswer, TakeResult
  <2>2. lateAnswers = 0
    BY <2>1 DEF LateInv
  <2>3. lateAnswers' = IF clock >= deadline THEN 1 ELSE 0
    BY <1>5, <2>2 DEF RecordAnswer
  <2>4. pc' \in {"top", "done"}
    BY <1>5 DEF RecordAnswer, Finish
  <2>5. QED  BY <2>1, <2>3, <2>4 DEF LateInv
<1>6. CASE RecordFault
  <2>1. pc = "wait" /\ lateAnswers' = lateAnswers
    BY <1>6 DEF RecordFault, TakeResult
  <2>2. QED  BY <2>1 DEF LateInv
<1>7. CASE Environment
  <2>1. pc = "wait" /\ lateAnswers' = lateAnswers
    BY <1>7 DEF Environment, ApplyModifier, ExtendThirtySeconds, EndRound, Signal,
                ActivityCompletes, ActivityTimesOut, CloseActivity, TimerFires,
                AdvanceClock, resultVars
  <2>2. QED  BY <2>1 DEF LateInv
<1>8. CASE Terminated \/ UNCHANGED vars
  BY <1>0, <1>8 DEF Terminated, vars, resultVars, lateState
<1>9. QED
  BY <1>1, <1>2, <1>3, <1>4, <1>5, <1>6, <1>7, <1>8 DEF Next, RunLoop

\* In a whole round at most one answer is scored at or after the deadline, for
\* every lag of the worker and every order of results (record_answer, run).
THEOREM AtMostOneLateAnswer == Spec => []OneLateAnswer
<1>1. Init => LateInv
  BY DEF Init, LateInv
<1>2. LateInv => OneLateAnswer
  BY DEF LateInv, OneLateAnswer
<1>3. QED  BY <1>1, <1>2, LateStep, PTL DEF Spec

-----------------------------------------------------------------------------
(***************************************************************************)
(* The field.  A pass leaves the dealing with every slot taken or with no  *)
(* card to deal, and the loop sleeps on what that pass left.               *)
(***************************************************************************)

\* A deck with a card that may be dealt has a first one.
LEMMA EligibleIsNext ==
    ASSUME NEW deck, Len(deck) \in Nat, NEW rustOnly,
           NEW i \in 1..Len(deck), rustOnly => deck[i].question \in Rust
    PROVE  HasNext(deck, rustOnly)
<1> DEFINE eligible == {j \in 1..Len(deck) : rustOnly => deck[j].question \in Rust}
<1>1. eligible \subseteq Nat /\ i \in eligible
  OBVIOUS
<1>2. PICK k \in eligible : \A j \in eligible : k <= j
  BY <1>1, LeastNatural
<1>3. IsNext(deck, rustOnly, k) /\ k \in 1..Len(deck)
  BY <1>2 DEF IsNext
<1>4. QED  BY <1>3 DEF HasNext

\* A template that holds a question the round may deal now.
Serves ==
    /\ input.questions # <<>>
    /\ rustUntil = Unset \/ ToSet(input.questions) \cap Rust # {}

\* A recycled deck is never empty, and its new cycle holds every question of
\* the template: recycling one that serves the modifier is never in vain.
LEMMA RecycledServes ==
    ASSUME DeckInv, ChaosInv, input.questions # <<>>
    PROVE  Recycled # <<>> /\ (Serves => HasNext(Recycled, RustOnly))
<1> DEFINE s     == input.questions
           fresh == RefillQuestionDeck(s, deckCycle + 1)
<1>1. /\ s \in Seq(Questions) /\ IsInjective(s) /\ s # <<>>
      /\ (deckCycle + 1) \in Nat \ {0}
  BY Templates DEF DeckInv
<1>2. ToSet(fresh) = CardsOf(s, deckCycle + 1)
  BY <1>1, RefillIsAPermutation
<1>3. CardsOf(s, deckCycle + 1) \subseteq ToSet(Recycled)
  <2>1. /\ available \in Seq(Cards) /\ fresh \in Seq(Cards)
        /\ IsInjective(available) /\ IsInjective(fresh)
    BY <1>1, RefillIsAPermutation DEF DeckInv, NoCardLost, Cards
  <2>2. ToSet(available) \cap ToSet(fresh) = {}
    <3>1. ToSet(available) \subseteq CardsUpTo(deckCycle)
      BY DEF DeckInv, NoCardLost, CardsUpTo
    <3>2. CardsUpTo(deckCycle) \cap CardsOf(s, deckCycle + 1) = {}
      BY LaterCycle DEF DeckInv
    <3>3. QED  BY <1>2, <3>1, <3>2
  <2> HIDE DEF fresh
  <2>3. ToSet(available \o fresh) = ToSet(available) \cup ToSet(fresh)
    BY <2>1, <2>2, ConcatSet
  <2>4. QED  BY <1>2, <2>3 DEF Recycled, fresh
<1> HIDE DEF fresh
<1>4. Recycled \in Seq(Cards) /\ DOMAIN Recycled = 1..Len(Recycled) /\ Len(Recycled) \in Nat
  BY RecycledCards
<1>5. ASSUME NEW q \in ToSet(s)
      PROVE  \E i \in 1..Len(Recycled) : Recycled[i].question = q
  <2>1. Card(q, deckCycle + 1) \in ToSet(Recycled)
    BY <1>3 DEF CardsOf
  <2>2. PICK i \in 1..Len(Recycled) : Recycled[i] = Card(q, deckCycle + 1)
    BY <1>4, <2>1 DEF ToSet
  <2>3. QED  BY <2>2 DEF Card
<1>6. ToSet(s) # {}
  <2>1. Len(s) \in Nat /\ Len(s) # 0 /\ DOMAIN s = 1..Len(s)
    BY <1>1
  <2>2. 1 \in DOMAIN s
    BY <2>1
  <2>3. QED  BY <2>2 DEF ToSet
<1>7. PICK i \in 1..Len(Recycled) : TRUE
  BY <1>5, <1>6
<1>8. Recycled # <<>>
  BY <1>4, <1>7
<1>9. ASSUME Serves  PROVE HasNext(Recycled, RustOnly)
  <2>1. CASE rustUntil = Unset
    <3>1. ~RustOnly
      BY <2>1 DEF RustOnly, Unset, ChaosInv
    <3>2. RustOnly => Recycled[i].question \in Rust
      BY <3>1
    <3>3. QED  BY <1>4, <3>2, EligibleIsNext
  <2>2. CASE ToSet(s) \cap Rust # {}
    <3>1. PICK q \in ToSet(s) : q \in Rust
      BY <2>2
    <3>2. PICK k \in 1..Len(Recycled) : Recycled[k].question = q
      BY <1>5
    <3>3. QED  BY <1>4, <3>1, <3>2, EligibleIsNext
  <2>3. QED  BY <1>9, <2>1, <2>2 DEF Serves
<1>10. QED  BY <1>8, <1>9
\* The slots are positive as soon as a card was dealt; a pass that stops with a
\* slot open has no card to deal; and a template that serves the modifier in
\* force leaves no slot open.
FedInv ==
    /\ dealt # {} => ActivityTarget > 0
    /\ pc = "arm" => \/ outstanding >= ActivityTarget
                     \/ available # <<>>
                     \/ input.questions = <<>>
    /\ pc \in {"arm", "wait"} /\ input.eligibleRefill /\ Serves
          => outstanding >= ActivityTarget

fedState == <<input, rustUntil, available, outstanding, dealt, pc>>

\* A card is scheduled into an open slot only.
LEMMA ScheduleFeeds ==
    ASSUME FedInv, SlotInv, DeckInv, input' = input, pc = "deal", pc' = pc,
           outstanding < ActivityTarget
    PROVE  FedInv'
<1>1. outstanding \in Nat /\ ActivityTarget \in Int
  BY TargetInt DEF SlotInv, CountersSound
<1>2. ActivityTarget > 0 /\ ActivityTarget' = ActivityTarget
  BY <1>1 DEF ActivityTarget
<1>3. QED  BY <1>2 DEF FedInv

\* Every step keeps FedInv.
LEMMA FedStep ==
    FedInv /\ SlotInv /\ DeckInv /\ ChaosInv /\ [Next]_vars => FedInv'
<1> SUFFICES ASSUME FedInv, SlotInv, DeckInv, ChaosInv, [Next]_vars  PROVE FedInv'
  OBVIOUS
<1>0. ASSUME UNCHANGED fedState  PROVE FedInv'
  BY <1>0 DEF FedInv, fedState, ActivityTarget, Serves
<1>a. ASSUME UNCHANGED <<input, dealt>>, pc' \notin {"arm", "wait"}  PROVE FedInv'
  BY <1>a DEF FedInv, ActivityTarget
<1>1. CASE Start \/ BeginPass \/ DeckExhausted \/ WakeOnTick \/ RecordAnswer \/ RecordFault
  <2>1. UNCHANGED <<input, dealt>>
    BY <1>1 DEF Start, BeginPass, DeckExhausted, WakeOnTick, RecordAnswer, RecordFault,
                TakeResult, deckVars
  <2>2. pc' \in {"top", "deal", "done"}
    BY <1>1 DEF Start, BeginPass, DeckExhausted, WakeOnTick, RecordAnswer, RecordFault,
                Finish
  <2>3. QED  BY <1>a, <2>1, <2>2
<1>2. CASE DealCard \/ RecycleAndDeal
  BY <1>2, ScheduleFeeds DEF DealCard, RecycleAndDeal
<1>3. CASE RecycleInVain
  <2>1. /\ input' = input /\ dealt' = dealt /\ outstanding' = outstanding
        /\ rustUntil' = rustUntil /\ available' = Recycled /\ pc' = "arm"
        /\ input.questions # <<>> /\ ~HasNext(Recycled, RustOnly)
    BY <1>3 DEF RecycleInVain, CanRecycle, MayRecycle, chaosVars
  <2>2. Recycled # <<>> /\ ~Serves
    BY <2>1, RecycledServes
  <2>3. ~Serves' /\ ActivityTarget' = ActivityTarget
    BY <2>1, <2>2 DEF Serves, ActivityTarget
  <2>4. QED  BY <2>1, <2>2, <2>3 DEF FedInv
<1>4. CASE StopDealing
  <2>1. /\ UNCHANGED <<input, dealt, outstanding, rustUntil, available>>
        /\ pc' = "arm"
        /\ \/ outstanding >= ActivityTarget
           \/ ~HasNext(available, RustOnly) /\ ~CanRecycle
    BY <1>4 DEF StopDealing, deckVars, chaosVars
  <2>2. CASE outstanding >= ActivityTarget
    BY <2>1, <2>2 DEF FedInv, ActivityTarget
  <2>3. CASE ~HasNext(available, RustOnly) /\ ~CanRecycle
    <3>1. ~MayRecycle(available, input.questions, input.eligibleRefill)
      BY <2>3 DEF CanRecycle
    <3>2. \/ input.questions = <<>>
          \/ available # <<>> /\ ~input.eligibleRefill
      BY <3>1 DEF MayRecycle
    <3>3. QED  BY <2>1, <3>2 DEF FedInv, ActivityTarget, Serves
  <2>4. QED  BY <2>1, <2>2, <2>3
<1>5. CASE ArmTimer
  <2>1. /\ UNCHANGED <<input, dealt, outstanding, rustUntil>>
        /\ pc = "arm" /\ pc' = "wait"
    BY <1>5 DEF ArmTimer, deckVars, chaosVars
  <2>2. QED  BY <2>1 DEF FedInv, ActivityTarget, Serves
<1>6. CASE ApplyModifier
  <2>1. /\ UNCHANGED <<input, dealt, outstanding, available>>
        /\ pc = "wait" /\ pc' = "wait"
    BY <1>6 DEF ApplyModifier, deckVars
  <2>2. rustUntil = Unset
    BY <1>6, AcceptedMeansNoneRecorded DEF ApplyModifier
  <2>3. Serves' => Serves
    BY <2>1, <2>2 DEF Serves
  <2>4. QED  BY <2>1, <2>3 DEF FedInv, ActivityTarget
<1>7. CASE ExtendThirtySeconds \/ EndRound \/ Signal
  BY <1>0, <1>7 DEF ExtendThirtySeconds, EndRound, Signal, deckVars, chaosVars, fedState
<1>8. CASE ActivityCompletes \/ ActivityTimesOut
  BY <1>0, <1>8 DEF ActivityCompletes, ActivityTimesOut, CloseActivity, chaosVars, fedState
<1>9. CASE TimerFires \/ AdvanceClock \/ Terminated \/ UNCHANGED vars
  BY <1>0, <1>9 DEF TimerFires, AdvanceClock, Terminated, vars, deckVars, chaosVars, fedState
<1>10. QED
  BY <1>1, <1>2, <1>3, <1>4, <1>5, <1>6, <1>7, <1>8, <1>9 DEF Next, RunLoop, Environment

LEMMA FedAlways == Spec => []FedInv
<1>1. Init => FedInv
  BY DEF Init, FedInv
<1>2. QED  BY <1>1, FedStep, SlotsAlways, DeckAlways, ChaosAlways, PTL DEF Spec

\* While the loop sleeps every slot holds a question, for every template that
\* serves the modifier in force (deal_question, next_ready_question, run).
THEOREM EverySlotIsFed == Spec => []FieldFed
<1>1. FedInv /\ SlotInv /\ DeckInv => FieldFed
  <2> SUFFICES ASSUME FedInv, SlotInv, DeckInv,
                      pc = "wait", input.eligibleRefill, input.questions # <<>>,
                      rustUntil = Unset \/ ToSet(input.questions) \cap Rust # {}
               PROVE  outstanding = ActivityTarget
    BY DEF FieldFed
  <2>1. outstanding >= ActivityTarget
    BY DEF FedInv, Serves
  <2>2. outstanding <= ActivityTarget /\ outstanding \in Nat
    BY DEF SlotInv, CountersSound, SlotsCounted
  <2>3. ActivityTarget \in Int
    BY TargetInt
  <2>4. QED  BY <2>1, <2>2, <2>3
<1>2. QED  BY <1>1, FedAlways, SlotsAlways, DeckAlways, PTL

\* With no question out, an empty deck means an empty template: without slots
\* nothing was ever dealt, and with one the pass would have recycled.
LEMMA ExhaustedMeansNoTemplate ==
    ASSUME FedInv, SlotInv, DeckInv, DeckExhausted
    PROVE  input.questions = <<>>
<1>1. pc = "arm" /\ DOMAIN pending = {} /\ closed = <<>> /\ available = <<>>
  BY DEF DeckExhausted, NothingPending
<1>2. outstanding = 0
  BY <1>1, FS_EmptySet DEF SlotInv, CountersSound, SlotsCounted
<1> SUFFICES ASSUME input.questions # <<>>  PROVE FALSE
  OBVIOUS
<1>3. ActivityTarget <= 0
  BY <1>1, <1>2, TargetInt DEF FedInv
<1>4. dealt = {}
  BY <1>3, TargetInt DEF FedInv
<1>5. ToSet(available) = {}
  <2>1. DOMAIN available = {}
    BY <1>1
  <2>2. QED  BY <2>1 DEF ToSet
<1>6. CardsUpTo(deckCycle) = {}
  <2>1. ToSet(available) \cup dealt = CardsUpTo(deckCycle)
    BY DEF DeckInv, NoCardLost, CardsUpTo
  <2>2. QED  BY <1>4, <1>5, <2>1
<1>7. input.questions[1] \in ToSet(input.questions)
  <2>1. input.questions \in Seq(Questions)
    BY Templates DEF DeckInv
  <2>2. 1 \in DOMAIN input.questions
    BY <2>1
  <2>3. QED  BY <2>2 DEF ToSet
<1>8. 1 \in 1..deckCycle
  BY DEF DeckInv
<1>9. Card(input.questions[1], 1) \in CardsUpTo(deckCycle)
  BY <1>7, <1>8 DEF CardsUpTo
<1>10. QED  BY <1>6, <1>9

\* A round closes early only for a correct answer under sudden death or for an
\* empty template, however results, Signals and Updates interleave (run).
THEOREM RoundClosesForAReason == Spec => ClosesForAReason
<1> DEFINE Reason == pc # "done" /\ pc' = "done" =>
                        \/ clock >= deadline
                        \/ /\ suddenDeath /\ closed # <<>>
                           /\ Head(closed).verdict = "correct"
                        \/ input.questions = <<>>
<1>1. FedInv /\ SlotInv /\ DeckInv /\ [Next]_vars => [Reason]_vars
  <2> SUFFICES ASSUME FedInv, SlotInv, DeckInv, Next, pc # "done", pc' = "done"
               PROVE  Reason
    OBVIOUS
  <2>1. CASE BeginPass
    BY <2>1 DEF BeginPass, Over
  <2>2. CASE RecordAnswer
    <3> DEFINE correct == Head(closed).verdict = "correct"
    <3>1. closed # <<>>
      BY <2>2 DEF RecordAnswer, TakeResult
    <3>2. EndsRound(correct)
      BY <2>2 DEF RecordAnswer
    <3>3. QED  BY <3>1, <3>2 DEF EndsRound
  <2>3. CASE DeckExhausted
    BY <2>3, ExhaustedMeansNoTemplate
  <2>4. CASE Start \/ DealCard \/ RecycleAndDeal \/ RecycleInVain \/ StopDealing
             \/ ArmTimer \/ WakeOnTick \/ RecordFault
    BY <2>4 DEF Start, DealCard, RecycleAndDeal, RecycleInVain, StopDealing, ArmTimer,
                WakeOnTick, RecordFault
  <2>5. CASE Environment
    BY <2>5 DEF Environment, ApplyModifier, ExtendThirtySeconds, EndRound, Signal,
                ActivityCompletes, ActivityTimesOut, CloseActivity, TimerFires, AdvanceClock
  <2>6. CASE Terminated
    BY <2>6 DEF Terminated
  <2>7. QED  BY <2>1, <2>2, <2>3, <2>4, <2>5, <2>6 DEF Next, RunLoop
<1>2. QED
  BY <1>1, FedAlways, SlotsAlways, DeckAlways, PTL DEF Spec, ClosesForAReason
-----------------------------------------------------------------------------
(***************************************************************************)
(* The final scoreboard.  A round leaves by one of three steps, and every  *)
(* one of them names the winners on the scoreboard it leaves behind, which *)
(* nothing touches afterwards.  That a scoreboard with a line has a badge  *)
(* at its top needs a bound on the scores: no line gains more than two     *)
(* points per scored answer.                                               *)
(***************************************************************************)
Bounded(board, answers) ==
    \A b \in DOMAIN board : board[b].score \in Int /\ board[b].score <= 2 * answers

BoardInv ==
    /\ players = [b \in DOMAIN players |-> players[b]]
    /\ completed \in Nat
    /\ Bounded(players, completed)
    /\ pc = "done" => winners = TopScorers(players)

boardState == <<players, completed, pc, winners>>

\* A bounded scoreboard with a line has a badge at its top.
LEMMA SomeoneLeads ==
    ASSUME NEW board, NEW answers \in Nat, Bounded(board, answers), DOMAIN board # {}
    PROVE  TopScorers(board) # {}
<1> DEFINE gap == {2 * answers - board[b].score : b \in DOMAIN board}
<1>1. gap \subseteq Nat /\ gap # {}
  BY DEF Bounded
<1>2. PICK g \in gap : \A h \in gap : g <= h
  BY <1>1, LeastNatural
<1>3. PICK b \in DOMAIN board : g = 2 * answers - board[b].score
  BY <1>2
<1>4. ASSUME NEW c \in DOMAIN board  PROVE board[c].score <= board[b].score
  <2>1. 2 * answers - board[b].score <= 2 * answers - board[c].score
    BY <1>2, <1>3
  <2>2. board[b].score \in Int /\ board[c].score \in Int
    BY DEF Bounded
  <2>3. QED  BY <2>1, <2>2
<1>5. b \in TopScorers(board)
  BY <1>4 DEF TopScorers
<1>6. QED  BY <1>5

\* Joining costs no bound.
LEMMA JoinedBounded ==
    ASSUME BoardInv, NEW b
    PROVE  /\ DOMAIN Joined(b) = DOMAIN players \cup {b}
           /\ Joined(b) = [x \in DOMAIN Joined(b) |-> Joined(b)[x]]
           /\ Bounded(Joined(b), completed)
<1>1. NewPlayer.score = 0
  BY DEF NewPlayer
<1>2. QED  BY <1>1 DEF Joined, BoardInv, Bounded

\* A scored answer moves one line by at most two points.
LEMMA ScoreBounded ==
    ASSUME BoardInv, NEW b, NEW correct \in BOOLEAN,
           ScoreAnswer(b, correct, ActivePoints)
    PROVE  /\ players' = [x \in DOMAIN players' |-> players'[x]]
           /\ Bounded(players', completed + 1)
<1> DEFINE J == Joined(b)
           s == IF correct THEN J[b].score + ActivePoints ELSE J[b].score - ActivePoints
<1>1. /\ DOMAIN J = DOMAIN players \cup {b}
      /\ J = [x \in DOMAIN J |-> J[x]]
      /\ Bounded(J, completed)
  BY JoinedBounded
<1>2. players' = [J EXCEPT
          ![b].score   = IF correct THEN @ + ActivePoints ELSE @ - ActivePoints,
          ![b].correct = IF correct THEN @ + 1 ELSE @,
          ![b].wrong   = IF correct THEN @ ELSE @ + 1]
  BY DEF ScoreAnswer
<1>3. ActivePoints \in {1, 2}
  BY DEF ActivePoints
<1> HIDE DEF J
<1>4. DOMAIN players' = DOMAIN J /\ players' = [x \in DOMAIN players' |-> players'[x]]
  BY <1>1, <1>2
<1>5. \A x \in DOMAIN J : x # b => players'[x] = J[x]
  BY <1>1, <1>2
<1>6. J[b].score \in Int /\ J[b].score <= 2 * completed
  BY <1>1 DEF Bounded
<1>7. players'[b].score \in Int /\ players'[b].score <= J[b].score + 2
  <2>0. DEFINE line == [J[b] EXCEPT
                           !.score   = IF correct THEN @ + ActivePoints
                                                  ELSE @ - ActivePoints,
                           !.correct = IF correct THEN @ + 1 ELSE @,
                           !.wrong   = IF correct THEN @ ELSE @ + 1]
  <2>1. players'[b] = line
    BY <1>1, <1>2
  <2>2. line.score = J[b].score \/ line.score = s
    OBVIOUS
  <2>3. s \in Int /\ s <= J[b].score + 2
    BY <1>3, <1>6
  <2> HIDE DEF line, s
  <2>4. QED  BY <1>6, <2>1, <2>2, <2>3
<1>8. completed \in Nat
  BY DEF BoardInv
<1>9. ASSUME NEW x \in DOMAIN players'
      PROVE  players'[x].score \in Int /\ players'[x].score <= 2 * (completed + 1)
  <2>1. CASE x = b
    BY <1>6, <1>7, <1>8, <2>1
  <2>2. CASE x # b
    <3>1. players'[x] = J[x] /\ J[x].score \in Int /\ J[x].score <= 2 * completed
      BY <1>1, <1>4, <1>5, <1>9, <2>2 DEF Bounded
    <3>2. QED  BY <1>8, <3>1
  <2>3. QED  BY <2>1, <2>2
<1>10. QED  BY <1>4, <1>9 DEF Bounded

\* A badge's Signal leaves the scores alone.
LEMMA SignalBounded ==
    ASSUME BoardInv, NEW event, BadgeStarted(event) \/ PanicEvent(event)
    PROVE  /\ players' = [x \in DOMAIN players' |-> players'[x]]
           /\ Bounded(players', completed)
<1> DEFINE J == Joined(event.badge)
<1>1. /\ J = [x \in DOMAIN J |-> J[x]]
      /\ Bounded(J, completed)
  BY JoinedBounded
<1>2. CASE BadgeStarted(event)
  BY <1>1, <1>2 DEF BadgeStarted
<1>3. CASE PanicEvent(event)
  <2>1. players' = [J EXCEPT ![event.badge].panics = @ + 1]
    BY <1>3 DEF PanicEvent
  <2> HIDE DEF J
  <2>2. DOMAIN players' = DOMAIN J /\ players' = [x \in DOMAIN players' |-> players'[x]]
    BY <1>1, <2>1
  <2>3. \A x \in DOMAIN J : players'[x].score = J[x].score
    BY <1>1, <2>1
  <2>4. QED  BY <1>1, <2>2, <2>3 DEF Bounded
<1>4. QED  BY <1>2, <1>3

\* Every step keeps BoardInv.
LEMMA BoardStep == BoardInv /\ [Next]_vars => BoardInv'
<1> SUFFICES ASSUME BoardInv, [Next]_vars  PROVE BoardInv'
  OBVIOUS
<1>0. ASSUME UNCHANGED boardState  PROVE BoardInv'
  BY <1>0 DEF BoardInv, boardState, Bounded, TopScorers
<1>a. ASSUME UNCHANGED <<players, completed>>,
             pc' = "done" => winners' = TopScorers(players)
      PROVE  BoardInv'
  BY <1>a DEF BoardInv, Bounded, TopScorers
<1>1. CASE BeginPass \/ DeckExhausted
  <2>1. UNCHANGED <<players, completed>>
    BY <1>1 DEF BeginPass, DeckExhausted, resultVars, rosterVars
  <2>2. pc' = "done" => winners' = TopScorers(players)
    BY <1>1 DEF BeginPass, DeckExhausted, Finish
  <2>3. QED  BY <1>a, <2>1, <2>2
<1>2. CASE Start \/ DealCard \/ RecycleAndDeal \/ RecycleInVain \/ StopDealing
        \/ ArmTimer \/ WakeOnTick \/ RecordFault
  <2>1. UNCHANGED <<players, completed>>
    BY <1>2 DEF Start, DealCard, RecycleAndDeal, RecycleInVain, StopDealing, ArmTimer,
                WakeOnTick, RecordFault, resultVars, rosterVars
  <2>2. pc' # "done"
    BY <1>2 DEF Start, DealCard, RecycleAndDeal, RecycleInVain, StopDealing, ArmTimer,
                WakeOnTick, RecordFault
  <2>3. QED  BY <1>a, <2>1, <2>2
<1>3. CASE RecordAnswer
  <2> DEFINE correct == Head(closed).verdict = "correct"
             badge == Head(closed).badge
  <2>1. /\ ScoreAnswer(badge, correct, ActivePoints)
        /\ IF EndsRound(correct) THEN Finish(players') ELSE pc' = "top"
        /\ completed' = completed + 1
    BY <1>3 DEF RecordAnswer
  <2>2. correct \in BOOLEAN
    OBVIOUS
  <2> HIDE DEF correct, badge
  <2>3. /\ players' = [x \in DOMAIN players' |-> players'[x]]
        /\ Bounded(players', completed')
    BY <2>1, <2>2, ScoreBounded
  <2>4. pc' = "done" => winners' = TopScorers(players')
    BY <2>1 DEF Finish
  <2>5. completed' \in Nat
    BY <2>1 DEF BoardInv
  <2>6. QED  BY <2>3, <2>4, <2>5 DEF BoardInv, Bounded, TopScorers
<1>4. CASE Signal
  <2>1. PICK event : BadgeStarted(event) \/ PanicEvent(event)
    BY <1>4 DEF Signal
  <2>2. pc' = "wait" /\ completed' = completed
    BY <1>4 DEF Signal, resultVars
  <2>3. /\ players' = [x \in DOMAIN players' |-> players'[x]]
        /\ Bounded(players', completed)
    BY <2>1, SignalBounded
  <2>4. QED  BY <2>2, <2>3 DEF BoardInv, Bounded
<1>5. CASE ApplyModifier \/ ExtendThirtySeconds \/ EndRound \/ TimerFires \/ AdvanceClock
  BY <1>0, <1>5 DEF ApplyModifier, ExtendThirtySeconds, EndRound, TimerFires, AdvanceClock,
                    resultVars, closingVars, rosterVars, boardState
<1>6. CASE ActivityCompletes \/ ActivityTimesOut
  BY <1>0, <1>6 DEF ActivityCompletes, ActivityTimesOut, CloseActivity, resultVars,
                    closingVars, rosterVars, boardState
<1>7. CASE Terminated \/ UNCHANGED vars
  BY <1>0, <1>7 DEF Terminated, vars, resultVars, closingVars, rosterVars, boardState
<1>8. QED
  BY <1>1, <1>2, <1>3, <1>4, <1>5, <1>6, <1>7 DEF Next, RunLoop, Environment

\* The winners are the badges level at the top of the last scoreboard, the
\* answer that ends a sudden-death round included, and a round somebody joined
\* has at least one (GameSnapshot::finish).
THEOREM WinnersLeadTheBoard == Spec => []FinalStandings
<1>1. Init => BoardInv
  <2> SUFFICES ASSUME Init  PROVE BoardInv
    OBVIOUS
  <2>1. players = [b \in {} |-> NewPlayer] /\ completed = 0 /\ pc = "start"
    BY DEF Init, RosterInit
  <2>2. DOMAIN players = {} /\ players = [b \in DOMAIN players |-> players[b]]
    BY <2>1
  <2>3. QED  BY <2>1, <2>2 DEF BoardInv, Bounded
<1>2. BoardInv => FinalStandings
  <2> SUFFICES ASSUME BoardInv, pc = "done"
               PROVE  /\ winners = TopScorers(players)
                      /\ winners = {} => players = [b \in {} |-> NewPlayer]
    BY DEF FinalStandings
  <2>1. winners = TopScorers(players)
    BY DEF BoardInv
  <2>2. ASSUME winners = {}  PROVE DOMAIN players = {}
    BY <2>1, <2>2, SomeoneLeads DEF BoardInv
  <2>3. ASSUME DOMAIN players = {}  PROVE players = [b \in {} |-> NewPlayer]
    BY <2>3 DEF BoardInv
  <2>4. QED  BY <2>1, <2>2, <2>3
<1>3. QED  BY <1>1, <1>2, BoardStep, PTL DEF Spec

-----------------------------------------------------------------------------
(***************************************************************************)
(* The scoreboard adds up.  Joining adds a line of nothing; a scored answer *)
(* adds one to one line's counts, and to its score what the count allows.  *)
(***************************************************************************)
Answered(line) == line.correct + line.wrong

AddsUp(board, answers) ==
    /\ IsFiniteSet(DOMAIN board) /\ answers \in Nat
    /\ board = [b \in DOMAIN board |-> board[b]]
    /\ answers = SumFunction([b \in DOMAIN board |-> Answered(board[b])])
    /\ \A b \in DOMAIN board :
          /\ board[b] \in Player
          /\ board[b].score >= board[b].correct - 2 * board[b].wrong
          /\ board[b].score <= 2 * board[b].correct - board[b].wrong

SumInv == AddsUp(players, completed)

\* What the players' lines hold.
LEMMA LineTypes ==
    ASSUME NEW line \in Player
    PROVE  /\ line.correct \in Nat /\ line.wrong \in Nat /\ line.score \in Int
           /\ Answered(line) \in Nat
  BY DEF Player, Answered

\* A new line is empty.
LEMMA JoinedAddsUp ==
    ASSUME SumInv, NEW b
    PROVE  AddsUp(Joined(b), completed)
<1> DEFINE J == Joined(b)
           count(board) == [x \in DOMAIN board |-> Answered(board[x])]
<1>1. /\ DOMAIN J = DOMAIN players \cup {b}
      /\ J = [x \in DOMAIN J |-> J[x]]
      /\ \A x \in DOMAIN players : J[x] = players[x]
      /\ b \notin DOMAIN players => J[b] = NewPlayer
  BY DEF Joined
<1>2. /\ NewPlayer.score = 0 /\ NewPlayer.correct = 0 /\ NewPlayer.wrong = 0
      /\ NewPlayer \in Player /\ Answered(NewPlayer) = 0
  BY DEF NewPlayer, Player, Answered
<1> HIDE DEF J
<1>3. IsFiniteSet(DOMAIN J)
  BY <1>1, FS_AddElement DEF SumInv, AddsUp
<1>4. ASSUME NEW x \in DOMAIN J
      PROVE  /\ J[x] \in Player
             /\ J[x].score >= J[x].correct - 2 * J[x].wrong
             /\ J[x].score <= 2 * J[x].correct - J[x].wrong
  <2>1. CASE x \in DOMAIN players
    BY <1>1, <2>1 DEF SumInv, AddsUp
  <2>2. CASE x \notin DOMAIN players
    <3>1. J[x] = NewPlayer
      BY <1>1, <2>2
    <3> QED  BY <1>2, <3>1
  <2> QED  BY <2>1, <2>2
<1>5. SumFunction(count(J)) = completed
  <2>1. /\ \A x \in DOMAIN players : count(players)[x] \in Int
        /\ \A x \in DOMAIN players : count(J)[x] = count(players)[x]
    BY <1>1, LineTypes DEF SumInv, AddsUp
  <2>2. /\ SumFunction(count(J)) = SumFunctionOnSet(count(J), DOMAIN J)
        /\ SumFunctionOnSet(count(players), DOMAIN players) = completed
        /\ IsFiniteSet(DOMAIN players) /\ completed \in Nat
    BY DEF SumFunction, SumInv, AddsUp
  <2>3. CASE b \in DOMAIN players
    <3>1. DOMAIN J = DOMAIN players
      BY <1>1, <2>3
    <3> HIDE DEF count
    <3> QED  BY <2>1, <2>2, <3>1, SumSame
  <2>4. CASE b \notin DOMAIN players
    <3>1. count(J)[b] = 0
      BY <1>1, <1>2, <2>4
    <3> HIDE DEF count
    <3> QED  BY <1>1, <2>1, <2>2, <2>4, <3>1, SumExtends
  <2> QED  BY <2>3, <2>4
<1>6. completed \in Nat
  BY DEF SumInv, AddsUp
<1> QED  BY <1>1, <1>3, <1>4, <1>5, <1>6 DEF AddsUp, J

\* One line changes, and its counts grow by as much as the board's.
LEMMA LineAddsUp ==
    ASSUME NEW board, NEW answers, AddsUp(board, answers), NEW b \in DOMAIN board,
           NEW line \in Player, NEW more \in Nat, Answered(line) = Answered(board[b]) + more,
           line.score >= line.correct - 2 * line.wrong,
           line.score <= 2 * line.correct - line.wrong
    PROVE  AddsUp([board EXCEPT ![b] = line], answers + more)
<1> DEFINE new == [board EXCEPT ![b] = line]
           count(x) == [y \in DOMAIN x |-> Answered(x[y])]
<1>1. /\ DOMAIN new = DOMAIN board /\ new[b] = line
      /\ \A x \in DOMAIN board \ {b} : new[x] = board[x]
      /\ new = [x \in DOMAIN new |-> new[x]]
  BY DEF AddsUp
<1> HIDE DEF new
<1>2. /\ \A x \in DOMAIN board : count(board)[x] \in Int
      /\ \A x \in DOMAIN board \ {b} : count(new)[x] = count(board)[x]
      /\ count(new)[b] = count(board)[b] + more /\ count(new)[b] \in Int
      /\ count(board)[b] \in Int
  BY <1>1, LineTypes DEF AddsUp
<1>3. /\ SumFunctionOnSet(count(board), DOMAIN board) = answers
      /\ IsFiniteSet(DOMAIN board) /\ answers \in Nat
  BY DEF SumFunction, AddsUp
<1>4. SumFunctionOnSet(count(new), DOMAIN board)
          = SumFunctionOnSet(count(board), DOMAIN board) + count(new)[b] - count(board)[b]
  <2> HIDE DEF count
  <2> QED  BY <1>2, <1>3, SumChanges
<1>5. SumFunctionOnSet(count(new), DOMAIN new) = answers + more
  <2> HIDE DEF count
  <2> QED  BY <1>1, <1>2, <1>3, <1>4
<1>6. \A x \in DOMAIN new :
          /\ new[x] \in Player
          /\ new[x].score >= new[x].correct - 2 * new[x].wrong
          /\ new[x].score <= 2 * new[x].correct - new[x].wrong
  BY <1>1 DEF AddsUp
<1>7. SumFunction(count(new)) = answers + more
  <2>1. DOMAIN count(new) = DOMAIN new
    OBVIOUS
  <2> HIDE DEF count
  <2> QED  BY <1>5, <2>1 DEF SumFunction
<1> QED  BY <1>1, <1>3, <1>6, <1>7 DEF AddsUp, new

\* A scored answer.
LEMMA ScoreAddsUp ==
    ASSUME SumInv, NEW b, NEW correct \in BOOLEAN, ScoreAnswer(b, correct, ActivePoints)
    PROVE  AddsUp(players', completed + 1)
<1> DEFINE J == Joined(b)
           line == [J[b] EXCEPT
                       !.score   = IF correct THEN @ + ActivePoints ELSE @ - ActivePoints,
                       !.correct = IF correct THEN @ + 1 ELSE @,
                       !.wrong   = IF correct THEN @ ELSE @ + 1]
<1>1. AddsUp(J, completed)
  BY JoinedAddsUp
<1>2. b \in DOMAIN J
  BY DEF Joined
<1>3. ActivePoints \in {1, 2}
  BY DEF ActivePoints
<1>4. players' = [J EXCEPT ![b] = line]
  BY DEF ScoreAnswer
<1> HIDE DEF J
<1>5. /\ J[b] \in Player /\ J[b].correct \in Nat /\ J[b].wrong \in Nat /\ J[b].score \in Int
      /\ J[b].score >= J[b].correct - 2 * J[b].wrong
      /\ J[b].score <= 2 * J[b].correct - J[b].wrong
  BY <1>1, <1>2, LineTypes DEF AddsUp
<1>6. /\ line \in Player
      /\ Answered(line) = Answered(J[b]) + 1
      /\ line.score >= line.correct - 2 * line.wrong
      /\ line.score <= 2 * line.correct - line.wrong
  <2>1. /\ line.score = IF correct THEN J[b].score + ActivePoints ELSE J[b].score - ActivePoints
        /\ line.correct = IF correct THEN J[b].correct + 1 ELSE J[b].correct
        /\ line.wrong = IF correct THEN J[b].wrong ELSE J[b].wrong + 1
        /\ line = [J[b] EXCEPT !.score = line.score, !.correct = line.correct,
                               !.wrong = line.wrong]
    BY <1>5 DEF Player
  <2> HIDE DEF line
  <2>2. line.score \in Int /\ line.correct \in Nat /\ line.wrong \in Nat
    BY <1>3, <1>5, <2>1
  <2>3. line \in Player
    BY <1>5, <2>1, <2>2 DEF Player
  <2>4. CASE correct
    BY <1>3, <1>5, <2>1, <2>3, <2>4 DEF Answered
  <2>5. CASE ~correct
    BY <1>3, <1>5, <2>1, <2>3, <2>5 DEF Answered
  <2> QED  BY <2>4, <2>5
<1> HIDE DEF line
<1> QED  BY <1>1, <1>2, <1>4, <1>6, LineAddsUp

\* A badge's Signal adds a line or a panic at most.
LEMMA SignalAddsUp ==
    ASSUME SumInv, NEW event, BadgeStarted(event) \/ PanicEvent(event)
    PROVE  AddsUp(players', completed)
<1> DEFINE J == Joined(event.badge)
           line == [J[event.badge] EXCEPT !.panics = @ + 1]
<1>1. AddsUp(J, completed) /\ completed \in Nat
  BY JoinedAddsUp DEF SumInv, AddsUp
<1>2. CASE BadgeStarted(event)
  BY <1>1, <1>2 DEF BadgeStarted
<1>3. CASE PanicEvent(event)
  <2>1. event.badge \in DOMAIN J
    BY DEF Joined
  <2>2. players' = [J EXCEPT ![event.badge] = line]
    BY <1>3 DEF PanicEvent
  <2> HIDE DEF J
  <2>3. /\ J[event.badge] \in Player
        /\ J[event.badge].score >= J[event.badge].correct - 2 * J[event.badge].wrong
        /\ J[event.badge].score <= 2 * J[event.badge].correct - J[event.badge].wrong
    BY <1>1, <2>1 DEF AddsUp
  <2>4. /\ line \in Player
        /\ line.score = J[event.badge].score /\ line.correct = J[event.badge].correct
        /\ line.wrong = J[event.badge].wrong
    BY <2>3 DEF Player
  <2>5. Answered(line) = Answered(J[event.badge]) + 0
    BY <2>3, <2>4, LineTypes DEF Answered
  <2> HIDE DEF line
  <2>6. AddsUp(players', completed + 0)
    BY <1>1, <2>1, <2>2, <2>3, <2>4, <2>5, LineAddsUp
  <2> QED  BY <1>1, <2>6
<1> QED  BY <1>2, <1>3

\* Every step keeps the sum.
LEMMA SumStep == SumInv /\ [Next]_vars => SumInv'
<1> SUFFICES ASSUME SumInv, [Next]_vars  PROVE SumInv'
  OBVIOUS
<1>0. ASSUME UNCHANGED <<players, completed>>  PROVE SumInv'
  BY <1>0 DEF SumInv
<1>1. CASE RecordAnswer
  <2> DEFINE correct == Head(closed).verdict = "correct"
             badge == Head(closed).badge
  <2>1. ScoreAnswer(badge, correct, ActivePoints) /\ completed' = completed + 1
    BY <1>1 DEF RecordAnswer
  <2>2. correct \in BOOLEAN
    OBVIOUS
  <2> HIDE DEF correct, badge
  <2> QED  BY <2>1, <2>2, ScoreAddsUp DEF SumInv
<1>2. CASE Signal
  <2>1. PICK event : BadgeStarted(event) \/ PanicEvent(event)
    BY <1>2 DEF Signal
  <2>2. completed' = completed
    BY <1>2 DEF Signal, resultVars
  <2> QED  BY <2>1, <2>2, SignalAddsUp DEF SumInv
<1>3. CASE Start \/ BeginPass \/ DeckExhausted \/ DealCard \/ RecycleAndDeal
        \/ RecycleInVain \/ StopDealing \/ ArmTimer \/ WakeOnTick \/ RecordFault
  BY <1>0, <1>3 DEF Start, BeginPass, DeckExhausted, DealCard, RecycleAndDeal, RecycleInVain,
                    StopDealing, ArmTimer, WakeOnTick, RecordFault, resultVars, rosterVars
<1>4. CASE ApplyModifier \/ ExtendThirtySeconds \/ EndRound \/ TimerFires \/ AdvanceClock
  BY <1>0, <1>4 DEF ApplyModifier, ExtendThirtySeconds, EndRound, TimerFires, AdvanceClock,
                    resultVars, closingVars, rosterVars
<1>5. CASE ActivityCompletes \/ ActivityTimesOut
  BY <1>0, <1>5 DEF ActivityCompletes, ActivityTimesOut, CloseActivity, resultVars,
                    closingVars, rosterVars
<1>6. CASE Terminated \/ UNCHANGED vars
  BY <1>0, <1>6 DEF Terminated, vars, resultVars, closingVars, rosterVars
<1> QED
  BY <1>1, <1>2, <1>3, <1>4, <1>5, <1>6 DEF Next, RunLoop, Environment

\* Every scored answer is on exactly one badge's line, and a badge's score is
\* its right answers less its wrong ones, each once or, under double points,
\* twice (record_answer), whatever joins, panics and modifiers come between.
THEOREM ScoreboardAddsUp == Spec => []ScoresAddUp
<1>1. Init => SumInv
  <2> SUFFICES ASSUME Init  PROVE SumInv
    OBVIOUS
  <2>1. players = [b \in {} |-> NewPlayer] /\ completed = 0
    BY DEF Init, RosterInit
  <2>2. DOMAIN players = {} /\ players = [b \in DOMAIN players |-> players[b]]
    BY <2>1
  <2>3. SumFunction([b \in DOMAIN players |-> Answered(players[b])]) = 0
    BY <2>2, SumOfNothing DEF SumFunction
  <2> QED  BY <2>1, <2>2, <2>3, FS_EmptySet DEF SumInv, AddsUp
<1>2. SumInv => ScoresAddUp
  BY DEF SumInv, AddsUp, ScoresAddUp, Answered
<1> QED  BY <1>1, <1>2, SumStep, PTL DEF Spec
=============================================================================
