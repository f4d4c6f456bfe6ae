---------------------------- MODULE GameWorkflow ----------------------------
(***************************************************************************)
(* One round: the Workflow of web/src/workflow.rs.                         *)
(*                                                                         *)
(* The run loop is a sequence of passes.  A pass sweeps expired modifiers, *)
(* looks at the deadline, deals questions until every slot is taken, arms  *)
(* a timer and waits for that timer or for an Activity to close.  `pc`     *)
(* says where the loop is; it only rests in "wait".  One activation of the *)
(* Workflow runs at one workflow time and is not interleaved with          *)
(* anything, so the clock, Signals, Updates and Activities move only while *)
(* the loop waits.  Signals and Updates of an activation are handled       *)
(* before its run loop is polled (external: the Temporal SDK), which here  *)
(* is the order in which they and the next wake-up happen.                 *)
(*                                                                         *)
(* Time is counted in units from the start of the round.  Event texts,     *)
(* Memo, search attributes and the latest_* display fields are left out.   *)
(***************************************************************************)
EXTENDS Deck, Roster, FiniteSets

CONSTANTS
    Badges,           \* badge identities
    Inputs,           \* the possible GameInputs of a round, see InputType
    Duration,         \* GAME_SECONDS
    ChaosDuration,    \* CHAOS_DURATION_MS
    Extension,        \* GAME_EXTENSION_MS
    TickLength,       \* longest sleep of the run loop (1 s in the code)
    ActivityTimeout,  \* schedule-to-close timeout (Duration + 35 s)
    \* bounds on the environment
    Answers,          \* verdicts of the answers badges give
    MaxScheduled,     \* badges stop answering once so many questions are out
    MaxPowerups,      \* powerups applied in one round
    MaxAttempt,       \* attempt numbers in badge Signals (0: no Signals)
    MaxSignals,       \* Signals that arrive in one round
    MaxLag            \* how far the clock passes a due timer unhandled

Unset == 0            \* a time that is None: every real one is positive

Modifiers == {"double_points", "rust_only", "sudden_death"}
Verdicts  == {"correct", "wrong", "malformed", "failed"}

\* backlog_override is 0 for None: the controller admits 1..100 only.
InputType ==
    [questions : Seq(STRING), badges : Nat, override : Nat,
     fullBacklog : BOOLEAN,   \* full-participant-backlog-v1 is patched in
     eligibleRefill : BOOLEAN \* eligible-deck-refill-v1 is patched in
    ]

ASSUME AnswersAssumption == Answers \subseteq {"correct", "wrong", "malformed"}

ASSUME TimesAssumption ==
    /\ Duration \in Nat \ {0}
    /\ ChaosDuration \in Nat \ {0}
    /\ Extension \in Nat \ {0}
    /\ TickLength \in Nat \ {0}
    /\ ActivityTimeout \in Nat \ {0}
    /\ MaxLag \in Nat

\* validate_questions: no deck holds the same question twice.
ASSUME InputsAssumption ==
    /\ Inputs \subseteq InputType
    /\ \A in \in Inputs : \A i, j \in 1..Len(in.questions) :
          in.questions[i] = in.questions[j] => i = j

VARIABLES
    input,       \* the GameInput, and the patches of the recorded history
    clock,       \* workflow time of the next activation
    pc,          \* where the run loop is
    status,      \* snapshot.status
    deadline,    \* snapshot.deadline_unix_ms
    doubleUntil, rustUntil, suddenDeath, extensionUsed, powerups, \* snapshot.chaos
    lastSweep,   \* last_chaos_sweep_unix_ms
    available,   \* undealt cards
    deckCycle,
    pending,     \* open Activities: card -> when it was scheduled
    closed,      \* results not yet seen by the run loop, oldest first
    outstanding, \* pending_activities
    timer,       \* the tick: when it is due and whether it fired
    scheduled, completed, \* snapshot.scheduled_questions, completed_questions
    winners,
    \* history
    dealt,       \* every card ever scheduled
    faults,      \* questions that closed without a scored answer
    lateAnswers, \* answers scored at or after the deadline
    ended        \* the operator ended the round

deckVars    == <<available, deckCycle, pending, outstanding, scheduled, dealt>>
chaosVars   == <<doubleUntil, rustUntil, suddenDeath, extensionUsed, powerups>>
resultVars  == <<completed, faults, lateAnswers>>
closingVars == <<status, winners>>

vars == <<input, clock, pc, deadline, lastSweep, closed, timer, ended,
          deckVars, chaosVars, resultVars, closingVars, rosterVars>>

-----------------------------------------------------------------------------
\* Derived state.

ActivityTarget ==
    IF input.override # 0 THEN input.override
    ELSE IF input.fullBacklog THEN input.badges
    ELSE IF input.badges <= 1 THEN input.badges
    ELSE input.badges - 1

\* The modifiers active_modifier finds in force at time t.
InForce(t) ==
    {m \in Modifiers : \/ m = "double_points" /\ doubleUntil > t
                       \/ m = "rust_only" /\ rustUntil > t
                       \/ m = "sudden_death" /\ suddenDeath}

\* Faulty variant: the validator forgets Rust-only.
AcceptedOverRustOnly ==
    status = "running" /\ InForce(lastSweep) \subseteq {"rust_only"}

\* validate_apply_chaos, for a gameplay modifier and for the extension.
ModifierAccepted  == status = "running" /\ InForce(lastSweep) = {}
ExtensionAccepted == status = "running" /\ ~extensionUsed

ActivePoints == IF doubleUntil > clock THEN 2 ELSE 1

RustOnly == rustUntil > clock

\* Faulty variant: the deadline itself still belongs to the round.
OverAfterDeadline == clock > deadline

Over == clock >= deadline

\* Faulty variant: under sudden death any answer ends the round.
AnyAnswerEnds(correct) == suddenDeath

EndsRound(correct) == suddenDeath /\ correct

TopScorers(board) ==
    {b \in DOMAIN board : \A c \in DOMAIN board : board[c].score <= board[b].score}

-----------------------------------------------------------------------------
Init ==
    /\ input \in Inputs
    /\ clock = 0 /\ pc = "start" /\ status = "waiting"
    /\ deadline = Unset /\ lastSweep = 0
    /\ doubleUntil = Unset /\ rustUntil = Unset /\ suddenDeath = FALSE
    /\ extensionUsed = FALSE /\ powerups = 0
    /\ available = FirstCycle(input.questions) /\ deckCycle = 1
    /\ pending = [c \in {} |-> 0] /\ closed = <<>> /\ outstanding = 0
    /\ timer = [due |-> 0, fired |-> FALSE]
    /\ scheduled = 0 /\ completed = 0 /\ winners = {}
    /\ dealt = {} /\ faults = 0 /\ lateAnswers = 0 /\ ended = FALSE
    /\ RosterInit

\* The first activation, up to the loop.
Start ==
    /\ pc = "start"
    /\ pc' = "top"
    /\ status' = "running"
    /\ deadline' = clock + Duration
    /\ UNCHANGED <<input, clock, lastSweep, closed, timer, ended, winners,
                   deckVars, chaosVars, resultVars, rosterVars>>

-----------------------------------------------------------------------------
\* The run loop.

\* Faulty variant: names the winners before the last answer is on the board.
FinishOnOldBoard(board) ==
    /\ pc' = "done"
    /\ status' = "finished"
    /\ winners' = TopScorers(players)

\* snapshot.finish(), on the scoreboard the step leaves behind.
Finish(board) ==
    /\ pc' = "done"
    /\ status' = "finished"
    /\ winners' = TopScorers(board)

\* Faulty variant: sweeps double points only.
ExpireDoubleOnly ==
    /\ doubleUntil' = IF doubleUntil <= clock THEN Unset ELSE doubleUntil
    /\ lastSweep' = clock
    /\ UNCHANGED <<rustUntil, suddenDeath, extensionUsed, powerups>>

ExpireChaos ==
    /\ doubleUntil' = IF doubleUntil <= clock THEN Unset ELSE doubleUntil
    /\ rustUntil' = IF rustUntil <= clock THEN Unset ELSE rustUntil
    /\ lastSweep' = clock
    /\ UNCHANGED <<suddenDeath, extensionUsed, powerups>>

\* The head of a pass: sweep, then leave at the deadline.
BeginPass ==
    /\ pc = "top"
    /\ ExpireChaos
    /\ \/ /\ Over
          /\ Finish(players)
       \/ /\ ~Over
          /\ pc' = "deal"
          /\ UNCHANGED closingVars
    /\ UNCHANGED <<input, clock, deadline, closed, timer, ended, deckVars,
                   resultVars, rosterVars>>

\* Hand the i-th card of deck to the badges' Task Queue.
Schedule(deck, i) ==
    /\ available' = RemoveAt(deck, i)
    /\ pending' = [c \in DOMAIN pending \cup {deck[i]} |->
                      IF c = deck[i] THEN clock ELSE pending[c]]
    /\ dealt' = dealt \cup {deck[i]}
    /\ outstanding' = outstanding + 1
    /\ scheduled' = scheduled + 1

\* Faulty variant: the undealt remainder is thrown away.
RecycledAfresh == RefillQuestionDeck(input.questions, deckCycle + 1)

Recycled == available \o RefillQuestionDeck(input.questions, deckCycle + 1)

CanRecycle ==
    /\ ~HasNext(available, RustOnly)
    /\ MayRecycle(available, input.questions, input.eligibleRefill)

DealCard ==
    /\ pc = "deal"
    /\ outstanding < ActivityTarget
    /\ \E i \in 1..Len(available) :
          /\ IsNext(available, RustOnly, i)
          /\ Schedule(available, i)
    /\ UNCHANGED <<input, clock, pc, deadline, lastSweep, closed, timer, ended,
                   deckCycle, chaosVars, resultVars, closingVars, rosterVars>>

RecycleAndDeal ==
    /\ pc = "deal"
    /\ outstanding < ActivityTarget
    /\ CanRecycle
    /\ deckCycle' = deckCycle + 1
    /\ \E i \in 1..Len(Recycled) :
          /\ IsNext(Recycled, RustOnly, i)
          /\ Schedule(Recycled, i)
    /\ UNCHANGED <<input, clock, pc, deadline, lastSweep, closed, timer, ended,
                   chaosVars, resultVars, closingVars, rosterVars>>

\* A Rust-only recycle of a template without a Rust question.
RecycleInVain ==
    /\ pc = "deal"
    /\ outstanding < ActivityTarget
    /\ CanRecycle
    /\ ~HasNext(Recycled, RustOnly)
    /\ deckCycle' = deckCycle + 1
    /\ available' = Recycled
    /\ pc' = "arm"
    /\ UNCHANGED <<input, clock, deadline, lastSweep, closed, timer, ended,
                   pending, outstanding, scheduled, dealt,
                   chaosVars, resultVars, closingVars, rosterVars>>

StopDealing ==
    /\ pc = "deal"
    /\ \/ outstanding >= ActivityTarget
       \/ ~HasNext(available, RustOnly) /\ ~CanRecycle
    /\ pc' = "arm"
    /\ UNCHANGED <<input, clock, deadline, lastSweep, closed, timer, ended,
                   deckVars, chaosVars, resultVars, closingVars, rosterVars>>

\* pending.is_empty(): no Activity is open and no result is unseen.
NothingPending == DOMAIN pending = {} /\ closed = <<>>

DeckExhausted ==
    /\ pc = "arm"
    /\ NothingPending /\ available = <<>>
    /\ Finish(players)
    /\ UNCHANGED <<input, clock, deadline, lastSweep, closed, timer, ended,
                   deckVars, chaosVars, resultVars, rosterVars>>

\* Faulty variant: the tick is created before the loop, not in every pass.
ArmTimerOnce ==
    /\ pc = "arm"
    /\ ~NothingPending \/ available # <<>>
    /\ pc' = "wait"
    /\ UNCHANGED <<input, clock, deadline, lastSweep, closed, timer, ended,
                   deckVars, chaosVars, resultVars, closingVars, rosterVars>>

ArmTimer ==
    /\ pc = "arm"
    /\ ~NothingPending \/ available # <<>>
    /\ pc' = "wait"
    /\ timer' = [due   |-> IF deadline - clock < TickLength
                           THEN deadline ELSE clock + TickLength,
                 fired |-> FALSE]
    /\ UNCHANGED <<input, clock, deadline, lastSweep, closed, ended,
                   deckVars, chaosVars, resultVars, closingVars, rosterVars>>

\* select_biased! prefers the tick.
WakeOnTick ==
    /\ pc = "wait"
    /\ timer.fired
    /\ pc' = "top"
    /\ UNCHANGED <<input, clock, deadline, lastSweep, closed, timer, ended,
                   deckVars, chaosVars, resultVars, closingVars, rosterVars>>

\* Faulty variants: the slot is not freed; the result is not consumed.
TakeResultKeepsSlot ==
    /\ pc = "wait"
    /\ ~timer.fired
    /\ closed # <<>>
    /\ closed' = Tail(closed)
    /\ UNCHANGED <<input, clock, deadline, lastSweep, timer, ended, chaosVars,
                   deckVars>>

TakeResultAgain ==
    /\ pc = "wait"
    /\ ~timer.fired
    /\ closed # <<>>
    /\ outstanding' = outstanding - 1
    /\ UNCHANGED <<input, clock, deadline, lastSweep, timer, ended, chaosVars,
                   closed, available, deckCycle, pending, scheduled, dealt>>

TakeResult ==
    /\ pc = "wait"
    /\ ~timer.fired
    /\ closed # <<>>
    /\ closed' = Tail(closed)
    /\ outstanding' = outstanding - 1
    /\ UNCHANGED <<input, clock, deadline, lastSweep, timer, ended, chaosVars,
                   available, deckCycle, pending, scheduled, dealt>>

\* record_answer.  Under sudden death a correct answer leaves the loop.
RecordAnswer ==
    /\ TakeResult
    /\ Head(closed).verdict \in {"correct", "wrong"}
    /\ LET correct == Head(closed).verdict = "correct"
       IN  /\ ScoreAnswer(Head(closed).badge, correct, ActivePoints)
           /\ IF EndsRound(correct)
              THEN Finish(players')
              ELSE pc' = "top" /\ UNCHANGED closingVars
    /\ completed' = completed + 1
    /\ lateAnswers' = lateAnswers + (IF clock >= deadline THEN 1 ELSE 0)
    /\ UNCHANGED faults

\* A malformed answer, or an Activity that closed without one.
RecordFault ==
    /\ TakeResult
    /\ Head(closed).verdict \in {"malformed", "failed"}
    /\ pc' = "top"
    /\ faults' = faults + 1
    /\ UNCHANGED <<completed, lateAnswers, closingVars, rosterVars>>

-----------------------------------------------------------------------------
\* Updates.

Notice == powerups' = powerups + 1

ApplyModifier ==
    /\ pc = "wait"
    /\ ModifierAccepted
    /\ powerups < MaxPowerups
    /\ Notice
    /\ \/ /\ doubleUntil' = clock + ChaosDuration
          /\ UNCHANGED <<rustUntil, suddenDeath>>
       \/ /\ rustUntil' = clock + ChaosDuration
          /\ UNCHANGED <<doubleUntil, suddenDeath>>
       \/ /\ suddenDeath' = TRUE
          /\ UNCHANGED <<doubleUntil, rustUntil>>
    /\ UNCHANGED <<input, clock, pc, deadline, lastSweep, closed, timer, ended,
                   extensionUsed, deckVars, resultVars, closingVars, rosterVars>>

ExtendThirtySeconds ==
    /\ pc = "wait"
    /\ ExtensionAccepted
    /\ powerups < MaxPowerups
    /\ Notice
    /\ extensionUsed' = TRUE
    /\ deadline' = deadline + Extension
    /\ UNCHANGED <<input, clock, pc, lastSweep, closed, timer, ended, doubleUntil,
                   rustUntil, suddenDeath, deckVars, resultVars, closingVars,
                   rosterVars>>

EndRound ==
    /\ pc = "wait"
    /\ status = "running"
    /\ deadline' = clock
    /\ ended' = TRUE
    /\ UNCHANGED <<input, clock, pc, lastSweep, closed, timer, deckVars, chaosVars,
                   resultVars, closingVars, rosterVars>>

-----------------------------------------------------------------------------
\* Signals of the badges: about any card dealt so far, in any order, however
\* late.  An attempt announces its start once, and may panic any time.

\* Bound only.
SignalsTaken ==
    Cardinality(attemptsSeen)
        + SumFunction([b \in DOMAIN players |-> players[b].panics])

Signal ==
    /\ pc = "wait"
    /\ SignalsTaken < MaxSignals
    /\ \E b \in Badges, card \in dealt, n \in 1..MaxAttempt :
          LET event == [badge |-> b, question |-> card, attempt |-> n]
          IN  \/ <<card, n>> \notin attemptsSeen /\ BadgeStarted(event)
              \/ PanicEvent(event)
    /\ UNCHANGED <<input, clock, pc, deadline, lastSweep, closed, timer, ended,
                   deckVars, chaosVars, resultVars, closingVars>>

-----------------------------------------------------------------------------
\* The Temporal server and the badges behind it.

CloseActivity(card, badge, verdict) ==
    /\ pending' = [c \in DOMAIN pending \ {card} |-> pending[c]]
    /\ closed' = Append(closed, [card |-> card, badge |-> badge, verdict |-> verdict])
    /\ UNCHANGED <<input, clock, pc, deadline, lastSweep, timer, ended, available,
                   deckCycle, outstanding, scheduled, dealt, chaosVars, resultVars,
                   closingVars, rosterVars>>

ActivityCompletes ==
    /\ pc = "wait"
    /\ scheduled < MaxScheduled
    /\ \E card \in DOMAIN pending, b \in Badges,
          verdict \in Answers :
          CloseActivity(card, b, verdict)

\* No attempt completed within the schedule-to-close timeout; the badge that
\* held it last is of no consequence.
ActivityTimesOut ==
    /\ pc = "wait"
    /\ \E card \in DOMAIN pending, b \in Badges :
          /\ clock >= pending[card] + ActivityTimeout
          /\ CloseActivity(card, b, "failed")

TimerFires ==
    /\ pc = "wait"
    /\ ~timer.fired
    /\ clock >= timer.due
    /\ timer' = [timer EXCEPT !.fired = TRUE]
    /\ UNCHANGED <<input, clock, pc, deadline, lastSweep, closed, ended, deckVars,
                   chaosVars, resultVars, closingVars, rosterVars>>

AdvanceClock ==
    /\ pc = "wait"
    /\ clock < timer.due + MaxLag
    /\ clock' = clock + 1
    /\ UNCHANGED <<input, pc, deadline, lastSweep, closed, timer, ended, deckVars,
                   chaosVars, resultVars, closingVars, rosterVars>>

\* A closed Workflow refuses every Signal and Update.
Terminated == pc = "done" /\ UNCHANGED vars

-----------------------------------------------------------------------------
RunLoop ==
    \/ Start \/ BeginPass
    \/ DealCard \/ RecycleAndDeal \/ RecycleInVain \/ StopDealing
    \/ DeckExhausted \/ ArmTimer
    \/ WakeOnTick \/ RecordAnswer \/ RecordFault

Environment ==
    \/ ApplyModifier \/ ExtendThirtySeconds \/ EndRound \/ Signal
    \/ ActivityCompletes \/ ActivityTimesOut \/ TimerFires \/ AdvanceClock

Next == RunLoop \/ Environment \/ Terminated

Spec == Init /\ [][Next]_vars

\* The controller's worker keeps polling, the server fires due timers and time
\* passes.  Nothing is assumed of badges and operators.
Fairness == WF_vars(RunLoop) /\ WF_vars(TimerFires) /\ WF_vars(AdvanceClock)

FairSpec == Spec /\ Fairness
-----------------------------------------------------------------------------
\* Types.

Questions == UNION {ToSet(in.questions) : in \in Inputs}
Cards     == [question : Questions, cycle : Nat \ {0}]
Player    == [score : Int, correct : Nat, wrong : Nat, panics : Nat]
Result    == [card : Cards, badge : Badges, verdict : Verdicts]
Event     == [badge : Badges, question : Cards, attempt : Nat \ {0}]

\* Every variable holds a value of the type the code gives it; the fields that
\* are functions are partial maps over cards and badges.
TypeOK ==
    /\ input \in Inputs
    /\ clock \in Nat /\ deadline \in Nat /\ lastSweep \in Nat /\ ended \in BOOLEAN
    /\ pc \in {"start", "top", "deal", "arm", "wait", "done"}
    /\ status \in {"waiting", "running", "finished"}
    /\ doubleUntil \in Nat /\ rustUntil \in Nat
    /\ suddenDeath \in BOOLEAN /\ extensionUsed \in BOOLEAN /\ powerups \in Nat
    /\ available \in Seq(Cards) /\ deckCycle \in Nat \ {0}
    /\ DOMAIN pending \subseteq Cards
    /\ \A c \in DOMAIN pending : pending[c] \in Nat
    /\ closed \in Seq(Result)
    /\ outstanding \in Nat /\ scheduled \in Nat /\ completed \in Nat
    /\ timer \in [due : Nat, fired : BOOLEAN]
    /\ dealt \subseteq Cards /\ faults \in Nat /\ lateAnswers \in Nat
    /\ DOMAIN players \subseteq Badges
    /\ \A b \in DOMAIN players : players[b] \in Player
    /\ winners \subseteq DOMAIN players
    /\ DOMAIN assignments \subseteq Cards
    /\ \A q \in DOMAIN assignments : assignments[q] \in Event
    /\ retryReasons \subseteq Cards /\ attemptsSeen \subseteq Cards \X (Nat \ {0})
    /\ reassignments \in Nat /\ heartbeatTimeouts \in Nat

-----------------------------------------------------------------------------
\* Safety.

\* Double points, Rust-only and sudden death never overlap in time, although
\* the validator that excludes them sees no clock, only the time of the last
\* sweep (validate_apply_chaos, active_modifier, expire_chaos).
ModifiersExclusive == Cardinality(InForce(clock)) <= 1

\* A timed modifier goes unswept for at most a tick and the worker's lag after
\* its end, however the deadline was moved and whatever results were ready
\* meanwhile (expire_chaos is called at the head of a pass only).
ModifiersSwept ==
    pc = "wait" =>
        \A until \in {doubleUntil, rustUntil} :
            until # Unset => clock < until + TickLength + MaxLag

\* No two Activities of a round are scheduled under one ID, however often the
\* deck is recycled and whatever was left in it (refill_question_deck).
UniqueActivityIds == scheduled = Cardinality(dealt)

\* Recycling loses no card and invents none: what was dealt and what can still
\* be dealt are together the cards of the cycles opened so far, each in one of
\* the two only (deal_question keeps the undealt remainder).
NoCardLost ==
    /\ ToSet(available) \cup dealt
          = {Card(q, n) : q \in ToSet(input.questions), n \in 1..deckCycle}
    /\ ToSet(available) \cap dealt = {}
    /\ IsInjective(available)

\* Every scheduled question is waiting for a badge, waiting for the run loop,
\* scored or faulted; the loop's counter of open slots does not drift from the
\* Activities it stands for; and no more questions are out than the operator asked
\* for or, left to itself, than badges were polling, with one badge kept spare in
\* histories recorded before full-participant-backlog-v1 (run, activity_target).
QuestionsAccounted ==
    /\ scheduled = outstanding + completed + faults
    /\ outstanding = Cardinality(DOMAIN pending) + Len(closed)
    /\ outstanding <= IF input.override = 0 THEN input.badges ELSE input.override
    /\ input.override = 0 /\ input.badges > 1 /\ ~input.fullBacklog =>
          outstanding < input.badges

\* While the loop sleeps every slot of the round holds a question: no badge is
\* starved, not under Rust-only with a deck out of Rust cards either, as long
\* as the patched history can recycle a template that serves the modifier.
FieldFed ==
    (/\ pc = "wait" /\ input.eligibleRefill /\ input.questions # <<>>
     /\ rustUntil = Unset \/ ToSet(input.questions) \cap Rust # {})
       => outstanding = ActivityTarget

\* The loop never rests on a deadline it has already seen pass: between two
\* wake-ups at most one answer slips in at or after the deadline, and in a
\* whole round at most one is scored so (record_answer does not look at the
\* deadline, only the head of the next pass does).
OneLateAnswer == lateAnswers <= 1

\* The scoreboard adds up: every scored answer is on exactly one badge's line,
\* and a badge's score is its right answers less its wrong ones, each counted
\* once or, under double points, twice.
ScoresAddUp ==
    /\ completed = SumFunction([b \in DOMAIN players |->
                                   players[b].correct + players[b].wrong])
    /\ \A b \in DOMAIN players :
          /\ players[b].score >= players[b].correct - 2 * players[b].wrong
          /\ players[b].score <= 2 * players[b].correct - players[b].wrong

\* The winners are the badges level at the top of the final scoreboard, the
\* answer that ends a sudden-death round included; only a round nobody joined
\* has none (GameSnapshot::finish).
FinalStandings ==
    pc = "done" =>
        /\ winners = TopScorers(players)
        /\ winners = {} => players = [b \in {} |-> NewPlayer]

-----------------------------------------------------------------------------
\* What the round promises, see Round.  A question is out while an Activity
\* holds it or the run loop has not seen its result, and settled afterwards.
QuestionsOut == DOMAIN pending \cup {closed[i].card : i \in 1..Len(closed)}

Promise == INSTANCE Round WITH
    phase   <- status,
    out     <- QuestionsOut,
    settled <- dealt \ QuestionsOut,
    tally   <- completed

\* GameWorkflow implements Round.
KeepsPromise == Promise!Spec

-----------------------------------------------------------------------------
\* Steps.

\* A round closes early only for a correct answer under sudden death or for an
\* exhausted template; a pending answer, a panic or a fault never closes it.
ClosesForAReason ==
    [][pc # "done" /\ pc' = "done" =>
          \/ clock >= deadline
          \/ suddenDeath /\ closed # <<>> /\ Head(closed).verdict = "correct"
          \/ input.questions = <<>>]_vars

\* Liveness.

\* Whatever badges and operators do, the round finishes and names its winners.
RoundFinishes == <>(status = "finished")

-----------------------------------------------------------------------------
\* What documentation and comments say, and the code does not do.

\* "bringing it forward closes the round within one tick" (end_round): the
\* first pass after the operator ended the round finishes it.
EndRoundCloses == [][ended /\ pc = "top" => pc' = "done"]_vars
=============================================================================
