# Verification of Temporal Trivia

Temporal Trivia is a quiz that runs on conference badges. A controller (a web
server and a Temporal Workflow worker in one process) plays a round as one
Workflow; every question of the round is a Temporal Activity; the badges are
Activity workers that poll one shared task queue, show the question they were
given, heartbeat while the player thinks and complete the Activity with the
answer. A badge that dies, or whose player presses the crash gesture, stops
heartbeating, and Temporal hands its question to another badge.

This directory holds TLA+ models of that system, TLC runs over small instances
and TLAPS proofs. Paths below are relative to `src/`.

## 1. The system

### 1.1 Parts, state, operations

| Part | Source | State | Operations |
|---|---|---|---|
| Round Workflow | `web/src/workflow.rs` | snapshot (status, deadline, scoreboard, assignments, modifiers, counters, event feed), deck, set of open Activities, slot counter | `run` loop; Updates `apply_chaos`, `end_round` with validators; Signals `badge_started`, `panic_event`, `recovered`; Query `snapshot` |
| Contract | `shared/src/contract.rs` | - | timing constants and their ordering, `GameSnapshot::finish`, `push_kind` (event window), `active_modifier` |
| Badge worker | `firmware/src/main.rs` | the attempt in hand, heartbeat task, power-up value, result watcher | `answer_question` (refuse, show, wait, feedback, complete or crash), heartbeats and the give-up rule, `start_result_watcher`, power-up poller |
| Session store | `firmware/src/session.rs` | game, deadline and abandoned questions, in memory and in NVS | `begin_game`, `is_abandoned`, `abandon`, `load` |
| Badge UI | `firmware/src/ui.rs` | screen, queue of choices, overlay, sleep | requests from the worker, gestures from the sampler |
| Badge input | `badge-input/src/lib.rs` | level and history of each button | press, chord and hold recognition |
| Controller | `web/src/main.rs` | slot for the one active game, last published snapshot, query health | HTTP handlers `start_game`, `end_round`, `apply_chaos`, `crash_worker`; `resume_active_game`, `observe_workflow`, `publish` |
| Deck building | `web/src/questions.rs` | - | `build_deck`, `validate_questions` |
| Recovery board | `web/static/index.html` | what the browser shows | EventSource and its reconnects |
| Boot and Wi-Fi | `firmware/src/main.rs` | - | every failure restarts the badge |
| Rendering, haptics, power, identity, acceptance harness, tools | rest of `firmware/src`, `badge-screen`, `shared/src/env.rs`, `shared/src/identity.rs`, `web/src/cloud.rs`, `tools` | - | device and file I/O |
| Temporal SDK and server | `firmware/vendor`, Temporal Cloud | Activities, attempts, timers, histories | external |

### 1.2 How the parts interact

* The operator's browser calls the controller; the controller starts the
  Workflow and sends Updates; an observer task polls the `snapshot` Query and
  publishes what it got to the browser. After a restart the controller adopts a
  running round by one Query.
* The Workflow schedules Activities; the server offers each attempt to whichever
  badge polls. A failed or timed-out attempt is offered again.
* A badge reports the start of an attempt, a crash and a recovery by Signals.
  They are sent with a timeout, so they may be lost or arrive late and out of order.
* Inside the Workflow, Signals and Updates run between two steps of the run
  loop, never inside one: the Workflow code is single-threaded and yields only
  where it awaits, in `select_biased!`.
* On a badge the Activity, the heartbeat task, the result watcher and the UI
  thread run concurrently and share atomics and queues.

### 1.3 What is hard

1. *Time is sampled.* Validators see no clock; they judge by the time of the
   last sweep. Deadlines move while the loop sleeps. Answers race the deadline.
2. *The deck is finite and the round is not.* Recycling must give fresh Activity
   IDs and lose no card, also when a modifier makes cards ineligible.
3. *Two counts of one thing.* The open slots are counted beside the set of open
   Activities and must not drift.
4. *Two clocks decide who owns a question*: the badge's silence budget and the
   server's heartbeat timeout.
5. *Signals are lost, late and reordered*, and drive the reassignment counters.
6. *A badge keeps its crashes over a restart, a controller keeps nothing* and
   must find its round again.
7. *Several publishers of snapshots*, each with a snapshot fetched earlier.
8. *Old histories are replayed* by new code and must take the old branches.

`PROJECT.json` lists each hazard at the line where it bites.

### 1.4 What makes each part correct

* **Workflow**: it closes, once, for a reason, and names the leaders of the final
  board; every scheduled question is open, unread, scored or faulted; IDs never
  repeat; scores add up; at most one modifier is in force; slots are kept full.
* **Lease**: at most one badge shows a question live; a deliberate crash does lose
  the lease; a badge whose heartbeats are acknowledged is not stopped.
* **Handoff**: the last known holder is the real one as soon as its Signal arrives;
  the counted handoffs are handoffs.
* **Session**: a badge never plays a question it abandoned, whatever restarts.
* **Controller**: a taken slot has exactly one task that gives it back; a running
  round is in the slot unless the process cannot know of it; the board is never
  ahead of the round; a taken slot is free again some day.
* **UI**: a choice made on one screen never answers another; a live question stays
  on screen until it is let go.
* **Event window**: bounded, the newest kept, durable events outlive answers.
* **Deck**: as many questions as asked for, none twice, the agreed weights, the
  right answer still marked after the shuffle.
* **Panel, motor, LEDs**: no text dropped before the panel is full; a pattern is
  felt from its beginning; what was switched on is switched off.

Where the code falls short of one of these, section 5 says so.

## 2. The modules

    BadgeInput <- BadgeUi            <- MCBadgeUi        BadgeUi_proofs
    Deck, Roster <- GameWorkflow     <- MCGameWorkflow   GameWorkflow_proofs <- RoundEnd_proofs
                    GameWorkflow implements Round
    ActivityLease                    <- MCActivityLease  ActivityLease_proofs
    Session, Roster <- Handoff       <- MCHandoff        Handoff_proofs
    Controller                       <- MCController     Controller_proofs
    EventWindow, QuestionDeck, Panels, Motor, Leds
                 <- Contents         <- MCContents       Contents_proofs

(`A <- B`: B extends A.) `Data_proofs` holds the lemmas about sums, sequences and least
elements that the proofs of the round and of the contents share. Definitions introduced by "Faulty variant" are bugs the
code does not have; each shows that some property would notice it.

The components meet at these places. `GameWorkflow` and `Handoff` share
`Roster`, what Signals and answers do to the snapshot: the one with the loop, the
deck and the clock around it, the other with the badges that send them.
`Handoff` takes from `ActivityLease` when the server gives an attempt away
(`KeepsLease`, `Expire`, `Recover`), and `BadgeUi` has the screen of the same
`answer_question`. `Controller` sees a round as a number that grows and an end that
comes, which `RoundFinishes` shows of `GameWorkflow`.

### 2.1 Deck, Roster, GameWorkflow, Round: `web/src/workflow.rs`

`GameWorkflow` is one round. `pc` is the place in the run loop: `start`, `top`
(sweep and deadline check), `deal` (the `while` that fills the slots), `arm`
(compute the tick), `wait` (`select_biased!`), `done`. One pass of the code is
`BeginPass`, some `DealCard`/`RecycleAndDeal`, `StopDealing`, `ArmTimer`; one
wake-up is `WakeOnTick`, `RecordAnswer` or `RecordFault`. The Workflow is
single-threaded and yields only at the `select_biased!`, so Signals, Updates,
Activity results, the timer and the clock move only in `wait`. `select_biased!`
prefers the tick, and `RecordAnswer` therefore needs that the timer has not fired.

| Variables | Code |
|---|---|
| `status`, `deadline`, `scheduled`, `completed`, `winners`, `doubleUntil` .. `powerups` | fields of `GameSnapshot` |
| `available`, `deckCycle` | the local deck of `run` and its recycling counter |
| `pending`, `closed`, `outstanding` | the `FuturesUnordered` (open, ready), `pending_activities` |
| `lastSweep` | `last_chaos_sweep_unix_ms`, the validators' only clock |
| `players`, `assignments`, `retryReasons`, ... (`Roster`) | scoreboard, holders and counters that Signals write |
| `dealt`, `faults`, `lateAnswers`, `ended` | history, read by properties only |

`Deck` is `deal_question` and the functions under it: cards with cycles for
Activity IDs, rotation by `97 * cycle`, reversal on even cycles. `Roster` is what
Signals and answers do to the snapshot. `Round` is the abstract specification: a
ledger in which a question is handed out once, settled once, scored once at most, and
only while the round runs; `GameWorkflow` implements it through `Promise`.

### 2.2 BadgeInput, BadgeUi: `badge-input/src/lib.rs`, `firmware/src/ui.rs`, `firmware/src/main.rs`

`BadgeInput!Advance` is `ButtonState::advance`. `BadgeUi` interleaves the UI
thread (apply one request; take one sample; sleep) with the tasks of the Worker's
runtime, each cut at its awaits: the screen side of `answer_question`, the result
watcher and the power-up poller. `inbox` is the request channel, `choices` the
bounded queue of choices, `screen` the question that owns the controls and `shown`
what is drawn. `press` is history: on which question the press in hand began and
how many crashes it produced. Waits that end with time end at any moment, the result
hold among them: `EndHold` asks who owns the screen (`screen`, as `Ui::answering` does)
and requests the waiting screen whatever the channel holds by then. `playing` is the
round of the task in hand, and `overtaken` is history: the question of the watched round
itself that was on its way when the hold ended. `Watching` starts the watcher of a new
round and retires the old one. Whether writing the session fails is the constant
`StorageFails`.

### 2.3 ActivityLease: `firmware/src/main.rs`, `shared/src/contract.rs`

One question, from the server's side (`attempt`, `lease`, `leaseAge`) and from each
badge's (`phase` follows `answer_question`, `call` the heartbeat task, `core` the
throttled heartbeats of the SDK behind it). No actor reads another's clock, so every
timer is an age which `Tick` advances. Nothing that is due is put off: `NothingDue`
blocks `Tick` until it has happened, which stands for a runtime and a server
that act within one unit. A request takes at most `Latency`, its answer included, or
is lost. RPC retries are folded into `Latency`; Core's own 20 s timeout, Signals and
reports of cancellation, which the server ignores, are left out.

### 2.4 Session, Handoff: `firmware/src/session.rs`, `firmware/src/main.rs`, `web/src/workflow.rs`

`Session` is a badge's memory of the round and its copy in flash; a write changes
flash first, and may fail after it did. `Handoff` is the attempts of a round's
questions: a task is refused (`Refuse`), accepted (`Accept`) or fails with the session
(`AcceptFails`); the attempt ends by an answer (`Choose`, `Complete`), by giving up
(`LetGo`, `Fail`) or by the crash gesture (`Panic`, `Recover`). `signals` are the
Signals on their way, with whether their sender still awaits them: the badge joins
the report of an attempt's start with the wait for a choice, so `Decided` needs it
settled. `GiveUpOn` is the timeout of 750 ms, which drops the call; whether its
request can still arrive is the constant `LateSignals`. The Workflow's side is
`BadgeStarted`, `PanicEvent` and `ScoreAnswer` of `Roster`. `Reboot` loads the session
from flash and forgets the rest. A refused task has reported its start already, as in the
code: the report is sent before `is_abandoned` is asked.

### 2.5 Controller: `web/src/main.rs`, `run-web.sh`

Handlers and tasks are cut where the code awaits. A request that starts a round goes
`calling` (slot reserved, call on its way), `accepted` or `refused` (the server's
answer), `publishing`, `sending`; an Update skips the second. An observer goes
`checking` (the head of the loop), `asking`, `publishing`, `sending`, `leaving`.
`publish` is two steps, since storing the snapshot and sending it to the pages are
two. The handle of a started round names its run; the handle of a resumed process
names the Workflow ID only and asks the latest run (`tracksLatest`). A client that hangs up makes
axum drop the handler at the await it is in: `StartDropped` leaves the slot taken and
nobody at work (`orphaned` is the history of it), and a dropped Update is one of the
endings of `UpdateFails`. The second half of `publish` and the spawn of the observer
follow its first without an await, so nothing can be dropped between them. `Crash` takes all
tasks along but not the calls on their way; `lost` is history: the rounds the process
cannot know of. A snapshot is a game, a status and one growing number in place of all
other fields.

### 2.6 EventWindow, QuestionDeck, Panels, Motor, Leds, Contents

Five algorithms that share nothing; `Contents` works one of them through per
behaviour. `EventWindow` is `push_kind`. `QuestionDeck` is `general_questions` (one entry
of the database a step), `validate_questions` (an authored question is a prompt and
whether it passes `fits` and the check of its index), the weighted batches of `build_deck`
and `shuffle_answers`; which prompt a shuffle puts where does not matter to any
property, so a question is its bucket and its position there. `Panels` is the wrapping of
the answers into the panel's lines, a word a step. `Motor` is the vibration patterns as
the UI thread's loop plays them, `sleep_now` and its blocking wait included. `Leds` is
the blinking tick or cross over a bus that fails at any chunk, up to a deep sleep that
fails or does not.

## 3. The runs

| Run | Question | Size |
|---|---|---|
| `deck` | Do dealing, recycling and power-ups keep the deck, the slots, the exclusion of modifiers and the promise of `Round`, and does every round finish? Templates with a Rust question, without one, of one question, and empty. | 4 questions scheduled: at least two cycles of every template |
| `scores` | Does the board add up, are the winners those of the final board, does nothing close the round early, and do the slots stay accounted for? Two badges, right and wrong answers, panics and Signals in any order; today's code and histories recorded before either patch. | 2 badges, 2 slots, 2 questions over two cycles: up to 4 scheduled, 3 answered; right, wrong and malformed answers; attempt 1, one Signal |
| `screen` | Do presses, requests, sleep and overlay interleave safely? | 2 questions, 2 rounds, one overlay |
| `lease` | One live holder, final verdicts, cheap single misses, effective crashes? | 2 badges, 3 attempts |
| `handoff` | Does a crashed question stay away, and do the counters and the holder on record follow the attempts, with lost tasks, reports and Signals, failing flash and reboots? | 2 badges, 2 questions (one scheduled after an extension), rounds of 3 and 2 attempts |
| `controller` | Does the slot have one owner, is a running round followed, does the board stay behind the round, is the claim of a restored state backed, and is the slot given back? | 2 rounds, 2 requests at a time, any number of restarts |
| `contents` | Event window, deck building, wrapping of answers, motor and LEDs against their reference definitions | windows of 3 and up to 8 events; up to 3 database entries over 4 authored decks, one with a question that does not fit; 2 panels of up to 3 words; 4 patterns; 3 blinks |
| `endround`, `stale`, `ghost`, `frozen`, `served` | the disagreements of section 5 | |

Why the bounds are enough. The deck's rule for a cycle depends on its
parity and on the template's length, and the runs reach both parities, with and
without a remainder of undealt cards. Exclusion and sweeping of modifiers compare times with
a tick: durations of a few units reach each order of tick, end of modifier,
deadline and lag. In `scores` both slots are filled and answered again, so two results are
ready together, both badges score, one badge scores twice, and under sudden death a second
right answer is ready when the first ends the round: ties above zero, leads and overtaking are
all reached, with the single and the double value. In
`screen` one queued choice and two questions are what it takes to confuse two
questions, and `SleepHold = 2` lets a sleep begin and be interrupted. In `lease`
a question can disturb its next holder only through what is still on the wire,
and three attempts let each badge hold the question again after the other.
In `handoff` three attempts are a first, a handoff and a return to the first badge, and
the second round meets the session of the first. In `controller` two requests and an
observer are the three kinds of publisher, and the second round meets the leftovers
of the first; one `MaxVersion` step after the start makes a snapshot old. In
`contents` a window of three holds every mixture of durable events and answers, the words
of `Panels` are two that fill a line together with the space between them, so that other
pairs miss it by one, one that fills it alone, and one no line can hold; its panel has the
sizes of the code.
`MaxPowerups`, `MaxScheduled`, `MaxLag`, `MaxAttempt`, `MaxSignals`,
`MaxActivities`, `MaxGames`, `MaxAttempts`, `MaxVersion`, `MaxPushed`, `MaxPlayed` and
`MaxFeedback` bound counters only.

The times of `lease` are units of half a second: heartbeat interval 2, as in
`contract.rs`, blackout longer than the timeout by one interval as there, budget
and timeout shortened from 20 and 30 to 7 and 11 with the order asserted in
`contract.rs` kept; the 250 ms of the retry policy are rounded up to a unit.

Each of the lease's properties holds for networks of bounded latency only, and its
comment names the bound; section 4 proves that it is enough. With the times of `contract.rs` and the 250 ms retry
interval, `OneLiveBadge` needs a latency below 5.25 s and `SingleMissCostsNothing` one below 4 s. `VerdictIsFinal` needs it to
be below an interval and, when every heartbeat of the last ten seconds was lost, at
most 1.3 s: a badge shows a verdict up to the moment its budget ends, and then
feedback, Core's last heartbeat and the report all have to fit into the five
seconds left. `CrashLosesQuestion` needs an interval (1 s): a heartbeat slower
than that reaches the server late enough to keep the lease past the blackout. The
five-second stalls `contract.rs` mentions are beyond the last two bounds.

Fairness.

* `deck` (`RoundFinishes`): weak fairness of `RunLoop` (the controller's Workflow
  worker keeps polling), of `TimerFires` (the server fires due timers) and of
  `AdvanceClock`. Nothing is assumed of badges and operators: the round has to finish
  also when no badge ever answers.
* `controller` (`SlotFreed`): weak fairness of every task's own next step (tokio runs
  a task that is ready) and of a start call ending one way or the other; strong fairness of
  `ObserverAnswered`, since the loop asks again and again and some answer arrives; weak
  fairness of `Finish`, which is `RoundFinishes`. Nothing is assumed of restarts.
* `contents` (`MotorStops`, `LedsGoDark`): the UI thread's loop turns, the player lets go of the
  buttons some day, and of the writes tried again some succeed (strong fairness of
  `Blink`).

`BadgeUi`, `ActivityLease` and `Handoff` are checked for safety only. Deadlock is
checked in every passing run but `contents`, whose algorithms end.

## 4. The proofs

Each holds for every value of the constants that satisfies the named assumptions.

| Theorem | States | By |
|---|---|---|
| `GameWorkflow_proofs!RefillIsAPermutation` | a refill is a permutation of the template under fresh IDs | rotation and reversal of positions are injective, for any length and cycle |
| `ModifiersNeverOverlap` | `ModifiersExclusive` | `ChaosInv` |
| `ModifiersSweptInTime` | `ModifiersSwept` | `SweepInv` |
| `ActivityIdsNeverRepeat`, `RecyclingLosesNoCard` | `UniqueActivityIds`, `NoCardLost` | `DeckInv` |
| `NoQuestionUnaccounted` | `QuestionsAccounted` | `SlotInv` |
| `TypeCorrect` | `TypeOK` | `LoopTypes`, `ScoreTypes`, `SignalTypes` |
| `RoundKeepsItsPromise` | `GameWorkflow` implements `Round` | `PhaseInv`, `DeckInv`, `SlotInv` |
| `RoundEnd_proofs!AtMostOneLateAnswer` | `OneLateAnswer` | `LateInv` |
| `EverySlotIsFed`, `RoundClosesForAReason` | `FieldFed`, `ClosesForAReason` | `FedInv`, `SlotInv`, `DeckInv` |
| `WinnersLeadTheBoard` | `FinalStandings` | `BoardInv` |
| `ScoreboardAddsUp` | `ScoresAddUp` | `SumInv`, the sums of `Data_proofs` |
| `BadgeUi_proofs!TypesHold` | types and the bound of the queue | itself |
| `OneCrashPerHold` | `OneHoldOneCrash` | `PressInv` |
| `NoPressEverCarriesOver`, `QueueFollowsScreen` | the two properties of the queue | `QueueInv`, `PressInv` |
| `WaitingQuestionOwnsScreen` | `QuestionOwnsScreen`, for every interleaving; the one exception is its `overtaken` | `ScreenInv` |
| `ActivityLease_proofs!TypesHold` | types, and no silence past the budget | itself |
| `OneBadgeLive` | `OneLiveBadge` on every `PromptNetwork` | `HoldersInv`, `WaitingInv` |
| `OneMissIsFree` | `SingleMissCostsNothing` where `RoomForOneMiss` | `PaceInv`, `WaitingInv` |
| `VerdictStays` | `VerdictIsFinal` where `RoomForVerdict` | `VerdictInv`, `WaitingInv` |
| `CrashIsTimedOut` | `CrashLosesQuestion` where `RoomForCrash` | `BeatsInv`, `DarkInv` |
| `Handoff_proofs!TypesHold` | types | itself |
| `CrashedQuestionsStayAway` | `CrashedStaysAway` | `CrashInv` |
| `HandoffsAreCountedOnce` | `HandoffsAreAttempts`, also with late Signals | `HandoffInv` |
| `AttemptsStayAligned`, `RecordStaysNewest` | `AttemptsAligned`, `NewestOnRecord` without `LateSignals` | `AlignInv` |
| `Controller_proofs!TypesHold` | types | `TypeInv` |
| `SlotStaysOwned` | `SlotOwned`, dropped handlers included: until one was dropped (`orphaned`) a taken slot has its one owner, and never two | `SlotInv` |
| `RunningRoundStaysKnown` | `RunningRoundKnown` | `WorkInv`, `KnownInv` |
| `BoardStaysBehind` | `BoardNeverAhead` | `WorkInv`, `BoardInv` |
| `ClaimStaysBacked` | `ClaimBacked` | `WorkInv`, `ClaimInv` |
| `Contents_proofs!WindowAlwaysTells` | `WindowTellsTheStory` | `WindowInv` |
| `GeneralAlwaysFirst` | `GeneralIsFirstOfEach` | `FilterInv` |
| `WeightsAlwaysKept`, `DeckIsWholeOrRefused` | `WeightsKept`, `DeckOrNothing` | `DeckInv`, `FilterInv` |
| `NothingEverSkipped` | `NothingSkipped` | `PanelsInv` |
| `LastPatternIsFelt` | `PatternIsFelt` | `MotorInv` |

Assumptions: `AnswersAssumption`, `TimesAssumption` (positive times) and
`InputsAssumption` (`validate_questions`: no question twice in a template) for the
round; `PanicHoldAssumption` and `UiAssumption` for the badge; for the lease
`ContractAssumption`, the assertions of `contract.rs`, and `NetworkAssumption`;
for the handoff `HandoffAssumption`, for the controller `GamesAssumption`. For the
contents: `WindowAssumption` (a window of at least one event), `DeckAssumption` (every
category has a weight, as 30, 15, 15 and 40 in `build_deck`; buckets and databases are
sequences), `PanelsAssumption` (lines that hold something, and texts of words that are
not empty, which is what `split_whitespace` yields), `MotorAssumption` (steps that last).

Why the invariants are stronger than the properties:

* The validator knows only the last sweep, so `ChaosInv` adds that every recorded
  end of a modifier lies after that sweep: the validator then refuses on exactly
  what is recorded, and at most one modifier is recorded.
* `DeckInv` says which cycles the undealt cards and the dealt ones are from. A
  refill is in a cycle of its own, so it collides with neither.
* `SlotInv` ties the counter to the set of Activities, the queue of results and the
  dealt cards, and places the loop: a slot is free only where a card is dealt.
* `SweepInv` relates each modifier's end to the tick the loop armed after it.
* `PressInv` follows a press through the gesture machine: after a crash, a new
  screen or an overlay the machine waits for a release, so nothing it still reports
  can be of an older press. `QueueInv` is inductive only together with it.
* `HoldersInv` says that unreported attempts are in the hands of one badge each.
  `WaitingInv` bounds what the server has not heard by what the badge knows: the
  time since it was offered the task, its silence plus `Latency`, or the age of a
  call that has been answered. A server that gave the attempt away must have
  waited `Timeout + Backoff`, more than the budget and a latency together.
* `PaceInv` bounds a badge's silence by where its heartbeat task is in its round, and by
  one missed round before it. `RoomForOneMiss` is twice a round within the budget, and
  the server's wait, two pauses and three latencies, within its timeout.
* `VerdictInv` carries the bound of `WaitingInv` on through feedback (a choice is taken
  before the budget ends), the one heartbeat the report waits for, and the report's way;
  `RoomForVerdict` says that this sum is within the server's timeout.
* `BeatsInv` says that Core's queue is empty whenever time passes: a call follows the
  last one an interval later, when the throttle has ended. So a badge that crashes has
  sent its last heartbeat at that moment, and `DarkInv` bounds what the server has
  heard since by `Latency`. `RoomForCrash` makes the blackout longer than the rest.
* `LateInv`: a late answer leaves the loop at the head of the pass that finds the deadline.
  `FedInv` says why a pass may stop with a slot free, and that a recycled template always
  has a card to deal: the refill holds every question (`RefillIsAPermutation`).
* `SumInv` is `ScoresAddUp` with the types of a scoreboard's lines. Its sum is a fold; that a
  fold over a finite set exists and changes with one of its terms is proved in
  `Data_proofs`, from a smallest set for which it would not be so.
* `BoardInv` bounds every score by twice the answers, so the scores of a board with a
  line have a greatest one: the least distance to the bound. Well-foundedness of the
  naturals, which needs no induction theorem, gives that least element.
* `ScreenInv` follows a question through the channel: it is still on its way with
  nothing behind it that takes the controls, or it is on screen, or the end of its own
round's hold overtook it.
* `CrashInv` says that the flash, too, remembers every question that was crashed in the
  game it is for: a reboot then loads what memory knew. That a later deadline must keep the
  list is what makes it inductive.
* `HandoffInv` follows one report: an attempt is seen at most once (`OneReport`, since
  the report's Signal and its having been seen exclude each other), and every
  count has an attempt of its own (`CountInv`).
* `AlignInv` accounts for an attempt that is not yet seen: it is running at its badge, its
  Signal is on its way and awaited, or it is known to be lost. Without late Signals
  a badge with an open report still holds that question's newest attempt, so no
  report can arrive after a newer one.
* `SlotInv` says that no two tasks are at work and that an idle request is no owner;
  a free slot then means that nobody works. `WorkInv` adds what the server knows:
  `ServerInv` (only the latest round can be running, a call on its way is for a round that
  waits), `ReplyInv` and `WatchInv` (an answer once given stays true: an accepted round
  never waits again, a finished one never changes).
* `KnownInv` adds the calls on their way: each has a request waiting for it or is lost.
  `BoardInv` extends `BoardNeverAhead` to the snapshots still in the hands of
  publishers; `ClaimInv` says that whoever publishes or observes has a round to show.

* `WindowInv` says which events a window shows: those with room above them for the later
  events of their kind and, for an answer, for all the durable ones. A push puts at most one
  of them out, and that is the one `push_kind` drops (`VictimIsLast`).
* `FilterInv` adds that `seen` holds the prompts of the entries that were accepted, and not
  those of the entries that were turned down.
* `DeckInv`: what is dealt of a bucket is its beginning, as far as its cursor, so the deck
  has as many questions as the cursors add up to (`RunsSize`), and no question twice. As
  long as the deck is not full, a bucket has given its whole share in every batch or its
  last question (`WeightsInv`), so the batches end with a full deck or with empty buckets.
* `PanelsInv` adds that the size a line carries is its width, and that only the first of the
  remaining pieces may be the rest of a word: what is broken again reaches to the end of
  its word, so nothing is lost between the two parts (`BreakMakes`).
* `MotorInv` adds that a step is held only while `index` is that of a step.

Every invariant that a passing run checks is proved, and so are the action properties and
the refinement. Model-checked only are the liveness properties (`RoundFinishes`, `SlotFreed`,
`MotorStops`, `LedsGoDark`): liveness under fairness and ENABLED are out of the prover's
reach. What `Data_proofs` says of folds and of `FlattenSeq` is induction over data;
the library's induction theorems cannot be instantiated here, and each of those proofs takes a
least counterexample from a well-founded order instead. No module that is proved about has
a RECURSIVE operator.

## 5. Where the code and its documentation disagree

Each of these is a run in which TLC finds the quoted statement violated; `PROJECT.json` has
the quotes.

* `endround`: an extension accepted right after `end_round` moves the deadline of the
  ended round into the future again.
* `stale`: an Activity may take a choice made on the question before it.
* `ghost`: a question whose Activity ended without a choice stays on screen past the
  standings and the result hold.
* `frozen`: the answer of an Update, fetched while the round ran, may be published over
  the final board after the observer has gone; the board then says running for good.
* `served`: a restarted controller whose one restoration Query fails serves an
  empty board while the round runs, and never follows it.

Further disagreements, without a run of their own; where a property meets one it names
the case and excludes nothing else:

* *The waiting screen over a live question.* The comment at `firmware/src/main.rs:671-673`
  and `GAME_SPEC.md:40-45` say that only the Activity overwrites a live question and that a
  question drawn between a check and a draw is never erased. The result watcher asks
  `Ui::answering` and requests the waiting screen in two steps (674, 681): a question of the
  watched round that is on its way to the screen in between is painted over and loses its
  buttons, until its budget or its deadline ends it. `QuestionOwnsScreen` allows it by
  `overtaken`. For a question of the next round it cannot happen, since
  `start_result_watcher` retires the old watcher first (647-649).
* *A refusal sends something.* `GAME_SPEC.md:28-30` says that a badge refuses a question it
  abandoned before drawing it or sending anything. `answer_question` sends `badge_started`
  and waits for it before it asks `is_abandoned` (`firmware/src/main.rs:294-303`), and the
  comment there (300-302) wants exactly that. The code follows its comment, and so does
  `AttemptsAligned`: every attempt is counted, a refused one too. `firmware/README.md:132-133`
  promises only that nothing is drawn, which holds.
* *The slot of a client that hung up.* A `start_game` whose client disconnects between the
  reservation and the spawn of the observer (`web/src/main.rs:364-404`) is dropped by axum
  where it waits. The slot stays taken and nobody observes the round: the next start is
  answered with "a game is already running" until the process restarts, which then adopts the
  round if it still runs. `SlotOwned` and `SlotFreed` name the case by `orphaned`.
* *The shares of the deck.* `GAME_SPEC.md:100` gives 30, 15, 15 and 40 per cent; the deck of
  500 that ships has not enough questions in two categories, and the others fill it up.
  `WeightsKept` exempts a category that has run out.
* *LEDs left burning.* A render that is cut off while nothing is visible leaves light that
  nobody clears, and a deep sleep goes ahead after a clear that failed
  (`firmware/src/ui.rs:428-431`). `LedsGoDark` excludes the two by `torn` and `asleep`.

Observations made while modelling, each by reading the code or by a variant of the
models, without a run of its own:

* A power-up may be refused because of a modifier that has ended, until the next sweep:
  the validator knows the time of the last sweep only.
* With an answer that travels longer than five seconds two badges show one live question.
* An answer ready together with the tick that ends the round, or just before it, is
  scored after the deadline. `OneLateAnswer` says that this happens once at most.
* With `LateSignals` a report that arrives after its sender gave up on it overwrites the
  holder on record, and `NewestOnRecord` fails: the timeout ends the call, not the request.
* A refused attempt counts as a handoff and as a heartbeat timeout when the question
  goes on to another badge. Two badges that both crashed out of a question bounce it
  between them until the round ends.
* When `begin_game` fails, the report that was built is dropped and the attempt is
  missing from the board (`AcceptFails`, which `AttemptsAligned` allows by name).
* `end_round` and `apply_chaos` check the slot and then update the latest run of the Workflow
  ID: an Update meant for a round that has just ended may reach the next.
* The loop of `build_deck` that fills up with general questions (`questions.rs:68-71`) never
  has one to take: the batches end only when every category is empty or the deck is full
  (`DeckOrNothing`). The second `validate_questions`, of the finished deck, can find nothing
  the first and the filter let through.
* `questions.rs` admits answers of 20 characters, the panel has two lines of 11: some
  admitted answers are clipped, and two answers that differ at the end look alike. A test,
  not `build_deck`, applies the renderer's own check to the questions that ship.
* A pattern keeps its strength while `sleep_now` waits for the buttons: the motor
  buzzes for as long as one is held.
* An answer that comes into an event window full of durable events drops itself.
* The sleep gesture is ignored while a question owns the controls; the model shows
  that it can still be completed while a question is on its way to the screen.
* A crash gesture broken one side at a time answers with the side let go last; a
  test in `badge-input` pins that.

## 6. What is left out

* Texts: events, Memo, search attributes, the `latest_*` display fields; the event
  `recovered` pushes; saturation of the 32-bit cycle counter.
* In `BadgeUi`: boot screens and the acceptance harness's injected gestures. A missing
  `workflow_handle` only suppresses Signals. Which questions were abandoned is
  `Session`'s; there a refusal may happen at any time.
* In `Session`: a stored value that does not parse, which is discarded.
* In `Handoff`: points. Feedback shows those of the last power-up poll while the Workflow
  scores with its own clock; the code settles for that.
* In `Controller`: the history of rounds, the badge count, `workflow_details` and the
  page's assets, which read only; the length of the back-off's pauses; the branch of
  `resume_active_game` for a snapshot without a game (660-662), which a Workflow that has
  run its first task never gives.
* In `QuestionDeck`: the texts of authored and computed questions, HTML entities, IDs; the
  body of the fill loop, of which the model shows that it is never entered.
* The board in the browser renders the snapshot it got last, `Controller`'s `feed`.
* The atomicity of a validator and its handler in one activation is assumed of the
  Temporal SDK.
* Boot, Wi-Fi, glyphs and layout, power, identity, cloud connection, acceptance
  harness, simulator, tools: device and file I/O, or configuration. A boot that fails
  restarts the badge, which `ActivityLease` and `Handoff` have as `Reboot`.

## 7. Plan

Every part that keeps protocol state has a module. What could follow:

* Theorems: the abstract side of `LedsGoDark` (what a render that is not torn shows) and the
  gestures of `BadgeInput` by themselves; liveness stays with TLC.
* Refinement: `Handoff` against a sequence of real holders, and `Controller`'s `Finish`
  and `Progress` as what `GameWorkflow` does.
* The simulator's badge against `Handoff`.
