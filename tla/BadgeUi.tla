------------------------------- MODULE BadgeUi -------------------------------
(***************************************************************************)
(* One badge between the Worker and the player (firmware/src/ui.rs and the *)
(* callers of Ui in firmware/src/main.rs).                                 *)
(*                                                                         *)
(* The UI thread owns screen and buttons.  The Activity, the result        *)
(* watcher and the power-up poller are tasks of one single-threaded        *)
(* runtime; they send it requests and read the choices it recognised, so   *)
(* each of their steps runs from one await to the next, while the UI       *)
(* thread runs beside them.                                                *)
(*                                                                         *)
(* Waits that end with time (feedback, blackout, overlay, result hold) end *)
(* at any moment.  An Activity is known by its serial number on this       *)
(* badge, which also names the question it carries.                        *)
(***************************************************************************)
EXTENDS BadgeInput, Sequences

CONSTANTS
    Samples,        \* the readings of the buttons the player produces
    QueueSize,      \* MAX_QUEUED_CHOICES
    SleepHold,      \* samples DOWN stays down for deep sleep
    StorageFails,   \* whether a write of the session may fail
    MaxActivities,  \* Activities started on this badge
    MaxGames,       \* rounds
    MaxPowerups     \* overlays

ASSUME UiAssumption ==
    /\ Samples \subseteq SUBSET Buttons
    /\ QueueSize \in Nat \ {0} /\ SleepHold \in Nat \ {0}
    /\ StorageFails \in BOOLEAN
    /\ MaxActivities \in Nat /\ MaxGames \in Nat /\ MaxPowerups \in Nat

VARIABLES
    \* The UI thread.
    power,      \* "on", "dozing" in sleep_now, "asleep"
    uiStep,     \* where its loop is: "drain" the requests, then "sample"
    screen,     \* Screen: the question that owns the controls, or Nobody
    shown,      \* what the display shows
    buttons,    \* ButtonState
    overlay,    \* the power-up overlay: "none", "fresh" (not sampled yet), "up"
    downHeld,   \* samples of the sleep gesture
    pressed,    \* the last reading of the buttons
    inbox,      \* requests not applied yet
    choices,    \* choices the Activity has not taken yet
    \* The Activity.
    act,        \* "none", "waiting", "chosen", "feedback", "blackout"
    serial,     \* Activities started so far
    playing,    \* game of the task the last of them was given
    taken,      \* the choice the Activity acts on
    \* The result watcher: its game and "armed", "holding", "done" with the
    \* standings shown, or "pending" without.
    watcher,
    \* The round and the server.
    game, over, \* the current round and whether it has finished
    task,       \* game of the task on its way to this badge, or 0
    powerups,   \* overlays so far
    \* History.  Of the press in hand: the question it began on and the crashes
    \* it made.  The question whose own round sent the waiting screen after it.
    press, overtaken

uiVars    == <<power, uiStep, screen, shown, buttons, overlay, downHeld, pressed,
               press>>
actVars   == <<act, serial, playing, taken>>
roundVars == <<game, over, task>>
vars      == <<uiVars, inbox, choices, actVars, watcher, roundVars, powerups,
               overtaken>>

Nobody   == 0
NoPress  == [from |-> Nobody, crashes |-> 0]
NoChoice == [pick |-> NoPick, on |-> Nobody, from |-> Nobody]

Request(kind)  == [kind |-> kind, serial |-> 0]
Question(n)    == [kind |-> "question", serial |-> n]
Show(requests) == inbox' = inbox \o requests

Init ==
    /\ power = "on" /\ uiStep = "drain" /\ screen = Nobody /\ shown = "waiting"
    /\ buttons = Idle /\ overlay = "none" /\ downHeld = 0
    /\ pressed = {} /\ press = NoPress
    /\ inbox = <<>> /\ choices = <<>>
    /\ act = "none" /\ serial = 0 /\ playing = 0 /\ taken = NoChoice
    /\ watcher = [game |-> 0, phase |-> "pending"]
    /\ game = 1 /\ over = FALSE /\ task = 0 /\ powerups = 0 /\ overtaken = Nobody
-----------------------------------------------------------------------------
\* The UI thread.

\* The press in hand after a reading taken while owner had the controls.
Pressing(reading, owner) ==
    IF reading = {} THEN NoPress
    ELSE IF pressed = {} THEN [from |-> owner, crashes |-> 0]
    ELSE press

Receive(kinds) ==
    /\ power = "on"
    /\ uiStep = "drain"
    /\ inbox # <<>>
    /\ Head(inbox).kind \in kinds
    /\ inbox' = Tail(inbox)

\* Faulty variants: choices of the last screen stay; a button still down is
\* not waited for.
QuestionKeepsChoices(reading) ==
    /\ buttons' = IF reading = {} THEN Idle ELSE SuppressedUntilRelease
    /\ UNCHANGED choices

QuestionKeepsPress(reading) ==
    /\ choices' = <<>>
    /\ buttons' = Idle

\* Whatever the buttons were doing belonged to the last screen.
ForgetLastScreen(reading) ==
    /\ choices' = <<>>
    /\ buttons' = IF reading = {} THEN Idle ELSE SuppressedUntilRelease

ApplyQuestion ==
    /\ Receive({"question"})
    /\ \E reading \in Samples :
          /\ ForgetLastScreen(reading)
          /\ pressed' = reading
          /\ press' = Pressing(reading, Nobody)
    /\ screen' = Head(inbox).serial
    /\ shown' = "question"
    /\ UNCHANGED <<power, uiStep, overlay, downHeld, actVars, watcher, roundVars,
                   powerups, overtaken>>

ApplyScreen ==
    /\ Receive({"waiting", "feedback", "crashed", "recovered"})
    /\ screen' = Nobody
    /\ shown' = Head(inbox).kind
    /\ UNCHANGED <<power, uiStep, buttons, overlay, downHeld, pressed, press,
                   choices,
                   actVars, watcher, roundVars, powerups, overtaken>>

\* A question outranks the standings.
DrawStandings(kind) == shown' = IF screen = Nobody THEN kind ELSE shown

ApplyStandings ==
    /\ Receive({"standings", "pending"})
    /\ DrawStandings(Head(inbox).kind)
    /\ UNCHANGED <<power, uiStep, screen, buttons, overlay, downHeld, pressed,
                   press,
                   choices, actVars, watcher, roundVars, powerups, overtaken>>

ApplyPowerup ==
    /\ Receive({"powerup"})
    /\ overlay' = "fresh"
    /\ shown' = "powerup"
    /\ UNCHANGED <<power, uiStep, screen, buttons, downHeld, pressed, press,
                   choices,
                   actVars, watcher, roundVars, powerups, overtaken>>

Drained ==
    /\ power = "on"
    /\ uiStep = "drain"
    /\ inbox = <<>>
    /\ uiStep' = "sample"
    /\ UNCHANGED <<power, screen, shown, buttons, overlay, downHeld, pressed, press,
                   inbox, choices, actVars, watcher, roundVars, powerups, overtaken>>

\* expire_overlay, with what the display shows afterwards.  An overlay applied
\* in this turn of the loop cannot end in it.
ExpireOverlay(lifted, redrawn) ==
    /\ lifted => overlay = "up"
    /\ overlay' = IF overlay = "none" \/ lifted THEN "none" ELSE "up"
    /\ redrawn = IF ~lifted THEN shown
                 ELSE IF screen = Nobody THEN "waiting" ELSE "question"

\* Faulty variant: a full queue grows.
EnqueueUnbounded(choice) == choices' = Append(choices, choice)

Enqueue(choice) ==
    choices' = Append(IF Len(choices) >= QueueSize THEN Tail(choices) ELSE choices,
                      choice)

\* The press a reading on a question belongs to; letting go belongs to the
\* press it ends.
Gesture(reading, active) ==
    IF reading = {} THEN press
    ELSE Pressing(reading, IF active THEN Nobody ELSE screen)

\* One turn of the loop while a question owns the controls.
SampleQuestion ==
    /\ power = "on" /\ uiStep = "sample" /\ screen # Nobody
    /\ \E reading \in Samples, lifted \in BOOLEAN :
          LET active  == overlay # "none" /\ ~lifted
              outcome == Advance(buttons, reading, active)
              gesture == Gesture(reading, active)
          IN  /\ ExpireOverlay(lifted, shown')
              /\ buttons' = outcome.next
              /\ pressed' = reading
              /\ \/ outcome.pick = NoPick /\ UNCHANGED choices
                 \/ outcome.pick # NoPick
                      /\ Enqueue([pick |-> outcome.pick, on |-> screen,
                                  from |-> gesture.from])
              /\ press' = IF reading = {} THEN NoPress
                          ELSE [gesture EXCEPT !.crashes =
                                   IF outcome.pick = "panic" THEN @ + 1 ELSE @]
    /\ uiStep' = "drain"
    /\ downHeld' = 0
    /\ UNCHANGED <<power, screen, inbox, actVars, watcher, roundVars, powerups,
                   overtaken>>

\* One turn on any other screen, where DOWN held long enough means sleep.  The
\* countdown appears some time into the hold, and leaves with the button.
SampleIdle ==
    /\ power = "on" /\ uiStep = "sample" /\ screen = Nobody
    /\ \E reading \in Samples, lifted \in BOOLEAN, redrawn \in {shown, "waiting"} :
          LET active == overlay # "none" /\ ~lifted
              counts == ~active /\ "down" \in reading
          IN  /\ ExpireOverlay(lifted, redrawn)
              /\ pressed' = reading
              /\ press' = Pressing(reading, Nobody)
              /\ \/ /\ ~counts
                    /\ downHeld' = 0
                    /\ power' = "on"
                    /\ \/ shown' = redrawn
                       \/ ~active /\ downHeld > 0 /\ shown' = "waiting"
                 \/ /\ counts /\ downHeld + 1 < SleepHold
                    /\ downHeld' = downHeld + 1
                    /\ power' = "on"
                    /\ shown' \in {redrawn, "countdown"}
                 \/ /\ counts /\ downHeld + 1 >= SleepHold
                    /\ downHeld' = downHeld
                    /\ power' = "dozing"
                    /\ shown' = "sleeping"
    /\ buttons' = Idle
    /\ uiStep' = "drain"
    /\ UNCHANGED <<screen, inbox, choices, actVars, watcher, roundVars, powerups,
                   overtaken>>

\* sleep_now waits for the buttons, serving nothing meanwhile, and powers off;
\* when deep sleep fails the loop goes on.
PowerOff ==
    /\ power = "dozing"
    /\ pressed' = {} /\ press' = NoPress
    /\ shown' = "off"
    /\ power' \in {"asleep", "on"}
    /\ UNCHANGED <<uiStep, screen, buttons, overlay, downHeld, inbox, choices,
                   actVars,
                   watcher, roundVars, powerups, overtaken>>

\* Waking is a boot: nothing of the Worker or the UI thread survives it.
Wake ==
    /\ power = "asleep"
    /\ power' = "on" /\ uiStep' = "drain" /\ screen' = Nobody /\ shown' = "waiting"
    /\ buttons' = Idle /\ overlay' = "none" /\ downHeld' = 0
    /\ inbox' = <<>> /\ choices' = <<>>
    /\ act' = "none" /\ taken' = NoChoice
    /\ watcher' = [game |-> 0, phase |-> "pending"]
    /\ task' = 0
    /\ UNCHANGED <<pressed, press, serial, playing, game, over, powerups,
                   overtaken>>

-----------------------------------------------------------------------------
\* answer_question.

Awake == power # "asleep"

\* Faulty variant: a watcher still at work is left alone, whatever its round.
WatchingOn(g) ==
    IF watcher.phase \in {"armed", "holding"}
    THEN watcher
    ELSE [game |-> g, phase |-> "armed"]

\* start_result_watcher: a watcher of another round is aborted.
Watching(g) ==
    IF watcher.game = g /\ watcher.phase \in {"armed", "holding"}
    THEN watcher
    ELSE [game |-> g, phase |-> "armed"]

\* Everything up to the first await: the question is asked for before the
\* session is written, which may fail.
AcceptTask ==
    /\ Awake /\ act = "none" /\ task # 0
    /\ watcher' = Watching(task)
    /\ serial' = serial + 1 /\ playing' = task
    /\ Show(<<Question(serial + 1)>>)
    /\ act' \in {"waiting"} \cup (IF StorageFails THEN {"none"} ELSE {})
    /\ task' = 0
    /\ UNCHANGED <<uiVars, choices, taken, game, over, powerups, overtaken>>

\* A question this badge has abandoned is refused before anything is drawn.
Refuse ==
    /\ Awake /\ act = "none" /\ task # 0
    /\ task' = 0
    /\ UNCHANGED <<uiVars, inbox, choices, actVars, watcher, game, over, powerups,
                   overtaken>>

\* wait_for_choice ends without a choice: cancelled, stopped, past the
\* deadline or silent for too long.
LetGo ==
    /\ Awake /\ act = "waiting"
    /\ act' = "none"
    /\ UNCHANGED <<uiVars, inbox, choices, serial, playing, taken, watcher,
                   roundVars, powerups, overtaken>>

TakeChoice ==
    /\ Awake /\ act = "waiting"
    /\ choices # <<>>
    /\ taken' = Head(choices) /\ choices' = Tail(choices)
    /\ act' = "chosen"
    /\ UNCHANGED <<uiVars, inbox, serial, playing, watcher, roundVars, powerups,
                   overtaken>>

ShowFeedback ==
    /\ Awake /\ act = "chosen" /\ taken.pick # "panic"
    /\ Show(<<Request("feedback")>>)
    /\ act' = "feedback"
    /\ UNCHANGED <<uiVars, choices, serial, playing, taken, watcher, roundVars,
                   powerups, overtaken>>

Complete ==
    /\ Awake /\ act = "feedback"
    /\ Show(<<Request("waiting")>>)
    /\ act' = "none" /\ taken' = NoChoice
    /\ UNCHANGED <<uiVars, choices, serial, playing, watcher, roundVars, powerups,
                   overtaken>>

\* The session is written before the screen changes, and that may fail.
Crash ==
    /\ Awake /\ act = "chosen" /\ taken.pick = "panic"
    /\ \/ Show(<<Request("crashed")>>) /\ act' = "blackout"
            /\ UNCHANGED taken
       \/ /\ StorageFails
          /\ act' = "none" /\ taken' = NoChoice
          /\ UNCHANGED inbox
    /\ UNCHANGED <<uiVars, choices, serial, playing, watcher, roundVars, powerups,
                   overtaken>>

Recover ==
    /\ Awake /\ act = "blackout"
    /\ Show(<<Request("recovered")>>)
    /\ act' = "none" /\ taken' = NoChoice
    /\ UNCHANGED <<uiVars, choices, serial, playing, watcher, roundVars, powerups,
                   overtaken>>

-----------------------------------------------------------------------------
\* The result watcher.

Finished(g) == g < game \/ over

SeeStandings ==
    /\ Awake /\ watcher.phase = "armed" /\ Finished(watcher.game)
    /\ Show(<<Request("standings")>>)
    /\ watcher' = [watcher EXCEPT !.phase = "holding"]
    /\ UNCHANGED <<uiVars, choices, actVars, roundVars, powerups, overtaken>>

GiveUpOnStandings ==
    /\ Awake /\ watcher.phase = "armed"
    /\ Show(<<Request("pending")>>)
    /\ watcher' = [watcher EXCEPT !.phase = "pending"]
    /\ UNCHANGED <<uiVars, choices, actVars, roundVars, powerups, overtaken>>

\* Ui::answering is asked here, the request is applied later.  The flag is
\* stored once a request has been applied: asked in between, it says the same.
RestoreWaiting ==
    IF screen = Nobody THEN Show(<<Request("waiting")>>) ELSE UNCHANGED inbox

Asked(kind) == \E i \in 1..Len(inbox) : inbox[i].kind = kind

\* The hold outlasts a turn of the UI thread.
EndHold ==
    /\ Awake /\ watcher.phase = "holding"
    /\ power = "on" => ~Asked("standings")
    /\ RestoreWaiting
    /\ overtaken' =
          IF screen = Nobody /\ Asked("question") /\ playing = watcher.game
          THEN serial ELSE overtaken
    /\ watcher' = [watcher EXCEPT !.phase = "done"]
    /\ UNCHANGED <<uiVars, choices, actVars, roundVars, powerups>>

\* monitor_powerups sees a notice it has not shown.
PollPowerup ==
    /\ Awake /\ ~over /\ powerups < MaxPowerups
    /\ powerups' = powerups + 1
    /\ Show(<<Request("powerup")>>)
    /\ UNCHANGED <<uiVars, choices, actVars, watcher, roundVars, overtaken>>

-----------------------------------------------------------------------------
\* The round and the server behind it.  A badge has one Activity slot.

Dispatch ==
    /\ Awake /\ act = "none" /\ task = 0 /\ ~over
    /\ serial < MaxActivities
    /\ task' = game
    /\ UNCHANGED <<uiVars, inbox, choices, actVars, watcher, game, over, powerups,
                   overtaken>>

FinishRound ==
    /\ ~over
    /\ over' = TRUE
    /\ UNCHANGED <<uiVars, inbox, choices, actVars, watcher, game, task, powerups,
                   overtaken>>

NewRound ==
    /\ over /\ game < MaxGames
    /\ game' = game + 1 /\ over' = FALSE
    /\ UNCHANGED <<uiVars, inbox, choices, actVars, watcher, task, powerups,
                   overtaken>>

-----------------------------------------------------------------------------
UiThread ==
    \/ ApplyQuestion \/ ApplyScreen \/ ApplyStandings \/ ApplyPowerup
    \/ Drained \/ SampleQuestion \/ SampleIdle \/ PowerOff \/ Wake

Worker ==
    \/ AcceptTask \/ Refuse \/ LetGo \/ TakeChoice \/ ShowFeedback \/ Complete
    \/ Crash \/ Recover
    \/ SeeStandings \/ GiveUpOnStandings \/ EndHold \/ PollPowerup

Server == Dispatch \/ FinishRound \/ NewRound

Next == UiThread \/ Worker \/ Server

Spec == Init /\ [][Next]_vars

-----------------------------------------------------------------------------
\* Types.

Press    == [from : Nat, crashes : Nat]
Choice   == [pick : Picks, on : Nat, from : Nat]
Kinds    == {"question", "waiting", "feedback", "crashed", "recovered", "standings",
            "pending", "powerup"}
Requests == [kind : Kinds, serial : Nat]
Screens  == Kinds \cup {"countdown", "sleeping", "off"}

\* Every variable keeps its type, and the queue of choices its bound.
TypeOK ==
    /\ power \in {"on", "dozing", "asleep"} /\ uiStep \in {"drain", "sample"}
    /\ screen \in Nat /\ shown \in Screens
    /\ buttons \in ButtonStates
    /\ overlay \in {"none", "fresh", "up"} /\ downHeld \in Nat
    /\ pressed \in SUBSET Buttons
    /\ inbox \in Seq(Requests)
    /\ choices \in Seq(Choice) /\ Len(choices) <= QueueSize
    /\ act \in {"none", "waiting", "chosen", "feedback", "blackout"}
    /\ serial \in Nat /\ taken \in Choice \cup {NoChoice}
    /\ watcher \in [game : Nat, phase : {"armed", "holding", "done", "pending"}]
    /\ playing \in Nat
    /\ game \in Nat /\ over \in BOOLEAN /\ task \in Nat /\ powerups \in Nat
    /\ press \in Press /\ overtaken \in Nat

-----------------------------------------------------------------------------
\* Safety.

\* While a question owns the controls, every choice waiting in the queue was
\* made on that question (the queue is emptied when the question is applied).
ChoicesAreOfTheScreen ==
    screen # Nobody => \A i \in 1..Len(choices) : choices[i].on = screen

\* No press carries over: a choice comes from a press that began on the very
\* question it answers, not on an earlier screen and not under an overlay
\* (SuppressedUntilRelease).
NoPressCarriesOver ==
    \A i \in 1..Len(choices) : choices[i].from = choices[i].on

\* However long both sides are held, and whatever screens come and go, one
\* hold is one crash.
OneHoldOneCrash == press.crashes <= 1

\* While the Activity waits for a choice and every request has been served,
\* its question owns the controls and is on display or under an overlay: no
\* standings, no late feedback and no watcher of an earlier round replace it,
\* which start_result_watcher retires before the question is drawn.  Only the
\* waiting screen that ends the hold of the question's own round does, when the
\* watcher asks who owns the screen (Ui::answering) while the question is still
\* on its way there.
QuestionOwnsScreen ==
    act = "waiting" /\ inbox = <<>> /\ power = "on" /\ overtaken # serial =>
        screen = serial /\ shown \in {"question", "powerup"}

-----------------------------------------------------------------------------
\* What documentation and comments say, and the code does not do.

\* "Anything the sampler recognised before this question opened was aimed at
\* the previous screen": the choice an Activity acts on was made on its own
\* question.
AnswersItsQuestion ==
    act \in {"chosen", "feedback", "blackout"} => taken.on = serial

\* "both boards back on the waiting screen afterwards": once the result hold
\* of a finished round has ended and the badge holds no task, no question owns
\* the controls.
RoundLeavesScreen ==
    watcher.phase = "done" /\ act = "none" /\ inbox = <<>> => screen = Nobody
=============================================================================
