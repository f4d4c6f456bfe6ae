--------------------------- MODULE BadgeUi_proofs ---------------------------
(***************************************************************************)
(* Proofs about BadgeUi, for every hold length, every set of samples and   *)
(* every length of the queue of choices.                                   *)
(***************************************************************************)
EXTENDS BadgeUi, SequenceTheorems, TLAPS

-----------------------------------------------------------------------------
(***************************************************************************)
(* Gestures.                                                               *)
(***************************************************************************)

\* What one sample does to the gesture machine, whatever it was doing: it
\* stays in its type; under an overlay, and after a crash, it waits for the
\* buttons to be let go; nothing it has suppressed becomes a choice; with no
\* button down only an armed side answers.
FollowsGesture(state, reading, active, outcome) ==
    /\ outcome.next \in ButtonStates
    /\ outcome.pick \in Picks \cup {NoPick}
    /\ active => outcome.next = SuppressedUntilRelease
    /\ outcome.pick # NoPick => ~active /\ state # SuppressedUntilRelease
    /\ outcome.pick = "panic" => outcome.next = SuppressedUntilRelease /\ reading # {}
    /\ reading = {} =>
           /\ outcome.next \in {Idle, SuppressedUntilRelease}
           /\ state \in {Idle, SuppressedUntilRelease} => outcome.pick = NoPick
    /\ state = SuppressedUntilRelease /\ reading # {} =>
           outcome.next = SuppressedUntilRelease

LEMMA AdvanceFollowsGesture ==
    ASSUME NEW state \in ButtonStates, NEW reading \in SUBSET Buttons,
           NEW active \in BOOLEAN
    PROVE  FollowsGesture(state, reading, active, Advance(state, reading, active))
<1> DEFINE outcome == Advance(state, reading, active)
<1>1. CASE active
  BY <1>1 DEF FollowsGesture, Advance, Outcome, ButtonStates, Picks, NoPick
<1>2. CASE ~active /\ state = SuppressedUntilRelease
  BY <1>2 DEF FollowsGesture, Advance, Outcome, ButtonStates, Picks, NoPick
<1>3. CASE ~active /\ state # SuppressedUntilRelease /\ BothSides(reading)
  <2>1. outcome = ComboSample(state)
    BY <1>3 DEF Advance
  <2>2. Held(state) \in Nat
    BY PanicHoldAssumption DEF Held, ButtonStates, Idle, SuppressedUntilRelease, Armed, Combo
  <2>3. reading # {}
    BY <1>3 DEF BothSides
  <2>4. CASE Held(state) >= PanicHold
    BY <1>3, <2>1, <2>3, <2>4 DEF FollowsGesture, ComboSample, Outcome, ButtonStates, Picks, NoPick
  <2>5. CASE Held(state) < PanicHold
    <3>1. outcome = Outcome(Combo(Held(state)), NoPick)
      BY <2>1, <2>2, <2>5, PanicHoldAssumption DEF ComboSample
    <3>2. Combo(Held(state)) \in ButtonStates
      BY <2>2, <2>5, PanicHoldAssumption DEF ButtonStates
    <3>3. QED  BY <1>3, <2>3, <3>1, <3>2 DEF FollowsGesture, Outcome, NoPick, Picks
  <2>6. QED  BY <2>2, <2>4, <2>5, PanicHoldAssumption
<1>4. CASE ~active /\ state # SuppressedUntilRelease /\ ~BothSides(reading)
  <2>1. outcome = SingleSample(state, reading)
    BY <1>4 DEF Advance
  <2>2. CASE "up" \in reading
    BY <1>4, <2>1, <2>2 DEF FollowsGesture, SingleSample, Outcome, ButtonStates, Picks, NoPick
  <2>3. CASE "up" \notin reading /\ "down" \in reading
    BY <1>4, <2>1, <2>3 DEF FollowsGesture, SingleSample, Outcome, ButtonStates, Picks, NoPick
  <2>4. CASE reading = {"left"}
    BY <1>4, <2>1, <2>4 DEF FollowsGesture, SingleSample, Outcome, ButtonStates, Picks, NoPick
  <2>5. CASE reading = {"right"}
    BY <1>4, <2>1, <2>5 DEF FollowsGesture, SingleSample, Outcome, ButtonStates, Picks, NoPick
  <2>6. CASE reading = {}
    <3> DEFINE pick == IF state.mode \in {"left", "right"} THEN state.mode ELSE NoPick
    <3>1. /\ "up" \notin reading /\ "down" \notin reading
          /\ reading # {"left"} /\ reading # {"right"}
      BY <2>6
    <3>2. outcome = Outcome(Idle, pick)
      BY <2>1, <2>6, <3>1, Zenon DEF SingleSample
    <3>3. /\ pick \in Picks \cup {NoPick} /\ pick # "panic"
          /\ state \in {Idle, SuppressedUntilRelease} => pick = NoPick
      BY DEF Picks, Buttons, NoPick, Idle, SuppressedUntilRelease
    <3> HIDE DEF pick
    <3>4. QED
      BY <1>4, <2>6, <3>2, <3>3 DEF FollowsGesture, Outcome, ButtonStates
  <2>7. \/ "up" \in reading \/ ("up" \notin reading /\ "down" \in reading)
        \/ reading = {"left"} \/ reading = {"right"} \/ reading = {}
    BY <1>4 DEF BothSides, Buttons
  <2>8. QED  BY <2>2, <2>3, <2>4, <2>5, <2>6, <2>7
<1>5. QED  BY <1>1, <1>2, <1>3, <1>4
-----------------------------------------------------------------------------
(***************************************************************************)
(* Types.                                                                  *)
(***************************************************************************)

\* A press keeps its type.
LEMMA PressingType ==
    ASSUME TypeOK, NEW reading \in SUBSET Buttons, NEW owner \in Nat
    PROVE  Pressing(reading, owner) \in Press
BY DEF TypeOK, Pressing, Press, NoPress, Nobody

\* A request added to the channel keeps its type.
LEMMA ShowType ==
    ASSUME TypeOK, NEW request \in Requests, Show(<<request>>)
    PROVE  inbox' \in Seq(Requests)
<1>1. <<request>> \in Seq(Requests)
  OBVIOUS
<1>2. QED  BY <1>1, ConcatProperties DEF Show, TypeOK

\* Applying a request leaves the rest of the channel.
LEMMA ReceiveType ==
    ASSUME TypeOK, NEW kinds, Receive(kinds)
    PROVE  inbox' \in Seq(Requests) /\ Head(inbox) \in Requests /\ Head(inbox).kind \in kinds
BY HeadTailProperties DEF Receive, TypeOK

\* A choice that is taken leaves the others in their order.
LEMMA TakeFromQueue ==
    ASSUME choices \in Seq(Choice), choices # <<>>
    PROVE  /\ Head(choices) \in Choice
           /\ Tail(choices) \in Seq(Choice)
           /\ Len(Tail(choices)) = Len(choices) - 1
           /\ \A i \in 1..Len(Tail(choices)) :
                 Tail(choices)[i] = choices[i + 1] /\ i + 1 \in 1..Len(choices)
<1>1. Tail(choices) \in Seq(Choice) /\ Len(Tail(choices)) = Len(choices) - 1
  BY HeadTailProperties
<1>2. \A i \in 1..Len(Tail(choices)) : Tail(choices)[i] = choices[i + 1]
  BY HeadTailProperties
<1>3. Len(choices) \in Nat /\ Head(choices) \in Choice
  BY HeadTailProperties, LenProperties
<1>4. \A i \in 1..Len(Tail(choices)) : i + 1 \in 1..Len(choices)
  BY <1>1, <1>3
<1>5. QED  BY <1>1, <1>2, <1>3, <1>4

\* Enqueueing keeps the bound, and what was in the queue or drops it.
LEMMA EnqueueKeepsBound ==
    ASSUME choices \in Seq(Choice), Len(choices) <= QueueSize,
           NEW choice \in Choice, Enqueue(choice)
    PROVE  /\ choices' \in Seq(Choice) /\ Len(choices') <= QueueSize
           /\ \A i \in 1..Len(choices') :
                 \/ choices'[i] = choice
                 \/ \E j \in 1..Len(choices) : choices'[i] = choices[j]
<1> DEFINE kept == IF Len(choices) >= QueueSize THEN Tail(choices) ELSE choices
<1>1. Len(choices) \in Nat /\ QueueSize \in Nat \ {0}
  BY LenProperties, UiAssumption
<1>2. /\ kept \in Seq(Choice) /\ Len(kept) \in Nat /\ Len(kept) + 1 <= QueueSize
      /\ \A i \in 1..Len(kept) : \E j \in 1..Len(choices) : kept[i] = choices[j]
  <2>1. CASE Len(choices) >= QueueSize
    <3>1. choices # <<>>
      BY <1>1, <2>1
    <3>2. QED  BY <1>1, <2>1, <3>1, TakeFromQueue
  <2>2. CASE Len(choices) < QueueSize
    BY <1>1, <2>2
  <2>3. QED  BY <1>1, <2>1, <2>2
<1>3. choices' = Append(kept, choice)
  BY DEF Enqueue
<1> HIDE DEF kept
<1>4. /\ choices' \in Seq(Choice) /\ Len(choices') = Len(kept) + 1
      /\ choices'[Len(kept) + 1] = choice
      /\ \A i \in 1..Len(kept) : choices'[i] = kept[i]
  BY <1>2, <1>3, AppendProperties
<1>5. ASSUME NEW i \in 1..Len(choices')
      PROVE  i = Len(kept) + 1 \/ i \in 1..Len(kept)
  BY <1>2, <1>4
<1>6. QED  BY <1>2, <1>4, <1>5

\* Every variable has its type at the start.
LEMMA TypeInit == Init => TypeOK
<1> SUFFICES ASSUME Init  PROVE TypeOK
  OBVIOUS
<1>1. Idle \in ButtonStates
  BY DEF ButtonStates
<1>2. QueueSize \in Nat
  BY UiAssumption
<1>3. /\ inbox \in Seq(Requests) /\ choices \in Seq(Choice) /\ Len(choices) <= QueueSize
  BY <1>2 DEF Init
<1>4. press \in Press /\ pressed \in SUBSET Buttons
  BY DEF Init, NoPress, Press, Nobody
<1>5. QED  BY <1>1, <1>3, <1>4 DEF Init, TypeOK, Kinds, Screens, NoChoice, Nobody

\* What one turn on a question does to the buttons, the press and the queue.
LEMMA SampleQuestionType ==
    ASSUME TypeOK, SampleQuestion
    PROVE  /\ buttons' \in ButtonStates /\ pressed' \in SUBSET Buttons
           /\ press' \in Press /\ shown' \in Screens
           /\ overlay' \in {"none", "fresh", "up"}
           /\ choices' \in Seq(Choice) /\ Len(choices') <= QueueSize
<1>1. PICK reading \in Samples, lifted \in BOOLEAN :
        LET active  == overlay # "none" /\ ~lifted
            outcome == Advance(buttons, reading, active)
            gesture == Gesture(reading, active)
        IN  /\ ExpireOverlay(lifted, shown')
            /\ buttons' = outcome.next
            /\ pressed' = reading
            /\ \/ outcome.pick = NoPick /\ UNCHANGED choices
               \/ outcome.pick # NoPick
                    /\ Enqueue([pick |-> outcome.pick, on |-> screen,
                                from |-> gesture.from])
            /\ press' = IF reading = {} THEN NoPress
                        ELSE [gesture EXCEPT !.crashes =
                                 IF outcome.pick = "panic" THEN @ + 1 ELSE @]
  BY DEF SampleQuestion
<1> DEFINE active  == overlay # "none" /\ ~lifted
           outcome == Advance(buttons, reading, active)
           gesture == Gesture(reading, active)
<1>2. reading \in SUBSET Buttons /\ active \in BOOLEAN /\ buttons \in ButtonStates
  BY UiAssumption DEF TypeOK
<1>3. outcome.next \in ButtonStates /\ outcome.pick \in Picks \cup {NoPick}
  BY <1>2, AdvanceFollowsGesture DEF FollowsGesture
<1>4. gesture \in Press
  <2>1. (IF active THEN Nobody ELSE screen) \in Nat
    BY DEF TypeOK, Nobody
  <2>2. CASE reading = {}
    BY <2>2 DEF TypeOK, Gesture
  <2>3. CASE reading # {}
    BY <1>2, <2>1, <2>3, PressingType DEF Gesture
  <2>4. QED  BY <2>2, <2>3
<1>5. press' \in Press
  <2>1. NoPress \in Press
    BY DEF NoPress, Press, Nobody
  <2>2. gesture.crashes \in Nat
    BY <1>4 DEF Press
  <2>3. [gesture EXCEPT !.crashes = IF outcome.pick = "panic" THEN @ + 1 ELSE @] \in Press
    BY <1>4, <2>2 DEF Press
  <2>4. QED  BY <1>1, <2>1, <2>3
<1>6. shown' \in Screens /\ overlay' \in {"none", "fresh", "up"}
  BY <1>1 DEF ExpireOverlay, TypeOK, Screens, Kinds
<1>7. choices' \in Seq(Choice) /\ Len(choices') <= QueueSize
  <2>1. CASE outcome.pick = NoPick /\ UNCHANGED choices
    BY <2>1 DEF TypeOK
  <2>2. CASE outcome.pick # NoPick
    <3> DEFINE choice == [pick |-> outcome.pick, on |-> screen,
                          from |-> gesture.from]
    <3>1. choice \in Choice
      BY <1>3, <1>4, <2>2 DEF Choice, Press, TypeOK
    <3>2. Enqueue(choice)
      BY <1>1, <2>2
    <3>3. choices \in Seq(Choice) /\ Len(choices) <= QueueSize
      BY DEF TypeOK
    <3> HIDE DEF choice
    <3>4. QED  BY <3>1, <3>2, <3>3, EnqueueKeepsBound
  <2>3. QED  BY <1>1, <2>1, <2>2
<1>8. QED  BY <1>1, <1>2, <1>3, <1>5, <1>6, <1>7

\* What one turn on another screen does.
LEMMA SampleIdleType ==
    ASSUME TypeOK, SampleIdle
    PROVE  /\ pressed' \in SUBSET Buttons /\ press' \in Press /\ shown' \in Screens
           /\ overlay' \in {"none", "fresh", "up"} /\ downHeld' \in Nat
           /\ power' \in {"on", "dozing", "asleep"}
<1>1. PICK reading \in Samples, lifted \in BOOLEAN, redrawn \in {shown, "waiting"} :
        LET active == overlay # "none" /\ ~lifted
            counts == ~active /\ "down" \in reading
        IN  /\ ExpireOverlay(lifted, redrawn)
            /\ pressed' = reading
            /\ press' = Pressing(reading, Nobody)
            /\ \/ /\ ~counts
                  /\ downHeld' = 0
                  /\ power' = "on"
                  /\ \/ shown' = redrawn
                     \/ ~active /\ downHeld > 0 /\ shown' = "waiting"
               \/ /\ counts /\ downHeld + 1 < SleepHold
                  /\ downHeld' = downHeld + 1
                  /\ power' = "on"
                  /\ shown' \in {redrawn, "countdown"}
               \/ /\ counts /\ downHeld + 1 >= SleepHold
                  /\ downHeld' = downHeld
                  /\ power' = "dozing"
                  /\ shown' = "sleeping"
  BY DEF SampleIdle
<1>2. reading \in SUBSET Buttons /\ Nobody \in Nat
  BY UiAssumption DEF Nobody
<1>3. pressed' \in SUBSET Buttons /\ press' \in Press
  BY <1>1, <1>2, PressingType
<1>4. redrawn \in Screens /\ overlay' \in {"none", "fresh", "up"}
  BY <1>1 DEF ExpireOverlay, TypeOK, Screens, Kinds
<1>5. shown' \in Screens /\ power' \in {"on", "dozing", "asleep"}
  BY <1>1, <1>4 DEF Screens, Kinds
<1>6. downHeld' \in Nat
  BY <1>1 DEF TypeOK
<1>7. QED  BY <1>3, <1>4, <1>5, <1>6

\* Every step keeps the types.
LEMMA TypeStep == TypeOK /\ [Next]_vars => TypeOK'
<1> SUFFICES ASSUME TypeOK, [Next]_vars  PROVE TypeOK'
  OBVIOUS
<1> USE DEF uiVars, actVars, roundVars
<1>1. CASE ApplyQuestion
  <2>1. /\ inbox' \in Seq(Requests) /\ Head(inbox) \in Requests
    BY <1>1, ReceiveType DEF ApplyQuestion
  <2>2. PICK reading \in Samples :
          /\ ForgetLastScreen(reading)
          /\ pressed' = reading
          /\ press' = Pressing(reading, Nobody)
    BY <1>1 DEF ApplyQuestion
  <2>3. pressed' \in SUBSET Buttons /\ press' \in Press
    BY <2>2, UiAssumption, PressingType DEF Nobody
  <2>4. /\ buttons' \in ButtonStates
        /\ choices' = <<>>
    BY <2>2 DEF ForgetLastScreen, ButtonStates
  <2>5. choices' \in Seq(Choice) /\ Len(choices') <= QueueSize
    BY <2>4, UiAssumption
  <2>6. screen' \in Nat /\ shown' \in Screens
    BY <1>1, <2>1 DEF ApplyQuestion, Requests, Screens, Kinds
  <2>7. QED  BY <1>1, <2>1, <2>3, <2>4, <2>5, <2>6 DEF ApplyQuestion, TypeOK
<1>2. CASE ApplyScreen
  <2>1. /\ inbox' \in Seq(Requests) /\ Head(inbox) \in Requests
    BY <1>2, ReceiveType DEF ApplyScreen
  <2>2. screen' \in Nat /\ shown' \in Screens
    BY <1>2, <2>1 DEF ApplyScreen, Requests, Screens, Nobody
  <2>3. QED  BY <1>2, <2>1, <2>2 DEF ApplyScreen, TypeOK
<1>3. CASE ApplyStandings
  <2>1. /\ inbox' \in Seq(Requests) /\ Head(inbox) \in Requests
    BY <1>3, ReceiveType DEF ApplyStandings
  <2>2. shown' \in Screens
    BY <1>3, <2>1 DEF ApplyStandings, DrawStandings, Requests, Screens, TypeOK
  <2>3. QED  BY <1>3, <2>1, <2>2 DEF ApplyStandings, TypeOK
<1>4. CASE ApplyPowerup
  <2>1. inbox' \in Seq(Requests)
    BY <1>4, ReceiveType DEF ApplyPowerup
  <2>2. QED  BY <1>4, <2>1 DEF ApplyPowerup, TypeOK, Screens, Kinds
<1>5. CASE Drained
  BY <1>5 DEF Drained, TypeOK
<1>6. CASE SampleQuestion
  BY <1>6, SampleQuestionType DEF SampleQuestion, TypeOK
<1>7. CASE SampleIdle
  <2>1. buttons' \in ButtonStates
    BY <1>7 DEF SampleIdle, ButtonStates
  <2>2. QED  BY <1>7, <2>1, SampleIdleType DEF SampleIdle, TypeOK
<1>8. CASE PowerOff
  <2>1. pressed' \in SUBSET Buttons /\ press' \in Press
    BY <1>8 DEF PowerOff, NoPress, Press, Nobody
  <2>2. QED  BY <1>8, <2>1 DEF PowerOff, TypeOK, Screens
<1>9. CASE Wake
  <2>1. buttons' \in ButtonStates /\ screen' \in Nat /\ QueueSize \in Nat
    BY <1>9, UiAssumption DEF Wake, ButtonStates, Nobody
  <2>2. QED  BY <1>9, <2>1 DEF Wake, TypeOK, Screens, Kinds
<1>10. CASE AcceptTask
  <2>1. Question(serial + 1) \in Requests
    BY DEF Question, Requests, Kinds, TypeOK
  <2>2. inbox' \in Seq(Requests)
    BY <1>10, <2>1, ShowType DEF AcceptTask
  <2>3. Watching(task) \in [game : Nat, phase : {"armed", "holding", "done", "pending"}]
    BY DEF Watching, TypeOK
  <2>4. act' \in {"waiting", "none"}
    BY <1>10 DEF AcceptTask
  <2>5. QED  BY <1>10, <2>2, <2>3, <2>4 DEF AcceptTask, TypeOK
<1>11. CASE Refuse \/ LetGo
  <2>1. CASE Refuse
    BY <2>1 DEF Refuse, TypeOK
  <2>2. CASE LetGo
    BY <2>2 DEF LetGo, TypeOK
  <2>3. QED  BY <1>11, <2>1, <2>2
<1>12. CASE TakeChoice
  <2>1. /\ Head(choices) \in Choice /\ Tail(choices) \in Seq(Choice)
        /\ Len(Tail(choices)) = Len(choices) - 1
    BY <1>12, TakeFromQueue DEF TakeChoice, TypeOK
  <2>2. Len(Tail(choices)) <= QueueSize
    BY <2>1, LenProperties, UiAssumption DEF TypeOK
  <2>3. QED  BY <1>12, <2>1, <2>2 DEF TakeChoice, TypeOK
<1>13. CASE ShowFeedback
  <2>1. inbox' \in Seq(Requests)
    BY <1>13, ShowType DEF ShowFeedback, Request, Requests, Kinds
  <2>2. QED  BY <1>13, <2>1 DEF ShowFeedback, TypeOK
<1>14. CASE Complete
  <2>1. inbox' \in Seq(Requests)
    BY <1>14, ShowType DEF Complete, Request, Requests, Kinds
  <2>2. QED  BY <1>14, <2>1 DEF Complete, TypeOK
<1>15. CASE Crash
  <2>1. inbox' \in Seq(Requests)
    <3>1. CASE Show(<<Request("crashed")>>)
      BY <3>1, ShowType DEF Request, Requests, Kinds
    <3>2. CASE UNCHANGED inbox
      BY <3>2 DEF TypeOK
    <3>3. QED  BY <1>15, <3>1, <3>2 DEF Crash
  <2>2. QED  BY <1>15, <2>1 DEF Crash, TypeOK
<1>16. CASE Recover
  <2>1. inbox' \in Seq(Requests)
    BY <1>16, ShowType DEF Recover, Request, Requests, Kinds
  <2>2. QED  BY <1>16, <2>1 DEF Recover, TypeOK
<1>17. CASE SeeStandings
  <2>1. inbox' \in Seq(Requests)
    BY <1>17, ShowType DEF SeeStandings, Request, Requests, Kinds
  <2>2. QED  BY <1>17, <2>1 DEF SeeStandings, TypeOK
<1>18. CASE GiveUpOnStandings
  <2>1. inbox' \in Seq(Requests)
    BY <1>18, ShowType DEF GiveUpOnStandings, Request, Requests, Kinds
  <2>2. QED  BY <1>18, <2>1 DEF GiveUpOnStandings, TypeOK
<1>19. CASE EndHold
  <2>1. inbox' \in Seq(Requests)
    <3>1. CASE Show(<<Request("waiting")>>)
      BY <3>1, ShowType DEF Request, Requests, Kinds
    <3>2. CASE UNCHANGED inbox
      BY <3>2 DEF TypeOK
    <3>3. QED  BY <1>19, <3>1, <3>2 DEF EndHold, RestoreWaiting
  <2>2. QED  BY <1>19, <2>1 DEF EndHold, TypeOK
<1>20. CASE PollPowerup
  <2>1. inbox' \in Seq(Requests)
    BY <1>20, ShowType DEF PollPowerup, Request, Requests, Kinds
  <2>2. QED  BY <1>20, <2>1 DEF PollPowerup, TypeOK
<1>21. CASE Server
  <2>1. UNCHANGED <<uiVars, inbox, choices, actVars, watcher, powerups, overtaken>>
    BY <1>21 DEF Server, Dispatch, FinishRound, NewRound
  <2>2. game \in Nat /\ over \in BOOLEAN /\ task \in Nat
    BY DEF TypeOK
  <2>3. CASE Dispatch
    BY <2>1, <2>2, <2>3 DEF Dispatch, TypeOK
  <2>4. CASE FinishRound
    BY <2>1, <2>2, <2>4 DEF FinishRound, TypeOK
  <2>5. CASE NewRound
    <3>1. game' = game + 1 /\ over' = FALSE /\ task' = task
      BY <2>5 DEF NewRound
    <3>2. game' \in Nat
      BY <2>2, <3>1
    <3>3. QED  BY <2>1, <3>1, <3>2 DEF TypeOK
  <2>6. QED  BY <1>21, <2>3, <2>4, <2>5 DEF Server
<1>22. CASE UNCHANGED vars
  <2>1. UNCHANGED <<uiVars, inbox, choices, actVars, watcher, roundVars, powerups,
                    overtaken>>
    BY <1>22 DEF vars
  <2>2. QED  BY <2>1 DEF TypeOK
<1>23. QED
  BY <1>1, <1>2, <1>3, <1>4, <1>5, <1>6, <1>7, <1>8, <1>9, <1>10, <1>11, <1>12, <1>13,
     <1>14, <1>15, <1>16, <1>17, <1>18, <1>19, <1>20, <1>21, <1>22
     DEF Next, UiThread, Worker

\* Types, and the bound of the queue of choices, hold whatever the player,
\* the Worker and the server do.
THEOREM TypesHold == Spec => []TypeOK
BY TypeInit, TypeStep, PTL DEF Spec
-----------------------------------------------------------------------------
(***************************************************************************)
(* The press in hand.  OneHoldOneCrash and NoPressCarriesOver say nothing  *)
(* of the gesture machine, so neither is inductive.  PressInv adds why a   *)
(* press cannot act twice or elsewhere: on a question, a press that began  *)
(* somewhere else, or that already made its crash, is suppressed until the *)
(* buttons are let go, and with no button down nothing is armed.           *)
(***************************************************************************)
Spent == press.from # screen \/ press.crashes # 0

PressInv ==
    /\ press.crashes \in {0, 1}
    /\ pressed = {} => press = NoPress
    /\ power # "on" => screen = Nobody
    /\ screen # Nobody =>
          /\ pressed = {} => buttons \in {Idle, SuppressedUntilRelease}
          /\ pressed # {} /\ Spent => buttons = SuppressedUntilRelease

\* On a question, only a press that began on it and made no crash yet makes a
\* choice; any other is suppressed.
LEMMA SpentPressIsSuppressed ==
    ASSUME TypeOK, PressInv, screen # Nobody,
           NEW reading \in SUBSET Buttons, NEW active \in BOOLEAN
    PROVE  LET outcome == Advance(buttons, reading, active)
               gesture == Gesture(reading, active)
           IN  /\ gesture.crashes \in {0, 1}
               /\ outcome.pick # NoPick => gesture.from = screen /\ gesture.crashes = 0
               /\ reading # {} /\ (gesture.from # screen \/ gesture.crashes # 0) =>
                      outcome.next = SuppressedUntilRelease
<1> DEFINE outcome == Advance(buttons, reading, active)
           gesture == Gesture(reading, active)
<1>1. buttons \in ButtonStates
  BY DEF TypeOK
<1>2. FollowsGesture(buttons, reading, active, outcome)
  BY <1>1, AdvanceFollowsGesture
<1> HIDE DEF outcome
<1>3. CASE reading = {}
  <2>1. gesture = press
    BY <1>3 DEF Gesture
  <2>2. ASSUME outcome.pick # NoPick  PROVE ~Spent
    <3>1. buttons \notin {Idle, SuppressedUntilRelease}
      BY <1>2, <1>3, <2>2 DEF FollowsGesture
    <3>2. QED  BY <3>1 DEF PressInv
  <2>3. QED  BY <1>3, <2>1, <2>2 DEF PressInv, Spent, outcome
<1>4. CASE reading # {} /\ pressed = {}
  <2>1. gesture.crashes = 0 /\ gesture.from = IF active THEN Nobody ELSE screen
    BY <1>4 DEF Gesture, Pressing
  <2>2. CASE active
    BY <1>2, <2>1, <2>2 DEF FollowsGesture, outcome
  <2>3. CASE ~active
    BY <2>1, <2>3 DEF outcome
  <2>4. QED  BY <2>2, <2>3
<1>5. CASE reading # {} /\ pressed # {}
  <2>1. gesture.crashes = press.crashes /\ gesture.from = press.from
    BY <1>5 DEF Gesture, Pressing, TypeOK, Press
  <2>2. CASE Spent
    <3>1. buttons = SuppressedUntilRelease
      BY <1>5, <2>2 DEF PressInv
    <3>2. outcome.pick = NoPick /\ outcome.next = SuppressedUntilRelease
      BY <1>2, <1>5, <3>1 DEF FollowsGesture
    <3>3. QED  BY <2>1, <3>2 DEF PressInv, outcome
  <2>3. CASE ~Spent
    BY <2>1, <2>3 DEF Spent, outcome
  <2>4. QED  BY <2>2, <2>3
<1>6. QED  BY <1>3, <1>4, <1>5

\* What PressInv is about.
pressState == <<power, screen, buttons, pressed, press>>

\* A turn on a question keeps PressInv.
LEMMA SampleQuestionPress ==
    ASSUME TypeOK, PressInv, SampleQuestion
    PROVE  PressInv'
<1>1. PICK reading \in Samples, lifted \in BOOLEAN :
        LET active  == overlay # "none" /\ ~lifted
            outcome == Advance(buttons, reading, active)
            gesture == Gesture(reading, active)
        IN  /\ ExpireOverlay(lifted, shown')
            /\ buttons' = outcome.next
            /\ pressed' = reading
            /\ \/ outcome.pick = NoPick /\ UNCHANGED choices
               \/ outcome.pick # NoPick
                    /\ Enqueue([pick |-> outcome.pick, on |-> screen,
                                from |-> gesture.from])
            /\ press' = IF reading = {} THEN NoPress
                        ELSE [gesture EXCEPT !.crashes =
                                 IF outcome.pick = "panic" THEN @ + 1 ELSE @]
  BY DEF SampleQuestion
<1> DEFINE active  == overlay # "none" /\ ~lifted
           outcome == Advance(buttons, reading, active)
           gesture == Gesture(reading, active)
<1>2. reading \in SUBSET Buttons /\ active \in BOOLEAN /\ buttons \in ButtonStates
  BY UiAssumption DEF TypeOK
<1>3. /\ power' = "on" /\ screen # Nobody /\ screen' = screen
  BY DEF SampleQuestion
<1>4. FollowsGesture(buttons, reading, active, outcome)
  BY <1>2, AdvanceFollowsGesture
<1>5. /\ gesture.crashes \in {0, 1}
      /\ outcome.pick # NoPick => gesture.from = screen /\ gesture.crashes = 0
      /\ reading # {} /\ (gesture.from # screen \/ gesture.crashes # 0) =>
             outcome.next = SuppressedUntilRelease
  BY <1>2, <1>3, SpentPressIsSuppressed
<1>6. gesture \in Press
  BY <1>2, PressingType DEF Gesture, TypeOK, Nobody
<1>7. /\ buttons' = outcome.next /\ pressed' = reading
      /\ reading = {} => press' = NoPress
      /\ reading # {} => press' = [gesture EXCEPT !.crashes =
                                     IF outcome.pick = "panic" THEN @ + 1 ELSE @]
  BY <1>1
<1> HIDE DEF outcome, gesture
<1>8. CASE reading = {}
  <2>1. press' = NoPress /\ press'.crashes = 0
    BY <1>7, <1>8 DEF NoPress
  <2>2. buttons' \in {Idle, SuppressedUntilRelease}
    BY <1>4, <1>7, <1>8 DEF FollowsGesture
  <2>3. QED  BY <1>3, <1>7, <1>8, <2>1, <2>2 DEF PressInv
<1>9. CASE reading # {}
  <2>1. press'.from = gesture.from
    BY <1>6, <1>7, <1>9 DEF Press
  <2>2. CASE outcome.pick = "panic"
    <3>1. press'.crashes = 1
      <4>1. gesture.crashes = 0
        BY <1>5, <2>2 DEF NoPick
      <4>2. press'.crashes = gesture.crashes + 1
        BY <1>6, <1>7, <1>9, <2>2 DEF Press
      <4>3. QED  BY <4>1, <4>2
    <3>2. buttons' = SuppressedUntilRelease
      BY <1>4, <1>7, <2>2 DEF FollowsGesture
    <3>3. QED  BY <1>3, <1>7, <1>9, <3>1, <3>2 DEF PressInv
  <2>3. CASE outcome.pick # "panic"
    <3>1. press'.crashes = gesture.crashes
      BY <1>6, <1>7, <1>9, <2>3 DEF Press
    <3>2. press'.crashes \in {0, 1}
      BY <1>5, <3>1
    <3>3. press'.from # screen' \/ press'.crashes # 0 => buttons' = SuppressedUntilRelease
      BY <1>3, <1>5, <1>7, <1>9, <2>1, <3>1
    <3>4. QED  BY <1>3, <1>7, <1>9, <3>2, <3>3 DEF PressInv, Spent
  <2>4. QED  BY <2>2, <2>3
<1>10. QED  BY <1>8, <1>9

\* Every step keeps PressInv.
LEMMA PressStep == TypeOK /\ PressInv /\ [Next]_vars => PressInv'
<1> SUFFICES ASSUME TypeOK, PressInv, [Next]_vars  PROVE PressInv'
  OBVIOUS
<1> USE DEF uiVars
<1>0. ASSUME UNCHANGED pressState  PROVE PressInv'
  BY <1>0 DEF pressState, PressInv, Spent
<1>1. CASE ApplyQuestion
  <2>1. PICK reading \in Samples :
          /\ ForgetLastScreen(reading)
          /\ pressed' = reading
          /\ press' = Pressing(reading, Nobody)
    BY <1>1 DEF ApplyQuestion
  <2>2. power' = "on"
    BY <1>1 DEF ApplyQuestion, Receive
  <2>3. /\ pressed' = {} => press' = NoPress /\ buttons' = Idle
        /\ pressed' # {} => buttons' = SuppressedUntilRelease
    BY <2>1 DEF Pressing, ForgetLastScreen
  <2>4. press'.crashes \in {0, 1}
    BY <2>1 DEF Pressing, NoPress, PressInv, TypeOK, Press
  <2>5. QED  BY <2>2, <2>3, <2>4 DEF PressInv
<1>2. CASE ApplyScreen
  BY <1>2 DEF ApplyScreen, PressInv
<1>3. CASE ApplyStandings \/ ApplyPowerup \/ Drained
  BY <1>0, <1>3 DEF ApplyStandings, ApplyPowerup, Drained, pressState
<1>4. CASE SampleQuestion
  BY <1>4, SampleQuestionPress
<1>5. CASE SampleIdle
  <2>1. PICK reading \in Samples :
          pressed' = reading /\ press' = Pressing(reading, Nobody)
    BY <1>5 DEF SampleIdle
  <2>2. screen' = Nobody
    BY <1>5 DEF SampleIdle
  <2>3. pressed' = {} => press' = NoPress
    BY <2>1 DEF Pressing
  <2>4. press'.crashes \in {0, 1}
    BY <2>1 DEF Pressing, NoPress, PressInv, TypeOK, Press
  <2>5. QED  BY <2>2, <2>3, <2>4 DEF PressInv
<1>6. CASE PowerOff
  <2>1. screen' = Nobody /\ pressed' = {} /\ press' = NoPress
    BY <1>6 DEF PowerOff, PressInv
  <2>2. press'.crashes = 0
    BY <2>1 DEF NoPress
  <2>3. QED  BY <2>1, <2>2 DEF PressInv
<1>7. CASE Wake
  BY <1>7 DEF Wake, PressInv
<1>8. CASE AcceptTask \/ Refuse \/ LetGo \/ TakeChoice
  BY <1>0, <1>8 DEF AcceptTask, Refuse, LetGo, TakeChoice, pressState
<1>9. CASE ShowFeedback \/ Complete \/ Crash \/ Recover
  BY <1>0, <1>9 DEF ShowFeedback, Complete, Crash, Recover, pressState
<1>10. CASE SeeStandings \/ GiveUpOnStandings \/ EndHold \/ PollPowerup
  BY <1>0, <1>10 DEF SeeStandings, GiveUpOnStandings, EndHold, PollPowerup, pressState
<1>11. CASE Server
  BY <1>0, <1>11 DEF Server, Dispatch, FinishRound, NewRound, pressState
<1>12. CASE UNCHANGED vars
  BY <1>0, <1>12 DEF vars, pressState
<1>13. QED
  BY <1>1, <1>2, <1>3, <1>4, <1>5, <1>6, <1>7, <1>8, <1>9, <1>10, <1>11, <1>12
     DEF Next, UiThread, Worker

\* At the start nothing is pressed.
LEMMA PressInit == Init => PressInv
BY DEF Init, PressInv, NoPress

\* However long both sides are held, and whatever screens and overlays come
\* and go meanwhile, one hold is one crash (ButtonState::advance, the press
\* dropped by UiRequest::Question, PANIC_HOLD of any length).
THEOREM OneCrashPerHold == Spec => []OneHoldOneCrash
<1>1. PressInv => OneHoldOneCrash
  BY DEF PressInv, OneHoldOneCrash
<1>2. QED  BY TypeInit, TypeStep, PressInit, PressStep, <1>1, PTL DEF Spec
-----------------------------------------------------------------------------
(***************************************************************************)
(* The queue of choices.  What is in it was made on the screen that owns   *)
(* the controls, by a press that began there.                              *)
(***************************************************************************)
QueueInv == ChoicesAreOfTheScreen /\ NoPressCarriesOver

\* A turn on a question adds only choices of that question.
LEMMA SampleQuestionQueue ==
    ASSUME TypeOK, PressInv, QueueInv, SampleQuestion
    PROVE  QueueInv'
<1>1. PICK reading \in Samples, lifted \in BOOLEAN :
        LET active  == overlay # "none" /\ ~lifted
            outcome == Advance(buttons, reading, active)
            gesture == Gesture(reading, active)
        IN  \/ outcome.pick = NoPick /\ UNCHANGED choices
            \/ outcome.pick # NoPick
                 /\ Enqueue([pick |-> outcome.pick, on |-> screen,
                             from |-> gesture.from])
  BY DEF SampleQuestion
<1> DEFINE active  == overlay # "none" /\ ~lifted
           outcome == Advance(buttons, reading, active)
           gesture == Gesture(reading, active)
           choice  == [pick |-> outcome.pick, on |-> screen,
                       from |-> gesture.from]
<1>2. reading \in SUBSET Buttons /\ active \in BOOLEAN /\ buttons \in ButtonStates
  BY UiAssumption DEF TypeOK
<1>3. screen # Nobody /\ screen' = screen
  BY DEF SampleQuestion
<1>4. CASE UNCHANGED choices
  BY <1>3, <1>4 DEF QueueInv, ChoicesAreOfTheScreen, NoPressCarriesOver
<1>5. CASE outcome.pick # NoPick /\ Enqueue(choice)
  <2>1. gesture.from = screen
    BY <1>2, <1>3, <1>5, SpentPressIsSuppressed
  <2>2. choice.on = screen /\ choice.from = screen
    BY <2>1
  <2>3. outcome.pick \in Picks
    BY <1>2, <1>5, AdvanceFollowsGesture DEF FollowsGesture
  <2>4. gesture \in Press
    BY <1>2, PressingType DEF Gesture, TypeOK, Nobody
  <2>5. choice \in Choice
    BY <2>3, <2>4 DEF Choice, Press, TypeOK
  <2>6. choices \in Seq(Choice) /\ Len(choices) <= QueueSize /\ Enqueue(choice)
    BY <1>5 DEF TypeOK
  <2> HIDE DEF choice
  <2>7. \A i \in 1..Len(choices') :
          \/ choices'[i] = choice
          \/ \E j \in 1..Len(choices) : choices'[i] = choices[j]
    BY <2>5, <2>6, EnqueueKeepsBound
  <2>8. \A j \in 1..Len(choices) : choices[j].on = screen /\ choices[j].from = screen
    BY <1>3 DEF QueueInv, ChoicesAreOfTheScreen, NoPressCarriesOver
  <2>9. \A i \in 1..Len(choices') : choices'[i].on = screen /\ choices'[i].from = screen
    BY <2>2, <2>7, <2>8
  <2>10. QED  BY <1>3, <2>9 DEF QueueInv, ChoicesAreOfTheScreen, NoPressCarriesOver
<1>6. QED  BY <1>1, <1>4, <1>5

\* Every step keeps QueueInv.
LEMMA QueueStep == TypeOK /\ PressInv /\ QueueInv /\ [Next]_vars => QueueInv'
<1> SUFFICES ASSUME TypeOK, PressInv, QueueInv, [Next]_vars  PROVE QueueInv'
  OBVIOUS
<1> USE DEF uiVars
<1>a. ASSUME UNCHANGED <<screen, choices>>  PROVE QueueInv'
  BY <1>a DEF QueueInv, ChoicesAreOfTheScreen, NoPressCarriesOver
<1>b. ASSUME screen' = Nobody, UNCHANGED choices  PROVE QueueInv'
  BY <1>b DEF QueueInv, ChoicesAreOfTheScreen, NoPressCarriesOver
<1>c. ASSUME choices' = <<>>  PROVE QueueInv'
  <2>1. 1..Len(choices') = {}
    BY <1>c
  <2>2. QED  BY <2>1 DEF QueueInv, ChoicesAreOfTheScreen, NoPressCarriesOver
<1>1. CASE ApplyQuestion
  BY <1>c, <1>1 DEF ApplyQuestion, ForgetLastScreen
<1>2. CASE ApplyScreen
  BY <1>b, <1>2 DEF ApplyScreen
<1>3. CASE ApplyStandings \/ ApplyPowerup \/ Drained
  BY <1>a, <1>3 DEF ApplyStandings, ApplyPowerup, Drained
<1>4. CASE SampleQuestion
  BY <1>4, SampleQuestionQueue
<1>5. CASE SampleIdle \/ PowerOff
  BY <1>a, <1>5 DEF SampleIdle, PowerOff
<1>6. CASE Wake
  BY <1>c, <1>6 DEF Wake
<1>7. CASE TakeChoice
  <2>1. /\ screen' = screen /\ choices' = Tail(choices)
        /\ \A i \in 1..Len(choices') :
              choices'[i] = choices[i + 1] /\ i + 1 \in 1..Len(choices)
    BY <1>7, TakeFromQueue DEF TakeChoice, TypeOK
  <2>2. QED  BY <2>1 DEF QueueInv, ChoicesAreOfTheScreen, NoPressCarriesOver
<1>8. CASE AcceptTask \/ Refuse \/ LetGo
  BY <1>a, <1>8 DEF AcceptTask, Refuse, LetGo
<1>9. CASE ShowFeedback \/ Complete \/ Crash \/ Recover
  BY <1>a, <1>9 DEF ShowFeedback, Complete, Crash, Recover
<1>10. CASE SeeStandings \/ GiveUpOnStandings \/ EndHold \/ PollPowerup
  BY <1>a, <1>10 DEF SeeStandings, GiveUpOnStandings, EndHold, PollPowerup
<1>11. CASE Server
  BY <1>a, <1>11 DEF Server, Dispatch, FinishRound, NewRound
<1>12. CASE UNCHANGED vars
  BY <1>a, <1>12 DEF vars
<1>13. QED
  BY <1>1, <1>2, <1>3, <1>4, <1>5, <1>6, <1>7, <1>8, <1>9, <1>10, <1>11, <1>12
     DEF Next, UiThread, Worker

\* At the start the queue is empty.
LEMMA QueueInit == Init => QueueInv
BY DEF Init, QueueInv, ChoicesAreOfTheScreen, NoPressCarriesOver

\* No choice waiting in the queue comes from a press that began on an earlier
\* screen or under an overlay (SuppressedUntilRelease).
THEOREM NoPressEverCarriesOver == Spec => []NoPressCarriesOver
<1>1. QueueInv => NoPressCarriesOver
  BY DEF QueueInv
<1>2. QED
  BY TypeInit, TypeStep, PressInit, PressStep, QueueInit, QueueStep, <1>1, PTL DEF Spec

\* While a question owns the controls, the queue holds choices made on that
\* question only (UiRequest::Question empties it).
THEOREM QueueFollowsScreen == Spec => []ChoicesAreOfTheScreen
<1>1. QueueInv => ChoicesAreOfTheScreen
  BY DEF QueueInv
<1>2. QED
  BY TypeInit, TypeStep, PressInit, PressStep, QueueInit, QueueStep, <1>1, PTL DEF Spec
-----------------------------------------------------------------------------
(***************************************************************************)
(* The screen.  QuestionOwnsScreen speaks of an empty channel; what a step *)
(* maintains is that the Activity's question is either still in the        *)
(* channel, with nothing behind it that would take the controls from it,   *)
(* or applied.  The end of a result hold is the only step that puts a      *)
(* waiting screen behind it: it does so when no question owns the controls *)
(* and this one is in the channel.  By WatcherInv the hold is then that of *)
(* the question's own round, the case QuestionOwnsScreen names.            *)
(***************************************************************************)
Harmless == {"standings", "pending", "powerup"}

\* Nothing from position i on takes the controls from a question.
HarmlessFrom(requests, i) ==
    \A j \in 1..Len(requests) : j >= i => requests[j].kind \in Harmless

InChannel ==
    \E i \in 1..Len(inbox) :
        inbox[i] = Question(serial) /\ HarmlessFrom(inbox, i + 1)

OnScreen ==
    /\ screen = serial /\ shown \in {"question", "powerup"}
    /\ HarmlessFrom(inbox, 1)

ScreenInv ==
    /\ power = "dozing" => screen = Nobody
    /\ act = "waiting" =>
          serial # Nobody /\ (InChannel \/ OnScreen \/ overtaken = serial)

\* A watcher still at work is of the round of the last question.
WatcherInv == watcher.phase \in {"armed", "holding"} => watcher.game = playing

screenState == <<power, act, serial, screen, shown, inbox, overtaken>>

\* start_result_watcher keeps the watcher to the round of the question: every
\* step keeps WatcherInv.
LEMMA WatcherStep == TypeOK /\ WatcherInv /\ [Next]_vars => WatcherInv'
<1> SUFFICES ASSUME TypeOK, WatcherInv, [Next]_vars  PROVE WatcherInv'
  OBVIOUS
<1>a. ASSUME UNCHANGED <<watcher, playing>>  PROVE WatcherInv'
  BY <1>a DEF WatcherInv
<1>1. CASE AcceptTask
  BY <1>1 DEF AcceptTask, Watching, WatcherInv
<1>2. CASE SeeStandings \/ GiveUpOnStandings \/ EndHold
  <2>1. playing' = playing
    BY <1>2 DEF SeeStandings, GiveUpOnStandings, EndHold, actVars
  <2>2. \/ watcher' = [watcher EXCEPT !.phase = "pending"]
        \/ watcher' = [watcher EXCEPT !.phase = "done"]
        \/ /\ watcher.phase = "armed"
           /\ watcher' = [watcher EXCEPT !.phase = "holding"]
    BY <1>2 DEF SeeStandings, GiveUpOnStandings, EndHold
  <2>3. QED  BY <2>1, <2>2 DEF WatcherInv, TypeOK
<1>3. CASE Wake
  BY <1>3 DEF Wake, WatcherInv
<1>4. CASE ApplyQuestion \/ ApplyScreen \/ ApplyStandings \/ ApplyPowerup \/ Drained
  BY <1>a, <1>4 DEF ApplyQuestion, ApplyScreen, ApplyStandings, ApplyPowerup, Drained,
     actVars
<1>5. CASE SampleQuestion \/ SampleIdle \/ PowerOff
  BY <1>a, <1>5 DEF SampleQuestion, SampleIdle, PowerOff, actVars
<1>6. CASE Refuse \/ LetGo \/ TakeChoice \/ PollPowerup
  BY <1>a, <1>6 DEF Refuse, LetGo, TakeChoice, PollPowerup, actVars
<1>7. CASE ShowFeedback \/ Complete \/ Crash \/ Recover
  BY <1>a, <1>7 DEF ShowFeedback, Complete, Crash, Recover
<1>8. CASE Server
  BY <1>a, <1>8 DEF Server, Dispatch, FinishRound, NewRound, actVars
<1>9. CASE UNCHANGED vars
  BY <1>a, <1>9 DEF vars, actVars
<1>10. QED
  BY <1>1, <1>2, <1>3, <1>4, <1>5, <1>6, <1>7, <1>8, <1>9 DEF Next, UiThread, Worker

\* A harmless request behind the question leaves it where it is.
LEMMA HarmlessShown ==
    ASSUME TypeOK, ScreenInv, NEW request \in Requests, request.kind \in Harmless,
           Show(<<request>>), UNCHANGED <<power, act, serial, screen, shown, overtaken>>
    PROVE  ScreenInv'
<1>1. /\ Len(inbox') = Len(inbox) + 1 /\ Len(inbox) \in Nat
      /\ \A j \in 1..Len(inbox) : inbox'[j] = inbox[j]
      /\ inbox'[Len(inbox) + 1] = request
  BY DEF Show, TypeOK
<1>2. ASSUME NEW i \in Nat, HarmlessFrom(inbox, i)  PROVE HarmlessFrom(inbox', i)
  <2> SUFFICES ASSUME NEW j \in 1..Len(inbox'), j >= i
               PROVE  inbox'[j].kind \in Harmless
    BY DEF HarmlessFrom
  <2>1. CASE j = Len(inbox) + 1
    BY <1>1, <2>1
  <2>2. CASE j # Len(inbox) + 1
    <3>1. j \in 1..Len(inbox)
      BY <1>1, <2>2
    <3>2. QED  BY <1>1, <1>2, <3>1 DEF HarmlessFrom
  <2>3. QED  BY <2>1, <2>2
<1>3. ASSUME InChannel  PROVE InChannel'
  <2>1. PICK i \in 1..Len(inbox) : inbox[i] = Question(serial) /\ HarmlessFrom(inbox, i + 1)
    BY <1>3 DEF InChannel
  <2>2. i \in 1..Len(inbox') /\ inbox'[i] = Question(serial')
    BY <1>1, <2>1
  <2>3. HarmlessFrom(inbox', i + 1)
    BY <1>1, <1>2, <2>1
  <2>4. QED  BY <2>2, <2>3 DEF InChannel
<1>4. OnScreen => OnScreen'
  BY <1>2 DEF OnScreen
<1>5. QED  BY <1>3, <1>4 DEF ScreenInv

\* The question the Activity sends is the last request in the channel.
LEMMA AcceptedInChannel ==
    ASSUME TypeOK, ScreenInv, AcceptTask
    PROVE  ScreenInv'
<1>1. /\ inbox' = inbox \o <<Question(serial')>> /\ serial' = serial + 1
      /\ power' = power /\ screen' = screen /\ serial \in Nat
  BY DEF AcceptTask, Show, uiVars, TypeOK
<1>2. /\ Len(inbox') = Len(inbox) + 1 /\ Len(inbox) \in Nat
      /\ inbox'[Len(inbox) + 1] = Question(serial')
  BY <1>1 DEF TypeOK
<1>3. HarmlessFrom(inbox', Len(inbox) + 2)
  BY <1>2 DEF HarmlessFrom
<1>4. InChannel'
  <2>1. Len(inbox) + 1 \in 1..Len(inbox')
    BY <1>2
  <2>2. HarmlessFrom(inbox', (Len(inbox) + 1) + 1)
    BY <1>2, <1>3
  <2>3. QED  BY <1>2, <2>1, <2>2 DEF InChannel
<1>5. serial' # Nobody
  BY <1>1 DEF Nobody
<1>6. QED  BY <1>1, <1>4, <1>5 DEF ScreenInv

\* Applying a request moves the question one place, or onto the screen.
LEMMA ReceivedFromChannel ==
    ASSUME TypeOK, NEW kinds, Receive(kinds)
    PROVE  /\ OnScreen => Head(inbox).kind \in Harmless /\ HarmlessFrom(inbox', 1)
           /\ InChannel => \/ /\ Head(inbox) = Question(serial)
                              /\ HarmlessFrom(inbox', 1)
                           \/ \E i \in 1..Len(inbox') :
                                 /\ inbox'[i] = Question(serial)
                                 /\ HarmlessFrom(inbox', i + 1)
<1>1. /\ Len(inbox) \in Nat /\ Len(inbox) >= 1 /\ Len(inbox') = Len(inbox) - 1
      /\ Head(inbox) = inbox[1]
      /\ \A j \in 1..Len(inbox') : inbox'[j] = inbox[j + 1] /\ j + 1 \in 1..Len(inbox)
  <2>1. inbox \in Seq(Requests) /\ inbox # <<>> /\ inbox' = Tail(inbox)
    BY DEF TypeOK, Receive
  <2>2. Len(inbox) \in Nat /\ Len(inbox) >= 1 /\ Len(Tail(inbox)) = Len(inbox) - 1
    BY <2>1
  <2>3. \A j \in 1..Len(Tail(inbox)) : Tail(inbox)[j] = inbox[j + 1]
    BY <2>1, HeadTailProperties
  <2>4. \A j \in 1..Len(Tail(inbox)) : j + 1 \in 1..Len(inbox)
    BY <2>2
  <2>5. QED  BY <2>1, <2>2, <2>3, <2>4
<1>2. ASSUME NEW i \in Nat, HarmlessFrom(inbox, i + 1)  PROVE HarmlessFrom(inbox', i)
  <2> SUFFICES ASSUME NEW j \in 1..Len(inbox'), j >= i
               PROVE  inbox'[j].kind \in Harmless
    BY DEF HarmlessFrom
  <2>1. inbox'[j] = inbox[j + 1] /\ j + 1 \in 1..Len(inbox) /\ j + 1 >= i + 1
    BY <1>1
  <2>2. QED  BY <1>2, <2>1 DEF HarmlessFrom
<1>3. ASSUME OnScreen  PROVE Head(inbox).kind \in Harmless /\ HarmlessFrom(inbox', 1)
  <2>1. HarmlessFrom(inbox, 1)
    BY <1>3 DEF OnScreen
  <2>2. HarmlessFrom(inbox, 1 + 1)
    BY <2>1 DEF HarmlessFrom
  <2>3. 1 \in 1..Len(inbox)
    BY <1>1
  <2>4. QED  BY <1>1, <1>2, <2>1, <2>2, <2>3 DEF HarmlessFrom
<1>4. ASSUME NEW i \in 1..Len(inbox), inbox[i] = Question(serial),
             HarmlessFrom(inbox, i + 1), i # 1
      PROVE  \E k \in 1..Len(inbox') : /\ inbox'[k] = Question(serial)
                                       /\ HarmlessFrom(inbox', k + 1)
  <2>1. i - 1 \in 1..Len(inbox') /\ (i - 1) + 1 = i /\ i \in Nat
    BY <1>1, <1>4
  <2>2. inbox'[i - 1] = Question(serial)
    BY <1>1, <1>4, <2>1
  <2>3. HarmlessFrom(inbox', (i - 1) + 1)
    BY <1>2, <1>4, <2>1
  <2>4. QED  BY <2>1, <2>2, <2>3
<1>5. ASSUME NEW i \in 1..Len(inbox), inbox[i] = Question(serial),
             HarmlessFrom(inbox, i + 1), i = 1
      PROVE  Head(inbox) = Question(serial) /\ HarmlessFrom(inbox', 1)
  BY <1>1, <1>2, <1>5
<1>6. QED  BY <1>3, <1>4, <1>5 DEF InChannel

\* Every step keeps ScreenInv.
LEMMA ScreenStep == TypeOK /\ WatcherInv /\ ScreenInv /\ [Next]_vars => ScreenInv'
<1> SUFFICES ASSUME TypeOK, WatcherInv, ScreenInv, [Next]_vars  PROVE ScreenInv'
  OBVIOUS
<1> USE DEF uiVars
<1>a. ASSUME UNCHANGED screenState  PROVE ScreenInv'
  BY <1>a DEF ScreenInv, InChannel, OnScreen, screenState
<1>b. ASSUME UNCHANGED <<power, screen>>, act' # "waiting"  PROVE ScreenInv'
  BY <1>b DEF ScreenInv
<1>c. ASSUME power' = "on", act' = act, serial' = serial, overtaken' = overtaken,
             InChannel => InChannel' \/ OnScreen', OnScreen => OnScreen'
      PROVE  ScreenInv'
  BY <1>c DEF ScreenInv
<1>1. CASE ApplyQuestion
  <2>1. /\ Receive({"question"}) /\ power' = "on" /\ act' = act /\ serial' = serial
        /\ overtaken' = overtaken
        /\ screen' = Head(inbox).serial /\ shown' = "question"
        /\ Head(inbox).kind = "question"
    BY <1>1 DEF ApplyQuestion, Receive, actVars
  <2>2. ~OnScreen
    BY <2>1, ReceivedFromChannel DEF Harmless
  <2>3. InChannel => InChannel' \/ OnScreen'
    BY <2>1, ReceivedFromChannel DEF InChannel, OnScreen, Question
  <2>4. QED  BY <1>c, <2>1, <2>2, <2>3
<1>2. CASE ApplyScreen
  <2>1. /\ Receive({"waiting", "feedback", "crashed", "recovered"})
        /\ power' = "on" /\ act' = act /\ serial' = serial /\ overtaken' = overtaken
        /\ Head(inbox).kind \in {"waiting", "feedback", "crashed", "recovered"}
    BY <1>2 DEF ApplyScreen, Receive, actVars
  <2>2. ~OnScreen
    BY <2>1, ReceivedFromChannel DEF Harmless
  <2>3. Head(inbox) # Question(serial)
    BY <2>1 DEF Question
  <2>4. InChannel => InChannel'
    BY <2>1, <2>3, ReceivedFromChannel DEF InChannel
  <2>5. QED  BY <1>c, <2>1, <2>2, <2>4
<1>3. CASE ApplyStandings \/ ApplyPowerup
  <2>1. PICK kinds \in {{"standings", "pending"}, {"powerup"}} : Receive(kinds)
    BY <1>3 DEF ApplyStandings, ApplyPowerup
  <2>2. /\ power' = "on" /\ act' = act /\ serial' = serial /\ screen' = screen
        /\ overtaken' = overtaken
        /\ Head(inbox).kind \in Harmless
        /\ shown' \in {shown, "powerup"} \/ screen = Nobody
    BY <1>3 DEF ApplyStandings, ApplyPowerup, DrawStandings, Receive, actVars, Harmless
  <2>3. Head(inbox) # Question(serial)
    BY <2>2 DEF Question, Harmless
  <2>4. InChannel => InChannel'
    BY <2>1, <2>2, <2>3, ReceivedFromChannel DEF InChannel
  <2>5. CASE act = "waiting"
    <3>1. serial # Nobody
      BY <2>5 DEF ScreenInv
    <3>2. OnScreen => OnScreen'
      BY <2>1, <2>2, <3>1, ReceivedFromChannel DEF OnScreen
    <3>3. QED  BY <1>c, <2>2, <2>4, <3>2
  <2>6. CASE act # "waiting"
    BY <2>2, <2>6 DEF ScreenInv
  <2>7. QED  BY <2>5, <2>6
<1>4. CASE Drained
  BY <1>a, <1>4 DEF Drained, actVars, screenState
<1>5. CASE SampleQuestion
  <2>1. /\ power' = "on" /\ act' = act /\ serial' = serial /\ screen' = screen
        /\ inbox' = inbox /\ screen # Nobody /\ overtaken' = overtaken
    BY <1>5 DEF SampleQuestion, actVars
  <2>2. shown' \in {shown, "question"}
    BY <1>5 DEF SampleQuestion, ExpireOverlay
  <2>3. InChannel => InChannel'
    BY <2>1 DEF InChannel
  <2>4. OnScreen => OnScreen'
    BY <2>1, <2>2 DEF OnScreen
  <2>5. QED  BY <1>c, <2>1, <2>3, <2>4
<1>6. CASE SampleIdle \/ PowerOff
  <2>1. /\ screen = Nobody /\ screen' = screen
        /\ act' = act /\ serial' = serial /\ inbox' = inbox /\ overtaken' = overtaken
    BY <1>6 DEF SampleIdle, PowerOff, actVars, ScreenInv
  <2>2. act = "waiting" => InChannel \/ overtaken = serial
    BY <2>1 DEF ScreenInv, OnScreen
  <2>3. InChannel => InChannel'
    BY <2>1 DEF InChannel
  <2>4. QED  BY <2>1, <2>2, <2>3 DEF ScreenInv
<1>7. CASE Wake
  BY <1>7 DEF Wake, ScreenInv
<1>8. CASE AcceptTask
  BY <1>8, AcceptedInChannel
<1>9. CASE Refuse
  BY <1>a, <1>9 DEF Refuse, actVars, screenState
<1>10. CASE LetGo \/ TakeChoice
  BY <1>b, <1>10 DEF LetGo, TakeChoice
<1>11. CASE ShowFeedback \/ Complete \/ Crash \/ Recover
  BY <1>b, <1>11 DEF ShowFeedback, Complete, Crash, Recover
<1>12. CASE SeeStandings \/ GiveUpOnStandings \/ PollPowerup
  <2>1. PICK kind \in Harmless : Show(<<Request(kind)>>)
    BY <1>12 DEF SeeStandings, GiveUpOnStandings, PollPowerup, Harmless
  <2>2. Request(kind) \in Requests /\ Request(kind).kind \in Harmless
    BY DEF Request, Requests, Kinds, Harmless
  <2>3. UNCHANGED <<power, act, serial, screen, shown, overtaken>>
    BY <1>12 DEF SeeStandings, GiveUpOnStandings, PollPowerup, actVars
  <2>4. QED  BY <2>1, <2>2, <2>3, HarmlessShown
<1>13. CASE EndHold
  <2>1. /\ RestoreWaiting
        /\ UNCHANGED <<power, act, serial, screen, shown>>
        /\ watcher.game = playing
        /\ overtaken' =
              IF screen = Nobody /\ Asked("question") /\ playing = watcher.game
              THEN serial ELSE overtaken
    BY <1>13 DEF EndHold, actVars, WatcherInv
  <2>2. InChannel => Asked("question")
    BY DEF InChannel, Asked, Question
  <2>3. CASE screen # Nobody
    <3>1. inbox' = inbox /\ overtaken' = overtaken
      BY <2>1, <2>3 DEF RestoreWaiting
    <3>2. QED  BY <1>a, <2>1, <3>1 DEF screenState
  <2>4. CASE screen = Nobody /\ act = "waiting"
    <3>1. serial # Nobody /\ (InChannel \/ overtaken = serial)
      BY <2>4 DEF ScreenInv, OnScreen
    <3>2. overtaken' = serial
      BY <2>1, <2>2, <2>4, <3>1
    <3>3. QED  BY <2>1, <2>4, <3>1, <3>2 DEF ScreenInv
  <2>5. CASE act # "waiting"
    BY <1>b, <2>1, <2>5
  <2>6. QED  BY <2>3, <2>4, <2>5
<1>14. CASE Server
  BY <1>a, <1>14 DEF Server, Dispatch, FinishRound, NewRound, actVars, screenState
<1>15. CASE UNCHANGED vars
  BY <1>a, <1>15 DEF vars, actVars, screenState
<1>16. QED
  BY <1>1, <1>2, <1>3, <1>4, <1>5, <1>6, <1>7, <1>8, <1>9, <1>10, <1>11, <1>12, <1>13,
     <1>14, <1>15 DEF Next, UiThread, Worker

\* The question of the Activity that waits for a choice owns the controls once
\* every request has been served, whatever standings, power-ups and watchers of
\* earlier rounds come between; only the end of its own round's result hold,
\* with the question still in the channel, takes them.
THEOREM WaitingQuestionOwnsScreen == Spec => []QuestionOwnsScreen
<1>1. Init => ScreenInv /\ WatcherInv
  BY DEF Init, ScreenInv, WatcherInv
<1>2. ScreenInv => QuestionOwnsScreen
  <2> SUFFICES ASSUME ScreenInv, act = "waiting", inbox = <<>>, overtaken # serial
               PROVE  screen = serial /\ shown \in {"question", "powerup"}
    BY DEF QuestionOwnsScreen
  <2>1. ~InChannel
    <3>1. 1..Len(inbox) = {}
      OBVIOUS
    <3>2. QED  BY <3>1 DEF InChannel
  <2>2. QED  BY <2>1 DEF ScreenInv, OnScreen
<1>3. TypeOK /\ WatcherInv /\ ScreenInv /\ [Next]_vars => ScreenInv'
  BY ScreenStep
<1>4. QED
  BY TypeInit, TypeStep, WatcherStep, <1>1, <1>2, <1>3, PTL DEF Spec
=============================================================================
