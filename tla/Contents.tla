------------------------------ MODULE Contents ------------------------------
(***************************************************************************)
(* What a round and its badges are filled with: the deck, the answers on a  *)
(* badge's panel, the window of events, the motor and the LEDs.  They share *)
(* nothing in the code; each behaviour works one of them through and leaves *)
(* the others alone.                                                       *)
(***************************************************************************)
EXTENDS EventWindow, QuestionDeck, Panels, Motor, Leds

vars == <<windowVars, deckVars, panelVars, motorVars, ledVars>>

Init ==
    /\ WindowInit /\ MotorInit /\ LedsInit
    /\ \/ DeckInit /\ NoPanels
       \/ NoDeck /\ PanelsInit

\* A deck of no questions and no panels: nothing else is worked on.
Free == source \o taken = <<>> /\ maximum = 0 /\ stage = "filter" /\ answers[1] = <<>>

Next ==
    \/ DeckNext /\ pushed = <<>> /\ played = 0 /\ answered = 0
       /\ UNCHANGED <<panelVars, windowVars, motorVars, ledVars>>
    \/ PanelsNext /\ answers[1] # <<>>
       /\ UNCHANGED <<deckVars, windowVars, motorVars, ledVars>>
    \/ Free /\ played = 0 /\ answered = 0 /\ (\E kind \in Kinds : Push(kind))
       /\ UNCHANGED <<deckVars, panelVars, motorVars, ledVars>>
    \/ Free /\ pushed = <<>> /\ answered = 0 /\ MotorNext
       /\ UNCHANGED <<deckVars, panelVars, windowVars, ledVars>>
    \/ Free /\ pushed = <<>> /\ played = 0 /\ LedsNext
       /\ UNCHANGED <<deckVars, panelVars, windowVars, motorVars>>

Spec == Init /\ [][Next]_vars /\ MotorFairness /\ LedsFairness
=============================================================================
