----------------------------- MODULE BadgeInput -----------------------------
(***************************************************************************)
(* What a badge's four buttons mean (badge-input/src/lib.rs).  A sample is *)
(* the set of buttons that are down; up and down answer when pressed, left *)
(* and right when released, and holding both sides is the simulated crash. *)
(* Time is counted in samples: a combination remembers how many samples    *)
(* ago it was first seen.                                                  *)
(***************************************************************************)
EXTENDS Naturals

CONSTANT PanicHold   \* samples both sides stay down for a crash (500 ms)

ASSUME PanicHoldAssumption == PanicHold \in Nat

Buttons == {"up", "right", "down", "left"}
Picks   == Buttons \cup {"panic"}
NoPick  == "none"

\* ButtonState.
Idle                   == [mode |-> "idle", held |-> 0]
Armed(side)            == [mode |-> side, held |-> 0]
Combo(held)            == [mode |-> "combo", held |-> held]
SuppressedUntilRelease == [mode |-> "suppressed", held |-> 0]

ButtonStates ==
    {Idle, SuppressedUntilRelease, Armed("left"), Armed("right")}
        \cup {Combo(n) : n \in 0..PanicHold}

BothSides(pressed) == {"left", "right"} \subseteq pressed

Outcome(next, pick) == [next |-> next, pick |-> pick]

\* The samples a combination has lasted, this one included.
Held(state) == IF state.mode = "combo" THEN state.held + 1 ELSE 0

\* Faulty variant: a crash leaves the machine idle under a thumb still down.
ComboRearmed(state) ==
    IF Held(state) >= PanicHold THEN Outcome(Idle, "panic")
    ELSE Outcome(Combo(Held(state)), NoPick)

\* Both sides are down.
ComboSample(state) ==
    IF Held(state) >= PanicHold THEN Outcome(SuppressedUntilRelease, "panic")
    ELSE Outcome(Combo(Held(state)), NoPick)

\* At most one side is down, or none.
SingleSample(state, pressed) ==
    CASE "up" \in pressed    -> Outcome(Idle, "up")
      [] "up" \notin pressed /\ "down" \in pressed -> Outcome(Idle, "down")
      [] pressed = {"left"}  -> Outcome(Armed("left"), NoPick)
      [] pressed = {"right"} -> Outcome(Armed("right"), NoPick)
      [] pressed = {}        -> Outcome(Idle, IF state.mode \in {"left", "right"}
                                              THEN state.mode ELSE NoPick)

\* ButtonState::advance.
Advance(state, pressed, powerupActive) ==
    CASE powerupActive ->
           Outcome(SuppressedUntilRelease, NoPick)
      [] ~powerupActive /\ state = SuppressedUntilRelease ->
           Outcome(IF pressed = {} THEN Idle ELSE SuppressedUntilRelease, NoPick)
      [] ~powerupActive /\ state # SuppressedUntilRelease /\ BothSides(pressed) ->
           ComboSample(state)
      [] OTHER ->
           SingleSample(state, pressed)
=============================================================================
