-------------------------------- MODULE Motor --------------------------------
(***************************************************************************)
(* The vibration motor: the patterns of firmware/src/haptics.rs, played a   *)
(* step at a time by the loop of the UI thread (Motor in ui.rs).            *)
(*                                                                         *)
(* Strengths keep their order only, and a duration is the number of turns  *)
(* of the loop it takes at least.  A turn may be late.  While the badge     *)
(* falls asleep the loop stands still until all buttons are released.      *)
(***************************************************************************)
EXTENDS Integers, Sequences, SequencesExt

CONSTANTS
    PULSE, GAP, THUMP,  \* durations of a pulse, of the silence, of the thump
    MaxPlayed           \* bound: patterns played

ASSUME MotorAssumption == {PULSE, GAP, THUMP} \subseteq Nat \ {0} /\ MaxPlayed \in Nat

VARIABLES
    steps,     \* the pattern
    index,     \* the step that is held, or the one after the last
    left,      \* turns until it ends; Off when no step is held
    strength,  \* what the motor is driven at
    thread,    \* "loop", "falling" (asleep), "asleep"
    \* History.
    felt,      \* strengths since the pattern was asked for
    played     \* patterns asked for

motorVars == <<steps, index, left, strength, thread, felt, played>>

Off == -1

HapticEvents == {"SleepCountdown", "Correct", "Wrong", "Crash", "Recovered",
                 "Powerup", "Winner", "RoundOver"}

Soft     == 1
Rising   == 2
Original == 3
Firm     == 4

Step(s, duration) == [strength |-> s, duration |-> duration]
pulse(s) == Step(s, PULSE)
Silence  == Step(0, GAP)

Single     == <<pulse(Original)>>
DoubleSoft == <<pulse(Soft), Silence, pulse(Soft)>>
Double     == <<pulse(Original), Silence, pulse(Original)>>
Thump      == <<Step(Firm, THUMP)>>
Rise       == <<pulse(Soft), Silence, pulse(Rising), Silence, pulse(Original)>>

pattern(event) ==
    CASE event \in {"SleepCountdown", "Correct", "RoundOver"} -> Single
      [] event = "Wrong" -> DoubleSoft
      [] event = "Crash" -> Thump
      [] event \in {"Recovered", "Powerup"} -> Double
      [] event = "Winner" -> Rise

MotorInit ==
    /\ steps = <<>> /\ index = 1 /\ left = Off /\ strength = 0
    /\ thread = "loop" /\ felt = <<>> /\ played = 0

-----------------------------------------------------------------------------
\* Motor::start_step
StartStep(pat, i) ==
    IF i \in DOMAIN pat
    THEN strength' = pat[i].strength /\ left' = pat[i].duration
    ELSE strength' = 0 /\ left' = Off

\* Faulty variant: the new pattern goes on where the old one was.
PlayFromWhereItWas(event) ==
    /\ steps' = pattern(event)
    /\ UNCHANGED index
    /\ StartStep(pattern(event), index)
    /\ felt' = <<strength'>> /\ played' = played + 1

\* Motor::play, which drops the pattern before.
Play(event) ==
    /\ steps' = pattern(event)
    /\ index' = 1
    /\ StartStep(pattern(event), 1)
    /\ felt' = <<strength'>> /\ played' = played + 1

\* A request or the countdown asks for a pattern.
PlayInLoop ==
    /\ thread = "loop" /\ played < MaxPlayed
    /\ \E event \in HapticEvents : Play(event)
    /\ UNCHANGED thread

\* A turn of the loop: Motor::advance.
Advance ==
    /\ thread = "loop" /\ left = 0
    /\ index' = index + 1
    /\ StartStep(steps, index + 1)
    /\ felt' = Append(felt, strength')
    /\ UNCHANGED <<steps, thread, played>>

Pass ==
    /\ left > 0
    /\ left' = left - 1
    /\ UNCHANGED <<steps, index, strength, thread, felt, played>>

\* sleep_now up to the wait for the buttons: one more pulse.
FallAsleep ==
    /\ thread = "loop" /\ played < MaxPlayed
    /\ thread' = "falling"
    /\ Play("SleepCountdown")

\* Faulty variant: the badge goes to sleep as it is.
ReleaseWithoutStop ==
    /\ thread = "falling"
    /\ thread' \in {"asleep", "loop"}
    /\ UNCHANGED <<steps, index, left, strength, felt, played>>

\* The buttons are released: Motor::stop, then deep sleep, which may fail.
Release ==
    /\ thread = "falling"
    /\ steps' = <<>> /\ left' = Off /\ strength' = 0
    /\ felt' = <<>>
    /\ thread' \in {"asleep", "loop"}
    /\ UNCHANGED <<index, played>>

MotorNext == PlayInLoop \/ Advance \/ Pass \/ FallAsleep \/ Release

\* The loop keeps turning, and a player lets go of the buttons some day.
MotorFairness ==
    /\ WF_motorVars(Advance) /\ WF_motorVars(Pass) /\ WF_motorVars(Release)

-----------------------------------------------------------------------------
\* However patterns interrupt each other and however late a turn is, what the
\* player feels is the last pattern from its beginning, no step left out (play,
\* advance).
PatternIsFelt ==
    steps # <<>> =>
        LET whole == Append([i \in DOMAIN steps |-> steps[i].strength], 0)
        IN  IsPrefix(felt, whole) /\ Len(felt) = index

\* A motor that runs stops, however patterns interrupt each other and whatever
\* was playing when the badge fell asleep with nobody left to stop it
\* (start_step, sleep_now).
MotorStops == strength > 0 ~> strength = 0
=============================================================================
