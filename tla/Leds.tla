-------------------------------- MODULE Leds --------------------------------
(***************************************************************************)
(* The LED matrix that blinks a tick or a cross twice after an answer:      *)
(* firmware/src/matrix.rs, as the UI thread drives it through display.rs.   *)
(*                                                                         *)
(* The 144 channels are written in chunks over a bus that may fail at any   *)
(* of them: a write is done in full, is cut off, or changes nothing.        *)
(***************************************************************************)
EXTENDS Integers

CONSTANTS
    FIRST_OFF, SECOND_ON, SECOND_OFF, \* the blinks, in turns of the loop
    MaxFeedback                       \* bound: answers

ASSUME LedsAssumption ==
    /\ {FIRST_OFF, SECOND_ON, SECOND_OFF, MaxFeedback} \subseteq Nat
    /\ 0 < FIRST_OFF /\ FIRST_OFF < SECOND_ON /\ SECOND_ON < SECOND_OFF

VARIABLES
    leds,      \* what shines: "dark", an icon, or "part" of one
    feedback,  \* the icon that blinks, or "none"
    visible,
    elapsed,   \* turns since it started
    asleep,    \* in deep sleep; the next boot starts with the matrix cleared
    \* History.
    torn,      \* a render was cut off and nothing written in full since
    answered

ledVars == <<leds, feedback, visible, elapsed, asleep, torn, answered>>

Icons == {"Correct", "Wrong"}

LedsInit ==
    /\ leds = "dark" /\ feedback = "none" /\ visible = FALSE /\ elapsed = 0 /\ asleep = FALSE
    /\ torn = FALSE /\ answered = 0

-----------------------------------------------------------------------------
Rendered(icon) == leds' = icon /\ torn' = FALSE
Cleared        == leds' = "dark" /\ torn' = FALSE

\* write_pwm returns an error.
RenderFails ==
    \/ leds' = "part" /\ torn' = TRUE
    \/ UNCHANGED <<leds, torn>>
ClearFails ==
    /\ leds' \in {leds, "dark"} \cup (IF leds = "dark" THEN {} ELSE {"part"})
    /\ UNCHANGED torn

\* Faulty variant: the second blink has no end.
VisibleToTheEnd == elapsed < FIRST_OFF \/ elapsed >= SECOND_ON

ShouldBeVisible ==
    elapsed < FIRST_OFF \/ (elapsed >= SECOND_ON /\ elapsed < SECOND_OFF)

\* start_feedback
StartFeedback(icon) ==
    /\ ~asleep /\ answered < MaxFeedback /\ answered' = answered + 1
    /\ \/ /\ Rendered(icon)
          /\ feedback' = icon /\ visible' = TRUE /\ elapsed' = 0
       \/ /\ RenderFails
          /\ UNCHANGED <<feedback, visible, elapsed>>
    /\ UNCHANGED asleep

Shine ==
    /\ ~asleep /\ feedback # "none" /\ elapsed < SECOND_OFF
    /\ elapsed' = elapsed + 1
    /\ UNCHANGED <<leds, feedback, visible, asleep, torn, answered>>

\* advance, all writes done: the icon is forgotten when its last blink is over.
Blink ==
    /\ ~asleep /\ feedback # "none"
    /\ visible' = ShouldBeVisible
    /\ IF ShouldBeVisible = visible THEN UNCHANGED <<leds, torn>>
       ELSE IF ShouldBeVisible THEN Rendered(feedback) ELSE Cleared
    /\ feedback' = IF elapsed >= SECOND_OFF THEN "none" ELSE feedback
    /\ UNCHANGED <<elapsed, asleep, answered>>

\* advance, the write fails: everything is left for the next turn.
BlinkFails ==
    /\ ~asleep /\ feedback # "none" /\ ShouldBeVisible # visible
    /\ IF ShouldBeVisible THEN RenderFails ELSE ClearFails
    /\ UNCHANGED <<feedback, visible, elapsed, asleep, answered>>

\* power_off, whose failure is only logged, and then deep sleep, which may fail and
\* leave the loop running.  The icon stays set.
PowerOff ==
    /\ ~asleep /\ asleep' \in BOOLEAN
    /\ \/ Cleared /\ visible' = FALSE
       \/ ClearFails /\ UNCHANGED visible
    /\ UNCHANGED <<feedback, elapsed, answered>>

LedsNext ==
    \/ \E icon \in Icons : StartFeedback(icon)
    \/ Shine \/ Blink \/ BlinkFails \/ PowerOff

\* The loop turns, and of the writes tried again and again some succeed.
LedsFairness == WF_ledVars(Shine) /\ SF_ledVars(Blink)

-----------------------------------------------------------------------------
\* Whatever writes fail, the loop turns off what it put up as soon as the bus
\* lets it, also after a deep sleep that failed.  Light stays behind in two cases
\* only: a render was cut off, of which the program knows nothing, or the badge is
\* in deep sleep, where nothing runs (start_feedback, advance, clear, sleep_now).
LedsGoDark == leds # "dark" /\ ~torn ~> leds = "dark" \/ torn \/ asleep
=============================================================================
