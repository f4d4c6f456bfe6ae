------------------------------- MODULE Roster -------------------------------
(***************************************************************************)
(* The part of the round's snapshot that the badges' Signals and answers   *)
(* write: the scoreboard, the last known holder of every question and the  *)
(* reassignment counters (web/src/workflow.rs).  GameWorkflow and Handoff   *)
(* both extend it.                                                         *)
(*                                                                         *)
(* A badge event is [badge, question, attempt].  The callsign goes with    *)
(* the badge and the texts pushed to the event feed are left out.  The     *)
(* reason kept in retry_reasons is always the literal "heartbeat timeout", *)
(* so only the set of its keys is kept.                                    *)
(***************************************************************************)
EXTENDS Integers

VARIABLES
    players,           \* badge -> PlayerScore, for the badges that joined
    assignments,       \* question -> the last badge event recorded for it
    retryReasons,      \* questions whose holder announced a crash
    attemptsSeen,      \* {<<question, attempt>>}; its size is activity_attempts
    reassignments,     \* handoffs counted
    heartbeatTimeouts  \* heartbeat timeouts counted

rosterVars == <<players, assignments, retryReasons, attemptsSeen,
                reassignments, heartbeatTimeouts>>

signalVars == <<assignments, retryReasons, attemptsSeen,
                reassignments, heartbeatTimeouts>>

NewPlayer == [score |-> 0, correct |-> 0, wrong |-> 0, panics |-> 0]

\* The scoreboard with an entry for badge b.
Joined(b) ==
    [x \in DOMAIN players \cup {b} |->
        IF x \in DOMAIN players THEN players[x] ELSE NewPlayer]

RosterInit ==
    /\ players = [b \in {} |-> NewPlayer]
    /\ assignments = [q \in {} |-> 0]
    /\ retryReasons = {}
    /\ attemptsSeen = {}
    /\ reassignments = 0
    /\ heartbeatTimeouts = 0

IsReassignment(previous, current) ==
    /\ previous.badge # current.badge
    /\ current.attempt > previous.attempt

\* Faulty variant: a question its last holder takes again is not a new attempt.
CountsHandoffsOnly(event) ==
    LET q          == event.question
        reassigned == /\ q \in DOMAIN assignments
                      /\ IsReassignment(assignments[q], event)
    IN  /\ reassignments' = reassignments + (IF reassigned THEN 1 ELSE 0)
        /\ heartbeatTimeouts' = heartbeatTimeouts + (IF reassigned THEN 1 ELSE 0)
        /\ retryReasons' = IF reassigned THEN retryReasons \ {q} ELSE retryReasons
        /\ assignments' = [x \in DOMAIN assignments \cup {q} |->
                              IF x = q THEN event ELSE assignments[x]]
        /\ attemptsSeen' = IF q \in DOMAIN assignments /\ ~reassigned
                           THEN attemptsSeen
                           ELSE attemptsSeen \cup {<<q, event.attempt>>}
        /\ players' = Joined(event.badge)

\* The badge_started Signal.  The assignment is overwritten whether or not the
\* event is newer than the one on record.
BadgeStarted(event) ==
    LET q          == event.question
        reassigned == /\ q \in DOMAIN assignments
                      /\ IsReassignment(assignments[q], event)
    IN  /\ reassignments' = reassignments + (IF reassigned THEN 1 ELSE 0)
        /\ heartbeatTimeouts' = heartbeatTimeouts + (IF reassigned THEN 1 ELSE 0)
        /\ retryReasons' = IF reassigned THEN retryReasons \ {q} ELSE retryReasons
        /\ assignments' = [x \in DOMAIN assignments \cup {q} |->
                              IF x = q THEN event ELSE assignments[x]]
        /\ attemptsSeen' = attemptsSeen \cup {<<q, event.attempt>>}
        /\ players' = Joined(event.badge)

\* Faulty variant: counts the handoff that badge_started will count.
PanicCountsHandoff(event) ==
    /\ retryReasons' = retryReasons \cup {event.question}
    /\ players' = [Joined(event.badge) EXCEPT ![event.badge].panics = @ + 1]
    /\ reassignments' = reassignments + 1
    /\ heartbeatTimeouts' = heartbeatTimeouts + 1
    /\ UNCHANGED <<assignments, attemptsSeen>>

\* The panic_event Signal.
PanicEvent(event) ==
    /\ retryReasons' = retryReasons \cup {event.question}
    /\ players' = [Joined(event.badge) EXCEPT ![event.badge].panics = @ + 1]
    /\ UNCHANGED <<assignments, attemptsSeen, reassignments, heartbeatTimeouts>>

\* Faulty variant: a wrong answer costs no points but is not counted either.
ScoreOnlyCorrect(b, wasCorrect, points) ==
    /\ players' = IF wasCorrect
                  THEN [Joined(b) EXCEPT ![b].score = @ + points,
                                         ![b].correct = @ + 1]
                  ELSE Joined(b)
    /\ UNCHANGED signalVars

\* The scoreboard part of record_answer, for a well-formed answer.
ScoreAnswer(b, wasCorrect, points) ==
    /\ players' = [Joined(b) EXCEPT
          ![b].score   = IF wasCorrect THEN @ + points ELSE @ - points,
          ![b].correct = IF wasCorrect THEN @ + 1 ELSE @,
          ![b].wrong   = IF wasCorrect THEN @ ELSE @ + 1]
    /\ UNCHANGED signalVars
=============================================================================
