------------------------------- MODULE Handoff -------------------------------
(***************************************************************************)
(* What the attempts of a question leave in the round's snapshot, and what  *)
(* they leave on the badge: BadgeActivities::answer_question (firmware/src/ *)
(* main.rs) with its session and its Signals, against the Signal handlers   *)
(* of the Workflow (Roster) and the attempts of the server.                 *)
(*                                                                         *)
(* ActivityLease models the time in all this and shows that a badge that    *)
(* heartbeats keeps its attempt and one in its blackout loses it; Expire    *)
(* and Recover rest on that.  The UI is BadgeUi's.                          *)
(***************************************************************************)
EXTENDS Session, Roster, FiniteSets, Sequences, Functions

CONSTANTS
    Nobody,         \* the holder of an attempt whose task never arrived
    Extended,       \* questions scheduled after the round was extended
    Verdicts,       \* what players make of a question: correct (TRUE) or wrong
    LateSignals,    \* whether a Signal may arrive after its sender gave up on it
    MaxAttempts     \* bound: attempts of all questions, one number for every round

ASSUME HandoffAssumption ==
    /\ Questions # {} /\ Nobody \notin Badges
    /\ Extended \subseteq Questions
    /\ LateSignals \in BOOLEAN /\ Verdicts \subseteq BOOLEAN
    /\ MaxAttempts \in Seq(Nat)

VARIABLES
    game,        \* the running round
    activities,  \* question -> [state, attempt, holder] on the server
    badges,      \* badge -> [phase, game, question, attempt]
    signals,     \* Signals on their way: [kind, event, awaited]
    \* History.
    crashed,     \* badge -> <<game, question>> it crashed out of for good
    unreported   \* <<question, attempt>> whose badge_started never got out

vars == <<memory, flash, rosterVars, game, activities, badges, signals,
          crashed, unreported>>

historyVars == <<crashed, unreported>>

NotStarted == [state |-> "ready", attempt |-> 0, holder |-> Nobody]

Polling ==
    [phase |-> "idle", game |-> 0, question |-> CHOOSE q \in Questions : TRUE, attempt |-> 0]

Init ==
    /\ SessionInit /\ RosterInit
    /\ game = 1
    /\ activities = [q \in Questions |-> NotStarted]
    /\ badges = [b \in Badges |-> Polling]
    /\ signals = {}
    /\ crashed = [b \in Badges |-> {}] /\ unreported = {}

\* QuestionTask::deadline_unix_ms, fixed when the question is scheduled.
Deadline(q) == IF q \in Extended THEN 2 ELSE 1

Event(b) ==
    [badge |-> b, question |-> badges[b].question, attempt |-> badges[b].attempt]

\* A Signal of the round that runs now; one for an earlier round goes nowhere.
Signal(b, kind) ==
    IF badges[b].game = game
    THEN {[kind |-> kind, event |-> Event(b), awaited |-> TRUE]}
    ELSE {}

\* Faulty variant: badge_started is a detached task.
SettledPanicOnly(b) ==
    \A s \in signals : s.event.badge = b /\ s.kind = "panic" => ~s.awaited

\* The badge awaits no Signal of its own.
Settled(b) == \A s \in signals : s.event.badge = b => ~s.awaited

\* The server still takes what the badge reports of its attempt.
IsCurrent(b) ==
    LET a == activities[badges[b].question]
    IN  /\ badges[b].game = game /\ a.state = "running"
        /\ a.holder = b /\ a.attempt = badges[b].attempt

\* It heartbeats, or is done within a fraction of the heartbeat timeout.
KeepsLease(b) == badges[b].phase \in {"refusing", "failing", "live", "feedback"}

-----------------------------------------------------------------------------
\* A task arrives: answer_question up to its first await.

\* Bound only.
AttemptsLeft ==
    FoldFunction(LAMBDA a, n : a.attempt + n, 0, activities) < MaxAttempts[game]

Begins(q, holder) ==
    /\ activities[q].state = "ready" /\ AttemptsLeft
    /\ activities' = [activities EXCEPT
          ![q] = [state |-> "running", attempt |-> @.attempt + 1, holder |-> holder]]

Offered(b, q) == badges[b].phase = "idle" /\ Begins(q, b)

Attempt(b, q, phase) ==
    badges' = [badges EXCEPT ![b] = [phase |-> phase, game |-> game, question |-> q,
                                     attempt |-> activities[q].attempt + 1]]

Started(b, q) ==
    [kind |-> "started", awaited |-> TRUE,
     event |-> [badge |-> b, question |-> q, attempt |-> activities[q].attempt + 1]]

\* The attempt is reported before the refusal returns.
Refuse(b, q) ==
    /\ Offered(b, q) /\ IsAbandoned(b, game, q)
    /\ Attempt(b, q, "refusing")
    /\ signals' = signals \cup {Started(b, q)}
    /\ UNCHANGED <<sessionVars, rosterVars, game, historyVars>>

Accept(b, q) ==
    /\ Offered(b, q) /\ ~IsAbandoned(b, game, q)
    /\ Save(b, Begun(memory[b], game, Deadline(q)))
    /\ Attempt(b, q, "live")
    /\ signals' = signals \cup {Started(b, q)}
    /\ UNCHANGED <<rosterVars, game, historyVars>>

\* begin_game fails: the report that was built is never sent.
AcceptFails(b, q) ==
    /\ Offered(b, q) /\ ~IsAbandoned(b, game, q)
    /\ SaveFails(b, Begun(memory[b], game, Deadline(q)))
    /\ Attempt(b, q, "failing")
    /\ unreported' = unreported \cup {<<q, activities[q].attempt + 1>>}
    /\ UNCHANGED <<rosterVars, game, signals, crashed>>

\* The answer to the poll is lost.
OfferLost(q) ==
    /\ Begins(q, Nobody)
    /\ unreported' = unreported \cup {<<q, activities[q].attempt + 1>>}
    /\ UNCHANGED <<sessionVars, rosterVars, game, badges, signals, crashed>>

-----------------------------------------------------------------------------
\* Signals: badge_started_signal and the panic Signal.

Deliver(s) ==
    /\ s \in signals
    /\ signals' = signals \ {s}
    /\ IF s.kind = "started" THEN BadgeStarted(s.event) ELSE PanicEvent(s.event)
    /\ UNCHANGED <<sessionVars, game, activities, badges, historyVars>>

\* The record of Signals that never arrive.
Missing(lostSignals) ==
    {<<s.event.question, s.event.attempt>> :
        s \in {x \in lostSignals : x.kind = "started"}}

\* GAME_SIGNAL_TIMEOUT: the call is dropped, its request may still be on the way.
GiveUpOn(s) ==
    /\ s \in signals /\ s.awaited
    /\ \/ /\ LateSignals
          /\ signals' = (signals \ {s}) \cup {[s EXCEPT !.awaited = FALSE]}
          /\ UNCHANGED unreported
       \/ /\ signals' = signals \ {s}
          /\ unreported' = unreported \cup Missing({s})
    /\ UNCHANGED <<sessionVars, rosterVars, game, activities, badges, crashed>>

-----------------------------------------------------------------------------
\* The attempt goes on once wait_for_choice and the report have both ended.

Decided(b) == badges[b].phase = "live" /\ Settled(b)

Choose(b) ==
    /\ Decided(b)
    /\ badges' = [badges EXCEPT ![b].phase = "feedback"]
    /\ UNCHANGED <<sessionVars, rosterVars, game, activities, signals, historyVars>>

\* Cancelled, stopped, past the deadline or silent too long.
LetGo(b) ==
    /\ Decided(b)
    /\ badges' = [badges EXCEPT ![b].phase = "failing"]
    /\ UNCHANGED <<sessionVars, rosterVars, game, activities, signals, historyVars>>

\* The deliberate crash.
Panic(b) ==
    /\ Decided(b)
    /\ Save(b, Abandoned(memory[b], badges[b].game, badges[b].question))
    /\ badges' = [badges EXCEPT ![b].phase = "blackout"]
    /\ signals' = signals \cup Signal(b, "panic")
    /\ crashed' = [crashed EXCEPT ![b] = @ \cup {<<badges[b].game, badges[b].question>>}]
    /\ UNCHANGED <<rosterVars, game, activities, unreported>>

\* abandon fails: the heartbeats have stopped, the attempt fails at once.
PanicFails(b) ==
    /\ Decided(b)
    /\ SaveFails(b, Abandoned(memory[b], badges[b].game, badges[b].question))
    /\ badges' = [badges EXCEPT ![b].phase = "failing"]
    /\ UNCHANGED <<rosterVars, game, activities, signals, historyVars>>

Idle(b) == badges' = [badges EXCEPT ![b] = Polling]

\* The answer reaches the server, which closes the Activity, and the Workflow
\* scores it; or it reaches nobody.
Complete(b) ==
    /\ badges[b].phase = "feedback" /\ Idle(b)
    /\ IF IsCurrent(b)
       THEN /\ activities' = [activities EXCEPT ![badges[b].question].state = "closed"]
            /\ \E correct \in Verdicts : ScoreAnswer(b, correct, 1)
       ELSE UNCHANGED <<activities, rosterVars>>
    /\ UNCHANGED <<sessionVars, game, signals, historyVars>>

\* The failure reaches the server, which offers the question again.
Fail(b) ==
    /\ badges[b].phase \in {"refusing", "failing"} /\ Settled(b) /\ Idle(b)
    /\ activities' = IF IsCurrent(b)
                     THEN [activities EXCEPT ![badges[b].question].state = "ready"]
                     ELSE activities
    /\ UNCHANGED <<sessionVars, rosterVars, game, signals, historyVars>>

\* Either report is lost.
ReportLost(b) ==
    /\ badges[b].phase \in {"refusing", "failing", "feedback"} /\ Settled(b) /\ Idle(b)
    /\ UNCHANGED <<sessionVars, rosterVars, game, activities, signals, historyVars>>

\* The blackout outlasts the server's heartbeat timeout (CrashLosesQuestion of
\* ActivityLease): what the attempt then reports nobody takes.
Recover(b) ==
    /\ badges[b].phase = "blackout" /\ Settled(b) /\ ~IsCurrent(b) /\ Idle(b)
    /\ UNCHANGED <<sessionVars, rosterVars, game, activities, signals, historyVars>>

Own(b) == {s \in signals : s.event.badge = b /\ s.awaited}

\* Power loss, a watchdog or restart.
Reboot(b) ==
    /\ Load(b) /\ Idle(b)
    /\ \/ /\ LateSignals
          /\ signals' = (signals \ Own(b)) \cup {[s EXCEPT !.awaited = FALSE] : s \in Own(b)}
          /\ UNCHANGED unreported
       \/ /\ signals' = signals \ Own(b)
          /\ unreported' = unreported \cup Missing(Own(b))
    /\ UNCHANGED <<rosterVars, game, activities, crashed>>

-----------------------------------------------------------------------------
\* The server.

\* No heartbeat for BADGE_HEARTBEAT_TIMEOUT_MS.
Expire(q) ==
    LET a == activities[q]
    IN  /\ a.state = "running"
        /\ a.holder \in Badges => ~(IsCurrent(a.holder) /\ KeepsLease(a.holder))
        /\ activities' = [activities EXCEPT ![q].state = "ready"]
        /\ UNCHANGED <<sessionVars, rosterVars, game, badges, signals,
                       crashed, unreported>>

\* The round ends and another begins, in a Workflow of its own.
NewGame ==
    /\ game < Len(MaxAttempts)
    /\ game' = game + 1
    /\ activities' = [q \in Questions |-> NotStarted]
    /\ players' = [b \in {} |-> NewPlayer] /\ assignments' = [q \in {} |-> 0]
    /\ retryReasons' = {} /\ attemptsSeen' = {}
    /\ reassignments' = 0 /\ heartbeatTimeouts' = 0
    /\ signals' = {} /\ unreported' = {}
    /\ UNCHANGED <<sessionVars, badges, crashed>>

-----------------------------------------------------------------------------
Attempts(b) ==
    \/ \E q \in Questions : Refuse(b, q) \/ Accept(b, q) \/ AcceptFails(b, q)
    \/ Choose(b) \/ LetGo(b) \/ Panic(b) \/ PanicFails(b)
    \/ Complete(b) \/ Fail(b) \/ ReportLost(b) \/ Recover(b) \/ Reboot(b)

Next ==
    \/ \E b \in Badges : Attempts(b)
    \/ \E q \in Questions : OfferLost(q) \/ Expire(q)
    \/ \E s \in signals : Deliver(s) \/ GiveUpOn(s)
    \/ NewGame

Spec == Init /\ [][Next]_vars

-----------------------------------------------------------------------------
Events == [badge : Badges, question : Questions, attempt : Nat]
Sessions == [game : Nat, deadline : Nat, abandoned : SUBSET Questions]

\* Every variable keeps its type.
TypeOK ==
    /\ memory \in [Badges -> Sessions] /\ flash \in [Badges -> Sessions]
    /\ game \in Nat
    /\ activities \in [Questions -> [state : {"ready", "running", "closed"},
                                     attempt : Nat, holder : Badges \cup {Nobody}]]
    /\ badges \in [Badges -> [phase : {"idle", "refusing", "failing", "live",
                                       "feedback", "blackout"},
                              game : Nat, question : Questions, attempt : Nat]]
    /\ signals \subseteq [kind : {"started", "panic"}, event : Events, awaited : BOOLEAN]
    /\ crashed \in [Badges -> SUBSET (Nat \X Questions)]
    /\ unreported \subseteq Questions \X Nat
    /\ DOMAIN players \subseteq Badges
    /\ DOMAIN assignments \subseteq Questions
    /\ \A q \in DOMAIN assignments : assignments[q] \in Events
    /\ retryReasons \subseteq Questions /\ attemptsSeen \subseteq Questions \X Nat
    /\ reassignments \in Nat /\ heartbeatTimeouts \in Nat

\* A question a badge has crashed out of is never put on that badge again in the
\* same round: not after a reboot, not after other questions and rounds, not when
\* the round is extended (session.rs, answer_question).
CrashedStaysAway ==
    \A b \in Badges :
        badges[b].phase \in {"live", "feedback"} =>
            <<badges[b].game, badges[b].question>> \notin crashed[b]

\* "every real Temporal attempt is reported before the abandon path returns, so
\* the public attempt count stays aligned with ActivityContext" (answer_question,
\* main.rs:300-302): an attempt that is over was counted, whoever held it and
\* however it ended, unless its report was lost or its session write failed.
\* This is the code's promise.  GAME_SPEC.md:28 says of a refusal that it comes
\* before "sending anything"; the code awaits the report first.
AttemptsAligned ==
    \A q \in Questions : \A n \in 1..activities[q].attempt :
        \/ n = activities[q].attempt /\ activities[q].state = "running"
        \/ <<q, n>> \in attemptsSeen \cup unreported

\* "join keeps the Signal inside this Activity's own lifetime" (answer_question):
\* the holder on record is the newest one reported, so that the next handoff is
\* attributed to the right badge.  Needs Signals that do not outlive their call.
NewestOnRecord ==
    \A q \in DOMAIN assignments :
        \A seen \in attemptsSeen : seen[1] = q => seen[2] <= assignments[q].attempt

\* Every handoff on the board is an attempt of its own after the question's
\* first, also when Signals are lost or late: the counters cannot outrun the
\* attempts they are shown beside (record_activity_started).
HandoffsAreAttempts ==
    reassignments + Cardinality(DOMAIN assignments) <= Cardinality(attemptsSeen)
=============================================================================
