---------------------------- MODULE Handoff_proofs ----------------------------
(***************************************************************************)
(* Proofs about Handoff, for every set of badges and questions and every   *)
(* number of rounds and attempts.                                          *)
(***************************************************************************)
EXTENDS Handoff, FiniteSetTheorems, TLAPS

-----------------------------------------------------------------------------
(***************************************************************************)
(* Types, and what the building blocks of the actions change.              *)
(***************************************************************************)

ActivityTypes == [state : {"ready", "running", "closed"}, attempt : Nat,
                  holder : Badges \cup {Nobody}]
Phases == {"idle", "refusing", "failing", "live", "feedback", "blackout"}
BadgeTypes == [phase : Phases, game : Nat, question : Questions, attempt : Nat]
SignalTypes == [kind : {"started", "panic"}, event : Events, awaited : BOOLEAN]

RosterTypes ==
    /\ DOMAIN players \subseteq Badges
    /\ DOMAIN assignments \subseteq Questions
    /\ \A q \in DOMAIN assignments : assignments[q] \in Events
    /\ retryReasons \subseteq Questions /\ attemptsSeen \subseteq Questions \X Nat
    /\ reassignments \in Nat /\ heartbeatTimeouts \in Nat

LEMMA PollingType == Polling \in BadgeTypes
<1>1. (CHOOSE q \in Questions : TRUE) \in Questions
  BY HandoffAssumption DEF HandoffAssumption
<1> QED BY <1>1 DEF Polling, BadgeTypes, Phases

LEMMA TypesInitially == Init => TypeOK
<1> SUFFICES ASSUME Init PROVE TypeOK
  OBVIOUS
<1>1. badges \in [Badges -> BadgeTypes]
  BY PollingType DEF Init
<1>2. memory \in [Badges -> Sessions] /\ flash \in [Badges -> Sessions]
  BY DEF Init, SessionInit, NoSession, Sessions
<1>3. activities \in [Questions -> ActivityTypes]
  BY DEF Init, NotStarted, ActivityTypes
<1>4. RosterTypes
  BY DEF Init, RosterInit, RosterTypes
<1> QED BY <1>1, <1>2, <1>3, <1>4 DEF Init, TypeOK, RosterTypes, BadgeTypes, ActivityTypes, Phases

\* The server starts an attempt.
LEMMA BeginsEffect ==
    ASSUME TypeOK, NEW q \in Questions, NEW h \in Badges \cup {Nobody}, Begins(q, h)
    PROVE  /\ activities[q].state = "ready"
           /\ activities' \in [Questions -> ActivityTypes]
           /\ activities'[q] = [state |-> "running", attempt |-> activities[q].attempt + 1,
                                holder |-> h]
           /\ \A p \in Questions \ {q} : activities'[p] = activities[p]
<1> DEFINE next == [state |-> "running", attempt |-> activities[q].attempt + 1, holder |-> h]
<1>1. activities \in [Questions -> ActivityTypes] /\ next \in ActivityTypes
  BY DEF TypeOK, ActivityTypes
<1>2. activities' = [activities EXCEPT ![q] = next]
  BY Zenon DEF Begins
<1>3. activities[q].state = "ready"
  BY DEF Begins
<1> QED BY <1>1, <1>2, <1>3

\* An Activity changes its state.
LEMMA StateEffect ==
    ASSUME TypeOK, NEW q \in Questions, NEW s \in {"ready", "closed"},
           activities' = [activities EXCEPT ![q].state = s]
    PROVE  /\ activities' \in [Questions -> ActivityTypes]
           /\ activities'[q].state = s
           /\ \A p \in Questions : activities'[p].attempt = activities[p].attempt
           /\ \A p \in Questions \ {q} : activities'[p] = activities[p]
<1> DEFINE next == [activities[q] EXCEPT !.state = s]
<1>1. activities \in [Questions -> ActivityTypes]
  BY DEF TypeOK, ActivityTypes
<1>2. next \in ActivityTypes /\ next.state = s /\ next.attempt = activities[q].attempt
  BY <1>1 DEF ActivityTypes
<1>3. activities' = [activities EXCEPT ![q] = next]
  OBVIOUS
<1> HIDE DEF next
<1> QED BY <1>1, <1>2, <1>3

LEMMA AttemptEffect ==
    ASSUME TypeOK, NEW b \in Badges, NEW q \in Questions, NEW phase \in Phases,
           Attempt(b, q, phase)
    PROVE  /\ badges' \in [Badges -> BadgeTypes]
           /\ badges'[b] = [phase |-> phase, game |-> game, question |-> q,
                            attempt |-> activities[q].attempt + 1]
           /\ \A c \in Badges \ {b} : badges'[c] = badges[c]
  BY DEF TypeOK, Attempt, BadgeTypes, Phases

LEMMA AttemptFields ==
    ASSUME TypeOK, NEW b \in Badges, NEW q \in Questions, NEW phase \in Phases,
           Attempt(b, q, phase)
    PROVE  /\ badges'[b].phase = phase /\ badges'[b].game = game
           /\ badges'[b].question = q
           /\ \A c \in Badges \ {b} : badges'[c] = badges[c]
  BY DEF TypeOK, Attempt, BadgeTypes, Phases

LEMMA PhaseEffect ==
    ASSUME TypeOK, NEW b \in Badges, NEW phase \in Phases,
           badges' = [badges EXCEPT ![b].phase = phase]
    PROVE  /\ badges' \in [Badges -> BadgeTypes]
           /\ badges'[b].phase = phase /\ badges'[b].game = badges[b].game
           /\ badges'[b].question = badges[b].question
           /\ badges'[b].attempt = badges[b].attempt
           /\ \A c \in Badges \ {b} : badges'[c] = badges[c]
  BY DEF TypeOK, BadgeTypes, Phases

LEMMA IdleEffect ==
    ASSUME TypeOK, NEW b \in Badges, Idle(b)
    PROVE  /\ badges' \in [Badges -> BadgeTypes]
           /\ badges'[b].phase = "idle"
           /\ badges'[b].game = 0
           /\ \A c \in Badges \ {b} : badges'[c] = badges[c]
<1>1. badges \in [Badges -> BadgeTypes]
  BY DEF TypeOK, BadgeTypes, Phases
<1>2. Polling.phase = "idle" /\ Polling.game = 0
  BY DEF Polling
<1>3. badges' = [badges EXCEPT ![b] = Polling]
  BY DEF Idle
<1> QED BY <1>1, <1>2, <1>3, PollingType

-----------------------------------------------------------------------------
\* Sessions.

LEMMA SessionFields ==
    ASSUME NEW s \in Sessions
    PROVE  /\ s.game \in Nat /\ s.deadline \in Nat /\ s.abandoned \subseteq Questions
           /\ \A d \in Nat : /\ [s EXCEPT !.deadline = d] \in Sessions
                             /\ [s EXCEPT !.deadline = d].game = s.game
                             /\ [s EXCEPT !.deadline = d].abandoned = s.abandoned
           /\ \A q \in Questions :
                 /\ [s EXCEPT !.abandoned = s.abandoned \cup {q}] \in Sessions
                 /\ [s EXCEPT !.abandoned = s.abandoned \cup {q}].game = s.game
                 /\ [s EXCEPT !.abandoned = s.abandoned \cup {q}].abandoned
                       = s.abandoned \cup {q}
  BY DEF Sessions

\* begin_game: the questions stay as long as the game does.
LEMMA BegunEffect ==
    ASSUME NEW s \in Sessions, NEW g \in Nat, NEW d \in Nat
    PROVE  /\ Begun(s, g, d) \in Sessions
           /\ Begun(s, g, d).game = g
           /\ s.game = g => Begun(s, g, d).abandoned = s.abandoned
           /\ s.game # g => Begun(s, g, d).abandoned = {}
<1>1. [game |-> g, deadline |-> d, abandoned |-> {}] \in Sessions
  BY DEF Sessions
<1>2. CASE s.game # g
  BY <1>1, <1>2 DEF Begun
<1>3. CASE s.game = g /\ s.deadline < d
  BY <1>3, SessionFields DEF Begun
<1>4. CASE s.game = g /\ ~(s.deadline < d)
  BY <1>4 DEF Begun
<1> QED BY <1>2, <1>3, <1>4

\* abandon
LEMMA AbandonedEffect ==
    ASSUME NEW s \in Sessions, NEW g \in Nat, NEW q \in Questions
    PROVE  /\ Abandoned(s, g, q) \in Sessions
           /\ Abandoned(s, g, q).game = s.game
           /\ s.game = g => Abandoned(s, g, q).abandoned = s.abandoned \cup {q}
           /\ s.game # g => Abandoned(s, g, q) = s
  BY SessionFields DEF Abandoned

LEMMA DeadlineType == \A q \in Questions : Deadline(q) \in Nat
  BY DEF Deadline

LEMMA SaveEffect ==
    ASSUME TypeOK, NEW b \in Badges, NEW s \in Sessions, Save(b, s)
    PROVE  /\ memory' \in [Badges -> Sessions] /\ flash' \in [Badges -> Sessions]
           /\ memory'[b] = s
           /\ flash'[b] = s \/ (flash'[b] = flash[b] /\ s = memory[b])
           /\ \A c \in Badges \ {b} : memory'[c] = memory[c] /\ flash'[c] = flash[c]
  BY DEF TypeOK, Save, sessionVars

LEMMA SaveFailsEffect ==
    ASSUME TypeOK, NEW b \in Badges, NEW s \in Sessions, SaveFails(b, s)
    PROVE  /\ memory' = memory /\ flash' \in [Badges -> Sessions]
           /\ flash'[b] = s \/ flash'[b] = flash[b]
           /\ \A c \in Badges \ {b} : flash'[c] = flash[c]
<1>1. memory' = memory /\ flash \in [Badges -> Sessions]
  BY DEF TypeOK, SaveFails
<1>2. flash' = flash \/ flash' = [flash EXCEPT ![b] = s]
  BY DEF SaveFails
<1> QED BY <1>1, <1>2

LEMMA LoadEffect ==
    ASSUME TypeOK, NEW b \in Badges, Load(b)
    PROVE  /\ memory' \in [Badges -> Sessions] /\ flash' = flash
           /\ memory'[b] = flash[b]
           /\ \A c \in Badges \ {b} : memory'[c] = memory[c]
  BY DEF TypeOK, Load

-----------------------------------------------------------------------------
\* Signals.

LEMMA SignalFields ==
    ASSUME NEW s \in SignalTypes
    PROVE  /\ s.kind \in {"started", "panic"} /\ s.awaited \in BOOLEAN
           /\ s.event \in Events
           /\ s.event.badge \in Badges /\ s.event.question \in Questions
           /\ s.event.attempt \in Nat
           /\ [s EXCEPT !.awaited = FALSE] \in SignalTypes
           /\ [s EXCEPT !.awaited = FALSE].kind = s.kind
           /\ [s EXCEPT !.awaited = FALSE].event = s.event
           /\ ~[s EXCEPT !.awaited = FALSE].awaited
  BY DEF SignalTypes, Events

LEMMA StartedFields ==
    ASSUME TypeOK, NEW b \in Badges, NEW q \in Questions
    PROVE  /\ Started(b, q) \in SignalTypes
           /\ Started(b, q).kind = "started" /\ Started(b, q).awaited
           /\ Started(b, q).event.badge = b
           /\ Started(b, q).event.question = q
           /\ Started(b, q).event.attempt = activities[q].attempt + 1
  BY DEF TypeOK, Started, SignalTypes, Events

LEMMA PanicSignal ==
    ASSUME TypeOK, NEW b \in Badges
    PROVE  /\ Signal(b, "panic") \subseteq SignalTypes
           /\ \A s \in Signal(b, "panic") : s.kind = "panic" /\ s.awaited
<1>1. Event(b) \in Events
  BY DEF TypeOK, Event, Events
<1> DEFINE sent == [kind |-> "panic", event |-> Event(b), awaited |-> TRUE]
<1>2. Signal(b, "panic") \subseteq {sent}
  BY Zenon DEF Signal
<1>3. sent \in SignalTypes /\ sent.kind = "panic" /\ sent.awaited
  BY <1>1 DEF SignalTypes
<1> HIDE DEF sent
<1> QED BY <1>2, <1>3

LEMMA MissingTypes ==
    ASSUME NEW S \in SUBSET SignalTypes
    PROVE  Missing(S) \subseteq Questions \X Nat
  BY DEF Missing, SignalTypes, Events

-----------------------------------------------------------------------------
\* The Workflow's handlers.

LEMMA StartedHandlerEffect ==
    ASSUME RosterTypes, NEW event \in Events, BadgeStarted(event)
    PROVE  /\ RosterTypes'
           /\ DOMAIN assignments' = DOMAIN assignments \cup {event.question}
           /\ assignments'[event.question] = event
           /\ \A q \in DOMAIN assignments \ {event.question} :
                 assignments'[q] = assignments[q]
           /\ attemptsSeen' = attemptsSeen \cup {<<event.question, event.attempt>>}
           /\ \/ reassignments' = reassignments
              \/ /\ reassignments' = reassignments + 1
                 /\ event.question \in DOMAIN assignments
                 /\ event.attempt > assignments[event.question].attempt
<1> DEFINE q == event.question
           moved == q \in DOMAIN assignments /\ IsReassignment(assignments[q], event)
<1>1. event.badge \in Badges /\ q \in Questions /\ event.attempt \in Nat
  BY DEF Events
<1>2. /\ assignments' = [x \in DOMAIN assignments \cup {q} |->
                            IF x = q THEN event ELSE assignments[x]]
      /\ attemptsSeen' = attemptsSeen \cup {<<q, event.attempt>>}
      /\ players' = Joined(event.badge)
  BY DEF BadgeStarted
<1>3. /\ reassignments' = reassignments + (IF moved THEN 1 ELSE 0)
      /\ heartbeatTimeouts' = heartbeatTimeouts + (IF moved THEN 1 ELSE 0)
      /\ retryReasons' = IF moved THEN retryReasons \ {q} ELSE retryReasons
  BY DEF BadgeStarted
<1>4. DOMAIN players' \subseteq Badges
  BY <1>1, <1>2 DEF Joined, RosterTypes
<1>5. /\ DOMAIN assignments' \subseteq Questions
      /\ \A x \in DOMAIN assignments' : assignments'[x] \in Events
  BY <1>1, <1>2 DEF RosterTypes
<1>6. /\ reassignments' \in Nat /\ heartbeatTimeouts' \in Nat
      /\ retryReasons' \subseteq Questions
  BY <1>3 DEF RosterTypes
<1>7. attemptsSeen' \subseteq Questions \X Nat
  BY <1>1, <1>2 DEF RosterTypes
<1>8. moved => event.attempt > assignments[q].attempt
  BY DEF IsReassignment
<1>9. reassignments' = reassignments \/ (reassignments' = reassignments + 1 /\ moved)
  BY <1>3 DEF RosterTypes
<1>10. RosterTypes'
  BY <1>4, <1>5, <1>6, <1>7 DEF RosterTypes
<1>11. /\ DOMAIN assignments' = DOMAIN assignments \cup {q}
       /\ assignments'[q] = event
       /\ \A x \in DOMAIN assignments \ {q} : assignments'[x] = assignments[x]
  BY <1>2
<1> QED BY <1>2, <1>8, <1>9, <1>10, <1>11

LEMMA PanicHandlerEffect ==
    ASSUME RosterTypes, NEW event \in Events, PanicEvent(event)
    PROVE  /\ RosterTypes'
           /\ UNCHANGED <<assignments, attemptsSeen, reassignments>>
<1>1. event.badge \in Badges /\ event.question \in Questions
  BY DEF Events
<1>2. /\ retryReasons' = retryReasons \cup {event.question}
      /\ UNCHANGED <<assignments, attemptsSeen, reassignments, heartbeatTimeouts>>
  BY DEF PanicEvent
<1>3. DOMAIN players' \subseteq Badges
  BY <1>1 DEF PanicEvent, Joined, RosterTypes
<1> QED BY <1>1, <1>2, <1>3 DEF RosterTypes

LEMMA ScoreEffect ==
    ASSUME RosterTypes, NEW b \in Badges, NEW correct \in BOOLEAN, ScoreAnswer(b, correct, 1)
    PROVE  RosterTypes' /\ UNCHANGED <<assignments, attemptsSeen, reassignments>>
<1>1. UNCHANGED signalVars
  BY DEF ScoreAnswer
<1>2. DOMAIN players' \subseteq Badges
  BY DEF ScoreAnswer, Joined, RosterTypes
<1> QED BY <1>1, <1>2 DEF RosterTypes, signalVars

-----------------------------------------------------------------------------
TypeParts ==
    /\ memory \in [Badges -> Sessions] /\ flash \in [Badges -> Sessions]
    /\ game \in Nat
    /\ activities \in [Questions -> ActivityTypes]
    /\ badges \in [Badges -> BadgeTypes]
    /\ signals \subseteq SignalTypes
    /\ crashed \in [Badges -> SUBSET (Nat \X Questions)]
    /\ unreported \subseteq Questions \X Nat
    /\ RosterTypes

LEMMA TypesByParts == TypeOK => TypeParts
  BY DEF TypeOK, TypeParts, RosterTypes, ActivityTypes, BadgeTypes, Phases, SignalTypes

LEMMA PartsMakeTypes == TypeParts' => TypeOK'
  BY DEF TypeOK, TypeParts, RosterTypes, ActivityTypes, BadgeTypes, Phases, SignalTypes

LEMMA RosterUnchanged == RosterTypes /\ UNCHANGED rosterVars => RosterTypes'
  BY DEF RosterTypes, rosterVars

\* Every step is one of these.
LEMMA Steps ==
    ASSUME Next
    PROVE  \/ \E b \in Badges, q \in Questions :
                 Refuse(b, q) \/ Accept(b, q) \/ AcceptFails(b, q)
           \/ \E b \in Badges : \/ Choose(b) \/ LetGo(b) \/ Panic(b) \/ PanicFails(b)
                                \/ Complete(b) \/ Fail(b) \/ ReportLost(b)
                                \/ Recover(b) \/ Reboot(b)
           \/ \E q \in Questions : OfferLost(q) \/ Expire(q)
           \/ \E s \in signals : Deliver(s) \/ GiveUpOn(s)
           \/ NewGame
  BY DEF Next, Attempts

LEMMA AttemptNumbers ==
    ASSUME TypeOK, NEW q \in Questions
    PROVE  /\ activities[q].attempt \in Nat
           /\ <<q, activities[q].attempt + 1>> \in Questions \X Nat
  BY DEF TypeOK

LEMMA TypesStep ==
    ASSUME TypeOK, [Next]_vars
    PROVE  TypeOK'
<1> SUFFICES TypeParts'
  BY PartsMakeTypes
<1> USE TypesByParts
<1>1. ASSUME NEW b \in Badges, NEW q \in Questions, Refuse(b, q) \/ Accept(b, q)
      PROVE  TypeParts'
  <2>1. CASE Refuse(b, q)
    <3>1. /\ Begins(q, b) /\ Attempt(b, q, "refusing")
          /\ signals' = signals \cup {Started(b, q)}
          /\ UNCHANGED <<sessionVars, rosterVars, game, historyVars>>
      BY <2>1 DEF Refuse, Offered
    <3>2. activities' \in [Questions -> ActivityTypes]
      BY <3>1, BeginsEffect
    <3>3. badges' \in [Badges -> BadgeTypes]
      BY <3>1, AttemptEffect DEF Phases
    <3>4. signals' \subseteq SignalTypes
      BY <3>1, StartedFields DEF TypeParts
    <3>5. RosterTypes'
      BY <3>1, RosterUnchanged DEF TypeParts
    <3> QED BY <3>1, <3>2, <3>3, <3>4, <3>5 DEF TypeParts, sessionVars, historyVars
  <2>2. CASE Accept(b, q)
    <3>1. /\ Begins(q, b) /\ Attempt(b, q, "live")
          /\ Save(b, Begun(memory[b], game, Deadline(q)))
          /\ signals' = signals \cup {Started(b, q)}
          /\ UNCHANGED <<rosterVars, game, historyVars>>
      BY <2>2 DEF Accept, Offered
    <3>2. activities' \in [Questions -> ActivityTypes]
      BY <3>1, BeginsEffect
    <3>3. badges' \in [Badges -> BadgeTypes]
      BY <3>1, AttemptEffect DEF Phases
    <3>4. signals' \subseteq SignalTypes
      BY <3>1, StartedFields DEF TypeParts
    <3>5. RosterTypes'
      BY <3>1, RosterUnchanged DEF TypeParts
    <3>6. Begun(memory[b], game, Deadline(q)) \in Sessions
      BY BegunEffect, DeadlineType DEF TypeParts
    <3>7. memory' \in [Badges -> Sessions] /\ flash' \in [Badges -> Sessions]
      BY <3>1, <3>6, SaveEffect
    <3> QED BY <3>1, <3>2, <3>3, <3>4, <3>5, <3>7 DEF TypeParts, historyVars
  <2> QED BY <1>1, <2>1, <2>2
<1>2. ASSUME NEW b \in Badges, NEW q \in Questions, AcceptFails(b, q)
      PROVE  TypeParts'
  <2>1. /\ Begins(q, b) /\ Attempt(b, q, "failing")
        /\ SaveFails(b, Begun(memory[b], game, Deadline(q)))
        /\ unreported' = unreported \cup {<<q, activities[q].attempt + 1>>}
        /\ UNCHANGED <<rosterVars, game, signals, crashed>>
    BY <1>2 DEF AcceptFails, Offered
  <2>2. activities' \in [Questions -> ActivityTypes]
    BY <2>1, BeginsEffect
  <2>3. badges' \in [Badges -> BadgeTypes]
    BY <2>1, AttemptEffect DEF Phases
  <2>4. unreported' \subseteq Questions \X Nat
    BY <2>1, AttemptNumbers DEF TypeParts
  <2>5. RosterTypes'
    BY <2>1, RosterUnchanged DEF TypeParts
  <2>6. Begun(memory[b], game, Deadline(q)) \in Sessions
    BY BegunEffect, DeadlineType DEF TypeParts
  <2>7. memory' \in [Badges -> Sessions] /\ flash' \in [Badges -> Sessions]
    BY <2>1, <2>6, SaveFailsEffect DEF TypeParts
  <2> QED BY <2>1, <2>2, <2>3, <2>4, <2>5, <2>7 DEF TypeParts
<1>3. ASSUME NEW b \in Badges, Choose(b) \/ LetGo(b)
      PROVE  TypeParts'
  <2>1. \E phase \in Phases : badges' = [badges EXCEPT ![b].phase = phase]
    BY <1>3 DEF Choose, LetGo, Phases
  <2>2. UNCHANGED <<sessionVars, rosterVars, game, activities, signals, historyVars>>
    BY <1>3 DEF Choose, LetGo
  <2>3. badges' \in [Badges -> BadgeTypes]
    BY <2>1, PhaseEffect
  <2>4. RosterTypes'
    BY <2>2, RosterUnchanged DEF TypeParts
  <2> QED BY <2>2, <2>3, <2>4 DEF TypeParts, sessionVars, historyVars
<1>4. ASSUME NEW b \in Badges, Panic(b)
      PROVE  TypeParts'
  <2> DEFINE kept == Abandoned(memory[b], badges[b].game, badges[b].question)
             left == <<badges[b].game, badges[b].question>>
  <2>1. /\ badges' = [badges EXCEPT ![b].phase = "blackout"] /\ Save(b, kept)
        /\ signals' = signals \cup Signal(b, "panic")
        /\ crashed' = [crashed EXCEPT ![b] = crashed[b] \cup {left}]
        /\ UNCHANGED <<rosterVars, game, activities, unreported>>
    BY <1>4 DEF Panic
  <2>2. badges' \in [Badges -> BadgeTypes]
    BY <2>1, PhaseEffect DEF Phases
  <2>3. badges[b].game \in Nat /\ badges[b].question \in Questions
    BY DEF TypeParts, BadgeTypes
  <2>4. memory' \in [Badges -> Sessions] /\ flash' \in [Badges -> Sessions]
    BY <2>1, <2>3, AbandonedEffect, SaveEffect DEF TypeParts
  <2>5. signals' \subseteq SignalTypes
    BY <2>1, PanicSignal DEF TypeParts
  <2>6. RosterTypes'
    BY <2>1, RosterUnchanged DEF TypeParts
  <2>7. crashed' \in [Badges -> SUBSET (Nat \X Questions)]
    BY <2>1, <2>3 DEF TypeParts
  <2> QED BY <2>1, <2>2, <2>4, <2>5, <2>6, <2>7 DEF TypeParts
<1>5. ASSUME NEW b \in Badges, PanicFails(b)
      PROVE  TypeParts'
  <2> DEFINE kept == Abandoned(memory[b], badges[b].game, badges[b].question)
  <2>1. /\ badges' = [badges EXCEPT ![b].phase = "failing"] /\ SaveFails(b, kept)
        /\ UNCHANGED <<rosterVars, game, activities, signals, historyVars>>
    BY <1>5 DEF PanicFails
  <2>2. badges' \in [Badges -> BadgeTypes]
    BY <2>1, PhaseEffect DEF Phases
  <2>3. badges[b].game \in Nat /\ badges[b].question \in Questions
    BY DEF TypeParts, BadgeTypes
  <2>4. memory' \in [Badges -> Sessions] /\ flash' \in [Badges -> Sessions]
    BY <2>1, <2>3, AbandonedEffect, SaveFailsEffect DEF TypeParts
  <2>5. RosterTypes'
    BY <2>1, RosterUnchanged DEF TypeParts
  <2> QED BY <2>1, <2>2, <2>4, <2>5 DEF TypeParts, historyVars
<1>6. ASSUME NEW b \in Badges, Complete(b)
      PROVE  TypeParts'
  <2>1. Idle(b) /\ UNCHANGED <<sessionVars, game, signals, historyVars>>
    BY <1>6 DEF Complete
  <2>2. badges' \in [Badges -> BadgeTypes]
    BY <2>1, IdleEffect
  <2>3. badges[b].question \in Questions
    BY DEF TypeParts, BadgeTypes
  <2>4. CASE IsCurrent(b)
    <3>1. activities' = [activities EXCEPT ![badges[b].question].state = "closed"]
      BY <1>6, <2>4 DEF Complete
    <3>2. \E correct \in Verdicts : ScoreAnswer(b, correct, 1)
      BY <1>6, <2>4 DEF Complete
    <3>3. \E correct \in BOOLEAN : ScoreAnswer(b, correct, 1)
      BY <3>2, HandoffAssumption DEF HandoffAssumption
    <3>4. activities' \in [Questions -> ActivityTypes]
      BY <3>1, <2>3, StateEffect
    <3>5. RosterTypes'
      BY <3>3, ScoreEffect DEF TypeParts
    <3> QED BY <2>1, <2>2, <3>4, <3>5 DEF TypeParts, sessionVars, historyVars
  <2>5. CASE ~IsCurrent(b)
    <3>1. UNCHANGED <<activities, rosterVars>>
      BY <1>6, <2>5 DEF Complete
    <3>2. RosterTypes'
      BY <3>1, RosterUnchanged DEF TypeParts
    <3> QED BY <2>1, <2>2, <3>1, <3>2 DEF TypeParts, sessionVars, historyVars
  <2> QED BY <2>4, <2>5
<1>7. ASSUME NEW b \in Badges, Fail(b) \/ ReportLost(b) \/ Recover(b)
      PROVE  TypeParts'
  <2>1. Idle(b) /\ UNCHANGED <<sessionVars, rosterVars, game, signals, historyVars>>
    BY <1>7 DEF Fail, ReportLost, Recover
  <2>2. badges' \in [Badges -> BadgeTypes]
    BY <2>1, IdleEffect
  <2>3. badges[b].question \in Questions
    BY DEF TypeParts, BadgeTypes
  <2>4. \/ activities' = activities
        \/ activities' = [activities EXCEPT ![badges[b].question].state = "ready"]
    BY <1>7 DEF Fail, ReportLost, Recover
  <2>5. activities' \in [Questions -> ActivityTypes]
    BY <2>3, <2>4, StateEffect DEF TypeParts
  <2>6. RosterTypes'
    BY <2>1, RosterUnchanged DEF TypeParts
  <2> QED BY <2>1, <2>2, <2>5, <2>6 DEF TypeParts, sessionVars, historyVars
<1>8. ASSUME NEW b \in Badges, Reboot(b)
      PROVE  TypeParts'
  <2>1. Load(b) /\ Idle(b) /\ UNCHANGED <<rosterVars, game, activities, crashed>>
    BY <1>8 DEF Reboot
  <2>2. badges' \in [Badges -> BadgeTypes]
    BY <2>1, IdleEffect
  <2>3. memory' \in [Badges -> Sessions] /\ flash' = flash
    BY <2>1, LoadEffect
  <2>4. Own(b) \subseteq SignalTypes
    BY DEF Own, TypeParts
  <2>5. {[s EXCEPT !.awaited = FALSE] : s \in Own(b)} \subseteq SignalTypes
    BY <2>4, SignalFields
  <2>6. Missing(Own(b)) \subseteq Questions \X Nat
    BY <2>4, MissingTypes
  <2>7. signals' \subseteq SignalTypes /\ unreported' \subseteq Questions \X Nat
    BY <1>8, <2>5, <2>6 DEF Reboot, TypeParts
  <2>8. RosterTypes'
    BY <2>1, RosterUnchanged DEF TypeParts
  <2> QED BY <2>1, <2>2, <2>3, <2>7, <2>8 DEF TypeParts
<1>9. ASSUME NEW q \in Questions, OfferLost(q)
      PROVE  TypeParts'
  <2>1. /\ Begins(q, Nobody)
        /\ unreported' = unreported \cup {<<q, activities[q].attempt + 1>>}
        /\ UNCHANGED <<sessionVars, rosterVars, game, badges, signals, crashed>>
    BY <1>9 DEF OfferLost
  <2>2. activities' \in [Questions -> ActivityTypes]
    BY <2>1, BeginsEffect
  <2>3. unreported' \subseteq Questions \X Nat
    BY <2>1, AttemptNumbers DEF TypeParts
  <2>4. RosterTypes'
    BY <2>1, RosterUnchanged DEF TypeParts
  <2> QED BY <2>1, <2>2, <2>3, <2>4 DEF TypeParts, sessionVars
<1>10. ASSUME NEW q \in Questions, Expire(q)
       PROVE  TypeParts'
  <2>1. /\ activities' = [activities EXCEPT ![q].state = "ready"]
        /\ UNCHANGED <<sessionVars, rosterVars, game, badges, signals, crashed, unreported>>
    BY <1>10 DEF Expire
  <2>2. activities' \in [Questions -> ActivityTypes]
    BY <2>1, StateEffect
  <2>3. RosterTypes'
    BY <2>1, RosterUnchanged DEF TypeParts
  <2> QED BY <2>1, <2>2, <2>3 DEF TypeParts, sessionVars
<1>11. ASSUME NEW s \in signals, Deliver(s)
       PROVE  TypeParts'
  <2>1. /\ signals' = signals \ {s}
        /\ UNCHANGED <<sessionVars, game, activities, badges, historyVars>>
        /\ BadgeStarted(s.event) \/ PanicEvent(s.event)
    BY <1>11 DEF Deliver
  <2>2. s.event \in Events
    BY SignalFields DEF TypeParts
  <2>3. RosterTypes'
    BY <2>1, <2>2, StartedHandlerEffect, PanicHandlerEffect DEF TypeParts
  <2> QED BY <2>1, <2>3 DEF TypeParts, sessionVars, historyVars
<1>12. ASSUME NEW s \in signals, GiveUpOn(s)
       PROVE  TypeParts'
  <2>1. UNCHANGED <<sessionVars, rosterVars, game, activities, badges, crashed>>
    BY <1>12 DEF GiveUpOn
  <2>2. s \in SignalTypes /\ [s EXCEPT !.awaited = FALSE] \in SignalTypes
    BY SignalFields DEF TypeParts
  <2>3. Missing({s}) \subseteq Questions \X Nat
    BY <2>2, MissingTypes
  <2>4. signals' \subseteq SignalTypes /\ unreported' \subseteq Questions \X Nat
    BY <1>12, <2>2, <2>3 DEF GiveUpOn, TypeParts
  <2>5. RosterTypes'
    BY <2>1, RosterUnchanged DEF TypeParts
  <2> QED BY <2>1, <2>4, <2>5 DEF TypeParts, sessionVars
<1>13. CASE NewGame
  <2>1. /\ game' = game + 1 /\ activities' = [q \in Questions |-> NotStarted]
        /\ signals' = {} /\ unreported' = {}
        /\ UNCHANGED <<sessionVars, badges, crashed>>
    BY <1>13 DEF NewGame
  <2>2. RosterTypes'
    BY <1>13 DEF NewGame, RosterTypes
  <2>3. activities' \in [Questions -> ActivityTypes]
    BY <2>1 DEF NotStarted, ActivityTypes
  <2> QED BY <2>1, <2>2, <2>3 DEF TypeParts, sessionVars
<1>14. CASE UNCHANGED vars
  <2>1. RosterTypes'
    BY <1>14, RosterUnchanged DEF TypeParts, vars
  <2> QED BY <1>14, <2>1 DEF TypeParts, vars, rosterVars
<1> QED
  BY <1>1, <1>2, <1>3, <1>4, <1>5, <1>6, <1>7, <1>8, <1>9, <1>10, <1>11, <1>12,
     <1>13, <1>14, Steps

\* Every variable keeps its type.
THEOREM TypesHold == Spec => []TypeOK
<1>1. Init => TypeOK
  BY TypesInitially
<1>2. TypeOK /\ [Next]_vars => TypeOK'
  BY TypesStep
<1> QED BY <1>1, <1>2, PTL DEF Spec

-----------------------------------------------------------------------------
(***************************************************************************)
(* A question a badge has crashed out of stays away from it.               *)
(***************************************************************************)

\* What a badge has crashed out of: games and questions.
Lefts == SUBSET (Nat \X Questions)

\* A session from before the round knows nothing of it; one of the round knows
\* every question of it that the badge crashed out of.
Remembers(session, left) ==
    \A c \in left : /\ c[1] <= session.game
                    /\ c[1] = session.game => c[2] \in session.abandoned

\* The attempt on screen is of the session in memory and not one it has left.
Shows(session, badge) ==
    badge.phase \in {"live", "feedback"} =>
        session.game = badge.game /\ badge.question \notin session.abandoned

CrashInv ==
    \A b \in Badges :
        /\ Remembers(memory[b], crashed[b]) /\ Remembers(flash[b], crashed[b])
        /\ memory[b].game <= game /\ flash[b].game <= game
        /\ Shows(memory[b], badges[b])

LEMMA CrashInitially == Init => CrashInv
<1> SUFFICES ASSUME Init, NEW b \in Badges
             PROVE  /\ Remembers(memory[b], crashed[b]) /\ Remembers(flash[b], crashed[b])
                    /\ memory[b].game <= game /\ flash[b].game <= game
                    /\ Shows(memory[b], badges[b])
  BY DEF CrashInv
<1>1. crashed[b] = {} /\ memory[b] = NoSession /\ flash[b] = NoSession
      /\ badges[b] = Polling /\ game = 1
  BY DEF Init, SessionInit
<1>2. NoSession.game = 0 /\ Polling.phase = "idle"
  BY DEF NoSession, Polling
<1>3. Remembers(memory[b], crashed[b]) /\ Remembers(flash[b], crashed[b])
  BY <1>1 DEF Remembers
<1>4. memory[b].game <= game /\ flash[b].game <= game
  BY <1>1, <1>2
<1>5. Shows(memory[b], badges[b])
  BY <1>1, <1>2 DEF Shows
<1> QED BY <1>3, <1>4, <1>5

LEMMA CrashImplies == TypeOK /\ CrashInv => CrashedStaysAway
<1> SUFFICES ASSUME CrashInv, NEW b \in Badges, badges[b].phase \in {"live", "feedback"},
                    <<badges[b].game, badges[b].question>> \in crashed[b]
             PROVE  FALSE
  BY DEF CrashedStaysAway
<1>1. memory[b].game = badges[b].game /\ badges[b].question \notin memory[b].abandoned
  BY DEF CrashInv, Shows
<1>2. Remembers(memory[b], crashed[b])
  BY DEF CrashInv
<1> QED BY <1>1, <1>2 DEF Remembers

\* begin_game of the running round forgets nothing that matters.
LEMMA BegunRemembers ==
    ASSUME NEW s \in Sessions, NEW g \in Nat, NEW d \in Nat,
           NEW left \in Lefts, Remembers(s, left), s.game <= g
    PROVE  Remembers(Begun(s, g, d), left)
<1> DEFINE t == Begun(s, g, d)
<1>1. t.game = g /\ (s.game = g => t.abandoned = s.abandoned)
  BY BegunEffect
<1>2. s.game \in Nat
  BY DEF Sessions
<1> HIDE DEF t
<1> SUFFICES ASSUME NEW c \in left
             PROVE  c[1] <= t.game /\ (c[1] = t.game => c[2] \in t.abandoned)
  BY DEF Remembers, t
<1>3. c[1] \in Nat
  BY DEF Lefts
<1>4. c[1] <= s.game /\ (c[1] = s.game => c[2] \in s.abandoned)
  BY DEF Remembers
<1>5. c[1] <= t.game
  BY <1>1, <1>2, <1>3, <1>4
<1>6. ASSUME c[1] = t.game PROVE c[2] \in t.abandoned
  <2>1. s.game = g
    BY <1>1, <1>2, <1>3, <1>4, <1>6
  <2> QED BY <1>1, <1>4, <1>6, <2>1
<1> QED BY <1>5, <1>6

\* Nor does abandon, which adds the question that is left.
LEMMA AbandonedRemembers ==
    ASSUME NEW s \in Sessions, NEW g \in Nat, NEW q \in Questions,
           NEW left \in Lefts, Remembers(s, left), s.game = g
    PROVE  /\ Remembers(Abandoned(s, g, q), left)
           /\ Remembers(Abandoned(s, g, q), left \cup {<<g, q>>})
<1> DEFINE t == Abandoned(s, g, q)
<1>1. t.game = s.game /\ t.abandoned = s.abandoned \cup {q} /\ s.game \in Nat
  BY AbandonedEffect, SessionFields
<1> HIDE DEF t
<1>2. Remembers(t, left)
  BY <1>1 DEF Remembers
<1>3. Remembers(t, left \cup {<<g, q>>})
  BY <1>1, <1>2 DEF Remembers
<1> QED BY <1>2, <1>3 DEF t

\* One badge changes, the others keep what they have, and the round only goes on.
LEMMA CrashFrame ==
    ASSUME TypeOK, CrashInv, NEW b \in Badges, game' \in Nat, game <= game',
           \A c \in Badges \ {b} :
               /\ memory'[c] = memory[c] /\ flash'[c] = flash[c]
               /\ badges'[c] = badges[c] /\ crashed'[c] = crashed[c],
           Remembers(memory'[b], crashed'[b]), Remembers(flash'[b], crashed'[b]),
           memory'[b].game <= game', flash'[b].game <= game',
           Shows(memory'[b], badges'[b])
    PROVE  CrashInv'
<1> SUFFICES ASSUME NEW c \in Badges
             PROVE  /\ Remembers(memory'[c], crashed'[c]) /\ Remembers(flash'[c], crashed'[c])
                    /\ memory'[c].game <= game' /\ flash'[c].game <= game'
                    /\ Shows(memory'[c], badges'[c])
  BY DEF CrashInv
<1>1. CASE c = b
  BY <1>1
<1>2. ASSUME c # b
      PROVE  /\ Remembers(memory'[c], crashed'[c]) /\ Remembers(flash'[c], crashed'[c])
             /\ memory'[c].game <= game' /\ flash'[c].game <= game'
             /\ Shows(memory'[c], badges'[c])
  <2>1. /\ memory'[c] = memory[c] /\ flash'[c] = flash[c]
        /\ badges'[c] = badges[c] /\ crashed'[c] = crashed[c]
    BY <1>2
  <2>2. /\ Remembers(memory[c], crashed[c]) /\ Remembers(flash[c], crashed[c])
        /\ Shows(memory[c], badges[c])
    BY DEF CrashInv
  <2>3. memory[c].game <= game /\ flash[c].game <= game
    BY DEF CrashInv
  <2>4. memory[c].game \in Nat /\ flash[c].game \in Nat /\ game \in Nat
    BY DEF TypeOK, Sessions
  <2>5. memory'[c].game <= game' /\ flash'[c].game <= game'
    BY <2>1, <2>3, <2>4
  <2> QED BY <2>1, <2>2, <2>5
<1> QED BY <1>1, <1>2

\* Off the screen there is nothing to show.
LEMMA NothingShown ==
    ASSUME NEW session, NEW badge, badge.phase \notin {"live", "feedback"}
    PROVE  Shows(session, badge)
  BY DEF Shows

LEMMA StillRemembers ==
    ASSUME CrashInv, NEW b \in Badges
    PROVE  /\ Remembers(memory[b], crashed[b]) /\ Remembers(flash[b], crashed[b])
           /\ Shows(memory[b], badges[b])
  BY DEF CrashInv

\* The facts about a badge that the steps below use.
LEMMA CrashFacts ==
    ASSUME TypeOK, CrashInv, NEW b \in Badges
    PROVE  /\ memory[b] \in Sessions /\ flash[b] \in Sessions
           /\ memory[b].game \in Nat /\ flash[b].game \in Nat /\ game \in Nat
           /\ badges[b].game \in Nat /\ badges[b].question \in Questions
           /\ crashed[b] \in Lefts
           /\ memory[b].game <= game /\ flash[b].game <= game
           /\ Remembers(memory[b], crashed[b]) /\ Remembers(flash[b], crashed[b])
           /\ Shows(memory[b], badges[b])
<1>1. /\ memory[b].game <= game /\ flash[b].game <= game
      /\ Remembers(memory[b], crashed[b]) /\ Remembers(flash[b], crashed[b])
      /\ Shows(memory[b], badges[b])
  BY DEF CrashInv
<1>2. memory[b] \in Sessions /\ flash[b] \in Sessions /\ game \in Nat
  BY DEF TypeOK
<1>3. memory[b].game \in Nat /\ flash[b].game \in Nat
  BY <1>2 DEF Sessions
<1>4. /\ badges[b].game \in Nat /\ badges[b].question \in Questions
      /\ crashed[b] \in Lefts
  BY DEF TypeOK, Lefts
<1> QED BY <1>1, <1>2, <1>3, <1>4

\* What begin_game of the running round makes of the session.
LEMMA BeginGame ==
    ASSUME TypeOK, CrashInv, NEW b \in Badges, NEW q \in Questions,
           NEW s, s = Begun(memory[b], game, Deadline(q))
    PROVE  /\ s \in Sessions /\ s.game = game
           /\ Remembers(s, crashed[b])
           /\ ~IsAbandoned(b, game, q) => q \notin s.abandoned
<1> DEFINE d == Deadline(q)
<1>1. d \in Nat /\ s = Begun(memory[b], game, d)
  BY DeadlineType
<1> HIDE DEF d
<1>2. /\ memory[b] \in Sessions /\ game \in Nat /\ memory[b].game <= game
      /\ crashed[b] \in Lefts /\ Remembers(memory[b], crashed[b])
  BY CrashFacts
<1>3. /\ s \in Sessions /\ s.game = game
      /\ memory[b].game = game => s.abandoned = memory[b].abandoned
      /\ memory[b].game # game => s.abandoned = {}
  BY <1>1, <1>2, BegunEffect
<1>4. Remembers(s, crashed[b])
  BY <1>1, <1>2, BegunRemembers
<1>5. ~IsAbandoned(b, game, q) => q \notin s.abandoned
  BY <1>3 DEF IsAbandoned
<1> QED BY <1>3, <1>4, <1>5

\* What abandon makes of it while the question is on screen.
LEMMA AbandonQuestion ==
    ASSUME TypeOK, CrashInv, NEW b \in Badges, badges[b].phase = "live",
           NEW s, s = Abandoned(memory[b], badges[b].game, badges[b].question)
    PROVE  /\ s \in Sessions /\ s.game = memory[b].game /\ s # memory[b]
           /\ Remembers(s, crashed[b])
           /\ Remembers(s, crashed[b] \cup {<<badges[b].game, badges[b].question>>})
<1> DEFINE g == badges[b].game
           q == badges[b].question
<1>1. /\ memory[b] \in Sessions /\ g \in Nat /\ q \in Questions
      /\ crashed[b] \in Lefts /\ Remembers(memory[b], crashed[b])
  BY CrashFacts
<1>2. memory[b].game = g /\ q \notin memory[b].abandoned
  BY CrashFacts DEF Shows
<1> HIDE DEF g, q
<1>3. s = Abandoned(memory[b], g, q)
  BY DEF g, q
<1>4. s \in Sessions /\ s.game = memory[b].game /\ s.abandoned = memory[b].abandoned \cup {q}
  BY <1>1, <1>2, <1>3, AbandonedEffect
<1>5. Remembers(s, crashed[b]) /\ Remembers(s, crashed[b] \cup {<<g, q>>})
  BY <1>1, <1>2, <1>3, AbandonedRemembers
<1>6. s # memory[b]
  BY <1>2, <1>4
<1> QED BY <1>4, <1>5, <1>6 DEF g, q

LEMMA GamesBounded ==
    ASSUME TypeOK, CrashInv, NEW b \in Badges, NEW s \in Sessions, game' = game,
           s.game = game \/ s.game = memory[b].game,
           memory'[b] = s \/ memory'[b] = memory[b],
           flash'[b] = s \/ flash'[b] = flash[b]
    PROVE  memory'[b].game <= game' /\ flash'[b].game <= game'
<1>1. memory[b].game <= game /\ flash[b].game <= game /\ game \in Nat
  BY CrashFacts
<1>2. s.game <= game
  BY <1>1
<1> QED BY <1>1, <1>2

LEMMA CrashStep ==
    ASSUME TypeOK, CrashInv, [Next]_vars
    PROVE  CrashInv'
<1>1. game \in Nat
  BY DEF TypeOK
<1>2. ASSUME NEW b \in Badges, NEW q \in Questions, Refuse(b, q)
      PROVE  CrashInv'
  <2>1. Attempt(b, q, "refusing") /\ UNCHANGED <<memory, flash, game, crashed>>
    BY <1>2 DEF Refuse, sessionVars, historyVars
  <2>2. badges'[b].phase = "refusing" /\ \A c \in Badges \ {b} : badges'[c] = badges[c]
    <3>1. "refusing" \in Phases
      BY DEF Phases
    <3> QED BY <2>1, <3>1, AttemptFields
  <2>3. Shows(memory'[b], badges'[b])
    BY <2>2, NothingShown
  <2> QED BY <1>1, <2>1, <2>2, <2>3, CrashFacts, CrashFrame
<1>3. ASSUME NEW b \in Badges, NEW q \in Questions, Accept(b, q)
      PROVE  CrashInv'
  <2> DEFINE s == Begun(memory[b], game, Deadline(q))
  <2>1. Attempt(b, q, "live") /\ Save(b, s) /\ ~IsAbandoned(b, game, q)
    BY <1>3 DEF Accept
  <2>2. UNCHANGED <<game, crashed>>
    BY <1>3 DEF Accept, historyVars
  <2>3. s \in Sessions /\ s.game = game /\ Remembers(s, crashed[b]) /\ q \notin s.abandoned
    BY <2>1, BeginGame
  <2> HIDE DEF s
  <2>4. /\ memory'[b] = s
        /\ flash'[b] = s \/ flash'[b] = flash[b]
        /\ \A c \in Badges \ {b} : memory'[c] = memory[c] /\ flash'[c] = flash[c]
    BY <2>1, <2>3, SaveEffect
  <2>5. /\ badges'[b].game = game /\ badges'[b].question = q
        /\ \A c \in Badges \ {b} : badges'[c] = badges[c]
    <3>1. "live" \in Phases
      BY DEF Phases
    <3> QED BY <2>1, <3>1, AttemptFields
  <2>6. Shows(memory'[b], badges'[b])
    BY <2>3, <2>4, <2>5 DEF Shows
  <2>7. Remembers(memory'[b], crashed'[b]) /\ Remembers(flash'[b], crashed'[b])
    BY <2>2, <2>3, <2>4, StillRemembers
  <2>8. memory'[b].game <= game' /\ flash'[b].game <= game'
    BY <2>2, <2>3, <2>4, GamesBounded
  <2> QED BY <1>1, <2>2, <2>4, <2>5, <2>6, <2>7, <2>8, CrashFrame
<1>4. ASSUME NEW b \in Badges, NEW q \in Questions, AcceptFails(b, q)
      PROVE  CrashInv'
  <2> DEFINE s == Begun(memory[b], game, Deadline(q))
  <2>1. Attempt(b, q, "failing") /\ SaveFails(b, s) /\ UNCHANGED <<game, crashed>>
    BY <1>4 DEF AcceptFails
  <2>2. s \in Sessions /\ s.game = game /\ Remembers(s, crashed[b])
    BY BeginGame
  <2> HIDE DEF s
  <2>3. /\ memory' = memory
        /\ flash'[b] = s \/ flash'[b] = flash[b]
        /\ \A c \in Badges \ {b} : flash'[c] = flash[c]
    BY <2>1, <2>2, SaveFailsEffect
  <2>4. badges'[b].phase = "failing" /\ \A c \in Badges \ {b} : badges'[c] = badges[c]
    <3>1. "failing" \in Phases
      BY DEF Phases
    <3> QED BY <2>1, <3>1, AttemptFields
  <2>5. Shows(memory'[b], badges'[b])
    BY <2>4, NothingShown
  <2>6. Remembers(memory'[b], crashed'[b]) /\ Remembers(flash'[b], crashed'[b])
    BY <2>1, <2>2, <2>3, StillRemembers
  <2>7. memory'[b].game <= game' /\ flash'[b].game <= game'
    BY <2>1, <2>2, <2>3, GamesBounded
  <2> QED BY <1>1, <2>1, <2>3, <2>4, <2>5, <2>6, <2>7, CrashFrame
<1>5. ASSUME NEW b \in Badges, Choose(b) \/ LetGo(b)
      PROVE  CrashInv'
  <2>1. /\ \E phase \in Phases : badges' = [badges EXCEPT ![b].phase = phase]
        /\ badges[b].phase = "live"
        /\ UNCHANGED <<memory, flash, game, crashed>>
    BY <1>5 DEF Choose, LetGo, Decided, Phases, sessionVars, historyVars
  <2>2. /\ badges'[b].game = badges[b].game /\ badges'[b].question = badges[b].question
        /\ \A c \in Badges \ {b} : badges'[c] = badges[c]
    BY <2>1, PhaseEffect
  <2>3. Shows(memory'[b], badges'[b])
    BY <2>1, <2>2, StillRemembers DEF Shows
  <2> QED BY <1>1, <2>1, <2>2, <2>3, CrashFacts, CrashFrame
<1>6. ASSUME NEW b \in Badges, Panic(b)
      PROVE  CrashInv'
  <2> DEFINE s == Abandoned(memory[b], badges[b].game, badges[b].question)
             left == {<<badges[b].game, badges[b].question>>}
  <2>1. /\ badges' = [badges EXCEPT ![b].phase = "blackout"] /\ Save(b, s)
        /\ badges[b].phase = "live" /\ game' = game
    BY <1>6 DEF Panic, Decided
  <2>2. crashed' = [crashed EXCEPT ![b] = crashed[b] \cup left]
    BY <1>6 DEF Panic
  <2>3. /\ s \in Sessions /\ s.game = memory[b].game /\ s # memory[b]
        /\ Remembers(s, crashed[b] \cup left)
    BY <2>1, AbandonQuestion
  <2>4. crashed \in [Badges -> Lefts]
    BY DEF TypeOK, Lefts
  <2> HIDE DEF s, left
  <2>5. /\ memory'[b] = s /\ flash'[b] = s
        /\ \A c \in Badges \ {b} : memory'[c] = memory[c] /\ flash'[c] = flash[c]
    BY <2>1, <2>3, SaveEffect
  <2>6. /\ badges'[b].phase = "blackout"
        /\ \A c \in Badges \ {b} : badges'[c] = badges[c]
    <3>1. "blackout" \in Phases
      BY DEF Phases
    <3> QED BY <2>1, <3>1, PhaseEffect
  <2>7. /\ crashed'[b] = crashed[b] \cup left
        /\ \A c \in Badges \ {b} : crashed'[c] = crashed[c]
    BY <2>2, <2>4
  <2>8. Shows(memory'[b], badges'[b])
    BY <2>6, NothingShown
  <2>9. Remembers(memory'[b], crashed'[b]) /\ Remembers(flash'[b], crashed'[b])
    BY <2>3, <2>5, <2>7
  <2>10. memory'[b].game <= game' /\ flash'[b].game <= game'
    <3>1. game' = game /\ s.game = memory[b].game
      BY <2>1, <2>3
    <3>2. memory[b].game <= game /\ game \in Nat
      BY CrashFacts
    <3> QED BY <2>5, <3>1, <3>2
  <2>11. game' \in Nat /\ game <= game'
    BY <1>1, <2>1
  <2>12. \A c \in Badges \ {b} :
            /\ memory'[c] = memory[c] /\ flash'[c] = flash[c]
            /\ badges'[c] = badges[c] /\ crashed'[c] = crashed[c]
    BY <2>5, <2>6, <2>7
  <2> QED BY <2>8, <2>9, <2>10, <2>11, <2>12, CrashFrame
<1>7. ASSUME NEW b \in Badges, PanicFails(b)
      PROVE  CrashInv'
  <2> DEFINE s == Abandoned(memory[b], badges[b].game, badges[b].question)
  <2>1. /\ badges' = [badges EXCEPT ![b].phase = "failing"] /\ SaveFails(b, s)
        /\ badges[b].phase = "live" /\ UNCHANGED <<game, crashed>>
    BY <1>7 DEF PanicFails, Decided, historyVars
  <2>2. s \in Sessions /\ s.game = memory[b].game /\ Remembers(s, crashed[b])
    BY <2>1, AbandonQuestion
  <2> HIDE DEF s
  <2>3. /\ memory' = memory
        /\ flash'[b] = s \/ flash'[b] = flash[b]
        /\ \A c \in Badges \ {b} : flash'[c] = flash[c]
    BY <2>1, <2>2, SaveFailsEffect
  <2>4. badges'[b].phase = "failing" /\ \A c \in Badges \ {b} : badges'[c] = badges[c]
    <3>1. "failing" \in Phases
      BY DEF Phases
    <3> QED BY <2>1, <3>1, PhaseEffect
  <2>5. Shows(memory'[b], badges'[b])
    BY <2>4, NothingShown
  <2>6. Remembers(memory'[b], crashed'[b]) /\ Remembers(flash'[b], crashed'[b])
    BY <2>1, <2>2, <2>3, StillRemembers
  <2>7. memory'[b].game <= game' /\ flash'[b].game <= game'
    BY <2>1, <2>2, <2>3, GamesBounded
  <2> QED BY <1>1, <2>1, <2>3, <2>4, <2>5, <2>6, <2>7, CrashFrame
<1>8. ASSUME NEW b \in Badges, Complete(b) \/ Fail(b) \/ ReportLost(b) \/ Recover(b)
      PROVE  CrashInv'
  <2>1. Idle(b) /\ UNCHANGED <<memory, flash, game, crashed>>
    BY <1>8 DEF Complete, Fail, ReportLost, Recover, sessionVars, historyVars
  <2>2. badges'[b].phase = "idle" /\ \A c \in Badges \ {b} : badges'[c] = badges[c]
    BY <2>1, IdleEffect
  <2>3. Shows(memory'[b], badges'[b])
    BY <2>2, NothingShown
  <2> QED BY <1>1, <2>1, <2>2, <2>3, CrashFacts, CrashFrame
<1>9. ASSUME NEW b \in Badges, Reboot(b)
      PROVE  CrashInv'
  <2>1. Load(b) /\ Idle(b) /\ UNCHANGED <<game, crashed>>
    BY <1>9 DEF Reboot
  <2>2. badges'[b].phase = "idle" /\ \A c \in Badges \ {b} : badges'[c] = badges[c]
    BY <2>1, IdleEffect
  <2>3. /\ memory'[b] = flash[b] /\ flash' = flash
        /\ \A c \in Badges \ {b} : memory'[c] = memory[c]
    BY <2>1, LoadEffect
  <2>4. Shows(memory'[b], badges'[b])
    BY <2>2, NothingShown
  <2> QED BY <1>1, <2>1, <2>2, <2>3, <2>4, CrashFacts, CrashFrame
<1>10. ASSUME UNCHANGED <<memory, flash, badges, crashed>>, game' \in Nat, game <= game'
       PROVE  CrashInv'
  <2> SUFFICES ASSUME NEW b \in Badges PROVE CrashInv'
    BY DEF CrashInv
  <2>1. memory'[b].game <= game' /\ flash'[b].game <= game'
    BY <1>10, CrashFacts
  <2> QED BY <1>10, <2>1, CrashFacts, CrashFrame
<1>11. CASE \/ \E q \in Questions : OfferLost(q) \/ Expire(q)
            \/ \E s \in signals : Deliver(s) \/ GiveUpOn(s)
            \/ UNCHANGED vars
  <2>1. UNCHANGED <<memory, flash, game, badges, crashed>>
    BY <1>11 DEF OfferLost, Expire, Deliver, GiveUpOn, sessionVars, historyVars, vars
  <2> QED BY <1>1, <1>10, <2>1
<1>12. CASE NewGame
  <2>1. game' = game + 1 /\ UNCHANGED <<memory, flash, badges, crashed>>
    BY <1>12 DEF NewGame, sessionVars
  <2> QED BY <1>1, <1>10, <2>1
<1> QED
  BY <1>2, <1>3, <1>4, <1>5, <1>6, <1>7, <1>8, <1>9, <1>11, <1>12, Steps

\* A question a badge has crashed out of is never put on it again in that round,
\* for every number of badges, questions and rounds, crashes and reboots, and
\* whatever writes to its flash fail.
THEOREM CrashedQuestionsStayAway == Spec => []CrashedStaysAway
<1>1. Init => TypeOK /\ CrashInv
  BY TypesInitially, CrashInitially
<1>2. TypeOK /\ CrashInv /\ [Next]_vars => (TypeOK /\ CrashInv)'
  BY TypesStep, CrashStep
<1>3. TypeOK /\ CrashInv => CrashedStaysAway
  BY CrashImplies
<1> QED BY <1>1, <1>2, <1>3, PTL DEF Spec
-----------------------------------------------------------------------------
(***************************************************************************)
(* Every handoff is an attempt of its own.                                 *)
(***************************************************************************)

\* The badge_started Signals on their way.
Reports == {s \in signals : s.kind = "started"}

\* An attempt on record has been made.
SeenInv == \A x \in attemptsSeen : x[2] <= activities[x[1]].attempt

\* A report on its way is of an attempt that was made and is not on record yet,
\* and no other report is of the same attempt.
ReportInv ==
    \A s \in Reports :
        /\ <<s.event.question, s.event.attempt>> \notin attemptsSeen
        /\ s.event.attempt <= activities[s.event.question].attempt

OneReport ==
    \A s, t \in Reports :
        s.event.question = t.event.question /\ s.event.attempt = t.event.attempt => s = t

CountInv ==
    /\ IsFiniteSet(attemptsSeen) /\ IsFiniteSet(DOMAIN assignments)
    /\ HandoffsAreAttempts

HandoffInv == SeenInv /\ ReportInv /\ OneReport /\ CountInv

LEMMA HandoffInitially == Init => HandoffInv
<1> SUFFICES ASSUME Init PROVE HandoffInv
  OBVIOUS
<1>1. signals = {} /\ attemptsSeen = {} /\ DOMAIN assignments = {} /\ reassignments = 0
  BY DEF Init, RosterInit
<1>2. CountInv
  BY <1>1, FS_EmptySet DEF CountInv, HandoffsAreAttempts
<1>3. SeenInv /\ ReportInv /\ OneReport
  BY <1>1 DEF SeenInv, ReportInv, OneReport, Reports
<1> QED BY <1>2, <1>3 DEF HandoffInv

\* Attempts of a question only become more.
Grown == \A q \in Questions : activities[q].attempt <= activities'[q].attempt

LEMMA ActivityFields ==
    ASSUME TypeOK, NEW q \in Questions
    PROVE  activities[q].attempt \in Nat
  BY DEF TypeOK

LEMMA GrownWhenUnchanged ==
    ASSUME TypeOK, activities' = activities
    PROVE  Grown
<1> SUFFICES ASSUME NEW q \in Questions
             PROVE  activities[q].attempt <= activities'[q].attempt
  BY DEF Grown
<1>1. activities[q].attempt \in Nat
  BY ActivityFields
<1> QED BY <1>1

LEMMA GrownByState ==
    ASSUME TypeOK, NEW q \in Questions, NEW s \in {"ready", "closed"},
           activities' = [activities EXCEPT ![q].state = s]
    PROVE  Grown
<1> SUFFICES ASSUME NEW p \in Questions
             PROVE  activities[p].attempt <= activities'[p].attempt
  BY DEF Grown
<1>1. activities[p].attempt \in Nat
  BY ActivityFields
<1>2. activities'[p].attempt = activities[p].attempt
  BY StateEffect
<1> QED BY <1>1, <1>2

LEMMA BegunAttempt ==
    ASSUME TypeOK, NEW q \in Questions, NEW h \in Badges \cup {Nobody}, Begins(q, h)
    PROVE  /\ Grown
           /\ activities'[q].attempt = activities[q].attempt + 1
<1>1. activities'[q].attempt = activities[q].attempt + 1
  <2> DEFINE n == activities[q].attempt + 1
  <2>1. activities'[q] = [state |-> "running", attempt |-> n, holder |-> h]
    BY BeginsEffect
  <2> HIDE DEF n
  <2>2. activities'[q].attempt = n
    BY <2>1
  <2> QED BY <2>2 DEF n
<1>2. \A p \in Questions \ {q} : activities'[p] = activities[p]
  BY BeginsEffect
<1> SUFFICES ASSUME NEW p \in Questions
             PROVE  activities[p].attempt <= activities'[p].attempt
  BY <1>1 DEF Grown
<1>3. activities[p].attempt \in Nat
  BY ActivityFields
<1>4. CASE p = q
  BY <1>1, <1>3, <1>4
<1>5. ASSUME p # q PROVE activities[p].attempt <= activities'[p].attempt
  <2>1. activities'[p].attempt = activities[p].attempt
    BY <1>2, <1>5
  <2> QED BY <1>3, <2>1
<1> QED BY <1>4, <1>5

LEMMA ReportFields ==
    ASSUME TypeOK, NEW s \in Reports
    PROVE  /\ s \in SignalTypes /\ s \in signals /\ s.kind = "started"
           /\ s.event \in Events
           /\ s.event.question \in Questions /\ s.event.attempt \in Nat
<1>1. s \in signals /\ s.kind = "started"
  BY DEF Reports
<1>2. s \in SignalTypes
  BY <1>1, TypesByParts DEF TypeParts
<1> QED BY <1>1, <1>2, SignalFields

\* Nothing is recorded and nothing new is on its way.
LEMMA HandoffFrame ==
    ASSUME TypeOK, TypeOK', HandoffInv, Grown, Reports' \subseteq Reports,
           UNCHANGED <<attemptsSeen, assignments, reassignments>>
    PROVE  HandoffInv'
<1>1. SeenInv'
  <2> SUFFICES ASSUME NEW x \in attemptsSeen
               PROVE  x[2] <= activities'[x[1]].attempt
    BY DEF SeenInv
  <2>1. x[1] \in Questions /\ x[2] \in Nat
    BY DEF TypeOK
  <2>2. x[2] <= activities[x[1]].attempt
    BY DEF HandoffInv, SeenInv
  <2>3. activities[x[1]].attempt <= activities'[x[1]].attempt
    BY <2>1 DEF Grown
  <2>4. activities[x[1]].attempt \in Nat /\ activities'[x[1]].attempt \in Nat
    BY <2>1 DEF TypeOK
  <2> QED BY <2>1, <2>2, <2>3, <2>4
<1>2. ReportInv'
  <2> SUFFICES ASSUME NEW s \in Reports
               PROVE  /\ <<s.event.question, s.event.attempt>> \notin attemptsSeen
                      /\ s.event.attempt <= activities'[s.event.question].attempt
    BY DEF ReportInv
  <2> DEFINE q == s.event.question
             n == s.event.attempt
  <2>1. q \in Questions /\ n \in Nat
    BY ReportFields
  <2>2. <<q, n>> \notin attemptsSeen /\ n <= activities[q].attempt
    BY DEF HandoffInv, ReportInv
  <2> HIDE DEF q, n
  <2>3. activities[q].attempt <= activities'[q].attempt
    BY <2>1 DEF Grown
  <2>4. activities[q].attempt \in Nat /\ activities'[q].attempt \in Nat
    BY <2>1 DEF TypeOK
  <2>5. n <= activities'[q].attempt
    BY <2>1, <2>2, <2>3, <2>4
  <2> QED BY <2>2, <2>5 DEF q, n
<1>3. OneReport'
  BY DEF HandoffInv, OneReport
<1>4. CountInv'
  BY DEF HandoffInv, CountInv, HandoffsAreAttempts
<1> QED BY <1>1, <1>2, <1>3, <1>4 DEF HandoffInv

\* A new attempt is reported.
LEMMA HandoffReported ==
    ASSUME TypeOK, TypeOK', HandoffInv, NEW b \in Badges, NEW q \in Questions, Begins(q, b),
           signals' = signals \cup {Started(b, q)},
           UNCHANGED <<attemptsSeen, assignments, reassignments>>
    PROVE  HandoffInv'
<1> DEFINE r == Started(b, q)
           n == activities[q].attempt
<1>1. Grown /\ activities'[q].attempt = n + 1
  BY BegunAttempt
<1>2. r.event.question = q /\ r.event.attempt = n + 1 /\ r.kind = "started"
  BY StartedFields
<1>3. n \in Nat
  BY ActivityFields
<1> HIDE DEF r, n
<1>4. Reports' = Reports \cup {r}
  BY <1>2 DEF Reports, r
<1>5. <<q, n + 1>> \notin attemptsSeen
  <2> SUFFICES ASSUME <<q, n + 1>> \in attemptsSeen PROVE FALSE
    OBVIOUS
  <2>1. n + 1 <= activities[q].attempt
    BY DEF HandoffInv, SeenInv
  <2> QED BY <1>3, <2>1 DEF n
<1>6. \A s \in Reports : ~(s.event.question = q /\ s.event.attempt = n + 1)
  <2> SUFFICES ASSUME NEW s \in Reports, s.event.question = q, s.event.attempt = n + 1
               PROVE  FALSE
    OBVIOUS
  <2>1. s.event.attempt <= activities[q].attempt
    BY DEF HandoffInv, ReportInv
  <2> QED BY <1>3, <2>1 DEF n
<1>7. SeenInv'
  <2> SUFFICES ASSUME NEW x \in attemptsSeen
               PROVE  x[2] <= activities'[x[1]].attempt
    BY DEF SeenInv
  <2>1. x[1] \in Questions /\ x[2] \in Nat
    BY DEF TypeOK
  <2>2. x[2] <= activities[x[1]].attempt
    BY DEF HandoffInv, SeenInv
  <2>3. activities[x[1]].attempt <= activities'[x[1]].attempt
    BY <1>1, <2>1 DEF Grown
  <2>4. activities[x[1]].attempt \in Nat /\ activities'[x[1]].attempt \in Nat
    BY <2>1 DEF TypeOK
  <2> QED BY <2>1, <2>2, <2>3, <2>4
<1>8. ReportInv'
  <2> SUFFICES ASSUME NEW s \in Reports \cup {r}
               PROVE  /\ <<s.event.question, s.event.attempt>> \notin attemptsSeen
                      /\ s.event.attempt <= activities'[s.event.question].attempt
    BY <1>4 DEF ReportInv
  <2>1. ASSUME s \in Reports
        PROVE  /\ <<s.event.question, s.event.attempt>> \notin attemptsSeen
               /\ s.event.attempt <= activities'[s.event.question].attempt
    <3> DEFINE p == s.event.question
               m == s.event.attempt
    <3>1. p \in Questions /\ m \in Nat
      BY <2>1, ReportFields
    <3>2. <<p, m>> \notin attemptsSeen /\ m <= activities[p].attempt
      BY <2>1 DEF HandoffInv, ReportInv
    <3> HIDE DEF p, m
    <3>3. activities[p].attempt <= activities'[p].attempt
      BY <1>1, <3>1 DEF Grown
    <3>4. activities[p].attempt \in Nat /\ activities'[p].attempt \in Nat
      BY <3>1 DEF TypeOK
    <3>5. m <= activities'[p].attempt
      BY <3>1, <3>2, <3>3, <3>4
    <3> QED BY <3>2, <3>5 DEF p, m
  <2>2. ASSUME s = r
        PROVE  /\ <<s.event.question, s.event.attempt>> \notin attemptsSeen
               /\ s.event.attempt <= activities'[s.event.question].attempt
    <3>1. s.event.question = q /\ s.event.attempt = n + 1
      BY <1>2, <2>2
    <3> QED BY <1>1, <1>3, <1>5, <3>1
  <2> QED BY <2>1, <2>2
<1>9. OneReport'
  <2> SUFFICES ASSUME NEW s \in Reports \cup {r}, NEW t \in Reports \cup {r},
                      s.event.question = t.event.question,
                      s.event.attempt = t.event.attempt
               PROVE  s = t
    BY <1>4 DEF OneReport
  <2>1. CASE s \in Reports /\ t \in Reports
    BY <2>1 DEF HandoffInv, OneReport
  <2>2. CASE s = r /\ t = r
    BY <2>2
  <2>3. ~(s = r /\ t \in Reports) /\ ~(t = r /\ s \in Reports)
    BY <1>2, <1>6
  <2> QED BY <2>1, <2>2, <2>3
<1>10. CountInv'
  BY DEF HandoffInv, CountInv, HandoffsAreAttempts
<1> QED BY <1>7, <1>8, <1>9, <1>10 DEF HandoffInv

\* Its sender gives up on Signals that stay on their way.
LEMMA HandoffFaded ==
    ASSUME TypeOK, TypeOK', HandoffInv, NEW R \in SUBSET signals,
           signals' = (signals \ R) \cup {[s EXCEPT !.awaited = FALSE] : s \in R},
           UNCHANGED <<activities, attemptsSeen, assignments, reassignments>>
    PROVE  HandoffInv'
<1> DEFINE Faded(s) == [s EXCEPT !.awaited = FALSE]
<1>1. \A s \in R : Faded(s).kind = s.kind /\ Faded(s).event = s.event
  <2> SUFFICES ASSUME NEW s \in R PROVE Faded(s).kind = s.kind /\ Faded(s).event = s.event
    OBVIOUS
  <2>1. s \in SignalTypes
    BY TypesByParts DEF TypeParts
  <2> QED BY <2>1, SignalFields
<1>2. signals' = (signals \ R) \cup {Faded(s) : s \in R}
  OBVIOUS
<1> HIDE DEF Faded
<1>3. \A x \in Reports' : \/ x \in Reports /\ x \notin R
                          \/ \E s \in R : s \in Reports /\ x = Faded(s)
  BY <1>1, <1>2 DEF Reports
<1>4. \A x \in Reports' : \E s \in Reports :
         x.event = s.event /\ ((x = s /\ s \notin R) \/ (x = Faded(s) /\ s \in R))
  BY <1>1, <1>3
<1>5. ReportInv'
  BY <1>4 DEF HandoffInv, ReportInv
<1>6. OneReport'
  <2> SUFFICES ASSUME NEW x \in Reports', NEW y \in Reports',
                      x.event.question = y.event.question,
                      x.event.attempt = y.event.attempt
               PROVE  x = y
    BY DEF OneReport
  <2>1. PICK s \in Reports :
           x.event = s.event /\ ((x = s /\ s \notin R) \/ (x = Faded(s) /\ s \in R))
    BY <1>4
  <2>2. PICK t \in Reports :
           y.event = t.event /\ ((y = t /\ t \notin R) \/ (y = Faded(t) /\ t \in R))
    BY <1>4
  <2>3. s = t
    BY <2>1, <2>2 DEF HandoffInv, OneReport
  <2> QED BY <2>1, <2>2, <2>3
<1>7. SeenInv' /\ CountInv'
  BY DEF HandoffInv, SeenInv, CountInv, HandoffsAreAttempts
<1> QED BY <1>5, <1>6, <1>7 DEF HandoffInv

\* A report is put on record: one attempt more, and one question or one handoff
\* more at the most.
LEMMA HandoffRecorded ==
    ASSUME TypeOK, TypeOK', HandoffInv, NEW s \in Reports, BadgeStarted(s.event),
           signals' = signals \ {s}, activities' = activities
    PROVE  HandoffInv'
<1> DEFINE q == s.event.question
           n == s.event.attempt
<1>1. s.event \in Events /\ q \in Questions /\ n \in Nat /\ RosterTypes
  BY ReportFields, TypesByParts DEF TypeParts
<1>2. <<q, n>> \notin attemptsSeen /\ n <= activities[q].attempt
  BY DEF HandoffInv, ReportInv
<1>3. /\ DOMAIN assignments' = DOMAIN assignments \cup {q}
      /\ attemptsSeen' = attemptsSeen \cup {<<q, n>>}
      /\ reassignments' = reassignments \/ (reassignments' = reassignments + 1
                                            /\ q \in DOMAIN assignments)
  BY <1>1, StartedHandlerEffect
<1>4. Reports' = Reports \ {s}
  BY DEF Reports
<1>5. \A t \in Reports \ {s} : ~(t.event.question = q /\ t.event.attempt = n)
  BY DEF HandoffInv, OneReport
<1> HIDE DEF q, n
<1>6. SeenInv'
  BY <1>2, <1>3 DEF HandoffInv, SeenInv
<1>7. ReportInv'
  <2> SUFFICES ASSUME NEW t \in Reports \ {s}
               PROVE  /\ <<t.event.question, t.event.attempt>> \notin attemptsSeen'
                      /\ t.event.attempt <= activities[t.event.question].attempt
    BY <1>4 DEF ReportInv
  <2>1. /\ <<t.event.question, t.event.attempt>> \notin attemptsSeen
        /\ t.event.attempt <= activities[t.event.question].attempt
    BY DEF HandoffInv, ReportInv
  <2>2. <<t.event.question, t.event.attempt>> # <<q, n>>
    BY <1>5
  <2> QED BY <1>3, <2>1, <2>2
<1>8. OneReport'
  BY <1>4 DEF HandoffInv, OneReport
<1>9. CountInv'
  <2>1. IsFiniteSet(attemptsSeen) /\ IsFiniteSet(DOMAIN assignments)
    BY DEF HandoffInv, CountInv
  <2>2. /\ IsFiniteSet(attemptsSeen') /\ IsFiniteSet(DOMAIN assignments')
        /\ Cardinality(attemptsSeen') = Cardinality(attemptsSeen) + 1
    BY <1>2, <1>3, <2>1, FS_AddElement
  <2>3. \/ Cardinality(DOMAIN assignments') = Cardinality(DOMAIN assignments)
        \/ /\ Cardinality(DOMAIN assignments') = Cardinality(DOMAIN assignments) + 1
           /\ q \notin DOMAIN assignments
    BY <1>3, <2>1, FS_AddElement
  <2>4. /\ Cardinality(attemptsSeen) \in Nat /\ Cardinality(DOMAIN assignments) \in Nat
        /\ reassignments \in Nat
    BY <1>1, <2>1, FS_CardinalityType DEF RosterTypes
  <2>5. reassignments + Cardinality(DOMAIN assignments) <= Cardinality(attemptsSeen)
    BY DEF HandoffInv, CountInv, HandoffsAreAttempts
  <2>6. reassignments' + Cardinality(DOMAIN assignments') <= Cardinality(attemptsSeen')
    BY <1>3, <2>2, <2>3, <2>4, <2>5
  <2> QED BY <2>2, <2>6 DEF CountInv, HandoffsAreAttempts
<1> QED BY <1>6, <1>7, <1>8, <1>9 DEF HandoffInv

LEMMA HandoffStep ==
    ASSUME TypeOK, TypeOK', HandoffInv, [Next]_vars
    PROVE  HandoffInv'
<1>1. ASSUME NEW b \in Badges, NEW q \in Questions, Refuse(b, q) \/ Accept(b, q)
      PROVE  HandoffInv'
  <2>1. /\ Begins(q, b) /\ signals' = signals \cup {Started(b, q)}
        /\ UNCHANGED <<attemptsSeen, assignments, reassignments>>
    BY <1>1 DEF Refuse, Accept, Offered, rosterVars
  <2> QED BY <2>1, HandoffReported
<1>2. ASSUME NEW q \in Questions, OfferLost(q) \/ \E b \in Badges : AcceptFails(b, q)
      PROVE  HandoffInv'
  <2>1. /\ \E h \in Badges \cup {Nobody} : Begins(q, h)
        /\ UNCHANGED <<signals, attemptsSeen, assignments, reassignments>>
    BY <1>2 DEF AcceptFails, OfferLost, Offered, rosterVars
  <2>2. Grown
    BY <2>1, BegunAttempt
  <2>3. Reports' = Reports
    BY <2>1 DEF Reports
  <2> QED BY <2>1, <2>2, <2>3, HandoffFrame
<1>3. ASSUME NEW b \in Badges,
             Choose(b) \/ LetGo(b) \/ PanicFails(b) \/ ReportLost(b) \/ Recover(b)
      PROVE  HandoffInv'
  <2>1. UNCHANGED <<activities, signals, attemptsSeen, assignments, reassignments>>
    BY <1>3 DEF Choose, LetGo, PanicFails, ReportLost, Recover, rosterVars
  <2>2. Reports' = Reports
    BY <2>1 DEF Reports
  <2> QED BY <2>1, <2>2, GrownWhenUnchanged, HandoffFrame
<1>4. ASSUME NEW b \in Badges, Panic(b)
      PROVE  HandoffInv'
  <2>1. /\ signals' = signals \cup Signal(b, "panic")
        /\ UNCHANGED <<activities, attemptsSeen, assignments, reassignments>>
    BY <1>4 DEF Panic, rosterVars
  <2>2. \A s \in Signal(b, "panic") : s.kind = "panic"
    BY PanicSignal
  <2>3. Reports' = Reports
    BY <2>1, <2>2 DEF Reports
  <2> QED BY <2>1, <2>3, GrownWhenUnchanged, HandoffFrame
<1>5. ASSUME NEW b \in Badges, Complete(b)
      PROVE  HandoffInv'
  <2> DEFINE q == badges[b].question
  <2>1. q \in Questions /\ RosterTypes
    BY TypesByParts DEF TypeParts, BadgeTypes
  <2>2. /\ \/ activities' = activities
           \/ activities' = [activities EXCEPT ![q].state = "closed"]
        /\ UNCHANGED signals
    BY <1>5 DEF Complete
  <2>3. UNCHANGED <<attemptsSeen, assignments, reassignments>>
    BY <1>5 DEF Complete, ScoreAnswer, signalVars, rosterVars
  <2>4. Grown
    BY <2>1, <2>2, GrownWhenUnchanged, GrownByState
  <2>5. Reports' = Reports
    BY <2>2 DEF Reports
  <2> QED BY <2>3, <2>4, <2>5, HandoffFrame
<1>6. ASSUME NEW b \in Badges, Fail(b)
      PROVE  HandoffInv'
  <2> DEFINE q == badges[b].question
  <2>1. q \in Questions
    BY TypesByParts DEF TypeParts, BadgeTypes
  <2>2. /\ \/ activities' = activities
           \/ activities' = [activities EXCEPT ![q].state = "ready"]
        /\ UNCHANGED <<signals, attemptsSeen, assignments, reassignments>>
    BY <1>6 DEF Fail, rosterVars
  <2>3. Grown
    BY <2>1, <2>2, GrownWhenUnchanged, GrownByState
  <2>4. Reports' = Reports
    BY <2>2 DEF Reports
  <2> QED BY <2>2, <2>3, <2>4, HandoffFrame
<1>7. ASSUME NEW q \in Questions, Expire(q)
      PROVE  HandoffInv'
  <2>1. /\ activities' = [activities EXCEPT ![q].state = "ready"]
        /\ UNCHANGED <<signals, attemptsSeen, assignments, reassignments>>
    BY <1>7 DEF Expire, rosterVars
  <2>2. Grown
    BY <2>1, GrownByState
  <2>3. Reports' = Reports
    BY <2>1 DEF Reports
  <2> QED BY <2>1, <2>2, <2>3, HandoffFrame
<1>8. ASSUME NEW s \in signals, Deliver(s)
      PROVE  HandoffInv'
  <2>1. s \in SignalTypes /\ RosterTypes
    BY TypesByParts DEF TypeParts
  <2>2. signals' = signals \ {s} /\ activities' = activities
    BY <1>8 DEF Deliver
  <2>3. CASE s.kind = "started"
    <3>1. s \in Reports /\ BadgeStarted(s.event)
      BY <1>8, <2>3 DEF Deliver, Reports
    <3> QED BY <2>2, <3>1, HandoffRecorded
  <2>4. CASE s.kind # "started"
    <3>1. s.event \in Events
      BY <2>1, SignalFields
    <3>2. PanicEvent(s.event)
      BY <1>8, <2>4 DEF Deliver
    <3>3. UNCHANGED <<attemptsSeen, assignments, reassignments>>
      BY <2>1, <3>1, <3>2, PanicHandlerEffect
    <3>4. Reports' \subseteq Reports
      BY <2>2 DEF Reports
    <3> QED BY <2>2, <3>3, <3>4, GrownWhenUnchanged, HandoffFrame
  <2> QED BY <2>3, <2>4
<1>9. ASSUME NEW R \in SUBSET signals,
             \/ signals' = (signals \ R) \cup {[s EXCEPT !.awaited = FALSE] : s \in R}
             \/ signals' = signals \ R,
             UNCHANGED <<activities, attemptsSeen, assignments, reassignments>>
      PROVE  HandoffInv'
  <2>1. CASE signals' = (signals \ R) \cup {[s EXCEPT !.awaited = FALSE] : s \in R}
    BY <1>9, <2>1, HandoffFaded
  <2>2. CASE signals' = signals \ R
    <3>1. Reports' \subseteq Reports
      BY <2>2 DEF Reports
    <3> QED BY <1>9, <3>1, GrownWhenUnchanged, HandoffFrame
  <2> QED BY <1>9, <2>1, <2>2
<1>10. ASSUME NEW s \in signals, GiveUpOn(s)
       PROVE  HandoffInv'
  <2>1. UNCHANGED <<activities, attemptsSeen, assignments, reassignments>>
    BY <1>10 DEF GiveUpOn, rosterVars
  <2>2. \/ signals' = (signals \ {s}) \cup {[s EXCEPT !.awaited = FALSE]}
        \/ signals' = signals \ {s}
    BY <1>10 DEF GiveUpOn
  <2>3. {[t EXCEPT !.awaited = FALSE] : t \in {s}} = {[s EXCEPT !.awaited = FALSE]}
    OBVIOUS
  <2>4. \/ signals' = (signals \ {s}) \cup {[t EXCEPT !.awaited = FALSE] : t \in {s}}
        \/ signals' = signals \ {s}
    BY Zenon, <2>2, <2>3
  <2> QED BY <1>9, <2>1, <2>4
<1>11. ASSUME NEW b \in Badges, Reboot(b)
       PROVE  HandoffInv'
  <2>1. UNCHANGED <<activities, attemptsSeen, assignments, reassignments>>
    BY <1>11 DEF Reboot, rosterVars
  <2>2. Own(b) \in SUBSET signals
    BY DEF Own
  <2>3. \/ signals' = (signals \ Own(b)) \cup {[s EXCEPT !.awaited = FALSE] : s \in Own(b)}
        \/ signals' = signals \ Own(b)
    BY <1>11 DEF Reboot
  <2> QED BY <1>9, <2>1, <2>2, <2>3
<1>12. CASE NewGame
  <2>1. signals' = {} /\ attemptsSeen' = {} /\ DOMAIN assignments' = {} /\ reassignments' = 0
    BY <1>12 DEF NewGame
  <2>2. CountInv'
    BY <2>1, FS_EmptySet DEF CountInv, HandoffsAreAttempts
  <2>3. SeenInv' /\ ReportInv' /\ OneReport'
    BY <2>1 DEF SeenInv, ReportInv, OneReport, Reports
  <2> QED BY <2>2, <2>3 DEF HandoffInv
<1>13. CASE UNCHANGED vars
  <2>1. UNCHANGED <<activities, signals, attemptsSeen, assignments, reassignments>>
    BY <1>13 DEF vars, rosterVars
  <2>2. Reports' = Reports
    BY <2>1 DEF Reports
  <2> QED BY <2>1, <2>2, GrownWhenUnchanged, HandoffFrame
<1> QED
  BY <1>1, <1>2, <1>3, <1>4, <1>5, <1>6, <1>7, <1>8, <1>10, <1>11, <1>12, <1>13, Steps

\* Every handoff on the board is an attempt of its own after the question's first,
\* for every number of badges, questions and rounds, whatever Signals are lost or
\* late and wherever a badge reboots.
THEOREM HandoffsAreCountedOnce == Spec => []HandoffsAreAttempts
<1>1. Init => TypeOK /\ HandoffInv
  BY TypesInitially, HandoffInitially
<1>2. TypeOK /\ HandoffInv /\ [Next]_vars => (TypeOK /\ HandoffInv)'
  BY TypesStep, HandoffStep
<1>3. HandoffInv => HandoffsAreAttempts
  BY DEF HandoffInv, CountInv
<1> QED BY <1>1, <1>2, <1>3, PTL DEF Spec
-----------------------------------------------------------------------------
(***************************************************************************)
(* The attempts on record when no Signal outlives the call that sends it.  *)
(***************************************************************************)

\* The attempt a report is about is still the badge's and the server's.
Flying(event, badge, activity, g) ==
    /\ badge.phase \in {"refusing", "live"} /\ badge.game = g
    /\ badge.question = event.question /\ badge.attempt = event.attempt
    /\ activity.state = "running" /\ activity.holder = event.badge
    /\ activity.attempt = event.attempt

FlyingInv ==
    /\ \A s \in signals : s.awaited
    /\ \A s \in Reports :
          Flying(s.event, badges[s.event.badge], activities[s.event.question], game)

\* Attempts that are on record, on their way there, or known to be missing.
Accounts == attemptsSeen \cup unreported \cup Missing(signals)

AccountInv ==
    \A q \in Questions : \A n \in 1..activities[q].attempt : <<q, n>> \in Accounts

AlignInv == FlyingInv /\ AccountInv /\ NewestOnRecord

LEMMA AlignInitially == Init => AlignInv
<1> SUFFICES ASSUME Init PROVE AlignInv
  OBVIOUS
<1>1. signals = {} /\ DOMAIN assignments = {}
  BY DEF Init, RosterInit
<1>2. FlyingInv /\ NewestOnRecord
  BY <1>1 DEF FlyingInv, NewestOnRecord, Reports
<1>3. \A q \in Questions : activities[q].attempt = 0
  BY DEF Init, NotStarted
<1>4. AccountInv
  BY <1>3 DEF AccountInv
<1> QED BY <1>2, <1>4 DEF AlignInv

LEMMA AlignImplies == TypeOK /\ AlignInv => AttemptsAligned
<1> SUFFICES ASSUME TypeOK, AlignInv, NEW q \in Questions, NEW n \in 1..activities[q].attempt,
                    <<q, n>> \notin attemptsSeen \cup unreported
             PROVE  n = activities[q].attempt /\ activities[q].state = "running"
  BY DEF AttemptsAligned
<1>1. <<q, n>> \in Missing(signals)
  BY DEF AlignInv, AccountInv, Accounts
<1>2. PICK s \in Reports : <<q, n>> = <<s.event.question, s.event.attempt>>
  BY <1>1 DEF Missing, Reports
<1>3. Flying(s.event, badges[s.event.badge], activities[s.event.question], game)
  BY DEF AlignInv, FlyingInv
<1>4. q = s.event.question /\ n = s.event.attempt
  BY <1>2
<1> QED BY <1>3, <1>4 DEF Flying

\* A report whose attempt nobody touches.
LEMMA StillFlying ==
    ASSUME FlyingInv, NEW s \in Reports, game' = game,
           badges'[s.event.badge] = badges[s.event.badge],
           activities'[s.event.question] = activities[s.event.question]
    PROVE  Flying(s.event, badges'[s.event.badge], activities'[s.event.question], game')
  BY DEF FlyingInv

LEMMA FlyingFields ==
    ASSUME FlyingInv, NEW s \in Reports
    PROVE  /\ badges[s.event.badge].phase \in {"refusing", "live"}
           /\ activities[s.event.question].state = "running"
           /\ activities[s.event.question].holder = s.event.badge
           /\ activities[s.event.question].attempt = s.event.attempt
           /\ s.awaited
  BY DEF FlyingInv, Flying, Reports

LEMMA SettledHasNoReport ==
    ASSUME FlyingInv, NEW b \in Badges, Settled(b), NEW s \in Reports
    PROVE  s.event.badge # b
  BY DEF FlyingInv, Settled, Reports

LEMMA ReportBadge ==
    ASSUME TypeOK, NEW s \in Reports
    PROVE  s.event.badge \in Badges /\ s.event.question \in Questions
  BY ReportFields DEF Events

\* A badge that reports nothing goes on, the server stays.
LEMMA FlyingPast ==
    ASSUME TypeOK, FlyingInv, NEW b \in Badges, \A s \in Reports : s.event.badge # b,
           \A c \in Badges \ {b} : badges'[c] = badges[c],
           \A s \in Reports : activities'[s.event.question] = activities[s.event.question],
           game' = game, Reports' \subseteq Reports, \A s \in signals' : s.awaited
    PROVE  FlyingInv'
<1> SUFFICES ASSUME NEW s \in Reports
             PROVE  Flying(s.event, badges'[s.event.badge],
                           activities'[s.event.question], game')
  BY DEF FlyingInv
<1>1. s.event.badge \in Badges \ {b}
  BY ReportBadge
<1>2. badges'[s.event.badge] = badges[s.event.badge]
  BY <1>1
<1> QED BY <1>2, StillFlying

\* An attempt begins and is reported.
LEMMA FlyingBegun ==
    ASSUME TypeOK, FlyingInv, NEW b \in Badges, NEW q \in Questions,
           NEW phase \in {"refusing", "live"}, Offered(b, q), Attempt(b, q, phase),
           game' = game, signals' = signals \cup {Started(b, q)}
    PROVE  FlyingInv'
<1> DEFINE r == Started(b, q)
           n == activities[q].attempt + 1
<1>1. Begins(q, b) /\ badges[b].phase = "idle"
  BY DEF Offered
<1>2. activities[q].state = "ready" /\ \A p \in Questions \ {q} : activities'[p] = activities[p]
  BY <1>1, BeginsEffect
<1>3. activities'[q] = [state |-> "running", attempt |-> n, holder |-> b]
  BY <1>1, BeginsEffect
<1>4. phase \in Phases
  BY DEF Phases
<1>5. badges'[b] = [phase |-> phase, game |-> game, question |-> q, attempt |-> n]
  BY <1>4, AttemptEffect
<1>6. \A c \in Badges \ {b} : badges'[c] = badges[c]
  BY <1>4, AttemptFields
<1>7. /\ r.event.badge = b /\ r.event.question = q /\ r.event.attempt = n
      /\ r.kind = "started" /\ r.awaited
  BY StartedFields
<1> HIDE DEF r, n
<1>8. Flying(r.event, badges'[b], activities'[q], game')
  BY <1>3, <1>5, <1>7 DEF Flying
<1>9. ASSUME NEW s \in Reports
      PROVE  Flying(s.event, badges'[s.event.badge], activities'[s.event.question], game')
  <2>1. s.event.badge \in Badges /\ s.event.question \in Questions
    BY ReportBadge
  <2>2. s.event.badge # b /\ s.event.question # q
    BY <1>1, <1>2, FlyingFields
  <2>3. badges'[s.event.badge] = badges[s.event.badge]
    BY <1>6, <2>1, <2>2
  <2>4. activities'[s.event.question] = activities[s.event.question]
    BY <1>2, <2>1, <2>2
  <2> QED BY <2>3, <2>4, StillFlying
<1>10. signals' = signals \cup {r}
  BY DEF r
<1>11. \A s \in signals' : s.awaited
  BY <1>7, <1>10 DEF FlyingInv
<1>12. ASSUME NEW s \in Reports'
       PROVE  Flying(s.event, badges'[s.event.badge], activities'[s.event.question], game')
  <2>1. s \in Reports \/ s = r
    BY <1>10 DEF Reports
  <2>2. CASE s \in Reports
    BY <1>9, <2>2
  <2>3. CASE s = r
    BY <1>7, <1>8, <2>3
  <2> QED BY <2>1, <2>2, <2>3
<1> QED BY <1>11, <1>12 DEF FlyingInv

\* An attempt begins of which nobody hears.
LEMMA FlyingUnheard ==
    ASSUME TypeOK, FlyingInv, NEW q \in Questions, NEW h \in Badges \cup {Nobody},
           Begins(q, h), game' = game, signals' = signals,
           \A s \in Reports : badges'[s.event.badge] = badges[s.event.badge]
    PROVE  FlyingInv'
<1>1. activities[q].state = "ready" /\ \A p \in Questions \ {q} : activities'[p] = activities[p]
  BY BeginsEffect
<1>2. ASSUME NEW s \in Reports
      PROVE  Flying(s.event, badges'[s.event.badge], activities'[s.event.question], game')
  <2>1. s.event.question \in Questions /\ s.event.question # q
    BY <1>1, ReportBadge, FlyingFields
  <2>2. activities'[s.event.question] = activities[s.event.question]
    BY <1>1, <2>1
  <2> QED BY <2>2, StillFlying
<1>3. Reports' = Reports /\ \A s \in signals' : s.awaited
  BY DEF Reports, FlyingInv
<1> QED BY <1>2, <1>3 DEF FlyingInv

LEMMA FlyingStep ==
    ASSUME ~LateSignals, TypeOK, FlyingInv, [Next]_vars
    PROVE  FlyingInv'
<1>1. \A s \in signals : s.awaited
  BY DEF FlyingInv
<1>2. ASSUME NEW b \in Badges, NEW q \in Questions, Refuse(b, q) \/ Accept(b, q)
      PROVE  FlyingInv'
  <2>1. /\ Offered(b, q) /\ game' = game /\ signals' = signals \cup {Started(b, q)}
        /\ Attempt(b, q, "refusing") \/ Attempt(b, q, "live")
    BY <1>2 DEF Refuse, Accept
  <2> QED BY <2>1, FlyingBegun
<1>3. ASSUME NEW b \in Badges, NEW q \in Questions, AcceptFails(b, q)
      PROVE  FlyingInv'
  <2>1. /\ Begins(q, b) /\ badges[b].phase = "idle" /\ Attempt(b, q, "failing")
        /\ game' = game /\ signals' = signals
    BY <1>3 DEF AcceptFails, Offered
  <2>2. "failing" \in Phases
    BY DEF Phases
  <2>3. \A c \in Badges \ {b} : badges'[c] = badges[c]
    BY <2>1, <2>2, AttemptFields
  <2>4. \A s \in Reports : s.event.badge \in Badges /\ s.event.badge # b
    BY <2>1, ReportBadge, FlyingFields
  <2>5. \A s \in Reports : badges'[s.event.badge] = badges[s.event.badge]
    BY <2>3, <2>4
  <2> QED BY <2>1, <2>5, FlyingUnheard
<1>4. ASSUME NEW q \in Questions, OfferLost(q)
      PROVE  FlyingInv'
  <2>1. Begins(q, Nobody) /\ UNCHANGED <<game, badges, signals>>
    BY <1>4 DEF OfferLost
  <2> QED BY <2>1, FlyingUnheard
<1>5. ASSUME NEW b \in Badges,
             \A s \in Reports : s.event.badge # b,
             \A c \in Badges \ {b} : badges'[c] = badges[c],
             activities' = activities, game' = game,
             Reports' \subseteq Reports, \A s \in signals' : s.awaited
      PROVE  FlyingInv'
  BY <1>5, FlyingPast
<1>6. ASSUME NEW b \in Badges, Choose(b) \/ LetGo(b) \/ PanicFails(b)
      PROVE  FlyingInv'
  <2>1. /\ \E phase \in Phases : badges' = [badges EXCEPT ![b].phase = phase]
        /\ Settled(b) /\ UNCHANGED <<activities, game, signals>>
    BY <1>6 DEF Choose, LetGo, PanicFails, Decided, Phases
  <2>2. \A c \in Badges \ {b} : badges'[c] = badges[c]
    BY <2>1, PhaseEffect
  <2>3. \A s \in Reports : s.event.badge # b
    BY <2>1, SettledHasNoReport
  <2>4. Reports' = Reports
    BY <2>1 DEF Reports
  <2> QED BY <1>1, <1>5, <2>1, <2>2, <2>3, <2>4
<1>7. ASSUME NEW b \in Badges, Panic(b)
      PROVE  FlyingInv'
  <2>1. /\ badges' = [badges EXCEPT ![b].phase = "blackout"] /\ Settled(b)
        /\ UNCHANGED <<activities, game>>
    BY <1>7 DEF Panic, Decided
  <2>2. signals' = signals \cup Signal(b, "panic")
    BY <1>7 DEF Panic
  <2>3. \A c \in Badges \ {b} : badges'[c] = badges[c]
    <3>1. "blackout" \in Phases
      BY DEF Phases
    <3> QED BY <2>1, <3>1, PhaseEffect
  <2>4. \A s \in Reports : s.event.badge # b
    BY <2>1, SettledHasNoReport
  <2>5. \A s \in Signal(b, "panic") : s.kind = "panic" /\ s.awaited
    BY PanicSignal
  <2>6. Reports' = Reports /\ \A s \in signals' : s.awaited
    BY <1>1, <2>2, <2>5 DEF Reports
  <2> QED BY <1>5, <2>1, <2>3, <2>4, <2>6
<1>8. ASSUME NEW b \in Badges, ReportLost(b) \/ Recover(b)
      PROVE  FlyingInv'
  <2>1. Idle(b) /\ Settled(b) /\ UNCHANGED <<activities, game, signals>>
    BY <1>8 DEF ReportLost, Recover
  <2>2. \A c \in Badges \ {b} : badges'[c] = badges[c]
    BY <2>1, IdleEffect
  <2>3. \A s \in Reports : s.event.badge # b
    BY <2>1, SettledHasNoReport
  <2>4. Reports' = Reports
    BY <2>1 DEF Reports
  <2> QED BY <1>1, <1>5, <2>1, <2>2, <2>3, <2>4
<1>9. ASSUME NEW b \in Badges, Complete(b) \/ Fail(b)
      PROVE  FlyingInv'
  <2> DEFINE q == badges[b].question
  <2>1. Idle(b) /\ UNCHANGED <<game, signals>>
    BY <1>9 DEF Complete, Fail
  <2>2. badges[b].phase = "feedback" \/ Settled(b)
    BY <1>9 DEF Complete, Fail
  <2>3. \/ activities' = activities
        \/ /\ IsCurrent(b)
           /\ \E state \in {"ready", "closed"} :
                 activities' = [activities EXCEPT ![q].state = state]
    BY <1>9 DEF Complete, Fail
  <2>4. \A c \in Badges \ {b} : badges'[c] = badges[c]
    BY <2>1, IdleEffect
  <2>5. \A s \in Reports : s.event.badge # b
    BY <2>2, SettledHasNoReport, FlyingFields
  <2>6. q \in Questions
    BY TypesByParts DEF TypeParts, BadgeTypes
  <2>7. ASSUME NEW s \in Reports
        PROVE  activities'[s.event.question] = activities[s.event.question]
    <3>1. CASE activities' = activities
      BY <3>1
    <3>2. ASSUME IsCurrent(b), NEW state \in {"ready", "closed"},
                 activities' = [activities EXCEPT ![q].state = state]
          PROVE  activities'[s.event.question] = activities[s.event.question]
      <4>1. activities[q].holder = b
        BY <3>2 DEF IsCurrent
      <4>2. s.event.question \in Questions /\ s.event.question # q
        BY <2>5, <4>1, ReportBadge, FlyingFields
      <4> QED BY <2>6, <3>2, <4>2, StateEffect
    <3> QED BY <2>3, <3>1, <3>2
  <2>8. Reports' = Reports
    BY <2>1 DEF Reports
  <2> QED BY <1>1, <2>1, <2>4, <2>5, <2>7, <2>8, FlyingPast
<1>10. ASSUME NEW b \in Badges, Reboot(b)
       PROVE  FlyingInv'
  <2>1. Idle(b) /\ UNCHANGED <<activities, game>> /\ signals' = signals \ Own(b)
    BY <1>10 DEF Reboot
  <2>2. \A c \in Badges \ {b} : badges'[c] = badges[c]
    BY <2>1, IdleEffect
  <2>3. ASSUME NEW s \in Reports'
        PROVE  Flying(s.event, badges'[s.event.badge], activities'[s.event.question], game')
    <3>1. s \in Reports /\ s \notin Own(b) /\ s \in signals
      BY <2>1 DEF Reports
    <3>2. s.event.badge # b
      BY <1>1, <3>1 DEF Own
    <3>3. s.event.badge \in Badges
      BY <3>1, ReportBadge
    <3> QED BY <2>1, <2>2, <3>1, <3>2, <3>3, StillFlying
  <2>4. \A s \in signals' : s.awaited
    BY <1>1, <2>1
  <2> QED BY <2>3, <2>4 DEF FlyingInv
<1>11. ASSUME NEW q \in Questions, Expire(q)
       PROVE  FlyingInv'
  <2>1. /\ activities' = [activities EXCEPT ![q].state = "ready"]
        /\ UNCHANGED <<game, badges, signals>>
    BY <1>11 DEF Expire
  <2>2. \A p \in Questions \ {q} : activities'[p] = activities[p]
    BY <2>1, StateEffect
  <2>3. ASSUME NEW s \in Reports
        PROVE  s.event.question # q
    <3> SUFFICES ASSUME s.event.question = q PROVE FALSE
      OBVIOUS
    <3> DEFINE b == s.event.badge
    <3>1. Flying(s.event, badges[b], activities[q], game) /\ b \in Badges
      BY ReportBadge DEF FlyingInv
    <3>2. activities[q].holder = b /\ badges[b].question = q
      BY <3>1 DEF Flying
    <3>3. IsCurrent(b)
      BY <3>1, <3>2 DEF Flying, IsCurrent
    <3>4. KeepsLease(b)
      BY <3>1 DEF Flying, KeepsLease
    <3>5. ~(IsCurrent(b) /\ KeepsLease(b))
      BY <1>11, <3>1, <3>2 DEF Expire
    <3> QED BY <3>3, <3>4, <3>5
  <2>4. ASSUME NEW s \in Reports
        PROVE  Flying(s.event, badges'[s.event.badge], activities'[s.event.question], game')
    <3>1. s.event.question \in Questions \ {q}
      BY <2>3, ReportBadge
    <3> QED BY <2>1, <2>2, <3>1, StillFlying
  <2>5. Reports' = Reports /\ \A s \in signals' : s.awaited
    BY <1>1, <2>1 DEF Reports
  <2> QED BY <2>4, <2>5 DEF FlyingInv
<1>12. ASSUME NEW s \in signals, Deliver(s) \/ GiveUpOn(s)
       PROVE  FlyingInv'
  <2>1. signals' = signals \ {s} /\ UNCHANGED <<activities, badges, game>>
    BY <1>12 DEF Deliver, GiveUpOn
  <2>2. Reports' \subseteq Reports /\ \A t \in signals' : t.awaited
    BY <1>1, <2>1 DEF Reports
  <2> QED BY <2>1, <2>2 DEF FlyingInv
<1>13. CASE NewGame
  <2>1. signals' = {}
    BY <1>13 DEF NewGame
  <2> QED BY <2>1 DEF FlyingInv, Reports
<1>14. CASE UNCHANGED vars
  <2>1. UNCHANGED <<activities, badges, game, signals>>
    BY <1>14 DEF vars
  <2> QED BY <2>1 DEF FlyingInv, Reports
<1> QED
  BY <1>2, <1>3, <1>4, <1>6, <1>7, <1>8, <1>9, <1>10, <1>11, <1>12, <1>13, <1>14, Steps
\* No account is lost and no attempt begins.
LEMMA AccountFrame ==
    ASSUME TypeOK, AccountInv, Accounts \subseteq Accounts',
           \A q \in Questions : activities'[q].attempt = activities[q].attempt
    PROVE  AccountInv'
<1> SUFFICES ASSUME NEW q \in Questions, NEW n \in 1..activities'[q].attempt
             PROVE  <<q, n>> \in Accounts'
  BY DEF AccountInv
<1>1. n \in 1..activities[q].attempt
  BY Zenon
<1>2. <<q, n>> \in Accounts
  BY <1>1 DEF AccountInv
<1> QED BY <1>2

\* An attempt begins and is accounted for.
LEMMA AccountBegun ==
    ASSUME TypeOK, AccountInv, Accounts \subseteq Accounts',
           NEW q \in Questions, NEW h \in Badges \cup {Nobody}, Begins(q, h),
           <<q, activities[q].attempt + 1>> \in Accounts'
    PROVE  AccountInv'
<1> SUFFICES ASSUME NEW p \in Questions, NEW n \in 1..activities'[p].attempt
             PROVE  <<p, n>> \in Accounts'
  BY DEF AccountInv
<1>1. activities[p].attempt \in Nat
  BY ActivityFields
<1>2. activities'[q].attempt = activities[q].attempt + 1
  BY BegunAttempt
<1>3. p # q => activities'[p] = activities[p]
  BY BeginsEffect
<1>4. n \in 1..activities[p].attempt \/ (p = q /\ n = activities[q].attempt + 1)
  <2>1. CASE p = q
    BY <1>1, <1>2, <2>1
  <2>2. ASSUME p # q PROVE n \in 1..activities[p].attempt
    <3>1. activities'[p] = activities[p]
      BY <1>3, <2>2
    <3> QED BY Zenon, <3>1
  <2> QED BY <2>1, <2>2
<1>5. n \in 1..activities[p].attempt => <<p, n>> \in Accounts
  BY DEF AccountInv
<1> QED BY <1>4, <1>5

LEMMA MissingFields ==
    ASSUME NEW S, NEW s \in S, s.kind = "started"
    PROVE  <<s.event.question, s.event.attempt>> \in Missing(S)
  BY DEF Missing

LEMMA MissingGrows ==
    ASSUME NEW S, NEW T, S \subseteq T
    PROVE  Missing(S) \subseteq Missing(T)
  BY DEF Missing

LEMMA MissingParts ==
    ASSUME NEW S, NEW T
    PROVE  Missing(S) \subseteq Missing(S \ T) \cup Missing(T)
  BY DEF Missing

\* What an action does to the accounts.
LEMMA AccountsKept ==
    ASSUME attemptsSeen \subseteq attemptsSeen', unreported \subseteq unreported',
           signals \subseteq signals'
    PROVE  Accounts \subseteq Accounts'
<1>1. Missing(signals) \subseteq Missing(signals')
  BY MissingGrows
<1>2. Missing(signals)' = Missing(signals')
  BY DEF Missing
<1> QED BY <1>1, <1>2 DEF Accounts

LEMMA AccountsMoved ==
    ASSUME NEW R, signals' = signals \ R,
           attemptsSeen \subseteq attemptsSeen', unreported \subseteq unreported',
           Missing(R) \subseteq attemptsSeen' \cup unreported'
    PROVE  Accounts \subseteq Accounts'
<1>1. Missing(signals) \subseteq Missing(signals') \cup Missing(R)
  BY MissingParts
<1>2. Missing(signals)' = Missing(signals')
  BY DEF Missing
<1> QED BY <1>1, <1>2 DEF Accounts

LEMMA AccountStep ==
    ASSUME ~LateSignals, TypeOK, AccountInv, [Next]_vars
    PROVE  AccountInv'
<1>1. ASSUME NEW b \in Badges, NEW q \in Questions, Refuse(b, q) \/ Accept(b, q)
      PROVE  AccountInv'
  <2> DEFINE r == Started(b, q)
             n == activities[q].attempt + 1
  <2>1. Begins(q, b) /\ signals' = signals \cup {r} /\ UNCHANGED <<attemptsSeen, unreported>>
    BY <1>1 DEF Refuse, Accept, Offered, rosterVars, historyVars
  <2>2. r.event.question = q /\ r.event.attempt = n /\ r.kind = "started"
    BY StartedFields
  <2> HIDE DEF r, n
  <2>3. <<q, n>> \in Missing(signals')
    BY <2>1, <2>2, MissingFields
  <2>4. Missing(signals)' = Missing(signals')
    BY DEF Missing
  <2>5. <<q, n>> \in Accounts'
    BY <2>3, <2>4 DEF Accounts
  <2>6. Accounts \subseteq Accounts'
    BY <2>1, AccountsKept
  <2> QED BY <2>1, <2>5, <2>6, AccountBegun DEF n
<1>2. ASSUME NEW q \in Questions, OfferLost(q) \/ \E b \in Badges : AcceptFails(b, q)
      PROVE  AccountInv'
  <2> DEFINE n == activities[q].attempt + 1
  <2>1. /\ \E h \in Badges \cup {Nobody} : Begins(q, h)
        /\ unreported' = unreported \cup {<<q, n>>}
        /\ UNCHANGED <<signals, attemptsSeen>>
    BY <1>2 DEF OfferLost, AcceptFails, Offered, rosterVars
  <2> HIDE DEF n
  <2>2. Accounts \subseteq Accounts'
    BY <2>1, AccountsKept
  <2>3. <<q, n>> \in Accounts'
    BY <2>1 DEF Accounts
  <2> QED BY <2>1, <2>2, <2>3, AccountBegun DEF n
<1>3. ASSUME attemptsSeen' = attemptsSeen, unreported' = unreported,
             signals \subseteq signals',
             \A q \in Questions : activities'[q].attempt = activities[q].attempt
      PROVE  AccountInv'
  BY <1>3, AccountsKept, AccountFrame
<1>4. ASSUME NEW b \in Badges, \/ Choose(b) \/ LetGo(b) \/ Panic(b) \/ PanicFails(b)
                               \/ ReportLost(b) \/ Recover(b)
      PROVE  AccountInv'
  <2>1. UNCHANGED <<attemptsSeen, unreported, activities>> /\ signals \subseteq signals'
    BY <1>4 DEF Choose, LetGo, Panic, PanicFails, ReportLost, Recover, rosterVars, historyVars
  <2> QED BY <1>3, <2>1
<1>5. ASSUME NEW b \in Badges, Complete(b) \/ Fail(b)
      PROVE  AccountInv'
  <2> DEFINE q == badges[b].question
  <2>1. UNCHANGED <<signals, unreported>>
    BY <1>5 DEF Complete, Fail, historyVars
  <2>2. attemptsSeen' = attemptsSeen
    BY <1>5 DEF Complete, Fail, ScoreAnswer, signalVars, rosterVars
  <2>3. \/ activities' = activities
        \/ \E state \in {"ready", "closed"} :
              activities' = [activities EXCEPT ![q].state = state]
    BY <1>5 DEF Complete, Fail
  <2>4. q \in Questions
    BY TypesByParts DEF TypeParts, BadgeTypes
  <2>5. \A p \in Questions : activities'[p].attempt = activities[p].attempt
    BY <2>3, <2>4, StateEffect
  <2> QED BY <1>3, <2>1, <2>2, <2>5
<1>6. ASSUME NEW q \in Questions, Expire(q)
      PROVE  AccountInv'
  <2>1. /\ activities' = [activities EXCEPT ![q].state = "ready"]
        /\ UNCHANGED <<signals, unreported, attemptsSeen>>
    BY <1>6 DEF Expire, rosterVars
  <2>2. \A p \in Questions : activities'[p].attempt = activities[p].attempt
    BY <2>1, StateEffect
  <2> QED BY <1>3, <2>1, <2>2
<1>7. ASSUME NEW s \in signals, Deliver(s)
      PROVE  AccountInv'
  <2>1. s \in SignalTypes /\ RosterTypes
    BY TypesByParts DEF TypeParts
  <2>2. signals' = signals \ {s} /\ UNCHANGED <<activities, unreported>>
    BY <1>7 DEF Deliver, historyVars
  <2>3. s.event \in Events
    BY <2>1, SignalFields
  <2>4. /\ attemptsSeen \subseteq attemptsSeen'
        /\ Missing({s}) \subseteq attemptsSeen'
    <3>1. CASE s.kind = "started"
      <4>1. attemptsSeen' = attemptsSeen \cup {<<s.event.question, s.event.attempt>>}
        <5>1. BadgeStarted(s.event)
          BY <1>7, <3>1 DEF Deliver
        <5> QED BY <5>1 DEF BadgeStarted
      <4> QED BY <4>1 DEF Missing
    <3>2. CASE s.kind # "started"
      <4>1. PanicEvent(s.event)
        BY <1>7, <3>2 DEF Deliver
      <4>2. attemptsSeen' = attemptsSeen
        BY <4>1 DEF PanicEvent
      <4> QED BY <3>2, <4>2 DEF Missing
    <3> QED BY <3>1, <3>2
  <2>5. Accounts \subseteq Accounts'
    BY <2>2, <2>4, AccountsMoved
  <2> QED BY <2>2, <2>5, AccountFrame
<1>8. ASSUME NEW R, signals' = signals \ R, unreported' = unreported \cup Missing(R),
             UNCHANGED <<activities, attemptsSeen>>
      PROVE  AccountInv'
  <2>1. Accounts \subseteq Accounts'
    BY <1>8, AccountsMoved
  <2> QED BY <1>8, <2>1, AccountFrame
<1>9. ASSUME NEW s \in signals, GiveUpOn(s)
      PROVE  AccountInv'
  <2>1. /\ signals' = signals \ {s} /\ unreported' = unreported \cup Missing({s})
        /\ UNCHANGED <<activities, attemptsSeen>>
    BY <1>9 DEF GiveUpOn, rosterVars
  <2> QED BY <1>8, <2>1
<1>10. ASSUME NEW b \in Badges, Reboot(b)
       PROVE  AccountInv'
  <2>1. /\ signals' = signals \ Own(b) /\ unreported' = unreported \cup Missing(Own(b))
        /\ UNCHANGED <<activities, attemptsSeen>>
    BY <1>10 DEF Reboot, rosterVars
  <2> QED BY <1>8, <2>1
<1>11. CASE NewGame
  <2>1. \A q \in Questions : activities'[q].attempt = 0
    BY <1>11 DEF NewGame, NotStarted
  <2>2. ASSUME NEW q \in Questions, NEW n \in 1..activities'[q].attempt
        PROVE  FALSE
    BY <2>1
  <2>3. AccountInv' = \A q \in Questions : \A n \in 1..activities'[q].attempt :
                          <<q, n>> \in Accounts'
    BY DEF AccountInv
  <2> QED BY <2>2, <2>3
<1>12. CASE UNCHANGED vars
  <2>1. UNCHANGED <<signals, unreported, attemptsSeen, activities>>
    BY <1>12 DEF vars, rosterVars
  <2> QED BY <1>3, <2>1
<1> QED
  BY <1>1, <1>2, <1>4, <1>5, <1>6, <1>7, <1>9, <1>10, <1>11, <1>12, Steps

\* The report that arrives is of the newest attempt there is.
LEMMA NewestStep ==
    ASSUME TypeOK, FlyingInv, SeenInv, NewestOnRecord, [Next]_vars
    PROVE  NewestOnRecord'
<1>1. ASSUME UNCHANGED <<assignments, attemptsSeen>>
      PROVE  NewestOnRecord'
  BY <1>1 DEF NewestOnRecord
<1>2. ASSUME NEW s \in Reports, BadgeStarted(s.event)
      PROVE  NewestOnRecord'
  <2> DEFINE p == s.event.question
             n == s.event.attempt
  <2>1. s.event \in Events /\ p \in Questions /\ n \in Nat /\ RosterTypes
    BY ReportFields, TypesByParts DEF TypeParts
  <2>2. /\ DOMAIN assignments' = DOMAIN assignments \cup {p}
        /\ assignments'[p].attempt = n
        /\ \A q \in DOMAIN assignments \ {p} : assignments'[q] = assignments[q]
        /\ attemptsSeen' = attemptsSeen \cup {<<p, n>>}
    BY <1>2, <2>1, StartedHandlerEffect
  <2>3. activities[p].attempt = n
    BY FlyingFields
  <2> HIDE DEF p, n
  <2> SUFFICES ASSUME NEW q \in DOMAIN assignments', NEW x \in attemptsSeen', x[1] = q
               PROVE  x[2] <= assignments'[q].attempt
    BY DEF NewestOnRecord
  <2>4. CASE x = <<p, n>>
    BY <2>1, <2>2, <2>4
  <2>5. ASSUME x \in attemptsSeen, q = p
        PROVE  x[2] <= assignments'[q].attempt
    <3>1. x[2] <= activities[x[1]].attempt
      BY <2>5 DEF SeenInv
    <3>2. activities[x[1]].attempt = n /\ assignments'[q].attempt = n
      BY <2>2, <2>3, <2>5
    <3> QED BY <3>1, <3>2
  <2>6. ASSUME x \in attemptsSeen, q # p
        PROVE  x[2] <= assignments'[q].attempt
    <3>1. q \in DOMAIN assignments /\ assignments'[q] = assignments[q]
      BY <2>2, <2>6
    <3>2. x[2] <= assignments[q].attempt
      BY <2>6, <3>1 DEF NewestOnRecord
    <3> QED BY <3>1, <3>2
  <2> QED BY <2>2, <2>4, <2>5, <2>6
<1>3. ASSUME NEW s \in signals, Deliver(s)
      PROVE  NewestOnRecord'
  <2>1. CASE s.kind = "started"
    <3>1. s \in Reports /\ BadgeStarted(s.event)
      BY <1>3, <2>1 DEF Deliver, Reports
    <3> QED BY <1>2, <3>1
  <2>2. CASE s.kind # "started"
    <3>1. PanicEvent(s.event)
      BY <1>3, <2>2 DEF Deliver
    <3>2. UNCHANGED <<assignments, attemptsSeen>>
      BY <3>1 DEF PanicEvent
    <3> QED BY <1>1, <3>2
  <2> QED BY <2>1, <2>2
<1>4. CASE NewGame
  <2>1. DOMAIN assignments' = {}
    BY <1>4 DEF NewGame
  <2> QED BY <2>1 DEF NewestOnRecord
<1>5. ASSUME NEW b \in Badges, Complete(b)
      PROVE  NewestOnRecord'
  <2>1. UNCHANGED <<assignments, attemptsSeen>>
    BY <1>5 DEF Complete, ScoreAnswer, signalVars, rosterVars
  <2> QED BY <1>1, <2>1
<1>6. ASSUME UNCHANGED rosterVars
      PROVE  NewestOnRecord'
  BY <1>1, <1>6 DEF rosterVars
<1>7. ASSUME NEW b \in Badges, NEW q \in Questions,
             Refuse(b, q) \/ Accept(b, q) \/ AcceptFails(b, q)
      PROVE  NewestOnRecord'
  BY <1>6, <1>7 DEF Refuse, Accept, AcceptFails
<1>8. ASSUME NEW b \in Badges, \/ Choose(b) \/ LetGo(b) \/ Panic(b) \/ PanicFails(b)
                               \/ Fail(b) \/ ReportLost(b) \/ Recover(b) \/ Reboot(b)
      PROVE  NewestOnRecord'
  BY <1>6, <1>8 DEF Choose, LetGo, Panic, PanicFails, Fail, ReportLost, Recover, Reboot
<1>9. ASSUME NEW q \in Questions, OfferLost(q) \/ Expire(q)
      PROVE  NewestOnRecord'
  BY <1>6, <1>9 DEF OfferLost, Expire
<1>10. ASSUME NEW s \in signals, GiveUpOn(s)
       PROVE  NewestOnRecord'
  BY <1>6, <1>10 DEF GiveUpOn
<1>11. CASE UNCHANGED vars
  BY <1>6, <1>11 DEF vars
<1> QED BY <1>3, <1>4, <1>5, <1>7, <1>8, <1>9, <1>10, <1>11, Steps

\* Without Signals that outlive their call, every attempt that is over was counted
\* or its report is known to be missing, and the holder on record is the newest one
\* reported: for every number of badges, questions, rounds and attempts, whatever
\* Signals are lost and wherever a badge reboots.
LEMMA AlignHolds ==
    ASSUME ~LateSignals
    PROVE  Spec => [](TypeOK /\ HandoffInv /\ AlignInv)
<1>1. Init => TypeOK /\ HandoffInv /\ AlignInv
  BY TypesInitially, HandoffInitially, AlignInitially
<1>2. TypeOK /\ HandoffInv /\ AlignInv /\ [Next]_vars
         => (TypeOK /\ HandoffInv /\ AlignInv)'
  <2> SUFFICES ASSUME TypeOK, HandoffInv, AlignInv, [Next]_vars
               PROVE  (TypeOK /\ HandoffInv /\ AlignInv)'
    OBVIOUS
  <2>1. TypeOK' /\ HandoffInv'
    BY TypesStep, HandoffStep
  <2>2. FlyingInv /\ AccountInv /\ NewestOnRecord /\ SeenInv
    BY DEF AlignInv, HandoffInv
  <2>3. FlyingInv' /\ AccountInv' /\ NewestOnRecord'
    BY <2>2, FlyingStep, AccountStep, NewestStep
  <2> QED BY <2>1, <2>3 DEF AlignInv
<1> QED BY <1>1, <1>2, PTL DEF Spec

\* Every attempt that is over was counted, or its report was lost.
THEOREM AttemptsStayAligned ==
    ASSUME ~LateSignals
    PROVE  Spec => []AttemptsAligned
<1>1. TypeOK /\ HandoffInv /\ AlignInv => AttemptsAligned
  BY AlignImplies
<1> QED BY <1>1, AlignHolds, PTL

\* The holder on record is the newest one reported.
THEOREM RecordStaysNewest ==
    ASSUME ~LateSignals
    PROVE  Spec => []NewestOnRecord
<1>1. TypeOK /\ HandoffInv /\ AlignInv => NewestOnRecord
  BY DEF AlignInv
<1> QED BY <1>1, AlignHolds, PTL
=============================================================================
