---------------------------- MODULE ActivityLease ----------------------------
(***************************************************************************)
(* Who holds a question: one Activity of the round, the Temporal server    *)
(* that leases its attempts and the badges that work on them               *)
(* (firmware/src/main.rs, the heartbeat half of answer_question, against   *)
(* the timeouts of shared/src/contract.rs).                                *)
(*                                                                         *)
(* Two clocks decide: the server's, from the last heartbeat it received,   *)
(* and the badge's, from the last acknowledgement it received.  No actor   *)
(* reads the other's clock, so every timer is an age that Tick advances,   *)
(* and Tick waits for whatever is due.  A request takes at most Latency,   *)
(* its answer included, or is lost.                                        *)
(***************************************************************************)
EXTENDS Integers, FiniteSets

CONSTANTS
    Badges,
    Interval,    \* BADGE_HEARTBEAT_INTERVAL_MS, also Core's throttle
    Timeout,     \* BADGE_HEARTBEAT_TIMEOUT_MS
    Blackout,    \* BADGE_CRASH_BLACKOUT_MS
    Budget,      \* BADGE_HEARTBEAT_FAILURE_BUDGET_MS
    Hold,        \* FEEDBACK_HOLD
    Backoff,     \* initial_interval of the retry policy
    Latency,     \* the longest an RPC takes
    MaxAttempts  \* bound: attempts of the Activity

\* The assertions of contract.rs, and a feedback that takes time.
ASSUME ContractAssumption ==
    /\ Interval \in Nat \ {0} /\ Timeout \in Nat /\ Blackout \in Nat
    /\ Budget \in Nat /\ Hold \in Nat /\ Backoff \in Nat
    /\ Interval < Timeout /\ Timeout < Blackout
    /\ Interval < Budget /\ Budget < Timeout

ASSUME NetworkAssumption == Latency \in Nat /\ MaxAttempts \in Nat

VARIABLES
    \* The server.
    attempt,   \* the last attempt handed out
    lease,     \* "open" to be handed out, "leased", "closed"
    leaseAge,  \* leased: since the last heartbeat; open: since it opened
    \* The badges.
    phase,     \* "idle", "offered", "answering", "feedback", "blackout",
               \* "refusing", "finished" or "failed" with the report unsent,
               \* "reporting"
    held,      \* the attempt a badge that is not idle works on
    since,     \* age of the phase
    ackAge,    \* silent_ms
    misses,    \* (history) heartbeats missed since the last acknowledgement
    call,      \* the heartbeat task: [state, age, reply]
    core,      \* Core's heartbeats for the attempt: [state, age, reply, queued]
    told,      \* badges whose attempt was cancelled or stopped
    abandoned, \* badges that crashed on this question
    \* The network: requests to the server, [kind, badge, attempt, age].
    wire

serverVars == <<attempt, lease, leaseAge>>
badgeVars  == <<phase, held, since, ackAge, misses, call, core, told, abandoned>>
vars       == <<serverVars, badgeVars, wire>>

NoCall == [state |-> "off", age |-> 0, reply |-> "none"]
NoCore == [state |-> "idle", age |-> 0, reply |-> "none", queued |-> FALSE]

Message(kind, b) == [kind |-> kind, badge |-> b, attempt |-> held[b], age |-> 0]

Init ==
    /\ attempt = 0 /\ lease = "open" /\ leaseAge = Backoff
    /\ phase = [b \in Badges |-> "idle"] /\ held = [b \in Badges |-> 0]
    /\ since = [b \in Badges |-> 0]
    /\ ackAge = [b \in Badges |-> 0] /\ misses = [b \in Badges |-> 0]
    /\ call = [b \in Badges |-> NoCall] /\ core = [b \in Badges |-> NoCore]
    /\ told = {} /\ abandoned = {}
    /\ wire = {}

-----------------------------------------------------------------------------
\* The server.

\* A badge has one Activity slot and polls only while it is free.
Dispatch(b) ==
    /\ lease = "open" /\ leaseAge >= Backoff
    /\ attempt < MaxAttempts
    /\ phase[b] = "idle"
    /\ attempt' = attempt + 1
    /\ lease' = "leased" /\ leaseAge' = 0
    /\ phase' = [phase EXCEPT ![b] = "offered"]
    /\ held' = [held EXCEPT ![b] = attempt + 1]
    /\ since' = [since EXCEPT ![b] = 0]
    /\ UNCHANGED <<ackAge, misses, call, core, told, abandoned, wire>>

\* The heartbeat timeout.
Expire ==
    /\ lease = "leased" /\ leaseAge >= Timeout
    /\ lease' = "open" /\ leaseAge' = 0
    /\ UNCHANGED <<attempt, badgeVars, wire>>

\* The round ends, or the Activity's schedule-to-close timeout does.
Close ==
    /\ lease # "closed"
    /\ lease' = "closed" /\ leaseAge' = 0
    /\ UNCHANGED <<attempt, badgeVars, wire>>

Current(n) == lease = "leased" /\ n = attempt

\* The badge still waits for the answer to m.
AwaitsBeat(m, request, busy) ==
    request.state = busy /\ request.age = m.age /\ held[m.badge] = m.attempt

\* A heartbeat reaches the server, by either route.
ReceiveBeat(m) ==
    /\ m \in wire /\ m.kind \in {"direct", "core"}
    /\ wire' = wire \ {m}
    /\ leaseAge' = IF Current(m.attempt) THEN 0 ELSE leaseAge
    /\ LET reply == IF Current(m.attempt) THEN "ok" ELSE "gone"
       IN  /\ call' = IF m.kind = "direct" /\ AwaitsBeat(m, call[m.badge], "calling")
                      THEN [call EXCEPT ![m.badge].reply = reply] ELSE call
           /\ core' = IF m.kind = "core" /\ AwaitsBeat(m, core[m.badge], "sent")
                      THEN [core EXCEPT ![m.badge].reply = reply] ELSE core
    /\ UNCHANGED <<attempt, lease, phase, held, since, ackAge, misses, told,
                   abandoned>>

\* The attempt is over for the badge; what it kept of it goes with it.
Release(b) ==
    /\ phase' = [phase EXCEPT ![b] = "idle"] /\ held' = [held EXCEPT ![b] = 0]
    /\ since' = [since EXCEPT ![b] = 0]
    /\ ackAge' = [ackAge EXCEPT ![b] = 0] /\ misses' = [misses EXCEPT ![b] = 0]
    /\ call' = [call EXCEPT ![b] = NoCall] /\ core' = [core EXCEPT ![b] = NoCore]
    /\ told' = told \ {b}
    /\ UNCHANGED abandoned

\* The badge's slot is free again once its report has been answered or lost.
AwaitsReport(m) ==
    /\ m.kind \in {"answer", "failure"}
    /\ phase[m.badge] = "reporting" /\ held[m.badge] = m.attempt

Reported(m) ==
    \/ AwaitsReport(m) /\ Release(m.badge)
    \/ ~AwaitsReport(m) /\ UNCHANGED badgeVars

ReceiveReport(m) ==
    /\ m \in wire /\ m.kind \in {"answer", "failure"}
    /\ wire' = wire \ {m}
    /\ \/ /\ Current(m.attempt)
          /\ lease' = IF m.kind = "answer" THEN "closed" ELSE "open"
          /\ leaseAge' = 0
       \/ ~Current(m.attempt) /\ UNCHANGED <<lease, leaseAge>>
    /\ Reported(m)
    /\ UNCHANGED attempt

Lose(m) ==
    /\ m \in wire
    /\ wire' = wire \ {m}
    /\ Reported(m)
    /\ UNCHANGED serverVars

-----------------------------------------------------------------------------
\* The heartbeat task of an attempt and Core behind it.

\* record_heartbeat: Core reports at once unless it is busy with an earlier one.
StartCall(b) ==
    /\ call[b].state = "sleeping" /\ call[b].age >= Interval
    /\ call' = [call EXCEPT ![b] = [NoCall EXCEPT !.state = "calling"]]
    /\ \/ /\ core[b].state = "idle"
          /\ core' = [core EXCEPT ![b].state = "sent", ![b].age = 0, ![b].reply = "none"]
          /\ wire' = wire \cup {Message("direct", b), Message("core", b)}
       \/ /\ core[b].state # "idle"
          /\ core' = [core EXCEPT ![b].queued = TRUE]
          /\ wire' = wire \cup {Message("direct", b)}
    /\ UNCHANGED <<serverVars, phase, held, since, ackAge, misses, told, abandoned>>

Sleeping == [NoCall EXCEPT !.state = "sleeping"]

\* last_ack_ms is stamped with the time the answer is received.
Acknowledged(b) ==
    /\ call[b].state = "calling" /\ call[b].reply = "ok"
    /\ ackAge' = [ackAge EXCEPT ![b] = 0]
    /\ misses' = [misses EXCEPT ![b] = 0]
    /\ call' = [call EXCEPT ![b] = Sleeping]
    /\ UNCHANGED <<serverVars, phase, held, since, core, told, abandoned, wire>>

\* Faulty variant: every answer counts, also an error.
MissedCountsAsAck(b) ==
    /\ call[b].state = "calling"
    /\ ackAge' = [ackAge EXCEPT ![b] = 0]
    /\ misses' = [misses EXCEPT ![b] = @ + 1]
    /\ call' = [call EXCEPT ![b] = Sleeping]
    /\ UNCHANGED <<serverVars, phase, held, since, core, told, abandoned, wire>>

\* The RPC fails, whether or not the server saw it.
Missed(b) ==
    /\ call[b].state = "calling"
    /\ misses' = [misses EXCEPT ![b] = @ + 1]
    /\ call' = [call EXCEPT ![b] = Sleeping]
    /\ UNCHANGED <<serverVars, phase, held, since, ackAge, core, told, abandoned, wire>>

Stopped(b) ==
    /\ call[b].state = "calling" /\ call[b].reply = "gone"
    /\ told' = told \cup {b}
    /\ call' = [call EXCEPT ![b] = NoCall]
    /\ UNCHANGED <<serverVars, phase, held, since, ackAge, misses, core, abandoned,
                   wire>>

\* Core's report is answered or given up; then it is throttled.
CoreDone(b) ==
    /\ core[b].state = "sent"
    /\ core' = [core EXCEPT ![b].state = "throttled"]
    /\ told' = IF core[b].reply = "gone" THEN told \cup {b} ELSE told
    /\ UNCHANGED <<serverVars, phase, held, since, ackAge, misses, call, abandoned,
                   wire>>

\* The throttle ends: send what was recorded meanwhile, or forget the attempt.
CoreResumes(b) ==
    /\ core[b].state = "throttled" /\ core[b].age >= Interval
    /\ \/ /\ core[b].queued
          /\ core' = [core EXCEPT ![b] = [NoCore EXCEPT !.state = "sent"]]
          /\ wire' = wire \cup {Message("core", b)}
       \/ /\ ~core[b].queued
          /\ core' = [core EXCEPT ![b] = NoCore]
          /\ UNCHANGED wire
    /\ UNCHANGED <<serverVars, phase, held, since, ackAge, misses, call, told,
                   abandoned>>

-----------------------------------------------------------------------------
\* answer_question.

Enter(b, next) ==
    /\ phase' = [phase EXCEPT ![b] = next]
    /\ since' = [since EXCEPT ![b] = 0]

\* Dropping the monitor aborts the heartbeat task, not what Core has queued.
DropMonitor(b) ==
    /\ call' = [call EXCEPT ![b] = NoCall]
    /\ ackAge' = [ackAge EXCEPT ![b] = 0] /\ misses' = [misses EXCEPT ![b] = 0]

\* The task reaches the badge; the first heartbeat is due at once.
Accept(b) ==
    /\ phase[b] = "offered" /\ b \notin abandoned
    /\ Enter(b, "answering")
    /\ ackAge' = [ackAge EXCEPT ![b] = 0]
    /\ misses' = [misses EXCEPT ![b] = 0]
    /\ call' = [call EXCEPT ![b] = [Sleeping EXCEPT !.age = Interval]]
    /\ UNCHANGED <<serverVars, held, core, told, abandoned, wire>>

\* is_abandoned: no heartbeat is started.
Refuse(b) ==
    /\ phase[b] = "offered" /\ b \in abandoned
    /\ Enter(b, "refusing")
    /\ UNCHANGED <<serverVars, held, ackAge, misses, call, core, told, abandoned, wire>>

\* The answer to the poll is lost.
OfferLost(b) ==
    /\ phase[b] = "offered"
    /\ Release(b)
    /\ UNCHANGED <<serverVars, wire>>

\* Faulty variants: one lost packet is enough; the budget is not looked at.
ExhaustedByOneMiss(b) == misses[b] > 0
NeverExhausted(b) == FALSE

\* heartbeat_budget_exhausted
BudgetExhausted(b) == ackAge[b] >= Budget

\* wait_for_choice looks at cancellation and silence before it looks for a choice.
MayChoose(b) == phase[b] = "answering" /\ b \notin told /\ ~BudgetExhausted(b)

ChooseAnswer(b) ==
    /\ MayChoose(b)
    /\ Enter(b, "feedback")
    /\ UNCHANGED <<serverVars, held, ackAge, misses, call, core, told, abandoned, wire>>

\* Faulty variant: the monitor lives on through the blackout.
PanicKeepsMonitor(b) ==
    /\ MayChoose(b)
    /\ Enter(b, "blackout")
    /\ abandoned' = abandoned \cup {b}
    /\ UNCHANGED <<serverVars, held, ackAge, misses, call, core, told, wire>>

\* The panic Signal delays the blackout further and is left out, as the
\* recovery Signal at its end is.  Writing the session may fail.
Panic(b) ==
    /\ MayChoose(b)
    /\ DropMonitor(b)
    /\ \/ Enter(b, "blackout") /\ abandoned' = abandoned \cup {b}
       \/ Enter(b, "failed") /\ UNCHANGED abandoned
    /\ UNCHANGED <<serverVars, held, core, told, wire>>

\* Silent for too long: an error, which the server retries.
GiveUp(b) ==
    /\ phase[b] = "answering" /\ b \notin told /\ BudgetExhausted(b)
    /\ Enter(b, "failed")
    /\ DropMonitor(b)
    /\ UNCHANGED <<serverVars, held, core, told, abandoned, wire>>

\* Cancelled or stopped, or past the question's deadline or the local runtime
\* ceiling.  The server takes no cancellation it did not ask for, so nothing
\* comes of the report.
LetGo(b) ==
    /\ phase[b] = "answering"
    /\ Release(b)
    /\ UNCHANGED <<serverVars, wire>>

FeedbackEnds(b) ==
    /\ phase[b] = "feedback" /\ since[b] >= Hold
    /\ Enter(b, "finished")
    /\ DropMonitor(b)
    /\ UNCHANGED <<serverVars, held, core, told, abandoned, wire>>

BlackoutEnds(b) ==
    /\ phase[b] = "blackout" /\ since[b] >= Blackout
    /\ Enter(b, "failed")
    /\ UNCHANGED <<serverVars, held, ackAge, misses, call, core, told, abandoned, wire>>

\* The Signal of the refused attempt and the pause after it take any time.
RefusalEnds(b) ==
    /\ phase[b] = "refusing"
    /\ Enter(b, "failed")
    /\ UNCHANGED <<serverVars, held, ackAge, misses, call, core, told, abandoned, wire>>

\* Core evicts the attempt, waiting for a heartbeat in flight, then reports.
Report(b) ==
    /\ phase[b] \in {"finished", "failed"}
    /\ core[b].state # "sent"
    /\ Enter(b, "reporting")
    /\ core' = [core EXCEPT ![b] = NoCore]
    /\ wire' = wire \cup
           {Message(IF phase[b] = "finished" THEN "answer" ELSE "failure", b)}
    /\ UNCHANGED <<serverVars, held, ackAge, misses, call, told, abandoned>>

\* Power is lost or the Worker restarts the badge.
Reboot(b) ==
    /\ phase[b] # "idle"
    /\ Release(b)
    /\ UNCHANGED <<serverVars, wire>>

-----------------------------------------------------------------------------
\* Time.  Nothing that is due is put off: Temporal expires a lease, a badge's
\* single-threaded runtime and its 20 ms loop act, and an RPC ends, within the
\* unit.

NothingDue ==
    /\ lease = "leased" => leaseAge < Timeout
    /\ \A m \in wire : m.age < Latency
    /\ \A b \in Badges :
          /\ phase[b] = "offered" => since[b] < Latency
          /\ phase[b] = "answering" => b \notin told /\ ~BudgetExhausted(b)
          /\ phase[b] = "feedback" => since[b] < Hold
          /\ phase[b] = "blackout" => since[b] < Blackout
          /\ phase[b] \in {"finished", "failed"} => core[b].state = "sent"
          /\ call[b].state = "calling" => call[b].age < Latency
          /\ call[b].state = "sleeping" => call[b].age < Interval
          /\ core[b].state = "sent" => core[b].age < Latency
          /\ core[b].state = "throttled" => core[b].age < Interval

\* Ages nobody reads again stand still, so that there are finitely many.
Older(age, counting) == IF counting THEN age + 1 ELSE age

Tick ==
    /\ NothingDue
    /\ leaseAge' = Older(leaseAge, \/ lease = "leased"
                                   \/ lease = "open" /\ leaseAge < Backoff)
    /\ wire' = {[m EXCEPT !.age = @ + 1] : m \in wire}
    /\ since' = [b \in Badges |->
                    Older(since[b], phase[b] \in {"offered", "feedback", "blackout"})]
    /\ ackAge' = [b \in Badges |-> Older(ackAge[b], phase[b] = "answering")]
    /\ call' = [b \in Badges |->
                   [call[b] EXCEPT !.age = Older(@, call[b].state # "off")]]
    /\ core' = [b \in Badges |->
                   [core[b] EXCEPT !.age = Older(@, core[b].state # "idle")]]
    /\ UNCHANGED <<attempt, lease, phase, held, misses, told, abandoned>>

-----------------------------------------------------------------------------
Server ==
    \/ \E b \in Badges : Dispatch(b)
    \/ Expire \/ Close
    \/ \E m \in wire : ReceiveBeat(m) \/ ReceiveReport(m)

Badge(b) ==
    \/ StartCall(b) \/ Acknowledged(b) \/ Missed(b) \/ Stopped(b)
    \/ CoreDone(b) \/ CoreResumes(b)
    \/ Accept(b) \/ Refuse(b) \/ OfferLost(b)
    \/ ChooseAnswer(b) \/ Panic(b) \/ GiveUp(b) \/ LetGo(b)
    \/ FeedbackEnds(b) \/ BlackoutEnds(b) \/ RefusalEnds(b) \/ Report(b)
    \/ Reboot(b)

Next ==
    \/ Server
    \/ \E b \in Badges : Badge(b)
    \/ \E m \in wire : Lose(m)
    \/ Tick

Spec == Init /\ [][Next]_vars

-----------------------------------------------------------------------------
\* Types.

Phases   == {"idle", "offered", "answering", "feedback", "blackout", "refusing",
             "finished", "failed", "reporting"}
Replies  == {"none", "ok", "gone"}
Messages == [kind : {"direct", "core", "answer", "failure"}, badge : Badges,
             attempt : Nat, age : Nat]

\* Every variable keeps its type, and a badge's silence its budget.
TypeOK ==
    /\ attempt \in Nat /\ lease \in {"open", "leased", "closed"} /\ leaseAge \in Nat
    /\ phase \in [Badges -> Phases] /\ held \in [Badges -> Nat]
    /\ since \in [Badges -> Nat] /\ ackAge \in [Badges -> Nat]
    /\ misses \in [Badges -> Nat]
    /\ call \in [Badges -> [state : {"off", "sleeping", "calling"}, age : Nat,
                            reply : Replies]]
    /\ core \in [Badges -> [state : {"idle", "sent", "throttled"}, age : Nat,
                            reply : Replies, queued : BOOLEAN]]
    /\ \A b \in Badges : ackAge[b] <= Budget
    /\ told \subseteq Badges /\ abandoned \subseteq Badges
    /\ wire \subseteq Messages

-----------------------------------------------------------------------------
\* Safety, each for the networks on which it holds.

\* An answer takes less time to arrive than the server waits longer than the
\* badge.
PromptNetwork == Latency + Budget < Timeout + Backoff

\* "the server reassigning a question the badge still believes it owns is the
\* one ordering that shows two badges the same live question" (contract.rs): at
\* most one badge waits for a choice at a time.  On a PromptNetwork only.
OneLiveBadge ==
    \A b, c \in Badges : phase[b] = "answering" /\ phase[c] = "answering" => b = c

\* A verdict the player has seen counts: until the answer is reported and
\* while it is on its way, the question is not given to anybody else
\* (wait_for_choice refuses choices past the budget; heartbeats go on through
\* FEEDBACK_HOLD).  Where Latency < Interval, so that Core sends at most one
\* more heartbeat before it reports, and Budget + Hold + 3 * Latency <= Timeout.
VerdictIsFinal ==
    /\ \A b \in Badges :
          phase[b] \in {"feedback", "finished"} => held[b] = attempt /\ lease # "open"
    /\ \A m \in wire :
          m.kind = "answer" => m.attempt = attempt /\ lease # "open"

\* A deliberate crash loses the question to the heartbeat timeout, not to the
\* error that ends it: when the blackout ends the attempt is no longer the
\* badge's, whatever heartbeats were under way at the crash.  Where
\* Latency < Interval and Timeout + Latency < Blackout.
CrashLosesQuestion ==
    [][\A b \in Badges : BlackoutEnds(b) => ~Current(held[b])]_vars

\* "a single dropped RPC costs nothing" (contract.rs): a badge that missed one
\* heartbeat since the last answer still has budget, and the server still
\* holds the question for it, from the moment the task arrives.  Where
\* 2 * (Interval + Latency) < Budget and 2 * Interval + 3 * Latency < Timeout.
SingleMissCostsNothing ==
    \A b \in Badges : phase[b] = "answering" /\ misses[b] <= 1 =>
        /\ ~BudgetExhausted(b)
        /\ held[b] = attempt /\ lease # "open"
=============================================================================
