----------------------------- MODULE Controller -----------------------------
(***************************************************************************)
(* The controller process (web/src/main.rs) against the Temporal server:   *)
(* the slot for the one active game, the requests that start a round or    *)
(* send it an Update, the observer that polls it, the snapshot they all    *)
(* publish, and what a restarted process adopts.                           *)
(*                                                                         *)
(* A snapshot is [game, version, status]: the fields of GameSnapshot that  *)
(* change while a round runs are one version number.  Handlers and tasks   *)
(* interleave wherever the code awaits; a process that dies takes its      *)
(* tasks with it, but not the calls that are already on their way.         *)
(***************************************************************************)
EXTENDS Integers, FiniteSets

CONSTANTS
    Games,      \* the game IDs start_game may draw
    NoGame,     \* None
    Requests,   \* HTTP requests served at a time
    MaxVersion  \* bound: changes of one round

ASSUME GamesAssumption == NoGame \notin Games /\ MaxVersion \in Nat

VARIABLES
    \* The server.
    rounds,    \* game -> snapshot its Workflow would answer a Query with
    latest,    \* the game of the latest run of ACTIVE_WORKFLOW_ID
    calls,     \* games whose StartWorkflow call has not reached the server
    \* The controller.
    process,   \* "down", "resuming" (no HTTP yet), "serving"
    slot,      \* active_workflow
    stored,    \* the published snapshot, GET /api/state
    feed,      \* the snapshot last sent to the open pages
    health,    \* temporal_query_succeeded
    requests,  \* request -> [kind, phase, game, got]
    observers, \* game -> [phase, tracksLatest, got]
    \* History.
    lost,      \* games that may start or run unknown to the process
    orphaned   \* the request that took the slot was dropped with its client

serverVars  == <<rounds, latest, calls>>
publishVars == <<stored, feed>>
taskVars    == <<requests, observers>>
vars == <<serverVars, process, slot, publishVars, health, taskVars, lost,
          orphaned>>

Snapshot(g, v, s) == [game |-> g, version |-> v, status |-> s]

\* GameSnapshot::default
Default == Snapshot(NoGame, 0, "waiting")

Idle        == [kind |-> "none", phase |-> "idle", game |-> NoGame, got |-> Default]
NoObserver  == [phase |-> "off", tracksLatest |-> FALSE, got |-> Default]

\* The handle of start_workflow names the run, that of get_workflow_handle does not.
Observer(tracksLatest) ==
    [phase |-> "checking", tracksLatest |-> tracksLatest, got |-> Default]

Init ==
    /\ rounds = [g \in Games |-> Snapshot(g, 0, "waiting")]
    /\ latest = NoGame /\ calls = {}
    /\ process = "resuming" /\ slot = NoGame
    /\ stored = Default /\ feed = Default /\ health = FALSE
    /\ requests = [r \in Requests |-> Idle]
    /\ observers = [g \in Games |-> NoObserver]
    /\ lost = {} /\ orphaned = FALSE

-----------------------------------------------------------------------------
\* The server.  The controller is the Workflow's worker too, so a round moves
\* only while the process is there.

Running == latest # NoGame /\ rounds[latest].status = "running"

Waits(r, g) ==
    /\ requests[r].kind = "start" /\ requests[r].game = g
    /\ requests[r].phase = "calling"

Replied(g, reply) ==
    [r \in Requests |-> IF Waits(r, g) THEN [requests[r] EXCEPT !.phase = reply]
                                       ELSE requests[r]]

\* WorkflowIdConflictPolicy::Fail, WorkflowIdReusePolicy::AllowDuplicate
TakeStart(g) ==
    /\ g \in calls
    /\ calls' = calls \ {g}
    /\ IF Running
       THEN /\ requests' = Replied(g, "refused")
            /\ UNCHANGED <<rounds, latest>>
       ELSE /\ requests' = Replied(g, "accepted")
            /\ rounds' = [rounds EXCEPT ![g] = Snapshot(g, 1, "running")]
            /\ latest' = g
    /\ UNCHANGED <<process, slot, publishVars, health, observers, lost, orphaned>>

Change(status) ==
    /\ Running
    /\ rounds' = [rounds EXCEPT ![latest].version = @ + 1, ![latest].status = status]
    /\ UNCHANGED <<latest, calls>>

Progress ==
    /\ process # "down"
    /\ Running /\ rounds[latest].version < MaxVersion
    /\ Change("running")
    /\ UNCHANGED <<process, slot, publishVars, health, taskVars, lost, orphaned>>

Finish ==
    /\ process # "down"
    /\ Change("finished")
    /\ UNCHANGED <<process, slot, publishVars, health, taskVars, lost, orphaned>>

\* An accepted Update answers with the snapshot it left.
TakeUpdate(r) ==
    /\ process = "serving"
    /\ requests[r].kind = "update" /\ requests[r].phase = "calling"
    /\ Running /\ rounds[latest].version < MaxVersion
    /\ Change("running")
    /\ requests' = [requests EXCEPT ![r].phase = "publishing",
                                    ![r].got = rounds'[latest]]
    /\ UNCHANGED <<process, slot, publishVars, health, observers, lost, orphaned>>

-----------------------------------------------------------------------------
\* Requests.

Free(r) == process = "serving" /\ requests[r].phase = "idle"

\* Faulty variant: nobody looks whether the slot is free.
ReserveBlindly(r, g) ==
    /\ Free(r) /\ rounds[g].status = "waiting" /\ g \notin calls \cup lost
    /\ \A s \in Requests : requests[s].game # g
    /\ slot' = g
    /\ calls' = calls \cup {g}
    /\ requests' = [requests EXCEPT ![r] = [kind |-> "start", phase |-> "calling",
                                            game |-> g, got |-> Default]]
    /\ UNCHANGED <<rounds, latest, process, publishVars, health, observers, lost,
                   orphaned>>

\* start_game up to the Cloud call, under a game ID never drawn before.
Reserve(r, g) ==
    /\ Free(r) /\ rounds[g].status = "waiting" /\ g \notin calls \cup lost
    /\ slot = NoGame
    /\ slot' = g
    /\ calls' = calls \cup {g}
    /\ requests' = [requests EXCEPT ![r] = [kind |-> "start", phase |-> "calling",
                                            game |-> g, got |-> Default]]
    /\ UNCHANGED <<rounds, latest, process, publishVars, health, observers, lost,
                   orphaned>>

\* The call fails, or its answer is lost: the server may have started the round,
\* or may still do so.
StartFails(r) ==
    /\ requests[r].kind = "start"
    /\ requests[r].phase \in {"calling", "accepted", "refused"}
    /\ slot' = IF slot = requests[r].game THEN NoGame ELSE slot
    /\ requests' = [requests EXCEPT ![r] = Idle]
    /\ lost' = IF requests[r].phase = "refused" THEN lost
                                                ELSE lost \cup {requests[r].game}
    /\ UNCHANGED <<serverVars, process, publishVars, health, observers, orphaned>>

\* The client hangs up and axum drops the handler where it awaits, after the
\* reservation: what clears the slot or spawns the observer never runs.  The
\* second half of publish and the spawn follow the first without an await.
StartDropped(r) ==
    /\ requests[r].kind = "start"
    /\ requests[r].phase \in {"calling", "accepted", "refused", "publishing"}
    /\ requests' = [requests EXCEPT ![r] = Idle]
    /\ orphaned' = TRUE
    /\ UNCHANGED <<serverVars, process, slot, publishVars, health, observers, lost>>

\* Faulty variant: the board is told before the server has answered.
StartPublishedAtOnce(r) ==
    /\ requests[r].kind = "start" /\ requests[r].phase \in {"calling", "accepted"}
    /\ requests' = [requests EXCEPT
          ![r].phase = "publishing",
          ![r].got = Snapshot(requests[r].game, 0, "running")]
    /\ UNCHANGED <<serverVars, process, slot, publishVars, health, observers, lost,
                   orphaned>>

\* The board is told before the Workflow is asked anything.
StartAnswered(r) ==
    /\ requests[r].kind = "start" /\ requests[r].phase = "accepted"
    /\ requests' = [requests EXCEPT
          ![r].phase = "publishing",
          ![r].got = Snapshot(requests[r].game, 0, "running")]
    /\ UNCHANGED <<serverVars, process, slot, publishVars, health, observers, lost,
                   orphaned>>

\* end_round and apply_chaos up to the Cloud call.
CheckSlot(r) ==
    /\ Free(r) /\ slot # NoGame
    /\ requests' = [requests EXCEPT ![r] = [Idle EXCEPT !.kind = "update",
                                                        !.phase = "calling"]]
    /\ UNCHANGED <<serverVars, process, slot, publishVars, health, observers, lost,
                   orphaned>>

\* The validator declines, the call fails, its answer is lost, or the client
\* hangs up.
UpdateFails(r) ==
    /\ requests[r].kind = "update" /\ requests[r].phase \in {"calling", "publishing"}
    /\ requests' = [requests EXCEPT ![r] = Idle]
    /\ UNCHANGED <<serverVars, process, slot, publishVars, health, observers, lost,
                   orphaned>>

\* publish, first half: the stored snapshot is replaced whatever it was.
Write(r) ==
    /\ requests[r].phase = "publishing"
    /\ stored' = requests[r].got
    /\ requests' = [requests EXCEPT ![r].phase = "sending"]
    /\ UNCHANGED <<serverVars, process, slot, feed, health, observers, lost,
                   orphaned>>

\* publish, second half; a start then spawns the observer of its round.
Send(r) ==
    /\ requests[r].phase = "sending"
    /\ feed' = requests[r].got
    /\ requests' = [requests EXCEPT ![r] = Idle]
    /\ observers' = IF requests[r].kind = "start"
                    THEN [observers EXCEPT ![requests[r].game] = Observer(FALSE)]
                    ELSE observers
    /\ UNCHANGED <<serverVars, process, slot, stored, health, lost, orphaned>>

-----------------------------------------------------------------------------
\* observe_workflow.

Observed(g) == IF observers[g].tracksLatest THEN rounds[latest] ELSE rounds[g]

\* The head of the loop.
ObserverChecks(g) ==
    /\ observers[g].phase = "checking"
    /\ observers' = [observers EXCEPT
          ![g] = IF slot = g THEN [@ EXCEPT !.phase = "asking"] ELSE NoObserver]
    /\ UNCHANGED <<serverVars, process, slot, publishVars, health, requests, lost,
                   orphaned>>

\* The Query succeeds; what it returned may be old when it is published.
ObserverAnswered(g) ==
    /\ observers[g].phase = "asking"
    /\ observers' = [observers EXCEPT ![g].phase = "publishing", ![g].got = Observed(g)]
    /\ health' = TRUE
    /\ UNCHANGED <<serverVars, process, slot, publishVars, requests, lost,
                   orphaned>>

\* Faulty variant: one failed Query ends the observer.
ObserverGivesUp(g) ==
    /\ observers[g].phase = "asking"
    /\ observers' = [observers EXCEPT ![g] = NoObserver]
    /\ UNCHANGED <<serverVars, process, slot, publishVars, health, requests, lost,
                   orphaned>>

\* The Query fails; after a pause of observer_delay it is tried again.
ObserverRefused(g) ==
    /\ observers[g].phase = "asking"
    /\ observers' = [observers EXCEPT ![g].phase = "checking"]
    /\ UNCHANGED <<serverVars, process, slot, publishVars, health, requests, lost,
                   orphaned>>

ObserverWrites(g) ==
    /\ observers[g].phase = "publishing"
    /\ stored' = observers[g].got
    /\ observers' = [observers EXCEPT ![g].phase = "sending"]
    /\ UNCHANGED <<serverVars, process, slot, feed, health, requests, lost,
                   orphaned>>

ObserverSends(g) ==
    /\ observers[g].phase = "sending"
    /\ feed' = observers[g].got
    /\ observers' = [observers EXCEPT
          ![g].phase = IF observers[g].got.status = "finished" THEN "leaving"
                                                               ELSE "checking"]
    /\ UNCHANGED <<serverVars, process, slot, stored, health, requests, lost,
                   orphaned>>

ObserverLeaves(g) ==
    /\ observers[g].phase = "leaving"
    /\ slot' = IF slot = g THEN NoGame ELSE slot
    /\ observers' = [observers EXCEPT ![g] = NoObserver]
    /\ UNCHANGED <<serverVars, process, publishVars, health, requests, lost,
                   orphaned>>

-----------------------------------------------------------------------------
\* The process ends, by crash_worker or otherwise, and run-web.sh restarts it.

Crash ==
    /\ process # "down"
    /\ process' = "down" /\ slot' = NoGame /\ orphaned' = FALSE
    /\ stored' = Default /\ health' = FALSE
    /\ requests' = [r \in Requests |-> Idle]
    /\ observers' = [g \in Games |-> NoObserver]
    /\ UNCHANGED <<serverVars, feed, lost>>

Restart ==
    /\ process = "down"
    /\ process' = "resuming"
    /\ UNCHANGED <<serverVars, slot, publishVars, health, taskVars, lost, orphaned>>

\* Faulty variant: a running round is shown but not followed.
ResumeWithoutObserver ==
    /\ process = "resuming" /\ latest # NoGame
    /\ process' = "serving" /\ health' = TRUE
    /\ stored' = rounds[latest]
    /\ lost' = IF Running THEN (lost \cup calls) \ {latest} ELSE lost \cup calls
    /\ UNCHANGED <<serverVars, slot, feed, requests, observers, orphaned>>

\* resume_active_game: the one Query is answered.  Nobody is connected yet.
ResumeAnswered ==
    /\ process = "resuming" /\ latest # NoGame
    /\ process' = "serving" /\ health' = TRUE
    /\ stored' = rounds[latest]
    /\ IF Running
       THEN /\ slot' = latest
            /\ observers' = [observers EXCEPT ![latest] = Observer(TRUE)]
            /\ lost' = (lost \cup calls) \ {latest}
       ELSE /\ lost' = lost \cup calls
            /\ UNCHANGED <<slot, observers>>
    /\ UNCHANGED <<serverVars, feed, requests, orphaned>>

\* Faulty variant: the claim is a literal true.
ResumeFailsUnnoticed ==
    /\ process = "resuming"
    /\ process' = "serving" /\ health' = TRUE
    /\ lost' = lost \cup calls \cup (IF Running THEN {latest} ELSE {})
    /\ UNCHANGED <<serverVars, slot, publishVars, requests, observers, orphaned>>

\* The one Query fails, or there has never been a round.
ResumeFails ==
    /\ process = "resuming"
    /\ process' = "serving" /\ health' = FALSE
    /\ lost' = lost \cup calls \cup (IF Running THEN {latest} ELSE {})
    /\ UNCHANGED <<serverVars, slot, publishVars, requests, observers, orphaned>>

-----------------------------------------------------------------------------
Request(r) ==
    \/ \E g \in Games : Reserve(r, g)
    \/ StartFails(r) \/ StartAnswered(r) \/ StartDropped(r)
    \/ CheckSlot(r) \/ TakeUpdate(r) \/ UpdateFails(r)
    \/ Write(r) \/ Send(r)

Observe(g) ==
    \/ ObserverChecks(g) \/ ObserverAnswered(g) \/ ObserverRefused(g)
    \/ ObserverWrites(g) \/ ObserverSends(g) \/ ObserverLeaves(g)

Next ==
    \/ \E g \in Games : TakeStart(g) \/ Observe(g)
    \/ \E r \in Requests : Request(r)
    \/ Progress \/ Finish
    \/ Crash \/ Restart \/ ResumeAnswered \/ ResumeFails

Spec == Init /\ [][Next]_vars

\* The runtime runs its tasks, calls end, a round ends (RoundFinishes of
\* GameWorkflow), and of the Queries asked again and again some succeed.
Fairness ==
    /\ \A r \in Requests :
          /\ WF_vars(StartFails(r) \/ StartAnswered(r))
          /\ WF_vars(Write(r)) /\ WF_vars(Send(r))
    /\ \A g \in Games :
          /\ WF_vars(ObserverChecks(g)) /\ SF_vars(ObserverAnswered(g))
          /\ WF_vars(ObserverWrites(g)) /\ WF_vars(ObserverSends(g))
          /\ WF_vars(ObserverLeaves(g))
    /\ WF_vars(Finish)

FairSpec == Spec /\ Fairness

-----------------------------------------------------------------------------
Statuses == {"waiting", "running", "finished"}
Snapshots == [game : Games \cup {NoGame}, version : Nat, status : Statuses]

\* Every variable keeps its type.
TypeOK ==
    /\ rounds \in [Games -> Snapshots] /\ latest \in Games \cup {NoGame}
    /\ calls \subseteq Games /\ lost \subseteq Games /\ orphaned \in BOOLEAN
    /\ process \in {"down", "resuming", "serving"}
    /\ slot \in Games \cup {NoGame}
    /\ stored \in Snapshots /\ feed \in Snapshots /\ health \in BOOLEAN
    /\ requests \in [Requests ->
          [kind : {"none", "start", "update"},
           phase : {"idle", "calling", "accepted", "refused", "publishing", "sending"},
           game : Games \cup {NoGame}, got : Snapshots]]
    /\ observers \in [Games ->
          [phase : {"off", "checking", "asking", "publishing", "sending", "leaving"},
           tracksLatest : BOOLEAN, got : Snapshots]]

Starting(r) == requests[r].kind = "start"
Observing(g) == observers[g].phase # "off"

\* The slot is held by exactly one task that will give it back: the request that
\* starts the round until it spawns the observer, the observer afterwards; or by
\* nobody, which only the dropped handler of that request leaves behind.  No task
\* is left that works on a round the slot does not name, whatever fails in between
\* (start_game, observe_workflow, resume_active_game).
SlotOwned ==
    /\ \A r \in Requests : Starting(r) =>
          /\ slot = requests[r].game
          /\ ~Observing(slot)
          /\ \A s \in Requests \ {r} : ~Starting(s)
    /\ \A g \in Games : Observing(g) => slot = g
    /\ slot # NoGame => orphaned \/ Observing(slot) \/ \E r \in Requests : Starting(r)
    /\ orphaned => /\ slot # NoGame /\ ~Observing(slot)
                   /\ \A r \in Requests : ~Starting(r)

\* A running round is the one in the slot.  The exceptions are exactly the rounds
\* this process cannot know of: the answer to their start was lost, their start
\* arrived after the process resumed, or the one Query of the resume failed.
RunningRoundKnown ==
    process = "serving" /\ Running => slot = latest \/ latest \in lost

Real(s) ==
    s.game # NoGame =>
        /\ rounds[s.game].status # "waiting"
        /\ s.version <= rounds[s.game].version
        /\ s.status = "finished" => rounds[s.game] = s

\* What the board shows is never ahead of the round: no round that the server
\* has not started, no change that has not happened, no final standings of a
\* round that still runs, however late the publishers are.
BoardNeverAhead == Real(stored) /\ Real(feed)

\* A process that claims to have Temporal's answer (recovery_proof) has a board
\* to show for it, also when the answer came after a failed resume.
ClaimBacked == process = "serving" /\ health => stored # Default

\* A slot that is taken is free again some day, so that the operator can start
\* the next round, whatever calls fail and whenever the process dies, unless the
\* client of its start_game hangs up before the observer is spawned.
SlotFreed == \A g \in Games : slot = g ~> slot # g \/ orphaned

\* "The final board freezes in place" (GAME_SPEC.md): once the final standings
\* are published, only another round replaces them.
FinalBoardFreezes ==
    [][stored.status = "finished" /\ stored'.game = stored.game
          => stored' = stored]_vars

\* "do not accept HTTP connections until Temporal has answered the restoration
\* query" (main): a restarted process that begins to serve shows the running round.
ServesRestoredState ==
    [][process = "resuming" /\ process' = "serving" /\ Running
          => stored' = rounds[latest]]_vars
=============================================================================
