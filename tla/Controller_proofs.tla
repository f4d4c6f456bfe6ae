--------------------------- MODULE Controller_proofs ---------------------------
(***************************************************************************)
(* Proofs about Controller, for every set of games and requests and every  *)
(* number of changes and restarts.                                         *)
(***************************************************************************)
EXTENDS Controller, TLAPS

-----------------------------------------------------------------------------
(***************************************************************************)
(* Types, and what the building blocks of the actions change.              *)
(***************************************************************************)

Kinds == {"none", "start", "update"}
Phases == {"idle", "calling", "accepted", "refused", "publishing", "sending"}
RequestTypes == [kind : Kinds, phase : Phases, game : Games \cup {NoGame}, got : Snapshots]
Stages == {"off", "checking", "asking", "publishing", "sending", "leaving"}
ObserverTypes == [phase : Stages, tracksLatest : BOOLEAN, got : Snapshots]

TypeParts ==
    /\ rounds \in [Games -> Snapshots] /\ latest \in Games \cup {NoGame}
    /\ calls \subseteq Games /\ lost \subseteq Games /\ orphaned \in BOOLEAN
    /\ process \in {"down", "resuming", "serving"}
    /\ slot \in Games \cup {NoGame}
    /\ stored \in Snapshots /\ feed \in Snapshots /\ health \in BOOLEAN
    /\ requests \in [Requests -> RequestTypes]
    /\ observers \in [Games -> ObserverTypes]

LEMMA TypesByParts == TypeOK <=> TypeParts
  BY DEF TypeOK, TypeParts, RequestTypes, ObserverTypes, Kinds, Phases, Stages

LEMMA TypesByPartsPrimed == TypeOK' <=> TypeParts'
  BY DEF TypeOK, TypeParts, RequestTypes, ObserverTypes, Kinds, Phases, Stages

LEMMA SnapshotTypes ==
    ASSUME NEW g \in Games \cup {NoGame}, NEW v \in Nat, NEW s \in Statuses
    PROVE  /\ Snapshot(g, v, s) \in Snapshots
           /\ Snapshot(g, v, s).game = g /\ Snapshot(g, v, s).status = s
           /\ Snapshot(g, v, s).version = v
  BY DEF Snapshot, Snapshots

LEMMA DefaultType == Default \in Snapshots /\ Default.game = NoGame
<1>1. "waiting" \in Statuses /\ NoGame \in Games \cup {NoGame} /\ 0 \in Nat
  BY DEF Statuses
<1> QED BY <1>1, SnapshotTypes DEF Default

LEMMA IdleType ==
    /\ Idle \in RequestTypes /\ Idle.kind = "none" /\ Idle.phase = "idle"
    /\ Idle.got = Default
  BY DefaultType DEF Idle, RequestTypes, Kinds, Phases

LEMMA NoObserverType ==
    /\ NoObserver \in ObserverTypes /\ NoObserver.phase = "off" /\ NoObserver.got = Default
    /\ ~NoObserver.tracksLatest
  BY DefaultType DEF NoObserver, ObserverTypes, Stages

LEMMA ObserverType ==
    ASSUME NEW tracks \in BOOLEAN
    PROVE  /\ Observer(tracks) \in ObserverTypes
           /\ Observer(tracks).phase = "checking" /\ Observer(tracks).got = Default
           /\ Observer(tracks).tracksLatest = tracks
  BY DefaultType DEF Observer, ObserverTypes, Stages

\* A request is replaced.
LEMMA RequestSet ==
    ASSUME TypeOK, NEW r \in Requests, NEW x \in RequestTypes,
           requests' = [requests EXCEPT ![r] = x]
    PROVE  /\ requests' \in [Requests -> RequestTypes]
           /\ requests'[r] = x
           /\ \A s \in Requests \ {r} : requests'[s] = requests[s]
<1>1. requests \in [Requests -> RequestTypes]
  BY TypesByParts DEF TypeParts
<1> QED BY <1>1

\* It goes on to another phase.
LEMMA RequestPhase ==
    ASSUME TypeOK, NEW r \in Requests, NEW p \in Phases,
           requests' = [requests EXCEPT ![r].phase = p]
    PROVE  /\ requests' \in [Requests -> RequestTypes]
           /\ requests'[r].phase = p /\ requests'[r].kind = requests[r].kind
           /\ requests'[r].game = requests[r].game /\ requests'[r].got = requests[r].got
           /\ \A s \in Requests \ {r} : requests'[s] = requests[s]
<1> DEFINE x == [requests[r] EXCEPT !.phase = p]
<1>1. requests \in [Requests -> RequestTypes]
  BY TypesByParts DEF TypeParts
<1>2. /\ x \in RequestTypes /\ x.phase = p /\ x.kind = requests[r].kind
      /\ x.game = requests[r].game /\ x.got = requests[r].got
  BY <1>1 DEF RequestTypes
<1>3. requests' = [requests EXCEPT ![r] = x]
  OBVIOUS
<1> HIDE DEF x
<1> QED BY <1>1, <1>2, <1>3

\* It has a snapshot to publish.
LEMMA RequestPublishes ==
    ASSUME TypeOK, NEW r \in Requests, NEW got \in Snapshots,
           requests' = [requests EXCEPT ![r].phase = "publishing", ![r].got = got]
    PROVE  /\ requests' \in [Requests -> RequestTypes]
           /\ requests'[r].phase = "publishing" /\ requests'[r].kind = requests[r].kind
           /\ requests'[r].game = requests[r].game /\ requests'[r].got = got
           /\ \A s \in Requests \ {r} : requests'[s] = requests[s]
<1> DEFINE x == [requests[r] EXCEPT !.phase = "publishing", !.got = got]
<1>1. requests \in [Requests -> RequestTypes]
  BY TypesByParts DEF TypeParts
<1>2. /\ x \in RequestTypes /\ x.phase = "publishing" /\ x.kind = requests[r].kind
      /\ x.game = requests[r].game /\ x.got = got
  BY <1>1 DEF RequestTypes, Phases
<1>3. requests' = [requests EXCEPT ![r] = x]
  BY <1>1
<1> HIDE DEF x
<1> QED BY <1>1, <1>2, <1>3

\* The server answers the calls for a game.
LEMMA RequestReplies ==
    ASSUME TypeOK, NEW g \in Games, NEW p \in Phases, requests' = Replied(g, p)
    PROVE  /\ requests' \in [Requests -> RequestTypes]
           /\ \A r \in Requests :
                 /\ requests'[r].kind = requests[r].kind
                 /\ requests'[r].game = requests[r].game
                 /\ requests'[r].got = requests[r].got
                 /\ Waits(r, g) => requests'[r].phase = p
                 /\ ~Waits(r, g) => requests'[r] = requests[r]
<1> DEFINE x(r) == [requests[r] EXCEPT !.phase = p]
<1>1. requests \in [Requests -> RequestTypes]
  BY TypesByParts DEF TypeParts
<1>2. \A r \in Requests :
         /\ x(r) \in RequestTypes /\ x(r).phase = p /\ x(r).kind = requests[r].kind
         /\ x(r).game = requests[r].game /\ x(r).got = requests[r].got
  BY <1>1 DEF RequestTypes
<1>3. requests' = [r \in Requests |-> IF Waits(r, g) THEN x(r) ELSE requests[r]]
  BY DEF Replied
<1> HIDE DEF x
<1>4. requests' \in [Requests -> RequestTypes]
  BY <1>1, <1>2, <1>3
<1>5. \A r \in Requests : requests'[r] = IF Waits(r, g) THEN x(r) ELSE requests[r]
  BY <1>3
<1> QED BY <1>2, <1>4, <1>5

LEMMA ObserverSet ==
    ASSUME TypeOK, NEW g \in Games, NEW x \in ObserverTypes,
           observers' = [observers EXCEPT ![g] = x]
    PROVE  /\ observers' \in [Games -> ObserverTypes]
           /\ observers'[g] = x
           /\ \A h \in Games \ {g} : observers'[h] = observers[h]
<1>1. observers \in [Games -> ObserverTypes]
  BY TypesByParts DEF TypeParts
<1> QED BY <1>1

LEMMA ObserverPhase ==
    ASSUME TypeOK, NEW g \in Games, NEW p \in Stages,
           observers' = [observers EXCEPT ![g].phase = p]
    PROVE  /\ observers' \in [Games -> ObserverTypes]
           /\ observers'[g].phase = p /\ observers'[g].got = observers[g].got
           /\ observers'[g].tracksLatest = observers[g].tracksLatest
           /\ \A h \in Games \ {g} : observers'[h] = observers[h]
<1> DEFINE x == [observers[g] EXCEPT !.phase = p]
<1>1. observers \in [Games -> ObserverTypes]
  BY TypesByParts DEF TypeParts
<1>2. /\ x \in ObserverTypes /\ x.phase = p /\ x.got = observers[g].got
      /\ x.tracksLatest = observers[g].tracksLatest
  BY <1>1 DEF ObserverTypes
<1>3. observers' = [observers EXCEPT ![g] = x]
  OBVIOUS
<1> HIDE DEF x
<1> QED BY <1>1, <1>2, <1>3

LEMMA ObserverPublishes ==
    ASSUME TypeOK, NEW g \in Games, NEW got \in Snapshots,
           observers' = [observers EXCEPT ![g].phase = "publishing", ![g].got = got]
    PROVE  /\ observers' \in [Games -> ObserverTypes]
           /\ observers'[g].phase = "publishing" /\ observers'[g].got = got
           /\ observers'[g].tracksLatest = observers[g].tracksLatest
           /\ \A h \in Games \ {g} : observers'[h] = observers[h]
<1> DEFINE x == [observers[g] EXCEPT !.phase = "publishing", !.got = got]
<1>1. observers \in [Games -> ObserverTypes]
  BY TypesByParts DEF TypeParts
<1>2. /\ x \in ObserverTypes /\ x.phase = "publishing" /\ x.got = got
      /\ x.tracksLatest = observers[g].tracksLatest
  BY <1>1 DEF ObserverTypes, Stages
<1>3. observers' = [observers EXCEPT ![g] = x]
  BY <1>1
<1> HIDE DEF x
<1> QED BY <1>1, <1>2, <1>3

\* The running round changes.
LEMMA RoundChanges ==
    ASSUME TypeOK, NEW status \in Statuses, Change(status)
    PROVE  /\ rounds' \in [Games -> Snapshots] /\ latest \in Games
           /\ rounds[latest].status = "running"
           /\ rounds'[latest].game = rounds[latest].game
           /\ rounds'[latest].status = status
           /\ rounds'[latest].version = rounds[latest].version + 1
           /\ rounds[latest].version \in Nat
           /\ \A g \in Games \ {latest} : rounds'[g] = rounds[g]
           /\ latest' = latest /\ calls' = calls
<1> DEFINE v == rounds[latest].version + 1
           x == [rounds[latest] EXCEPT !.version = v, !.status = status]
<1>1. rounds \in [Games -> Snapshots] /\ latest \in Games \cup {NoGame}
  BY TypesByParts DEF TypeParts
<1>2. latest \in Games /\ rounds[latest].status = "running"
  BY <1>1 DEF Change, Running
<1>3. rounds[latest].version \in Nat /\ v \in Nat
  BY <1>1, <1>2 DEF Snapshots
<1>4. rounds' = [rounds EXCEPT ![latest].version = v, ![latest].status = status]
  BY DEF Change
<1> HIDE DEF v
<1>5. x \in Snapshots /\ x.version = v /\ x.status = status /\ x.game = rounds[latest].game
  BY <1>1, <1>2, <1>3 DEF Snapshots
<1>6. rounds' = [rounds EXCEPT ![latest] = x]
  BY <1>1, <1>2, <1>4
<1> HIDE DEF x
<1>7. /\ rounds' \in [Games -> Snapshots] /\ rounds'[latest] = x
      /\ \A g \in Games \ {latest} : rounds'[g] = rounds[g]
  BY <1>1, <1>2, <1>5, <1>6
<1>8. latest' = latest /\ calls' = calls
  BY DEF Change
<1> QED BY <1>2, <1>3, <1>5, <1>7, <1>8 DEF v

\* A round starts.
LEMMA RoundStarts ==
    ASSUME TypeOK, NEW g \in Games, rounds' = [rounds EXCEPT ![g] = Snapshot(g, 1, "running")]
    PROVE  /\ rounds' \in [Games -> Snapshots]
           /\ rounds'[g].game = g /\ rounds'[g].status = "running"
           /\ \A h \in Games \ {g} : rounds'[h] = rounds[h]
<1> DEFINE x == Snapshot(g, 1, "running")
<1>1. rounds \in [Games -> Snapshots]
  BY TypesByParts DEF TypeParts
<1>2. x \in Snapshots /\ x.game = g /\ x.status = "running"
  <2>1. "running" \in Statuses /\ 1 \in Nat /\ g \in Games \cup {NoGame}
    BY DEF Statuses
  <2> QED BY <2>1, SnapshotTypes
<1> HIDE DEF x
<1>3. rounds' = [rounds EXCEPT ![g] = x]
  BY DEF x
<1> QED BY <1>1, <1>2, <1>3

LEMMA ObservedType ==
    ASSUME TypeOK, NEW g \in Games, latest # NoGame
    PROVE  Observed(g) \in Snapshots
  BY TypesByParts DEF TypeParts, Observed
\* Every step is one of these.
LEMMA Steps ==
    ASSUME Next
    PROVE  \/ \E g \in Games : \/ TakeStart(g) \/ ObserverChecks(g) \/ ObserverAnswered(g)
                               \/ ObserverRefused(g) \/ ObserverWrites(g)
                               \/ ObserverSends(g) \/ ObserverLeaves(g)
           \/ \E r \in Requests, g \in Games : Reserve(r, g)
           \/ \E r \in Requests : \/ StartFails(r) \/ StartAnswered(r) \/ StartDropped(r)
                                  \/ CheckSlot(r) \/ TakeUpdate(r) \/ UpdateFails(r)
                                  \/ Write(r) \/ Send(r)
           \/ Progress \/ Finish
           \/ Crash \/ Restart \/ ResumeAnswered \/ ResumeFails
  BY DEF Next, Request, Observe

-----------------------------------------------------------------------------
(***************************************************************************)
(* Types.  An observer that asks for the latest round needs one to exist,  *)
(* a request that starts a round has a game ID.                            *)
(***************************************************************************)

TracksInv == \A g \in Games : observers[g].tracksLatest => latest # NoGame

StartsInv == \A r \in Requests : Starting(r) => requests[r].game \in Games

LEMMA TypesInitially == Init => TypeOK /\ TracksInv /\ StartsInv
<1> SUFFICES ASSUME Init PROVE TypeOK /\ TracksInv /\ StartsInv
  OBVIOUS
<1>1. \A g \in Games : Snapshot(g, 0, "waiting") \in Snapshots
  <2>1. "waiting" \in Statuses /\ 0 \in Nat
    BY DEF Statuses
  <2> QED BY <2>1, SnapshotTypes
<1>2. rounds \in [Games -> Snapshots]
  BY <1>1 DEF Init
<1>3. requests \in [Requests -> RequestTypes]
  BY IdleType DEF Init
<1>4. observers \in [Games -> ObserverTypes] /\ \A g \in Games : ~observers[g].tracksLatest
  BY NoObserverType DEF Init
<1>5. TypeParts
  BY <1>2, <1>3, <1>4, DefaultType DEF Init, TypeParts
<1>6. StartsInv
  BY IdleType DEF Init, StartsInv, Starting
<1> QED BY <1>4, <1>5, <1>6, TypesByParts DEF TracksInv

LEMMA TypesStep ==
    ASSUME TypeOK, TracksInv, StartsInv, [Next]_vars
    PROVE  TypeOK' /\ TracksInv'
<1>1. /\ rounds \in [Games -> Snapshots] /\ latest \in Games \cup {NoGame}
      /\ calls \subseteq Games /\ lost \subseteq Games /\ orphaned \in BOOLEAN
      /\ process \in {"down", "resuming", "serving"}
      /\ slot \in Games \cup {NoGame}
      /\ stored \in Snapshots /\ feed \in Snapshots /\ health \in BOOLEAN
      /\ requests \in [Requests -> RequestTypes]
      /\ observers \in [Games -> ObserverTypes]
  BY TypesByParts DEF TypeParts
<1> SUFFICES TypeParts' /\ TracksInv'
  BY TypesByPartsPrimed
<1>2. \A r \in Requests : requests[r].game \in Games \cup {NoGame} /\ requests[r].got \in Snapshots
  BY <1>1 DEF RequestTypes
<1>3. \A g \in Games : observers[g].got \in Snapshots
  BY <1>1 DEF ObserverTypes
<1>4. ASSUME UNCHANGED <<latest, observers>>
      PROVE  TracksInv'
  BY <1>4 DEF TracksInv
\* The server.
<1>5. ASSUME NEW g \in Games, TakeStart(g)
      PROVE  TypeParts' /\ TracksInv'
  <2>1. /\ calls' = calls \ {g}
        /\ UNCHANGED <<process, slot, publishVars, health, observers, lost, orphaned>>
    BY <1>5 DEF TakeStart
  <2>2. /\ requests' = Replied(g, "refused") \/ requests' = Replied(g, "accepted")
        /\ \/ UNCHANGED <<rounds, latest>>
           \/ rounds' = [rounds EXCEPT ![g] = Snapshot(g, 1, "running")] /\ latest' = g
    BY <1>5 DEF TakeStart
  <2>3. "refused" \in Phases /\ "accepted" \in Phases
    BY DEF Phases
  <2>4. requests' \in [Requests -> RequestTypes]
    BY <2>2, <2>3, RequestReplies
  <2>5. rounds' \in [Games -> Snapshots] /\ latest' \in Games \cup {NoGame}
    BY <1>1, <2>2, RoundStarts
  <2>6. TypeParts'
    BY <1>1, <2>1, <2>4, <2>5 DEF TypeParts, publishVars
  <2>7. latest' = latest \/ latest' # NoGame
    BY <2>2, GamesAssumption
  <2>8. TracksInv'
    BY <2>1, <2>7 DEF TracksInv
  <2> QED BY <2>6, <2>8
<1>6. ASSUME Progress \/ Finish
      PROVE  TypeParts' /\ TracksInv'
  <2>1. /\ Change("running") \/ Change("finished")
        /\ UNCHANGED <<process, slot, publishVars, health, taskVars, lost, orphaned>>
    BY <1>6 DEF Progress, Finish
  <2>2. "running" \in Statuses /\ "finished" \in Statuses
    BY DEF Statuses
  <2>3. rounds' \in [Games -> Snapshots] /\ latest' = latest /\ calls' = calls
    BY <2>1, <2>2, RoundChanges
  <2>4. TypeParts'
    BY <1>1, <2>1, <2>3 DEF TypeParts, publishVars, taskVars
  <2> QED BY <1>4, <2>1, <2>3, <2>4 DEF taskVars
<1>7. ASSUME NEW r \in Requests, TakeUpdate(r)
      PROVE  TypeParts' /\ TracksInv'
  <2>1. /\ Change("running")
        /\ requests' = [requests EXCEPT ![r].phase = "publishing", ![r].got = rounds'[latest]]
        /\ UNCHANGED <<process, slot, publishVars, health, observers, lost, orphaned>>
    BY <1>7 DEF TakeUpdate
  <2>2. "running" \in Statuses
    BY DEF Statuses
  <2>3. /\ rounds' \in [Games -> Snapshots] /\ latest \in Games
        /\ latest' = latest /\ calls' = calls
    BY <2>1, <2>2, RoundChanges
  <2>4. rounds'[latest] \in Snapshots
    BY <2>3
  <2>5. requests' \in [Requests -> RequestTypes]
    BY <2>1, <2>4, RequestPublishes
  <2>6. TypeParts'
    BY <1>1, <2>1, <2>3, <2>5 DEF TypeParts, publishVars
  <2> QED BY <1>4, <2>1, <2>3, <2>6
\* Requests.
<1>8. ASSUME NEW r \in Requests, NEW g \in Games, Reserve(r, g)
      PROVE  TypeParts' /\ TracksInv'
  <2> DEFINE x == [kind |-> "start", phase |-> "calling", game |-> g, got |-> Default]
  <2>1. /\ slot' = g /\ calls' = calls \cup {g} /\ requests' = [requests EXCEPT ![r] = x]
        /\ UNCHANGED <<rounds, latest, process, publishVars, health, observers, lost, orphaned>>
    BY <1>8 DEF Reserve
  <2>2. x \in RequestTypes
    BY DefaultType DEF RequestTypes, Kinds, Phases
  <2> HIDE DEF x
  <2>3. requests' \in [Requests -> RequestTypes]
    BY <2>1, <2>2, RequestSet
  <2>4. TypeParts'
    BY <1>1, <2>1, <2>3 DEF TypeParts, publishVars
  <2> QED BY <1>4, <2>1, <2>4
<1>9. ASSUME NEW r \in Requests, StartFails(r)
      PROVE  TypeParts' /\ TracksInv'
  <2>1. /\ slot' = NoGame \/ slot' = slot
        /\ requests' = [requests EXCEPT ![r] = Idle]
        /\ lost' = lost \/ (requests[r].kind = "start" /\ lost' = lost \cup {requests[r].game})
        /\ UNCHANGED <<serverVars, process, publishVars, health, observers, orphaned>>
    BY <1>9 DEF StartFails
  <2>2. requests' \in [Requests -> RequestTypes]
    BY <2>1, IdleType, RequestSet
  <2>3. lost' \subseteq Games
    BY <1>1, <2>1 DEF StartsInv, Starting
  <2>4. TypeParts'
    BY <1>1, <2>1, <2>2, <2>3 DEF TypeParts, publishVars, serverVars
  <2> QED BY <1>4, <2>1, <2>4 DEF serverVars
<1>10. ASSUME NEW r \in Requests, StartAnswered(r)
       PROVE  TypeParts' /\ TracksInv'
  <2> DEFINE got == Snapshot(requests[r].game, 0, "running")
  <2>1. /\ requests' = [requests EXCEPT ![r].phase = "publishing", ![r].got = got]
        /\ UNCHANGED <<serverVars, process, slot, publishVars, health, observers, lost, orphaned>>
    BY <1>10 DEF StartAnswered
  <2>2. got \in Snapshots
    <3>1. "running" \in Statuses /\ 0 \in Nat
      BY DEF Statuses
    <3> QED BY <1>2, <3>1, SnapshotTypes
  <2> HIDE DEF got
  <2>3. requests' \in [Requests -> RequestTypes]
    BY <2>1, <2>2, RequestPublishes
  <2>4. TypeParts'
    BY <1>1, <2>1, <2>3 DEF TypeParts, publishVars, serverVars
  <2> QED BY <1>4, <2>1, <2>4 DEF serverVars
<1>11. ASSUME NEW r \in Requests, CheckSlot(r) \/ UpdateFails(r) \/ StartDropped(r)
       PROVE  TypeParts' /\ TracksInv'
  <2> DEFINE x == [Idle EXCEPT !.kind = "update", !.phase = "calling"]
  <2>1. /\ requests' = [requests EXCEPT ![r] = x] \/ requests' = [requests EXCEPT ![r] = Idle]
        /\ orphaned' = orphaned \/ orphaned' = TRUE
        /\ UNCHANGED <<serverVars, process, slot, publishVars, health, observers, lost>>
    BY <1>11 DEF CheckSlot, UpdateFails, StartDropped
  <2>2. x \in RequestTypes
    BY IdleType DEF RequestTypes, Kinds, Phases
  <2> HIDE DEF x
  <2>3. requests' \in [Requests -> RequestTypes]
    BY <2>1, <2>2, IdleType, RequestSet
  <2>4. TypeParts'
    BY <1>1, <2>1, <2>3 DEF TypeParts, publishVars, serverVars
  <2> QED BY <1>4, <2>1, <2>4 DEF serverVars
<1>12. ASSUME NEW r \in Requests, Write(r)
       PROVE  TypeParts' /\ TracksInv'
  <2>1. /\ stored' = requests[r].got
        /\ requests' = [requests EXCEPT ![r].phase = "sending"]
        /\ UNCHANGED <<serverVars, process, slot, feed, health, observers, lost, orphaned>>
    BY <1>12 DEF Write
  <2>2. requests' \in [Requests -> RequestTypes]
    <3>1. "sending" \in Phases
      BY DEF Phases
    <3> QED BY <2>1, <3>1, RequestPhase
  <2>3. TypeParts'
    BY <1>1, <1>2, <2>1, <2>2 DEF TypeParts, serverVars
  <2> QED BY <1>4, <2>1, <2>3 DEF serverVars
<1>13. ASSUME NEW r \in Requests, Send(r)
       PROVE  TypeParts' /\ TracksInv'
  <2> DEFINE g == requests[r].game
  <2>1. /\ feed' = requests[r].got /\ requests' = [requests EXCEPT ![r] = Idle]
        /\ \/ observers' = observers
           \/ observers' = [observers EXCEPT ![g] = Observer(FALSE)]
        /\ UNCHANGED <<serverVars, process, slot, stored, health, lost, orphaned>>
    BY <1>13 DEF Send
  <2>2. requests' \in [Requests -> RequestTypes]
    BY <2>1, IdleType, RequestSet
  <2>3. Observer(FALSE) \in ObserverTypes /\ ~Observer(FALSE).tracksLatest
    BY ObserverType
  <2>4. /\ observers' \in [Games -> ObserverTypes]
        /\ \A h \in Games : observers'[h] = observers[h] \/ ~observers'[h].tracksLatest
    BY <1>1, <2>1, <2>3
  <2>5. TypeParts'
    BY <1>1, <1>2, <2>1, <2>2, <2>4 DEF TypeParts, serverVars
  <2>6. TracksInv'
    BY <2>1, <2>4 DEF TracksInv, serverVars
  <2> QED BY <2>5, <2>6
\* The observer.
<1>14. ASSUME NEW g \in Games,
              \/ ObserverChecks(g) \/ ObserverAnswered(g) \/ ObserverRefused(g)
              \/ ObserverWrites(g) \/ ObserverSends(g) \/ ObserverLeaves(g)
       PROVE  TypeParts' /\ TracksInv'
  <2>1. /\ UNCHANGED <<serverVars, process, requests, lost, orphaned>>
        /\ slot' = slot \/ slot' = NoGame
        /\ health' = health \/ health' = TRUE
        /\ stored' = stored \/ stored' = observers[g].got
        /\ feed' = feed \/ feed' = observers[g].got
    BY <1>14 DEF ObserverChecks, ObserverAnswered, ObserverRefused, ObserverWrites,
                 ObserverSends, ObserverLeaves, publishVars
  <2>2. \/ observers' = [observers EXCEPT ![g] = NoObserver]
        \/ \E p \in Stages : observers' = [observers EXCEPT ![g].phase = p]
        \/ ObserverAnswered(g)
    BY <1>14 DEF ObserverChecks, ObserverRefused, ObserverWrites,
                 ObserverSends, ObserverLeaves, Stages
  <2>3. /\ observers' \in [Games -> ObserverTypes]
        /\ \A h \in Games : /\ observers'[h].tracksLatest => observers[h].tracksLatest
    <3>1. CASE observers' = [observers EXCEPT ![g] = NoObserver]
      BY <3>1, NoObserverType, ObserverSet
    <3>2. CASE \E p \in Stages : observers' = [observers EXCEPT ![g].phase = p]
      BY <3>2, ObserverPhase
    <3>3. CASE ObserverAnswered(g)
      <4>1. Observed(g) \in Snapshots
        BY <1>1 DEF Observed, TracksInv
      <4>2. observers' = [observers EXCEPT ![g].phase = "publishing", ![g].got = Observed(g)]
        BY <3>3 DEF ObserverAnswered
      <4> QED BY <4>1, <4>2, ObserverPublishes
    <3> QED BY <2>2, <3>1, <3>2, <3>3
  <2>4. TypeParts'
    BY <1>1, <1>3, <2>1, <2>3 DEF TypeParts, serverVars
  <2>5. TracksInv'
    BY <2>1, <2>3 DEF TracksInv, serverVars
  <2> QED BY <2>4, <2>5
\* The process.
<1>15. CASE Crash
  <2>1. /\ process' = "down" /\ slot' = NoGame /\ stored' = Default /\ health' = FALSE
        /\ requests' = [r \in Requests |-> Idle]
        /\ observers' = [g \in Games |-> NoObserver]
        /\ orphaned' = FALSE
        /\ UNCHANGED <<serverVars, feed, lost>>
    BY <1>15 DEF Crash
  <2>2. requests' \in [Requests -> RequestTypes] /\ observers' \in [Games -> ObserverTypes]
    BY <2>1, IdleType, NoObserverType
  <2>3. TypeParts'
    BY <1>1, <2>1, <2>2, DefaultType DEF TypeParts, serverVars
  <2>4. TracksInv'
    BY <2>1, NoObserverType DEF TracksInv
  <2> QED BY <2>3, <2>4
<1>16. CASE Restart
  <2>1. /\ process' = "resuming"
        /\ UNCHANGED <<serverVars, slot, publishVars, health, taskVars, lost, orphaned>>
    BY <1>16 DEF Restart
  <2>2. TypeParts'
    BY <1>1, <2>1 DEF TypeParts, serverVars, publishVars, taskVars
  <2> QED BY <1>4, <2>1, <2>2 DEF serverVars, taskVars
<1>17. CASE ResumeAnswered
  <2>1. /\ process' = "serving" /\ health' = TRUE /\ stored' = rounds[latest]
        /\ latest # NoGame /\ lost' \subseteq lost \cup calls
        /\ \/ slot' = latest /\ observers' = [observers EXCEPT ![latest] = Observer(TRUE)]
           \/ slot' = slot /\ observers' = observers
        /\ UNCHANGED <<serverVars, feed, requests, orphaned>>
    BY <1>17 DEF ResumeAnswered
  <2>2. latest \in Games
    BY <1>1, <2>1
  <2>3. observers' \in [Games -> ObserverTypes]
    BY <1>1, <2>1, <2>2, ObserverType, ObserverSet
  <2>4. TypeParts'
    BY <1>1, <2>1, <2>2, <2>3 DEF TypeParts, serverVars
  <2>5. TracksInv'
    BY <2>1 DEF TracksInv, serverVars
  <2> QED BY <2>4, <2>5
<1>18. CASE ResumeFails
  <2>1. /\ process' = "serving" /\ health' = FALSE
        /\ lost' = lost \cup calls \cup (IF Running THEN {latest} ELSE {})
        /\ UNCHANGED <<serverVars, slot, publishVars, requests, observers, orphaned>>
    BY <1>18 DEF ResumeFails
  <2>2. lost' \subseteq Games
    BY <1>1, <2>1 DEF Running
  <2>3. TypeParts'
    BY <1>1, <2>1, <2>2 DEF TypeParts, serverVars, publishVars
  <2> QED BY <1>4, <2>1, <2>3 DEF serverVars
<1>19. CASE UNCHANGED vars
  <2>1. TypeParts'
    BY <1>1, <1>19 DEF TypeParts, vars, serverVars, publishVars, taskVars
  <2> QED BY <1>4, <1>19, <2>1 DEF vars, serverVars, taskVars
<1> QED
  BY <1>5, <1>6, <1>7, <1>8, <1>9, <1>10, <1>11, <1>12, <1>13, <1>14, <1>15, <1>16,
     <1>17, <1>18, <1>19, Steps

\* What becomes of the requests in a step: each stays, goes on, is answered, ends,
\* or is a new one.
LEMMA RequestSteps ==
    ASSUME TypeOK, TracksInv, StartsInv, [Next]_vars
    PROVE  \A r \in Requests :
              \/ requests'[r].kind = requests[r].kind /\ requests'[r].game = requests[r].game
              \/ ~Starting(r)'
              \/ requests'[r].game \in Games
<1>0. "refused" \in Phases /\ "accepted" \in Phases /\ "sending" \in Phases
  BY DEF Phases
<1>1. ASSUME NEW g \in Games, TakeStart(g)
      PROVE  \A r \in Requests :
                requests'[r].kind = requests[r].kind /\ requests'[r].game = requests[r].game
  <2>1. requests' = Replied(g, "refused") \/ requests' = Replied(g, "accepted")
    BY <1>1 DEF TakeStart
  <2> QED BY <1>0, <2>1, RequestReplies
<1>2. ASSUME NEW r \in Requests, NEW x \in RequestTypes,
             requests' = [requests EXCEPT ![r] = x], x.kind # "start" \/ x.game \in Games
      PROVE  \A s \in Requests :
                \/ requests'[s].kind = requests[s].kind /\ requests'[s].game = requests[s].game
                \/ ~Starting(s)'
                \/ requests'[s].game \in Games
  <2>1. requests'[r] = x /\ \A s \in Requests \ {r} : requests'[s] = requests[s]
    BY <1>2, RequestSet
  <2> QED BY <1>2, <2>1 DEF Starting
<1>3. ASSUME NEW r \in Requests, NEW g \in Games, Reserve(r, g)
      PROVE  \E x \in RequestTypes : /\ requests' = [requests EXCEPT ![r] = x]
                                     /\ x.game \in Games
  <2> DEFINE x == [kind |-> "start", phase |-> "calling", game |-> g, got |-> Default]
  <2>1. x \in RequestTypes /\ x.game = g
    BY DefaultType DEF RequestTypes, Kinds, Phases
  <2>2. requests' = [requests EXCEPT ![r] = x]
    BY <1>3 DEF Reserve
  <2> HIDE DEF x
  <2> QED BY <2>1, <2>2
<1>4. ASSUME NEW r \in Requests,
             StartFails(r) \/ StartDropped(r) \/ CheckSlot(r) \/ UpdateFails(r) \/ Send(r)
      PROVE  \E x \in RequestTypes : /\ requests' = [requests EXCEPT ![r] = x]
                                     /\ x.kind # "start"
  <2> DEFINE x == [Idle EXCEPT !.kind = "update", !.phase = "calling"]
  <2>1. x \in RequestTypes /\ x.kind = "update"
    BY IdleType DEF RequestTypes, Kinds, Phases
  <2>2. requests' = [requests EXCEPT ![r] = x] \/ requests' = [requests EXCEPT ![r] = Idle]
    BY <1>4 DEF StartFails, StartDropped, CheckSlot, UpdateFails, Send
  <2> HIDE DEF x
  <2> QED BY <2>1, <2>2, IdleType
<1>5. ASSUME NEW r \in Requests, StartAnswered(r)
      PROVE  \A s \in Requests :
                requests'[s].kind = requests[s].kind /\ requests'[s].game = requests[s].game
  <2> DEFINE got == Snapshot(requests[r].game, 0, "running")
  <2>1. requests' = [requests EXCEPT ![r].phase = "publishing", ![r].got = got]
    BY <1>5 DEF StartAnswered
  <2>2. got \in Snapshots
    <3>1. "running" \in Statuses /\ 0 \in Nat
      BY DEF Statuses
    <3>2. requests[r].game \in Games \cup {NoGame}
      BY TypesByParts DEF TypeParts, RequestTypes
    <3> QED BY <3>1, <3>2, SnapshotTypes
  <2> HIDE DEF got
  <2> QED BY <2>1, <2>2, RequestPublishes
<1>6. ASSUME NEW r \in Requests, TakeUpdate(r)
      PROVE  \A s \in Requests :
                requests'[s].kind = requests[s].kind /\ requests'[s].game = requests[s].game
  <2> DEFINE got == rounds'[latest]
  <2>1. /\ Change("running")
        /\ requests' = [requests EXCEPT ![r].phase = "publishing", ![r].got = got]
    BY <1>6 DEF TakeUpdate
  <2>2. got \in Snapshots
    <3>1. "running" \in Statuses
      BY DEF Statuses
    <3> QED BY <2>1, <3>1, RoundChanges
  <2> HIDE DEF got
  <2> QED BY <2>1, <2>2, RequestPublishes
<1>7. ASSUME NEW r \in Requests, Write(r)
      PROVE  \A s \in Requests :
                requests'[s].kind = requests[s].kind /\ requests'[s].game = requests[s].game
  <2>1. requests' = [requests EXCEPT ![r].phase = "sending"]
    BY <1>7 DEF Write
  <2> QED BY <1>0, <2>1, RequestPhase
<1>8. CASE Crash
  <2>1. \A r \in Requests : requests'[r].kind = "none"
    BY <1>8, IdleType DEF Crash
  <2> QED BY <2>1 DEF Starting
<1>9. ASSUME \/ \E g \in Games : \/ ObserverChecks(g) \/ ObserverAnswered(g)
                                  \/ ObserverRefused(g) \/ ObserverWrites(g)
                                  \/ ObserverSends(g) \/ ObserverLeaves(g)
             \/ Progress \/ Finish \/ Restart \/ ResumeAnswered \/ ResumeFails
             \/ UNCHANGED vars
      PROVE  requests' = requests
  BY <1>9 DEF ObserverChecks, ObserverAnswered, ObserverRefused, ObserverWrites,
              ObserverSends, ObserverLeaves, Progress, Finish, Restart, ResumeAnswered,
              ResumeFails, taskVars, vars
<1> QED
  BY <1>1, <1>2, <1>3, <1>4, <1>5, <1>6, <1>7, <1>8, <1>9, Steps

LEMMA StartsStep ==
    ASSUME TypeOK, TracksInv, StartsInv, [Next]_vars
    PROVE  StartsInv'
<1> SUFFICES ASSUME NEW r \in Requests, Starting(r)'
             PROVE  requests'[r].game \in Games
  BY DEF StartsInv
<1>1. CASE requests'[r].kind = requests[r].kind /\ requests'[r].game = requests[r].game
  BY <1>1 DEF StartsInv, Starting
<1> QED BY <1>1, RequestSteps

TypeInv == TypeOK /\ TracksInv /\ StartsInv

LEMMA TypeInvStep == TypeInv /\ [Next]_vars => TypeInv'
  BY TypesStep, StartsStep DEF TypeInv

\* Every variable keeps its type.
THEOREM TypesHold == Spec => []TypeOK
<1>1. Init => TypeInv
  BY TypesInitially DEF TypeInv
<1>2. TypeInv /\ [Next]_vars => TypeInv'
  BY TypeInvStep
<1>3. TypeInv => TypeOK
  BY DEF TypeInv
<1> QED BY <1>1, <1>2, <1>3, PTL DEF Spec
-----------------------------------------------------------------------------
(***************************************************************************)
(* What each action does to the requests and the observers.                *)
(***************************************************************************)

LEMMA Reserved ==
    ASSUME TypeOK, NEW r \in Requests, NEW g \in Games, Reserve(r, g)
    PROVE  /\ requests'[r].kind = "start" /\ requests'[r].phase = "calling"
           /\ requests'[r].game = g /\ requests'[r].got = Default
           /\ \A s \in Requests \ {r} : requests'[s] = requests[s]
<1> DEFINE x == [kind |-> "start", phase |-> "calling", game |-> g, got |-> Default]
<1>1. /\ x \in RequestTypes /\ x.kind = "start" /\ x.phase = "calling"
      /\ x.game = g /\ x.got = Default
  BY DefaultType DEF RequestTypes, Kinds, Phases
<1>2. requests' = [requests EXCEPT ![r] = x]
  BY DEF Reserve
<1> HIDE DEF x
<1> QED BY <1>1, <1>2, RequestSet

LEMMA Ended ==
    ASSUME TypeOK, NEW r \in Requests, requests' = [requests EXCEPT ![r] = Idle]
    PROVE  /\ requests'[r].kind = "none" /\ requests'[r].phase = "idle"
           /\ requests'[r].got = Default
           /\ \A s \in Requests \ {r} : requests'[s] = requests[s]
  BY IdleType, RequestSet

LEMMA SlotChecked ==
    ASSUME TypeOK, NEW r \in Requests, CheckSlot(r)
    PROVE  /\ requests'[r].kind = "update" /\ requests'[r].phase = "calling"
           /\ requests'[r].got = Default
           /\ \A s \in Requests \ {r} : requests'[s] = requests[s]
<1> DEFINE x == [Idle EXCEPT !.kind = "update", !.phase = "calling"]
<1>1. /\ x \in RequestTypes /\ x.kind = "update" /\ x.phase = "calling" /\ x.got = Default
  BY IdleType DEF RequestTypes, Kinds, Phases
<1>2. requests' = [requests EXCEPT ![r] = x]
  BY DEF CheckSlot
<1> HIDE DEF x
<1> QED BY <1>1, <1>2, RequestSet

LEMMA Answered ==
    ASSUME TypeOK, StartsInv, NEW r \in Requests, StartAnswered(r)
    PROVE  /\ requests[r].kind = "start" /\ requests[r].phase = "accepted"
           /\ requests'[r].phase = "publishing" /\ requests'[r].kind = "start"
           /\ requests'[r].game = requests[r].game /\ requests[r].game \in Games
           /\ requests'[r].got \in Snapshots
           /\ requests'[r].got.game = requests[r].game
           /\ requests'[r].got.version = 0 /\ requests'[r].got.status = "running"
           /\ \A s \in Requests \ {r} : requests'[s] = requests[s]
<1> DEFINE got == Snapshot(requests[r].game, 0, "running")
<1>1. /\ requests[r].kind = "start" /\ requests[r].phase = "accepted"
      /\ requests' = [requests EXCEPT ![r].phase = "publishing", ![r].got = got]
  BY DEF StartAnswered
<1>2. requests[r].game \in Games
  BY <1>1 DEF StartsInv, Starting
<1>3. /\ got \in Snapshots /\ got.game = requests[r].game
      /\ got.version = 0 /\ got.status = "running"
  <2>1. "running" \in Statuses /\ 0 \in Nat /\ requests[r].game \in Games \cup {NoGame}
    BY <1>2 DEF Statuses
  <2> QED BY <2>1, SnapshotTypes
<1> HIDE DEF got
<1> QED BY <1>1, <1>2, <1>3, RequestPublishes

LEMMA Updated ==
    ASSUME TypeOK, NEW r \in Requests, TakeUpdate(r)
    PROVE  /\ requests[r].kind = "update" /\ Change("running")
           /\ requests'[r].phase = "publishing" /\ requests'[r].kind = "update"
           /\ requests'[r].got = rounds'[latest]
           /\ \A s \in Requests \ {r} : requests'[s] = requests[s]
<1> DEFINE got == rounds'[latest]
<1>1. /\ Change("running") /\ requests[r].kind = "update"
      /\ requests' = [requests EXCEPT ![r].phase = "publishing", ![r].got = got]
  BY DEF TakeUpdate
<1>2. got \in Snapshots
  <2>1. "running" \in Statuses
    BY DEF Statuses
  <2> QED BY <1>1, <2>1, RoundChanges
<1> HIDE DEF got
<1>3. /\ requests'[r].phase = "publishing" /\ requests'[r].kind = "update"
      /\ requests'[r].got = got
      /\ \A s \in Requests \ {r} : requests'[s] = requests[s]
  BY <1>1, <1>2, RequestPublishes
<1> QED BY <1>1, <1>3 DEF got

LEMMA Written ==
    ASSUME TypeOK, NEW r \in Requests, Write(r)
    PROVE  /\ requests[r].phase = "publishing" /\ stored' = requests[r].got
           /\ requests'[r].phase = "sending" /\ requests'[r].kind = requests[r].kind
           /\ requests'[r].game = requests[r].game /\ requests'[r].got = requests[r].got
           /\ \A s \in Requests \ {r} : requests'[s] = requests[s]
<1>1. "sending" \in Phases
  BY DEF Phases
<1> QED BY <1>1, RequestPhase DEF Write

LEMMA Sent ==
    ASSUME TypeOK, StartsInv, NEW r \in Requests, Send(r)
    PROVE  /\ requests[r].phase = "sending" /\ feed' = requests[r].got
           /\ requests'[r].kind = "none" /\ requests'[r].phase = "idle"
           /\ requests'[r].got = Default
           /\ \A s \in Requests \ {r} : requests'[s] = requests[s]
           /\ Starting(r) =>
                 /\ observers'[requests[r].game] = Observer(FALSE)
                 /\ \A g \in Games \ {requests[r].game} : observers'[g] = observers[g]
           /\ ~Starting(r) => observers' = observers
<1>1. requests' = [requests EXCEPT ![r] = Idle] /\ feed' = requests[r].got
  BY DEF Send
<1>2. Starting(r) => observers' = [observers EXCEPT ![requests[r].game] = Observer(FALSE)]
  BY DEF Send, Starting
<1>3. Starting(r) => requests[r].game \in Games
  BY DEF StartsInv
<1>4. Starting(r) =>
         /\ observers'[requests[r].game] = Observer(FALSE)
         /\ \A g \in Games \ {requests[r].game} : observers'[g] = observers[g]
  BY <1>2, <1>3, ObserverType, ObserverSet
<1>5. ~Starting(r) => observers' = observers
  BY DEF Send, Starting
<1>6. requests[r].phase = "sending"
  BY DEF Send
<1> QED BY <1>1, <1>4, <1>5, <1>6, Ended

\* The four ways an observer goes on.
LEMMA ObserverMoves ==
    ASSUME TypeOK, TracksInv, NEW g \in Games,
           \/ ObserverChecks(g) \/ ObserverAnswered(g) \/ ObserverRefused(g)
           \/ ObserverWrites(g) \/ ObserverSends(g) \/ ObserverLeaves(g)
    PROVE  /\ Observing(g)
           /\ \A h \in Games \ {g} : observers'[h] = observers[h]
           /\ UNCHANGED <<serverVars, process, requests, lost, orphaned>>
           /\ \/ /\ observers'[g].phase \in {"checking", "asking"}
                 /\ observers'[g].got = observers[g].got /\ slot' = slot
                 /\ UNCHANGED <<stored, health>>
                 /\ feed' = feed \/ (feed' = observers[g].got /\ observers[g].phase = "sending")
              \/ /\ observers[g].phase = "asking" /\ observers'[g].phase = "publishing"
                 /\ observers'[g].got = Observed(g) /\ slot' = slot
                 /\ UNCHANGED <<stored, feed>>
              \/ /\ observers[g].phase = "publishing" /\ observers'[g].phase = "sending"
                 /\ observers'[g].got = observers[g].got /\ slot' = slot
                 /\ stored' = observers[g].got /\ UNCHANGED <<feed, health>>
              \/ /\ observers[g].phase = "sending" /\ observers'[g].phase = "leaving"
                 /\ observers[g].got.status = "finished"
                 /\ observers'[g].got = observers[g].got /\ slot' = slot
                 /\ feed' = observers[g].got /\ UNCHANGED <<stored, health>>
              \/ /\ observers'[g] = NoObserver /\ UNCHANGED <<stored, feed, health>>
                 /\ \/ slot # g /\ slot' = slot
                    \/ observers[g].phase = "leaving" /\ slot = g /\ slot' = NoGame
<1>1. /\ UNCHANGED <<serverVars, process, requests, lost, orphaned>>
      /\ observers[g].phase \in {"checking", "asking", "publishing", "sending", "leaving"}
  BY DEF ObserverChecks, ObserverAnswered, ObserverRefused, ObserverWrites,
         ObserverSends, ObserverLeaves
<1>2. Observing(g)
  BY <1>1 DEF Observing
<1>3. \A p \in {"checking", "asking", "sending", "leaving"} : p \in Stages
  BY DEF Stages
<1>4. CASE ObserverChecks(g)
  <2>1. CASE slot = g
    <3>1. observers' = [observers EXCEPT ![g].phase = "asking"]
      BY <1>4, <2>1 DEF ObserverChecks
    <3>2. UNCHANGED <<slot, stored, feed, health>>
      BY <1>4 DEF ObserverChecks, publishVars
    <3> QED BY <1>1, <1>2, <1>3, <3>1, <3>2, ObserverPhase
  <2>2. CASE slot # g
    <3>1. observers' = [observers EXCEPT ![g] = NoObserver]
      BY <1>4, <2>2 DEF ObserverChecks
    <3>2. UNCHANGED <<slot, stored, feed, health>>
      BY <1>4 DEF ObserverChecks, publishVars
    <3> QED BY <1>1, <1>2, <2>2, <3>1, <3>2, NoObserverType, ObserverSet
  <2> QED BY <2>1, <2>2
<1>5. CASE ObserverAnswered(g)
  <2>1. Observed(g) \in Snapshots
    BY TypesByParts DEF TypeParts, Observed, TracksInv
  <2>2. /\ observers[g].phase = "asking"
        /\ observers' = [observers EXCEPT ![g].phase = "publishing", ![g].got = Observed(g)]
        /\ UNCHANGED <<slot, stored, feed>>
    BY <1>5 DEF ObserverAnswered, publishVars
  <2> QED BY <1>1, <1>2, <2>1, <2>2, ObserverPublishes
<1>6. CASE ObserverRefused(g)
  <2>1. /\ observers' = [observers EXCEPT ![g].phase = "checking"]
        /\ UNCHANGED <<slot, stored, feed, health>>
    BY <1>6 DEF ObserverRefused, publishVars
  <2> QED BY <1>1, <1>2, <1>3, <2>1, ObserverPhase
<1>7. CASE ObserverWrites(g)
  <2>1. /\ observers[g].phase = "publishing" /\ stored' = observers[g].got
        /\ observers' = [observers EXCEPT ![g].phase = "sending"]
        /\ UNCHANGED <<slot, feed, health>>
    BY <1>7 DEF ObserverWrites
  <2> QED BY <1>1, <1>2, <1>3, <2>1, ObserverPhase
<1>8. CASE ObserverSends(g)
  <2>1. /\ observers[g].phase = "sending" /\ feed' = observers[g].got
        /\ UNCHANGED <<slot, stored, health>>
    BY <1>8 DEF ObserverSends
  <2>2. CASE observers[g].got.status = "finished"
    <3>1. observers' = [observers EXCEPT ![g].phase = "leaving"]
      BY <1>8, <2>2 DEF ObserverSends
    <3> QED BY <1>1, <1>2, <1>3, <2>1, <2>2, <3>1, ObserverPhase
  <2>3. CASE observers[g].got.status # "finished"
    <3>1. observers' = [observers EXCEPT ![g].phase = "checking"]
      BY <1>8, <2>3 DEF ObserverSends
    <3> QED BY <1>1, <1>2, <1>3, <2>1, <3>1, ObserverPhase
  <2> QED BY <2>2, <2>3
<1>9. CASE ObserverLeaves(g)
  <2>1. /\ observers[g].phase = "leaving"
        /\ observers' = [observers EXCEPT ![g] = NoObserver]
        /\ (slot = g /\ slot' = NoGame) \/ (slot # g /\ slot' = slot)
        /\ UNCHANGED <<stored, feed, health>>
    BY <1>9 DEF ObserverLeaves, publishVars
  <2> QED BY <1>1, <1>2, <2>1, NoObserverType, ObserverSet
<1> QED BY <1>4, <1>5, <1>6, <1>7, <1>8, <1>9
-----------------------------------------------------------------------------
(***************************************************************************)
(* The slot and the one task that will give it back.                       *)
(***************************************************************************)

SlotInv ==
    /\ \A r \in Requests : Starting(r) =>
          slot = requests[r].game /\ requests[r].phase # "idle"
    /\ \A r, s \in Requests : Starting(r) /\ Starting(s) => r = s
    /\ \A g \in Games : Observing(g) => slot = g
    /\ \A r \in Requests, g \in Games : ~(Starting(r) /\ Observing(g))
    /\ slot # NoGame => orphaned \/ Observing(slot) \/ \E r \in Requests : Starting(r)
    /\ orphaned => /\ slot # NoGame
                   /\ \A r \in Requests : ~Starting(r)
                   /\ \A g \in Games : ~Observing(g)
    /\ process # "serving" => slot = NoGame

LEMMA SlotInitially == Init => SlotInv
  BY IdleType, NoObserverType DEF Init, SlotInv, Starting, Observing

LEMMA SlotImplies == TypeInv /\ SlotInv => SlotOwned
<1> SUFFICES ASSUME TypeInv, SlotInv PROVE SlotOwned
  OBVIOUS
<1>1. \A r \in Requests : Starting(r) => slot \in Games
  BY DEF TypeInv, StartsInv, SlotInv
<1>2. slot \in Games \cup {NoGame}
  BY TypesByParts DEF TypeInv, TypeParts
<1> QED BY <1>1, <1>2 DEF SlotOwned, SlotInv

\* A free slot: nobody starts or observes a round.
LEMMA FreeSlot ==
    ASSUME TypeInv, SlotInv, slot = NoGame
    PROVE  /\ \A r \in Requests : ~Starting(r)
           /\ \A g \in Games : ~Observing(g)
<1>1. \A r \in Requests : Starting(r) => slot \in Games
  BY DEF TypeInv, StartsInv, SlotInv
<1> QED BY <1>1, GamesAssumption DEF SlotInv

\* The same tasks at work for the same slot.
LEMMA SlotFrame ==
    ASSUME SlotInv, slot' = slot, orphaned' = orphaned,
           process' = process \/ process' = "serving",
           \A r \in Requests :
               /\ (requests'[r].kind = "start") <=> Starting(r)
               /\ Starting(r) => /\ requests'[r].game = requests[r].game
                                 /\ requests'[r].phase # "idle",
           \A g \in Games : (observers'[g].phase # "off") <=> Observing(g),
           slot \in Games \cup {NoGame}
    PROVE  SlotInv'
<1>1. \A r \in Requests : (requests'[r].kind = "start") = Starting(r)'
  BY DEF Starting
<1>2. \A g \in Games : (observers'[g].phase # "off") = Observing(g)'
  BY DEF Observing
<1>3. \A r \in Requests : Starting(r)' => slot' = requests'[r].game /\ requests'[r].phase # "idle"
  BY <1>1 DEF SlotInv
<1>4. \A r, s \in Requests : Starting(r)' /\ Starting(s)' => r = s
  BY <1>1 DEF SlotInv
<1>5. \A g \in Games : Observing(g)' => slot' = g
  BY <1>2 DEF SlotInv
<1>6. \A r \in Requests, g \in Games : ~(Starting(r)' /\ Observing(g)')
  BY <1>1, <1>2 DEF SlotInv
<1>7. slot' # NoGame => \/ orphaned' \/ (observers'[slot'].phase # "off")
                        \/ \E r \in Requests : Starting(r)'
  BY <1>1, <1>2 DEF SlotInv
<1>8. process' # "serving" => slot' = NoGame
  BY DEF SlotInv
<1>9. orphaned' => /\ slot' # NoGame
                   /\ \A r \in Requests : ~Starting(r)'
                   /\ \A g \in Games : ~Observing(g)'
  BY <1>1, <1>2 DEF SlotInv
<1> QED BY <1>3, <1>4, <1>5, <1>6, <1>7, <1>8, <1>9 DEF SlotInv, Observing, Starting

LEMMA SlotStep ==
    ASSUME TypeInv, SlotInv, [Next]_vars
    PROVE  SlotInv'
<1>0. TypeOK /\ TracksInv /\ StartsInv /\ slot \in Games \cup {NoGame}
  BY TypesByParts DEF TypeInv, TypeParts
<1>a. /\ \A r \in Requests : Starting(r) => requests[r].phase # "idle"
      /\ \A r \in Requests : (requests[r].kind = "start") <=> Starting(r)
      /\ \A g \in Games : (observers[g].phase # "off") <=> Observing(g)
  BY DEF SlotInv, Starting, Observing
\* Nobody's kind or game changes and no request ends.
<1>1. ASSUME UNCHANGED <<slot, process, observers, orphaned>>,
             NEW r \in Requests, requests'[r].kind = requests[r].kind,
             requests'[r].game = requests[r].game, requests'[r].phase # "idle",
             \A s \in Requests \ {r} : requests'[s] = requests[s]
      PROVE  SlotInv'
  <2>1. \A s \in Requests :
           /\ (requests'[s].kind = "start") <=> Starting(s)
           /\ Starting(s) => /\ requests'[s].game = requests[s].game
                             /\ requests'[s].phase # "idle"
    BY <1>a, <1>1
  <2> QED BY <1>0, <1>a, <1>1, <2>1, SlotFrame
\* A request that starts no round comes or goes.
<1>2. ASSUME UNCHANGED <<slot, process, observers, orphaned>>,
             NEW r \in Requests, requests'[r].kind # "start", ~Starting(r),
             \A s \in Requests \ {r} : requests'[s] = requests[s]
      PROVE  SlotInv'
  <2>1. \A s \in Requests :
           /\ (requests'[s].kind = "start") <=> Starting(s)
           /\ Starting(s) => /\ requests'[s].game = requests[s].game
                             /\ requests'[s].phase # "idle"
    BY <1>a, <1>2
  <2> QED BY <1>0, <1>a, <1>2, <2>1, SlotFrame
<1>3. ASSUME UNCHANGED <<slot, requests, observers, orphaned>>,
             process' = process \/ process' = "serving"
      PROVE  SlotInv'
  BY <1>0, <1>a, <1>3, SlotFrame
<1>4. ASSUME NEW g \in Games, TakeStart(g)
      PROVE  SlotInv'
  <2>1. UNCHANGED <<slot, process, observers, orphaned>>
    BY <1>4 DEF TakeStart
  <2>2. requests' = Replied(g, "refused") \/ requests' = Replied(g, "accepted")
    BY <1>4 DEF TakeStart
  <2>3. \A s \in Requests :
           /\ requests'[s].kind = requests[s].kind /\ requests'[s].game = requests[s].game
           /\ requests'[s].phase = requests[s].phase \/ requests'[s].phase # "idle"
    <3>1. "refused" \in Phases /\ "accepted" \in Phases
      BY DEF Phases
    <3> QED BY <1>0, <2>2, <3>1, RequestReplies
  <2>4. \A s \in Requests :
           /\ (requests'[s].kind = "start") <=> Starting(s)
           /\ Starting(s) => /\ requests'[s].game = requests[s].game
                             /\ requests'[s].phase # "idle"
    BY <1>a, <2>3
  <2> QED BY <1>0, <1>a, <2>1, <2>4, SlotFrame
<1>5. ASSUME NEW r \in Requests, StartAnswered(r)
      PROVE  SlotInv'
  <2>1. UNCHANGED <<slot, process, observers, orphaned>>
    BY <1>5 DEF StartAnswered
  <2> QED BY <1>0, <1>1, <1>5, <2>1, Answered
<1>6. ASSUME NEW r \in Requests, Write(r)
      PROVE  SlotInv'
  <2>1. UNCHANGED <<slot, process, observers, orphaned>>
    BY <1>6 DEF Write
  <2>2. requests'[r].phase # "idle"
    BY <1>0, <1>6, Written
  <2> QED BY <1>0, <1>1, <1>6, <2>1, <2>2, Written
<1>7. ASSUME NEW r \in Requests, TakeUpdate(r)
      PROVE  SlotInv'
  <2>1. UNCHANGED <<slot, process, observers, orphaned>>
    BY <1>7 DEF TakeUpdate
  <2>2. /\ requests'[r].kind # "start" /\ ~Starting(r)
        /\ \A s \in Requests \ {r} : requests'[s] = requests[s]
    BY <1>0, <1>7, Updated DEF Starting
  <2> QED BY <1>2, <2>1, <2>2
<1>8. ASSUME NEW r \in Requests, CheckSlot(r)
      PROVE  SlotInv'
  <2>1. UNCHANGED <<slot, process, observers, orphaned>> /\ requests[r].phase = "idle"
    BY <1>8 DEF CheckSlot, Free
  <2>2. /\ requests'[r].kind # "start" /\ ~Starting(r)
        /\ \A s \in Requests \ {r} : requests'[s] = requests[s]
    BY <1>0, <1>a, <1>8, <2>1, SlotChecked
  <2> QED BY <1>2, <2>1, <2>2
<1>9. ASSUME NEW r \in Requests, UpdateFails(r)
      PROVE  SlotInv'
  <2>1. /\ UNCHANGED <<slot, process, observers, orphaned>> /\ requests[r].kind = "update"
        /\ requests' = [requests EXCEPT ![r] = Idle]
    BY <1>9 DEF UpdateFails
  <2>2. /\ requests'[r].kind # "start" /\ ~Starting(r)
        /\ \A s \in Requests \ {r} : requests'[s] = requests[s]
    BY <1>0, <2>1, Ended DEF Starting
  <2> QED BY <1>2, <2>1, <2>2
<1>10. ASSUME NEW r \in Requests, NEW g \in Games, Reserve(r, g)
       PROVE  SlotInv'
  <2>1. slot = NoGame /\ slot' = g /\ process = "serving"
        /\ UNCHANGED <<process, observers, orphaned>> /\ ~orphaned
    BY <1>10 DEF Reserve, Free, SlotInv
  <2>2. (\A s \in Requests : ~Starting(s)) /\ (\A h \in Games : ~Observing(h))
    BY <2>1, FreeSlot
  <2>3. /\ requests'[r].kind = "start" /\ requests'[r].phase = "calling"
        /\ requests'[r].game = g
        /\ \A s \in Requests \ {r} : requests'[s] = requests[s]
    BY <1>0, <1>10, Reserved
  <2>4. \A s \in Requests : Starting(s)' <=> s = r
    BY <2>2, <2>3 DEF Starting
  <2>5. \A h \in Games : ~Observing(h)'
    BY <2>1, <2>2 DEF Observing
  <2> QED BY <2>1, <2>3, <2>4, <2>5 DEF SlotInv
\* The request that starts a round fails and gives the slot back.
<1>11. ASSUME NEW r \in Requests, StartFails(r)
       PROVE  SlotInv'
  <2>1. /\ Starting(r) /\ slot' = (IF slot = requests[r].game THEN NoGame ELSE slot)
        /\ requests' = [requests EXCEPT ![r] = Idle]
        /\ UNCHANGED <<process, observers, orphaned>>
    BY <1>11 DEF StartFails, Starting
  <2>2. slot' = NoGame /\ ~orphaned
    BY <2>1 DEF SlotInv
  <2>3. \A s \in Requests : ~Starting(s)'
    <3>1. /\ requests'[r].kind = "none"
          /\ \A s \in Requests \ {r} : requests'[s] = requests[s]
      BY <1>0, <2>1, Ended
    <3>2. \A s \in Requests \ {r} : ~Starting(s)
      BY <2>1 DEF SlotInv
    <3> QED BY <3>1, <3>2 DEF Starting
  <2>4. \A g \in Games : ~Observing(g)'
    BY <2>1 DEF SlotInv, Observing
  <2> QED BY <2>1, <2>2, <2>3, <2>4 DEF SlotInv
\* The request is dropped with its client and leaves the slot to nobody.
<1>18. ASSUME NEW r \in Requests, StartDropped(r)
       PROVE  SlotInv'
  <2>1. /\ Starting(r) /\ requests' = [requests EXCEPT ![r] = Idle] /\ orphaned' = TRUE
        /\ UNCHANGED <<process, slot, observers>>
    BY <1>18 DEF StartDropped, Starting
  <2>2. slot # NoGame
    BY <1>0, <2>1, GamesAssumption DEF SlotInv, StartsInv
  <2>3. \A s \in Requests : ~Starting(s)'
    <3>1. /\ requests'[r].kind = "none"
          /\ \A s \in Requests \ {r} : requests'[s] = requests[s]
      BY <1>0, <2>1, Ended
    <3>2. \A s \in Requests \ {r} : ~Starting(s)
      BY <2>1 DEF SlotInv
    <3> QED BY <3>1, <3>2 DEF Starting
  <2>4. \A g \in Games : ~Observing(g)'
    BY <2>1 DEF SlotInv, Observing
  <2>5. process' = "serving"
    BY <2>1, <2>2 DEF SlotInv
  <2> QED BY <2>1, <2>2, <2>3, <2>4, <2>5 DEF SlotInv
\* The request hands the slot to the observer.
<1>12. ASSUME NEW r \in Requests, Send(r)
       PROVE  SlotInv'
  <2>1. UNCHANGED <<slot, process, orphaned>>
    BY <1>12 DEF Send
  <2>2. /\ requests'[r].kind = "none"
        /\ \A s \in Requests \ {r} : requests'[s] = requests[s]
    BY <1>0, <1>12, Sent
  <2>3. CASE ~Starting(r)
    <3>1. observers' = observers
      BY <1>0, <1>12, <2>3, Sent
    <3> QED BY <1>2, <2>1, <2>2, <2>3, <3>1
  <2>4. CASE Starting(r)
    <3> DEFINE g == requests[r].game
    <3>1. g \in Games /\ slot = g /\ ~orphaned
      BY <1>0, <2>4 DEF SlotInv, StartsInv
    <3>2. /\ observers'[g] = Observer(FALSE)
          /\ \A h \in Games \ {g} : observers'[h] = observers[h]
      BY <1>0, <1>12, <2>4, Sent
    <3> HIDE DEF g
    <3>3. \A s \in Requests : ~Starting(s)'
      <4>1. \A s \in Requests \ {r} : ~Starting(s)
        BY <2>4 DEF SlotInv
      <4> QED BY <2>2, <4>1 DEF Starting
    <3>4. \A h \in Games : Observing(h)' <=> h = g
      <4>1. \A h \in Games : ~Observing(h)
        BY <2>4 DEF SlotInv
      <4>2. observers'[g].phase # "off"
        BY <3>2, ObserverType
      <4> QED BY <3>1, <3>2, <4>1, <4>2 DEF Observing
    <3>6. process' # "serving" => slot' = NoGame
      BY <2>1 DEF SlotInv
    <3>7. slot' = g
      BY <2>1, <3>1
    <3>8. observers'[slot'].phase # "off"
      BY <3>1, <3>2, <3>7, ObserverType
    <3> QED BY <2>1, <3>1, <3>3, <3>4, <3>6, <3>7, <3>8 DEF SlotInv, Observing
  <2> QED BY <2>3, <2>4
\* The observer, which gives the slot back when the round has finished.
<1>13. ASSUME NEW g \in Games,
              \/ ObserverChecks(g) \/ ObserverAnswered(g) \/ ObserverRefused(g)
              \/ ObserverWrites(g) \/ ObserverSends(g) \/ ObserverLeaves(g)
       PROVE  SlotInv'
  <2>1. /\ Observing(g) /\ UNCHANGED <<process, requests, orphaned>>
        /\ \A h \in Games \ {g} : observers'[h] = observers[h]
    BY <1>0, <1>13, ObserverMoves
  <2>2. slot = g /\ ~orphaned /\ \A s \in Requests : ~Starting(s)
    BY <2>1 DEF SlotInv
  <2>3. \/ slot' = slot /\ observers'[g].phase # "off"
        \/ slot' = NoGame /\ observers'[g] = NoObserver
    BY <1>0, <1>13, <2>2, ObserverMoves
  <2>4. CASE slot' = slot /\ observers'[g].phase # "off"
    <3>1. \A h \in Games : (observers'[h].phase # "off") <=> Observing(h)
      BY <1>a, <2>1, <2>4
    <3> QED BY <1>0, <1>a, <2>1, <2>4, <3>1, SlotFrame
  <2>5. CASE slot' = NoGame /\ observers'[g] = NoObserver
    <3>1. \A h \in Games : ~Observing(h)'
      <4>1. \A h \in Games \ {g} : ~Observing(h)
        BY <2>2 DEF SlotInv
      <4> QED BY <2>1, <2>5, <4>1, NoObserverType DEF Observing
    <3>2. \A s \in Requests : ~Starting(s)'
      BY <2>1, <2>2 DEF Starting
    <3> QED BY <2>1, <2>2, <2>5, <3>1, <3>2 DEF SlotInv
  <2> QED BY <2>3, <2>4, <2>5
<1>14. CASE Crash
  <2>1. slot' = NoGame /\ ~orphaned'
    BY <1>14 DEF Crash
  <2>2. (\A r \in Requests : ~Starting(r)') /\ (\A g \in Games : ~Observing(g)')
    BY <1>14, IdleType, NoObserverType DEF Crash, Starting, Observing
  <2> QED BY <2>1, <2>2 DEF SlotInv
<1>15. CASE Restart
  <2>1. /\ slot = NoGame /\ slot' = slot /\ ~orphaned
        /\ UNCHANGED <<requests, observers, orphaned>>
    BY <1>15 DEF Restart, taskVars, SlotInv
  <2>2. (\A r \in Requests : ~Starting(r)) /\ (\A g \in Games : ~Observing(g))
    BY <2>1, FreeSlot
  <2>3. (\A r \in Requests : ~Starting(r)') /\ (\A g \in Games : ~Observing(g)')
    BY <2>1, <2>2 DEF Starting, Observing
  <2> QED BY <2>1, <2>3 DEF SlotInv
\* The resumed process follows the running round.
<1>16. CASE ResumeAnswered
  <2>1. /\ process = "resuming" /\ process' = "serving" /\ requests' = requests
        /\ latest # NoGame /\ orphaned' = orphaned
    BY <1>16 DEF ResumeAnswered
  <2>2. slot = NoGame /\ ~orphaned
    BY <2>1 DEF SlotInv
  <2>3. (\A r \in Requests : ~Starting(r)) /\ (\A g \in Games : ~Observing(g))
    BY <2>2, FreeSlot
  <2>4. CASE ~Running
    <3>1. UNCHANGED <<slot, observers>>
      BY <1>16, <2>4 DEF ResumeAnswered
    <3> QED BY <1>3, <2>1, <3>1
  <2>5. CASE Running
    <3>1. slot' = latest /\ observers' = [observers EXCEPT ![latest] = Observer(TRUE)]
      BY <1>16, <2>5 DEF ResumeAnswered
    <3>2. latest \in Games
      BY <1>0, <2>1, TypesByParts DEF TypeParts
    <3>3. /\ observers'[latest].phase # "off"
          /\ \A h \in Games \ {latest} : observers'[h] = observers[h]
      BY <1>0, <3>1, <3>2, ObserverType, ObserverSet
    <3>4. \A h \in Games : Observing(h)' <=> h = latest
      BY <2>3, <3>2, <3>3 DEF Observing
    <3>5. \A s \in Requests : ~Starting(s)'
      BY <2>1, <2>3 DEF Starting
    <3>6. observers'[slot'].phase # "off"
      BY <3>1, <3>3
    <3> QED BY <2>1, <2>2, <3>1, <3>4, <3>5, <3>6 DEF SlotInv, Observing
  <2> QED BY <2>4, <2>5
<1>17. CASE Progress \/ Finish \/ ResumeFails \/ UNCHANGED vars
  <2>1. /\ UNCHANGED <<slot, requests, observers, orphaned>>
        /\ process' = process \/ process' = "serving"
    BY <1>17 DEF Progress, Finish, ResumeFails, taskVars, vars
  <2> QED BY <1>3, <2>1
<1> QED
  BY <1>4, <1>5, <1>6, <1>7, <1>8, <1>9, <1>10, <1>11, <1>12, <1>13, <1>14, <1>15,
     <1>16, <1>17, <1>18, Steps

\* The slot is held by exactly one task that will give it back, or by nobody once
\* the handler that took it has been dropped with its client (start_game).
THEOREM SlotStaysOwned == Spec => []SlotOwned
<1>1. Init => TypeInv /\ SlotInv
  BY TypesInitially, SlotInitially DEF TypeInv
<1>2. TypeInv /\ SlotInv /\ [Next]_vars => (TypeInv /\ SlotInv)'
  BY TypeInvStep, SlotStep
<1>3. TypeInv /\ SlotInv => SlotOwned
  BY SlotImplies
<1> QED BY <1>1, <1>2, <1>3, PTL DEF Spec
-----------------------------------------------------------------------------
(***************************************************************************)
(* The rounds on the server.  Once started a round never waits again, and  *)
(* once finished it never changes.                                         *)
(***************************************************************************)

ServerInv ==
    /\ \A g \in Games : /\ rounds[g].game = g
                        /\ rounds[g].status = "running" => g = latest
                        /\ rounds[g].status # "waiting" => latest # NoGame
    /\ latest # NoGame => rounds[latest].status # "waiting"
    /\ \A g \in calls : rounds[g].status = "waiting"

\* What a step may make of the rounds.
Evolve ==
    \A g \in Games : rounds[g].status # "waiting" =>
        /\ rounds'[g].status # "waiting"
        /\ rounds[g].version <= rounds'[g].version
        /\ rounds[g].status = "finished" => rounds'[g] = rounds[g]

LEMMA ServerInitially == Init => ServerInv
<1> SUFFICES ASSUME Init PROVE ServerInv
  OBVIOUS
<1>1. \A g \in Games : rounds[g] = Snapshot(g, 0, "waiting")
  BY DEF Init
<1>2. \A g \in Games : rounds[g].game = g /\ rounds[g].status = "waiting"
  <2>1. "waiting" \in Statuses /\ 0 \in Nat
    BY DEF Statuses
  <2> QED BY <1>1, <2>1, SnapshotTypes
<1>3. latest = NoGame /\ calls = {}
  BY DEF Init
<1> QED BY <1>2, <1>3 DEF ServerInv

LEMMA RoundMoves ==
    ASSUME TypeInv, [Next]_vars
    PROVE  \/ UNCHANGED <<rounds, latest, calls>>
           \/ \E r \in Requests, g \in Games : Reserve(r, g)
           \/ \E g \in Games : TakeStart(g)
           \/ Change("running") \/ Change("finished")
<1>1. CASE \E g \in Games : \/ ObserverChecks(g) \/ ObserverAnswered(g)
                              \/ ObserverRefused(g) \/ ObserverWrites(g)
                              \/ ObserverSends(g) \/ ObserverLeaves(g)
  BY <1>1, ObserverMoves DEF TypeInv, serverVars
<1>2. CASE \E r \in Requests : \/ StartFails(r) \/ StartDropped(r) \/ CheckSlot(r) \/ StartAnswered(r)
                                 \/ UpdateFails(r) \/ Write(r) \/ Send(r)
  BY <1>2 DEF StartFails, StartDropped, StartAnswered, CheckSlot, UpdateFails, Write, Send,
              serverVars
<1>3. CASE \/ Crash \/ Restart \/ ResumeAnswered \/ ResumeFails \/ UNCHANGED vars
  BY <1>3 DEF Crash, Restart, ResumeAnswered, ResumeFails, vars, serverVars
<1>4. CASE \E r \in Requests, g \in Games : Reserve(r, g)
  BY <1>4
<1>5. CASE Progress \/ Finish \/ \E r \in Requests : TakeUpdate(r)
  BY <1>5 DEF Progress, Finish, TakeUpdate
<1> QED BY <1>1, <1>2, <1>3, <1>4, <1>5, Steps

LEMMA ServerStep ==
    ASSUME TypeInv, ServerInv, [Next]_vars
    PROVE  ServerInv' /\ Evolve
<1>0. TypeOK /\ latest \in Games \cup {NoGame} /\ calls \subseteq Games
  BY TypesByParts DEF TypeInv, TypeParts
<1>a. \A g \in Games : rounds[g].version \in Nat
  BY <1>0, TypesByParts DEF TypeParts, Snapshots
<1>b. ASSUME NEW r \in Requests, NEW g \in Games, Reserve(r, g)
      PROVE  UNCHANGED <<rounds, latest>> /\ calls' = calls \cup {g} /\ rounds[g].status = "waiting"
  BY <1>b DEF Reserve
<1>1. CASE UNCHANGED <<rounds, latest>> /\ \A g \in calls' : g \in calls \/ rounds[g].status = "waiting"
  <2>1. ServerInv'
    BY <1>0, <1>1 DEF ServerInv
  <2>2. Evolve
    BY <1>a, <1>1 DEF Evolve
  <2> QED BY <2>1, <2>2
<1>2. ASSUME NEW g \in Games, TakeStart(g)
      PROVE  ServerInv' /\ Evolve
  <2>1. g \in calls /\ calls' = calls \ {g}
    BY <1>2 DEF TakeStart
  <2>2. CASE Running
    <3>1. UNCHANGED <<rounds, latest>>
      BY <1>2, <2>2 DEF TakeStart
    <3> QED BY <1>1, <2>1, <3>1
  <2>3. CASE ~Running
    <3>1. rounds' = [rounds EXCEPT ![g] = Snapshot(g, 1, "running")] /\ latest' = g
      BY <1>2, <2>3 DEF TakeStart
    <3>2. /\ rounds'[g].game = g /\ rounds'[g].status = "running"
          /\ \A h \in Games \ {g} : rounds'[h] = rounds[h]
      BY <1>0, <3>1, RoundStarts
    <3>3. \A h \in Games : rounds[h].status # "running"
      BY <1>0, <2>3 DEF ServerInv, Running
    <3>4. rounds[g].status = "waiting"
      BY <2>1 DEF ServerInv
    <3>5. latest' # NoGame
      BY <3>1, GamesAssumption
    <3>6. \A h \in Games : /\ rounds'[h].game = h
                           /\ rounds'[h].status = "running" => h = g
      BY <3>2, <3>3 DEF ServerInv
    <3>7. \A h \in calls' : rounds'[h].status = "waiting"
      BY <1>0, <2>1, <3>2 DEF ServerInv
    <3>8. ServerInv'
      BY <3>1, <3>2, <3>5, <3>6, <3>7 DEF ServerInv
    <3>9. Evolve
      BY <1>a, <3>2, <3>4 DEF Evolve
    <3> QED BY <3>8, <3>9
  <2> QED BY <2>2, <2>3
<1>3. ASSUME NEW status \in {"running", "finished"}, Change(status)
      PROVE  ServerInv' /\ Evolve
  <2>1. status \in Statuses
    BY DEF Statuses
  <2>2. /\ latest \in Games /\ rounds[latest].status = "running"
        /\ rounds'[latest].game = rounds[latest].game
        /\ rounds'[latest].status = status
        /\ rounds'[latest].version = rounds[latest].version + 1
        /\ \A g \in Games \ {latest} : rounds'[g] = rounds[g]
        /\ latest' = latest /\ calls' = calls
    BY <1>0, <1>3, <2>1, RoundChanges
  <2>3. latest # NoGame
    BY <2>2, GamesAssumption
  <2>4. \A g \in Games : /\ rounds'[g].game = g
                         /\ rounds'[g].status = "running" => g = latest
    BY <2>2 DEF ServerInv
  <2>5. \A g \in calls' : rounds'[g].status = "waiting"
    BY <1>0, <2>2 DEF ServerInv
  <2>6. ServerInv'
    BY <2>2, <2>3, <2>4, <2>5 DEF ServerInv
  <2>7. rounds[latest].version <= rounds'[latest].version
    BY <1>a, <2>2
  <2>8. Evolve
    BY <1>a, <2>2, <2>7 DEF Evolve
  <2> QED BY <2>6, <2>8
<1> QED BY <1>b, <1>1, <1>2, <1>3, RoundMoves

-----------------------------------------------------------------------------
(***************************************************************************)
(* What becomes of one request, of one observer and of the board.          *)
(***************************************************************************)

LEMMA RequestMoves ==
    ASSUME TypeInv, [Next]_vars, NEW r \in Requests
    PROVE  \/ requests'[r] = requests[r]
           \/ /\ requests'[r].kind = "none" /\ requests'[r].phase = "idle"
              /\ requests'[r].got = Default
           \/ /\ requests'[r].kind = "update" /\ requests'[r].phase = "calling"
              /\ requests'[r].got = Default
           \/ /\ requests'[r].kind = "start" /\ requests'[r].phase = "calling"
              /\ requests'[r].got = Default
           \/ /\ TakeStart(requests[r].game)
              /\ Starting(r) /\ requests[r].phase = "calling"
              /\ requests'[r].kind = "start" /\ requests'[r].game = requests[r].game
              /\ requests'[r].got = requests[r].got
              /\ requests'[r].phase = IF Running THEN "refused" ELSE "accepted"
           \/ StartAnswered(r) \/ TakeUpdate(r) \/ Write(r)
<1>0. TypeOK /\ TracksInv /\ StartsInv
  BY DEF TypeInv
<1>1. CASE \E g \in Games : \/ ObserverChecks(g) \/ ObserverAnswered(g)
                              \/ ObserverRefused(g) \/ ObserverWrites(g)
                              \/ ObserverSends(g) \/ ObserverLeaves(g)
  BY <1>0, <1>1, ObserverMoves
<1>2. CASE \E s \in Requests :
         StartFails(s) \/ StartDropped(s) \/ UpdateFails(s) \/ Send(s)
  <2>1. PICK s \in Requests : requests' = [requests EXCEPT ![s] = Idle]
    BY <1>2 DEF StartFails, StartDropped, UpdateFails, Send
  <2> QED BY <1>0, <2>1, Ended
<1>3. CASE \E s \in Requests : CheckSlot(s)
  BY <1>0, <1>3, SlotChecked
<1>4. CASE \E s \in Requests : StartAnswered(s)
  BY <1>0, <1>4, Answered
<1>5. CASE \E s \in Requests : TakeUpdate(s)
  BY <1>0, <1>5, Updated
<1>6. CASE \E s \in Requests : Write(s)
  BY <1>0, <1>6, Written
<1>7. CASE \E s \in Requests, g \in Games : Reserve(s, g)
  BY <1>0, <1>7, Reserved
<1>8. CASE \E g \in Games : TakeStart(g)
  <2>1. PICK g \in Games : TakeStart(g)
    BY <1>8
  <2> DEFINE p == IF Running THEN "refused" ELSE "accepted"
  <2>2. requests' = Replied(g, p)
    BY <2>1 DEF TakeStart
  <2>3. p \in Phases
    BY DEF Phases
  <2> HIDE DEF p
  <2>4. /\ requests'[r].kind = requests[r].kind
        /\ requests'[r].game = requests[r].game
        /\ requests'[r].got = requests[r].got
        /\ Waits(r, g) => requests'[r].phase = p
        /\ ~Waits(r, g) => requests'[r] = requests[r]
    BY <1>0, <2>2, <2>3, RequestReplies
  <2> QED BY <2>1, <2>4 DEF Waits, Starting, p
<1>9. CASE Progress \/ Finish \/ Restart \/ ResumeAnswered \/ ResumeFails \/ UNCHANGED vars
  BY <1>9 DEF Progress, Finish, Restart, ResumeAnswered, ResumeFails, vars, taskVars
<1>10. CASE Crash
  BY <1>10, IdleType DEF Crash
<1> QED
  BY <1>1, <1>2, <1>3, <1>4, <1>5, <1>6, <1>7, <1>8, <1>9, <1>10, Steps

ObserverStep(g) ==
    \/ ObserverChecks(g) \/ ObserverAnswered(g) \/ ObserverRefused(g)
    \/ ObserverWrites(g) \/ ObserverSends(g) \/ ObserverLeaves(g)

LEMMA ObserverSteps ==
    ASSUME TypeInv, [Next]_vars, NEW g \in Games
    PROVE  \/ observers'[g] = observers[g]
           \/ observers'[g] = NoObserver
           \/ /\ \E r \in Requests : /\ Starting(r) /\ requests[r].phase = "sending"
                                      /\ requests[r].game = g
              /\ observers'[g] = Observer(FALSE) /\ stored' = stored
           \/ /\ latest = g /\ Running
              /\ observers'[g] = Observer(TRUE) /\ stored' = rounds[latest]
           \/ ObserverStep(g)
<1>0. TypeOK /\ TracksInv /\ StartsInv
  BY DEF TypeInv
<1>1. CASE \E h \in Games : ObserverStep(h)
  <2>1. PICK h \in Games : ObserverStep(h)
    BY <1>1
  <2>2. \A k \in Games \ {h} : observers'[k] = observers[k]
    BY <1>0, <2>1, ObserverMoves DEF ObserverStep
  <2> QED BY <2>1, <2>2
<1>2. CASE \E r \in Requests : Send(r)
  <2>1. PICK r \in Requests : Send(r)
    BY <1>2
  <2>2. /\ requests[r].phase = "sending"
        /\ Starting(r) =>
              /\ observers'[requests[r].game] = Observer(FALSE)
              /\ \A h \in Games \ {requests[r].game} : observers'[h] = observers[h]
        /\ ~Starting(r) => observers' = observers
    BY <1>0, <2>1, Sent
  <2>3. stored' = stored
    BY <2>1 DEF Send
  <2> QED BY <2>2, <2>3
<1>3. CASE ResumeAnswered
  <2>1. CASE Running
    <3>1. /\ observers' = [observers EXCEPT ![latest] = Observer(TRUE)]
          /\ stored' = rounds[latest]
      BY <1>3, <2>1 DEF ResumeAnswered
    <3>2. latest \in Games
      BY <1>0, <2>1, TypesByParts DEF TypeParts, Running
    <3>3. /\ observers'[latest] = Observer(TRUE)
          /\ \A h \in Games \ {latest} : observers'[h] = observers[h]
      BY <1>0, <3>1, <3>2, ObserverType, ObserverSet
    <3> QED BY <2>1, <3>1, <3>3
  <2>2. CASE ~Running
    BY <1>3, <2>2 DEF ResumeAnswered
  <2> QED BY <2>1, <2>2
<1>4. CASE Crash
  BY <1>4 DEF Crash
<1>5. CASE \/ Progress \/ Finish \/ Restart \/ ResumeFails \/ UNCHANGED vars
           \/ \E h \in Games : TakeStart(h)
           \/ \E r \in Requests, h \in Games : Reserve(r, h)
           \/ \E r \in Requests : \/ StartFails(r) \/ StartDropped(r) \/ CheckSlot(r) \/ StartAnswered(r)
                                  \/ TakeUpdate(r) \/ UpdateFails(r) \/ Write(r)
  BY <1>5 DEF Progress, Finish, Restart, ResumeFails, vars, taskVars, TakeStart, Reserve,
              StartFails, StartDropped, StartAnswered, CheckSlot, TakeUpdate, UpdateFails, Write
<1> QED BY <1>1, <1>2, <1>3, <1>4, <1>5, Steps DEF ObserverStep

LEMMA BoardMoves ==
    ASSUME TypeInv, [Next]_vars
    PROVE  /\ \/ stored' = stored
              \/ Crash /\ stored' = Default
              \/ \E r \in Requests : /\ requests[r].phase = "publishing"
                                     /\ stored' = requests[r].got
              \/ \E g \in Games : /\ observers[g].phase = "publishing"
                                  /\ stored' = observers[g].got
              \/ latest # NoGame /\ rounds' = rounds /\ stored' = rounds[latest]
           /\ \/ feed' = feed
              \/ \E r \in Requests : feed' = requests[r].got
              \/ \E g \in Games : feed' = observers[g].got
<1>0. TypeOK /\ TracksInv /\ StartsInv
  BY DEF TypeInv
<1>1. ASSUME NEW g \in Games, ObserverStep(g)
      PROVE  /\ \/ stored' = stored
                \/ observers[g].phase = "publishing" /\ stored' = observers[g].got
             /\ feed' = feed \/ feed' = observers[g].got
  BY <1>0, <1>1, ObserverMoves DEF ObserverStep
<1>2. ASSUME NEW r \in Requests, Write(r)
      PROVE  requests[r].phase = "publishing" /\ stored' = requests[r].got /\ feed' = feed
  BY <1>2 DEF Write
<1>3. ASSUME NEW r \in Requests, Send(r)
      PROVE  stored' = stored /\ feed' = requests[r].got
  BY <1>3 DEF Send
<1>4. CASE Crash
  BY <1>4 DEF Crash
<1>5. CASE ResumeAnswered
  BY <1>5 DEF ResumeAnswered, serverVars
<1>6. CASE \/ Progress \/ Finish \/ Restart \/ ResumeFails \/ UNCHANGED vars
           \/ \E h \in Games : TakeStart(h)
           \/ \E r \in Requests, h \in Games : Reserve(r, h)
           \/ \E r \in Requests : \/ StartFails(r) \/ StartDropped(r) \/ CheckSlot(r) \/ StartAnswered(r)
                                  \/ TakeUpdate(r) \/ UpdateFails(r)
  BY <1>6 DEF Progress, Finish, Restart, ResumeFails, vars, publishVars, TakeStart, Reserve,
              StartFails, StartDropped, StartAnswered, CheckSlot, TakeUpdate, UpdateFails
<1> QED BY <1>1, <1>2, <1>3, <1>4, <1>5, <1>6, Steps DEF ObserverStep
-----------------------------------------------------------------------------
(***************************************************************************)
(* What a request and an observer know of the round they work on.          *)
(***************************************************************************)

ReplyInv ==
    \A r \in Requests : Starting(r) =>
        /\ requests[r].phase \in {"accepted", "publishing", "sending"} =>
              rounds[requests[r].game].status # "waiting"
        /\ requests[r].phase = "refused" =>
              rounds[requests[r].game].status = "waiting" /\ requests[r].game \notin calls

WatchInv ==
    \A g \in Games :
        /\ Observing(g) => rounds[g].status # "waiting"
        /\ \/ observers[g].phase = "leaving"
           \/ /\ observers[g].phase \in {"publishing", "sending"}
              /\ observers[g].got.status = "finished"
           => rounds[g].status = "finished"

LEMMA WorkInitially == Init => ReplyInv /\ WatchInv
  BY IdleType, NoObserverType DEF Init, ReplyInv, WatchInv, Starting, Observing

LEMMA ReplyStep ==
    ASSUME TypeInv, SlotInv, ServerInv, ReplyInv, [Next]_vars
    PROVE  ReplyInv'
<1> SUFFICES ASSUME NEW r \in Requests, Starting(r)'
             PROVE  /\ requests'[r].phase \in {"accepted", "publishing", "sending"} =>
                          rounds'[requests'[r].game].status # "waiting"
                    /\ requests'[r].phase = "refused" =>
                          /\ rounds'[requests'[r].game].status = "waiting"
                          /\ requests'[r].game \notin calls'
  BY DEF ReplyInv
<1> DEFINE g == requests[r].game
<1>0. /\ TypeOK /\ StartsInv /\ Evolve /\ requests'[r].kind = "start"
      /\ calls \subseteq Games
  BY ServerStep, TypesByParts DEF TypeInv, Starting, TypeParts
<1>1. CASE requests'[r] = requests[r]
  <2>1. Starting(r) /\ g \in Games
    BY <1>0, <1>1 DEF Starting, StartsInv
  <2>2. rounds[g].status # "waiting" => rounds'[g].status # "waiting"
    BY <1>0, <2>1 DEF Evolve
  <2>3. ASSUME requests[r].phase = "refused"
        PROVE  rounds'[g].status = "waiting" /\ g \notin calls'
    <3>1. rounds[g].status = "waiting" /\ g \notin calls
      BY <2>1, <2>3 DEF ReplyInv
    <3>2. CASE UNCHANGED <<rounds, latest, calls>>
      BY <3>1, <3>2
    <3>3. CASE \E h \in Games : TakeStart(h)
      <4>1. PICK h \in Games : TakeStart(h)
        BY <3>3
      <4>2. h \in calls /\ calls' = calls \ {h}
        BY <4>1 DEF TakeStart
      <4>3. rounds' = rounds \/ rounds' = [rounds EXCEPT ![h] = Snapshot(h, 1, "running")]
        BY <4>1 DEF TakeStart
      <4>4. rounds'[g] = rounds[g]
        BY <1>0, <2>1, <3>1, <4>2, <4>3, RoundStarts
      <4> QED BY <3>1, <4>2, <4>4
    <3>4. ASSUME NEW status \in {"running", "finished"}, Change(status)
          PROVE  rounds'[g].status = "waiting" /\ g \notin calls'
      <4>1. status \in Statuses
        BY DEF Statuses
      <4>2. /\ rounds[latest].status = "running" /\ calls' = calls
            /\ \A h \in Games \ {latest} : rounds'[h] = rounds[h]
        BY <1>0, <3>4, <4>1, RoundChanges
      <4>3. rounds'[g] = rounds[g]
        BY <2>1, <3>1, <4>2
      <4> QED BY <3>1, <4>2, <4>3
    <3>5. CASE \E s \in Requests, h \in Games : Reserve(s, h)
      <4>1. slot = NoGame
        BY <3>5 DEF Reserve
      <4> QED BY <2>1, <4>1, FreeSlot
    <3> QED BY <3>2, <3>3, <3>4, <3>5, RoundMoves
  <2> HIDE DEF g
  <2>4. requests[r].phase \in {"accepted", "publishing", "sending"} =>
           rounds[g].status # "waiting"
    BY <2>1 DEF ReplyInv, g
  <2> QED BY <1>1, <2>2, <2>3, <2>4 DEF g
<1>2. CASE /\ TakeStart(g) /\ Starting(r) /\ requests[r].phase = "calling"
           /\ requests'[r].game = g
           /\ requests'[r].phase = IF Running THEN "refused" ELSE "accepted"
  <2>1. g \in Games
    BY <1>0, <1>2 DEF StartsInv
  <2> HIDE DEF g
  <2>2. g \in calls /\ calls' = calls \ {g}
    BY <1>2 DEF TakeStart
  <2>3. rounds[g].status = "waiting"
    BY <2>2 DEF ServerInv
  <2>4. CASE Running
    <3>1. rounds' = rounds
      BY <1>2, <2>4 DEF TakeStart
    <3> QED BY <1>2, <2>2, <2>3, <2>4, <3>1
  <2>5. CASE ~Running
    <3>1. rounds' = [rounds EXCEPT ![g] = Snapshot(g, 1, "running")]
      BY <1>2, <2>5 DEF TakeStart
    <3>2. rounds'[g].status = "running"
      BY <1>0, <2>1, <3>1, RoundStarts
    <3> QED BY <1>2, <2>5, <3>2
  <2> QED BY <2>4, <2>5
<1>3. CASE StartAnswered(r)
  <2>1. /\ Starting(r) /\ requests[r].phase = "accepted" /\ g \in Games
        /\ requests'[r].phase = "publishing" /\ requests'[r].game = g
    BY <1>0, <1>3, Answered DEF Starting
  <2>2. rounds[g].status # "waiting"
    BY <2>1 DEF ReplyInv
  <2> QED BY <1>0, <2>1, <2>2 DEF Evolve
<1>4. CASE Write(r)
  <2>1. /\ requests[r].phase = "publishing" /\ requests'[r].phase = "sending"
        /\ requests'[r].kind = requests[r].kind /\ requests'[r].game = g
    BY <1>0, <1>4, Written
  <2>2. Starting(r) /\ g \in Games
    BY <1>0, <2>1 DEF Starting, StartsInv
  <2>3. rounds[g].status # "waiting"
    BY <2>1, <2>2 DEF ReplyInv
  <2> QED BY <1>0, <2>1, <2>2, <2>3 DEF Evolve
<1>5. ~TakeUpdate(r)
  <2>1. ASSUME TakeUpdate(r) PROVE FALSE
    BY <1>0, <2>1, Updated
  <2> QED BY <2>1
<1> QED BY <1>0, <1>1, <1>2, <1>3, <1>4, <1>5, RequestMoves

LEMMA WatchStep ==
    ASSUME TypeInv, ServerInv, ReplyInv, WatchInv, [Next]_vars
    PROVE  WatchInv'
<1> SUFFICES ASSUME NEW g \in Games
             PROVE  /\ (observers'[g].phase # "off") => rounds'[g].status # "waiting"
                    /\ \/ observers'[g].phase = "leaving"
                       \/ /\ observers'[g].phase \in {"publishing", "sending"}
                          /\ observers'[g].got.status = "finished"
                       => rounds'[g].status = "finished"
  BY DEF WatchInv, Observing
<1>0. TypeOK /\ TracksInv /\ ServerInv' /\ Evolve
  BY ServerStep DEF TypeInv
<1>1. /\ rounds[g].status # "waiting" => rounds'[g].status # "waiting"
      /\ rounds[g].status = "finished" => rounds'[g].status = "finished"
  BY <1>0 DEF Evolve
<1>2. /\ (observers[g].phase # "off") => rounds[g].status # "waiting"
      /\ \/ observers[g].phase = "leaving"
         \/ /\ observers[g].phase \in {"publishing", "sending"}
            /\ observers[g].got.status = "finished"
         => rounds[g].status = "finished"
  BY DEF WatchInv, Observing
<1>3. CASE observers'[g] = observers[g]
  BY <1>1, <1>2, <1>3
<1>4. CASE observers'[g] = NoObserver
  BY <1>4, NoObserverType
<1>5. CASE /\ \E r \in Requests : /\ Starting(r) /\ requests[r].phase = "sending"
                                  /\ requests[r].game = g
           /\ observers'[g] = Observer(FALSE)
  <2>1. rounds[g].status # "waiting"
    BY <1>5 DEF ReplyInv
  <2> QED BY <1>1, <1>5, <2>1, ObserverType
<1>6. CASE latest = g /\ Running /\ observers'[g] = Observer(TRUE)
  <2>1. rounds[g].status # "waiting"
    BY <1>6 DEF Running
  <2> QED BY <1>1, <1>6, <2>1, ObserverType
<1>7. CASE ObserverStep(g)
  <2>1. /\ Observing(g)
        /\ \/ observers'[g].phase \in {"checking", "asking"}
           \/ observers'[g].phase = "publishing" /\ observers'[g].got = Observed(g)
           \/ /\ observers[g].phase = "publishing" /\ observers'[g].phase = "sending"
              /\ observers'[g].got = observers[g].got
           \/ /\ observers[g].phase = "sending" /\ observers'[g].phase = "leaving"
              /\ observers[g].got.status = "finished"
           \/ observers'[g] = NoObserver
    BY <1>0, <1>7, ObserverMoves DEF ObserverStep
  <2>2. rounds[g].status # "waiting"
    BY <1>2, <2>1 DEF Observing
  <2>3. Observed(g).status = "finished" => rounds[g].status = "finished"
    <3>1. rounds[g].status \in Statuses
      BY <1>0, TypesByParts DEF TypeParts, Snapshots
    <3>2. rounds[g].status = "running" => g = latest
      BY DEF ServerInv
    <3> QED BY <2>2, <3>1, <3>2 DEF Statuses, Observed
  <2> QED BY <1>1, <1>2, <2>1, <2>2, <2>3, NoObserverType
<1> QED BY <1>3, <1>4, <1>5, <1>6, <1>7, ObserverSteps

-----------------------------------------------------------------------------
(***************************************************************************)
(* The running round is in the slot, or the process cannot know of it.     *)
(***************************************************************************)

Calling(r, g) == Starting(r) /\ requests[r].game = g /\ requests[r].phase = "calling"

\* A call that is on its way is one a request waits for, the one of the request
\* that was dropped, or a lost one.
CallsInv ==
    process = "serving" =>
        \A g \in calls : \/ g \in lost \/ (orphaned /\ slot = g)
                         \/ \E r \in Requests : Calling(r, g)

KnownInv == CallsInv /\ RunningRoundKnown

LEMMA KnownInitially == Init => KnownInv
  BY DEF Init, KnownInv, CallsInv, RunningRoundKnown

\* A step that loses nothing, keeps the slot, starts no round, and answers no call.
LEMMA KnownFrame ==
    ASSUME KnownInv, process' = process, calls' = calls, lost' = lost, slot' = slot,
           orphaned' = orphaned,
           Running' => Running /\ latest' = latest,
           \A r \in Requests, g \in Games : Calling(r, g) => Calling(r, g)',
           calls \subseteq Games
    PROVE  KnownInv'
<1>1. CallsInv'
  BY DEF KnownInv, CallsInv
<1>2. RunningRoundKnown'
  BY DEF KnownInv, RunningRoundKnown
<1> QED BY <1>1, <1>2 DEF KnownInv

LEMMA KnownStep ==
    ASSUME TypeInv, SlotInv, ServerInv, ReplyInv, WatchInv, KnownInv, [Next]_vars
    PROVE  KnownInv'
<1>0. /\ TypeOK /\ TracksInv /\ StartsInv /\ calls \subseteq Games
      /\ latest \in Games \cup {NoGame}
  BY TypesByParts DEF TypeInv, TypeParts
\* No call is answered, whatever the other requests do.
<1>a. ASSUME NEW r \in Requests, ~(Starting(r) /\ requests[r].phase = "calling"),
             \A s \in Requests \ {r} : requests'[s] = requests[s]
      PROVE  \A s \in Requests, g \in Games : Calling(s, g) => Calling(s, g)'
  BY <1>a DEF Calling, Starting
<1>b. ASSUME UNCHANGED <<rounds, latest>>
      PROVE  Running' => Running /\ latest' = latest
  BY <1>b DEF Running
<1>c. ASSUME NEW r \in Requests, ~(Starting(r) /\ requests[r].phase = "calling"),
             \A s \in Requests \ {r} : requests'[s] = requests[s],
             UNCHANGED <<rounds, latest, calls, process, slot, lost, orphaned>>
      PROVE  KnownInv'
  BY <1>0, <1>a, <1>b, <1>c, KnownFrame
<1>d. ASSUME requests' = requests
      PROVE  \A s \in Requests, g \in Games : Calling(s, g) => Calling(s, g)'
  BY <1>d DEF Calling, Starting
\* The round changes.
<1>1. ASSUME Progress \/ Finish
      PROVE  KnownInv'
  <2>1. UNCHANGED <<latest, calls, process, slot, requests, lost, orphaned>> /\ Running
    BY <1>1 DEF Progress, Finish, Change, taskVars
  <2> QED BY <1>0, <1>d, <2>1, KnownFrame
<1>2. ASSUME NEW r \in Requests, TakeUpdate(r)
      PROVE  KnownInv'
  <2>1. UNCHANGED <<latest, calls, process, slot, lost, orphaned>> /\ Running
    BY <1>2 DEF TakeUpdate, Change
  <2>2. /\ ~Starting(r)
        /\ \A s \in Requests \ {r} : requests'[s] = requests[s]
    BY <1>0, <1>2, Updated DEF Starting
  <2> QED BY <1>0, <1>a, <2>1, <2>2, KnownFrame
\* Requests that leave the slot as it is.
<1>3. ASSUME NEW r \in Requests,
             StartAnswered(r) \/ CheckSlot(r) \/ UpdateFails(r) \/ Write(r) \/ Send(r)
      PROVE  KnownInv'
  <2>1. UNCHANGED <<rounds, latest, calls, process, slot, lost, orphaned>>
    BY <1>3 DEF StartAnswered, CheckSlot, UpdateFails, Write, Send, serverVars
  <2>2. \A s \in Requests \ {r} : requests'[s] = requests[s]
    <3>1. CASE StartAnswered(r)
      BY <1>0, <3>1, Answered
    <3>2. CASE CheckSlot(r)
      BY <1>0, <3>2, SlotChecked
    <3>3. CASE UpdateFails(r)
      BY <1>0, <3>3, Ended DEF UpdateFails
    <3>4. CASE Write(r)
      BY <1>0, <3>4, Written
    <3>5. CASE Send(r)
      BY <1>0, <3>5, Sent
    <3> QED BY <1>3, <3>1, <3>2, <3>3, <3>4, <3>5
  <2>3. ~(Starting(r) /\ requests[r].phase = "calling")
    BY <1>3 DEF StartAnswered, CheckSlot, UpdateFails, Write, Send, Starting, Free
  <2> QED BY <1>c, <2>1, <2>2, <2>3
\* A round is asked for: the one that runs already is a lost one.
<1>4. ASSUME NEW r \in Requests, NEW g \in Games, Reserve(r, g)
      PROVE  KnownInv'
  <2>1. /\ slot = NoGame /\ slot' = g /\ calls' = calls \cup {g}
        /\ UNCHANGED <<rounds, latest, process, lost, orphaned>> /\ process = "serving"
        /\ ~orphaned
    BY <1>4 DEF Reserve, Free, SlotInv
  <2>2. /\ requests'[r].kind = "start" /\ requests'[r].phase = "calling"
        /\ requests'[r].game = g
        /\ \A s \in Requests \ {r} : requests'[s] = requests[s]
    BY <1>0, <1>4, Reserved
  <2>3. Calling(r, g)'
    BY <2>2 DEF Calling, Starting
  <2>4. \A s \in Requests : ~Starting(s)
    BY <2>1, FreeSlot
  <2>5. \A h \in calls : h \in lost
    BY <2>1, <2>4 DEF KnownInv, CallsInv, Calling
  <2>6. CallsInv'
    BY <2>1, <2>3, <2>5 DEF CallsInv
  <2>7. Running => latest \in lost
    BY <2>1 DEF KnownInv, RunningRoundKnown, Running
  <2>8. RunningRoundKnown'
    BY <1>b, <2>1, <2>7 DEF RunningRoundKnown
  <2> QED BY <2>6, <2>8 DEF KnownInv
\* The start fails: the round it asked for is lost, unless the server refused it.
<1>5. ASSUME NEW r \in Requests, StartFails(r)
      PROVE  KnownInv'
  <2> DEFINE g == requests[r].game
  <2>1. /\ Starting(r) /\ requests' = [requests EXCEPT ![r] = Idle]
        /\ requests[r].phase # "refused" => lost' = lost \cup {g}
        /\ requests[r].phase = "refused" => lost' = lost
        /\ UNCHANGED <<rounds, latest, calls, process, orphaned>> /\ ~orphaned
    BY <1>5 DEF StartFails, Starting, serverVars, SlotInv
  <2>2. \A s \in Requests \ {r} : requests'[s] = requests[s]
    BY <1>0, <2>1, Ended
  <2>3. slot = g
    BY <2>1 DEF SlotInv
  <2>4. requests[r].phase = "refused" => rounds[g].status = "waiting"
    BY <2>1 DEF ReplyInv
  <2> HIDE DEF g
  <2>5. CallsInv'
    <3> SUFFICES ASSUME process = "serving", NEW h \in calls
                 PROVE  h \in lost' \/ \E s \in Requests : Calling(s, h)'
      BY <2>1 DEF CallsInv
    <3>1. CASE h \in lost
      BY <2>1, <3>1
    <3>2. CASE \E s \in Requests : Calling(s, h)
      <4>1. PICK s \in Requests : Calling(s, h)
        BY <3>2
      <4>2. s # r => Calling(s, h)'
        BY <2>2, <4>1 DEF Calling, Starting
      <4>3. s = r => h = g /\ requests[r].phase # "refused"
        BY <4>1 DEF Calling, g
      <4> QED BY <2>1, <4>2, <4>3
    <3> QED BY <2>1, <3>1, <3>2 DEF KnownInv, CallsInv
  <2>6. RunningRoundKnown'
    <3> SUFFICES ASSUME process = "serving", Running
                 PROVE  latest \in lost'
      BY <1>b, <2>1 DEF RunningRoundKnown
    <3>1. slot = latest \/ latest \in lost
      BY DEF KnownInv, RunningRoundKnown
    <3>2. latest = g => requests[r].phase # "refused"
      BY <2>4 DEF Running
    <3> QED BY <2>1, <2>3, <3>1, <3>2
  <2> QED BY <2>5, <2>6 DEF KnownInv
\* The request that starts a round is dropped: the slot still names the round.
<1>12. ASSUME NEW r \in Requests, StartDropped(r)
       PROVE  KnownInv'
  <2>1. /\ Starting(r) /\ requests' = [requests EXCEPT ![r] = Idle] /\ orphaned' = TRUE
        /\ UNCHANGED <<rounds, latest, calls, process, slot, lost>>
    BY <1>12 DEF StartDropped, Starting, serverVars
  <2>2. \A s \in Requests, h \in Games : Calling(s, h) => slot = h
    BY DEF Calling, SlotInv
  <2>3. ~orphaned
    BY <2>1 DEF SlotInv
  <2>4. CallsInv'
    BY <1>0, <2>1, <2>2, <2>3 DEF KnownInv, CallsInv
  <2>5. RunningRoundKnown'
    BY <1>b, <2>1 DEF KnownInv, RunningRoundKnown
  <2> QED BY <2>4, <2>5 DEF KnownInv
\* The server takes a start: a request waits for it, or it is a lost one.
<1>6. ASSUME NEW g \in Games, TakeStart(g)
      PROVE  KnownInv'
  <2> DEFINE p == IF Running THEN "refused" ELSE "accepted"
  <2>1. /\ g \in calls /\ calls' = calls \ {g} /\ requests' = Replied(g, p)
        /\ UNCHANGED <<process, slot, lost, orphaned>>
        /\ \/ UNCHANGED <<rounds, latest>>
           \/ latest' = g
    BY <1>6 DEF TakeStart
  <2>2. p \in Phases
    BY DEF Phases
  <2> HIDE DEF p
  <2>3. \A r \in Requests : ~Waits(r, g) => requests'[r] = requests[r]
    BY <1>0, <2>1, <2>2, RequestReplies
  <2>4. \A r \in Requests, h \in Games \ {g} : Calling(r, h) => Calling(r, h)'
    BY <2>3 DEF Calling, Starting, Waits
  <2>5. CallsInv'
    BY <1>0, <2>1, <2>4 DEF KnownInv, CallsInv
  <2>6. process = "serving" => g \in lost \/ slot = g
    <3>1. \A r \in Requests : Calling(r, g) => slot = g
      BY DEF Calling, SlotInv
    <3> QED BY <2>1, <3>1 DEF KnownInv, CallsInv
  <2>7. RunningRoundKnown'
    <3>1. CASE UNCHANGED <<rounds, latest>>
      BY <1>b, <2>1, <3>1 DEF KnownInv, RunningRoundKnown
    <3>2. CASE latest' = g
      BY <2>1, <2>6, <3>2 DEF RunningRoundKnown
    <3> QED BY <2>1, <3>1, <3>2
  <2> QED BY <2>5, <2>7 DEF KnownInv
\* The observer leaves a round that has finished.
<1>7. ASSUME NEW g \in Games, ObserverStep(g)
      PROVE  KnownInv'
  <2>1. /\ Observing(g) /\ UNCHANGED <<rounds, latest, calls, process, requests, lost, orphaned>>
        /\ slot' = slot \/ observers[g].phase = "leaving"
    BY <1>0, <1>7, ObserverMoves DEF ObserverStep, serverVars
  <2>2. slot = g /\ ~orphaned
    BY <2>1 DEF SlotInv
  <2>3. CASE slot' = slot
    BY <1>0, <1>b, <1>d, <2>1, <2>3, KnownFrame
  <2>4. CASE observers[g].phase = "leaving"
    <3>1. rounds[g].status = "finished"
      BY <2>4 DEF WatchInv
    <3>2. CallsInv'
      BY <1>0, <1>d, <2>1, <2>2 DEF KnownInv, CallsInv
    <3>3. Running => latest # g
      BY <3>1 DEF Running
    <3>4. RunningRoundKnown'
      BY <1>b, <2>1, <2>2, <3>3 DEF KnownInv, RunningRoundKnown
    <3> QED BY <3>2, <3>4 DEF KnownInv
  <2> QED BY <2>1, <2>3, <2>4
<1>8. CASE Crash \/ Restart
  <2>1. process' # "serving"
    BY <1>8 DEF Crash, Restart
  <2> QED BY <2>1 DEF KnownInv, CallsInv, RunningRoundKnown
\* What a new process does not see is lost to it.
<1>9. CASE ResumeAnswered
  <2>1. latest # NoGame /\ UNCHANGED <<rounds, latest, calls>>
    BY <1>9 DEF ResumeAnswered, serverVars
  <2>2. latest \notin calls
    BY <2>1 DEF ServerInv
  <2>3. /\ Running => slot' = latest
        /\ lost \cup calls \subseteq lost' \cup {latest}
    BY <1>9 DEF ResumeAnswered
  <2>4. CallsInv'
    BY <2>1, <2>2, <2>3 DEF CallsInv
  <2>5. RunningRoundKnown'
    BY <1>b, <2>1, <2>3 DEF RunningRoundKnown
  <2> QED BY <2>4, <2>5 DEF KnownInv
<1>10. CASE ResumeFails
  <2>1. /\ UNCHANGED <<rounds, latest, calls>> /\ calls \subseteq lost'
        /\ Running => latest \in lost'
    BY <1>10 DEF ResumeFails, serverVars
  <2>2. CallsInv'
    BY <2>1 DEF CallsInv
  <2>3. RunningRoundKnown'
    BY <1>b, <2>1 DEF RunningRoundKnown
  <2> QED BY <2>2, <2>3 DEF KnownInv
<1>11. CASE UNCHANGED vars
  <2>1. UNCHANGED <<rounds, latest, calls, process, slot, requests, lost, orphaned>>
    BY <1>11 DEF vars, serverVars, taskVars
  <2> QED BY <1>0, <1>b, <1>d, <2>1, KnownFrame
<1> QED
  BY <1>1, <1>2, <1>3, <1>4, <1>5, <1>6, <1>7, <1>8, <1>9, <1>10, <1>11, <1>12, Steps
     DEF ObserverStep

-----------------------------------------------------------------------------
WorkInv == TypeInv /\ SlotInv /\ ServerInv /\ ReplyInv /\ WatchInv

LEMMA WorkInvInitially == Init => WorkInv
  BY TypesInitially, SlotInitially, ServerInitially, WorkInitially DEF WorkInv, TypeInv

LEMMA WorkInvStep == WorkInv /\ [Next]_vars => WorkInv'
  BY TypeInvStep, SlotStep, ServerStep, ReplyStep, WatchStep DEF WorkInv

\* A running round is the one in the slot, but for the rounds the process cannot
\* know of.
THEOREM RunningRoundStaysKnown == Spec => []RunningRoundKnown
<1>1. Init => WorkInv /\ KnownInv
  BY WorkInvInitially, KnownInitially
<1>2. WorkInv /\ KnownInv /\ [Next]_vars => (WorkInv /\ KnownInv)'
  BY WorkInvStep, KnownStep DEF WorkInv
<1>3. KnownInv => RunningRoundKnown
  BY DEF KnownInv
<1> QED BY <1>1, <1>2, <1>3, PTL DEF Spec

-----------------------------------------------------------------------------
(***************************************************************************)
(* Snapshots on their way to the board: none is ahead of its round.        *)
(***************************************************************************)

\* Real, of a snapshot and the rounds it is compared with.
RealIn(rs, s) ==
    s.game # NoGame =>
        /\ rs[s.game].status # "waiting"
        /\ s.version <= rs[s.game].version
        /\ s.status = "finished" => rs[s.game] = s

BoardInv ==
    /\ RealIn(rounds, stored) /\ RealIn(rounds, feed)
    /\ \A r \in Requests : RealIn(rounds, requests[r].got)
    /\ \A g \in Games : RealIn(rounds, observers[g].got)

LEMMA BoardInitially == Init => BoardInv
<1>1. \A rs : RealIn(rs, Default)
  BY DefaultType DEF RealIn
<1> QED BY <1>1, IdleType, NoObserverType DEF Init, BoardInv

\* What was real stays real.
LEMMA RealStays ==
    ASSUME TypeInv, ServerInv, [Next]_vars, NEW s \in Snapshots, RealIn(rounds, s)
    PROVE  RealIn(rounds', s)
<1>1. CASE s.game = NoGame
  BY <1>1 DEF RealIn
<1>2. CASE s.game # NoGame
  <2> DEFINE g == s.game
  <2>1. g \in Games /\ s.version \in Nat
    BY <1>2 DEF Snapshots
  <2>2. /\ rounds[g].status # "waiting" /\ s.version <= rounds[g].version
        /\ s.status = "finished" => rounds[g] = s
    BY <1>2 DEF RealIn
  <2>3. Evolve
    BY ServerStep
  <2>4. /\ rounds'[g].status # "waiting"
        /\ rounds[g].version <= rounds'[g].version
        /\ rounds[g].status = "finished" => rounds'[g] = rounds[g]
    BY <2>1, <2>2, <2>3 DEF Evolve
  <2>5. rounds[g].version \in Nat /\ rounds'[g].version \in Nat
    <3>1. TypeOK' /\ TypeOK
      BY TypeInvStep DEF TypeInv
    <3>2. rounds \in [Games -> Snapshots] /\ rounds' \in [Games -> Snapshots]
      BY <3>1, TypesByParts, TypesByPartsPrimed DEF TypeParts
    <3> QED BY <2>1, <3>2 DEF Snapshots
  <2>6. s.version <= rounds'[g].version
    BY <2>1, <2>2, <2>4, <2>5
  <2>7. s.status = "finished" => rounds'[g] = s
    BY <2>2, <2>4
  <2> QED BY <2>4, <2>6, <2>7 DEF RealIn
<1> QED BY <1>1, <1>2

\* The round itself is real once it has started.
LEMMA RoundReal ==
    ASSUME TypeOK, ServerInv, NEW g \in Games, rounds[g].status # "waiting"
    PROVE  RealIn(rounds, rounds[g])
<1>1. rounds[g].version \in Nat
  BY TypesByParts DEF TypeParts, Snapshots
<1>2. rounds[g].game = g
  BY DEF ServerInv
<1> QED BY <1>1, <1>2 DEF RealIn

LEMMA RoundRealPrimed ==
    ASSUME TypeOK', ServerInv', NEW g \in Games, rounds'[g].status # "waiting"
    PROVE  RealIn(rounds', rounds'[g])
<1>1. rounds'[g].version \in Nat
  BY TypesByPartsPrimed DEF TypeParts, Snapshots
<1>2. rounds'[g].game = g
  BY DEF ServerInv
<1> QED BY <1>1, <1>2 DEF RealIn

LEMMA BoardStep ==
    ASSUME WorkInv, BoardInv, [Next]_vars
    PROVE  BoardInv'
<1>0. /\ TypeInv /\ ServerInv /\ ReplyInv /\ WatchInv
      /\ TypeOK /\ TracksInv /\ StartsInv
      /\ TypeOK' /\ ServerInv' /\ Evolve
  BY WorkInvStep, ServerStep DEF WorkInv, TypeInv
<1>1. /\ stored \in Snapshots /\ feed \in Snapshots
      /\ \A r \in Requests : requests[r].got \in Snapshots
      /\ \A g \in Games : observers[g].got \in Snapshots
      /\ rounds \in [Games -> Snapshots] /\ latest \in Games \cup {NoGame}
  BY <1>0, TypesByParts DEF TypeParts, RequestTypes, ObserverTypes
<1>2. /\ RealIn(rounds', stored) /\ RealIn(rounds', feed)
      /\ \A r \in Requests : RealIn(rounds', requests[r].got)
      /\ \A g \in Games : RealIn(rounds', observers[g].got)
  BY <1>0, <1>1, RealStays DEF BoardInv
<1>3. RealIn(rounds', Default)
  BY DefaultType DEF RealIn
<1>4. ASSUME NEW g \in Games, rounds[g].status # "waiting"
      PROVE  RealIn(rounds', rounds[g])
  BY <1>0, <1>1, <1>4, RoundReal, RealStays
<1>5. RealIn(rounds', stored') /\ RealIn(rounds', feed')
  <2>1. latest # NoGame => RealIn(rounds', rounds[latest])
    BY <1>0, <1>1, <1>4 DEF ServerInv
  <2> QED BY <1>0, <1>2, <1>3, <2>1, BoardMoves
<1>6. ASSUME NEW r \in Requests
      PROVE  RealIn(rounds', requests'[r].got)
  <2>1. CASE StartAnswered(r)
    <3> DEFINE s == requests'[r].got
               g == requests[r].game
    <3>1. /\ Starting(r) /\ requests[r].phase = "accepted" /\ g \in Games
          /\ s.game = g /\ s.version = 0 /\ s.status = "running"
      BY <1>0, <2>1, Answered DEF Starting
    <3>2. rounds[g].status # "waiting"
      BY <1>0, <3>1 DEF ReplyInv
    <3>3. rounds'[g].status # "waiting"
      BY <1>0, <3>1, <3>2 DEF Evolve
    <3>4. rounds'[g].version \in Nat
      BY <1>0, <3>1, TypesByPartsPrimed DEF TypeParts, Snapshots
    <3> HIDE DEF s, g
    <3>5. s.version <= rounds'[g].version
      BY <3>1, <3>4
    <3>6. s.status # "finished"
      BY <3>1
    <3>7. RealIn(rounds', s)
      BY <3>1, <3>3, <3>5, <3>6 DEF RealIn
    <3> QED BY <3>7 DEF s
  <2>2. CASE TakeUpdate(r)
    <3>1. Change("running") /\ requests'[r].got = rounds'[latest]
      BY <1>0, <2>2, Updated
    <3>2. latest \in Games /\ rounds'[latest].status = "running"
      <4>1. "running" \in Statuses
        BY DEF Statuses
      <4> QED BY <1>0, <3>1, <4>1, RoundChanges
    <3>3. RealIn(rounds', rounds'[latest])
      BY <1>0, <3>2, RoundRealPrimed
    <3> QED BY <3>1, <3>3
  <2>3. CASE Write(r)
    BY <1>0, <1>2, <2>3, Written
  <2> QED BY <1>0, <1>2, <1>3, <2>1, <2>2, <2>3, RequestMoves
<1>7. ASSUME NEW g \in Games
      PROVE  RealIn(rounds', observers'[g].got)
  <2>1. CASE ObserverStep(g)
    <3>1. /\ Observing(g)
          /\ \/ observers'[g].got = observers[g].got
             \/ observers'[g].got = Observed(g)
             \/ observers'[g] = NoObserver
      BY <1>0, <2>1, ObserverMoves DEF ObserverStep
    <3>2. RealIn(rounds', rounds[g])
      BY <1>0, <1>4, <3>1 DEF WatchInv
    <3>3. latest # NoGame => RealIn(rounds', rounds[latest])
      BY <1>0, <1>1, <1>4 DEF ServerInv
    <3>4. RealIn(rounds', Observed(g))
      BY <1>0, <3>2, <3>3 DEF Observed, TracksInv
    <3> QED BY <1>2, <1>3, <3>1, <3>4, NoObserverType
  <2> QED BY <1>0, <1>2, <1>3, <2>1, ObserverSteps, NoObserverType, ObserverType
<1> QED BY <1>5, <1>6, <1>7 DEF BoardInv

\* What the board shows is never ahead of the round.
THEOREM BoardStaysBehind == Spec => []BoardNeverAhead
<1>1. Init => WorkInv /\ BoardInv
  BY WorkInvInitially, BoardInitially
<1>2. WorkInv /\ BoardInv /\ [Next]_vars => (WorkInv /\ BoardInv)'
  BY WorkInvStep, BoardStep
<1>3. BoardInv => BoardNeverAhead
  BY DEF BoardInv, BoardNeverAhead, RealIn, Real
<1> QED BY <1>1, <1>2, <1>3, PTL DEF Spec

-----------------------------------------------------------------------------
(***************************************************************************)
(* A process that claims Temporal's answer has a board to show for it.     *)
(***************************************************************************)

ClaimInv ==
    /\ process = "serving" /\ health => stored.game # NoGame
    /\ \A r \in Requests :
          /\ requests[r].phase \in {"publishing", "sending"} =>
                requests[r].got.game # NoGame
          /\ requests[r].phase = "sending" => stored.game # NoGame
    /\ \A g \in Games :
          /\ Observing(g) => stored.game # NoGame
          /\ observers[g].phase \in {"publishing", "sending"} =>
                observers[g].got.game # NoGame

LEMMA ClaimInitially == Init => ClaimInv
  BY IdleType, NoObserverType DEF Init, ClaimInv, Observing

LEMMA ClaimStep ==
    ASSUME WorkInv, ClaimInv, [Next]_vars
    PROVE  ClaimInv'
<1>0. /\ TypeInv /\ ServerInv /\ TypeOK /\ TracksInv /\ StartsInv /\ ServerInv'
      /\ latest \in Games \cup {NoGame}
  BY WorkInvStep, TypesByParts DEF WorkInv, TypeInv, TypeParts
<1>a. ASSUME NEW g \in Games
      PROVE  rounds[g].game # NoGame /\ rounds'[g].game # NoGame
  BY <1>0, <1>a, GamesAssumption DEF ServerInv
\* A board with a game on it keeps one until the process dies.
<1>1. ~Crash /\ stored.game # NoGame => stored'.game # NoGame
  BY <1>0, <1>a, BoardMoves DEF ClaimInv
<1>2. CASE Crash
  <2>1. /\ process' = "down"
        /\ \A r \in Requests : requests'[r].phase = "idle"
        /\ \A g \in Games : observers'[g].phase = "off"
    BY <1>2, IdleType, NoObserverType DEF Crash
  <2> QED BY <2>1 DEF ClaimInv, Observing
<1>3. CASE ~Crash
  <2>1. ASSUME NEW r \in Requests
        PROVE  /\ requests'[r].phase \in {"publishing", "sending"} =>
                     requests'[r].got.game # NoGame
               /\ requests'[r].phase = "sending" => stored'.game # NoGame
    <3>1. CASE requests'[r] = requests[r]
      BY <1>1, <1>3, <3>1 DEF ClaimInv
    <3>2. CASE StartAnswered(r)
      BY <1>0, <3>2, Answered, GamesAssumption
    <3>3. CASE TakeUpdate(r)
      <4>1. Change("running") /\ requests'[r].got = rounds'[latest]
            /\ requests'[r].phase = "publishing"
        BY <1>0, <3>3, Updated
      <4>2. latest \in Games
        BY <1>0, <4>1 DEF Change, Running
      <4> QED BY <1>a, <4>1, <4>2
    <3>4. CASE Write(r)
      BY <1>0, <3>4, Written DEF ClaimInv
    <3> QED BY <1>0, <3>1, <3>2, <3>3, <3>4, RequestMoves
  <2>2. ASSUME NEW g \in Games
        PROVE  /\ (observers'[g].phase # "off") => stored'.game # NoGame
               /\ observers'[g].phase \in {"publishing", "sending"} =>
                     observers'[g].got.game # NoGame
    <3>1. CASE observers'[g] = observers[g]
      BY <1>1, <1>3, <3>1 DEF ClaimInv, Observing
    <3>2. CASE ObserverStep(g)
      <4>1. /\ Observing(g)
            /\ \/ observers'[g].phase \in {"checking", "asking", "leaving", "off"}
               \/ observers'[g].phase = "publishing" /\ observers'[g].got = Observed(g)
               \/ /\ observers[g].phase = "publishing"
                  /\ observers'[g].got = observers[g].got
        BY <1>0, <3>2, ObserverMoves, NoObserverType DEF ObserverStep
      <4>2. stored'.game # NoGame
        BY <1>1, <1>3, <4>1 DEF ClaimInv
      <4>3. Observed(g).game # NoGame
        BY <1>0, <1>a DEF Observed, TracksInv
      <4> QED BY <4>1, <4>2, <4>3 DEF ClaimInv
    <3>3. CASE /\ \E r \in Requests : Starting(r) /\ requests[r].phase = "sending"
               /\ observers'[g] = Observer(FALSE)
      BY <1>1, <1>3, <3>3, ObserverType DEF ClaimInv
    <3>4. CASE latest = g /\ observers'[g] = Observer(TRUE) /\ stored' = rounds[latest]
      BY <1>a, <3>4, ObserverType
    <3> QED BY <3>1, <3>2, <3>3, <3>4, ObserverSteps, NoObserverType, <1>0
  <2>3. process' = "serving" /\ health' => stored'.game # NoGame
    <3>1. CASE process' = process /\ health' = health
      BY <1>1, <1>3, <3>1 DEF ClaimInv
    <3>2. CASE \E g \in Games : ObserverStep(g)
      <4>1. \E g \in Games : Observing(g)
        BY <1>0, <3>2, ObserverMoves DEF ObserverStep
      <4> QED BY <1>1, <1>3, <4>1 DEF ClaimInv
    <3>3. CASE ResumeAnswered
      <4>1. stored' = rounds[latest] /\ latest # NoGame
        BY <3>3 DEF ResumeAnswered
      <4> QED BY <1>0, <1>a, <4>1
    <3>4. CASE Restart \/ ResumeFails
      BY <3>4 DEF Restart, ResumeFails
    <3>5. CASE \/ Progress \/ Finish \/ UNCHANGED vars
               \/ \E h \in Games : TakeStart(h)
               \/ \E r \in Requests, h \in Games : Reserve(r, h)
               \/ \E r \in Requests : \/ StartFails(r) \/ StartDropped(r) \/ CheckSlot(r) \/ StartAnswered(r)
                                      \/ TakeUpdate(r) \/ UpdateFails(r) \/ Write(r)
                                      \/ Send(r)
      <4>1. UNCHANGED <<process, health>>
        BY <3>5 DEF Progress, Finish, vars, TakeStart, Reserve, StartFails, StartDropped,
                    StartAnswered,
                    CheckSlot, TakeUpdate, UpdateFails, Write, Send
      <4> QED BY <3>1, <4>1
    <3> QED BY <1>3, <3>2, <3>3, <3>4, <3>5, Steps DEF ObserverStep
  <2> QED BY <2>1, <2>2, <2>3 DEF ClaimInv, Observing
<1> QED BY <1>2, <1>3

\* The claim of recovery_proof is backed by a board.
THEOREM ClaimStaysBacked == Spec => []ClaimBacked
<1>1. Init => WorkInv /\ ClaimInv
  BY WorkInvInitially, ClaimInitially
<1>2. WorkInv /\ ClaimInv /\ [Next]_vars => (WorkInv /\ ClaimInv)'
  BY WorkInvStep, ClaimStep
<1>3. ClaimInv => ClaimBacked
  BY DefaultType DEF ClaimInv, ClaimBacked
<1> QED BY <1>1, <1>2, <1>3, PTL DEF Spec
=============================================================================
