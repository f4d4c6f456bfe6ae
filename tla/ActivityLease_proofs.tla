------------------------ MODULE ActivityLease_proofs ------------------------
(***************************************************************************)
(* Proofs about ActivityLease, for every set of badges, every number of    *)
(* attempts and every choice of the times that keeps contract.rs's order.  *)
(***************************************************************************)
EXTENDS ActivityLease, TLAPS

USE ContractAssumption, NetworkAssumption

-----------------------------------------------------------------------------
(***************************************************************************)
(* Types.                                                                  *)
(***************************************************************************)

CallTypes == [state : {"off", "sleeping", "calling"}, age : Nat, reply : Replies]
CoreTypes == [state : {"idle", "sent", "throttled"}, age : Nat, reply : Replies,
              queued : BOOLEAN]

LEMMA TypesInitially == Init => TypeOK
  BY DEF Init, TypeOK, Phases, Replies, NoCall, NoCore

\* A request with one field renewed.
LEMMA CallFields ==
    ASSUME NEW r \in CallTypes
    PROVE  /\ \A x \in Replies : [r EXCEPT !.reply = x] \in CallTypes
           /\ \A n \in Nat : [r EXCEPT !.age = n] \in CallTypes
           /\ r.age \in Nat
  BY DEF CallTypes

LEMMA CoreFields ==
    ASSUME NEW r \in CoreTypes
    PROVE  /\ \A x \in Replies : [r EXCEPT !.reply = x] \in CoreTypes
           /\ \A n \in Nat : [r EXCEPT !.age = n] \in CoreTypes
           /\ \A q \in BOOLEAN : [r EXCEPT !.queued = q] \in CoreTypes
           /\ [r EXCEPT !.state = "throttled"] \in CoreTypes
           /\ [r EXCEPT !.state = "sent", !.age = 0, !.reply = "none"] \in CoreTypes
           /\ r.age \in Nat
  BY DEF CoreTypes, Replies

LEMMA Constructors ==
    /\ NoCall \in CallTypes /\ Sleeping \in CallTypes
    /\ [Sleeping EXCEPT !.age = Interval] \in CallTypes
    /\ [NoCall EXCEPT !.state = "calling"] \in CallTypes
    /\ NoCore \in CoreTypes /\ [NoCore EXCEPT !.state = "sent"] \in CoreTypes
  BY DEF NoCall, Sleeping, NoCore, CallTypes, CoreTypes, Replies

LEMMA RequestTypes ==
    TypeOK => call \in [Badges -> CallTypes] /\ core \in [Badges -> CoreTypes]
  BY DEF TypeOK, CallTypes, CoreTypes

LEMMA MessageTypes ==
    ASSUME TypeOK, NEW b \in Badges, NEW kind \in {"direct", "core", "answer", "failure"}
    PROVE  Message(kind, b) \in Messages
  BY DEF TypeOK, Message, Messages

LEMMA EnterTypes ==
    ASSUME TypeOK, NEW b \in Badges, NEW next \in Phases, Enter(b, next)
    PROVE  phase' \in [Badges -> Phases] /\ since' \in [Badges -> Nat]
  BY DEF TypeOK, Enter

LEMMA OlderByOne ==
    ASSUME NEW age \in Nat, NEW counting \in BOOLEAN
    PROVE  /\ Older(age, counting) \in Nat
           /\ age <= Older(age, counting) /\ Older(age, counting) <= age + 1
           /\ counting => Older(age, counting) = age + 1
  BY DEF Older

\* A message one unit later.
LEMMA MessageFields ==
    ASSUME NEW m \in Messages
    PROVE  /\ [m EXCEPT !.age = m.age + 1] \in Messages
           /\ [m EXCEPT !.age = m.age + 1].kind = m.kind
           /\ [m EXCEPT !.age = m.age + 1].attempt = m.attempt
           /\ [m EXCEPT !.age = m.age + 1].age = m.age + 1
  BY DEF Messages

LEMMA OlderMessages ==
    ASSUME TypeOK, Tick, NEW m \in wire'
    PROVE  /\ m \in Messages
           /\ \E k \in wire : k.kind = m.kind /\ k.attempt = m.attempt /\ m.age = k.age + 1
<1>1. PICK k \in wire : m = [k EXCEPT !.age = k.age + 1]
  BY DEF Tick
<1>2. k \in Messages
  BY DEF TypeOK
<1> QED  BY <1>1, <1>2, MessageFields

\* Letting an attempt go keeps the types of what the badge had of it.
LEMMA ReleaseTypes ==
    ASSUME TypeOK, NEW b \in Badges, Release(b)
    PROVE  /\ phase' \in [Badges -> Phases] /\ held' \in [Badges -> Nat]
           /\ since' \in [Badges -> Nat] /\ ackAge' \in [Badges -> Nat]
           /\ misses' \in [Badges -> Nat]
           /\ call' \in [Badges -> CallTypes] /\ core' \in [Badges -> CoreTypes]
           /\ \A c \in Badges : ackAge'[c] <= Budget
           /\ told' \subseteq Badges /\ abandoned' \subseteq Badges
  BY Constructors, RequestTypes DEF TypeOK, Release, Phases

LEMMA ReportedTypes ==
    ASSUME TypeOK, NEW m \in wire, Reported(m)
    PROVE  /\ phase' \in [Badges -> Phases] /\ held' \in [Badges -> Nat]
           /\ since' \in [Badges -> Nat] /\ ackAge' \in [Badges -> Nat]
           /\ misses' \in [Badges -> Nat]
           /\ call' \in [Badges -> CallTypes] /\ core' \in [Badges -> CoreTypes]
           /\ \A c \in Badges : ackAge'[c] <= Budget
           /\ told' \subseteq Badges /\ abandoned' \subseteq Badges
<1>1. m.badge \in Badges
  BY DEF TypeOK, Messages
<1>2. CASE Release(m.badge)
  BY <1>1, <1>2, ReleaseTypes
<1>3. CASE UNCHANGED badgeVars
  BY <1>3 DEF TypeOK, badgeVars, CallTypes, CoreTypes
<1> QED  BY <1>2, <1>3 DEF Reported

LEMMA TypesKept == TypeOK /\ [Next]_vars => TypeOK'
<1> SUFFICES ASSUME TypeOK, [Next]_vars PROVE TypeOK'
  OBVIOUS
<1>0. call \in [Badges -> CallTypes] /\ core \in [Badges -> CoreTypes]
  BY RequestTypes
<1>1. ASSUME NEW b \in Badges, Dispatch(b) PROVE TypeOK'
  BY <1>1 DEF TypeOK, Dispatch, Phases
<1>2. CASE Expire \/ Close
  BY <1>2 DEF TypeOK, Expire, Close, badgeVars
<1>3. ASSUME NEW m \in wire, ReceiveBeat(m) PROVE TypeOK'
  <2>1. m.badge \in Badges
    BY DEF TypeOK, Messages
  <2>2. "ok" \in Replies /\ "gone" \in Replies
    BY DEF Replies
  <2>3. \A x \in Replies : /\ [call EXCEPT ![m.badge].reply = x] \in [Badges -> CallTypes]
                           /\ [core EXCEPT ![m.badge].reply = x] \in [Badges -> CoreTypes]
    BY <1>0, <2>1, CallFields, CoreFields
  <2>4. call' \in [Badges -> CallTypes] /\ core' \in [Badges -> CoreTypes]
    BY <1>0, <1>3, <2>2, <2>3 DEF ReceiveBeat
  <2> QED  BY <1>3, <2>4 DEF TypeOK, ReceiveBeat, CallTypes, CoreTypes
<1>4. ASSUME NEW m \in wire, ReceiveReport(m) PROVE TypeOK'
  <2>1. lease' \in {"open", "leased", "closed"} /\ leaseAge' \in Nat
    BY <1>4 DEF TypeOK, ReceiveReport
  <2> QED  BY <1>4, <2>1, ReportedTypes DEF TypeOK, ReceiveReport, CallTypes, CoreTypes
<1>5. ASSUME NEW m \in wire, Lose(m) PROVE TypeOK'
  BY <1>5, ReportedTypes DEF TypeOK, Lose, serverVars, CallTypes, CoreTypes
<1>6. ASSUME NEW b \in Badges, StartCall(b) PROVE TypeOK'
  <2>1. call' \in [Badges -> CallTypes]
    BY <1>0, <1>6, Constructors DEF StartCall
  <2>2. /\ [core EXCEPT ![b].state = "sent", ![b].age = 0, ![b].reply = "none"]
               \in [Badges -> CoreTypes]
        /\ [core EXCEPT ![b].queued = TRUE] \in [Badges -> CoreTypes]
    BY <1>0, CoreFields
  <2>3. core' \in [Badges -> CoreTypes]
    BY <1>6, <2>2 DEF StartCall
  <2>4. wire' \subseteq Messages
    BY <1>6, MessageTypes DEF TypeOK, StartCall
  <2> QED  BY <1>6, <2>1, <2>3, <2>4 DEF TypeOK, StartCall, serverVars, CallTypes, CoreTypes
<1>7. ASSUME NEW b \in Badges, Acknowledged(b) \/ Missed(b) \/ Stopped(b) PROVE TypeOK'
  <2>2. call' \in [Badges -> CallTypes]
    BY <1>0, <1>7, Constructors DEF Acknowledged, Missed, Stopped
  <2>3. CASE Acknowledged(b)
    BY <2>2, <2>3 DEF TypeOK, Acknowledged, serverVars, CallTypes
  <2>4. CASE Missed(b)
    BY <2>2, <2>4 DEF TypeOK, Missed, serverVars, CallTypes
  <2>5. CASE Stopped(b)
    BY <2>2, <2>5 DEF TypeOK, Stopped, serverVars, CallTypes
  <2> QED  BY <1>7, <2>3, <2>4, <2>5
<1>8. ASSUME NEW b \in Badges, CoreDone(b) PROVE TypeOK'
  <2>1. core' \in [Badges -> CoreTypes]
    BY <1>0, <1>8, CoreFields DEF CoreDone
  <2>2. told' \subseteq Badges
    BY <1>8 DEF TypeOK, CoreDone
  <2> QED  BY <1>8, <2>1, <2>2 DEF TypeOK, CoreDone, serverVars, CoreTypes
<1>9. ASSUME NEW b \in Badges, CoreResumes(b) PROVE TypeOK'
  <2>1. core' \in [Badges -> CoreTypes]
    BY <1>0, <1>9, Constructors DEF CoreResumes
  <2>2. wire' \subseteq Messages
    BY <1>9, MessageTypes DEF TypeOK, CoreResumes
  <2> QED  BY <1>9, <2>1, <2>2 DEF TypeOK, CoreResumes, serverVars, CoreTypes
<1>10. ASSUME NEW b \in Badges, OfferLost(b) \/ LetGo(b) \/ Reboot(b) PROVE TypeOK'
  BY <1>10, ReleaseTypes
     DEF TypeOK, OfferLost, LetGo, Reboot, serverVars, CallTypes, CoreTypes
<1>11. ASSUME NEW b \in Badges, Accept(b) PROVE TypeOK'
  <2>1. call' \in [Badges -> CallTypes]
    BY <1>0, <1>11, Constructors DEF Accept
  <2> QED  BY <1>11, <2>1 DEF TypeOK, Accept, Enter, Phases, CallTypes, serverVars
<1>12. ASSUME NEW b \in Badges,
              Refuse(b) \/ ChooseAnswer(b) \/ BlackoutEnds(b) \/ RefusalEnds(b)
       PROVE  TypeOK'
  <2>1. \E next \in Phases : Enter(b, next)
    BY <1>12 DEF Refuse, ChooseAnswer, BlackoutEnds, RefusalEnds, Phases
  <2>2. UNCHANGED <<serverVars, held, ackAge, misses, call, core, told, abandoned, wire>>
    BY <1>12 DEF Refuse, ChooseAnswer, BlackoutEnds, RefusalEnds
  <2> QED  BY <2>1, <2>2, EnterTypes DEF TypeOK, serverVars
<1>13. ASSUME NEW b \in Badges, Panic(b) \/ GiveUp(b) \/ FeedbackEnds(b) PROVE TypeOK'
  <2>1. DropMonitor(b)
    BY <1>13 DEF Panic, GiveUp, FeedbackEnds
  <2>2. call' \in [Badges -> CallTypes]
    BY <1>0, <2>1, Constructors DEF DropMonitor
  <2>3. /\ ackAge' \in [Badges -> Nat] /\ misses' \in [Badges -> Nat]
        /\ \A c \in Badges : ackAge'[c] <= Budget
    BY <2>1 DEF TypeOK, DropMonitor
  <2>4. phase' \in [Badges -> Phases] /\ since' \in [Badges -> Nat]
    <3>1. \E next \in Phases : Enter(b, next)
      BY <1>13 DEF Panic, GiveUp, FeedbackEnds, Phases
    <3> QED  BY <3>1, EnterTypes
  <2>5. UNCHANGED <<attempt, lease, leaseAge, held, core, told, wire>>
    BY <1>13 DEF Panic, GiveUp, FeedbackEnds, serverVars
  <2>6. abandoned' \subseteq Badges
    BY <1>13 DEF TypeOK, Panic, GiveUp, FeedbackEnds
  <2> QED  BY <2>2, <2>3, <2>4, <2>5, <2>6 DEF TypeOK, CallTypes
<1>14. ASSUME NEW b \in Badges, Report(b) PROVE TypeOK'
  <2>1. wire' \subseteq Messages
    BY <1>14, MessageTypes DEF TypeOK, Report
  <2>2. core' \in [Badges -> CoreTypes]
    BY <1>0, <1>14, Constructors DEF Report
  <2> QED  BY <1>14, <2>1, <2>2 DEF TypeOK, Report, Enter, Phases, serverVars, CoreTypes
<1>15. CASE Tick
  <2>1. wire' \subseteq Messages
    BY <1>15, OlderMessages
  <2>2. call' \in [Badges -> CallTypes] /\ core' \in [Badges -> CoreTypes]
    <3>2. \A b \in Badges :
             /\ Older(call[b].age, call[b].state # "off") \in Nat
             /\ Older(core[b].age, core[b].state # "idle") \in Nat
      BY <1>0, OlderByOne, CallFields, CoreFields
    <3>3. \A b \in Badges :
             /\ [call[b] EXCEPT !.age = Older(call[b].age, call[b].state # "off")]
                    \in CallTypes
             /\ [core[b] EXCEPT !.age = Older(core[b].age, core[b].state # "idle")]
                    \in CoreTypes
      BY <1>0, <3>2, CallFields, CoreFields
    <3> QED  BY <1>15, <3>3 DEF Tick
  <2>3. /\ ackAge' \in [Badges -> Nat] /\ since' \in [Badges -> Nat]
        /\ \A b \in Badges : ackAge'[b] <= Budget
    BY <1>15 DEF TypeOK, Tick, NothingDue, BudgetExhausted, Older
  <2> QED  BY <1>15, <2>1, <2>2, <2>3 DEF TypeOK, Tick, Older, CallTypes, CoreTypes
<1>16. CASE UNCHANGED vars
  BY <1>16 DEF TypeOK, vars, serverVars, badgeVars
<1> QED  BY <1>1, <1>2, <1>3, <1>4, <1>5, <1>6, <1>7, <1>8, <1>9, <1>10, <1>11, <1>12,
            <1>13, <1>14, <1>15, <1>16 DEF Next, Server, Badge

\* The lease, the badges and the network keep their types, and no badge shows
\* a question past its budget of silence (wait_for_choice and spawn_heartbeat).
THEOREM TypesHold == Spec => []TypeOK
<1> QED  BY TypesInitially, TypesKept, PTL DEF Spec

-----------------------------------------------------------------------------
(***************************************************************************)
(* Who holds which attempt.                                                *)
(***************************************************************************)

Reports == {"answer", "failure"}

\* Before its outcome is reported, an attempt is in the hands of one badge.
Numbered == \A b \in Badges : phase[b] # "idle" => held[b] \in 1..attempt

Apart ==
    \A b, c \in Badges :
        b # c /\ phase[b] # "idle" /\ phase[c] # "idle" => held[b] # held[c]

Outcomes ==
    \A m \in wire : m.kind \in Reports =>
        /\ m.attempt <= attempt
        /\ \A b \in Badges :
              phase[b] \notin {"idle", "reporting"} => held[b] # m.attempt
        /\ \A k \in wire :
              k.kind \in Reports /\ k.kind # m.kind => k.attempt # m.attempt

HoldersInv == Numbered /\ Apart /\ Outcomes

LEMMA HoldersInitially == Init => HoldersInv
  BY DEF Init, HoldersInv, Numbered, Apart, Outcomes

LEMMA HoldersByDispatch ==
    ASSUME TypeOK, HoldersInv, NEW b \in Badges, Dispatch(b)
    PROVE  HoldersInv'
<1>1. /\ attempt \in Nat /\ attempt' = attempt + 1 /\ phase[b] = "idle" /\ wire' = wire
      /\ phase'[b] = "offered" /\ held'[b] = attempt + 1
      /\ \A c \in Badges : c # b => phase'[c] = phase[c] /\ held'[c] = held[c]
  BY DEF TypeOK, Dispatch
<1>2. \A c \in Badges : held[c] \in Nat
  BY DEF TypeOK
<1>3. \A m \in wire : m.attempt \in Nat
  BY DEF TypeOK, Messages
<1>4. Numbered'
  BY <1>1, <1>2 DEF HoldersInv, Numbered
<1>5. Apart'
  BY <1>1, <1>2 DEF HoldersInv, Numbered, Apart
<1>6. Outcomes'
  BY <1>1, <1>2, <1>3 DEF HoldersInv, Outcomes
<1> QED  BY <1>4, <1>5, <1>6 DEF HoldersInv

LEMMA HoldersByRelease ==
    ASSUME TypeOK, HoldersInv, NEW b \in Badges, Release(b), attempt' = attempt,
           wire' \subseteq wire
    PROVE  HoldersInv'
<1>1. /\ phase'[b] = "idle"
      /\ \A c \in Badges : c # b => phase'[c] = phase[c] /\ held'[c] = held[c]
  BY DEF TypeOK, Release
<1>2. Numbered' /\ Apart'
  BY <1>1 DEF HoldersInv, Numbered, Apart
<1>3. Outcomes'
  BY <1>1 DEF HoldersInv, Outcomes
<1> QED  BY <1>2, <1>3 DEF HoldersInv

\* A badge moves on within its attempt.
LEMMA HoldersByEnter ==
    ASSUME TypeOK, HoldersInv, NEW b \in Badges, NEW next \in Phases, Enter(b, next),
           phase[b] \notin {"idle", "reporting"}, UNCHANGED <<attempt, held, wire>>
    PROVE  HoldersInv'
<1>1. \A c \in Badges : c # b => phase'[c] = phase[c]
  BY DEF TypeOK, Enter
<1>2. Numbered' /\ Apart'
  BY <1>1 DEF HoldersInv, Numbered, Apart
<1>3. Outcomes'
  BY <1>1 DEF HoldersInv, Outcomes
<1> QED  BY <1>2, <1>3 DEF HoldersInv

LEMMA HoldersByReport ==
    ASSUME TypeOK, HoldersInv, NEW b \in Badges, Report(b)
    PROVE  HoldersInv'
<1> DEFINE report == Message(IF phase[b] = "finished" THEN "answer" ELSE "failure", b)
<1>1. /\ phase[b] \in {"finished", "failed"} /\ phase'[b] = "reporting"
      /\ attempt' = attempt /\ held' = held /\ wire' = wire \cup {report}
      /\ \A c \in Badges : c # b => phase'[c] = phase[c]
  BY DEF TypeOK, Report, Enter, serverVars
<1>2. report.attempt = held[b] /\ report.kind \in Reports
  BY DEF Message, Reports
<1>3. Numbered' /\ Apart'
  BY <1>1 DEF HoldersInv, Numbered, Apart
<1>4. held[b] <= attempt
  BY <1>1 DEF HoldersInv, Numbered
<1>5. \A m \in wire : m.kind \in Reports => m.attempt # held[b]
  BY <1>1 DEF HoldersInv, Outcomes
<1>6. \A c \in Badges : c # b /\ phase[c] # "idle" => held[c] # held[b]
  BY <1>1 DEF HoldersInv, Apart
<1> HIDE DEF report
<1>7. Outcomes'
  <2> SUFFICES ASSUME NEW m \in wire', m.kind \in Reports
               PROVE  /\ m.attempt <= attempt
                      /\ \A c \in Badges : phase'[c] \notin {"idle", "reporting"} =>
                            held[c] # m.attempt
                      /\ \A k \in wire' : k.kind \in Reports /\ k.kind # m.kind =>
                            k.attempt # m.attempt
    BY <1>1 DEF Outcomes
  <2>1. CASE m = report
    BY <1>1, <1>2, <1>4, <1>5, <1>6, <2>1
  <2>2. CASE m \in wire
    BY <1>1, <1>2, <1>5, <2>2 DEF HoldersInv, Outcomes
  <2> QED  BY <1>1, <2>1, <2>2
<1> QED  BY <1>3, <1>7 DEF HoldersInv

\* No badge takes or leaves an attempt, and no report is sent.
LEMMA HoldersByOther ==
    ASSUME HoldersInv, UNCHANGED <<attempt, phase, held>>,
           \A m \in wire' : m.kind \in Reports =>
               \E k \in wire : k.kind = m.kind /\ k.attempt = m.attempt
    PROVE  HoldersInv'
<1>1. Numbered' /\ Apart'
  BY DEF HoldersInv, Numbered, Apart
<1>2. Outcomes'
  <2> SUFFICES ASSUME NEW m \in wire', m.kind \in Reports
               PROVE  /\ m.attempt <= attempt
                      /\ \A c \in Badges : phase[c] \notin {"idle", "reporting"} =>
                            held[c] # m.attempt
                      /\ \A k \in wire' : k.kind \in Reports /\ k.kind # m.kind =>
                            k.attempt # m.attempt
    BY DEF Outcomes
  <2>1. PICK i \in wire : i.kind = m.kind /\ i.attempt = m.attempt
    OBVIOUS
  <2> QED  BY <2>1 DEF HoldersInv, Outcomes
<1> QED  BY <1>1, <1>2 DEF HoldersInv

LEMMA HoldersKept == TypeOK /\ HoldersInv /\ [Next]_vars => HoldersInv'
<1> SUFFICES ASSUME TypeOK, HoldersInv, [Next]_vars PROVE HoldersInv'
  OBVIOUS
<1>1. ASSUME NEW b \in Badges, Dispatch(b) PROVE HoldersInv'
  BY <1>1, HoldersByDispatch
<1>2. CASE Expire \/ Close
  BY <1>2, HoldersByOther DEF Expire, Close, badgeVars
<1>3. ASSUME NEW m \in wire, ReceiveBeat(m) PROVE HoldersInv'
  BY <1>3, HoldersByOther DEF ReceiveBeat
<1>4. ASSUME NEW m \in wire, ReceiveReport(m) \/ Lose(m) PROVE HoldersInv'
  <2>1. m.badge \in Badges
    BY DEF TypeOK, Messages
  <2>2. attempt' = attempt /\ wire' \subseteq wire
    BY <1>4 DEF ReceiveReport, Lose, serverVars
  <2>3. CASE Release(m.badge)
    BY <2>1, <2>2, <2>3, HoldersByRelease
  <2>4. CASE UNCHANGED badgeVars
    BY <2>2, <2>4, HoldersByOther DEF badgeVars
  <2> QED  BY <1>4, <2>3, <2>4 DEF ReceiveReport, Lose, Reported
<1>5. ASSUME NEW b \in Badges, OfferLost(b) \/ LetGo(b) \/ Reboot(b) PROVE HoldersInv'
  BY <1>5, HoldersByRelease DEF OfferLost, LetGo, Reboot, serverVars
<1>6. ASSUME NEW b \in Badges,
             \/ Accept(b) \/ Refuse(b) \/ ChooseAnswer(b) \/ Panic(b) \/ GiveUp(b)
             \/ FeedbackEnds(b) \/ BlackoutEnds(b) \/ RefusalEnds(b)
      PROVE  HoldersInv'
  <2>1. \E next \in Phases : Enter(b, next)
    BY <1>6 DEF Accept, Refuse, ChooseAnswer, Panic, GiveUp, FeedbackEnds, BlackoutEnds,
                RefusalEnds, Phases
  <2>2. phase[b] \notin {"idle", "reporting"}
    BY <1>6 DEF Accept, Refuse, ChooseAnswer, Panic, GiveUp, FeedbackEnds, BlackoutEnds,
                RefusalEnds, MayChoose
  <2>3. UNCHANGED <<attempt, held, wire>>
    BY <1>6 DEF Accept, Refuse, ChooseAnswer, Panic, GiveUp, FeedbackEnds, BlackoutEnds,
                RefusalEnds, serverVars
  <2> QED  BY <2>1, <2>2, <2>3, HoldersByEnter
<1>7. ASSUME NEW b \in Badges, Report(b) PROVE HoldersInv'
  BY <1>7, HoldersByReport
<1>8. ASSUME NEW b \in Badges,
             \/ StartCall(b) \/ Acknowledged(b) \/ Missed(b) \/ Stopped(b)
             \/ CoreDone(b) \/ CoreResumes(b)
      PROVE  HoldersInv'
  <2>1. UNCHANGED <<attempt, phase, held>>
    BY <1>8 DEF StartCall, Acknowledged, Missed, Stopped, CoreDone, CoreResumes, serverVars
  <2>2. \A m \in wire' : m.kind \in Reports => m \in wire
    BY <1>8 DEF StartCall, Acknowledged, Missed, Stopped, CoreDone, CoreResumes, Message,
                Reports
  <2> QED  BY <2>1, <2>2, HoldersByOther
<1>9. CASE Tick
  <2>1. \A m \in wire' : \E k \in wire : k.kind = m.kind /\ k.attempt = m.attempt
    BY <1>9, OlderMessages
  <2> QED  BY <1>9, <2>1, HoldersByOther DEF Tick
<1>10. CASE UNCHANGED vars
  BY <1>10, HoldersByOther DEF vars, serverVars, badgeVars
<1> QED  BY <1>1, <1>2, <1>3, <1>4, <1>5, <1>6, <1>7, <1>8, <1>9, <1>10
         DEF Next, Server, Badge

-----------------------------------------------------------------------------
(***************************************************************************)
(* The server lags behind the badge by no more than the badge accounts     *)
(* for.                                                                    *)
(***************************************************************************)

\* The server has not heard of attempt n for slack at the most: it has the
\* rest of the timeout still to wait, or the wait began so long ago.
Behind(n, slack) ==
    /\ n = attempt /\ lease = "leased" => leaseAge <= slack
    /\ n = attempt /\ lease = "open" => Timeout + leaseAge <= slack
    /\ n < attempt => Timeout + Backoff <= slack

LEMMA BehindLonger ==
    ASSUME TypeOK, NEW n \in Nat, NEW s \in Nat, NEW t \in Nat, s <= t, Behind(n, s)
    PROVE  Behind(n, t)
  BY DEF TypeOK, Behind

LEMMA BehindKept ==
    ASSUME TypeOK, [Next]_vars, ~Tick, NEW n \in Nat, NEW s \in Nat,
           n <= attempt, Behind(n, s),
           \A m \in wire : m.kind = "failure" => m.attempt # n
    PROVE  Behind(n, s)'
<1>1. CASE UNCHANGED serverVars
  BY <1>1 DEF Behind, serverVars
<1>2. ASSUME NEW b \in Badges, Dispatch(b) PROVE Behind(n, s)'
  BY <1>2 DEF TypeOK, Behind, Dispatch
<1>3. CASE Expire \/ Close
  BY <1>3 DEF TypeOK, Behind, Expire, Close
<1>4. ASSUME NEW m \in wire, ReceiveBeat(m) PROVE Behind(n, s)'
  <2>1. attempt' = attempt /\ lease' = lease
    BY <1>4 DEF ReceiveBeat
  <2>2. CASE Current(m.attempt)
    <3>1. leaseAge' = 0 /\ lease = "leased"
      BY <1>4, <2>2 DEF ReceiveBeat, Current
    <3> QED  BY <2>1, <3>1 DEF TypeOK, Behind
  <2>3. CASE ~Current(m.attempt)
    <3>1. leaseAge' = leaseAge
      BY <1>4, <2>3 DEF ReceiveBeat
    <3> QED  BY <2>1, <3>1 DEF Behind
  <2> QED  BY <2>2, <2>3
<1>5. ASSUME NEW m \in wire, ReceiveReport(m) PROVE Behind(n, s)'
  <2>1. attempt' = attempt
    BY <1>5 DEF ReceiveReport
  <2>2. CASE UNCHANGED <<lease, leaseAge>>
    BY <2>1, <2>2 DEF Behind
  <2>3. CASE m.attempt = attempt /\ lease' = "closed"
    BY <2>1, <2>3 DEF Behind
  <2>4. CASE m.attempt = attempt /\ lease' = "open" /\ m.kind = "failure"
    BY <2>1, <2>4 DEF Behind, TypeOK
  <2> QED  BY <1>5, <2>2, <2>3, <2>4 DEF ReceiveReport, Current
<1> QED
  BY <1>1, <1>2, <1>3, <1>4, <1>5
     DEF Next, Server, Badge, vars, serverVars, Lose, StartCall, Acknowledged, Missed, Stopped,
         CoreDone, CoreResumes, Accept, Refuse, OfferLost, ChooseAnswer, Panic, GiveUp,
         LetGo, FeedbackEnds, BlackoutEnds, RefusalEnds, Report, Reboot

LEMMA BehindAges ==
    ASSUME TypeOK, Tick, NEW n \in Nat, NEW s \in Nat, Behind(n, s)
    PROVE  Behind(n, s + 1)'
<1>1. attempt' = attempt /\ lease' = lease
  BY DEF Tick
<1>2. leaseAge' = leaseAge \/ leaseAge' = leaseAge + 1
  BY DEF Tick, Older
<1> QED  BY <1>1, <1>2 DEF TypeOK, Behind

-----------------------------------------------------------------------------
(***************************************************************************)
(* What a step that takes no time does to one badge.                       *)
(***************************************************************************)

\* The steps by which badge c moves on.
Moves(c) ==
    \/ Dispatch(c) \/ Accept(c) \/ Refuse(c) \/ ChooseAnswer(c) \/ Panic(c) \/ GiveUp(c)
    \/ FeedbackEnds(c) \/ BlackoutEnds(c) \/ RefusalEnds(c) \/ Report(c)

Stays(c) == phase'[c] = phase[c] /\ held'[c] = held[c] /\ since'[c] = since[c]

\* The heartbeat task runs.
Beating(c) == phase[c] \in {"answering", "feedback"}

\* Only c's own steps, and the end of its report, change where c is.
LEMMA WhereItGoes ==
    ASSUME TypeOK, [Next]_vars, ~Tick, NEW c \in Badges
    PROVE  Stays(c) \/ phase'[c] = "idle" \/ Moves(c)
<1>1. ASSUME NEW b \in Badges, Release(b) PROVE Stays(c) \/ phase'[c] = "idle"
  BY <1>1 DEF TypeOK, Release, Stays
<1>2. ASSUME UNCHANGED <<phase, held, since>> PROVE Stays(c)
  BY <1>2 DEF Stays
<1>3. ASSUME NEW b \in Badges, b # c, Moves(b) PROVE Stays(c)
  <2>1. CASE Dispatch(b)
    BY <1>3, <2>1 DEF TypeOK, Dispatch, Stays
  <2>2. CASE ~Dispatch(b)
    <3>1. \E next \in Phases : Enter(b, next)
      BY <1>3, <2>2 DEF Moves, Accept, Refuse, ChooseAnswer, Panic, GiveUp, FeedbackEnds,
                        BlackoutEnds, RefusalEnds, Report, Phases
    <3>2. held' = held
      BY <1>3, <2>2 DEF Moves, Accept, Refuse, ChooseAnswer, Panic, GiveUp, FeedbackEnds,
                        BlackoutEnds, RefusalEnds, Report
    <3> QED  BY <1>3, <3>1, <3>2 DEF TypeOK, Enter, Stays
  <2> QED  BY <2>1, <2>2
<1>4. ASSUME NEW m \in wire, ReceiveReport(m) \/ Lose(m)
      PROVE  Stays(c) \/ phase'[c] = "idle"
  <2>1. m.badge \in Badges
    BY DEF TypeOK, Messages
  <2>2. Release(m.badge) \/ UNCHANGED badgeVars
    BY <1>4 DEF ReceiveReport, Lose, Reported
  <2> QED  BY <1>1, <1>2, <2>1, <2>2 DEF badgeVars
<1>5. ASSUME NEW b \in Badges, OfferLost(b) \/ LetGo(b) \/ Reboot(b)
      PROVE  Stays(c) \/ phase'[c] = "idle"
  BY <1>1, <1>5 DEF OfferLost, LetGo, Reboot
<1>6. ASSUME NEW b \in Badges,
             \/ StartCall(b) \/ Acknowledged(b) \/ Missed(b) \/ Stopped(b)
             \/ CoreDone(b) \/ CoreResumes(b)
      PROVE  Stays(c)
  <2>1. UNCHANGED <<phase, held, since>>
    BY <1>6 DEF StartCall, Acknowledged, Missed, Stopped, CoreDone, CoreResumes
  <2> QED  BY <1>2, <2>1
<1>7. CASE Expire \/ Close \/ UNCHANGED vars
  BY <1>2, <1>7 DEF Expire, Close, vars, badgeVars
<1>8. ASSUME NEW m \in wire, ReceiveBeat(m) PROVE Stays(c)
  <2>1. UNCHANGED <<phase, held, since>>
    BY <1>8 DEF ReceiveBeat
  <2> QED  BY <1>2, <2>1
<1> QED  BY <1>3, <1>4, <1>5, <1>6, <1>7, <1>8 DEF Next, Server, Badge, Moves

\* While c stays where it is, only an acknowledgement ends its silence.
LEMMA SilenceLasts ==
    ASSUME TypeOK, [Next]_vars, ~Tick, NEW c \in Badges, Beating(c), phase'[c] = phase[c]
    PROVE  ackAge'[c] = ackAge[c] \/ Acknowledged(c)
<1>1. ASSUME NEW b \in Badges, Release(b) PROVE ackAge'[c] = ackAge[c]
  BY <1>1 DEF TypeOK, Release, Beating
<1>2. CASE UNCHANGED ackAge
  BY <1>2
<1>3. ASSUME NEW b \in Badges, DropMonitor(b), b # c PROVE ackAge'[c] = ackAge[c]
  BY <1>3 DEF TypeOK, DropMonitor
<1>4. ASSUME NEW b \in Badges, Accept(b) PROVE ackAge'[c] = ackAge[c]
  BY <1>4 DEF TypeOK, Accept, Beating
<1>5. ASSUME NEW b \in Badges, Acknowledged(b), b # c PROVE ackAge'[c] = ackAge[c]
  BY <1>5 DEF TypeOK, Acknowledged
<1>6. ASSUME NEW m \in wire, ReceiveReport(m) \/ Lose(m) PROVE ackAge'[c] = ackAge[c]
  <2>1. m.badge \in Badges
    BY DEF TypeOK, Messages
  <2> QED  BY <1>1, <1>2, <1>6, <2>1 DEF ReceiveReport, Lose, Reported, badgeVars
<1>7. ASSUME NEW b \in Badges, Panic(b) \/ GiveUp(b) \/ FeedbackEnds(b)
      PROVE  ackAge'[c] = ackAge[c]
  <2>1. DropMonitor(b) /\ \E next \in {"blackout", "failed", "finished"} : Enter(b, next)
    BY <1>7 DEF Panic, GiveUp, FeedbackEnds
  <2>2. b # c
    BY <2>1 DEF TypeOK, Enter, Beating
  <2> QED  BY <1>3, <2>1, <2>2
<1>8. ASSUME NEW b \in Badges, OfferLost(b) \/ LetGo(b) \/ Reboot(b)
      PROVE  ackAge'[c] = ackAge[c]
  BY <1>1, <1>8 DEF OfferLost, LetGo, Reboot
<1>9. ASSUME NEW b \in Badges,
             \/ StartCall(b) \/ Missed(b) \/ Stopped(b) \/ CoreDone(b) \/ CoreResumes(b)
             \/ Dispatch(b) \/ Refuse(b) \/ ChooseAnswer(b) \/ BlackoutEnds(b)
             \/ RefusalEnds(b) \/ Report(b)
      PROVE  ackAge'[c] = ackAge[c]
  BY <1>9 DEF StartCall, Missed, Stopped, CoreDone, CoreResumes, Dispatch, Refuse,
              ChooseAnswer, BlackoutEnds, RefusalEnds, Report
<1>10. CASE Expire \/ Close \/ UNCHANGED vars \/ \E m \in wire : ReceiveBeat(m)
  BY <1>10 DEF Expire, Close, vars, badgeVars, ReceiveBeat
<1> QED  BY <1>4, <1>5, <1>6, <1>7, <1>8, <1>9, <1>10 DEF Next, Server, Badge

\* The call under way is a new one, the old one as it was, or it has its answer.
LEMMA CallLasts ==
    ASSUME TypeOK, [Next]_vars, ~Tick, NEW c \in Badges,
           Beating(c)', call'[c].state = "calling"
    PROVE  /\ Beating(c) /\ held'[c] = held[c]
           /\ \/ call'[c] = call[c]
              \/ call'[c].age = 0 /\ call'[c].reply = "none"
              \/ /\ call[c].state = "calling" /\ call'[c].age = call[c].age
                 /\ \E m \in wire :
                       /\ ReceiveBeat(m) /\ m.attempt = held[c]
                       /\ call'[c].reply = "ok" => Current(m.attempt)
<1>0. call \in [Badges -> CallTypes]
  BY RequestTypes
<1>a. Sleeping.state = "sleeping" /\ NoCall.state = "off"
      /\ [Sleeping EXCEPT !.age = Interval].state = "sleeping"
      /\ [NoCall EXCEPT !.state = "calling"].age = 0
      /\ [NoCall EXCEPT !.state = "calling"].reply = "none"
  BY DEF Sleeping, NoCall
<1>1. CASE \E b \in Badges : StartCall(b)
  BY <1>0, <1>a, <1>1 DEF StartCall, Beating
<1>2. CASE \E b \in Badges : Acknowledged(b) \/ Missed(b) \/ Stopped(b)
  BY <1>0, <1>a, <1>2 DEF Acknowledged, Missed, Stopped, Beating
<1>3. CASE \E b \in Badges : Release(b)
  BY <1>0, <1>a, <1>3 DEF TypeOK, Release, Beating
<1>4. CASE \E b \in Badges : Panic(b) \/ GiveUp(b) \/ FeedbackEnds(b)
  <2>1. PICK b \in Badges : Panic(b) \/ GiveUp(b) \/ FeedbackEnds(b)
    BY <1>4
  <2>2. DropMonitor(b) /\ held' = held /\ \E next \in Phases : Enter(b, next)
    BY <2>1 DEF Panic, GiveUp, FeedbackEnds, Phases
  <2>3. b # c
    BY <1>0, <1>a, <2>2 DEF DropMonitor
  <2> QED  BY <1>0, <2>2, <2>3 DEF TypeOK, DropMonitor, Enter, Beating
<1>5. CASE \E b \in Badges : Accept(b)
  <2>1. PICK b \in Badges : Accept(b)
    BY <1>5
  <2>2. b # c
    BY <1>0, <1>a, <2>1 DEF Accept
  <2> QED  BY <1>0, <2>1, <2>2 DEF TypeOK, Accept, Enter, Beating
<1>6. CASE \E b \in Badges : Dispatch(b)
  BY <1>6 DEF TypeOK, Dispatch, Beating
<1>7. CASE \E b \in Badges : Refuse(b) \/ ChooseAnswer(b) \/ BlackoutEnds(b)
                             \/ RefusalEnds(b) \/ Report(b)
  <2>1. PICK b \in Badges : Refuse(b) \/ ChooseAnswer(b) \/ BlackoutEnds(b)
                            \/ RefusalEnds(b) \/ Report(b)
    BY <1>7
  <2>2. call' = call /\ held' = held
    BY <2>1 DEF Refuse, ChooseAnswer, BlackoutEnds, RefusalEnds, Report
  <2>3. CASE ChooseAnswer(b)
    BY <2>2, <2>3 DEF TypeOK, ChooseAnswer, MayChoose, Enter, Beating
  <2>4. CASE ~ChooseAnswer(b)
    <3>1. \E next \in {"refusing", "failed", "reporting"} : Enter(b, next)
      BY <2>1, <2>4 DEF Refuse, BlackoutEnds, RefusalEnds, Report
    <3> QED  BY <2>2, <3>1 DEF TypeOK, Enter, Beating
  <2> QED  BY <2>3, <2>4
<1>8. CASE \E m \in wire : ReceiveBeat(m)
  <2>1. PICK m \in wire : ReceiveBeat(m)
    BY <1>8
  <2>2. m.badge \in Badges /\ phase' = phase /\ held' = held
    BY <2>1 DEF TypeOK, Messages, ReceiveBeat
  <2>3. CASE call' = call
    BY <2>2, <2>3 DEF Beating
  <2>4. CASE AwaitsBeat(m, call[m.badge], "calling") /\ call' # call
    <3>1. PICK reply \in Replies : /\ call' = [call EXCEPT ![m.badge].reply = reply]
                                   /\ reply = "ok" => Current(m.attempt)
      BY <2>1, <2>4 DEF ReceiveBeat, Replies
    <3>2. CASE m.badge = c
      <4>1. call'[c] = [call[c] EXCEPT !.reply = reply]
        BY <1>0, <3>1, <3>2
      <4>2. call'[c].age = call[c].age /\ call'[c].reply = reply
        BY <1>0, <4>1 DEF CallTypes
      <4> QED  BY <2>1, <2>2, <2>4, <3>1, <3>2, <4>2 DEF AwaitsBeat, Beating
    <3>3. CASE m.badge # c
      BY <1>0, <2>2, <3>1, <3>3 DEF Beating
    <3> QED  BY <3>2, <3>3
  <2> QED  BY <2>1, <2>3, <2>4 DEF ReceiveBeat
<1>9. CASE UNCHANGED <<phase, held, call>>
  BY <1>9 DEF Beating
<1>10. ASSUME NEW m \in wire, ReceiveReport(m) \/ Lose(m)
       PROVE  (\E b \in Badges : Release(b)) \/ UNCHANGED badgeVars
  BY <1>10 DEF TypeOK, Messages, ReceiveReport, Lose, Reported
<1> QED
  BY <1>1, <1>2, <1>3, <1>4, <1>5, <1>6, <1>7, <1>8, <1>9, <1>10
     DEF Next, Server, Badge, vars, badgeVars, Expire, Close, OfferLost, LetGo, Reboot,
         CoreDone, CoreResumes

\* The server learns no faster than time passes that c lost its attempt.
LEMMA HeldBehindKept ==
    ASSUME TypeOK, HoldersInv, [Next]_vars, ~Tick, NEW c \in Badges,
           phase[c] \notin {"idle", "reporting"}, held'[c] = held[c],
           NEW s \in Nat, Behind(held[c], s)
    PROVE  /\ held[c] = attempt' /\ lease' = "leased" => leaseAge' <= s
           /\ held[c] = attempt' /\ lease' = "open" => Timeout + leaseAge' <= s
           /\ held[c] < attempt' => Timeout + Backoff <= s
<1> DEFINE n == held[c]
<1>1. n \in Nat /\ n <= attempt
  BY DEF TypeOK, HoldersInv, Numbered
<1>2. \A m \in wire : m.kind = "failure" => m.attempt # n
  BY DEF HoldersInv, Outcomes, Reports
<1>3. \A k \in Nat : /\ k <= attempt /\ Behind(k, s)
                     /\ \A m \in wire : m.kind = "failure" => m.attempt # k
                     => /\ k = attempt' /\ lease' = "leased" => leaseAge' <= s
                        /\ k = attempt' /\ lease' = "open" => Timeout + leaseAge' <= s
                        /\ k < attempt' => Timeout + Backoff <= s
  BY BehindKept DEF Behind
<1> QED  BY <1>1, <1>2, <1>3

LEMMA HeldBehindAges ==
    ASSUME TypeOK, Tick, NEW c \in Badges, NEW s \in Nat, Behind(held[c], s)
    PROVE  Behind(held[c], s + 1)'
<1>1. attempt' = attempt /\ lease' = lease /\ held' = held
  BY DEF Tick
<1>2. leaseAge' = leaseAge \/ leaseAge' = leaseAge + 1
  BY DEF Tick, Older
<1> QED  BY <1>1, <1>2 DEF TypeOK, Behind

-----------------------------------------------------------------------------
(***************************************************************************)
(* At most one badge waits for a choice.                                   *)
(***************************************************************************)

\* What the badge knows bounds what the server does not.
Delivered(c) ==
    phase[c] = "offered" => since[c] <= Latency /\ Behind(held[c], since[c])

Waiting(c) == phase[c] = "answering" => Behind(held[c], ackAge[c] + Latency)

Called(c) ==
    Beating(c) /\ call[c].state = "calling" =>
        /\ call[c].age <= Latency
        /\ call[c].reply = "ok" => Behind(held[c], call[c].age)

WaitingInv == \A c \in Badges : Delivered(c) /\ Waiting(c) /\ Called(c)

LEMMA WaitingInitially == Init => WaitingInv
  BY DEF Init, WaitingInv, Delivered, Waiting, Called, Beating

LEMMA DeliveredKept ==
    ASSUME TypeOK, HoldersInv, WaitingInv, [Next]_vars, ~Tick, NEW c \in Badges
    PROVE  Delivered(c)'
<1> SUFFICES ASSUME phase'[c] = "offered"
             PROVE  since'[c] <= Latency /\ Behind(held[c], since[c])'
  BY DEF Delivered
<1>1. CASE Dispatch(c)
  <2>1. /\ held'[c] = attempt + 1 /\ attempt' = attempt + 1 /\ since'[c] = 0
        /\ lease' = "leased" /\ leaseAge' = 0
    BY <1>1 DEF TypeOK, Dispatch
  <2> QED  BY <2>1 DEF TypeOK, Behind
<1>2. CASE Stays(c)
  <2>1. since[c] \in Nat /\ since[c] <= Latency /\ Behind(held[c], since[c])
    BY <1>2 DEF TypeOK, WaitingInv, Delivered, Stays
  <2> QED  BY <1>2, <2>1, HeldBehindKept DEF Stays, Behind
<1>3. CASE Moves(c) /\ ~Dispatch(c)
  <2>1. \E next \in Phases \ {"offered"} : Enter(c, next)
    BY <1>3 DEF Moves, Accept, Refuse, ChooseAnswer, Panic, GiveUp, FeedbackEnds,
                BlackoutEnds, RefusalEnds, Report, Phases
  <2> QED  BY <2>1 DEF TypeOK, Enter
<1> QED  BY <1>1, <1>2, <1>3, WhereItGoes

LEMMA WaitingKept ==
    ASSUME TypeOK, HoldersInv, WaitingInv, [Next]_vars, ~Tick, NEW c \in Badges
    PROVE  Waiting(c)'
<1> SUFFICES ASSUME phase'[c] = "answering"
             PROVE  Behind(held[c], ackAge[c] + Latency)'
  BY DEF Waiting
<1>1. CASE Accept(c)
  <2>1. phase[c] = "offered" /\ held' = held /\ ackAge'[c] = 0
    BY <1>1 DEF TypeOK, Accept
  <2>2. since[c] \in Nat /\ since[c] <= Latency /\ Behind(held[c], since[c])
    BY <2>1 DEF TypeOK, WaitingInv, Delivered
  <2>3. Behind(held[c], Latency)
    BY <2>2, BehindLonger DEF TypeOK
  <2> QED  BY <2>1, <2>3, HeldBehindKept DEF Behind
<1>2. CASE Stays(c)
  <2>1. phase[c] = "answering" /\ held'[c] = held[c] /\ ackAge[c] + Latency \in Nat
    BY <1>2 DEF TypeOK, Stays
  <2>2. Behind(held[c], ackAge[c] + Latency)
    BY <2>1 DEF WaitingInv, Waiting
  <2>3. CASE ackAge'[c] = ackAge[c]
    BY <2>1, <2>2, <2>3, HeldBehindKept DEF Behind
  <2>4. CASE Acknowledged(c)
    <3>1. Behind(held[c], call[c].age) /\ call[c].age <= Latency
      BY <2>1, <2>4 DEF WaitingInv, Called, Acknowledged, Beating
    <3>2. call[c].age \in Nat /\ held[c] \in Nat
      BY RequestTypes, CallFields DEF TypeOK
    <3>3. Behind(held[c], Latency)
      BY <3>1, <3>2, BehindLonger
    <3>4. ackAge'[c] = 0
      BY <2>4 DEF TypeOK, Acknowledged
    <3> QED  BY <2>1, <3>3, <3>4, HeldBehindKept DEF Behind
  <2> QED  BY <1>2, <2>1, <2>3, <2>4, SilenceLasts DEF Beating, Stays
<1>3. CASE Dispatch(c)
  BY <1>3 DEF TypeOK, Dispatch
<1>4. CASE Moves(c) /\ ~Dispatch(c) /\ ~Accept(c)
  <2>1. \E next \in Phases \ {"answering"} : Enter(c, next)
    BY <1>4 DEF Moves, Refuse, ChooseAnswer, Panic, GiveUp, FeedbackEnds,
                BlackoutEnds, RefusalEnds, Report, Phases
  <2> QED  BY <2>1 DEF TypeOK, Enter
<1> QED  BY <1>1, <1>2, <1>3, <1>4, WhereItGoes

LEMMA CalledKept ==
    ASSUME TypeOK, HoldersInv, WaitingInv, [Next]_vars, ~Tick, NEW c \in Badges
    PROVE  Called(c)'
<1> SUFFICES ASSUME Beating(c)', call'[c].state = "calling"
             PROVE  /\ call'[c].age <= Latency
                    /\ call'[c].reply = "ok" => Behind(held[c], call[c].age)'
  BY DEF Called
<1>1. Beating(c) /\ held'[c] = held[c] /\ phase[c] \notin {"idle", "reporting"}
  BY CallLasts DEF Beating
<1>2. CASE call'[c] = call[c]
  <2>1. call[c].age \in Nat
    BY RequestTypes, CallFields
  <2> QED  BY <1>1, <1>2, <2>1, HeldBehindKept DEF WaitingInv, Called, Behind
<1>3. CASE call'[c].age = 0 /\ call'[c].reply = "none"
  BY <1>3
<1>4. ASSUME call[c].state = "calling", call'[c].age = call[c].age,
             NEW m \in wire, ReceiveBeat(m), m.attempt = held[c],
             call'[c].reply = "ok" => Current(m.attempt)
      PROVE  /\ call'[c].age <= Latency
             /\ call'[c].reply = "ok" => Behind(held[c], call[c].age)'
  <2>1. call[c].age \in Nat /\ call[c].age <= Latency
    BY <1>1, <1>4, RequestTypes, CallFields DEF WaitingInv, Called
  <2>2. attempt' = attempt
    BY <1>4 DEF ReceiveBeat
  <2>3. CASE Current(m.attempt)
    <3>1. leaseAge' = 0 /\ lease' = "leased" /\ held[c] = attempt
      BY <1>4, <2>3 DEF ReceiveBeat, Current
    <3> QED  BY <1>1, <1>4, <2>1, <2>2, <3>1 DEF TypeOK, Behind
  <2> QED  BY <1>4, <2>1, <2>3
<1> QED  BY <1>2, <1>3, <1>4, CallLasts

LEMMA WaitingAges ==
    ASSUME TypeOK, HoldersInv, WaitingInv, Tick, NEW c \in Badges
    PROVE  Delivered(c)' /\ Waiting(c)' /\ Called(c)'
<1>1. /\ phase' = phase /\ held' = held /\ NothingDue
      /\ since'[c] = Older(since[c], phase[c] \in {"offered", "feedback", "blackout"})
      /\ ackAge'[c] = Older(ackAge[c], phase[c] = "answering")
      /\ call'[c] = [call[c] EXCEPT !.age = Older(call[c].age, call[c].state # "off")]
  BY DEF Tick
<1>2. Delivered(c)'
  <2> SUFFICES ASSUME phase[c] = "offered"
               PROVE  since'[c] <= Latency /\ Behind(held[c], since[c])'
    BY <1>1 DEF Delivered
  <2>1. since[c] \in Nat /\ since[c] < Latency /\ Behind(held[c], since[c])
    BY <1>1 DEF TypeOK, NothingDue, WaitingInv, Delivered
  <2>2. since'[c] = since[c] + 1
    BY <1>1 DEF Older
  <2> QED  BY <1>1, <2>1, <2>2, HeldBehindAges DEF Behind
<1>3. Waiting(c)'
  <2> SUFFICES ASSUME phase[c] = "answering"
               PROVE  Behind(held[c], ackAge[c] + Latency)'
    BY <1>1 DEF Waiting
  <2>1. ackAge[c] + Latency \in Nat /\ Behind(held[c], ackAge[c] + Latency)
    BY DEF TypeOK, WaitingInv, Waiting
  <2>2. ackAge'[c] + Latency = (ackAge[c] + Latency) + 1
    BY <1>1 DEF Older, TypeOK
  <2> QED  BY <1>1, <2>1, <2>2, HeldBehindAges DEF Behind
<1>4. Called(c)'
  <2>0. call[c] \in CallTypes
    BY RequestTypes
  <2> SUFFICES ASSUME Beating(c), call[c].state = "calling"
               PROVE  /\ call'[c].age <= Latency
                      /\ call'[c].reply = "ok" => Behind(held[c], call[c].age)'
    BY <1>1, <2>0 DEF Called, Beating, CallTypes
  <2>1. call[c].age \in Nat /\ call[c].age < Latency
    BY <1>1, <2>0 DEF NothingDue, CallTypes
  <2>2. call'[c].age = call[c].age + 1
    BY <1>1, <2>0 DEF Older, CallTypes
  <2>3. call'[c].reply = call[c].reply
    BY <1>1, <2>0 DEF CallTypes
  <2>4. call[c].reply = "ok" => Behind(held[c], call[c].age)
    BY DEF WaitingInv, Called
  <2> QED  BY <1>1, <2>1, <2>2, <2>3, <2>4, HeldBehindAges DEF Behind
<1> QED  BY <1>2, <1>3, <1>4

LEMMA WaitingInvKept == TypeOK /\ HoldersInv /\ WaitingInv /\ [Next]_vars => WaitingInv'
<1> SUFFICES ASSUME TypeOK, HoldersInv, WaitingInv, [Next]_vars, NEW c \in Badges
             PROVE  Delivered(c)' /\ Waiting(c)' /\ Called(c)'
  BY DEF WaitingInv
<1>1. CASE Tick
  BY <1>1, WaitingAges
<1>2. CASE ~Tick
  BY <1>2, DeliveredKept, WaitingKept, CalledKept
<1> QED  BY <1>1, <1>2

\* On a prompt network a badge that waits for a choice has the last attempt.
LEMMA LiveIsLast ==
    ASSUME PromptNetwork, TypeOK, HoldersInv, WaitingInv,
           NEW c \in Badges, phase[c] = "answering"
    PROVE  held[c] = attempt
<1>1. held[c] \in Nat /\ attempt \in Nat /\ held[c] <= attempt /\ ackAge[c] \in Nat
      /\ ackAge[c] <= Budget
  BY DEF TypeOK, HoldersInv, Numbered
<1>2. held[c] < attempt => Timeout + Backoff <= ackAge[c] + Latency
  BY DEF WaitingInv, Waiting, Behind
<1> QED  BY <1>1, <1>2 DEF PromptNetwork

\* The badge gives up before the server gives the question away: where an
\* answer takes less time than the server waits longer than the badge, at
\* most one badge waits for a choice at any time (contract.rs).
THEOREM OneBadgeLive == PromptNetwork => (Spec => []OneLiveBadge)
<1> SUFFICES ASSUME PromptNetwork PROVE Spec => []OneLiveBadge
  OBVIOUS
<1> DEFINE LeaseInv == TypeOK /\ HoldersInv /\ WaitingInv
<1>1. Init => LeaseInv
  BY TypesInitially, HoldersInitially, WaitingInitially
<1>2. LeaseInv /\ [Next]_vars => LeaseInv'
  BY TypesKept, HoldersKept, WaitingInvKept
<1>3. LeaseInv => OneLiveBadge
  <2> SUFFICES ASSUME LeaseInv, NEW b \in Badges, NEW c \in Badges,
                      phase[b] = "answering", phase[c] = "answering"
               PROVE  b = c
    BY DEF OneLiveBadge
  <2>1. held[b] = attempt /\ held[c] = attempt
    BY LiveIsLast
  <2> QED  BY <2>1 DEF HoldersInv, Apart
<1> QED  BY <1>1, <1>2, <1>3, PTL DEF Spec

-----------------------------------------------------------------------------
(***************************************************************************)
(* Times: what a missed heartbeat costs, how long a verdict stays the       *)
(* badge's, and who ends a deliberate crash.  Each holds on networks that   *)
(* are quick enough, whatever the times.                                   *)
(***************************************************************************)

-----------------------------------------------------------------------------
(***************************************************************************)
(* What a step that takes no time does to the heartbeats of one badge.     *)
(***************************************************************************)
SameCall(c) == call'[c].state = call[c].state /\ call'[c].age = call[c].age

SameCore(c) ==
    /\ core'[c].state = core[c].state /\ core'[c].age = core[c].age
    /\ core'[c].queued = core[c].queued

\* Badge c sees nothing of the step, answers to its heartbeats aside.
Same(c) ==
    /\ Stays(c) /\ SameCall(c) /\ SameCore(c)
    /\ ackAge'[c] = ackAge[c] /\ misses'[c] = misses[c]
    /\ c \in told => c \in told'

\* The steps of c that keep its attempt.
Acts(c) ==
    \/ StartCall(c) \/ Acknowledged(c) \/ Missed(c) \/ Stopped(c)
    \/ CoreDone(c) \/ CoreResumes(c)
    \/ Accept(c) \/ Refuse(c) \/ ChooseAnswer(c) \/ Panic(c) \/ GiveUp(c)
    \/ FeedbackEnds(c) \/ BlackoutEnds(c) \/ RefusalEnds(c) \/ Report(c)

\* A badge's heartbeats are touched by its own steps and the end of its report.
LEMMA WhoActs ==
    ASSUME TypeOK, [Next]_vars, ~Tick, NEW c \in Badges
    PROVE  Same(c) \/ Release(c) \/ Dispatch(c) \/ Acts(c)
<1>0. call \in [Badges -> CallTypes] /\ core \in [Badges -> CoreTypes]
  BY RequestTypes
<1>1. ASSUME UNCHANGED badgeVars  PROVE Same(c)
  BY <1>1 DEF badgeVars, Same, Stays, SameCall, SameCore
<1>2. ASSUME NEW b \in Badges, b # c, Release(b)  PROVE Same(c)
  BY <1>0, <1>2 DEF TypeOK, Release, Same, Stays, SameCall, SameCore
<1>3. ASSUME NEW b \in Badges, b # c, Dispatch(b)  PROVE Same(c)
  BY <1>0, <1>3 DEF TypeOK, Dispatch, Same, Stays, SameCall, SameCore
<1>4. ASSUME NEW b \in Badges, b # c,
             \/ StartCall(b) \/ Acknowledged(b) \/ Missed(b) \/ Stopped(b)
             \/ CoreDone(b) \/ CoreResumes(b)
      PROVE  Same(c)
  BY <1>0, <1>4 DEF TypeOK, StartCall, Acknowledged, Missed, Stopped, CoreDone, CoreResumes,
                    Same, Stays, SameCall, SameCore
<1>5. ASSUME NEW b \in Badges, b # c,
             \/ Accept(b) \/ Refuse(b) \/ ChooseAnswer(b) \/ Panic(b) \/ GiveUp(b)
      PROVE  Same(c)
  BY <1>0, <1>5 DEF TypeOK, Accept, Refuse, ChooseAnswer, Panic, GiveUp, Enter, DropMonitor,
                    Same, Stays, SameCall, SameCore
<1>6. ASSUME NEW b \in Badges, b # c,
             FeedbackEnds(b) \/ BlackoutEnds(b) \/ RefusalEnds(b) \/ Report(b)
      PROVE  Same(c)
  BY <1>0, <1>6 DEF TypeOK, FeedbackEnds, BlackoutEnds, RefusalEnds, Report, Enter,
                    DropMonitor, Same, Stays, SameCall, SameCore
<1>7. ASSUME NEW b \in Badges, OfferLost(b) \/ LetGo(b) \/ Reboot(b)
      PROVE  Same(c) \/ Release(c)
  BY <1>2, <1>7 DEF OfferLost, LetGo, Reboot
<1>8. ASSUME NEW m \in wire, ReceiveReport(m) \/ Lose(m)
      PROVE  Same(c) \/ Release(c)
  <2>1. m.badge \in Badges
    BY DEF TypeOK, Messages
  <2>2. Release(m.badge) \/ UNCHANGED badgeVars
    BY <1>8 DEF ReceiveReport, Lose, Reported
  <2> QED  BY <1>1, <1>2, <2>1, <2>2
<1>9. ASSUME NEW m \in wire, ReceiveBeat(m)  PROVE Same(c)
  <2>1. UNCHANGED <<phase, held, since, ackAge, misses, told>>
    BY <1>9 DEF ReceiveBeat
  <2>2. PICK reply \in Replies :
           /\ call' \in {call, [call EXCEPT ![m.badge].reply = reply]}
           /\ core' \in {core, [core EXCEPT ![m.badge].reply = reply]}
    BY <1>9 DEF ReceiveBeat, Replies
  <2>3. SameCall(c)
    BY <1>0, <2>2 DEF SameCall, CallTypes
  <2>4. SameCore(c)
    BY <1>0, <2>2 DEF SameCore, CoreTypes
  <2> QED  BY <2>1, <2>3, <2>4 DEF Same, Stays
<1>10. CASE Expire \/ Close \/ UNCHANGED vars
  BY <1>1, <1>10 DEF Expire, Close, vars
<1> QED
  BY <1>3, <1>4, <1>5, <1>6, <1>7, <1>8, <1>9, <1>10 DEF Next, Server, Badge, Acts

\* What one unit of time does to them.
LEMMA WhoAges ==
    ASSUME TypeOK, Tick, NEW c \in Badges
    PROVE  /\ phase' = phase /\ held' = held /\ misses' = misses /\ told' = told
           /\ call'[c].state = call[c].state /\ core'[c].state = core[c].state
           /\ core'[c].queued = core[c].queued
           /\ call[c].state # "off" => call'[c].age = call[c].age + 1
           /\ core[c].state # "idle" => core'[c].age = core[c].age + 1
           /\ ackAge'[c] = IF phase[c] = "answering" THEN ackAge[c] + 1 ELSE ackAge[c]
           /\ phase[c] \in {"feedback", "blackout"} => since'[c] = since[c] + 1
<1>0. call[c] \in CallTypes /\ core[c] \in CoreTypes
  BY RequestTypes
<1>1. /\ call'[c] = [call[c] EXCEPT !.age = Older(call[c].age, call[c].state # "off")]
      /\ core'[c] = [core[c] EXCEPT !.age = Older(core[c].age, core[c].state # "idle")]
      /\ ackAge'[c] = Older(ackAge[c], phase[c] = "answering")
      /\ since'[c] = Older(since[c], phase[c] \in {"offered", "feedback", "blackout"})
      /\ UNCHANGED <<phase, held, misses, told>>
  BY DEF Tick
<1> QED  BY <1>0, <1>1 DEF Older, CallTypes, CoreTypes

-----------------------------------------------------------------------------
(***************************************************************************)
(* A missed heartbeat.  Until the second miss the badge's silence is at    *)
(* most one missed round of the heartbeat task and the one under way; what *)
(* the server has not heard is at most that and the way of one answer.     *)
(***************************************************************************)

\* A missed heartbeat costs the pause before it and the wait for its answer.
Lost(c) == IF misses[c] = 0 THEN 0 ELSE Interval + Latency

Paced(c) ==
    phase[c] = "answering" /\ misses[c] <= 1 =>
        \/ /\ call[c].state = "sleeping" /\ call[c].age <= Interval
           /\ ackAge[c] <= Lost(c) + call[c].age
        \/ /\ call[c].state = "calling" /\ call[c].age <= Latency
           /\ ackAge[c] <= Lost(c) + Interval + call[c].age
        \/ /\ call[c].state = "off" /\ c \in told
           /\ ackAge[c] <= Lost(c) + Interval + Latency

PaceInv == \A c \in Badges : Paced(c)

\* The heartbeat task keeps the pace.
LEMMA PacedKept ==
    ASSUME TypeOK, PaceInv, [Next]_vars, ~Tick, NEW c \in Badges
    PROVE  Paced(c)'
<1>0. /\ call \in [Badges -> CallTypes] /\ ackAge \in [Badges -> Nat]
      /\ misses \in [Badges -> Nat] /\ phase \in [Badges -> Phases]
      /\ call[c].age \in Nat
  BY RequestTypes, CallFields DEF TypeOK
<1>a. /\ Sleeping.state = "sleeping" /\ Sleeping.age = 0
      /\ [Sleeping EXCEPT !.age = Interval].state = "sleeping"
      /\ [Sleeping EXCEPT !.age = Interval].age = Interval
      /\ [NoCall EXCEPT !.state = "calling"].state = "calling"
      /\ [NoCall EXCEPT !.state = "calling"].age = 0
      /\ NoCall.state = "off"
  BY DEF Sleeping, NoCall
<1>b. Paced(c)
  BY DEF PaceInv
<1>c. ASSUME phase'[c] # "answering"  PROVE Paced(c)'
  BY <1>c DEF Paced
<1>1. CASE Same(c)
  BY <1>b, <1>1 DEF Same, Stays, SameCall, Paced, Lost
<1>2. CASE Release(c) \/ Dispatch(c)
  <2>1. phase'[c] \in {"idle", "offered"}
    BY <1>0, <1>2 DEF Release, Dispatch
  <2> QED  BY <1>c, <2>1
<1>3. CASE StartCall(c)
  <2>1. /\ call[c].state = "sleeping" /\ call[c].age >= Interval
        /\ call'[c] = [NoCall EXCEPT !.state = "calling"]
        /\ UNCHANGED <<phase, ackAge, misses>>
    BY <1>0, <1>3 DEF StartCall
  <2>2. Lost(c) \in Nat
    BY DEF Lost
  <2> QED  BY <1>0, <1>a, <1>b, <2>1, <2>2 DEF Paced, Lost
<1>4. CASE Acknowledged(c)
  <2>1. call'[c] = Sleeping /\ ackAge'[c] = 0 /\ misses'[c] = 0
    BY <1>0, <1>4 DEF Acknowledged
  <2> QED  BY <1>a, <2>1 DEF Paced, Lost
<1>5. CASE Missed(c)
  <2>1. /\ call[c].state = "calling" /\ call'[c] = Sleeping
        /\ misses'[c] = misses[c] + 1 /\ UNCHANGED <<phase, ackAge>>
    BY <1>0, <1>5 DEF Missed
  <2> SUFFICES ASSUME phase[c] = "answering", misses'[c] <= 1
               PROVE  ackAge[c] <= Interval + Latency + 0
    BY <1>0, <1>a, <2>1 DEF Paced, Lost
  <2>2. misses[c] = 0
    BY <1>0, <2>1
  <2>3. call[c].age <= Latency /\ ackAge[c] <= Interval + call[c].age
    BY <1>0, <1>b, <2>1, <2>2 DEF Paced, Lost
  <2> QED  BY <1>0, <2>3
<1>6. CASE Stopped(c)
  <2>1. /\ call[c].state = "calling" /\ call'[c] = NoCall /\ c \in told'
        /\ UNCHANGED <<phase, ackAge, misses>>
    BY <1>0, <1>6 DEF Stopped
  <2>2. Lost(c) \in Nat
    BY DEF Lost
  <2> QED  BY <1>0, <1>a, <1>b, <2>1, <2>2 DEF Paced, Lost
<1>7. CASE CoreDone(c) \/ CoreResumes(c)
  <2>1. /\ UNCHANGED <<phase, call, ackAge, misses>>
        /\ c \in told => c \in told'
    BY <1>7 DEF CoreDone, CoreResumes
  <2> QED  BY <1>b, <2>1 DEF Paced, Lost
<1>8. CASE Accept(c)
  <2>1. /\ call'[c] = [Sleeping EXCEPT !.age = Interval]
        /\ ackAge'[c] = 0 /\ misses'[c] = 0
    BY <1>0, <1>8 DEF Accept
  <2> QED  BY <1>a, <2>1 DEF Paced, Lost
<1>9. CASE \/ Refuse(c) \/ ChooseAnswer(c) \/ Panic(c) \/ GiveUp(c) \/ FeedbackEnds(c)
           \/ BlackoutEnds(c) \/ RefusalEnds(c) \/ Report(c)
  <2>1. \E next \in Phases \ {"answering"} : Enter(c, next)
    BY <1>9 DEF Refuse, ChooseAnswer, Panic, GiveUp, FeedbackEnds, BlackoutEnds,
                RefusalEnds, Report, Phases
  <2> QED  BY <1>0, <1>c, <2>1 DEF Enter
<1> QED
  BY <1>1, <1>2, <1>3, <1>4, <1>5, <1>6, <1>7, <1>8, <1>9, WhoActs DEF Acts

\* Time passes only while no call of it is due.
LEMMA PacedAges ==
    ASSUME TypeOK, PaceInv, Tick, NEW c \in Badges
    PROVE  Paced(c)'
<1> SUFFICES ASSUME phase[c] = "answering", misses[c] <= 1  PROVE Paced(c)'
  BY WhoAges DEF Paced
<1>1. /\ c \notin told
      /\ call[c].state = "calling" => call[c].age < Latency
      /\ call[c].state = "sleeping" => call[c].age < Interval
  BY DEF Tick, NothingDue
<1>2. call[c].age \in Nat /\ ackAge[c] \in Nat /\ Lost(c) \in Nat
  BY RequestTypes, CallFields DEF TypeOK, Lost
<1>3. Lost(c)' = Lost(c)
  BY WhoAges DEF Lost
<1>4. Paced(c)
  BY DEF PaceInv
<1>5. CASE call[c].state = "sleeping"
  <2>1. /\ call[c].age + 1 <= Interval
        /\ ackAge[c] + 1 <= Lost(c) + (call[c].age + 1)
    BY <1>1, <1>2, <1>4, <1>5 DEF Paced
  <2> QED  BY <1>3, <1>5, <2>1, WhoAges DEF Paced
<1>6. CASE call[c].state = "calling"
  <2>1. /\ call[c].age + 1 <= Latency
        /\ ackAge[c] + 1 <= Lost(c) + Interval + (call[c].age + 1)
    BY <1>1, <1>2, <1>4, <1>6 DEF Paced
  <2> QED  BY <1>3, <1>6, <2>1, WhoAges DEF Paced
<1> QED  BY <1>1, <1>4, <1>5, <1>6 DEF Paced

LEMMA PaceKept == TypeOK /\ PaceInv /\ [Next]_vars => PaceInv'
<1> SUFFICES ASSUME TypeOK, PaceInv, [Next]_vars, NEW c \in Badges  PROVE Paced(c)'
  BY DEF PaceInv
<1> QED  BY PacedKept, PacedAges

\* Two rounds of the heartbeat task fit into the badge's budget, and with the
\* way of one answer into the server's timeout.
RoomForOneMiss ==
    /\ 2 * (Interval + Latency) < Budget
    /\ 2 * Interval + 3 * Latency < Timeout

\* One missed heartbeat costs neither the badge its budget nor, at the server,
\* the question, for every such choice of the times (contract.rs).
THEOREM OneMissIsFree == RoomForOneMiss => (Spec => []SingleMissCostsNothing)
<1> SUFFICES ASSUME RoomForOneMiss  PROVE Spec => []SingleMissCostsNothing
  OBVIOUS
<1> DEFINE MissInv == TypeOK /\ HoldersInv /\ WaitingInv /\ PaceInv
<1>1. Init => MissInv
  <2>1. Init => PaceInv
    BY DEF Init, PaceInv, Paced
  <2> QED  BY <2>1, TypesInitially, HoldersInitially, WaitingInitially
<1>2. MissInv /\ [Next]_vars => MissInv'
  BY TypesKept, HoldersKept, WaitingInvKept, PaceKept
<1>3. MissInv => SingleMissCostsNothing
  <2> SUFFICES ASSUME MissInv, NEW b \in Badges, phase[b] = "answering", misses[b] <= 1
               PROVE  ~BudgetExhausted(b) /\ held[b] = attempt /\ lease # "open"
    BY DEF SingleMissCostsNothing
  <2>1. /\ ackAge[b] \in Nat /\ call[b].age \in Nat /\ leaseAge \in Nat /\ attempt \in Nat
        /\ held[b] \in Nat /\ held[b] <= attempt
    BY RequestTypes, CallFields DEF TypeOK, HoldersInv, Numbered
  <2>2. Lost(b) \in {0, Interval + Latency} /\ Paced(b)
    BY DEF Lost, PaceInv
  <2>3. ackAge[b] <= 2 * (Interval + Latency)
    BY <2>1, <2>2 DEF Paced
  <2>4. ~BudgetExhausted(b)
    BY <2>1, <2>3 DEF BudgetExhausted, RoomForOneMiss
  <2>5. Behind(held[b], ackAge[b] + Latency) /\ ackAge[b] + Latency < Timeout
    BY <2>1, <2>3 DEF WaitingInv, Waiting, RoomForOneMiss
  <2>6. held[b] = attempt /\ lease # "open"
    BY <2>1, <2>5 DEF Behind
  <2> QED  BY <2>4, <2>6
<1> QED  BY <1>1, <1>2, <1>3, PTL DEF Spec
-----------------------------------------------------------------------------
(***************************************************************************)
(* A verdict.  A choice is taken within the budget; from there the server  *)
(* hears nothing for the feedback's hold, for the heartbeat of Core that   *)
(* the report waits for, and for the report's way.                         *)
(***************************************************************************)
Chosen == Budget - 1 + Latency + Hold

\* A request of Core's takes no longer than a request may.
CoreInv == \A c \in Badges : core[c].state = "sent" => core[c].age <= Latency

WireInv == \A m \in wire : m.age <= Latency

InFeedback(c) ==
    phase[c] = "feedback" =>
        since[c] <= Hold /\ Behind(held[c], Budget - 1 + Latency + since[c])

\* Before its report leaves, a finished attempt waits for one heartbeat of
\* Core's at most: the one on its way, or the one queued when it finished.
InFinished(c) ==
    phase[c] = "finished" =>
        \/ Behind(held[c], Chosen)
        \/ core[c].state = "sent" /\ Behind(held[c], Chosen + core[c].age)
        \/ /\ core[c].state = "throttled" /\ core[c].age < Interval
           /\ Behind(held[c], Chosen + Latency)

Reporting(m) ==
    m.kind = "answer" =>
        m.attempt <= attempt /\ Behind(m.attempt, Chosen + Latency + m.age)

VerdictInv ==
    /\ CoreInv /\ WireInv
    /\ \A c \in Badges : InFeedback(c) /\ InFinished(c)
    /\ \A m \in wire : Reporting(m)

LEMMA CoreKept == TypeOK /\ CoreInv /\ [Next]_vars => CoreInv'
<1> SUFFICES ASSUME TypeOK, CoreInv, [Next]_vars, NEW c \in Badges, core'[c].state = "sent"
             PROVE  core'[c].age <= Latency
  BY DEF CoreInv
<1>0. core \in [Badges -> CoreTypes] /\ core[c].age \in Nat
  BY RequestTypes, CoreFields
<1>a. /\ NoCore.state = "idle"
      /\ [NoCore EXCEPT !.state = "sent"].age = 0
  BY DEF NoCore
<1>1. CASE Tick
  <2>1. core[c].state = "sent" /\ core[c].age < Latency
    BY <1>1, WhoAges DEF Tick, NothingDue
  <2> QED  BY <1>0, <1>1, <2>1, WhoAges
<1>2. CASE ~Tick
  <2>1. CASE Same(c)
    BY <2>1 DEF Same, SameCore, CoreInv
  <2>2. CASE Release(c) \/ Dispatch(c) \/ Report(c)
    BY <1>0, <1>a, <2>2 DEF Release, Dispatch, Report, CoreInv
  <2>3. CASE StartCall(c)
    <3>1. \/ core'[c] = [core[c] EXCEPT !.state = "sent", !.age = 0, !.reply = "none"]
          \/ core'[c] = [core[c] EXCEPT !.queued = TRUE]
      BY <1>0, <2>3 DEF StartCall
    <3>2. [core[c] EXCEPT !.state = "sent", !.age = 0, !.reply = "none"].age = 0
      BY <1>0 DEF CoreTypes
    <3>3. /\ [core[c] EXCEPT !.queued = TRUE].age = core[c].age
          /\ [core[c] EXCEPT !.queued = TRUE].state = core[c].state
      BY <1>0 DEF CoreTypes
    <3>4. CASE core'[c] = [core[c] EXCEPT !.queued = TRUE]
      <4>1. core[c].state = "sent" /\ core'[c].age = core[c].age
        BY <3>3, <3>4
      <4> QED  BY <4>1 DEF CoreInv
    <3>5. CASE core'[c] = [core[c] EXCEPT !.state = "sent", !.age = 0, !.reply = "none"]
      <4>1. core'[c].age = 0
        BY <3>2, <3>5
      <4> QED  BY <4>1
    <3> QED  BY <3>1, <3>4, <3>5
  <2>4. CASE CoreDone(c)
    <3>1. core'[c].state = "throttled"
      BY <1>0, <2>4 DEF CoreDone, CoreTypes
    <3> QED  BY <3>1
  <2>5. CASE CoreResumes(c)
    <3>1. core'[c] \in {NoCore, [NoCore EXCEPT !.state = "sent"]}
      BY <1>0, <2>5 DEF CoreResumes
    <3>2. core'[c] = [NoCore EXCEPT !.state = "sent"]
      BY <1>a, <3>1
    <3>3. core'[c].age = 0
      BY <1>a, <3>2
    <3> QED  BY <3>3
  <2>6. CASE UNCHANGED core
    BY <2>6 DEF CoreInv
  <2> QED
    BY <1>2, <2>1, <2>2, <2>3, <2>4, <2>5, <2>6, WhoActs
       DEF Acts, Acknowledged, Missed, Stopped, Accept, Refuse, ChooseAnswer, Panic, GiveUp,
           FeedbackEnds, BlackoutEnds, RefusalEnds
<1> QED  BY <1>1, <1>2

\* Where a request comes from.
NewMessage(m) ==
    /\ m.age = 0
    /\ \E b \in Badges :
          /\ m.attempt = held[b]
          /\ \/ m.kind \in {"direct", "core"} /\ StartCall(b)
             \/ m.kind = "core" /\ CoreResumes(b) /\ core[b].queued
             \/ m.kind = "answer" /\ Report(b) /\ phase[b] = "finished"
             \/ m.kind = "failure" /\ Report(b) /\ phase[b] = "failed"

LEMMA MessagesKept ==
    ASSUME TypeOK, [Next]_vars, ~Tick, NEW m \in wire'
    PROVE  m \in wire \/ NewMessage(m)
<1>1. ASSUME NEW b \in Badges, StartCall(b)  PROVE m \in wire \/ NewMessage(m)
  <2>1. m \in wire \/ m \in {Message("direct", b), Message("core", b)}
    BY <1>1 DEF StartCall
  <2> QED  BY <1>1, <2>1 DEF Message, NewMessage
<1>2. ASSUME NEW b \in Badges, CoreResumes(b)  PROVE m \in wire \/ NewMessage(m)
  <2>1. m \in wire \/ (m = Message("core", b) /\ core[b].queued)
    BY <1>2 DEF CoreResumes
  <2> QED  BY <1>2, <2>1 DEF Message, NewMessage
<1>3. ASSUME NEW b \in Badges, Report(b)  PROVE m \in wire \/ NewMessage(m)
  <2>1. \/ m \in wire
        \/ m = Message("answer", b) /\ phase[b] = "finished"
        \/ m = Message("failure", b) /\ phase[b] = "failed"
    BY <1>3 DEF Report
  <2> QED  BY <1>3, <2>1 DEF Message, NewMessage
<1> QED
  BY <1>1, <1>2, <1>3
     DEF Next, Server, Badge, vars, Lose, Dispatch, Expire, Close, ReceiveBeat, ReceiveReport,
         Acknowledged, Missed, Stopped, CoreDone, Accept, Refuse, OfferLost, ChooseAnswer,
         Panic, GiveUp, LetGo, FeedbackEnds, BlackoutEnds, RefusalEnds, Reboot

LEMMA WireKept == TypeOK /\ WireInv /\ [Next]_vars => WireInv'
<1> SUFFICES ASSUME TypeOK, WireInv, [Next]_vars, NEW m \in wire'  PROVE m.age <= Latency
  BY DEF WireInv
<1>1. CASE Tick
  <2>1. PICK k \in wire : m = [k EXCEPT !.age = @ + 1]
    BY <1>1 DEF Tick
  <2>2. k \in Messages /\ k.age < Latency
    BY <1>1 DEF TypeOK, Tick, NothingDue
  <2> QED  BY <2>1, <2>2 DEF Messages
<1>2. CASE ~Tick
  BY <1>2, MessagesKept DEF NewMessage, WireInv
<1> QED  BY <1>1, <1>2

LEMMA FeedbackKept ==
    ASSUME TypeOK, HoldersInv, WaitingInv, VerdictInv, [Next]_vars, ~Tick, NEW c \in Badges
    PROVE  InFeedback(c)'
<1> SUFFICES ASSUME phase'[c] = "feedback"
             PROVE  since'[c] <= Hold /\ Behind(held[c], Budget - 1 + Latency + since[c])'
  BY DEF InFeedback
<1>0. since[c] \in Nat /\ ackAge[c] \in Nat /\ Budget - 1 \in Nat /\ held[c] \in Nat
  BY DEF TypeOK
<1>1. CASE Stays(c)
  <2>1. /\ since[c] <= Hold /\ Behind(held[c], Budget - 1 + Latency + since[c])
        /\ Budget - 1 + Latency + since[c] \in Nat
    BY <1>0, <1>1 DEF VerdictInv, InFeedback, Stays
  <2> QED  BY <1>1, <2>1, HeldBehindKept DEF Stays, Behind
<1>2. CASE ChooseAnswer(c)
  <2>1. /\ phase[c] = "answering" /\ ackAge[c] < Budget
        /\ held' = held /\ since'[c] = 0
    BY <1>0, <1>2 DEF ChooseAnswer, MayChoose, BudgetExhausted, Enter, TypeOK
  <2>2. Behind(held[c], ackAge[c] + Latency)
    BY <2>1 DEF WaitingInv, Waiting
  <2>3. /\ ackAge[c] + Latency <= Budget - 1 + Latency
        /\ ackAge[c] + Latency \in Nat /\ Budget - 1 + Latency \in Nat
    BY <1>0, <2>1
  <2>4. Behind(held[c], Budget - 1 + Latency)
    BY <1>0, <2>2, <2>3, BehindLonger
  <2>5. Budget - 1 + Latency + since'[c] = Budget - 1 + Latency
    BY <2>1
  <2> QED  BY <2>1, <2>3, <2>4, <2>5, HeldBehindKept DEF Behind
<1>3. CASE Dispatch(c)
  BY <1>3 DEF TypeOK, Dispatch
<1>4. CASE Moves(c) /\ ~Dispatch(c) /\ ~ChooseAnswer(c)
  <2>1. \E next \in Phases \ {"feedback"} : Enter(c, next)
    BY <1>4 DEF Moves, Accept, Refuse, Panic, GiveUp, FeedbackEnds, BlackoutEnds,
                RefusalEnds, Report, Phases
  <2> QED  BY <2>1 DEF TypeOK, Enter
<1> QED  BY <1>1, <1>2, <1>3, <1>4, WhereItGoes

LEMMA ChosenType == Chosen \in Nat /\ Budget - 1 \in Nat
  BY DEF Chosen

\* Once Core is busy only its answer and its throttle move it, if its badge
\* has finished.
LEMMA CoreBusy ==
    ASSUME TypeOK, [Next]_vars, ~Tick, NEW c \in Badges,
           phase[c] = "finished", phase'[c] = "finished", core[c].state # "idle"
    PROVE  \/ core'[c].state = core[c].state /\ core'[c].age = core[c].age
           \/ core[c].state = "sent" /\ core'[c].state = "throttled"
                /\ core'[c].age = core[c].age
           \/ CoreResumes(c)
<1>0. core \in [Badges -> CoreTypes] /\ phase \in [Badges -> Phases]
  BY RequestTypes DEF TypeOK
<1>1. CASE Same(c)
  BY <1>1 DEF Same, SameCore
<1>2. ~Release(c) /\ ~Dispatch(c)
  BY <1>0 DEF Release, Dispatch
<1>3. CASE StartCall(c)
  <2>1. core'[c] = [core[c] EXCEPT !.queued = TRUE]
    BY <1>0, <1>3 DEF StartCall
  <2> QED  BY <1>0, <2>1 DEF CoreTypes
<1>4. CASE CoreDone(c)
  BY <1>0, <1>4 DEF CoreDone, CoreTypes
<1>5. CASE UNCHANGED core
  BY <1>5
<1>6. ~Report(c)
  BY <1>0 DEF Report, Enter
<1> QED
  BY <1>1, <1>2, <1>3, <1>4, <1>5, <1>6, WhoActs
     DEF Acts, Acknowledged, Missed, Stopped, Accept, Refuse, ChooseAnswer, Panic, GiveUp,
         FeedbackEnds, BlackoutEnds, RefusalEnds

LEMMA FinishedKept ==
    ASSUME TypeOK, HoldersInv, VerdictInv, Latency < Interval,
           [Next]_vars, ~Tick, NEW c \in Badges
    PROVE  InFinished(c)'
<1> SUFFICES ASSUME phase'[c] = "finished"  PROVE InFinished(c)'
  BY DEF InFinished
<1>0. /\ core[c].age \in Nat /\ phase \in [Badges -> Phases]
      /\ since[c] \in Nat /\ held[c] \in Nat
  BY RequestTypes, CoreFields DEF TypeOK
<1>a. Chosen \in Nat /\ Budget - 1 \in Nat /\ Chosen' = Chosen
  BY ChosenType DEF Chosen
<1>1. CASE phase[c] = "finished"
  <2>1. Stays(c)
    <3>1. ~Moves(c)
      BY <1>0, <1>1 DEF Moves, Dispatch, Accept, Refuse, ChooseAnswer, Panic, GiveUp,
                FeedbackEnds, BlackoutEnds, RefusalEnds, Report, MayChoose, Enter
    <3> QED  BY <3>1, WhereItGoes
  <2>2. held'[c] = held[c] /\ phase[c] \notin {"idle", "reporting"}
    BY <1>1, <2>1 DEF Stays
  <2>3. ASSUME NEW s \in Nat, Behind(held[c], s)
        PROVE  /\ held'[c] = attempt' /\ lease' = "leased" => leaseAge' <= s
               /\ held'[c] = attempt' /\ lease' = "open" => Timeout + leaseAge' <= s
               /\ held'[c] < attempt' => Timeout + Backoff <= s
    BY <2>2, <2>3, HeldBehindKept
  <2>4. InFinished(c)
    BY DEF VerdictInv
  <2>5. CASE Behind(held[c], Chosen)
    <3>1. Behind(held[c], Chosen)'
      BY <1>a, <2>3, <2>5 DEF Behind
    <3> QED  BY <3>1 DEF InFinished
  <2>6. CASE core[c].state = "sent" /\ Behind(held[c], Chosen + core[c].age)
    <3>1. core[c].age <= Latency /\ Chosen + core[c].age \in Nat /\ Chosen + Latency \in Nat
      BY <1>0, <1>a, <2>6 DEF VerdictInv, CoreInv
    <3>2. CASE core'[c].state = core[c].state /\ core'[c].age = core[c].age
      <4>1. Behind(held[c], Chosen + core[c].age)'
        BY <1>a, <2>3, <2>6, <3>1, <3>2 DEF Behind
      <4> QED  BY <2>6, <3>2, <4>1 DEF InFinished
    <3>3. CASE core'[c].state = "throttled" /\ core'[c].age = core[c].age
      <4>1. Behind(held[c], Chosen + Latency)
        <5>1. Chosen + core[c].age <= Chosen + Latency
          BY <1>0, <1>a, <3>1
        <5> QED  BY <1>0, <2>6, <3>1, <5>1, BehindLonger
      <4>2. Behind(held[c], Chosen + Latency)'
        BY <1>a, <2>3, <3>1, <4>1 DEF Behind
      <4>3. core'[c].age < Interval
        BY <1>0, <3>1, <3>3
      <4> QED  BY <3>3, <4>2, <4>3 DEF InFinished
    <3>4. ~CoreResumes(c)
      BY <2>6 DEF CoreResumes
    <3> QED  BY <1>1, <2>6, <3>2, <3>3, <3>4, CoreBusy
  <2>7. CASE /\ core[c].state = "throttled" /\ core[c].age < Interval
             /\ Behind(held[c], Chosen + Latency)
    <3>1. ~CoreResumes(c)
      BY <1>0, <2>7 DEF CoreResumes
    <3>2. core'[c].state = core[c].state /\ core'[c].age = core[c].age
      BY <1>1, <2>7, <3>1, CoreBusy
    <3>3. Behind(held[c], Chosen + Latency)'
      <4>1. Chosen + Latency \in Nat
        BY <1>a
      <4> QED  BY <1>a, <2>3, <2>7, <4>1 DEF Behind
    <3> QED  BY <2>7, <3>2, <3>3 DEF InFinished
  <2> QED  BY <1>1, <2>4, <2>5, <2>6, <2>7 DEF InFinished
<1>2. CASE phase[c] # "finished"
  <2>1. FeedbackEnds(c)
    <3>1. ~Stays(c)
      BY <1>2 DEF Stays
    <3>2. CASE Moves(c) /\ ~FeedbackEnds(c)
      BY <1>0, <3>2 DEF Moves, Dispatch, Accept, Refuse, ChooseAnswer, Panic, GiveUp,
                BlackoutEnds, RefusalEnds, Report, Enter
    <3> QED  BY <3>1, <3>2, WhereItGoes
  <2>2. phase[c] = "feedback" /\ held' = held
    BY <2>1 DEF FeedbackEnds
  <2>3. Behind(held[c], Budget - 1 + Latency + since[c]) /\ since[c] <= Hold
    BY <2>2 DEF VerdictInv, InFeedback
  <2>4. /\ Budget - 1 + Latency + since[c] <= Chosen
        /\ Budget - 1 + Latency + since[c] \in Nat
    BY <1>0, <1>a, <2>3 DEF Chosen
  <2>5. Behind(held[c], Chosen)
    BY <1>0, <1>a, <2>3, <2>4, BehindLonger
  <2>6. Behind(held[c], Chosen)'
    <3>1. phase[c] \notin {"idle", "reporting"} /\ held'[c] = held[c]
      BY <2>2
    <3> QED  BY <1>a, <2>5, <3>1, HeldBehindKept DEF Behind
  <2> QED  BY <2>6 DEF InFinished
<1> QED  BY <1>1, <1>2

\* A unit of time adds one to the distance and to the age that bounds it.
LEMMA VerdictAges ==
    ASSUME TypeOK, VerdictInv, Tick, NEW c \in Badges
    PROVE  InFeedback(c)' /\ InFinished(c)'
<1>0. /\ since[c] \in Nat /\ core[c].age \in Nat /\ held' = held /\ phase' = phase
      /\ Chosen \in Nat /\ Budget - 1 \in Nat
  BY RequestTypes, CoreFields, ChosenType DEF TypeOK, Tick
<1>1. ASSUME phase[c] = "feedback"
      PROVE  since'[c] <= Hold /\ Behind(held[c], Budget - 1 + Latency + since[c])'
  <2>1. since[c] < Hold /\ since'[c] = since[c] + 1
    BY <1>1, WhoAges DEF Tick, NothingDue
  <2>2. Behind(held[c], Budget - 1 + Latency + since[c])
    BY <1>1 DEF VerdictInv, InFeedback
  <2>3. /\ Budget - 1 + Latency + since[c] \in Nat
        /\ (Budget - 1 + Latency + since[c]) + 1 = Budget - 1 + Latency + since'[c]
    BY <1>0, <2>1
  <2> QED  BY <1>0, <2>1, <2>2, <2>3, HeldBehindAges DEF Behind
<1>2. ASSUME phase[c] = "finished"  PROVE InFinished(c)'
  <2>1. core[c].state = "sent" /\ core[c].age < Latency
    BY <1>2 DEF Tick, NothingDue
  <2>2. core'[c].state = "sent" /\ core'[c].age = core[c].age + 1
    BY <2>1, WhoAges
  <2>3. Behind(held[c], Chosen) \/ Behind(held[c], Chosen + core[c].age)
    BY <1>2, <2>1 DEF VerdictInv, InFinished
  <2>4. held[c] \in Nat /\ Chosen + core[c].age \in Nat /\ Chosen <= Chosen + core[c].age
    BY <1>0 DEF TypeOK
  <2>5. Behind(held[c], Chosen + core[c].age)
    BY <1>0, <2>3, <2>4, BehindLonger
  <2>6. (Chosen + core[c].age) + 1 = Chosen + core'[c].age /\ Chosen' = Chosen
    BY <1>0, <2>2 DEF Chosen
  <2>7. Behind(held[c], Chosen + core[c].age)'
    BY <1>0, <2>4, <2>5, <2>6, HeldBehindAges DEF Behind
  <2> QED  BY <2>2, <2>7 DEF InFinished
<1> QED  BY <1>0, <1>1, <1>2 DEF InFeedback, InFinished

\* An answer on its way, from the report on.
LEMMA ReportingKept ==
    ASSUME TypeOK, HoldersInv, VerdictInv, [Next]_vars, ~Tick,
           NEW m \in wire'
    PROVE  Reporting(m)'
<1> SUFFICES ASSUME m.kind = "answer"
             PROVE  m.attempt <= attempt' /\ Behind(m.attempt, Chosen + Latency + m.age)'
  BY DEF Reporting
<1>0. Chosen \in Nat /\ Chosen' = Chosen /\ attempt \in Nat /\ attempt' >= attempt
  <2>1. attempt' = attempt \/ attempt' = attempt + 1
    BY DEF Next, Server, Badge, vars, serverVars, Lose, Dispatch, Expire, Close, ReceiveBeat,
           ReceiveReport, StartCall, Acknowledged, Missed, Stopped, CoreDone, CoreResumes,
           Accept, Refuse, OfferLost, ChooseAnswer, Panic, GiveUp, LetGo, FeedbackEnds,
           BlackoutEnds, RefusalEnds, Report, Reboot
  <2> QED  BY <2>1, ChosenType DEF Chosen, TypeOK
<1>1. CASE m \in wire
  <2>1. m.attempt \in Nat /\ m.age \in Nat /\ Chosen + Latency + m.age \in Nat
    BY <1>0, <1>1 DEF TypeOK, Messages
  <2>2. m.attempt <= attempt /\ Behind(m.attempt, Chosen + Latency + m.age)
    BY <1>1 DEF VerdictInv, Reporting
  <2>3. \A k \in wire : k.kind = "failure" => k.attempt # m.attempt
    BY <1>1 DEF HoldersInv, Outcomes, Reports
  <2>4. Behind(m.attempt, Chosen + Latency + m.age)'
    <3>1. PICK n \in Nat, s \in Nat : n = m.attempt /\ s = Chosen + Latency + m.age
      BY <2>1
    <3>2. Behind(n, s)'
      BY <2>2, <2>3, <3>1, BehindKept
    <3> QED  BY <1>0, <3>1, <3>2 DEF Behind
  <2>5. m.attempt <= attempt'
    <3>1. attempt' \in Nat
      BY TypesKept DEF TypeOK
    <3>2. \A x, y, z \in Nat : x <= y /\ z >= y => x <= z
      OBVIOUS
    <3> QED  BY <1>0, <2>1, <2>2, <3>1, <3>2
  <2> QED  BY <2>4, <2>5
<1>2. CASE NewMessage(m)
  <2>1. PICK b \in Badges : m.attempt = held[b] /\ Report(b) /\ phase[b] = "finished"
    BY <1>2 DEF NewMessage
  <2>2. core[b].state # "sent" /\ UNCHANGED serverVars /\ held' = held
    BY <2>1 DEF Report
  <2>3. Behind(held[b], Chosen) \/ Behind(held[b], Chosen + Latency)
    BY <2>1, <2>2 DEF VerdictInv, InFinished
  <2>4. /\ held[b] \in Nat /\ held[b] <= attempt
        /\ Chosen + Latency \in Nat /\ Chosen <= Chosen + Latency
    BY <1>0, <2>1 DEF TypeOK, HoldersInv, Numbered
  <2>5. Behind(held[b], Chosen + Latency)
    BY <1>0, <2>3, <2>4, BehindLonger
  <2>6. m.age = 0 /\ Chosen + Latency + m.age = Chosen + Latency
    BY <1>0, <1>2 DEF NewMessage
  <2>7. Behind(m.attempt, Chosen + Latency + m.age)'
    BY <1>0, <2>1, <2>2, <2>5, <2>6 DEF Behind, serverVars
  <2> QED  BY <2>1, <2>2, <2>4, <2>7 DEF serverVars
<1> QED  BY <1>1, <1>2, MessagesKept

LEMMA ReportingAges ==
    ASSUME TypeOK, VerdictInv, Tick, NEW m \in wire'
    PROVE  Reporting(m)'
<1>1. PICK k \in wire : m = [k EXCEPT !.age = @ + 1]
  BY DEF Tick
<1>2. /\ k.attempt \in Nat /\ k.age \in Nat
      /\ m.kind = k.kind /\ m.attempt = k.attempt /\ m.age = k.age + 1
  BY <1>1 DEF TypeOK, Messages
<1>3. Chosen \in Nat /\ Chosen' = Chosen /\ attempt' = attempt
  BY ChosenType DEF Chosen, Tick
<1> SUFFICES ASSUME m.kind = "answer"
             PROVE  m.attempt <= attempt /\ Behind(m.attempt, Chosen + Latency + m.age)'
  BY <1>3 DEF Reporting
<1>4. k.attempt <= attempt /\ Behind(k.attempt, Chosen + Latency + k.age)
  BY <1>2 DEF VerdictInv, Reporting
<1>5. /\ Chosen + Latency + k.age \in Nat
      /\ (Chosen + Latency + k.age) + 1 = Chosen + Latency + m.age
  BY <1>2, <1>3
<1> QED  BY <1>2, <1>3, <1>4, <1>5, BehindAges DEF Behind

LEMMA VerdictKept ==
    ASSUME Latency < Interval
    PROVE  TypeOK /\ HoldersInv /\ WaitingInv /\ VerdictInv /\ [Next]_vars => VerdictInv'
<1> SUFFICES ASSUME TypeOK, HoldersInv, WaitingInv, VerdictInv, [Next]_vars
             PROVE  VerdictInv'
  OBVIOUS
<1>1. CoreInv' /\ WireInv'
  BY CoreKept, WireKept DEF VerdictInv
<1>2. \A c \in Badges : InFeedback(c)' /\ InFinished(c)'
  BY FeedbackKept, FinishedKept, VerdictAges
<1>3. \A m \in wire' : Reporting(m)'
  BY ReportingKept, ReportingAges
<1> QED  BY <1>1, <1>2, <1>3 DEF VerdictInv

\* The rest of the server's timeout outlasts feedback and report.
RoomForVerdict ==
    /\ Latency < Interval
    /\ Budget + Hold + 3 * Latency <= Timeout

\* A verdict the player has seen counts: from the choice to the arrival of the
\* answer the attempt stays the last one handed out and the lease is not given
\* up, for every such choice of the times (wait_for_choice, FEEDBACK_HOLD).
THEOREM VerdictStays == RoomForVerdict => (Spec => []VerdictIsFinal)
<1> SUFFICES ASSUME RoomForVerdict  PROVE Spec => []VerdictIsFinal
  OBVIOUS
<1> DEFINE AnswerInv == TypeOK /\ HoldersInv /\ WaitingInv /\ VerdictInv
<1>1. Init => AnswerInv
  <2>1. Init => VerdictInv
    BY DEF Init, VerdictInv, CoreInv, WireInv, InFeedback, InFinished, NoCore
  <2> QED  BY <2>1, TypesInitially, HoldersInitially, WaitingInitially
<1>2. AnswerInv /\ [Next]_vars => AnswerInv'
  BY TypesKept, HoldersKept, WaitingInvKept, VerdictKept DEF RoomForVerdict
<1>3. AnswerInv => VerdictIsFinal
  <2> SUFFICES ASSUME AnswerInv  PROVE VerdictIsFinal
    OBVIOUS
  <2>0. /\ Chosen = Budget - 1 + Latency + Hold /\ Chosen \in Nat
        /\ leaseAge \in Nat /\ attempt \in Nat
    BY ChosenType DEF Chosen, TypeOK
  <2>1. ASSUME NEW n \in Nat, n <= attempt, NEW s \in Nat, s < Timeout, Behind(n, s)
        PROVE  n = attempt /\ lease # "open"
    BY <2>0, <2>1 DEF Behind
  <2>2. ASSUME NEW b \in Badges, phase[b] \in {"feedback", "finished"}
        PROVE  held[b] = attempt /\ lease # "open"
    <3>1. /\ held[b] \in Nat /\ held[b] <= attempt /\ since[b] \in Nat
          /\ core[b].age \in Nat
      <4>1. held[b] \in 1..attempt /\ since[b] \in Nat
        BY <2>2 DEF TypeOK, HoldersInv, Numbered
      <4>2. core[b].age \in Nat
        BY RequestTypes, CoreFields
      <4> QED  BY <2>0, <4>1, <4>2
    <3>2. CASE phase[b] = "feedback"
      <4>1. /\ since[b] <= Hold /\ Behind(held[b], Budget - 1 + Latency + since[b])
            /\ Budget - 1 \in Nat
        BY <3>2, ChosenType DEF VerdictInv, InFeedback
      <4>2. /\ Budget - 1 + Latency + since[b] \in Nat
            /\ Budget - 1 + Latency + since[b] < Timeout
        BY <3>1, <4>1 DEF RoomForVerdict
      <4> QED  BY <2>1, <3>1, <4>1, <4>2
    <3>3. CASE phase[b] = "finished"
      <4>1. PICK late \in 0..Latency : Behind(held[b], Chosen + late)
        <5>1. CASE Behind(held[b], Chosen)
          BY <2>0, <5>1
        <5>2. CASE core[b].state = "sent" /\ Behind(held[b], Chosen + core[b].age)
          BY <3>1, <5>2 DEF VerdictInv, CoreInv
        <5>3. CASE Behind(held[b], Chosen + Latency)
          BY <5>3
        <5> QED  BY <3>3, <5>1, <5>2, <5>3 DEF VerdictInv, InFinished
      <4>2. Chosen + late \in Nat /\ Chosen + late < Timeout
        BY <2>0 DEF RoomForVerdict
      <4> QED  BY <2>1, <3>1, <4>1, <4>2
    <3> QED  BY <2>2, <3>2, <3>3
  <2>3. ASSUME NEW m \in wire, m.kind = "answer"
        PROVE  m.attempt = attempt /\ lease # "open"
    <3>1. m.attempt \in Nat /\ m.age \in Nat
      BY DEF TypeOK, Messages
    <3>2. /\ m.attempt <= attempt /\ Behind(m.attempt, Chosen + Latency + m.age)
          /\ m.age <= Latency
      BY <2>3 DEF VerdictInv, Reporting, WireInv
    <3>3. Chosen + Latency + m.age \in Nat /\ Chosen + Latency + m.age < Timeout
      BY <2>0, <3>1, <3>2 DEF RoomForVerdict
    <3> QED  BY <2>1, <3>1, <3>2, <3>3
  <2> QED  BY <2>2, <2>3 DEF VerdictIsFinal
<1> QED  BY <1>1, <1>2, <1>3, PTL DEF Spec
-----------------------------------------------------------------------------
(***************************************************************************)
(* A crash.  Core queues a heartbeat for no time at all, because a call    *)
(* follows the last one no sooner than the throttle ends; so what a badge  *)
(* sends after its crash it sends at once, and it arrives within Latency.  *)
(***************************************************************************)
Beats(c) ==
    /\ phase[c] \in {"idle", "offered"} => core[c].state = "idle" /\ ~core[c].queued
    /\ call[c].state # "off" => Beating(c)
    /\ core[c].queued =>
          /\ core[c].state = "throttled" /\ core[c].age >= Interval
          /\ call[c].state # "off" => call[c].age = 0
    /\ call[c].state = "sleeping" /\ core[c].state # "idle" => core[c].age >= call[c].age

BeatsInv == CoreInv /\ \A c \in Badges : Beats(c)

LEMMA BeatsKept ==
    ASSUME TypeOK, BeatsInv, Latency < Interval, [Next]_vars, ~Tick, NEW c \in Badges
    PROVE  Beats(c)'
<1>0. /\ call \in [Badges -> CallTypes] /\ core \in [Badges -> CoreTypes]
      /\ phase \in [Badges -> Phases] /\ Beats(c)
      /\ call[c].age \in Nat /\ core[c].age \in Nat
      /\ core[c].state \in {"idle", "sent", "throttled"}
  <2>1. call \in [Badges -> CallTypes] /\ core \in [Badges -> CoreTypes]
    BY RequestTypes
  <2>2. call[c].age \in Nat /\ core[c].age \in Nat
    BY RequestTypes, CallFields, CoreFields
  <2>3. core[c].state \in {"idle", "sent", "throttled"}
    BY <2>1 DEF CoreTypes
  <2> QED  BY <2>1, <2>2, <2>3 DEF TypeOK, BeatsInv
<1>a. /\ NoCall.state = "off" /\ Sleeping.state = "sleeping" /\ Sleeping.age = 0
      /\ [NoCall EXCEPT !.state = "calling"].state = "calling"
      /\ [NoCall EXCEPT !.state = "calling"].age = 0
      /\ [Sleeping EXCEPT !.age = Interval].state = "sleeping"
      /\ [Sleeping EXCEPT !.age = Interval].age = Interval
  BY DEF NoCall, Sleeping
<1>b. /\ NoCore.state = "idle" /\ ~NoCore.queued
      /\ [NoCore EXCEPT !.state = "sent"].state = "sent"
      /\ [NoCore EXCEPT !.state = "sent"].age = 0
      /\ ~[NoCore EXCEPT !.state = "sent"].queued
  BY DEF NoCore
<1>1. CASE Same(c)
  BY <1>0, <1>1 DEF Same, Stays, SameCall, SameCore, Beats, Beating
<1>2. CASE Release(c)
  <2>1. call'[c] = NoCall /\ core'[c] = NoCore
    BY <1>0, <1>2 DEF Release
  <2> QED  BY <1>a, <1>b, <2>1 DEF Beats, Beating
<1>3. CASE Dispatch(c)
  <2>1. phase[c] = "idle" /\ phase'[c] = "offered" /\ call' = call /\ core' = core
    BY <1>0, <1>3 DEF Dispatch
  <2> QED  BY <1>0, <2>1 DEF Beats, Beating
<1>4. CASE StartCall(c)
  <2>1. /\ call[c].state = "sleeping" /\ call[c].age >= Interval /\ phase' = phase
        /\ call'[c] = [NoCall EXCEPT !.state = "calling"]
    BY <1>0, <1>4 DEF StartCall
  <2>2. phase[c] \notin {"idle", "offered"} /\ Beating(c)'
    BY <1>0, <2>1 DEF Beats, Beating
  <2>3. CASE core[c].state = "idle"
    <3>1. /\ core'[c] = [core[c] EXCEPT !.state = "sent", !.age = 0, !.reply = "none"]
          /\ ~core[c].queued
      BY <1>0, <1>4, <2>3 DEF StartCall, Beats
    <3>2. core'[c].state = "sent" /\ ~core'[c].queued
      BY <1>0, <3>1 DEF CoreTypes
    <3> QED  BY <1>a, <2>1, <2>2, <3>2 DEF Beats
  <2>4. CASE core[c].state # "idle"
    <3>1. core'[c] = [core[c] EXCEPT !.queued = TRUE]
      BY <1>0, <1>4, <2>4 DEF StartCall
    <3>2. core'[c].state = core[c].state /\ core'[c].age = core[c].age
      BY <1>0, <3>1 DEF CoreTypes
    <3>3. core[c].age >= Interval
      BY <1>0, <2>1, <2>4 DEF Beats
    <3>4. core[c].state = "throttled"
      BY <1>0, <2>4, <3>3 DEF BeatsInv, CoreInv
    <3> QED  BY <1>a, <2>1, <2>2, <3>2, <3>3, <3>4 DEF Beats
  <2> QED  BY <2>3, <2>4
<1>5. CASE Acknowledged(c) \/ Missed(c)
  <2>1. /\ call[c].state = "calling" /\ call'[c] = Sleeping
        /\ phase' = phase /\ core' = core
    BY <1>0, <1>5 DEF Acknowledged, Missed
  <2> QED  BY <1>0, <1>a, <2>1 DEF Beats, Beating
<1>6. CASE Stopped(c)
  <2>1. call'[c] = NoCall /\ phase' = phase /\ core' = core
    BY <1>0, <1>6 DEF Stopped
  <2> QED  BY <1>0, <1>a, <2>1 DEF Beats, Beating
<1>7. CASE CoreDone(c)
  <2>1. /\ core[c].state = "sent" /\ phase' = phase /\ call' = call
        /\ core'[c] = [core[c] EXCEPT !.state = "throttled"]
    BY <1>0, <1>7 DEF CoreDone
  <2>2. /\ core'[c].state = "throttled" /\ core'[c].age = core[c].age
        /\ core'[c].queued = core[c].queued
    BY <1>0, <2>1 DEF CoreTypes
  <2>3. ~core[c].queued /\ phase[c] \notin {"idle", "offered"}
    BY <1>0, <2>1 DEF Beats
  <2> QED  BY <1>0, <2>1, <2>2, <2>3 DEF Beats, Beating
<1>8. CASE CoreResumes(c)
  <2>1. core[c].state = "throttled" /\ phase' = phase /\ call' = call
    BY <1>8 DEF CoreResumes
  <2>2. CASE core[c].queued
    <3>1. core'[c] = [NoCore EXCEPT !.state = "sent"]
      BY <1>0, <1>8, <2>2 DEF CoreResumes
    <3>2. phase[c] \notin {"idle", "offered"} /\ (call[c].state # "off" => call[c].age = 0)
      BY <1>0, <2>1, <2>2 DEF Beats
    <3> QED  BY <1>0, <1>b, <2>1, <3>1, <3>2 DEF Beats, Beating
  <2>3. CASE ~core[c].queued
    <3>1. core'[c] = NoCore
      BY <1>0, <1>8, <2>3 DEF CoreResumes
    <3> QED  BY <1>0, <1>b, <2>1, <3>1 DEF Beats, Beating
  <2> QED  BY <2>2, <2>3
<1>9. CASE Accept(c)
  <2>1. /\ phase[c] = "offered" /\ phase'[c] = "answering" /\ core' = core
    BY <1>0, <1>9 DEF Accept, Enter
  <2> QED  BY <1>0, <2>1 DEF Beats, Beating
<1>10. CASE ChooseAnswer(c)
  <2>1. /\ phase[c] = "answering" /\ phase'[c] = "feedback" /\ core' = core /\ call' = call
    BY <1>0, <1>10 DEF ChooseAnswer, MayChoose, Enter
  <2> QED  BY <1>0, <2>1 DEF Beats, Beating
<1>11. CASE Panic(c) \/ GiveUp(c) \/ FeedbackEnds(c)
  <2>1. /\ phase'[c] \in {"blackout", "failed", "finished"} /\ core' = core
        /\ call'[c] = NoCall /\ phase[c] \in {"answering", "feedback"}
    BY <1>0, <1>11 DEF Panic, GiveUp, FeedbackEnds, MayChoose, DropMonitor, Enter
  <2> QED  BY <1>0, <1>a, <2>1 DEF Beats, Beating
<1>12. CASE Refuse(c) \/ BlackoutEnds(c) \/ RefusalEnds(c)
  <2>1. /\ phase'[c] \in {"refusing", "failed"} /\ core' = core /\ call' = call
        /\ phase[c] \in {"offered", "blackout", "refusing"}
    BY <1>0, <1>12 DEF Refuse, BlackoutEnds, RefusalEnds, Enter
  <2> QED  BY <1>0, <2>1 DEF Beats, Beating
<1>13. CASE Report(c)
  <2>1. /\ phase'[c] = "reporting" /\ core'[c] = NoCore /\ call' = call
        /\ phase[c] \in {"finished", "failed"}
    BY <1>0, <1>13 DEF Report, Enter
  <2> QED  BY <1>0, <1>b, <2>1 DEF Beats, Beating
<1> QED
  BY <1>1, <1>2, <1>3, <1>4, <1>5, <1>6, <1>7, <1>8, <1>9, <1>10, <1>11, <1>12, <1>13, WhoActs
     DEF Acts

LEMMA BeatsAge ==
    ASSUME TypeOK, BeatsInv, Tick, NEW c \in Badges
    PROVE  Beats(c)' /\ ~core[c].queued
<1>0. /\ call[c].age \in Nat /\ core[c].age \in Nat /\ Beats(c)
  BY RequestTypes, CallFields, CoreFields DEF BeatsInv
<1>1. ~core[c].queued
  BY <1>0 DEF Tick, NothingDue, Beats
<1>2. /\ phase' = phase /\ call'[c].state = call[c].state
      /\ core'[c].state = core[c].state /\ core'[c].queued = core[c].queued
      /\ call[c].state # "off" => call'[c].age = call[c].age + 1
      /\ core[c].state # "idle" => core'[c].age = core[c].age + 1
  BY WhoAges
<1> QED  BY <1>0, <1>1, <1>2 DEF Beats, Beating

LEMMA BeatsInvKept ==
    TypeOK /\ BeatsInv /\ Latency < Interval /\ [Next]_vars => BeatsInv'
<1> SUFFICES ASSUME TypeOK, BeatsInv, Latency < Interval, [Next]_vars  PROVE BeatsInv'
  OBVIOUS
<1>1. CoreInv'
  BY CoreKept DEF BeatsInv
<1> QED  BY <1>1, BeatsKept, BeatsAge DEF BeatsInv

\* In the dark: nothing is queued but at the moment of the crash, no heartbeat
\* of the attempt is younger than the crash, and the server heard none more than
\* Latency after it.
InBlackout(c) ==
    phase[c] = "blackout" =>
        /\ core[c].queued => since[c] = 0
        /\ \A m \in wire :
              m.kind \in {"direct", "core"} /\ m.attempt = held[c] => since[c] <= m.age
        /\ Current(held[c]) => since[c] <= leaseAge + Latency

LeaseInv == lease = "leased" => leaseAge <= Timeout

DarkInv == LeaseInv /\ WireInv /\ \A c \in Badges : InBlackout(c)

LEMMA LeaseKept == TypeOK /\ LeaseInv /\ [Next]_vars => LeaseInv'
<1> SUFFICES ASSUME TypeOK, LeaseInv, [Next]_vars, lease' = "leased"
             PROVE  leaseAge' <= Timeout
  BY DEF LeaseInv
<1>1. CASE Tick
  BY <1>1 DEF Tick, NothingDue, Older, TypeOK
<1>2. CASE ~Tick
  <2>1. (lease = "leased" /\ leaseAge' = leaseAge) \/ leaseAge' = 0
    BY <1>2 DEF Next, Server, Badge, vars, serverVars, Lose, Dispatch, Expire, Close,
           ReceiveBeat, ReceiveReport, StartCall, Acknowledged, Missed, Stopped, CoreDone,
           CoreResumes, Accept, Refuse, OfferLost, ChooseAnswer, Panic, GiveUp, LetGo,
           FeedbackEnds, BlackoutEnds, RefusalEnds, Report, Reboot
  <2> QED  BY <2>1 DEF LeaseInv
<1> QED  BY <1>1, <1>2

\* How the attempt handed out last comes to be heard of.
LEMMA LeaseRenewed ==
    ASSUME TypeOK, HoldersInv, [Next]_vars, ~Tick, NEW c \in Badges, phase[c] # "idle",
           Current(held[c])'
    PROVE  \/ held'[c] # held[c]
           \/ Current(held[c]) /\ leaseAge' = leaseAge
           \/ \E m \in wire : /\ m.kind \in {"direct", "core"} /\ m.attempt = held[c]
                              /\ leaseAge' = 0
<1> SUFFICES ASSUME held'[c] = held[c]
             PROVE  \/ Current(held[c]) /\ leaseAge' = leaseAge
                    \/ \E m \in wire : /\ m.kind \in {"direct", "core"}
                                       /\ m.attempt = held[c] /\ leaseAge' = 0
  OBVIOUS
<1>0. held[c] \in 1..attempt /\ attempt \in Nat /\ lease' = "leased" /\ held[c] = attempt'
  BY DEF HoldersInv, Numbered, Current, TypeOK
<1>1. CASE UNCHANGED serverVars
  BY <1>0, <1>1 DEF serverVars, Current
<1>2. ASSUME NEW b \in Badges, Dispatch(b)  PROVE FALSE
  BY <1>0, <1>2 DEF Dispatch
<1>3. CASE Expire \/ Close
  BY <1>0, <1>3 DEF Expire, Close
<1>4. ASSUME NEW m \in wire, ReceiveBeat(m)
      PROVE  \/ Current(held[c]) /\ leaseAge' = leaseAge
             \/ \E k \in wire : /\ k.kind \in {"direct", "core"}
                                /\ k.attempt = held[c] /\ leaseAge' = 0
  <2>1. /\ m.kind \in {"direct", "core"} /\ UNCHANGED <<attempt, lease>>
        /\ leaseAge' = IF Current(m.attempt) THEN 0 ELSE leaseAge
    BY <1>4 DEF ReceiveBeat
  <2> QED  BY <1>0, <2>1 DEF Current
<1>5. ASSUME NEW m \in wire, ReceiveReport(m)
      PROVE  Current(held[c]) /\ leaseAge' = leaseAge
  BY <1>0, <1>5 DEF ReceiveReport, Current
<1> QED
  BY <1>1, <1>2, <1>3, <1>4, <1>5
     DEF Next, Server, Badge, vars, Lose, StartCall, Acknowledged, Missed, Stopped, CoreDone,
         CoreResumes, Accept, Refuse, OfferLost, ChooseAnswer, Panic, GiveUp, LetGo,
         FeedbackEnds, BlackoutEnds, RefusalEnds, Report, Reboot

LEMMA BlackoutKept ==
    ASSUME TypeOK, HoldersInv, BeatsInv, DarkInv, [Next]_vars, ~Tick, NEW c \in Badges
    PROVE  InBlackout(c)'
<1> SUFFICES ASSUME phase'[c] = "blackout"  PROVE InBlackout(c)'
  BY DEF InBlackout
<1>0. /\ phase \in [Badges -> Phases] /\ since \in [Badges -> Nat] /\ leaseAge' \in Nat
      /\ since[c] \in Nat
  BY TypesKept DEF TypeOK
<1>1. CASE phase[c] = "blackout"
  <2>1. Stays(c)
    <3>1. ~Moves(c)
      BY <1>0, <1>1 DEF Moves, Dispatch, Accept, Refuse, ChooseAnswer, Panic, GiveUp,
                FeedbackEnds, BlackoutEnds, RefusalEnds, Report, MayChoose, Enter
    <3> QED  BY <3>1, WhereItGoes
  <2>2. held'[c] = held[c] /\ since'[c] = since[c]
    BY <2>1 DEF Stays
  <2>3. InBlackout(c)
    BY DEF DarkInv
  <2>4. ~StartCall(c)
    BY <1>1 DEF StartCall, BeatsInv, Beats, Beating
  <2>5. core'[c].queued => core[c].queued
    <3>0. core \in [Badges -> CoreTypes]
      BY RequestTypes
    <3>1. CASE Same(c)
      BY <3>1 DEF Same, SameCore
    <3>2. ~Release(c) /\ ~Dispatch(c) /\ ~Report(c)
      BY <1>0, <1>1 DEF Release, Dispatch, Report
    <3>3. CASE CoreDone(c)
      BY <3>0, <3>3 DEF CoreDone, CoreTypes
    <3>4. CASE CoreResumes(c)
      <4>1. core'[c] \in {NoCore, [NoCore EXCEPT !.state = "sent"]}
        BY <3>0, <3>4 DEF CoreResumes
      <4> QED  BY <4>1 DEF NoCore
    <3>5. CASE UNCHANGED core
      BY <3>5
    <3> QED
      BY <2>4, <3>1, <3>2, <3>3, <3>4, <3>5, WhoActs
         DEF Acts, Acknowledged, Missed, Stopped, Accept, Refuse, ChooseAnswer, Panic, GiveUp,
             FeedbackEnds, BlackoutEnds, RefusalEnds
  <2>6. ASSUME NEW m \in wire', m.kind \in {"direct", "core"}, m.attempt = held[c]
        PROVE  since[c] <= m.age
    <3>1. CASE m \in wire
      BY <1>1, <2>3, <2>6, <3>1 DEF InBlackout
    <3>2. CASE NewMessage(m)
      <4>1. PICK b \in Badges : /\ m.attempt = held[b] /\ m.age = 0
                                /\ StartCall(b) \/ (CoreResumes(b) /\ core[b].queued)
        BY <2>6, <3>2 DEF NewMessage
      <4>2. phase[b] # "idle"
        BY <4>1 DEF StartCall, CoreResumes, BeatsInv, Beats, Beating
      <4>3. b = c
        BY <1>1, <2>6, <4>1, <4>2 DEF HoldersInv, Apart
      <4> QED  BY <1>0, <1>1, <2>3, <2>4, <4>1, <4>3 DEF InBlackout
    <3> QED  BY <3>1, <3>2, MessagesKept
  <2>7. Current(held[c])' => since[c] <= leaseAge' + Latency
    <3> SUFFICES ASSUME Current(held[c])'  PROVE since[c] <= leaseAge' + Latency
      OBVIOUS
    <3>1. CASE Current(held[c]) /\ leaseAge' = leaseAge
      BY <1>1, <2>3, <3>1 DEF InBlackout
    <3>2. ASSUME NEW m \in wire, m.kind \in {"direct", "core"}, m.attempt = held[c],
                 leaseAge' = 0
          PROVE  since[c] <= leaseAge' + Latency
      <4>1. since[c] <= m.age /\ m.age <= Latency /\ m.age \in Nat
        BY <1>1, <2>3, <3>2 DEF InBlackout, DarkInv, WireInv, TypeOK, Messages
      <4> QED  BY <1>0, <3>2, <4>1
    <3> QED  BY <1>1, <2>2, <3>1, <3>2, LeaseRenewed
  <2> QED  BY <2>2, <2>3, <2>5, <2>6, <2>7, <1>1 DEF InBlackout, Current
<1>2. CASE phase[c] # "blackout"
  <2>1. Panic(c)
    <3>1. ~Stays(c)
      BY <1>2 DEF Stays
    <3>2. CASE Moves(c) /\ ~Panic(c)
      BY <1>0, <3>2 DEF Moves, Dispatch, Accept, Refuse, ChooseAnswer, GiveUp, FeedbackEnds,
                BlackoutEnds, RefusalEnds, Report, Enter
    <3> QED  BY <3>1, <3>2, WhereItGoes
  <2>2. since'[c] = 0 /\ wire' = wire
    BY <1>0, <2>1 DEF Panic, Enter
  <2>3. \A m \in wire : m.age \in Nat
    BY DEF TypeOK, Messages
  <2>4. Current(held[c])' => since'[c] <= leaseAge' + Latency
    BY <1>0, <2>2
  <2>5. \A m \in wire' : since'[c] <= m.age
    BY <2>2, <2>3
  <2> QED  BY <1>0, <2>2, <2>4, <2>5 DEF InBlackout
<1> QED  BY <1>1, <1>2

LEMMA BlackoutAges ==
    ASSUME TypeOK, BeatsInv, DarkInv, Tick, NEW c \in Badges
    PROVE  InBlackout(c)'
<1> SUFFICES ASSUME phase'[c] = "blackout"  PROVE InBlackout(c)'
  BY DEF InBlackout
<1>0. /\ phase[c] = "blackout" /\ held' = held /\ since'[c] = since[c] + 1
      /\ core'[c].queued = core[c].queued /\ since[c] \in Nat
  BY WhoAges DEF TypeOK
<1>1. ~core'[c].queued
  BY <1>0, BeatsAge
<1>2. InBlackout(c)
  BY DEF DarkInv
<1>3. ASSUME NEW m \in wire', m.kind \in {"direct", "core"}, m.attempt = held[c]
      PROVE  since'[c] <= m.age
  <2>1. PICK k \in wire : m = [k EXCEPT !.age = @ + 1]
    BY DEF Tick
  <2>2. k.kind = m.kind /\ k.attempt = m.attempt /\ m.age = k.age + 1 /\ k.age \in Nat
    BY <2>1 DEF TypeOK, Messages
  <2>3. since[c] <= k.age
    BY <1>0, <1>2, <1>3, <2>2 DEF InBlackout
  <2> QED  BY <1>0, <2>2, <2>3
<1>4. Current(held[c])' => since'[c] <= leaseAge' + Latency
  <2> SUFFICES ASSUME Current(held[c])'  PROVE since'[c] <= leaseAge' + Latency
    OBVIOUS
  <2>1. Current(held[c]) /\ leaseAge' = leaseAge + 1 /\ leaseAge \in Nat
    BY <1>0 DEF Tick, Current, Older, TypeOK
  <2>2. since[c] <= leaseAge + Latency
    BY <1>0, <1>2, <2>1 DEF InBlackout
  <2> QED  BY <1>0, <2>1, <2>2
<1> QED  BY <1>0, <1>1, <1>3, <1>4 DEF InBlackout

\* The blackout outlasts the server's timeout and the last heartbeat's way.
RoomForCrash == Latency < Interval /\ Timeout + Latency < Blackout

\* A deliberate crash is ended by the heartbeat timeout: when the blackout is
\* over the attempt is not the badge's any more, whatever heartbeats were under
\* way at the crash, for every such choice of the times (BADGE_CRASH_BLACKOUT_MS).
THEOREM CrashIsTimedOut == RoomForCrash => (Spec => CrashLosesQuestion)
<1> SUFFICES ASSUME RoomForCrash  PROVE Spec => CrashLosesQuestion
  OBVIOUS
<1> DEFINE CrashInv == TypeOK /\ HoldersInv /\ BeatsInv /\ DarkInv
<1>1. Init => CrashInv
  <2>1. Init => BeatsInv
    BY DEF Init, BeatsInv, CoreInv, Beats, Beating, NoCore, NoCall
  <2>2. Init => DarkInv
    BY DEF Init, DarkInv, LeaseInv, WireInv, InBlackout
  <2> QED  BY <2>1, <2>2, TypesInitially, HoldersInitially
<1>2. CrashInv /\ [Next]_vars => CrashInv'
  <2> SUFFICES ASSUME CrashInv, [Next]_vars  PROVE CrashInv'
    OBVIOUS
  <2>1. TypeOK' /\ HoldersInv' /\ BeatsInv'
    BY TypesKept, HoldersKept, BeatsInvKept DEF RoomForCrash
  <2>2. LeaseInv' /\ WireInv'
    BY LeaseKept, WireKept DEF DarkInv
  <2>3. \A c \in Badges : InBlackout(c)'
    BY BlackoutKept, BlackoutAges
  <2> QED  BY <2>1, <2>2, <2>3 DEF DarkInv
<1>3. CrashInv => \A b \in Badges : BlackoutEnds(b) => ~Current(held[b])
  <2> SUFFICES ASSUME CrashInv, NEW b \in Badges, BlackoutEnds(b), Current(held[b])
               PROVE  FALSE
    OBVIOUS
  <2>1. since[b] >= Blackout /\ since[b] <= leaseAge + Latency
    BY DEF BlackoutEnds, DarkInv, InBlackout
  <2>2. leaseAge <= Timeout /\ leaseAge \in Nat /\ since[b] \in Nat
    BY DEF DarkInv, LeaseInv, Current, TypeOK
  <2> QED  BY <2>1, <2>2 DEF RoomForCrash
<1> QED  BY <1>1, <1>2, <1>3, PTL DEF Spec, CrashLosesQuestion
=============================================================================
