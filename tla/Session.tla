------------------------------- MODULE Session -------------------------------
(***************************************************************************)
(* What a badge remembers of the round it plays: firmware/src/session.rs.   *)
(*                                                                         *)
(* Every badge has a copy in memory and one in flash (NVS).  A change is    *)
(* written to flash first and to memory after it.  Losing power between     *)
(* the two is the same as losing it after both, since memory goes anyway,   *)
(* so one step does both.  A write that fails leaves memory as it was and   *)
(* flash either way.                                                       *)
(***************************************************************************)
EXTENDS Integers

CONSTANTS
    Badges,
    Questions

\* Game numbers stand for game IDs; 0 is the empty string.
VARIABLES memory, flash    \* badge -> PersistedSession

sessionVars == <<memory, flash>>

\* PersistedSession::default
NoSession == [game |-> 0, deadline |-> 0, abandoned |-> {}]

SessionInit ==
    /\ memory = [b \in Badges |-> NoSession]
    /\ flash = [b \in Badges |-> NoSession]

\* Faulty variant: a later deadline starts the session afresh.
BegunAfresh(session, game, deadline) ==
    IF session.game # game \/ session.deadline < deadline
    THEN [game |-> game, deadline |-> deadline, abandoned |-> {}]
    ELSE session

\* The session after begin_game.  Only another game forgets the questions.
Begun(session, game, deadline) ==
    IF session.game # game
    THEN [game |-> game, deadline |-> deadline, abandoned |-> {}]
    ELSE IF session.deadline < deadline
         THEN [session EXCEPT !.deadline = deadline]
         ELSE session

\* The session after abandon.
Abandoned(session, game, question) ==
    IF session.game = game
    THEN [session EXCEPT !.abandoned = @ \cup {question}]
    ELSE session

IsAbandoned(b, game, question) ==
    memory[b].game = game /\ question \in memory[b].abandoned

\* save, then the assignment, where there is a change to write.
Save(b, session) ==
    IF session = memory[b]
    THEN UNCHANGED sessionVars
    ELSE /\ memory' = [memory EXCEPT ![b] = session]
         /\ flash' = [flash EXCEPT ![b] = session]

\* Nothing to write cannot fail.
SaveFails(b, session) ==
    /\ session # memory[b]
    /\ \/ UNCHANGED flash
       \/ flash' = [flash EXCEPT ![b] = session]
    /\ UNCHANGED memory

\* SessionStore::new after a restart.
Load(b) ==
    /\ memory' = [memory EXCEPT ![b] = flash[b]]
    /\ UNCHANGED flash
=============================================================================
