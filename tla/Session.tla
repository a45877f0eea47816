------------------------------- MODULE Session -------------------------------
(***************************************************************************)
(* The SessionManager of internal/session over the store of                *)
(* internal/persistence: the room's lifecycle, and what a process that may *)
(* crash at any instant leaves on disk and restores at the next boot.      *)
(*                                                                         *)
(* Every operation runs under session.mu, so operations never interleave;  *)
(* but one that persists writes to disk twice (SaveSnapshot, then          *)
(* SaveResultAndClearActive) and the process may die before, between and   *)
(* after the writes.  Such an operation leaves a `job` that the actions    *)
(* WriteSnapshot and WriteResult finish; until then the mutex is taken.    *)
(*                                                                         *)
(* The engine is seen as the session sees it: its game, whether a game is  *)
(* being played or has ended, how many persisted transitions it has made,  *)
(* how many submissions came after the last of them (a night target or a   *)
(* ballot is not persisted), and whether an end is scheduled.  GameEngine  *)
(* has the rest.  "NONE" is Go's empty string.                             *)
(***************************************************************************)
EXTENDS Integers, FiniteSets

CONSTANTS
    Names,                \* nicknames players may join with
    MinPlayers,           \* SessionOpts.MinPlayers
    MaxLobbySize,         \* SessionOpts.MaxLobbySize
    SnapshotMayFail,      \* may SaveSnapshot fail?
    ResultMayFail,        \* may SaveResultAndClearActive fail?
    LoadMayFail,          \* may the stored snapshot be unreadable?
    MaxGames, MaxIDs,     \* bounds: game IDs, player IDs
    MaxSteps, MaxSubs,    \* bounds: transitions per game, submissions per step
    MaxRuns               \* bound: boots

ASSUME SessionAssumption ==
    /\ MinPlayers \in Nat \ {0} /\ MaxLobbySize \in Nat
    /\ {SnapshotMayFail, ResultMayFail, LoadMayFail} \subseteq BOOLEAN
    /\ {MaxGames, MaxIDs, MaxSteps, MaxSubs, MaxRuns} \subseteq Nat

VARIABLES
    up,         \* is the process running?
    runs,       \* how many times it was booted
    storeOpen,  \* is the SQLite handle usable?
    seat,       \* hostAuthority: is the GM seat taken?
    sess,       \* the Session value: game, host, members, started, opened
    connected,  \* IDs of the members with Connected = true
    eng,        \* the engine's State
    job,        \* the rest of the persistAndDispatch in progress
    active,     \* table active_snapshot: at most one row
    results,    \* table game_results
    unsaved,    \* did the last SaveSnapshot of this process fail?
    nextGame, nextID,   \* the fresh game and player IDs (a player's token is
                        \* as unique as the ID it belongs to: one number)
    ended,      \* games whose GameEnded was dispatched to the clients
    closed      \* IDs whose tokens a HostCloseRoom made invalid

volatile == <<seat, sess, connected, eng, job>>
disk == <<active, results, unsaved>>
vars == <<up, runs, storeOpen, volatile, disk, nextGame, nextID, ended, closed>>

NoHost == 0
NoGame == 0
EmptySession == [game |-> NoGame, host |-> NoHost, members |-> {},
                 started |-> FALSE, opened |-> FALSE]
ZeroState == [game |-> NoGame, phase |-> "NONE", step |-> 0, subs |-> 0,
              pending |-> FALSE, reason |-> "NONE"]
LobbyState == [ZeroState EXCEPT !.phase = "LOBBY"]
NoSnapshot == [game |-> NoGame, state |-> ZeroState, members |-> {}, host |-> NoHost]
Idle == [stage |-> "IDLE", state |-> ZeroState, reason |-> "NONE"]

IDs(members) == {m.id : m \in members}

-----------------------------------------------------------------------------
(* The lobby *)

Free == up /\ job = Idle   \* session.mu can be taken

CreateSession(name) ==
    /\ Free
    /\ ~sess.started /\ sess.members = {}
    /\ nextGame <= MaxGames /\ nextID <= MaxIDs
    /\ sess' = [sess EXCEPT !.game = nextGame, !.host = nextID,
                            !.members = {[name |-> name, id |-> nextID]}]
    /\ connected' = connected \cup {nextID}
    /\ nextGame' = nextGame + 1 /\ nextID' = nextID + 1
    /\ UNCHANGED <<up, runs, storeOpen, seat, eng, job, disk, ended, closed>>

OpenRoom ==
    /\ Free /\ seat
    /\ ~sess.started /\ sess.members = {}
    /\ nextGame <= MaxGames
    /\ sess' = [sess EXCEPT !.game = nextGame, !.host = NoHost, !.opened = TRUE]
    /\ nextGame' = nextGame + 1
    /\ UNCHANGED <<up, runs, storeOpen, seat, connected, eng, job, disk, nextID,
                   ended, closed>>

JoinPlayer(name) ==
    /\ Free
    /\ ~sess.started
    /\ sess.members # {} \/ sess.opened
    /\ Cardinality(sess.members) < MaxLobbySize
    /\ \A m \in sess.members : m.name # name
    /\ nextID <= MaxIDs
    /\ sess' = [sess EXCEPT !.members = @ \cup {[name |-> name, id |-> nextID]}]
    /\ connected' = connected \cup {nextID}
    /\ nextID' = nextID + 1
    /\ UNCHANGED <<up, runs, storeOpen, seat, eng, job, disk, nextGame, ended,
                   closed>>

ResumePlayer(id) ==
    /\ Free
    /\ id \in IDs(sess.members)
    /\ connected' = connected \cup {id}
    /\ UNCHANGED <<up, runs, storeOpen, seat, sess, eng, job, disk, nextGame,
                   nextID, ended, closed>>

ClaimHost ==
    /\ up /\ ~seat
    /\ seat' = TRUE
    /\ UNCHANGED <<up, runs, storeOpen, sess, connected, eng, job, disk,
                   nextGame, nextID, ended, closed>>

ReleaseHost ==
    /\ up /\ seat
    /\ seat' = FALSE
    /\ UNCHANGED <<up, runs, storeOpen, sess, connected, eng, job, disk,
                   nextGame, nextID, ended, closed>>

-----------------------------------------------------------------------------
(* The game, and persistAndDispatch *)

\* Mutant: shouldPersist knows only of GameEnded.
PersistOnlyEnd(state, reason) ==
    job' = IF reason = "NONE" THEN Idle
           ELSE [stage |-> "SNAPSHOT", state |-> state, reason |-> reason]

\* persistAndDispatch of the state an engine call returned, when its events make
\* shouldPersist true; reason is the GameEnded among them, if any.
Persist(state, reason) ==
    job' = [stage |-> "SNAPSHOT", state |-> state, reason |-> reason]

EngineStart ==
    /\ eng.phase \in {"NONE", "LOBBY"}
    /\ eng' = [game |-> sess.game, phase |-> "PLAY", step |-> 1, subs |-> 0,
               pending |-> FALSE, reason |-> "NONE"]
    /\ sess' = [sess EXCEPT !.started = TRUE]
    /\ Persist(eng', "NONE")
    /\ UNCHANGED <<up, runs, storeOpen, seat, connected, disk, nextGame, nextID,
                   ended, closed>>

StartGame(caller) ==
    /\ Free
    /\ ~sess.started
    /\ caller = sess.host
    /\ Cardinality(sess.members) >= MinPlayers
    /\ EngineStart

HostStartGame ==
    /\ Free /\ seat
    /\ ~sess.started /\ sess.opened
    /\ Cardinality(sess.members) >= MinPlayers
    /\ EngineStart

\* An action or a tick whose events make shouldPersist true; it may schedule
\* the game's end.
EngineTransition ==
    /\ Free /\ sess.started
    /\ eng.phase = "PLAY" /\ eng.step < MaxSteps
    /\ \E pending \in {eng.pending, TRUE} :
          eng' = [eng EXCEPT !.step = @ + 1, !.subs = 0, !.pending = pending]
    /\ Persist(eng', "NONE")
    /\ UNCHANGED <<up, runs, storeOpen, seat, sess, connected, disk, nextGame,
                   nextID, ended, closed>>

\* An action that changes the engine without a persist trigger: a night target,
\* a ballot, a pause.
EngineSubmission ==
    /\ Free /\ sess.started
    /\ eng.phase = "PLAY" /\ eng.subs < MaxSubs
    /\ eng' = [eng EXCEPT !.subs = @ + 1]
    /\ UNCHANGED <<up, runs, storeOpen, seat, sess, connected, job, disk,
                   nextGame, nextID, ended, closed>>

\* The tick that declares the winner.  firePendingEnd clones the State before it
\* calls endGame, so the state handed on is still in play, its end unscheduled.
TickFiresEnd ==
    /\ Free /\ sess.started
    /\ eng.phase = "PLAY" /\ eng.pending
    /\ eng' = [eng EXCEPT !.phase = "END", !.pending = FALSE, !.reason = "WIN"]
    /\ Persist([eng EXCEPT !.pending = FALSE], "WIN")
    /\ UNCHANGED <<up, runs, storeOpen, seat, sess, connected, disk, nextGame,
                   nextID, ended, closed>>

\* ForceEndGame, by SubmitAction or by HostForceTerminate.
ForceEnd ==
    /\ Free /\ sess.started
    /\ eng.phase = "PLAY"
    /\ eng' = [eng EXCEPT !.phase = "END", !.pending = FALSE, !.reason = "FORCED"]
    /\ Persist(eng', "FORCED")
    /\ UNCHANGED <<up, runs, storeOpen, seat, sess, connected, disk, nextGame,
                   nextID, ended, closed>>

SnapshotOf(state) == [game |-> sess.game, state |-> state,
                      members |-> sess.members, host |-> sess.host]

\* SaveSnapshot replaces the one row; a failure is announced and ignored.
SaveSnapshot(state) ==
    \/ storeOpen /\ active' = SnapshotOf(state) /\ unsaved' = FALSE
    \/ (SnapshotMayFail \/ ~storeOpen) /\ active' = active /\ unsaved' = TRUE

WriteSnapshot ==
    /\ up /\ job.stage = "SNAPSHOT"
    /\ SaveSnapshot(job.state)
    /\ job' = IF job.reason = "NONE" THEN Idle ELSE [job EXCEPT !.stage = "RESULT"]
    /\ UNCHANGED <<up, runs, storeOpen, seat, sess, connected, eng, results,
                   nextGame, nextID, ended, closed>>

HasResult(g) == \E r \in results : r.game = g

\* Mutant: the row of the active game is left in place.
StoreResultOnly(g, reason) ==
    /\ storeOpen /\ ~HasResult(g)
    /\ results' = results \cup {[game |-> g, reason |-> reason]}
    /\ UNCHANGED <<active, unsaved>>

\* SaveResultAndClearActive commits: game_results has one row per game_id, and
\* the active row goes in the same transaction.
StoreResult(g, reason) ==
    /\ storeOpen /\ ~HasResult(g)
    /\ results' = results \cup {[game |-> g, reason |-> reason]}
    /\ active' = NoSnapshot /\ unsaved' = unsaved

ResultFails(g) ==
    /\ ResultMayFail \/ ~storeOpen \/ HasResult(g)
    /\ UNCHANGED disk

\* handleGameEnd, then the events reach the clients.
WriteResult ==
    /\ up /\ job.stage = "RESULT"
    /\ \/ /\ StoreResult(sess.game, job.reason)
          /\ sess' = [sess EXCEPT !.started = FALSE]
       \/ /\ ResultFails(sess.game)
          /\ sess' = sess
    /\ job' = Idle
    /\ ended' = ended \cup {sess.game}
    /\ UNCHANGED <<up, runs, storeOpen, seat, connected, eng, nextGame, nextID,
                   closed>>

\* Mutant: the engine keeps the game of the closed room.
EngineKept == eng' = eng

EngineReset == eng' = LobbyState

\* Mutant: the room is emptied, but its game and its host stay on record.
MembersReset ==
    sess' = [sess EXCEPT !.members = {}, !.started = FALSE, !.opened = FALSE]

RoomReset == sess' = EmptySession

HostCloseRoom ==
    /\ Free /\ seat
    /\ EngineReset
    /\ RoomReset
    /\ connected' = {}
    /\ closed' = closed \cup IDs(sess.members)
    /\ UNCHANGED <<up, runs, storeOpen, seat, job, disk, nextGame, nextID, ended>>

-----------------------------------------------------------------------------
(* Shutdown, crash and boot *)

PowerOff ==
    /\ up' = FALSE
    /\ seat' = FALSE /\ sess' = EmptySession /\ connected' = {}
    /\ eng' = ZeroState /\ job' = Idle
    /\ UNCHANGED <<runs, storeOpen, results, nextGame, nextID, ended, closed>>

Crash == up /\ PowerOff /\ UNCHANGED <<active, unsaved>>

\* SessionManager.Close: a game in progress is flushed.
Close ==
    /\ Free
    /\ IF sess.started THEN SaveSnapshot(eng) ELSE UNCHANGED <<active, unsaved>>
    /\ PowerOff

\* A boot that finds no snapshot.
BootEmpty ==
    /\ active = NoSnapshot
    /\ storeOpen' = TRUE /\ unsaved' = FALSE
    /\ UNCHANGED <<sess, eng, active, results>>

\* A boot that cannot read its snapshot: ArchiveCorrupt closes the store and
\* renames the file with everything in it.
BootArchives ==
    /\ active # NoSnapshot /\ LoadMayFail
    /\ storeOpen' = FALSE
    /\ active' = NoSnapshot /\ results' = {} /\ unsaved' = FALSE
    /\ UNCHANGED <<sess, eng>>

IsActivePhase(p) == p \notin {"LOBBY", "END", "NONE"}

\* buildResultFromState: a state without a reason counts as force-ended.
ReasonOf(state) == IF state.reason = "NONE" THEN "FORCED" ELSE state.reason

\* bootRestore: members wait to reconnect, the room is not reopened, and a
\* snapshot of an ended game is finalized.
BootRestores ==
    /\ active # NoSnapshot
    /\ storeOpen' = TRUE /\ unsaved' = FALSE
    /\ eng' = active.state
    /\ sess' = [game |-> active.game, host |-> active.host,
                members |-> active.members, opened |-> FALSE,
                started |-> IsActivePhase(active.state.phase)]
    /\ IF active.state.phase # "END" THEN UNCHANGED <<active, results>>
       ELSE \/ /\ ~HasResult(active.game)
               /\ results' = results \cup {[game |-> active.game,
                                           reason |-> ReasonOf(active.state)]}
               /\ active' = NoSnapshot
            \/ /\ ResultMayFail \/ HasResult(active.game)
               /\ UNCHANGED <<active, results>>

Boot ==
    /\ ~up /\ runs < MaxRuns
    /\ up' = TRUE /\ runs' = runs + 1
    /\ BootEmpty \/ BootArchives \/ BootRestores
    /\ UNCHANGED <<seat, connected, job, nextGame, nextID, ended, closed>>

-----------------------------------------------------------------------------
Init ==
    /\ up = FALSE /\ runs = 0 /\ storeOpen = TRUE
    /\ seat = FALSE /\ sess = EmptySession /\ connected = {}
    /\ eng = ZeroState /\ job = Idle
    /\ active = NoSnapshot /\ results = {} /\ unsaved = FALSE
    /\ nextGame = 1 /\ nextID = 1
    /\ ended = {} /\ closed = {}

Next ==
    \/ \E name \in Names : CreateSession(name) \/ JoinPlayer(name)
    \/ \E id \in 1..MaxIDs : ResumePlayer(id)
    \/ \E caller \in 0..MaxIDs : StartGame(caller)
    \/ OpenRoom \/ ClaimHost \/ ReleaseHost \/ HostStartGame \/ HostCloseRoom
    \/ EngineTransition \/ EngineSubmission \/ TickFiresEnd \/ ForceEnd
    \/ WriteSnapshot \/ WriteResult
    \/ Crash \/ Close \/ Boot

Spec == Init /\ [][Next]_vars

-----------------------------------------------------------------------------
(* Properties *)

States == [game : Nat, phase : {"NONE", "LOBBY", "PLAY", "END"}, step : Nat,
           subs : Nat, pending : BOOLEAN, reason : {"NONE", "WIN", "FORCED"}]
Members == SUBSET [name : Names, id : Nat]

\* Every variable keeps its type, and the HostID, in memory and on disk, is that of
\* a member or empty: over all rooms, restarts and failed writes nobody is left
\* host of a room he is not in.
TypeOK ==
    /\ up \in BOOLEAN /\ storeOpen \in BOOLEAN /\ seat \in BOOLEAN
    /\ unsaved \in BOOLEAN
    /\ runs \in Nat /\ nextGame \in Nat \ {0} /\ nextID \in Nat \ {0}
    /\ sess \in [game : Nat, host : Nat, members : Members,
                  started : BOOLEAN, opened : BOOLEAN]
    /\ connected \subseteq Nat
    /\ eng \in States
    /\ job \in [stage : {"IDLE", "SNAPSHOT", "RESULT"}, state : States,
                 reason : {"NONE", "WIN", "FORCED"}]
    /\ active \in [game : Nat, state : States, members : Members, host : Nat]
    /\ results \subseteq [game : Nat, reason : {"WIN", "FORCED"}]
    /\ ended \subseteq Nat /\ closed \subseteq Nat
    /\ sess.host \in {NoHost} \cup IDs(sess.members)
    /\ active.host \in {NoHost} \cup IDs(active.members)

\* Whatever crashes and failed writes there are, a game whose result is stored is
\* never also the active snapshot, so no boot can replay a finished game, and no
\* game gets two results.
FinishedNotActive ==
    /\ active # NoSnapshot => ~HasResult(active.game)
    /\ \A r, q \in results : r.game = q.game => r = q

\* Whenever the mutex is free, Started tells the truth about the engine: it plays
\* this session's game exactly while Started, but for an ended game whose result
\* could not be stored.
StartedMatchesEngine ==
    Free => IF sess.started
            THEN /\ eng.game = sess.game
                 /\ eng.phase = "PLAY" \/ (eng.phase = "END" /\ ~HasResult(sess.game))
            ELSE eng.phase # "PLAY"

\* A crash while no operation is in progress loses no transition and no player,
\* only submissions since the last transition: the snapshot is the game in play,
\* with its members and its host, unless the disk refused it.
CrashLosesNothing ==
    (Free /\ sess.started /\ eng.phase = "PLAY" /\ ~unsaved) =>
        /\ active = [game |-> sess.game, members |-> sess.members, host |-> sess.host,
                     state |-> [eng EXCEPT !.subs = active.state.subs]]
        /\ active.state.subs <= eng.subs

(* Statements of the code's comments that the code does not keep *)

\* handleGameEnd: if the result cannot be stored, the "next boot's restore path
\* will detect the lingering active snapshot and auto-finalize"; so a game whose
\* end was dispatched to the clients is never played again. By the clock the
\* lingering snapshot is one of a game still in play: when SaveResult has failed,
\* the events have gone out and then the process crashes, the boot plays on.
EndedStaysEnded ==
    (up /\ sess.started /\ eng.phase = "PLAY") => eng.game \notin ended

\* HostCloseRoom: "All player tokens become invalid".
ClosedTokensStayInvalid == IDs(sess.members) \cap closed = {}
==============================================================================
