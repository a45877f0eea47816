---------------------------- MODULE SessionProofs ----------------------------
(***************************************************************************)
(* Theorems about Session for any number of games, players, boots, crashes *)
(* and failed writes.                                                      *)
(***************************************************************************)
EXTENDS Session, TLAPS, FiniteSetTheorems

-----------------------------------------------------------------------------
(* The inductive invariant *)

\* A game that may still start, that runs, or whose last writes are pending has
\* no stored result, and neither has the game of the active snapshot.
OpenGamesHaveNoResult ==
    /\ eng.phase \in {"NONE", "LOBBY"} => ~HasResult(sess.game)
    /\ sess.started => ~HasResult(sess.game)
    /\ active # NoSnapshot => ~HasResult(active.game)

\* Game IDs are fresh: every game the session, the disk or the results know was
\* handed out before, and the zero ID is no game's.
GamesAreFresh ==
    /\ sess.game < nextGame
    /\ active.game < nextGame
    /\ \A r \in results : 0 < r.game /\ r.game < nextGame
    /\ sess.started \/ sess.opened \/ sess.members # {} => sess.game > 0
    /\ active # NoSnapshot => active.game > 0

\* Started agrees with the engine, also while a write is pending.
EngineFollowsSession ==
    IF sess.started
    THEN /\ eng.phase \in {"PLAY", "END"}
         /\ eng.game = sess.game
    ELSE eng.phase # "PLAY" /\ job = Idle

\* A pending write belongs to the running game, and to its end if it carries one.
JobFollowsSession ==
    job # Idle =>
        /\ up /\ sess.started
        /\ job.stage \in {"SNAPSHOT", "RESULT"}
        /\ job.state.phase \in {"PLAY", "END"}
        /\ job.state.game = sess.game
        /\ job.reason = "NONE" => job.stage = "SNAPSHOT" /\ eng.phase = "PLAY"
        /\ job.reason # "NONE" => eng.phase = "END"

\* The active snapshot is of a game that was started.
SnapshotIsOfAGame ==
    active # NoSnapshot => /\ active.state.phase \in {"PLAY", "END"}
                           /\ active.state.game = active.game

Inv == /\ TypeOK
       /\ OpenGamesHaveNoResult
       /\ GamesAreFresh
       /\ EngineFollowsSession
       /\ JobFollowsSession
       /\ SnapshotIsOfAGame
       /\ \A r, q \in results : r.game = q.game => r = q

-----------------------------------------------------------------------------
(* Type correctness *)

Sessions == [game : Nat, host : Nat, members : Members,
             started : BOOLEAN, opened : BOOLEAN]
Jobs == [stage : {"IDLE", "SNAPSHOT", "RESULT"}, state : States,
         reason : {"NONE", "WIN", "FORCED"}]
Snapshots == [game : Nat, state : States, members : Members, host : Nat]

\* The initial values of the records are well typed.
LEMMA ZeroTypes ==
  /\ EmptySession \in Sessions
  /\ ZeroState \in States
  /\ LobbyState \in States
  /\ NoSnapshot \in Snapshots
  /\ Idle \in Jobs
  <1>1. ZeroState \in States
    BY DEF ZeroState, NoGame, States
  <1>2. LobbyState \in States
    BY <1>1 DEF LobbyState, States
  <1>3. {} \in Members
    BY DEF Members
  <1> QED
    BY <1>1, <1>2, <1>3
    DEF EmptySession, Sessions, NoSnapshot, Snapshots, Idle, Jobs, NoGame, NoHost

\* The snapshot of a well-typed session is a snapshot.
LEMMA SnapshotOfType ==
  ASSUME sess \in Sessions, NEW state \in States
  PROVE  SnapshotOf(state) \in Snapshots
  BY DEF SnapshotOf, Snapshots, Sessions

\* SaveSnapshot stores a snapshot or leaves the disk as it was.
LEMMA SaveSnapshotType ==
  ASSUME sess \in Sessions, active \in Snapshots, NEW state \in States,
         SaveSnapshot(state)
  PROVE  active' \in Snapshots
  BY SnapshotOfType DEF SaveSnapshot

\* The types of the values that a session operation changes.
ValueType ==
    /\ sess \in Sessions /\ eng \in States /\ job \in Jobs
    /\ active \in Snapshots
    /\ results \subseteq [game : Nat, reason : {"WIN", "FORCED"}]

\* The rest of TypeOK.
CounterType ==
    /\ up \in BOOLEAN /\ storeOpen \in BOOLEAN /\ seat \in BOOLEAN
    /\ unsaved \in BOOLEAN
    /\ runs \in Nat /\ nextGame \in Nat \ {0} /\ nextID \in Nat \ {0}
    /\ connected \subseteq Nat
    /\ ended \subseteq Nat /\ closed \subseteq Nat

\* A HostID names a member, or nobody.
HostType ==
    /\ sess.host \in {NoHost} \cup IDs(sess.members)
    /\ active.host \in {NoHost} \cup IDs(active.members)

\* TypeOK is the conjunction of its three parts.
LEMMA TypeParts == TypeOK <=> ValueType /\ CounterType /\ HostType
  BY DEF TypeOK, ValueType, CounterType, HostType, Sessions, Jobs, Snapshots

\* The same, of the next state.
LEMMA TypePartsNext == TypeOK' <=> ValueType' /\ CounterType' /\ HostType'
  BY DEF TypeOK, ValueType, CounterType, HostType, Sessions, Jobs, Snapshots

\* Every step keeps the counters in their bounds.
LEMMA CounterStep ==
  ASSUME ValueType, CounterType, [Next]_vars PROVE CounterType'
  <1>1. IDs(sess.members) \subseteq Nat
    BY DEF IDs, ValueType, Sessions, Members
  <1>2. sess.game \in Nat
    BY DEF ValueType, Sessions
  <1> USE <1>1, <1>2 DEF CounterType, volatile, disk
  <1>3. ASSUME NEW name, CreateSession(name) \/ JoinPlayer(name) PROVE CounterType'
    BY <1>3 DEF CreateSession, JoinPlayer
  <1>4. ASSUME NEW id, ResumePlayer(id) PROVE CounterType'
    BY <1>4 DEF ResumePlayer
  <1>5. ASSUME NEW c, StartGame(c) \/ HostStartGame PROVE CounterType'
    BY <1>5 DEF StartGame, HostStartGame, EngineStart
  <1>6. CASE OpenRoom \/ ClaimHost \/ ReleaseHost \/ HostCloseRoom
    <2>1. CASE OpenRoom
      BY <2>1 DEF OpenRoom
    <2>2. CASE ClaimHost \/ ReleaseHost
      BY <2>2 DEF ClaimHost, ReleaseHost
    <2>3. CASE HostCloseRoom
      BY <2>3 DEF HostCloseRoom
    <2> QED
      BY <1>6, <2>1, <2>2, <2>3
  <1>7. CASE EngineTransition \/ EngineSubmission \/ TickFiresEnd \/ ForceEnd
    BY <1>7 DEF EngineTransition, EngineSubmission, TickFiresEnd, ForceEnd
  <1>8. CASE WriteSnapshot \/ WriteResult
    BY <1>8 DEF WriteSnapshot, WriteResult, SaveSnapshot, StoreResult, ResultFails
  <1>9. CASE Crash \/ Close \/ Boot
    <2>1. CASE Crash \/ Close
      BY <2>1 DEF Crash, Close, PowerOff, SaveSnapshot
    <2>2. CASE Boot
      <3>1. storeOpen' \in BOOLEAN /\ unsaved' \in BOOLEAN
        BY <2>2 DEF Boot, BootEmpty, BootArchives, BootRestores
      <3> QED
        BY <2>2, <3>1 DEF Boot
    <2> QED
      BY <1>9, <2>1, <2>2
  <1>10. CASE UNCHANGED vars
    BY <1>10 DEF vars
  <1> QED
    BY <1>3, <1>4, <1>5, <1>6, <1>7, <1>8, <1>9, <1>10 DEF Next

\* Every step keeps the records in their types.
LEMMA ValueStep ==
  ASSUME ValueType, CounterType, JobFollowsSession, [Next]_vars PROVE ValueType'
  <1>0. sess \in Sessions /\ eng \in States /\ job \in Jobs /\ active \in Snapshots
        /\ results \subseteq [game : Nat, reason : {"WIN", "FORCED"}]
        /\ nextGame \in Nat /\ nextID \in Nat
    BY DEF ValueType, CounterType
  <1> USE DEF disk, volatile
  <1>1. ASSUME NEW name \in Names, CreateSession(name) \/ JoinPlayer(name)
        PROVE  ValueType'
    <2>1. sess' \in Sessions
      <3>1. CASE CreateSession(name)
        <4>1. {[name |-> name, id |-> nextID]} \in Members
          BY <1>0 DEF Members
        <4>2. sess' = [game |-> nextGame, host |-> nextID,
                       members |-> {[name |-> name, id |-> nextID]},
                       started |-> sess.started, opened |-> sess.opened]
          BY <1>0, <3>1 DEF CreateSession, Sessions
        <4> QED
          BY <1>0, <4>1, <4>2 DEF Sessions
      <3>2. CASE JoinPlayer(name)
        BY <1>0, <3>2 DEF JoinPlayer, Sessions, Members
      <3> QED
        BY <1>1, <3>1, <3>2
    <2> QED
      BY <1>0, <1>1, <2>1 DEF CreateSession, JoinPlayer, ValueType
  <1>2. ASSUME NEW id, ResumePlayer(id) PROVE ValueType'
    BY <1>0, <1>2 DEF ResumePlayer, ValueType
  <1>3. ASSUME NEW c, StartGame(c) \/ HostStartGame PROVE ValueType'
    <2>1. EngineStart
      BY <1>3 DEF StartGame, HostStartGame
    <2>2. eng' \in States
      BY <1>0, <2>1 DEF EngineStart, States, Sessions
    <2>3. sess' \in Sessions
      BY <1>0, <2>1 DEF EngineStart, Sessions
    <2>4. job' \in Jobs
      BY <2>1, <2>2 DEF EngineStart, Persist, Jobs
    <2> QED
      BY <1>0, <2>1, <2>2, <2>3, <2>4 DEF EngineStart, ValueType
  <1>4. CASE OpenRoom
    <2>1. sess' \in Sessions
      BY <1>0, <1>4 DEF OpenRoom, Sessions, NoHost
    <2> QED
      BY <1>0, <1>4, <2>1 DEF OpenRoom, ValueType
  <1>5. CASE ClaimHost \/ ReleaseHost
    BY <1>0, <1>5 DEF ClaimHost, ReleaseHost, ValueType
  <1>6. CASE HostCloseRoom
    BY <1>0, <1>6, ZeroTypes DEF HostCloseRoom, EngineReset, RoomReset, ValueType
  <1>7. CASE EngineTransition
    <2>1. eng' \in States
      <3>1. PICK pending \in BOOLEAN :
              eng' = [eng EXCEPT !.step = @ + 1, !.subs = 0, !.pending = pending]
        BY <1>0, <1>7 DEF EngineTransition, States
      <3>2. eng' = [game |-> eng.game, phase |-> eng.phase, step |-> eng.step + 1,
                    subs |-> 0, pending |-> pending, reason |-> eng.reason]
        BY <1>0, <3>1 DEF States
      <3> QED
        BY <1>0, <3>2 DEF States
    <2>2. job' \in Jobs
      BY <1>7, <2>1 DEF EngineTransition, Persist, Jobs
    <2> QED
      BY <1>0, <1>7, <2>1, <2>2 DEF EngineTransition, ValueType
  <1>8. CASE EngineSubmission
    <2>1. eng' \in States
      BY <1>0, <1>8 DEF EngineSubmission, States
    <2> QED
      BY <1>0, <1>8, <2>1 DEF EngineSubmission, ValueType
  <1>9. CASE TickFiresEnd
    <2>1. eng' \in States /\ [eng EXCEPT !.pending = FALSE] \in States
      BY <1>0, <1>9 DEF TickFiresEnd, States
    <2>2. job' \in Jobs
      BY <1>9, <2>1 DEF TickFiresEnd, Persist, Jobs
    <2> QED
      BY <1>0, <1>9, <2>1, <2>2 DEF TickFiresEnd, ValueType
  <1>10. CASE ForceEnd
    <2>1. eng' \in States
      BY <1>0, <1>10 DEF ForceEnd, States
    <2>2. job' \in Jobs
      BY <1>10, <2>1 DEF ForceEnd, Persist, Jobs
    <2> QED
      BY <1>0, <1>10, <2>1, <2>2 DEF ForceEnd, ValueType
  <1>11. CASE WriteSnapshot
    <2>1. job.state \in States
      BY <1>0 DEF Jobs
    <2>2. active' \in Snapshots
      BY <1>0, <1>11, <2>1, SaveSnapshotType DEF WriteSnapshot
    <2>3. [job EXCEPT !.stage = "RESULT"] \in Jobs
      BY <1>0 DEF Jobs
    <2> QED
      BY <1>0, <1>11, <2>2, <2>3, ZeroTypes DEF WriteSnapshot, ValueType
  <1>12. CASE WriteResult
    <2>1. sess' \in Sessions
      BY <1>0, <1>12 DEF WriteResult, Sessions
    <2>2. active' \in Snapshots
      BY <1>0, <1>12, ZeroTypes DEF WriteResult, StoreResult, ResultFails
    <2>3. results' \subseteq [game : Nat, reason : {"WIN", "FORCED"}]
      <3>1. CASE ResultFails(sess.game)
        BY <1>0, <3>1 DEF ResultFails
      <3>2. CASE StoreResult(sess.game, job.reason)
        <4>1. job.reason \in {"WIN", "FORCED"}
          BY <1>0, <1>12 DEF WriteResult, JobFollowsSession, Idle, Jobs
        <4> QED
          BY <1>0, <3>2, <4>1 DEF StoreResult, Sessions
      <3> QED
        BY <1>12, <3>1, <3>2 DEF WriteResult
    <2> QED
      BY <1>0, <1>12, <2>1, <2>2, <2>3, ZeroTypes DEF WriteResult, ValueType
  <1>13. CASE Crash
    BY <1>0, <1>13, ZeroTypes DEF Crash, PowerOff, ValueType
  <1>14. CASE Close
    <2>1. active' \in Snapshots
      BY <1>0, <1>14, SaveSnapshotType DEF Close
    <2> QED
      BY <1>0, <1>14, <2>1, ZeroTypes DEF Close, PowerOff, ValueType
  <1>15. CASE Boot
    <2>1. CASE BootEmpty
      BY <1>0, <1>15, <2>1 DEF Boot, BootEmpty, ValueType
    <2>2. CASE BootArchives
      BY <1>0, <1>15, <2>2, ZeroTypes DEF Boot, BootArchives, ValueType
    <2>3. CASE BootRestores
      <3>1. active.state \in States /\ active.game \in Nat
        BY <1>0 DEF Snapshots
      <3>2. eng' \in States
        BY <2>3, <3>1 DEF BootRestores
      <3>3. sess' \in Sessions
        BY <1>0, <2>3 DEF BootRestores, Sessions, Snapshots, IsActivePhase
      <3>4. active' \in Snapshots
        BY <1>0, <2>3, ZeroTypes DEF BootRestores
      <3>5. ReasonOf(active.state) \in {"WIN", "FORCED"}
        BY <3>1 DEF ReasonOf, States
      <3>6. results' \subseteq [game : Nat, reason : {"WIN", "FORCED"}]
        BY <1>0, <2>3, <3>1, <3>5 DEF BootRestores
      <3> QED
        BY <1>0, <1>15, <3>2, <3>3, <3>4, <3>6 DEF Boot, ValueType
    <2> QED
      BY <1>15, <2>1, <2>2, <2>3 DEF Boot
  <1>16. CASE UNCHANGED vars
    BY <1>0, <1>16 DEF vars, ValueType
  <1> QED
    BY <1>1, <1>2, <1>3, <1>4, <1>5, <1>6, <1>7, <1>8, <1>9, <1>10, <1>11, <1>12,
       <1>13, <1>14, <1>15, <1>16 DEF Next

\* Every step keeps the host a member of the room: who joins stays, and the room
\* is emptied together with its host.
LEMMA HostStep ==
  ASSUME ValueType, HostType, [Next]_vars PROVE HostType'
  <1>0. sess \in Sessions /\ active \in Snapshots
    BY DEF ValueType
  <1>1. EmptySession.host = NoHost /\ NoSnapshot.host = NoHost
    BY DEF EmptySession, NoSnapshot
  <1> USE DEF disk, volatile
  <1>a. ASSUME sess'.host = sess.host, sess.members \subseteq sess'.members,
               active' = active
        PROVE  HostType'
    BY <1>a DEF HostType, IDs
  <1>b. ASSUME NEW state, SaveSnapshot(state)
        PROVE  (active.host \in {NoHost} \cup IDs(active.members))'
    BY <1>b DEF SaveSnapshot, SnapshotOf, HostType, IDs
  <1>2. ASSUME NEW name, CreateSession(name) PROVE HostType'
    <2>1. /\ sess'.host = nextID
          /\ sess'.members = {[name |-> name, id |-> nextID]}
          /\ active' = active
      BY <1>0, <1>2 DEF CreateSession, Sessions
    <2> QED
      BY <2>1 DEF HostType, IDs
  <1>3. ASSUME NEW name, JoinPlayer(name) PROVE HostType'
    BY <1>0, <1>3, <1>a DEF JoinPlayer, Sessions
  <1>4. ASSUME NEW id, ResumePlayer(id) PROVE HostType'
    BY <1>4, <1>a DEF ResumePlayer
  <1>5. ASSUME NEW c, StartGame(c) \/ HostStartGame PROVE HostType'
    BY <1>0, <1>5, <1>a DEF StartGame, HostStartGame, EngineStart, Sessions
  <1>6. CASE OpenRoom
    BY <1>0, <1>6 DEF OpenRoom, Sessions, HostType
  <1>7. CASE ClaimHost \/ ReleaseHost
    BY <1>7, <1>a DEF ClaimHost, ReleaseHost
  <1>8. CASE HostCloseRoom
    BY <1>1, <1>8 DEF HostCloseRoom, RoomReset, HostType
  <1>9. CASE EngineTransition \/ EngineSubmission \/ TickFiresEnd \/ ForceEnd
    BY <1>9, <1>a DEF EngineTransition, EngineSubmission, TickFiresEnd, ForceEnd
  <1>10. CASE WriteSnapshot
    BY <1>10, <1>b DEF WriteSnapshot, HostType
  <1>11. CASE WriteResult
    <2>1. sess'.host = sess.host /\ sess'.members = sess.members
      BY <1>0, <1>11 DEF WriteResult, Sessions
    <2>2. active' \in {active, NoSnapshot}
      BY <1>11 DEF WriteResult, StoreResult, ResultFails
    <2> QED
      BY <1>1, <2>1, <2>2 DEF HostType, IDs
  <1>12. CASE Crash
    BY <1>1, <1>12 DEF Crash, PowerOff, HostType
  <1>13. CASE Close
    <2>1. sess' = EmptySession
      BY <1>13 DEF Close, PowerOff
    <2>2. (active.host \in {NoHost} \cup IDs(active.members))'
      BY <1>13, <1>b DEF Close, HostType
    <2> QED
      BY <1>1, <2>1, <2>2 DEF HostType
  <1>14. CASE Boot
    <2>1. CASE BootEmpty
      BY <2>1, <1>a DEF BootEmpty
    <2>2. CASE BootArchives
      BY <1>1, <2>2 DEF BootArchives, HostType
    <2>3. CASE BootRestores
      <3>1. sess'.host = active.host /\ sess'.members = active.members
        BY <2>3 DEF BootRestores
      <3>2. active' \in {active, NoSnapshot}
        BY <2>3 DEF BootRestores
      <3> QED
        BY <1>1, <3>1, <3>2 DEF HostType, IDs
    <2> QED
      BY <1>14, <2>1, <2>2, <2>3 DEF Boot
  <1>15. CASE UNCHANGED vars
    BY <1>15, <1>a DEF vars
  <1> QED
    BY <1>2, <1>3, <1>4, <1>5, <1>6, <1>7, <1>8, <1>9, <1>10, <1>11, <1>12,
       <1>13, <1>14, <1>15 DEF Next

\* TypeOK is inductive.
LEMMA TypeStep ==
  TypeOK /\ JobFollowsSession /\ [Next]_vars => TypeOK'
  BY TypeParts, TypePartsNext, CounterStep, ValueStep, HostStep

-----------------------------------------------------------------------------
(* The invariant is inductive *)

\* The parts of Inv besides the types, as one step hands them on.
Parts ==
    /\ OpenGamesHaveNoResult
    /\ GamesAreFresh
    /\ EngineFollowsSession
    /\ JobFollowsSession
    /\ SnapshotIsOfAGame
    /\ \A r, q \in results : r.game = q.game => r = q

\* Inv is TypeOK and the relations between session, engine and disk.
LEMMA InvParts == Inv <=> TypeOK /\ Parts
  BY DEF Inv, Parts

\* The empty process and the empty disk satisfy Inv.
LEMMA InitInv == Init => Inv
  <1> SUFFICES ASSUME Init PROVE Inv
    OBVIOUS
  <1>1. ValueType
    BY ZeroTypes DEF Init, ValueType
  <1>2. CounterType
    <2>1. up \in BOOLEAN /\ storeOpen \in BOOLEAN /\ seat \in BOOLEAN
          /\ unsaved \in BOOLEAN
      BY DEF Init
    <2>2. runs \in Nat /\ nextGame \in Nat \ {0} /\ nextID \in Nat \ {0}
      BY DEF Init
    <2>3. connected \subseteq Nat /\ ended \subseteq Nat /\ closed \subseteq Nat
      BY DEF Init
    <2> QED
      BY <2>1, <2>2, <2>3 DEF CounterType
  <1>3. TypeOK
    <2>1. HostType
      BY DEF Init, HostType, EmptySession, NoSnapshot
    <2> QED
      BY <1>1, <1>2, <2>1, TypeParts
  <1>4. Parts
    <2>1. /\ ~EmptySession.started /\ ~EmptySession.opened
          /\ EmptySession.members = {} /\ EmptySession.game = 0
          /\ NoSnapshot.game = 0 /\ ZeroState.phase = "NONE"
      BY DEF EmptySession, NoSnapshot, ZeroState, NoGame
    <2> QED
      BY <2>1
      DEF Init, Parts, OpenGamesHaveNoResult, GamesAreFresh, EngineFollowsSession,
          JobFollowsSession, SnapshotIsOfAGame, HasResult
  <1> QED
    BY <1>3, <1>4, InvParts

\* The lobby's operations keep the relations.
LEMMA LobbyParts ==
  ASSUME ValueType, CounterType, Parts,
         NEW name, NEW id,
         \/ CreateSession(name) \/ JoinPlayer(name) \/ ResumePlayer(id)
         \/ OpenRoom \/ ClaimHost \/ ReleaseHost
  PROVE  Parts'
  <1> USE DEF Parts, OpenGamesHaveNoResult, GamesAreFresh, EngineFollowsSession,
              JobFollowsSession, SnapshotIsOfAGame, HasResult, disk
  <1>1. /\ UNCHANGED <<eng, job, active, results, up>>
        /\ sess'.started = sess.started
        /\ \/ /\ UNCHANGED nextGame /\ sess'.game = sess.game
              /\ sess'.opened = sess.opened
              /\ sess'.members # {} => sess.members # {} \/ sess.opened
           \/ /\ nextGame' = nextGame + 1 /\ sess'.game = nextGame
              /\ ~sess.started
    <2>1. CASE CreateSession(name)
      BY <2>1 DEF CreateSession, ValueType, Sessions
    <2>2. CASE JoinPlayer(name)
      BY <2>2 DEF JoinPlayer, ValueType, Sessions
    <2>3. CASE OpenRoom
      BY <2>3 DEF OpenRoom, ValueType, Sessions
    <2>4. CASE ResumePlayer(id) \/ ClaimHost \/ ReleaseHost
      BY <2>4 DEF ResumePlayer, ClaimHost, ReleaseHost
    <2> QED
      BY <2>1, <2>2, <2>3, <2>4
  <1>2. nextGame \in Nat /\ sess.game \in Nat /\ active.game \in Nat
        /\ \A r \in results : r.game \in Nat
    BY DEF ValueType, CounterType, Sessions, Snapshots
  <1>3. OpenGamesHaveNoResult'
    BY <1>1, <1>2
  <1>4. GamesAreFresh'
    BY <1>1, <1>2
  <1>5. EngineFollowsSession'
    BY <1>1
  <1>6. JobFollowsSession'
    BY <1>1
  <1> QED
    BY <1>1, <1>3, <1>4, <1>5, <1>6

\* Starting and playing a game keep the relations.
LEMMA GameParts ==
  ASSUME ValueType, CounterType, Parts, NEW c,
         \/ StartGame(c) \/ HostStartGame \/ EngineTransition \/ EngineSubmission
         \/ TickFiresEnd \/ ForceEnd
  PROVE  Parts'
  <1> USE DEF Parts, disk
  <1>0. sess \in Sessions /\ eng \in States
    BY DEF ValueType
  <1> DEFINE Effect ==
        /\ sess.game > 0
        /\ UNCHANGED <<active, results, up, nextGame>>
        /\ up
        /\ sess'.started /\ sess'.game = sess.game
        /\ ~HasResult(sess.game)
        /\ eng'.game = sess.game /\ eng'.phase \in {"PLAY", "END"}
        /\ \/ job' = Idle
           \/ /\ job'.stage = "SNAPSHOT" /\ job'.state.game = sess.game
              /\ job'.state.phase \in {"PLAY", "END"}
              /\ \/ job'.reason = "NONE" /\ eng'.phase = "PLAY"
                 \/ job'.reason # "NONE" /\ eng'.phase = "END"
  <1>1. Effect
    <2>1. ASSUME Free, ~sess.started, Cardinality(sess.members) >= MinPlayers,
                 EngineStart
          PROVE  Effect
      <3>1. sess.members # {}
        BY <2>1, SessionAssumption, FS_EmptySet DEF SessionAssumption
      <3> QED
        BY <1>0, <2>1, <3>1
        DEF EngineStart, Persist, Free, OpenGamesHaveNoResult, Sessions,
            GamesAreFresh
    <2>2. CASE EngineTransition
      <3>1. eng'.game = eng.game /\ eng'.phase = eng.phase
        BY <1>0, <2>2 DEF EngineTransition, States
      <3> QED
        BY <2>2, <3>1
        DEF EngineTransition, Persist, Free, OpenGamesHaveNoResult,
            EngineFollowsSession, GamesAreFresh
    <2>3. CASE EngineSubmission
      BY <1>0, <2>3
      DEF EngineSubmission, Free, OpenGamesHaveNoResult, EngineFollowsSession,
          GamesAreFresh, States
    <2>4. CASE TickFiresEnd
      BY <1>0, <2>4
      DEF TickFiresEnd, Persist, Free, OpenGamesHaveNoResult, EngineFollowsSession,
          GamesAreFresh, States
    <2>5. CASE ForceEnd
      BY <1>0, <2>5
      DEF ForceEnd, Persist, Free, OpenGamesHaveNoResult, EngineFollowsSession,
          GamesAreFresh, States
    <2> QED
      BY <2>1, <2>2, <2>3, <2>4, <2>5 DEF StartGame, HostStartGame
  <1>2. OpenGamesHaveNoResult'
    BY <1>1 DEF OpenGamesHaveNoResult, HasResult
  <1>3. GamesAreFresh' /\ SnapshotIsOfAGame'
    BY <1>0, <1>1 DEF GamesAreFresh, SnapshotIsOfAGame
  <1>4. EngineFollowsSession' /\ JobFollowsSession'
    BY <1>1 DEF EngineFollowsSession, JobFollowsSession
  <1> QED
    BY <1>1, <1>2, <1>3, <1>4

\* The two writes of a transition, failing or not, keep the relations.
LEMMA WriteParts ==
  ASSUME ValueType, CounterType, Parts, WriteSnapshot \/ WriteResult
  PROVE  Parts'
  <1> USE DEF Parts, disk
  <1>0. job \in Jobs /\ sess \in Sessions /\ sess.game \in Nat
    BY DEF ValueType, Sessions
  <1>1. job # Idle
    BY DEF WriteSnapshot, WriteResult, Idle
  <1>2. /\ up /\ sess.started
        /\ job.state.phase \in {"PLAY", "END"} /\ job.state.game = sess.game
        /\ job.reason = "NONE" => job.stage = "SNAPSHOT" /\ eng.phase = "PLAY"
        /\ job.reason # "NONE" => eng.phase = "END"
    BY <1>1 DEF JobFollowsSession
  <1>3. eng.phase \in {"PLAY", "END"} /\ eng.game = sess.game /\ ~HasResult(sess.game)
    BY <1>2 DEF EngineFollowsSession, OpenGamesHaveNoResult
  <1>4. CASE WriteSnapshot
    <2>1. UNCHANGED <<up, sess, eng, results, nextGame>>
      BY <1>4 DEF WriteSnapshot
    <2>2. active' = active \/ (/\ active'.game = sess.game
                               /\ active'.state.phase \in {"PLAY", "END"}
                               /\ active'.state.game = sess.game)
      BY <1>2, <1>4 DEF WriteSnapshot, SaveSnapshot, SnapshotOf
    <2>3. OpenGamesHaveNoResult'
      BY <1>3, <2>1, <2>2 DEF OpenGamesHaveNoResult, HasResult
    <2>4. GamesAreFresh' /\ SnapshotIsOfAGame'
      <3>1. sess.game > 0 /\ sess.game < nextGame
        BY <1>2 DEF GamesAreFresh
      <3> QED
        BY <2>1, <2>2, <3>1 DEF GamesAreFresh, SnapshotIsOfAGame
    <2>5. EngineFollowsSession'
      BY <1>2, <2>1 DEF EngineFollowsSession
    <2>6. JobFollowsSession'
      <3>1. CASE job.reason = "NONE"
        BY <1>4, <3>1 DEF WriteSnapshot, JobFollowsSession
      <3>2. CASE job.reason # "NONE"
        <4>1. job' = [job EXCEPT !.stage = "RESULT"]
          BY <1>4, <3>2 DEF WriteSnapshot
        <4>2. job'.stage = "RESULT" /\ job'.state = job.state
              /\ job'.reason = job.reason
          BY <1>0, <4>1 DEF Jobs
        <4> QED
          BY <1>2, <2>1, <3>2, <4>2 DEF JobFollowsSession
      <3> QED
        BY <3>1, <3>2
    <2> QED
      BY <2>1, <2>3, <2>4, <2>5, <2>6
  <1>5. CASE WriteResult
    <2>0. job.reason # "NONE" /\ eng.phase = "END" /\ job' = Idle
          /\ UNCHANGED <<up, eng, nextGame>>
      BY <1>2, <1>5 DEF WriteResult
    <2>1. CASE ResultFails(sess.game) /\ sess' = sess
      <3>1. UNCHANGED <<active, results, sess>>
        BY <2>1 DEF ResultFails
      <3>2. OpenGamesHaveNoResult' /\ GamesAreFresh' /\ SnapshotIsOfAGame'
        BY <2>0, <3>1
        DEF OpenGamesHaveNoResult, GamesAreFresh, SnapshotIsOfAGame, HasResult
      <3>3. EngineFollowsSession' /\ JobFollowsSession'
        BY <1>2, <1>3, <2>0, <3>1 DEF EngineFollowsSession, JobFollowsSession
      <3> QED
        BY <3>1, <3>2, <3>3
    <2>2. CASE StoreResult(sess.game, job.reason)
               /\ sess' = [sess EXCEPT !.started = FALSE]
      <3>1. /\ results' = results \cup {[game |-> sess.game, reason |-> job.reason]}
            /\ active' = NoSnapshot
        BY <2>2 DEF StoreResult
      <3>2. ~sess'.started /\ sess'.game = sess.game
        BY <1>0, <2>2 DEF Sessions
      <3>3. OpenGamesHaveNoResult' /\ SnapshotIsOfAGame'
        BY <2>0, <3>1, <3>2 DEF OpenGamesHaveNoResult, SnapshotIsOfAGame
      <3>4. sess.game > 0 /\ NoSnapshot.game = 0 /\ nextGame \in Nat
        BY <1>2 DEF GamesAreFresh, NoSnapshot, NoGame, CounterType
      <3>5. GamesAreFresh'
        <4>1. sess.game < nextGame /\ 0 < nextGame
          BY <1>0, <3>4 DEF GamesAreFresh
        <4>2. \A r \in results' : 0 < r.game /\ r.game < nextGame
          BY <3>1, <3>4, <4>1 DEF GamesAreFresh
        <4> QED
          BY <2>0, <3>1, <3>2, <3>4, <4>1, <4>2 DEF GamesAreFresh
      <3>6. EngineFollowsSession' /\ JobFollowsSession'
        BY <2>0, <3>2 DEF EngineFollowsSession, JobFollowsSession
      <3>7. (\A r, q \in results : r.game = q.game => r = q)'
        BY <1>3, <3>1 DEF HasResult
      <3> QED
        BY <3>3, <3>5, <3>6, <3>7
    <2> QED
      BY <1>5, <2>1, <2>2 DEF WriteResult
  <1> QED
    BY <1>4, <1>5

\* What the volatile state is when no room exists.
LEMMA EmptyFacts ==
  /\ ~EmptySession.started /\ ~EmptySession.opened
  /\ EmptySession.members = {} /\ EmptySession.game = 0
  /\ NoSnapshot.game = 0
  /\ ZeroState.phase = "NONE" /\ LobbyState.phase = "LOBBY"
  BY DEF EmptySession, NoSnapshot, ZeroState, LobbyState, NoGame

\* Closing the room keeps the relations.
LEMMA CloseRoomParts ==
  ASSUME ValueType, CounterType, Parts, HostCloseRoom PROVE Parts'
  <1>1. /\ sess' = EmptySession /\ eng' = LobbyState /\ job' = Idle /\ job = Idle
        /\ UNCHANGED <<up, active, results, nextGame>>
    BY DEF HostCloseRoom, EngineReset, RoomReset, Free, disk
  <1>2. ~HasResult(0) /\ nextGame \in Nat /\ nextGame > 0
    BY DEF Parts, GamesAreFresh, HasResult, CounterType
  <1>3. OpenGamesHaveNoResult'
    BY <1>1, <1>2, EmptyFacts DEF Parts, OpenGamesHaveNoResult, HasResult
  <1>4. GamesAreFresh'
    BY <1>1, <1>2, EmptyFacts DEF Parts, GamesAreFresh
  <1>5. EngineFollowsSession' /\ JobFollowsSession'
    BY <1>1, EmptyFacts DEF EngineFollowsSession, JobFollowsSession
  <1>6. SnapshotIsOfAGame'
    BY <1>1 DEF Parts, SnapshotIsOfAGame
  <1> QED
    BY <1>1, <1>3, <1>4, <1>5, <1>6 DEF Parts

\* A crash or an orderly shutdown keeps the relations.
LEMMA PowerOffParts ==
  ASSUME ValueType, CounterType, Parts, Crash \/ Close PROVE Parts'
  <1>1. /\ sess' = EmptySession /\ eng' = ZeroState /\ job' = Idle
        /\ UNCHANGED <<results, nextGame>>
    BY DEF Crash, Close, PowerOff
  <1>2. ~HasResult(0) /\ nextGame \in Nat /\ nextGame > 0
    BY DEF Parts, GamesAreFresh, HasResult, CounterType
  <1>3. \/ active' = active
        \/ /\ active'.game = sess.game /\ sess.game > 0 /\ sess.game < nextGame
           /\ ~HasResult(sess.game)
           /\ active'.state.phase \in {"PLAY", "END"}
           /\ active'.state.game = active'.game
    BY DEF Crash, Close, SaveSnapshot, SnapshotOf, Parts, OpenGamesHaveNoResult,
           GamesAreFresh, EngineFollowsSession
  <1>4. OpenGamesHaveNoResult'
    BY <1>1, <1>2, <1>3, EmptyFacts DEF Parts, OpenGamesHaveNoResult, HasResult
  <1>5. GamesAreFresh'
    BY <1>1, <1>2, <1>3, EmptyFacts DEF Parts, GamesAreFresh
  <1>6. EngineFollowsSession' /\ JobFollowsSession'
    BY <1>1, EmptyFacts DEF EngineFollowsSession, JobFollowsSession
  <1>7. SnapshotIsOfAGame'
    BY <1>3 DEF Parts, SnapshotIsOfAGame
  <1> QED
    BY <1>1, <1>4, <1>5, <1>6, <1>7 DEF Parts

\* Every outcome of a boot keeps the relations.
LEMMA BootParts ==
  ASSUME ValueType, CounterType, Parts, Boot PROVE Parts'
  <1>0. nextGame' = nextGame /\ job' = job /\ job = Idle
        /\ nextGame \in Nat /\ nextGame > 0
    BY DEF Boot, Parts, JobFollowsSession, CounterType
  <1>1. CASE BootEmpty
    <2>1. UNCHANGED <<sess, eng, active, results>>
      BY <1>1 DEF BootEmpty, disk
    <2>2. OpenGamesHaveNoResult' /\ GamesAreFresh' /\ SnapshotIsOfAGame'
      BY <1>0, <2>1
      DEF Parts, OpenGamesHaveNoResult, GamesAreFresh, SnapshotIsOfAGame, HasResult
    <2>3. EngineFollowsSession' /\ JobFollowsSession'
      BY <1>0, <2>1 DEF Parts, EngineFollowsSession, JobFollowsSession
    <2> QED
      BY <2>1, <2>2, <2>3 DEF Parts
  <1>2. CASE BootArchives
    <2>1. UNCHANGED <<sess, eng>> /\ active' = NoSnapshot /\ results' = {}
      BY <1>2 DEF BootArchives
    <2>2. OpenGamesHaveNoResult' /\ GamesAreFresh' /\ SnapshotIsOfAGame'
      BY <1>0, <2>1, EmptyFacts
      DEF Parts, OpenGamesHaveNoResult, GamesAreFresh, SnapshotIsOfAGame, HasResult
    <2>3. EngineFollowsSession' /\ JobFollowsSession'
      BY <1>0, <2>1 DEF Parts, EngineFollowsSession, JobFollowsSession
    <2> QED
      BY <2>1, <2>2, <2>3 DEF Parts
  <1>3. CASE BootRestores
    <2>1. /\ active.state.phase \in {"PLAY", "END"}
          /\ active.state.game = active.game
          /\ ~HasResult(active.game)
          /\ active.game > 0 /\ active.game < nextGame /\ active.game \in Nat
      BY <1>3
      DEF BootRestores, Parts, SnapshotIsOfAGame, OpenGamesHaveNoResult,
          GamesAreFresh, ValueType, Snapshots
    <2>2. /\ eng' = active.state
          /\ sess'.game = active.game
          /\ sess'.started <=> active.state.phase = "PLAY"
      BY <1>3, <2>1 DEF BootRestores, IsActivePhase
    <2>3. EngineFollowsSession' /\ JobFollowsSession'
      BY <1>0, <2>1, <2>2 DEF EngineFollowsSession, JobFollowsSession
    <2>4. CASE UNCHANGED <<active, results>>
      <3>1. OpenGamesHaveNoResult' /\ SnapshotIsOfAGame'
        BY <2>1, <2>2, <2>4
        DEF Parts, OpenGamesHaveNoResult, SnapshotIsOfAGame, HasResult
      <3>2. GamesAreFresh'
        BY <1>0, <2>1, <2>2, <2>4 DEF Parts, GamesAreFresh
      <3> QED
        BY <2>3, <2>4, <3>1, <3>2 DEF Parts
    <2>5. CASE ~UNCHANGED <<active, results>>
      <3>1. /\ active.state.phase = "END" /\ active' = NoSnapshot
            /\ results' = results \cup {[game |-> active.game,
                                         reason |-> ReasonOf(active.state)]}
        BY <1>3, <2>5 DEF BootRestores, disk
      <3>2. OpenGamesHaveNoResult' /\ SnapshotIsOfAGame'
        BY <2>2, <3>1 DEF OpenGamesHaveNoResult, SnapshotIsOfAGame
      <3>3. GamesAreFresh'
        BY <1>0, <2>1, <2>2, <3>1, EmptyFacts DEF Parts, GamesAreFresh
      <3>4. (\A r, q \in results : r.game = q.game => r = q)'
        BY <2>1, <3>1 DEF Parts, HasResult
      <3> QED
        BY <2>3, <3>2, <3>3, <3>4 DEF Parts
    <2> QED
      BY <2>4, <2>5
  <1> QED
    BY <1>1, <1>2, <1>3 DEF Boot

\* Inv is inductive.
LEMMA InvStep == Inv /\ [Next]_vars => Inv'
  <1> SUFFICES ASSUME Inv, [Next]_vars PROVE Inv'
    OBVIOUS
  <1>1. ValueType /\ CounterType /\ Parts
    BY InvParts, TypeParts
  <1>2. TypeOK'
    BY TypeStep DEF Inv
  <1>3. Parts'
    <2>1. CASE UNCHANGED vars
      BY <1>1, <2>1
      DEF vars, volatile, disk, Parts, OpenGamesHaveNoResult, GamesAreFresh,
          EngineFollowsSession, JobFollowsSession, SnapshotIsOfAGame, HasResult
    <2>2. CASE Next
      <3> QED
        BY <1>1, <2>2, LobbyParts, GameParts, WriteParts, CloseRoomParts,
           PowerOffParts, BootParts DEF Next
    <2> QED
      BY <2>1, <2>2
  <1> QED
    BY <1>2, <1>3 DEF Inv, Parts

-----------------------------------------------------------------------------
(* What the disk holds of the game in play *)

\* The snapshot s is the game that `eng' plays in `sess', but for submissions.
Stored(s) ==
    /\ s.game = sess.game /\ s.members = sess.members /\ s.host = sess.host
    /\ s.state.game = eng.game /\ s.state.phase = eng.phase
    /\ s.state.step = eng.step /\ s.state.pending = eng.pending
    /\ s.state.reason = eng.reason
    /\ s.state.subs <= eng.subs

\* A process that is off plays nothing; the write of a transition that is
\* pending is of the engine's state; and the state between two operations is
\* the stored one, unless its write failed.
Durable ==
    /\ ~up => ~sess.started
    /\ (job.stage = "SNAPSHOT" /\ job.reason = "NONE") => job.state = eng
    /\ (job = Idle /\ sess.started /\ eng.phase = "PLAY" /\ ~unsaved) => Stored(active)

\* Nothing is played and nothing is pending in the first state.
LEMMA InitDurable == Init => Durable
  BY DEF Init, Durable, EmptySession, Idle

\* A step that leaves no game running, or none of its states unstored.
LEMMA NotPlaying ==
  ASSUME ~sess'.started, job' = Idle PROVE Durable'
  BY DEF Durable, Idle

\* The lobby, the seat, and what they leave alone.
LEMMA LobbyDurable ==
  ASSUME Inv, Durable,
         \/ \E name \in Names : CreateSession(name) \/ JoinPlayer(name)
         \/ \E id \in 1..MaxIDs : ResumePlayer(id)
         \/ OpenRoom \/ ClaimHost \/ ReleaseHost \/ HostCloseRoom
  PROVE  Durable'
  <1>1. CASE UNCHANGED <<up, sess, eng, job, active, unsaved>>
    BY <1>1 DEF Durable, Stored
  <1>2. CASE ~sess'.started /\ job' = Idle
    BY <1>2, NotPlaying
  <1>3. ASSUME NEW name, CreateSession(name) \/ JoinPlayer(name) \/ OpenRoom
        PROVE  ~sess'.started /\ job' = Idle
    <2>1. sess \in Sessions
      BY DEF Inv, TypeOK, Sessions
    <2> QED
      BY <1>3, <2>1 DEF CreateSession, JoinPlayer, OpenRoom, Free, Sessions
  <1>4. HostCloseRoom => ~sess'.started /\ job' = Idle
    BY DEF HostCloseRoom, RoomReset, EmptySession, Free
  <1> QED
    BY <1>1, <1>2, <1>3, <1>4 DEF ResumePlayer, ClaimHost, ReleaseHost, disk

\* The engine's steps hand their state on to be written, or only submit.
LEMMA GameDurable ==
  ASSUME Inv, Durable,
         \/ \E c \in 0..MaxIDs : StartGame(c)
         \/ HostStartGame
         \/ EngineTransition \/ EngineSubmission \/ TickFiresEnd \/ ForceEnd
  PROVE  Durable'
  <1>0. eng \in States
    BY DEF Inv, TypeOK
  <1>1. CASE EngineSubmission
    <2>1. UNCHANGED <<up, sess, job, active, unsaved>> /\ job = Idle
          /\ eng' = [eng EXCEPT !.subs = @ + 1]
      BY <1>1 DEF EngineSubmission, Free, disk
    <2>2. /\ eng'.game = eng.game /\ eng'.phase = eng.phase /\ eng'.step = eng.step
          /\ eng'.pending = eng.pending /\ eng'.reason = eng.reason
          /\ eng'.subs = eng.subs + 1
      BY <1>0, <2>1 DEF States
    <2>3. active.state.subs \in Nat /\ eng.subs \in Nat
      BY <1>0 DEF Inv, TypeOK, States
    <2>4. Stored(active) => Stored(active)'
      BY <2>1, <2>2, <2>3 DEF Stored
    <2> QED
      BY <2>1, <2>2, <2>4 DEF Durable, Idle
  <1>2. ASSUME NEW state, NEW reason, Persist(state, reason), up' = up, up,
               reason = "NONE" => state = eng'
        PROVE  Durable'
    BY <1>2 DEF Persist, Durable, Idle
  <1>3. EngineTransition => up /\ up' = up /\ Persist(eng', "NONE")
    BY DEF EngineTransition, Free
  <1>4. TickFiresEnd => up /\ up' = up /\ Persist([eng EXCEPT !.pending = FALSE], "WIN")
    BY DEF TickFiresEnd, Free
  <1>5. ForceEnd => up /\ up' = up /\ Persist(eng', "FORCED")
    BY DEF ForceEnd, Free
  <1>6. ASSUME NEW c, StartGame(c) \/ HostStartGame
        PROVE  up /\ up' = up /\ Persist(eng', "NONE")
    BY <1>6 DEF StartGame, HostStartGame, EngineStart, Free
  <1> QED
    BY <1>1, <1>2, <1>3, <1>4, <1>5, <1>6

\* A snapshot that is written is of the engine's state; a result ends the game.
LEMMA WriteDurable ==
  ASSUME Inv, Durable, WriteSnapshot \/ WriteResult PROVE Durable'
  <1>0. eng \in States /\ job # Idle /\ JobFollowsSession /\ job \in Jobs
    BY DEF Inv, TypeOK, Jobs, WriteSnapshot, WriteResult, Idle
  <1>1. CASE WriteSnapshot
    <2>1. UNCHANGED <<up, sess, eng>> /\ up /\ job.stage = "SNAPSHOT"
      BY <1>1 DEF WriteSnapshot
    <2>2. CASE job.reason # "NONE"
      <3>1. job'.stage = "RESULT" /\ eng.phase = "END"
        BY <1>0, <1>1, <2>2 DEF WriteSnapshot, JobFollowsSession, Jobs
      <3> QED
        BY <2>1, <3>1 DEF Durable
    <2>3. CASE job.reason = "NONE"
      <3>1. job' = Idle /\ job.state = eng /\ eng.subs \in Nat
        BY <1>0, <1>1, <2>1, <2>3 DEF WriteSnapshot, Durable, States
      <3>2. CASE unsaved'
        BY <2>1, <3>1, <3>2 DEF Durable, Idle
      <3>3. CASE ~unsaved'
        <4>1. active' = SnapshotOf(eng)
          BY <1>1, <3>1, <3>3 DEF WriteSnapshot, SaveSnapshot
        <4>2. Stored(active)'
          BY <2>1, <3>1, <4>1 DEF Stored, SnapshotOf
        <4> QED
          BY <2>1, <3>1, <4>2 DEF Durable, Idle
      <3> QED
        BY <3>2, <3>3
    <2> QED
      BY <2>2, <2>3
  <1>2. CASE WriteResult
    <2>1. job' = Idle /\ eng' = eng /\ up' /\ eng.phase = "END"
      BY <1>0, <1>2 DEF WriteResult, JobFollowsSession
    <2> QED
      BY <2>1 DEF Durable, Idle
  <1> QED
    BY <1>1, <1>2

\* A boot restores what the snapshot holds.
LEMMA BootDurable ==
  ASSUME Inv, Durable, Boot PROVE Durable'
  <1>0. ~up /\ up' /\ job' = job /\ ~sess.started /\ job = Idle
    BY DEF Boot, Durable, Inv, JobFollowsSession
  <1>1. CASE BootEmpty \/ BootArchives
    BY <1>0, <1>1, NotPlaying DEF BootEmpty, BootArchives
  <1>2. CASE BootRestores
    <2>1. eng' = active.state /\ sess'.game = active.game /\ sess'.host = active.host
          /\ sess'.members = active.members
      BY <1>2 DEF BootRestores
    <2>2. active.state.subs \in Nat
      BY DEF Inv, TypeOK, States
    <2>3. CASE active.state.phase = "END"
      BY <1>0, <2>1, <2>3 DEF Durable, Idle
    <2>4. CASE active.state.phase # "END"
      <3>1. active' = active
        BY <1>2, <2>4 DEF BootRestores
      <3>2. Stored(active)'
        BY <2>1, <2>2, <3>1 DEF Stored
      <3> QED
        BY <1>0, <3>2 DEF Durable, Idle
    <2> QED
      BY <2>3, <2>4
  <1> QED
    BY <1>1, <1>2 DEF Boot

\* Durable is inductive, given Inv.
LEMMA DurableStep == Inv /\ Durable /\ [Next]_vars => Durable'
  <1> SUFFICES ASSUME Inv, Durable, [Next]_vars PROVE Durable'
    OBVIOUS
  <1>1. CASE UNCHANGED vars
    BY <1>1 DEF vars, volatile, disk, Durable, Stored
  <1>2. CASE Crash \/ Close
    <2>1. ~sess'.started /\ job' = Idle
      BY <1>2 DEF Crash, Close, PowerOff, EmptySession
    <2> QED
      BY <2>1, NotPlaying
  <1> QED
    BY <1>1, <1>2, LobbyDurable, GameDurable, WriteDurable, BootDurable DEF Next

-----------------------------------------------------------------------------
(* The theorems *)

\* Every operation, crash and boot keeps every variable well-typed.
THEOREM TypeCorrect == Spec => []TypeOK
  <1>1. Inv => TypeOK
    BY DEF Inv
  <1> QED
    BY <1>1, InitInv, InvStep, PTL DEF Spec

\* However often the process crashes and whichever writes fail, no game with a
\* stored result is also the active snapshot, and no game has two results.
THEOREM FinishedGamesStayFinished == Spec => []FinishedNotActive
  <1>1. Inv => FinishedNotActive
    BY DEF Inv, FinishedNotActive, OpenGamesHaveNoResult
  <1> QED
    BY <1>1, InitInv, InvStep, PTL DEF Spec

\* Whenever an operation can run, Session.Started agrees with the engine's phase
\* and game, across lobby, play, end, closed room, crash and boot.
THEOREM StartedIsTruthful == Spec => []StartedMatchesEngine
  <1>1. Inv => StartedMatchesEngine
    BY DEF Inv, StartedMatchesEngine, EngineFollowsSession, OpenGamesHaveNoResult
  <1> QED
    BY <1>1, InitInv, InvStep, PTL DEF Spec

\* A crash between two operations loses no transition and no player of a game
\* whose snapshot the disk took: what SaveSnapshot stored is the game in play.
THEOREM CrashesLoseNothing == Spec => []CrashLosesNothing
  <1>1. ASSUME Inv, Durable PROVE CrashLosesNothing
    <2> SUFFICES ASSUME Free, sess.started, eng.phase = "PLAY", ~unsaved
                 PROVE  /\ active = [game |-> sess.game, members |-> sess.members,
                                     host |-> sess.host,
                                     state |-> [eng EXCEPT !.subs = active.state.subs]]
                        /\ active.state.subs <= eng.subs
      BY DEF CrashLosesNothing
    <2>1. Stored(active)
      BY <1>1 DEF Durable, Free
    <2>2. active \in Snapshots /\ eng \in States /\ active.state \in States
      BY <1>1 DEF Inv, TypeOK, Snapshots
    <2> DEFINE r == [eng EXCEPT !.subs = active.state.subs]
    <2>3. active.state = r
      BY <2>1, <2>2 DEF Stored, States
    <2> HIDE DEF r
    <2>4. active = [game |-> sess.game, members |-> sess.members, host |-> sess.host,
                    state |-> r]
      BY <2>1, <2>2, <2>3 DEF Stored, Snapshots
    <2> QED
      BY <2>1, <2>4 DEF Stored, r
  <1> QED
    BY <1>1, InitInv, InvStep, InitDurable, DurableStep, PTL DEF Spec
=============================================================================
