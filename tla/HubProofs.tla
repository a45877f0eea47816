------------------------------ MODULE HubProofs ------------------------------
(***************************************************************************)
(* For every set of connections: no registered client is out of reach of   *)
(* the fan-out, the last connection of a player wins, and the types hold.  *)
(***************************************************************************)
EXTENDS Hub, TLAPS

Points == {"NONE", "READ", "BIND", "EVICT", "OPENED", "CLOSED", "DEMOTE", "DONE"}
Readers == [at : Points, player : 0 .. MaxPlayers, old : Clients \cup {NoClient},
            todo : SUBSET Clients]
Regs == [at : {"NONE", "ADD", "PUSH", "DONE"}]
Rooms == [open : BOOLEAN, members : SUBSET PlayerIDs, host : 0 .. MaxPlayers,
          phase : {"LOBBY", "PLAY", "END"}, ver : 0 .. MaxVersion]

\* The part of TypeOK the argument about the registry needs.
Shape ==
  /\ byID \subseteq Clients
  /\ byPlayerID \in [PlayerIDs -> Clients \cup {NoClient}]
  /\ pid \in [Clients -> 0 .. MaxPlayers]
  /\ reader \in [Clients -> Readers]
  /\ reg \in [Clients -> Regs]
  /\ room \in Rooms
  /\ nextID \in 1 .. MaxPlayers + 1

\* A handler that is to bind or evict knows for which player, and a client has
\* no player and no handler before Register is through.
Progress ==
  /\ \A c \in Clients : reader[c].at = "BIND" => reader[c].player \in PlayerIDs
  /\ \A c \in Clients : reg[c].at # "DONE" => reader[c].at = "NONE" /\ pid[c] = NoPlayer

\* A registered client with a player is the one indexed under it, or is being
\* evicted; one without is PUBLIC, or is being evicted.
Placed ==
  \A c \in byID :
    \/ BeingEvicted(c)
    \/ pid[c] # NoPlayer /\ byPlayerID[pid[c]] = c
    \/ pid[c] = NoPlayer /\ c \in publics

Inv == Shape /\ Progress /\ Placed

-----------------------------------------------------------------------------
\* The record values the actions write are of the declared types.
LEMMA Records ==
  /\ \A a \in Points : At(a) \in Readers /\ At(a).at = a
  /\ \A p \in 0 .. MaxPlayers : Binding(p) \in Readers
  /\ \A S \in SUBSET Clients : [At("DEMOTE") EXCEPT !.todo = S] \in Readers
  /\ \A r \in Readers, S \in SUBSET Clients : [r EXCEPT !.todo = S] \in Readers
  /\ \A r \in Readers, d \in Clients \cup {NoClient} :
       [r EXCEPT !.at = "EVICT", !.old = d] \in Readers
  <1> USE HubAssumption DEF HubAssumption
  <1>1. \A a \in Points : At(a) \in Readers /\ At(a).at = a
    BY DEF At, Readers, NoPlayer
  <1>2. \A p \in 0 .. MaxPlayers : Binding(p) \in Readers
    BY DEF Binding, Readers, Points
  <1>3. \A r \in Readers, S \in SUBSET Clients : [r EXCEPT !.todo = S] \in Readers
    BY DEF Readers
  <1>4. \A S \in SUBSET Clients : [At("DEMOTE") EXCEPT !.todo = S] \in Readers
    BY <1>1, <1>3 DEF Points
  <1>5. \A r \in Readers, d \in Clients \cup {NoClient} :
          [r EXCEPT !.at = "EVICT", !.old = d] \in Readers
    BY DEF Readers, Points
  <1> QED BY <1>1, <1>2, <1>3, <1>4, <1>5

\* The fresh hub has no client, so nothing to place.
LEMMA InitInv == Init => Inv
  <1> SUFFICES ASSUME Init PROVE Inv
    OBVIOUS
  <1> USE HubAssumption DEF HubAssumption, Init
  <1>1. At("NONE") \in Readers /\ At("NONE").at = "NONE"
    BY Records DEF Points
  <1>2. Shape
    <2>1. byID \subseteq Clients /\ byPlayerID \in [PlayerIDs -> Clients \cup {NoClient}]
      OBVIOUS
    <2>2. pid \in [Clients -> 0 .. MaxPlayers] /\ nextID \in 1 .. MaxPlayers + 1
      BY DEF NoPlayer
    <2>3. reader \in [Clients -> Readers]
      BY <1>1
    <2>4. reg \in [Clients -> Regs]
      BY DEF Regs
    <2>5. room \in Rooms
      BY DEF Rooms, EmptyRoom, NoPlayer, PlayerIDs
    <2> QED BY <2>1, <2>2, <2>3, <2>4, <2>5 DEF Shape
  <1>4. Progress
    BY <1>1 DEF Progress
  <1>5. Placed
    BY DEF Placed
  <1> QED BY <1>2, <1>4, <1>5 DEF Inv

-----------------------------------------------------------------------------
(* What a step may do to the registry *)

\* Nothing the invariant speaks of, but the session.
Quiet == UNCHANGED <<registry, pid, reg, reader>>

\* One read loop moves on, neither from nor to an eviction.
LoopMoves ==
  /\ UNCHANGED <<registry, pid, reg>>
  /\ \E c \in Clients, r \in Readers :
       /\ reg[c].at = "DONE" /\ reader[c].at # "EVICT" /\ r.at # "EVICT"
       /\ r.at = "BIND" => r.player \in PlayerIDs
       /\ reader' = [reader EXCEPT ![c] = r]

\* One client is unregistered by another goroutine.
Removal == UNCHANGED <<pid, reg, reader>> /\ \E c \in Clients : Unregister(c)

\* Every step is one of these or one of the actions that bind and unbind.
Cases ==
  \/ Quiet \/ LoopMoves \/ Removal
  \/ \E c \in Clients :
       \/ RegisterCheck(c) \/ RegisterAdd(c) \/ RegisterPush(c)
       \/ BindPlayer(c) \/ Evict(c) \/ Demote(c) \/ ReaderExits(c)

\* The handler steps that only move a read loop.
LEMMA LoopCases ==
  ASSUME Inv, NEW c \in Clients,
         \/ JoinPlayer(c) \/ CreateSession(c) \/ (\E p \in PlayerIDs : ResumePlayer(c, p))
         \/ OpenRoom(c) \/ HostCloseRoom(c)
         \/ BroadcastRoomOpened(c) \/ BroadcastRoomClosed(c)
  PROVE  LoopMoves
  <1> USE HubAssumption DEF HubAssumption
  <1>0. reader[c].at \in Points /\ reg[c].at \in {"NONE", "ADD", "PUSH", "DONE"}
    BY DEF Inv, Shape, Readers, Regs
  <1>1. reader[c].at # "NONE" => reg[c].at = "DONE"
    BY DEF Inv, Progress
  <1>2. AtRead \in Readers /\ AtRead.at = "READ"
    BY Records DEF AtRead, Points
  <1>3. ASSUME NEW h, EnterLobby(c, h) PROVE LoopMoves
    <2> DEFINE r == Binding(nextID)
    <2>0. nextID \in PlayerIDs /\ nextID \in 0 .. MaxPlayers /\ 0 \in 0 .. MaxVersion
      BY <1>3 DEF EnterLobby, PlayerIDs
    <2>4. r \in Readers
      BY <2>0, Records
    <2>1. r \in Readers /\ r.at = "BIND" /\ r.player \in PlayerIDs
      BY <2>0, <2>4 DEF Binding
    <2>2. reader' = [reader EXCEPT ![c] = r] /\ reader[c].at = "READ"
      BY <1>3 DEF EnterLobby, ReaderMoves, Reading
    <2>3. UNCHANGED <<registry, pid, reg>>
      BY <1>3 DEF EnterLobby
    <2> QED BY <1>1, <2>1, <2>2, <2>3 DEF LoopMoves
  <1>4. ASSUME NEW p \in PlayerIDs, ResumePlayer(c, p) PROVE LoopMoves
    <2> DEFINE r == Binding(p)
    <2>1. room.ver \in 0 .. MaxVersion
      BY DEF Inv, Shape, Rooms
    <2>0. p \in 0 .. MaxPlayers
      BY DEF PlayerIDs
    <2>5. r \in Readers
      BY <2>0, <2>1, Records
    <2>2. r \in Readers /\ r.at = "BIND" /\ r.player \in PlayerIDs
      BY <2>5 DEF Binding
    <2>3. reader' = [reader EXCEPT ![c] = r] /\ reader[c].at = "READ"
      BY <1>4 DEF ResumePlayer, ReaderMoves, Reading
    <2>4. UNCHANGED <<registry, pid, reg>>
      BY <1>4 DEF ResumePlayer
    <2> QED BY <1>1, <2>2, <2>3, <2>4 DEF LoopMoves
  <1>5. ASSUME OpenRoom(c) \/ HostCloseRoom(c) PROVE LoopMoves
    <2>1. \E a \in {"OPENED", "CLOSED"} : reader' = [reader EXCEPT ![c] = At(a)]
      BY <1>5 DEF OpenRoom, HostCloseRoom, ReaderMoves
    <2>2. reader[c].at = "READ" /\ UNCHANGED <<registry, pid, reg>>
      BY <1>5 DEF OpenRoom, HostCloseRoom, Reading
    <2>3. \A a \in {"OPENED", "CLOSED"} : At(a) \in Readers /\ At(a).at = a
      BY Records DEF Points
    <2> QED BY <1>1, <2>1, <2>2, <2>3 DEF LoopMoves
  <1>6. CASE BroadcastRoomOpened(c)
    BY <1>1, <1>2, <1>6 DEF BroadcastRoomOpened, ReaderMoves, LoopMoves
  <1>7. CASE BroadcastRoomClosed(c)
    <2> DEFINE d == [At("DEMOTE") EXCEPT !.todo = Indexed]
    <2>1. Indexed \in SUBSET Clients
      BY DEF Indexed, Inv, Shape
    <2>2. d \in Readers /\ d.at = "DEMOTE"
      BY <2>1, Records DEF At
    <2>3. /\ reader' = [reader EXCEPT ![c] = AtRead] \/ reader' = [reader EXCEPT ![c] = d]
          /\ reader[c].at = "CLOSED" /\ UNCHANGED <<registry, pid, reg>>
      BY <1>7 DEF BroadcastRoomClosed, ReaderMoves
    <2> QED BY <1>1, <1>2, <2>2, <2>3 DEF LoopMoves
  <1> QED BY <1>3, <1>4, <1>5, <1>6, <1>7 DEF JoinPlayer, CreateSession

\* Every step of the hub is one of the cases.
LEMMA StepCases == ASSUME Inv, [Next]_vars PROVE Cases
  <1>1. CASE UNCHANGED vars
    BY <1>1 DEF vars, Cases, Quiet
  <1>2. CASE FanOut \/ GameEvent \/ CloseFlag \/ CloseUnsubscribe \/ CloseCancel
    BY <1>2 DEF FanOut, GameEvent, CloseFlag, CloseUnsubscribe, CloseCancel, Cases, Quiet
  <1>3. ASSUME NEW c \in Clients,
               Reject(c) \/ ClaimHost(c) \/ StartGame(c) \/ PeerGone(c) \/ WriterExits(c)
        PROVE  Cases
    BY <1>3 DEF Reject, ClaimHost, StartGame, PeerGone, WriterExits, Cases, Quiet
  <1>4. ASSUME NEW c \in Clients, Reap(c) \/ CloseClient(c) PROVE Cases
    BY <1>4 DEF Reap, CloseClient, Cases, Removal
  <1>5. ASSUME NEW c \in Clients, Registering(c) \/ RegisterCheck(c) PROVE Cases
    BY <1>5 DEF Registering, Cases
  <1>6. ASSUME NEW c \in Clients, Handling(c) PROVE Cases
    BY <1>6, LoopCases DEF Handling, Cases
  <1>7. ASSUME NEW c \in Clients, Peer(c) PROVE Cases
    BY <1>3, <1>5, <1>7, LoopCases DEF Peer, Cases
  <1> QED BY <1>1, <1>2, <1>3, <1>4, <1>5, <1>6, <1>7 DEF Next

-----------------------------------------------------------------------------
(* The invariant is inductive *)

\* What Unregister leaves of the indices.
LEMMA UnregisterEffect ==
  ASSUME Shape, NEW c \in Clients, Unregister(c)
  PROVE  /\ byID' = byID \ {c} /\ publics' \subseteq publics
         /\ publics \ {c} \subseteq publics'
         /\ byPlayerID' \in [PlayerIDs -> Clients \cup {NoClient}]
         /\ \A p \in PlayerIDs : byPlayerID[p] # c => byPlayerID'[p] = byPlayerID[p]
  BY DEF Shape, Unregister, registry

\* The session's part of Shape.
LEMMA RoomStep ==
  ASSUME Inv, [Next]_vars PROVE room' \in Rooms /\ nextID' \in 1 .. MaxPlayers + 1
  <1> USE HubAssumption DEF HubAssumption
  <1>0. room \in Rooms /\ nextID \in 1 .. MaxPlayers + 1
    BY DEF Inv, Shape
  <1>1. ASSUME NEW c \in Clients, NEW h \in 0 .. MaxPlayers, EnterLobby(c, h)
        PROVE  room' \in Rooms /\ nextID' \in 1 .. MaxPlayers + 1
    <2>1. nextID \in PlayerIDs /\ room.ver + 1 \in 0 .. MaxVersion /\ room.ver < MaxVersion
      BY <1>0, <1>1 DEF EnterLobby, Rooms
    <2>2. nextID' = nextID + 1
      BY <1>1 DEF EnterLobby
    <2>3. room' = [open |-> room.open, members |-> room.members \cup {nextID},
                   host |-> h, phase |-> room.phase, ver |-> room.ver + 1]
      BY <1>0, <1>1 DEF EnterLobby, Rooms
    <2> QED BY <1>0, <2>1, <2>2, <2>3 DEF Rooms, PlayerIDs
  <1>2. ASSUME NEW c \in Clients, JoinPlayer(c) \/ CreateSession(c)
        PROVE  room' \in Rooms /\ nextID' \in 1 .. MaxPlayers + 1
    <2>1. room.host \in 0 .. MaxPlayers
      BY <1>0 DEF Rooms
    <2>2. CreateSession(c) => nextID \in 0 .. MaxPlayers
      BY DEF CreateSession, EnterLobby, PlayerIDs
    <2> QED BY <1>1, <1>2, <2>1, <2>2 DEF JoinPlayer, CreateSession
  <1>3. CASE GameEvent
    <2>1. PICK ph \in {"PLAY", "END"} : room' = [room EXCEPT !.phase = ph]
      BY <1>3 DEF GameEvent
    <2>2. room' = [open |-> room.open, members |-> room.members, host |-> room.host,
                   phase |-> ph, ver |-> room.ver]
      BY <1>0, <2>1 DEF Rooms
    <2>3. nextID' = nextID
      BY <1>3 DEF GameEvent
    <2> QED BY <1>0, <2>2, <2>3 DEF Rooms
  <1>4. ASSUME NEW c \in Clients, StartGame(c)
        PROVE  room' \in Rooms /\ nextID' \in 1 .. MaxPlayers + 1
    <2>1. room' = [open |-> room.open, members |-> room.members, host |-> room.host,
                   phase |-> "PLAY", ver |-> room.ver + 1]
      BY <1>0, <1>4 DEF Rooms, StartGame
    <2>2. room.ver < MaxVersion /\ nextID' = nextID
      BY <1>4 DEF StartGame
    <2> QED BY <1>0, <2>1, <2>2 DEF Rooms
  <1>5. ASSUME NEW c \in Clients, OpenRoom(c)
        PROVE  room' \in Rooms /\ nextID' \in 1 .. MaxPlayers + 1
    <2>1. room' = [open |-> TRUE, members |-> room.members, host |-> NoPlayer,
                   phase |-> room.phase, ver |-> room.ver + 1]
      BY <1>0, <1>5 DEF Rooms, OpenRoom
    <2>2. room.ver < MaxVersion /\ nextID' = nextID
      BY <1>5 DEF OpenRoom
    <2> QED BY <1>0, <2>1, <2>2 DEF Rooms, NoPlayer
  <1>6. ASSUME NEW c \in Clients, HostCloseRoom(c)
        PROVE  room' \in Rooms /\ nextID' \in 1 .. MaxPlayers + 1
    <2>1. room' = [open |-> FALSE, members |-> {}, host |-> NoPlayer,
                   phase |-> "LOBBY", ver |-> room.ver + 1]
      BY <1>0, <1>6 DEF Rooms, HostCloseRoom, EmptyRoom
    <2>2. room.ver < MaxVersion /\ nextID' = nextID
      BY <1>6 DEF HostCloseRoom
    <2> QED BY <1>0, <2>1, <2>2 DEF Rooms, NoPlayer
  <1>7. ASSUME UNCHANGED <<room, nextID>>
        PROVE  room' \in Rooms /\ nextID' \in 1 .. MaxPlayers + 1
    BY <1>0, <1>7
  <1>8. ASSUME NEW c \in Clients,
               \/ Registering(c) \/ Handling(c) \/ WriterExits(c) \/ Reap(c)
               \/ CloseClient(c) \/ RegisterCheck(c) \/ Reject(c) \/ ClaimHost(c)
               \/ PeerGone(c) \/ (\E p \in PlayerIDs : ResumePlayer(c, p))
        PROVE  UNCHANGED <<room, nextID>>
    BY <1>8 DEF Registering, RegisterAdd, RegisterPush, Handling, BindPlayer, Evict,
         BroadcastRoomOpened, BroadcastRoomClosed, Demote, ReaderExits, WriterExits, Reap,
         CloseClient, RegisterCheck, Reject, ClaimHost, PeerGone, ResumePlayer, session
  <1>9. ASSUME FanOut \/ CloseFlag \/ CloseUnsubscribe \/ CloseCancel \/ UNCHANGED vars
        PROVE  UNCHANGED <<room, nextID>>
    BY <1>9 DEF FanOut, CloseFlag, CloseUnsubscribe, CloseCancel, vars, session
  <1> QED BY <1>2, <1>3, <1>4, <1>5, <1>6, <1>7, <1>8, <1>9 DEF Next, Peer

\* The registry's part of Shape, case by case.
LEMMA ShapeStep == ASSUME Inv, [Next]_vars PROVE Shape'
  <1> USE HubAssumption DEF HubAssumption
  <1>0. room' \in Rooms /\ nextID' \in 1 .. MaxPlayers + 1 /\ Shape /\ Cases
    BY RoomStep, StepCases DEF Inv
  <1>1. CASE Quiet
    BY <1>0, <1>1 DEF Shape, Quiet, registry
  <1>2. CASE LoopMoves
    BY <1>0, <1>2 DEF Shape, LoopMoves, registry
  <1>3. CASE Removal
    BY <1>0, <1>3, UnregisterEffect DEF Shape, Removal
  <1>4. ASSUME NEW c \in Clients, RegisterCheck(c) PROVE Shape'
    BY <1>0, <1>4 DEF Shape, RegisterCheck, registry, Regs
  <1>5. ASSUME NEW c \in Clients, RegisterAdd(c) PROVE Shape'
    <2>1. [at |-> "PUSH"] \in Regs
      BY <1>0 DEF Shape, Rooms, Regs
    <2>2. reg' \in [Clients -> Regs]
      BY <1>0, <1>5, <2>1 DEF RegisterAdd, Shape
    <2> QED BY <1>0, <1>5, <2>2 DEF Shape, RegisterAdd
  <1>6. ASSUME NEW c \in Clients, RegisterPush(c) PROVE Shape'
    <2>1. reg' \in [Clients -> Regs]
      BY <1>0, <1>6 DEF RegisterPush, Shape, Regs
    <2>2. reader' \in [Clients -> Readers]
      BY <1>0, <1>6, Records DEF RegisterPush, Shape, AtRead, Points
    <2> QED BY <1>0, <1>6, <2>1, <2>2 DEF Shape, RegisterPush, registry
  <1>7. ASSUME NEW c \in Clients, BindPlayer(c) PROVE Shape'
    <2> DEFINE p == reader[c].player
               old == PriorClient(c, p)
    <2>1. p \in PlayerIDs /\ p \in 0 .. MaxPlayers
      BY <1>7 DEF BindPlayer, Inv, Progress, PlayerIDs
    <2>2. old \in Clients \cup {NoClient} /\ reader[c] \in Readers
      BY <1>0, <2>1 DEF PriorClient, Shape
    <2>3. AtRead \in Readers /\ [reader[c] EXCEPT !.at = "EVICT", !.old = old] \in Readers
      BY <2>2, Records DEF AtRead, Points
    <2>4. reader' \in [Clients -> Readers]
      BY <1>0, <1>7, <2>3 DEF BindPlayer, Reply, ReaderMoves, Shape
    <2> QED BY <1>0, <1>7, <2>1, <2>4 DEF Shape, BindPlayer
  <1>8. ASSUME NEW c \in Clients, Evict(c) PROVE Shape'
    <2>1. reader[c].old \in Clients \cup {NoClient}
      BY <1>0 DEF Shape, Readers
    <2>2. reader' \in [Clients -> Readers]
      BY <1>0, <1>8, Records DEF Evict, Reply, ReaderMoves, Shape, AtRead, Points
    <2>3. byID' \subseteq Clients /\ byPlayerID' \in [PlayerIDs -> Clients \cup {NoClient}]
      BY <1>0, <1>8, <2>1 DEF Evict, Unregister, Shape, registry
    <2> QED BY <1>0, <1>8, <2>2, <2>3 DEF Shape, Evict
  <1>9. ASSUME NEW c \in Clients, Demote(c) PROVE Shape'
    <2>1. reader[c] \in Readers /\ reader[c].todo \subseteq Clients
      BY <1>0 DEF Shape, Readers
    <2>2. PICK d \in reader[c].todo :
            /\ byPlayerID' = [p \in PlayerIDs |->
                 IF p = pid[d] /\ byPlayerID[p] = d THEN NoClient ELSE byPlayerID[p]]
            /\ pid' = [pid EXCEPT ![d] = NoPlayer]
            /\ reader' = [reader EXCEPT ![c] =
                 IF reader[c].todo = {d} THEN AtRead
                 ELSE [reader[c] EXCEPT !.todo = @ \ {d}]]
      BY <1>9 DEF Demote, ReaderMoves
    <2>3. AtRead \in Readers /\ [reader[c] EXCEPT !.todo = @ \ {d}] \in Readers
      BY <2>1, Records DEF AtRead, Points
    <2>4. reader' \in [Clients -> Readers]
      BY <1>0, <2>2, <2>3 DEF Shape
    <2>5. pid' \in [Clients -> 0 .. MaxPlayers]
      <3>1. NoPlayer \in 0 .. MaxPlayers /\ pid \in [Clients -> 0 .. MaxPlayers]
        BY <1>0 DEF Shape, NoPlayer
      <3> QED BY <2>2, <3>1
    <2>6. byPlayerID' \in [PlayerIDs -> Clients \cup {NoClient}]
      BY <1>0, <2>2 DEF Shape
    <2> QED BY <1>0, <1>9, <2>4, <2>5, <2>6 DEF Shape, Demote
  <1>10. ASSUME NEW c \in Clients, ReaderExits(c) PROVE Shape'
    <2>1. reader' \in [Clients -> Readers]
      BY <1>0, <1>10, Records DEF ReaderExits, ReaderMoves, Shape, Points
    <2> QED BY <1>0, <1>10, <2>1, UnregisterEffect DEF Shape, ReaderExits
  <1> QED BY <1>0, <1>1, <1>2, <1>3, <1>4, <1>5, <1>6, <1>7, <1>8, <1>9, <1>10 DEF Cases

\* A handler knows its player, and only a registered client has a handler.
LEMMA ProgressStep == ASSUME Inv, [Next]_vars PROVE Progress'
  <1> USE HubAssumption DEF HubAssumption
  <1>0. Shape /\ Progress /\ Cases
    BY StepCases DEF Inv
  <1>a. AtRead.at = "READ" /\ At("DONE").at = "DONE"
    BY DEF AtRead, At
  <1>1. CASE Quiet
    BY <1>0, <1>1 DEF Progress, Quiet
  <1>2. CASE LoopMoves
    <2>1. PICK c \in Clients, r \in Readers :
            /\ reg[c].at = "DONE"
            /\ r.at = "BIND" => r.player \in PlayerIDs
            /\ reader' = [reader EXCEPT ![c] = r]
      BY <1>2 DEF LoopMoves
    <2>2. UNCHANGED <<pid, reg>>
      BY <1>2 DEF LoopMoves
    <2>3. reader'[c] = r /\ \A d \in Clients : d # c => reader'[d] = reader[d]
      BY <1>0, <2>1 DEF Shape
    <2> QED BY <1>0, <2>1, <2>2, <2>3 DEF Progress
  <1>3. CASE Removal
    BY <1>0, <1>3 DEF Progress, Removal
  <1>4. ASSUME NEW c \in Clients, RegisterCheck(c) \/ RegisterAdd(c) PROVE Progress'
    <2>1. UNCHANGED <<reader, pid>> /\ \A d \in Clients : d # c => reg'[d] = reg[d]
      BY <1>0, <1>4 DEF RegisterCheck, RegisterAdd, Shape
    <2>2. reg[c].at # "DONE"
      BY <1>4 DEF RegisterCheck, RegisterAdd
    <2> QED BY <1>0, <2>1, <2>2 DEF Progress
  <1>5. ASSUME NEW c \in Clients, RegisterPush(c) PROVE Progress'
    <2>1. reg' = [reg EXCEPT ![c].at = "DONE"] /\ reader' = [reader EXCEPT ![c] = AtRead]
          /\ pid' = pid
      BY <1>5 DEF RegisterPush
    <2>2. reg'[c].at = "DONE" /\ \A d \in Clients : d # c => reg'[d] = reg[d]
      BY <1>0, <2>1 DEF Shape, Regs
    <2> QED BY <1>0, <1>a, <2>1, <2>2 DEF Progress, Shape
  <1>6. ASSUME NEW c \in Clients, BindPlayer(c) PROVE Progress'
    <2>1. reg[c].at = "DONE"
      BY <1>0, <1>6 DEF BindPlayer, Progress
    <2>2. \/ reader' = [reader EXCEPT ![c] = AtRead]
          \/ \E old : reader' = [reader EXCEPT ![c] =
                        [reader[c] EXCEPT !.at = "EVICT", !.old = old]]
      BY <1>6 DEF BindPlayer, Reply, ReaderMoves
    <2>3. reader'[c].at # "BIND" /\ \A d \in Clients : d # c => reader'[d] = reader[d]
      <3>1. \A old : [reader[c] EXCEPT !.at = "EVICT", !.old = old].at = "EVICT"
        BY <1>0 DEF Shape, Readers
      <3> QED BY <1>0, <1>a, <2>2, <3>1 DEF Shape
    <2>4. reg' = reg /\ \A d \in Clients : d # c => pid'[d] = pid[d]
      BY <1>0, <1>6 DEF BindPlayer, Shape
    <2> QED BY <1>0, <2>1, <2>3, <2>4 DEF Progress
  <1>7. ASSUME NEW c \in Clients, Evict(c) PROVE Progress'
    <2>1. reader' = [reader EXCEPT ![c] = AtRead] /\ UNCHANGED <<pid, reg>>
          /\ reg[c].at = "DONE"
      BY <1>0, <1>7 DEF Evict, Reply, ReaderMoves, Progress
    <2> QED BY <1>0, <1>a, <2>1 DEF Progress, Shape
  <1>8. ASSUME NEW c \in Clients, Demote(c) PROVE Progress'
    <2>1. reg' = reg /\ reg[c].at = "DONE"
      BY <1>0, <1>8 DEF Demote, Progress
    <2>2. \/ reader' = [reader EXCEPT ![c] = AtRead]
          \/ \E S : reader' = [reader EXCEPT ![c] = [reader[c] EXCEPT !.todo = S]]
      BY <1>8 DEF Demote, ReaderMoves
    <2>3. reader[c].at = "DEMOTE"
      BY <1>8 DEF Demote
    <2>4. reader'[c].at # "BIND" /\ \A d \in Clients : d # c => reader'[d] = reader[d]
      BY <1>0, <1>a, <2>2, <2>3 DEF Shape, Readers
    <2>5. \A d \in Clients : pid'[d] = pid[d] \/ pid'[d] = NoPlayer
      BY <1>0, <1>8 DEF Demote, Shape
    <2> QED BY <1>0, <2>1, <2>4, <2>5 DEF Progress
  <1>9. ASSUME NEW c \in Clients, ReaderExits(c) PROVE Progress'
    <2>1. reader' = [reader EXCEPT ![c] = At("DONE")] /\ UNCHANGED <<pid, reg>>
          /\ reg[c].at = "DONE"
      BY <1>0, <1>9 DEF ReaderExits, ReaderMoves, Progress
    <2> QED BY <1>0, <1>a, <2>1 DEF Progress, Shape
  <1> QED BY <1>0, <1>1, <1>2, <1>3, <1>4, <1>5, <1>6, <1>7, <1>8, <1>9 DEF Cases

\* Evictions stay pending as long as no loop that is evicting moves.
LEMMA EvictionsKept ==
  ASSUME Shape, NEW c \in Clients, NEW r, reader' = [reader EXCEPT ![c] = r],
         reader[c].at # "EVICT"
  PROVE  \A d : BeingEvicted(d) => BeingEvicted(d)'
  BY DEF Shape, BeingEvicted

\* Unregister takes one client away and leaves the others where they were.
LEMMA RemovalKeepsPlaced ==
  ASSUME Inv, NEW c \in Clients, Unregister(c), pid' = pid,
         \A d \in byID \ {c} : BeingEvicted(d) => BeingEvicted(d)'
  PROVE  Placed'
  <1>1. Shape /\ Placed
    BY DEF Inv
  <1>2. \A d \in byID' : d \in byID /\ d # c
    BY <1>1, UnregisterEffect
  <1>3. ASSUME NEW d \in byID', pid[d] # NoPlayer, byPlayerID[pid[d]] = d
        PROVE  byPlayerID'[pid[d]] = d
    <2>1. pid[d] \in PlayerIDs
      BY <1>1, <1>2, <1>3 DEF Shape, PlayerIDs, NoPlayer
    <2> QED BY <1>1, <1>2, <1>3, <2>1, UnregisterEffect
  <1>4. \A d \in byID' : d \in publics => d \in publics'
    BY <1>1, <1>2, UnregisterEffect
  <1> QED BY <1>1, <1>2, <1>3, <1>4 DEF Placed

\* Every step leaves every registered client in reach, or being evicted.
LEMMA PlacedStep == ASSUME Inv, [Next]_vars PROVE Placed'
  <1> USE HubAssumption DEF HubAssumption
  <1>0. Shape /\ Progress /\ Placed /\ Cases
    BY StepCases DEF Inv
  <1>1. CASE Quiet
    BY <1>0, <1>1 DEF Placed, Quiet, registry, BeingEvicted
  <1>2. CASE LoopMoves
    <2>1. \A d : BeingEvicted(d) => BeingEvicted(d)'
      BY <1>0, <1>2, EvictionsKept DEF LoopMoves
    <2> QED BY <1>0, <1>2, <2>1 DEF Placed, LoopMoves, registry
  <1>3. CASE Removal
    <2>1. \A d : BeingEvicted(d) => BeingEvicted(d)'
      BY <1>3 DEF Removal, BeingEvicted
    <2> QED BY <1>3, <2>1, RemovalKeepsPlaced DEF Removal
  <1>4. ASSUME NEW c \in Clients, RegisterCheck(c) PROVE Placed'
    BY <1>0, <1>4 DEF Placed, RegisterCheck, registry, BeingEvicted
  <1>5. ASSUME NEW c \in Clients, RegisterAdd(c) PROVE Placed'
    <2>1. pid[c] = NoPlayer
      BY <1>0, <1>5 DEF Progress, RegisterAdd
    <2>2. UNCHANGED <<pid, reader, byPlayerID>> /\ byID' = byID \cup {c}
          /\ publics' = publics \cup {c}
      BY <1>5 DEF RegisterAdd
    <2>3. \A d : BeingEvicted(d) => BeingEvicted(d)'
      BY <2>2 DEF BeingEvicted
    <2> QED BY <1>0, <2>1, <2>2, <2>3 DEF Placed
  <1>6. ASSUME NEW c \in Clients, RegisterPush(c) PROVE Placed'
    <2>1. reader[c].at = "NONE"
      BY <1>0, <1>6 DEF Progress, RegisterPush
    <2>2. \A d : BeingEvicted(d) => BeingEvicted(d)'
      BY <1>0, <1>6, <2>1, EvictionsKept DEF RegisterPush
    <2> QED BY <1>0, <1>6, <2>2 DEF Placed, RegisterPush, registry
  <1>7. ASSUME NEW c \in Clients, BindPlayer(c) PROVE Placed'
    <2> DEFINE p == reader[c].player
    <2>0. PICK old : old = PriorClient(c, p)
      OBVIOUS
    <2>1. p \in PlayerIDs /\ reader[c].at = "BIND" /\ p # NoPlayer
      BY <1>0, <1>7 DEF BindPlayer, Progress, PlayerIDs, NoPlayer
    <2>2. /\ byID' = byID /\ publics' = publics \ {c} /\ pid' = [pid EXCEPT ![c] = p]
          /\ byPlayerID' = [byPlayerID EXCEPT ![p] = c]
      BY <1>7 DEF BindPlayer
    <2>3. \A d : BeingEvicted(d) => BeingEvicted(d)'
      <3>1. \E r : reader' = [reader EXCEPT ![c] = r]
        BY <1>7 DEF BindPlayer, Reply, ReaderMoves
      <3> QED BY <1>0, <2>1, <3>1, EvictionsKept
    <2>4. old # NoClient => BeingEvicted(old)'
      <3> SUFFICES ASSUME old # NoClient PROVE BeingEvicted(old)'
        OBVIOUS
      <3>1. reader' = [reader EXCEPT ![c] = [reader[c] EXCEPT !.at = "EVICT", !.old = old]]
        BY <1>7, <2>0 DEF BindPlayer, ReaderMoves
      <3>2. reader'[c].at = "EVICT" /\ reader'[c].old = old
        <4>1. reader[c] \in Readers
          BY <1>0 DEF Shape
        <4>2. [reader[c] EXCEPT !.at = "EVICT", !.old = old].at = "EVICT"
              /\ [reader[c] EXCEPT !.at = "EVICT", !.old = old].old = old
          BY <4>1 DEF Readers
        <4> QED BY <1>0, <3>1, <4>2 DEF Shape
      <3> QED BY <3>2 DEF BeingEvicted
    <2>5. SUFFICES ASSUME NEW d \in byID'
                   PROVE  \/ BeingEvicted(d)'
                          \/ pid'[d] # NoPlayer /\ byPlayerID'[pid'[d]] = d
                          \/ pid'[d] = NoPlayer /\ d \in publics'
      BY DEF Placed
    <2>6. CASE d = c
      BY <1>0, <2>1, <2>2, <2>6 DEF Shape
    <2>7. CASE d # c
      <3>1. d \in byID /\ d \in Clients /\ pid'[d] = pid[d] /\ d # NoClient
        BY <1>0, <2>2, <2>7 DEF Shape
      <3>2. CASE pid[d] = p /\ byPlayerID[p] = d
        BY <2>0, <2>4, <2>7, <3>1, <3>2 DEF PriorClient
      <3>3. CASE pid[d] # NoPlayer /\ byPlayerID[pid[d]] = d /\ pid[d] # p
        <4>1. pid[d] \in PlayerIDs
          BY <1>0, <3>1, <3>3 DEF Shape, PlayerIDs, NoPlayer
        <4> QED BY <1>0, <2>2, <3>1, <3>3, <4>1 DEF Shape
      <3>4. CASE BeingEvicted(d) \/ (pid[d] = NoPlayer /\ d \in publics)
        BY <2>2, <2>3, <2>7, <3>1, <3>4
      <3> QED BY <1>0, <3>1, <3>2, <3>3, <3>4 DEF Placed
    <2> QED BY <2>6, <2>7
  <1>8. ASSUME NEW c \in Clients, Evict(c) PROVE Placed'
    <2> DEFINE old == reader[c].old
    <2>1. reader' = [reader EXCEPT ![c] = AtRead] /\ UNCHANGED pid /\ Unregister(old)
      BY <1>8 DEF Evict, Reply, ReaderMoves
    <2>2. \A d : d # old /\ BeingEvicted(d) => BeingEvicted(d)'
      BY <1>0, <2>1 DEF Shape, BeingEvicted
    <2>3. CASE old \in Clients
      BY <2>1, <2>2, <2>3, RemovalKeepsPlaced
    <2>4. CASE old \notin Clients
      <3>1. old \notin byID /\ UNCHANGED registry
        BY <1>0, <2>1, <2>4 DEF Shape, Unregister
      <3> QED BY <1>0, <2>1, <2>2, <3>1 DEF Placed, registry
    <2> QED BY <2>3, <2>4
  <1>9. ASSUME NEW c \in Clients, Demote(c) PROVE Placed'
    <2>1. PICK d \in reader[c].todo :
            /\ byPlayerID' = [p \in PlayerIDs |->
                 IF p = pid[d] /\ byPlayerID[p] = d THEN NoClient ELSE byPlayerID[p]]
            /\ pid' = [pid EXCEPT ![d] = NoPlayer]
            /\ publics' = publics \cup {d}
            /\ \E r : reader' = [reader EXCEPT ![c] = r]
      BY <1>9 DEF Demote, ReaderMoves, BecomePublic
    <2>2. byID' = byID /\ reader[c].at = "DEMOTE" /\ d \in Clients
      BY <1>0, <1>9 DEF Demote, Shape, Readers
    <2>3. \A e : BeingEvicted(e) => BeingEvicted(e)'
      BY <1>0, <2>1, <2>2, EvictionsKept
    <2>4. ASSUME NEW e \in byID, e # d, pid[e] # NoPlayer, byPlayerID[pid[e]] = e
          PROVE  pid'[e] # NoPlayer /\ byPlayerID'[pid'[e]] = e
      <3>1. pid[e] \in PlayerIDs /\ e \in Clients
        BY <1>0, <2>4 DEF Shape, PlayerIDs, NoPlayer
      <3> QED BY <1>0, <2>1, <2>2, <2>4, <3>1 DEF Shape
    <2>5. ASSUME NEW e \in byID, e # d PROVE pid'[e] = pid[e]
      BY <1>0, <2>1, <2>2, <2>5 DEF Shape
    <2>6. pid'[d] = NoPlayer /\ d \in publics'
      BY <1>0, <2>1, <2>2 DEF Shape
    <2> QED BY <1>0, <2>1, <2>2, <2>3, <2>4, <2>5, <2>6 DEF Placed
  <1>10. ASSUME NEW c \in Clients, ReaderExits(c) PROVE Placed'
    <2>1. reader[c].at = "READ" /\ reader' = [reader EXCEPT ![c] = At("DONE")]
          /\ UNCHANGED pid /\ Unregister(c)
      BY <1>10 DEF ReaderExits, ReaderMoves
    <2>2. \A d : BeingEvicted(d) => BeingEvicted(d)'
      BY <1>0, <2>1, EvictionsKept
    <2> QED BY <2>1, <2>2, RemovalKeepsPlaced
  <1> QED BY <1>0, <1>1, <1>2, <1>3, <1>4, <1>5, <1>6, <1>7, <1>8, <1>9, <1>10 DEF Cases

\* Inv is inductive.
LEMMA InvHolds == Spec => []Inv
  <1>1. Inv /\ [Next]_vars => Inv'
    BY ShapeStep, ProgressStep, PlacedStep DEF Inv
  <1> QED BY <1>1, InitInv, PTL DEF Spec

\* No registered client is out of reach of the fan-out but one that a handler is
\* about to evict, whatever bindPlayer, unbindPlayer and remove interleave with.
THEOREM ClientsAreReachable == Spec => []NoOrphan
  <1>1. Inv => NoOrphan
    BY DEF Inv, Placed, NoOrphan
  <1> QED BY <1>1, InvHolds, PTL

\* Two registered clients stand for one player only while a handler is about to
\* evict one of them: bindPlayer's last connect wins.
THEOREM OneClientPerPlayer == Spec => []LastConnectWins
  <1>1. Inv => LastConnectWins
    BY DEF Inv, Placed, LastConnectWins
  <1> QED BY <1>1, InvHolds, PTL
-----------------------------------------------------------------------------
(* Type correctness: only a registered client awaits a spawned Unregister *)

\* The clients Register has added, whether or not they are still registered.
Added == {c \in Clients : reg[c].at \in {"PUSH", "DONE"}}

\* Whoever a message may be addressed to was added: the PUBLIC clients and the
\* players' clients, those a broadcast has listed and those a dispatch has taken.
\* So a target that is not cancelled is registered still.
Known ==
  /\ publics \subseteq Added
  /\ Indexed \subseteq Added
  /\ \A c \in Clients : reader[c].todo \subseteq Added
  /\ pub.targets \subseteq Added

\* What TypeOK says of the variables Shape leaves out.
Rest ==
  /\ sock \in [Clients -> {"NEW", "OPEN", "CLOSED"}]
  /\ closeList \subseteq Clients
  /\ closing \in {"OPEN", "FLAGGED", "SWEEPING", "DONE"}
  /\ seat \in Clients \cup {NoClient}
  /\ pub \in [busy : BOOLEAN, by : Clients \cup {NoClient}, targets : SUBSET Clients]

Reaped == reapers \subseteq byID

\* Register adds a client once and for all.
LEMMA AddedGrows == ASSUME Inv, [Next]_vars PROVE Added \subseteq Added'
  <1>0. Shape /\ Cases
    BY StepCases DEF Inv
  <1>1. CASE UNCHANGED reg
    BY <1>1 DEF Added
  <1>2. ASSUME NEW c \in Clients, RegisterCheck(c) \/ RegisterAdd(c) \/ RegisterPush(c)
        PROVE  Added \subseteq Added'
    <2>1. \A d \in Clients : d # c => reg'[d] = reg[d]
      BY <1>0, <1>2 DEF RegisterCheck, RegisterAdd, RegisterPush, Shape
    <2>2. reg[c].at = "NONE" \/ reg'[c].at \in {"PUSH", "DONE"}
      BY <1>0, <1>2 DEF RegisterCheck, RegisterAdd, RegisterPush, Shape, Regs
    <2> QED BY <2>1, <2>2 DEF Added
  <1> QED
    BY <1>0, <1>1, <1>2
    DEF Cases, Quiet, LoopMoves, Removal, BindPlayer, Evict, Demote, ReaderExits

\* A read loop that is past Register belongs to an added client.
LEMMA LoopsAreAdded ==
  ASSUME Inv, NEW c \in Clients, reader[c].at # "NONE" PROVE c \in Added
  BY DEF Inv, Progress, Added

\* What a step may do to the dispatch.
LEMMA DispatchCases ==
  ASSUME Inv, [Next]_vars
  PROVE  \/ UNCHANGED pub
         \/ pub' = NoDispatch
         \/ \E by \in Clients \cup {NoClient} :
              pub' = [busy |-> TRUE, by |-> by, targets |-> publics]
  <1>1. ASSUME NEW c \in Clients, NEW h, EnterLobby(c, h)
        PROVE  UNCHANGED pub \/ pub' = [busy |-> TRUE, by |-> c, targets |-> publics]
    BY <1>1 DEF EnterLobby, Publish
  <1>2. ASSUME NEW c \in Clients, StartGame(c)
        PROVE  UNCHANGED pub \/ pub' = [busy |-> TRUE, by |-> c, targets |-> publics]
    BY <1>2 DEF StartGame, Publish
  <1>3. CASE GameEvent
    BY <1>3 DEF GameEvent, Publish
  <1>4. CASE FanOut
    BY <1>4 DEF FanOut
  <1>5. ASSUME NEW c \in Clients,
               \/ Registering(c) \/ Handling(c) \/ WriterExits(c) \/ Reap(c)
               \/ CloseClient(c) \/ RegisterCheck(c) \/ Reject(c) \/ ClaimHost(c)
               \/ OpenRoom(c) \/ HostCloseRoom(c)
               \/ PeerGone(c) \/ (\E p \in PlayerIDs : ResumePlayer(c, p))
        PROVE  UNCHANGED pub
    BY <1>5 DEF Registering, RegisterAdd, RegisterPush, Handling, BindPlayer, Evict,
         BroadcastRoomOpened, BroadcastRoomClosed, Demote, ReaderExits, WriterExits, Reap,
         CloseClient, RegisterCheck, Reject, ClaimHost, OpenRoom, HostCloseRoom,
         PeerGone, ResumePlayer, session
  <1>6. ASSUME CloseFlag \/ CloseUnsubscribe \/ CloseCancel \/ UNCHANGED vars
        PROVE  UNCHANGED pub
    BY <1>6 DEF CloseFlag, CloseUnsubscribe, CloseCancel, vars, session
  <1> QED
    BY <1>1, <1>2, <1>3, <1>4, <1>5, <1>6 DEF Next, Peer, JoinPlayer, CreateSession

\* A broadcast lists clients that are indexed, and nobody else is listed.
LEMMA ListedCases ==
  ASSUME Inv, [Next]_vars, NEW d \in Clients
  PROVE  reader'[d].todo \subseteq reader[d].todo \cup Indexed
  <1>0. Shape
    BY DEF Inv
  <1>1. /\ \A a : At(a).todo = {}
        /\ \A p : Binding(p).todo = {}
    BY DEF At, Binding
  <1>2. [At("DEMOTE") EXCEPT !.todo = Indexed].todo = Indexed
    BY DEF At
  <1>3. ASSUME NEW c \in Clients, NEW r, reader' = [reader EXCEPT ![c] = r],
               r.todo \subseteq reader[c].todo \cup Indexed
        PROVE  reader'[d].todo \subseteq reader[d].todo \cup Indexed
    BY <1>0, <1>3 DEF Shape
  <1>4. ASSUME NEW c \in Clients, NEW h, EnterLobby(c, h)
        PROVE  reader'[d].todo \subseteq reader[d].todo \cup Indexed
    BY <1>1, <1>3, <1>4 DEF EnterLobby, ReaderMoves
  <1>5. ASSUME NEW c \in Clients,
               \/ RegisterPush(c) \/ OpenRoom(c) \/ HostCloseRoom(c)
               \/ BroadcastRoomOpened(c) \/ Evict(c) \/ ReaderExits(c)
               \/ (\E p \in PlayerIDs : ResumePlayer(c, p))
        PROVE  reader'[d].todo \subseteq reader[d].todo \cup Indexed
    BY <1>1, <1>3, <1>5
    DEF RegisterPush, OpenRoom, HostCloseRoom, BroadcastRoomOpened, Evict, ReaderExits,
        ResumePlayer, Reply, ReaderMoves, AtRead
  <1>6. ASSUME NEW c \in Clients, BindPlayer(c)
        PROVE  reader'[d].todo \subseteq reader[d].todo \cup Indexed
    <2>1. \A old : [reader[c] EXCEPT !.at = "EVICT", !.old = old].todo = reader[c].todo
      BY <1>0 DEF Shape, Readers
    <2>2. \/ reader' = [reader EXCEPT ![c] = AtRead]
          \/ \E old : reader' = [reader EXCEPT ![c] =
                        [reader[c] EXCEPT !.at = "EVICT", !.old = old]]
      BY <1>6 DEF BindPlayer, Reply, ReaderMoves
    <2> QED BY <1>1, <1>3, <2>1, <2>2 DEF AtRead
  <1>7. ASSUME NEW c \in Clients, BroadcastRoomClosed(c)
        PROVE  reader'[d].todo \subseteq reader[d].todo \cup Indexed
    <2>1. \/ reader' = [reader EXCEPT ![c] = AtRead]
          \/ reader' = [reader EXCEPT ![c] = [At("DEMOTE") EXCEPT !.todo = Indexed]]
      BY <1>7 DEF BroadcastRoomClosed, ReaderMoves
    <2> QED BY <1>1, <1>2, <1>3, <2>1 DEF AtRead
  <1>8. ASSUME NEW c \in Clients, Demote(c)
        PROVE  reader'[d].todo \subseteq reader[d].todo \cup Indexed
    <2>1. \A S : [reader[c] EXCEPT !.todo = S].todo = S
      BY <1>0 DEF Shape, Readers
    <2>2. \/ reader' = [reader EXCEPT ![c] = AtRead]
          \/ \E e : reader' = [reader EXCEPT ![c] =
                      [reader[c] EXCEPT !.todo = reader[c].todo \ {e}]]
      BY <1>8 DEF Demote, ReaderMoves
    <2>3. \A e : [reader[c] EXCEPT !.todo = reader[c].todo \ {e}].todo
                 \subseteq reader[c].todo
      BY <2>1
    <2> QED BY <1>1, <1>3, <2>2, <2>3 DEF AtRead
  <1>9. ASSUME NEW c \in Clients,
               \/ RegisterCheck(c) \/ RegisterAdd(c) \/ Reject(c) \/ ClaimHost(c)
               \/ StartGame(c) \/ PeerGone(c) \/ WriterExits(c) \/ Reap(c) \/ CloseClient(c)
        PROVE  UNCHANGED reader
    BY <1>9 DEF RegisterCheck, RegisterAdd, Reject, ClaimHost, StartGame, PeerGone,
         WriterExits, Reap, CloseClient
  <1>10. ASSUME \/ FanOut \/ GameEvent \/ CloseFlag \/ CloseUnsubscribe \/ CloseCancel
               \/ UNCHANGED vars
         PROVE  UNCHANGED reader
    BY <1>10 DEF FanOut, GameEvent, CloseFlag, CloseUnsubscribe, CloseCancel, vars
  <1> QED
    BY <1>4, <1>5, <1>6, <1>7, <1>8, <1>9, <1>10
    DEF Next, Registering, Handling, Peer, JoinPlayer, CreateSession

\* The fan-out indices hold added clients: Register adds before it indexes, and
\* only handlers of added clients, and the clients they have listed, are indexed.
LEMMA IndicesStep ==
  ASSUME Inv, Known, [Next]_vars
  PROVE  publics' \subseteq Added' /\ Indexed' \subseteq Added'
  <1>0. Shape /\ Cases /\ Added \subseteq Added'
    BY StepCases, AddedGrows DEF Inv
  <1>1. CASE UNCHANGED registry
    BY <1>0, <1>1 DEF Known, registry, Indexed
  <1>2. ASSUME NEW c, Unregister(c)
        PROVE  publics' \subseteq Added' /\ Indexed' \subseteq Added'
    BY <1>0, <1>1, <1>2 DEF Unregister, Known, Indexed, Shape
  <1>3. ASSUME NEW c \in Clients, RegisterAdd(c)
        PROVE  publics' \subseteq Added' /\ Indexed' \subseteq Added'
    <2>1. c \in Added'
      BY <1>0, <1>3 DEF RegisterAdd, Shape, Added
    <2> QED BY <1>0, <1>3, <2>1 DEF RegisterAdd, Known, Indexed
  <1>4. ASSUME NEW c \in Clients, BindPlayer(c)
        PROVE  publics' \subseteq Added' /\ Indexed' \subseteq Added'
    <2>1. c \in Added'
      BY <1>0, <1>4, LoopsAreAdded DEF BindPlayer
    <2>2. publics' = publics \ {c} /\ \E p : byPlayerID' = [byPlayerID EXCEPT ![p] = c]
      BY <1>4 DEF BindPlayer
    <2> QED BY <1>0, <2>1, <2>2 DEF Known, Indexed, Shape
  <1>5. ASSUME NEW c \in Clients, Demote(c)
        PROVE  publics' \subseteq Added' /\ Indexed' \subseteq Added'
    <2>1. PICK d \in reader[c].todo :
            /\ byPlayerID' = [p \in PlayerIDs |->
                 IF p = pid[d] /\ byPlayerID[p] = d THEN NoClient ELSE byPlayerID[p]]
            /\ publics' = publics \cup {d}
      BY <1>5 DEF Demote, BecomePublic
    <2> QED BY <1>0, <2>1 DEF Known, Indexed
  <1> QED
    BY <1>0, <1>1, <1>2, <1>3, <1>4, <1>5
    DEF Cases, Quiet, LoopMoves, Removal, RegisterCheck, RegisterPush, Evict, ReaderExits

\* Every step addresses added clients only.
LEMMA KnownStep == ASSUME Inv, Known, [Next]_vars PROVE Known'
  <1>1. Added \subseteq Added'
    BY AddedGrows
  <1>2. publics' \subseteq Added' /\ Indexed' \subseteq Added'
    BY IndicesStep
  <1>3. \A c \in Clients : reader'[c].todo \subseteq Added'
    BY <1>1, ListedCases DEF Known
  <1>4. pub'.targets \subseteq Added'
    <2>1. pub'.targets \in {pub.targets, {}, publics}
      BY DispatchCases DEF NoDispatch
    <2> QED BY <1>1, <2>1 DEF Known
  <1> QED BY <1>2, <1>3, <1>4 DEF Known

\* The sockets, the seat, the dispatch and Close's own variables keep their types.
LEMMA RestStep == ASSUME Inv, Known, Rest, [Next]_vars PROVE Rest'
  <1>0. Shape
    BY DEF Inv
  <1>1. pub' \in [busy : BOOLEAN, by : Clients \cup {NoClient}, targets : SUBSET Clients]
    <2>1. publics \subseteq Clients
      BY DEF Known, Added
    <2>2. NoDispatch \in [busy : BOOLEAN, by : Clients \cup {NoClient}, targets : SUBSET Clients]
      BY DEF NoDispatch
    <2>3. \A by \in Clients \cup {NoClient} :
            [busy |-> TRUE, by |-> by, targets |-> publics]
              \in [busy : BOOLEAN, by : Clients \cup {NoClient}, targets : SUBSET Clients]
      BY <2>1
    <2> QED BY <2>2, <2>3, DispatchCases DEF Rest
  <1>2. sock' \in [Clients -> {"NEW", "OPEN", "CLOSED"}]
    <2>1. \/ UNCHANGED sock
          \/ \E c \in Clients, x \in {"OPEN", "CLOSED"} : sock' = [sock EXCEPT ![c] = x]
      <3>1. ASSUME NEW c, Unregister(c)
            PROVE  \/ UNCHANGED sock
                   \/ c \in Clients /\ sock' = [sock EXCEPT ![c] = "CLOSED"]
        BY <1>0, <3>1 DEF Unregister, Shape
      <3>2. ASSUME NEW c \in Clients, RegisterCheck(c) \/ WriterExits(c) \/ PeerGone(c)
            PROVE  \E x \in {"OPEN", "CLOSED"} : sock' = [sock EXCEPT ![c] = x]
        BY <3>2 DEF RegisterCheck, WriterExits, PeerGone
      <3>3. ASSUME NEW c \in Clients,
                   \/ Registering(c) \/ BindPlayer(c) \/ BroadcastRoomOpened(c)
                   \/ BroadcastRoomClosed(c) \/ Demote(c)
                   \/ Reject(c) \/ ClaimHost(c) \/ StartGame(c) \/ OpenRoom(c)
                   \/ HostCloseRoom(c) \/ JoinPlayer(c) \/ CreateSession(c)
                   \/ (\E p \in PlayerIDs : ResumePlayer(c, p))
            PROVE  UNCHANGED sock
        BY <3>3 DEF Registering, RegisterAdd, RegisterPush, BindPlayer,
             BroadcastRoomOpened, BroadcastRoomClosed, Demote, Reject, ClaimHost,
             StartGame, OpenRoom, HostCloseRoom, JoinPlayer, CreateSession, EnterLobby,
             ResumePlayer
      <3>4. ASSUME \/ FanOut \/ GameEvent \/ CloseFlag \/ CloseUnsubscribe
                   \/ CloseCancel \/ UNCHANGED vars
            PROVE  UNCHANGED sock
        BY <3>4 DEF FanOut, GameEvent, CloseFlag, CloseUnsubscribe, CloseCancel, vars
      <3>5. ASSUME NEW c \in Clients,
                   Evict(c) \/ ReaderExits(c) \/ Reap(c) \/ CloseClient(c)
            PROVE  \E d : Unregister(d)
        BY <3>5 DEF Evict, ReaderExits, Reap, CloseClient
      <3> QED BY <3>1, <3>2, <3>3, <3>4, <3>5 DEF Next, Handling, Peer
    <2> QED BY <2>1 DEF Rest
  <1>3. seat' \in Clients \cup {NoClient}
    <2>1. ASSUME NEW c \in Clients, ClaimHost(c) \/ ReaderExits(c)
          PROVE  seat' \in {seat, c, NoClient}
      BY <2>1 DEF ClaimHost, ReaderExits, SeatAfter
    <2>2. ASSUME NEW c \in Clients,
                 \/ Registering(c) \/ BindPlayer(c) \/ Evict(c) \/ BroadcastRoomOpened(c)
                 \/ BroadcastRoomClosed(c) \/ Demote(c) \/ WriterExits(c) \/ Reap(c)
                 \/ CloseClient(c) \/ RegisterCheck(c) \/ Reject(c) \/ OpenRoom(c)
                 \/ HostCloseRoom(c) \/ PeerGone(c) \/ StartGame(c) \/ JoinPlayer(c)
                 \/ CreateSession(c) \/ (\E p \in PlayerIDs : ResumePlayer(c, p))
          PROVE  UNCHANGED seat
      BY <2>2 DEF Registering, RegisterAdd, RegisterPush, BindPlayer, Evict,
           BroadcastRoomOpened, BroadcastRoomClosed, Demote, WriterExits, Reap,
           CloseClient, RegisterCheck, Reject, OpenRoom, HostCloseRoom, PeerGone,
           StartGame, JoinPlayer, CreateSession, EnterLobby, ResumePlayer, session
    <2>3. ASSUME \/ FanOut \/ GameEvent \/ CloseFlag \/ CloseUnsubscribe \/ CloseCancel
                 \/ UNCHANGED vars
          PROVE  UNCHANGED seat
      BY <2>3 DEF FanOut, GameEvent, CloseFlag, CloseUnsubscribe, CloseCancel, vars, session
    <2> QED BY <2>1, <2>2, <2>3 DEF Next, Handling, Peer, Rest
  <1>4. /\ closing' \in {"OPEN", "FLAGGED", "SWEEPING", "DONE"}
        /\ closeList' \subseteq Clients
    <2>1. CASE UNCHANGED hubVars
      BY <2>1 DEF hubVars, Rest
    <2>2. CASE CloseFlag \/ CloseUnsubscribe \/ CloseCancel \/ \E c \in Clients : CloseClient(c)
      BY <1>0, <2>2
      DEF CloseFlag, CloseUnsubscribe, CloseCancel, CloseClient, Rest, Shape
    <2>3. ASSUME NEW c \in Clients,
                 Registering(c) \/ Handling(c) \/ Peer(c) \/ WriterExits(c) \/ Reap(c)
          PROVE  UNCHANGED hubVars
      <3>1. CASE Registering(c) \/ Handling(c) \/ WriterExits(c) \/ Reap(c)
        BY <3>1 DEF Registering, RegisterAdd, RegisterPush, Handling, BindPlayer, Evict,
             BroadcastRoomOpened, BroadcastRoomClosed, Demote, ReaderExits, WriterExits,
             Reap
      <3>2. CASE Peer(c)
        BY <3>2 DEF Peer, RegisterCheck, JoinPlayer, CreateSession, EnterLobby,
             ResumePlayer, Reject, ClaimHost, OpenRoom, StartGame, HostCloseRoom, PeerGone
      <3> QED BY <2>3, <3>1, <3>2
    <2>4. FanOut \/ GameEvent \/ UNCHANGED vars => UNCHANGED hubVars
      BY DEF FanOut, GameEvent, vars
    <2> QED BY <2>1, <2>2, <2>3, <2>4 DEF Next
  <1> QED BY <1>1, <1>2, <1>3, <1>4 DEF Rest

\* An enqueue to added clients spawns an Unregister for registered ones only,
\* and not for those unregistered in the same step.
LEMMA EnqueueReaps ==
  ASSUME Reaped, NEW to, NEW but, to \subseteq Added, Enqueue(to, but),
         byID \ but \subseteq byID'
  PROVE  Reaped'
  BY DEF Reaped, Enqueue, Live, Cancelled, Added

\* Every step forgets the spawned Unregister of a client it removes.
LEMMA ReapedStep == ASSUME Inv, Known, Reaped, [Next]_vars PROVE Reaped'
  <1>0. Shape
    BY DEF Inv
  <1>a. ASSUME NEW c, Unregister(c) PROVE byID' = byID \ {c}
    BY <1>a DEF Unregister, registry
  <1>b. ASSUME UNCHANGED <<byID, reapers>> PROVE Reaped'
    BY <1>b DEF Reaped
  <1>c. ASSUME NEW c \in Clients, reader[c].at # "NONE" PROVE {c} \subseteq Added
    BY <1>c, LoopsAreAdded
  <1> USE DEF registry
  <1>1. ASSUME NEW c \in Clients, RegisterAdd(c) \/ RegisterCheck(c) PROVE Reaped'
    BY <1>1 DEF RegisterAdd, RegisterCheck, Reaped
  <1>2. ASSUME NEW c \in Clients, RegisterPush(c) PROVE Reaped'
    <2>1. {c} \subseteq Added
      BY <1>2 DEF RegisterPush, Added
    <2> QED BY <1>2, <2>1, EnqueueReaps DEF RegisterPush
  <1>3. ASSUME NEW c \in Clients, BindPlayer(c) PROVE Reaped'
    <2>1. {c} \subseteq Added /\ byID' = byID
      BY <1>3, <1>c DEF BindPlayer
    <2>2. Enqueue({c}, {}) \/ UNCHANGED reapers
      BY <1>3 DEF BindPlayer, Reply
    <2> QED BY <1>b, <2>1, <2>2, EnqueueReaps
  <1>4. ASSUME NEW c \in Clients, Evict(c) PROVE Reaped'
    <2>1. {c} \subseteq Added /\ Unregister(reader[c].old) /\ Enqueue({c}, {reader[c].old})
      BY <1>4, <1>c DEF Evict, Reply
    <2> QED BY <1>a, <2>1, EnqueueReaps
  <1>5. ASSUME NEW c \in Clients, Reject(c) \/ ClaimHost(c) PROVE Reaped'
    <2>1. {c} \subseteq Added /\ byID' = byID /\ Enqueue({c}, {})
      BY <1>5, <1>c DEF Reject, ClaimHost, Reading
    <2> QED BY <2>1, EnqueueReaps
  <1>6. ASSUME NEW c \in Clients, BroadcastRoomOpened(c) \/ BroadcastRoomClosed(c)
        PROVE  Reaped'
    <2>1. publics \subseteq Added /\ publics \cup Indexed \subseteq Added
      BY DEF Known
    <2>2. byID' = byID /\ (Enqueue(publics, {}) \/ Enqueue(publics \cup Indexed, {}))
      BY <1>6 DEF BroadcastRoomOpened, BroadcastRoomClosed
    <2> QED BY <2>1, <2>2, EnqueueReaps
  <1>7. CASE FanOut
    <2>1. pub.targets \cup Indexed \cup publics \subseteq Added
      BY DEF Known
    <2> QED BY <1>7, <2>1, EnqueueReaps DEF FanOut
  <1>8. ASSUME NEW c \in Clients, Demote(c) PROVE Reaped'
    <2>1. PICK d \in reader[c].todo : Enqueue({d}, {})
      BY <1>8 DEF Demote
    <2>2. {d} \subseteq Added /\ byID' = byID
      BY <1>8 DEF Known, Demote
    <2> QED BY <2>1, <2>2, EnqueueReaps
  <1>9. ASSUME NEW c \in Clients, ReaderExits(c) \/ Reap(c) \/ CloseClient(c)
        PROVE  Reaped'
    <2>1. Unregister(c) /\ reapers' = reapers \ {c}
      BY <1>9 DEF ReaderExits, Reap, CloseClient
    <2> QED BY <1>a, <2>1 DEF Reaped
  <1>10. ASSUME NEW c \in Clients,
                \/ JoinPlayer(c) \/ CreateSession(c) \/ OpenRoom(c) \/ StartGame(c)
                \/ HostCloseRoom(c) \/ PeerGone(c) \/ WriterExits(c)
                \/ (\E p \in PlayerIDs : ResumePlayer(c, p))
         PROVE  Reaped'
    BY <1>10, <1>b DEF JoinPlayer, CreateSession, EnterLobby, OpenRoom, StartGame,
         HostCloseRoom, PeerGone, WriterExits, ResumePlayer
  <1>11. CASE GameEvent \/ CloseFlag \/ CloseUnsubscribe \/ CloseCancel \/ UNCHANGED vars
    BY <1>11, <1>b DEF GameEvent, CloseFlag, CloseUnsubscribe, CloseCancel, vars
  <1> QED
    BY <1>1, <1>2, <1>3, <1>4, <1>5, <1>6, <1>7, <1>8, <1>9, <1>10, <1>11
    DEF Next, Registering, Handling, Peer

\* Every goroutine of the hub keeps every field well-typed, for every set of
\* connections; and the goroutines that enqueue spawns to unregister a slow
\* client stand for registered clients only, whatever they interleave with.
THEOREM HubTypeCorrect == Spec => []TypeOK
  <1> DEFINE I == Known /\ Rest /\ Reaped
  <1>1. Init => I
    <2> SUFFICES ASSUME Init PROVE I
      OBVIOUS
    <2>1. Known /\ Reaped
      BY DEF Init, Known, Reaped, Indexed, At, NoDispatch
    <2>2. Rest
      BY DEF Init, Rest, NoDispatch
    <2> QED BY <2>1, <2>2
  <1>2. Inv /\ I /\ [Next]_vars => I'
    BY KnownStep, RestStep, ReapedStep
  <1>3. Inv /\ I => TypeOK
    BY DEF Inv, Shape, Rest, Known, Added, Reaped, TypeOK, Readers, Points, Regs, Rooms
  <1> HIDE DEF I
  <1>4. Spec => []I
    BY <1>1, <1>2, InvHolds, PTL DEF Spec
  <1> QED BY <1>3, <1>4, InvHolds, PTL
=============================================================================
