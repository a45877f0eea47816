--------------------------------- MODULE Hub ---------------------------------
(***************************************************************************)
(* The WebSocket hub of internal/transport/ws: the client registry with    *)
(* its three indices, Register and Unregister, the read and the write      *)
(* goroutine of every connection, the fan-out of session events, the two   *)
(* room broadcasts, and Close.                                             *)
(*                                                                         *)
(* The session is kept to what the hub sees of it: the GM lock (held from  *)
(* a state change to the end of its dispatch), the room, its players and a *)
(* version that counts the changes. Module Session has the rest.           *)
(*                                                                         *)
(* A goroutine's step ends where another one can make a difference: where  *)
(* the GM lock is released between a session call and what the handler     *)
(* does with its result, where the registry lock is released between two   *)
(* uses of what was read under it, and before an Unregister.               *)
(*                                                                         *)
(* What the messages say is module Viewers' subject; here a message is     *)
(* what may find a send channel full. How full it is depends on the peer's *)
(* speed alone: each message may.                                          *)
(***************************************************************************)
EXTENDS Naturals, FiniteSets

CONSTANTS Clients,      \* the connections; each registers at most once
          NoClient,
          MinPlayers,   \* the session's minimum to start
          MaxPlayers,   \* bound on the player IDs minted
          MaxVersion    \* bound on the joins, starts, openings and closings of a room

ASSUME HubAssumption ==
  /\ NoClient \notin Clients
  /\ MinPlayers \in Nat /\ MaxPlayers \in Nat /\ MaxVersion \in Nat

PlayerIDs == 1 .. MaxPlayers
NoPlayer == 0                     \* the empty PlayerID

VARIABLES
  byID, byPlayerID, publics,      \* the registry's indices
  pid,                            \* Client.PlayerID; Kind is PLAYER iff it is set
  sock,                           \* the connection: NEW, OPEN or CLOSED
  reg, reader,                    \* progress of Register and of the read loop
  reapers,                        \* clients with a `go h.Unregister' to come
  closing, closeList,             \* progress of Close, and the clients it found
  seat,                           \* the client whose HostToken is the seat's
  room, nextID, pub               \* the session, and the dispatch under its lock

registry == <<byID, byPlayerID, publics>>
hubVars == <<closing, closeList>>
session == <<seat, room, nextID, pub>>
vars == <<registry, pid, sock, reg, reader, reapers, hubVars, session>>

EmptyRoom == [open |-> FALSE, members |-> {}, host |-> NoPlayer, phase |-> "LOBBY",
              ver |-> 0]
NoDispatch == [busy |-> FALSE, by |-> NoClient, targets |-> {}]

\* A read loop at point a of its program, and one that is to bind player p.
At(a) == [at |-> a, player |-> NoPlayer, old |-> NoClient, todo |-> {}]
Binding(p) == [at |-> "BIND", player |-> p, old |-> NoClient, todo |-> {}]
AtRead == At("READ")

-----------------------------------------------------------------------------
(* Registry and send queues *)

\* A context that Unregister alone cancels.
CancelledDetached(c) == reg[c].at \in {"PUSH", "DONE"} /\ c \notin byID

\* Client.ctx is done: the client was unregistered, or Close has cancelled the
\* root context it is derived from.
Cancelled(c) == reg[c].at \in {"PUSH", "DONE"} /\ (c \notin byID \/ closing = "DONE")

\* Unregister: registry.remove, then cancel and close. A second call finds
\* nothing to remove and does nothing, so that a spawned one is forgotten here.
Unregister(c) ==
  IF c \in byID
    THEN /\ byID' = byID \ {c}
         /\ publics' = publics \ {c}
         /\ byPlayerID' = [p \in PlayerIDs |->
              IF p = pid[c] /\ byPlayerID[p] = c THEN NoClient ELSE byPlayerID[p]]
         /\ sock' = [sock EXCEPT ![c] = "CLOSED"]
    ELSE UNCHANGED <<registry, sock>>

\* An enqueue that does not look at the context.
AlwaysLive(c) == TRUE

\* enqueue drops what is sent to a cancelled client.
Live(c) == ~Cancelled(c)

\* enqueue of a message to the clients of `to'. A cancelled client gets nothing;
\* one whose buffer is full loses the message and is to be unregistered by a
\* goroutine of its own. `but' are the clients unregistered in the same step.
Enqueue(to, but) ==
  \E full \in SUBSET {c \in to \ but : Live(c)} :
     reapers' = (reapers \cup full) \ but

Indexed == {byPlayerID[p] : p \in PlayerIDs} \ {NoClient}

-----------------------------------------------------------------------------
(* Register *)

\* Register reads the closed flag.
RegisterCheck(c) ==
  /\ reg[c].at = "NONE" /\ closing = "OPEN"
  /\ reg' = [reg EXCEPT ![c].at = "ADD"]
  /\ sock' = [sock EXCEPT ![c] = "OPEN"]
  /\ UNCHANGED <<registry, pid, reader, reapers, hubVars, session>>

\* Register adds a new PUBLIC client, enqueues the welcome and takes the
\* room's state under the GM lock; it is to be pushed if the room is open.
RegisterAdd(c) ==
  /\ reg[c].at = "ADD" /\ ~pub.busy
  /\ byID' = byID \cup {c} /\ publics' = publics \cup {c}
  /\ reg' = [reg EXCEPT ![c] = [at |-> "PUSH"]]
  /\ UNCHANGED <<byPlayerID, pid, sock, reader, reapers, hubVars, session>>

\* Register pushes that state (pushRoomState) and starts the two loops.
RegisterPush(c) ==
  /\ reg[c].at = "PUSH"
  /\ Enqueue({c}, {})
  /\ reg' = [reg EXCEPT ![c].at = "DONE"]
  /\ reader' = [reader EXCEPT ![c] = AtRead]
  /\ UNCHANGED <<registry, pid, sock, hubVars, session>>

-----------------------------------------------------------------------------
(* Session events: dispatch under the GM lock *)

Subscribed == closing \in {"OPEN", "FLAGGED"}

\* The session changes, and publishes its events. The handler takes the PUBLIC
\* clients first.
Publish(by) ==
  pub' = IF Subscribed THEN [busy |-> TRUE, by |-> by, targets |-> publics] ELSE pub

\* onEvent goes on: the PLAYER clients, and then the announcement, for which it
\* takes the PUBLIC clients once more.
FanOut ==
  /\ pub.busy
  /\ Enqueue(pub.targets \cup Indexed \cup publics, {})
  /\ pub' = NoDispatch
  /\ UNCHANGED <<registry, pid, sock, reg, reader, hubVars, seat, room, nextID>>

\* A tick or an accepted action changes the game, perhaps ends it, and is
\* published.
GameEvent ==
  /\ ~pub.busy /\ room.phase = "PLAY"
  /\ \E ph \in {"PLAY", "END"} : room' = [room EXCEPT !.phase = ph]
  /\ Publish(NoClient)
  /\ UNCHANGED <<registry, pid, sock, reg, reader, reapers, hubVars, seat, nextID>>

-----------------------------------------------------------------------------
(* The read loop: handleIncoming *)

Reading(c) == reader[c].at = "READ" /\ sock[c] = "OPEN"
ReaderMoves(c, r) == reader' = [reader EXCEPT ![c] = r]

\* JoinPlayer and CreateSession admit a new player, publish it, and leave the
\* handler with the new ID to bind.
EnterLobby(c, host) ==
  /\ Reading(c) /\ ~pub.busy
  /\ room.phase # "PLAY" /\ nextID \in PlayerIDs /\ room.ver < MaxVersion
  /\ room' = [room EXCEPT !.members = @ \cup {nextID}, !.host = host, !.ver = @ + 1]
  /\ nextID' = nextID + 1
  /\ Publish(c)
  /\ ReaderMoves(c, Binding(nextID))
  /\ UNCHANGED <<registry, pid, sock, reg, reapers, hubVars, seat>>

JoinPlayer(c) == (room.members # {} \/ room.open) /\ EnterLobby(c, room.host)

CreateSession(c) == room.members = {} /\ EnterLobby(c, nextID)

\* ResumePlayer finds the member and copies the state to push.
ResumePlayer(c, p) ==
  /\ Reading(c) /\ ~pub.busy /\ p \in room.members
  /\ ReaderMoves(c, Binding(p))
  /\ UNCHANGED <<registry, pid, sock, reg, reapers, hubVars, session>>

\* `joined', and after a resume the snapshot taken earlier.
Reply(c, but) ==
  /\ Enqueue({c}, but)
  /\ ReaderMoves(c, AtRead)

\* A takeover that nobody notices.
NoPrior(c, p) == NoClient

\* The client that another one takes the player over from.
PriorClient(c, p) == IF byPlayerID[p] # c THEN byPlayerID[p] ELSE NoClient

\* registry.bindPlayer; respondJoin answers at once when nobody is evicted.
BindPlayer(c) ==
  /\ reader[c].at = "BIND" /\ pub.by # c
  /\ LET p == reader[c].player
         old == PriorClient(c, p)
     IN /\ publics' = publics \ {c}
        /\ pid' = [pid EXCEPT ![c] = p]
        /\ byPlayerID' = [byPlayerID EXCEPT ![p] = c]
        /\ IF old = NoClient
             THEN Reply(c, {})
             ELSE /\ ReaderMoves(c, [reader[c] EXCEPT !.at = "EVICT", !.old = old])
                  /\ UNCHANGED <<reapers>>
  /\ UNCHANGED <<byID, sock, reg, hubVars, session>>

\* Last connect wins: the prior client is unregistered, then the new one gets
\* its answer.
Evict(c) ==
  /\ reader[c].at = "EVICT"
  /\ Unregister(reader[c].old)
  /\ Reply(c, {reader[c].old})
  /\ UNCHANGED <<pid, reg, hubVars, session>>

\* A rejected message: an `error' and perhaps an announcement.
Reject(c) ==
  /\ Reading(c)
  /\ Enqueue({c}, {})
  /\ UNCHANGED <<registry, pid, sock, reg, reader, hubVars, session>>

\* host:claim, with the token or room:host-occupied as the answer. The seat has
\* a lock of its own.
ClaimHost(c) ==
  /\ Reading(c)
  /\ seat' = IF seat = NoClient THEN c ELSE seat
  /\ Enqueue({c}, {})
  /\ UNCHANGED <<registry, pid, sock, reg, reader, hubVars, room, nextID, pub>>

Verify(c) == seat = c

\* host:open-room; the handler goes on to broadcastRoomOpened.
OpenRoom(c) ==
  /\ Reading(c) /\ ~pub.busy /\ Verify(c)
  /\ room.phase # "PLAY" /\ room.members = {} /\ room.ver < MaxVersion
  /\ room' = [room EXCEPT !.open = TRUE, !.host = NoPlayer, !.ver = @ + 1]
  /\ ReaderMoves(c, At("OPENED"))
  /\ UNCHANGED <<registry, pid, sock, reg, reapers, hubVars, seat, nextID, pub>>

BroadcastRoomOpened(c) ==
  /\ reader[c].at = "OPENED"
  /\ Enqueue(publics \cup Indexed, {})
  /\ ReaderMoves(c, AtRead)
  /\ UNCHANGED <<registry, pid, sock, reg, hubVars, session>>

\* host:start-room and host:start: Engine.Start's events, each player's role
\* among them.
StartGame(c) ==
  /\ Reading(c) /\ ~pub.busy
  /\ (Verify(c) /\ room.open) \/ pid[c] = room.host
  /\ room.phase = "LOBBY" /\ Cardinality(room.members) >= MinPlayers
  /\ room.ver < MaxVersion
  /\ room' = [room EXCEPT !.phase = "PLAY", !.ver = @ + 1]
  /\ Publish(c)
  /\ UNCHANGED <<registry, pid, sock, reg, reader, reapers, hubVars, seat, nextID>>

\* host:close-room; the handler goes on to broadcastRoomClosed.
HostCloseRoom(c) ==
  /\ Reading(c) /\ ~pub.busy /\ Verify(c) /\ room.ver < MaxVersion
  /\ room' = [EmptyRoom EXCEPT !.ver = room.ver + 1]
  /\ ReaderMoves(c, At("CLOSED"))
  /\ UNCHANGED <<registry, pid, sock, reg, reapers, hubVars, seat, nextID, pub>>

\* broadcastRoomClosed: the PUBLIC clients are told, the PLAYER ones listed.
BroadcastRoomClosed(c) ==
  /\ reader[c].at = "CLOSED"
  /\ Enqueue(publics, {})
  /\ ReaderMoves(c, IF Indexed = {} THEN AtRead
                    ELSE [At("DEMOTE") EXCEPT !.todo = Indexed])
  /\ UNCHANGED <<registry, pid, sock, reg, hubVars, session>>

\* A demotion that forgets the index of the PUBLIC clients.
UnbindOnly(d) == publics' = publics

\* registry.unbindPlayer makes the client a PUBLIC one.
BecomePublic(d) == publics' = publics \cup {d}

\* broadcastRoomClosed, one listed client: enqueue and registry.unbindPlayer.
Demote(c) ==
  /\ reader[c].at = "DEMOTE"
  /\ \E d \in reader[c].todo :
       /\ Enqueue({d}, {})
       /\ byPlayerID' = [p \in PlayerIDs |->
            IF p = pid[d] /\ byPlayerID[p] = d THEN NoClient ELSE byPlayerID[p]]
       /\ pid' = [pid EXCEPT ![d] = NoPlayer]
       /\ BecomePublic(d)
       /\ ReaderMoves(c, IF reader[c].todo = {d} THEN AtRead
                         ELSE [reader[c] EXCEPT !.todo = @ \ {d}])
  /\ UNCHANGED <<byID, sock, reg, hubVars, session>>

\* A deferred function that forgets the seat.
SeatKept(c) == seat

\* The deferred function of readLoop releases the seat ...
SeatAfter(c) == IF seat = c THEN NoClient ELSE seat

\* ... and unregisters the client, once ReadMessage fails on the connection.
ReaderExits(c) ==
  /\ reader[c].at = "READ" /\ sock[c] = "CLOSED"
  /\ seat' = SeatAfter(c)
  /\ Unregister(c)
  /\ reapers' = reapers \ {c}
  /\ ReaderMoves(c, At("DONE"))
  /\ UNCHANGED <<pid, reg, hubVars, room, nextID, pub>>

-----------------------------------------------------------------------------
(* The write loop, the spawned Unregister, the peer, and Close *)

\* writeLoop finds the context done and closes the connection.
WriterExits(c) ==
  /\ reg[c].at = "DONE" /\ sock[c] = "OPEN" /\ Cancelled(c)
  /\ sock' = [sock EXCEPT ![c] = "CLOSED"]
  /\ UNCHANGED <<registry, pid, reg, reader, reapers, hubVars, session>>

\* The goroutine that enqueue spawns.
Reap(c) ==
  /\ c \in reapers
  /\ reapers' = reapers \ {c}
  /\ Unregister(c)
  /\ UNCHANGED <<pid, reg, reader, hubVars, session>>

\* The peer leaves, or a deadline on the connection expires.
PeerGone(c) ==
  /\ sock[c] = "OPEN"
  /\ sock' = [sock EXCEPT ![c] = "CLOSED"]
  /\ UNCHANGED <<registry, pid, reg, reader, reapers, hubVars, session>>

\* Close: the flag, ...
CloseFlag ==
  /\ closing = "OPEN" /\ closing' = "FLAGGED"
  /\ UNCHANGED <<registry, pid, sock, reg, reader, reapers, closeList, session>>

\* ... the subscription, under the GM lock, and the clients to unregister, ...
CloseUnsubscribe ==
  /\ closing = "FLAGGED" /\ ~pub.busy /\ closing' = "SWEEPING"
  /\ closeList' = byID
  /\ UNCHANGED <<registry, pid, sock, reg, reader, reapers, session>>

\* ... one after the other, ...
CloseClient(c) ==
  /\ closing = "SWEEPING" /\ c \in closeList
  /\ Unregister(c)
  /\ reapers' = reapers \ {c}
  /\ closeList' = closeList \ {c}
  /\ UNCHANGED <<pid, reg, reader, closing, session>>

\* ... and last the root context.
CloseCancel ==
  /\ closing = "SWEEPING" /\ closeList = {} /\ closing' = "DONE"
  /\ UNCHANGED <<registry, pid, sock, reg, reader, reapers, closeList, session>>

-----------------------------------------------------------------------------
Init ==
  /\ byID = {} /\ publics = {} /\ byPlayerID = [p \in PlayerIDs |-> NoClient]
  /\ pid = [c \in Clients |-> NoPlayer]
  /\ sock = [c \in Clients |-> "NEW"]
  /\ reg = [c \in Clients |-> [at |-> "NONE"]]
  /\ reader = [c \in Clients |-> At("NONE")]
  /\ reapers = {}
  /\ closing = "OPEN" /\ closeList = {}
  /\ seat = NoClient /\ room = EmptyRoom /\ nextID = 1 /\ pub = NoDispatch

Registering(c) == RegisterAdd(c) \/ RegisterPush(c)
Handling(c) ==
  \/ BindPlayer(c) \/ Evict(c) \/ BroadcastRoomOpened(c)
  \/ BroadcastRoomClosed(c) \/ Demote(c) \/ ReaderExits(c)

\* What depends on a peer: connecting, sending, leaving.
Peer(c) ==
  \/ RegisterCheck(c) \/ JoinPlayer(c) \/ CreateSession(c)
  \/ \E p \in PlayerIDs : ResumePlayer(c, p)
  \/ Reject(c) \/ ClaimHost(c) \/ OpenRoom(c) \/ StartGame(c) \/ HostCloseRoom(c)
  \/ PeerGone(c)

Next ==
  \/ \E c \in Clients : \/ Registering(c) \/ Handling(c) \/ Peer(c)
                        \/ WriterExits(c) \/ Reap(c) \/ CloseClient(c)
  \/ FanOut \/ GameEvent \/ CloseFlag \/ CloseUnsubscribe \/ CloseCancel

Spec == Init /\ [][Next]_vars

\* The Go scheduler runs every goroutine that can run, and the GM lock comes
\* free because a dispatch never blocks. Nothing is asked of the peers.
Fairness ==
  /\ WF_vars(FanOut) /\ WF_vars(CloseUnsubscribe \/ CloseCancel)
  /\ \A c \in Clients :
       /\ WF_vars(Registering(c))
       /\ WF_vars(Handling(c)) /\ WF_vars(WriterExits(c)) /\ WF_vars(Reap(c))
       /\ WF_vars(CloseClient(c))

FairSpec == Spec /\ Fairness

-----------------------------------------------------------------------------
(* Properties *)

\* The indices hold clients, a client's fields are in range, and every
\* goroutine is at one of its program points.
TypeOK ==
  /\ byID \subseteq Clients /\ publics \subseteq Clients
  /\ byPlayerID \in [PlayerIDs -> Clients \cup {NoClient}]
  /\ pid \in [Clients -> 0 .. MaxPlayers]
  /\ sock \in [Clients -> {"NEW", "OPEN", "CLOSED"}]
  /\ reg \in [Clients -> [at : {"NONE", "ADD", "PUSH", "DONE"}]]
  /\ reader \in [Clients -> [
       at : {"NONE", "READ", "BIND", "EVICT", "OPENED", "CLOSED", "DEMOTE", "DONE"},
       player : 0 .. MaxPlayers, old : Clients \cup {NoClient},
       todo : SUBSET Clients]]
  /\ reapers \subseteq byID /\ closeList \subseteq Clients
  /\ closing \in {"OPEN", "FLAGGED", "SWEEPING", "DONE"}
  /\ seat \in Clients \cup {NoClient}
  /\ room \in [open : BOOLEAN, members : SUBSET PlayerIDs, host : 0 .. MaxPlayers,
               phase : {"LOBBY", "PLAY", "END"}, ver : 0 .. MaxVersion]
  /\ nextID \in 1 .. MaxPlayers + 1
  /\ pub \in [busy : BOOLEAN, by : Clients \cup {NoClient}, targets : SUBSET Clients]

\* A handler has taken over the player of c and is about to unregister c.
BeingEvicted(c) == \E d \in Clients : reader[d].at = "EVICT" /\ reader[d].old = c

\* Binding, demotion, eviction and removal, in any order, leave no registered
\* client outside both fan-out indices: until it is evicted it is a PUBLIC
\* client or the one indexed under its player, so public events reach it.
NoOrphan ==
  \A c \in byID : \/ c \in publics
                  \/ pid[c] # NoPlayer /\ byPlayerID[pid[c]] = c
                  \/ BeingEvicted(c)

\* Last connect wins: two registered clients never stand for the same player
\* once the handler that bound the later one has evicted the other.
LastConnectWins ==
  \A c, d \in byID : c # d /\ pid[c] = pid[d] /\ pid[c] # NoPlayer
                       => BeingEvicted(c) \/ BeingEvicted(d)

\* A connection that is lost leaves the registry and gives the GM seat back,
\* however its goroutines interleave with evictions, broadcasts and Close.
DeadConnectionsLeave ==
  \A c \in Clients : (sock[c] = "CLOSED" /\ reg[c].at = "DONE")
                       ~> (c \notin byID /\ seat # c /\ reader[c].at = "DONE")

\* Close leaves no registered client and no read loop behind, not even for a
\* connection that passed Register's check before the flag was set.
ClosedHubEmpties ==
  (closing = "DONE") ~> (byID = {} /\ \A c \in Clients :
                           reader[c].at \in {"NONE", "DONE"})

\* client.go: the registry "maintains three coordinated indices over the active
\* client set" and remove "drops the client from all indices". A client
\* unregistered between its session call and bindPlayer, or between the listing
\* of the players and unbindPlayer, is indexed again and never removed.
IndicesCoordinated ==
  /\ publics \subseteq byID
  /\ \A p \in PlayerIDs : byPlayerID[p] # NoClient => byPlayerID[p] \in byID
=============================================================================
