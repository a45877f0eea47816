----------------------------- MODULE GameSetup -----------------------------
(***************************************************************************)
(* From the settings form to the first INTRO: the GM seat                  *)
(* (session/host_authority.go), the host's commands with their check of    *)
(* the token before the session mutex is taken and their broadcasts after  *)
(* it is released, the options and their two validators, the lobby, and    *)
(* the deal of the roles (game/role.go).                                   *)
(*                                                                         *)
(* A token is drawn anew by every claim and kept by the connection that    *)
(* claimed, so the connection stands for it.  A member is its number in    *)
(* joining order.  Module Session has the same room with the store below   *)
(* it, module GameEngine the game that begins here.                        *)
(***************************************************************************)
EXTENDS Integers, FiniteSets

CONSTANTS
    Tabs,                      \* connections of /public pages
    NoTab,                     \* the empty HostToken
    Inputs,                    \* options that a form may send
    MinPlayers, MaxLobbySize,  \* SessionOpts
    Shuffles                   \* Shuffles[n]: the orders rng.Shuffle may produce

\* The limits written into Start and validateOptions.
Fewest == 6
Most == 12

OptionFields == {"maxPlayers", "mafiaCount", "introSecondsPerPlayer", "discussionSeconds",
                 "nightMafiaSeconds", "nightPoliceSeconds", "nightDoctorSeconds"}
Options == [OptionFields -> Int]

\* No room is announced, or nothing is saved.
NoOptions == [f \in OptionFields |-> -1]

IsOrder(s, n) == /\ s \in [1..n -> 1..n]
                 /\ \A i, j \in 1..n : s[i] = s[j] => i = j
                 /\ \A p \in 1..n : \E i \in 1..n : s[i] = p

ASSUME SetupAssumption ==
    /\ NoTab \notin Tabs
    /\ MinPlayers \in Nat /\ MaxLobbySize \in Nat \ {0}
    /\ \A o \in Inputs : o \in Options /\ o # NoOptions

ASSUME ShuffleAssumption ==
    \A n \in Fewest..Most : \A s \in Shuffles[n] : IsOrder(s, n)

VARIABLES
    seat,        \* hostAuthority.current
    doing,       \* doing[t]: the host command that t's read loop is in
    dropped,     \* connections that are gone while their read loop still runs
    opened, options, hostID, members,   \* RoomOpened, PendingOptions, HostID, Members
    saved,       \* savedHostOptions
    announced,   \* the options of the last room:opened, none after room:closed
    started, phase, settings, role      \* Started; Phase, Settings, Players[i].Role

roomVars == <<opened, options, hostID, members>>
gameVars == <<started, phase, settings, role>>
vars == <<seat, doing, dropped, roomVars, saved, announced, gameVars>>

Nothing == [op |-> "none", opts |-> NoOptions]
Commands == [op : {"none", "save", "open", "start", "close", "tell-open", "tell-closed"},
             opts : Inputs \cup {NoOptions}]

Init ==
    /\ seat = NoTab /\ doing = [t \in Tabs |-> Nothing] /\ dropped = {}
    /\ opened = FALSE /\ options = NoOptions /\ hostID = 0 /\ members = 0
    /\ saved = NoOptions /\ announced = NoOptions
    /\ started = FALSE /\ phase = "NONE" /\ settings = NoOptions /\ role = <<>>

-----------------------------------------------------------------------------
(* Options *)

\* Mutant: the citizens need not outnumber the mafia.
ValidateOptionsTies(o, n) ==
    /\ n \in Fewest..Most
    /\ o["maxPlayers"] # 0 => o["maxPlayers"] \in Fewest..Most /\ n <= o["maxPlayers"]
    /\ o["mafiaCount"] >= 1
    /\ n - o["mafiaCount"] >= o["mafiaCount"]
    /\ n - o["mafiaCount"] - 2 >= 1
    /\ o["introSecondsPerPlayer"] >= 5
    /\ o["discussionSeconds"] >= 30

\* validateOptions for n players
ValidateOptions(o, n) ==
    /\ n \in Fewest..Most
    /\ o["maxPlayers"] # 0 => o["maxPlayers"] \in Fewest..Most /\ n <= o["maxPlayers"]
    /\ o["mafiaCount"] >= 1
    /\ n - o["mafiaCount"] >= o["mafiaCount"] + 1
    /\ n - o["mafiaCount"] - 2 >= 1
    /\ o["introSecondsPerPlayer"] >= 5
    /\ o["discussionSeconds"] >= 30

ValidateSavedHostOptions(o) ==
    /\ o["maxPlayers"] \in Fewest..Most
    /\ o["mafiaCount"] \in 1..(o["maxPlayers"] - 3)
    /\ o["introSecondsPerPlayer"] >= 5
    /\ o["discussionSeconds"] >= 30
    /\ \A f \in {"nightMafiaSeconds", "nightPoliceSeconds", "nightDoctorSeconds"} : o[f] >= 5

\* nightStepSeconds of the three acting steps, with the package's defaults.
NightStepSeconds(o, f) ==
    IF o[f] > 0 THEN o[f] ELSE IF f = "nightMafiaSeconds" THEN 30 ELSE 10

RecommendedMafiaCount(n) == IF n <= 6 THEN 1 ELSE IF n <= 9 THEN 2 ELSE 3

DefaultOptions(n) ==
    [f \in OptionFields |->
        CASE f = "maxPlayers" -> 0
          [] f = "mafiaCount" -> RecommendedMafiaCount(n)
          [] f = "introSecondsPerPlayer" -> 20
          [] f = "discussionSeconds" -> 180
          [] OTHER -> NightStepSeconds(NoOptions, f)]

\* Assign's walk over the shuffled players: mafia, doctor, police, citizens.
Assign(order, mafiaCount) ==
    [p \in DOMAIN order |->
        LET i == CHOOSE k \in DOMAIN order : order[k] = p
        IN  CASE i <= mafiaCount     -> "MAFIA"
              [] i = mafiaCount + 1  -> "DOCTOR"
              [] i = mafiaCount + 2  -> "POLICE"
              [] OTHER               -> "CITIZEN"]

-----------------------------------------------------------------------------
(* The GM seat *)

Claim(t) ==
    /\ doing[t] = Nothing /\ t \notin dropped
    /\ seat = NoTab
    /\ seat' = t
    /\ UNCHANGED <<doing, dropped, roomVars, saved, announced, gameVars>>

\* The connection of t breaks; its read loop may be inside a command.
Disconnect(t) ==
    /\ t \notin dropped
    /\ dropped' = dropped \cup {t}
    /\ UNCHANGED <<seat, doing, roomVars, saved, announced, gameVars>>

\* Mutant: the seat is released by whoever unregisters the client.
ReleaseAtOnce(t) ==
    /\ t \in dropped
    /\ dropped' = dropped \ {t}
    /\ seat' = IF seat = t THEN NoTab ELSE seat
    /\ UNCHANGED <<doing, roomVars, saved, announced, gameVars>>

\* The deferred end of readLoop: the read after the last command fails, and the
\* seat is released. The page may come back as a new connection.
ReadLoopEnds(t) ==
    /\ t \in dropped /\ doing[t] = Nothing
    /\ dropped' = dropped \ {t}
    /\ seat' = IF seat = t THEN NoTab ELSE seat
    /\ UNCHANGED <<doing, roomVars, saved, announced, gameVars>>

-----------------------------------------------------------------------------
(* Commands of the host *)

Goto(t, c) == doing' = [doing EXCEPT ![t] = c]

\* Verify: the token is checked, and nothing is locked yet.
Verify(t, c) ==
    /\ doing[t] = Nothing /\ t \notin dropped
    /\ seat = t
    /\ Goto(t, c)
    /\ UNCHANGED <<seat, dropped, roomVars, saved, announced, gameVars>>

\* SaveHostOptions
SaveHostOptions(t) ==
    /\ doing[t].op = "save"
    /\ saved' = IF ValidateSavedHostOptions(doing[t].opts) THEN doing[t].opts ELSE saved
    /\ Goto(t, Nothing)
    /\ UNCHANGED <<seat, dropped, roomVars, announced, gameVars>>

\* OpenRoom, refused during a game and once somebody has joined; the options are
\* not looked at.
OpenRoom(t) ==
    /\ doing[t].op = "open"
    /\ IF started \/ members > 0
       THEN Goto(t, Nothing) /\ UNCHANGED roomVars
       ELSE /\ opened' = TRUE /\ options' = doing[t].opts /\ hostID' = 0
            /\ UNCHANGED members
            /\ Goto(t, [doing[t] EXCEPT !.op = "tell-open"])
    /\ UNCHANGED <<seat, dropped, saved, announced, gameVars>>

\* What the session, Start and Assign demand of the members and the options o.
MayStart(o) ==
    /\ ~started /\ members >= MinPlayers
    /\ phase = "NONE"
    /\ members \in Fewest..Most
    /\ ValidateOptions(o, members)

\* Engine.Start and Assign
StartWith(o) ==
    /\ \E s \in Shuffles[members] : role' = Assign(s, o["mafiaCount"])
    /\ started' = TRUE /\ phase' = "PLAY" /\ settings' = o

\* HostStartGame
HostStartGame(t) ==
    /\ doing[t].op = "start"
    /\ Goto(t, Nothing)
    /\ IF opened /\ MayStart(options) THEN StartWith(options) ELSE UNCHANGED gameVars
    /\ UNCHANGED <<seat, dropped, roomVars, saved, announced>>

\* HostCloseRoom: a fresh Session, and an engine in LOBBY.
HostCloseRoom(t) ==
    /\ doing[t].op = "close"
    /\ opened' = FALSE /\ options' = NoOptions /\ hostID' = 0 /\ members' = 0
    /\ started' = FALSE /\ phase' = "NONE" /\ settings' = NoOptions /\ role' = <<>>
    /\ Goto(t, [doing[t] EXCEPT !.op = "tell-closed"])
    /\ UNCHANGED <<seat, dropped, saved, announced>>

\* broadcastRoomOpened and broadcastRoomClosed, outside the mutex.
Broadcast(t) ==
    /\ \/ doing[t].op = "tell-open" /\ announced' = doing[t].opts
       \/ doing[t].op = "tell-closed" /\ announced' = NoOptions
    /\ Goto(t, Nothing)
    /\ UNCHANGED <<seat, dropped, roomVars, saved, gameVars>>

-----------------------------------------------------------------------------
(* Players, and the game as far as the room sees it *)

\* CreateSession: the first flow, in which the host is a member.
CreateSession ==
    /\ ~started /\ members = 0
    /\ hostID' = 1 /\ members' = 1
    /\ UNCHANGED <<seat, doing, dropped, opened, options, saved, announced, gameVars>>

\* Mutant: one more than the lobby holds.
JoinPastTheLimit ==
    /\ ~started
    /\ members > 0 \/ opened
    /\ members <= MaxLobbySize
    /\ members' = members + 1
    /\ UNCHANGED <<seat, doing, dropped, opened, options, hostID, saved, announced,
                   gameVars>>

\* JoinPlayer, up to the lobby's size, whatever the options say.
JoinPlayer ==
    /\ ~started
    /\ members > 0 \/ opened
    /\ members < MaxLobbySize
    /\ members' = members + 1
    /\ UNCHANGED <<seat, doing, dropped, opened, options, hostID, saved, announced,
                   gameVars>>

\* StartGame of the first flow carries options of its own.  The sender must be the
\* session's HostID: a member where CreateSession made one, and so a host that
\* Engine.Start accepts; in an opened room, whose HostID is empty, a connection
\* without a player, for which Engine.Start has no host to check.
StartGame(o) ==
    /\ MayStart(o)
    /\ StartWith(o)
    /\ UNCHANGED <<seat, doing, dropped, roomVars, saved, announced>>

\* The game ends and its result is saved; only HostCloseRoom leaves END.
GameEnds ==
    /\ started
    /\ started' = FALSE /\ phase' = "END"
    /\ UNCHANGED <<seat, doing, dropped, roomVars, saved, announced, settings, role>>

-----------------------------------------------------------------------------
HostCommand(t) ==
    \/ \E o \in Inputs, op \in {"save", "open"} : Verify(t, [op |-> op, opts |-> o])
    \/ \E op \in {"start", "close"} : Verify(t, [op |-> op, opts |-> NoOptions])
    \/ SaveHostOptions(t) \/ OpenRoom(t) \/ HostStartGame(t) \/ HostCloseRoom(t)
    \/ Broadcast(t)

Next ==
    \/ \E t \in Tabs : Claim(t) \/ Disconnect(t) \/ ReadLoopEnds(t) \/ HostCommand(t)
    \/ CreateSession \/ JoinPlayer \/ GameEnds
    \/ \E o \in Inputs : StartGame(o)

Spec == Init /\ [][Next]_vars

-----------------------------------------------------------------------------
(* Properties *)

\* Types, and that the lobby never outgrows its size.
TypeOK ==
    /\ seat \in Tabs \cup {NoTab} /\ doing \in [Tabs -> Commands] /\ dropped \subseteq Tabs
    /\ opened \in BOOLEAN /\ options \in Inputs \cup {NoOptions}
    /\ hostID \in {0, 1} /\ members \in 0..MaxLobbySize
    /\ saved \in Inputs \cup {NoOptions} /\ announced \in Inputs \cup {NoOptions}
    /\ started \in BOOLEAN /\ phase \in {"NONE", "PLAY", "END"}
    /\ settings \in Inputs \cup {NoOptions}

Holders(r) == {p \in 1..members : role[p] = r}

\* Whatever was typed into the form, opened, joined and shuffled, a game that has
\* begun is one the engine is made for: every seat has a role, the numbers of them
\* are those of the options, neither side has won before the first night, and every
\* timer has a positive duration.
StartedIsPlayable ==
    started =>
        /\ members \in Fewest..Most
        /\ settings["maxPlayers"] # 0 => members <= settings["maxPlayers"]
        /\ DOMAIN role = 1..members
        /\ Cardinality(Holders("MAFIA")) = settings["mafiaCount"]
        /\ Cardinality(Holders("DOCTOR")) = 1 /\ Cardinality(Holders("POLICE")) = 1
        /\ Holders("CITIZEN") # {}
        /\ settings["mafiaCount"] \in 1..(members - settings["mafiaCount"] - 1)
        /\ settings["introSecondsPerPlayer"] > 0 /\ settings["discussionSeconds"] > 0
        /\ \A f \in OptionFields : NightStepSeconds(settings, f) > 0

\* The token is checked before the mutex is taken and the broadcast is made after
\* it is released, and still no two hosts interleave, because only the read loop
\* that runs the commands gives up the seat: outside of a command the options the
\* pages show are those of the room.
AnnouncedIsInForce ==
    (\A t \in Tabs : doing[t].op \notin {"tell-open", "tell-closed"})
        => announced = IF opened THEN options ELSE NoOptions
=============================================================================
