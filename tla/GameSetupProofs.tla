--------------------------- MODULE GameSetupProofs ---------------------------
(***************************************************************************)
(* For every set of connections and of options, every lobby and every      *)
(* shuffle: the types, that a started game is playable, and that the pages *)
(* show the options in force.                                              *)
(***************************************************************************)
EXTENDS GameSetup, FiniteSetTheorems, TLAPS

OptionValues == Inputs \cup {NoOptions}

\* Only the connection in the GM seat is inside a command of the host.
Exclusive == \A t \in Tabs : doing[t] # Nothing => seat = t

\* A command about to announce has left the room as it will announce it.
Telling ==
    \A t \in Tabs :
        /\ doing[t].op = "tell-open" => opened /\ options = doing[t].opts
        /\ doing[t].op = "tell-closed" => ~opened

Inv == TypeOK /\ Exclusive /\ Telling /\ AnnouncedIsInForce

\* StartedIsPlayable for n members, the options o and the roles r.
With(r, n, x) == {p \in 1..n : r[p] = x}

Playable(n, o, r) ==
    /\ n \in Fewest..Most
    /\ o["maxPlayers"] # 0 => n <= o["maxPlayers"]
    /\ DOMAIN r = 1..n
    /\ Cardinality(With(r, n, "MAFIA")) = o["mafiaCount"]
    /\ Cardinality(With(r, n, "DOCTOR")) = 1 /\ Cardinality(With(r, n, "POLICE")) = 1
    /\ With(r, n, "CITIZEN") # {}
    /\ o["mafiaCount"] \in 1..(n - o["mafiaCount"] - 1)
    /\ o["introSecondsPerPlayer"] > 0 /\ o["discussionSeconds"] > 0
    /\ \A f \in OptionFields : NightStepSeconds(o, f) > 0

-----------------------------------------------------------------------------
(* The operators *)

\* The form's "nothing" has the type of options.
LEMMA OptionTypes == \A o \in OptionValues : o \in Options
  BY SetupAssumption DEF SetupAssumption, OptionValues, NoOptions, Options

\* validateOptions accepts the defaults: a lobby of any legal size can be started with
\* DefaultOptions. (They cannot be saved: validateSavedHostOptions wants a maxPlayers.)
THEOREM DefaultsCanStart == \A n \in Fewest..Most : ValidateOptions(DefaultOptions(n), n)
  <1> SUFFICES ASSUME NEW n \in Fewest..Most PROVE ValidateOptions(DefaultOptions(n), n)
    OBVIOUS
  <1>1. /\ DefaultOptions(n)["maxPlayers"] = 0
        /\ DefaultOptions(n)["mafiaCount"] = RecommendedMafiaCount(n)
        /\ DefaultOptions(n)["introSecondsPerPlayer"] = 20
        /\ DefaultOptions(n)["discussionSeconds"] = 180
    BY DEF DefaultOptions, OptionFields
  <1>2. /\ RecommendedMafiaCount(n) >= 1
        /\ n - RecommendedMafiaCount(n) >= RecommendedMafiaCount(n) + 1
        /\ n - RecommendedMafiaCount(n) - 2 >= 1
    BY DEF RecommendedMafiaCount, Fewest, Most
  <1> QED BY <1>1, <1>2 DEF ValidateOptions

\* Assign gives each of n players the role of its place in the order.
LEMMA AssignByPlace ==
  ASSUME NEW n \in Nat, NEW s, IsOrder(s, n), NEW m \in Nat, NEW i \in 1..n
  PROVE  /\ DOMAIN Assign(s, m) = 1..n
         /\ s[i] \in 1..n
         /\ Assign(s, m)[s[i]] = IF i <= m THEN "MAFIA"
                                 ELSE IF i = m + 1 THEN "DOCTOR"
                                 ELSE IF i = m + 2 THEN "POLICE" ELSE "CITIZEN"
  <1>1. DOMAIN s = 1..n /\ s[i] \in 1..n
    BY DEF IsOrder
  <1>2. (CHOOSE k \in 1..n : s[k] = s[i]) = i
    BY DEF IsOrder
  <1>3. DOMAIN Assign(s, m) = 1..n
    BY <1>1 DEF Assign
  <1>4. Assign(s, m)[s[i]] = LET k == CHOOSE k \in 1..n : s[k] = s[i]
                             IN  CASE k <= m -> "MAFIA"
                                   [] k = m + 1 -> "DOCTOR"
                                   [] k = m + 2 -> "POLICE"
                                   [] OTHER -> "CITIZEN"
    BY <1>1 DEF Assign
  <1>5. Assign(s, m)[s[i]] = CASE i <= m -> "MAFIA"
                               [] i = m + 1 -> "DOCTOR"
                               [] i = m + 2 -> "POLICE"
                               [] OTHER -> "CITIZEN"
    BY <1>2, <1>4
  <1> QED BY <1>1, <1>3, <1>5

\* Whatever the shuffle, Assign deals m mafia, one doctor, one police and at least
\* one citizen.
LEMMA AssignCounts ==
  ASSUME NEW n \in Nat, NEW s, IsOrder(s, n), NEW m \in Nat, m + 3 <= n
  PROVE  LET r == Assign(s, m)
         IN  /\ DOMAIN r = 1..n
             /\ Cardinality(With(r, n, "MAFIA")) = m
             /\ Cardinality(With(r, n, "DOCTOR")) = 1
             /\ Cardinality(With(r, n, "POLICE")) = 1
             /\ With(r, n, "CITIZEN") # {}
  <1> DEFINE r == Assign(s, m)
  <1>1. \A i \in 1..n : /\ s[i] \in 1..n
                        /\ r[s[i]] = IF i <= m THEN "MAFIA"
                                     ELSE IF i = m + 1 THEN "DOCTOR"
                                     ELSE IF i = m + 2 THEN "POLICE" ELSE "CITIZEN"
    BY AssignByPlace
  <1>2. DOMAIN r = 1..n
    BY AssignByPlace
  <1>3. \A p \in 1..n : \E i \in 1..n : s[i] = p
    BY DEF IsOrder
  <1> HIDE DEF r
  <1>4. With(r, n, "DOCTOR") = {s[m + 1]} /\ With(r, n, "POLICE") = {s[m + 2]}
    BY <1>1, <1>3 DEF With
  <1>5. s[m + 3] \in With(r, n, "CITIZEN")
    BY <1>1 DEF With
  <1>6. Cardinality(With(r, n, "MAFIA")) = m
    <2> DEFINE f == [i \in 1..m |-> s[i]]
    <2>1. f \in [1..m -> With(r, n, "MAFIA")]
      BY <1>1 DEF With
    <2>2. \A i, j \in 1..m : f[i] = f[j] => i = j
      BY DEF IsOrder
    <2>3. \A p \in With(r, n, "MAFIA") : \E i \in 1..m : f[i] = p
      <3> SUFFICES ASSUME NEW p \in With(r, n, "MAFIA") PROVE \E i \in 1..m : f[i] = p
        OBVIOUS
      <3>1. PICK i \in 1..n : s[i] = p
        BY <1>3 DEF With
      <3>2. r[s[i]] = "MAFIA"
        BY <3>1 DEF With
      <3>3. i <= m
        BY <1>1, <3>2
      <3> QED BY <3>1, <3>3
    <2> HIDE DEF f
    <2>4. f \in Injection(1..m, With(r, n, "MAFIA"))
      BY <2>1, <2>2 DEF Injection, IsInjective
    <2>5. f \in Surjection(1..m, With(r, n, "MAFIA"))
      BY <2>1, <2>3 DEF Surjection
    <2>6. ExistsBijection(1..m, With(r, n, "MAFIA"))
      BY <2>4, <2>5 DEF ExistsBijection, Bijection
    <2> QED BY <2>6, FS_CountingElements
  <1> QED BY <1>2, <1>4, <1>5, <1>6, FS_Singleton DEF r

\* validateOptions accepts no options under which a dealt game is not playable.
LEMMA ValidIsPlayable ==
  ASSUME NEW n \in Nat, NEW o \in Options, ValidateOptions(o, n),
         NEW s, IsOrder(s, n)
  PROVE  Playable(n, o, Assign(s, o["mafiaCount"]))
  <1> DEFINE m == o["mafiaCount"]
  <1>1. \A f \in OptionFields : o[f] \in Int
    BY DEF Options
  <1>2. /\ m \in Int /\ o["maxPlayers"] \in Int
        /\ o["introSecondsPerPlayer"] \in Int /\ o["discussionSeconds"] \in Int
    BY <1>1 DEF OptionFields
  <1>3. m \in Nat /\ m + 3 <= n /\ m \in 1..(n - m - 1)
    BY <1>2 DEF ValidateOptions, Fewest, Most
  <1>4. \A f \in OptionFields : NightStepSeconds(o, f) > 0
    BY <1>1 DEF NightStepSeconds
  <1>5. o["introSecondsPerPlayer"] > 0 /\ o["discussionSeconds"] > 0
    BY <1>2 DEF ValidateOptions
  <1>6. n \in Fewest..Most /\ (o["maxPlayers"] # 0 => n <= o["maxPlayers"])
    BY DEF ValidateOptions
  <1> HIDE DEF m
  <1>7. LET r == Assign(s, m)
        IN  /\ DOMAIN r = 1..n
            /\ Cardinality(With(r, n, "MAFIA")) = m
            /\ Cardinality(With(r, n, "DOCTOR")) = 1
            /\ Cardinality(With(r, n, "POLICE")) = 1
            /\ With(r, n, "CITIZEN") # {}
    BY <1>3, AssignCounts
  <1> QED BY <1>3, <1>4, <1>5, <1>6, <1>7 DEF Playable, m

-----------------------------------------------------------------------------
(* Steps *)

LEMMA InitInv == Init => Inv
  <1> SUFFICES ASSUME Init PROVE Inv
    OBVIOUS
  <1> USE SetupAssumption DEF SetupAssumption, Init
  <1>1. Nothing \in Commands /\ Nothing.op = "none"
    BY DEF Nothing, Commands
  <1>2. doing \in [Tabs -> Commands]
    BY <1>1
  <1>3. TypeOK
    <2>1. members \in 0..MaxLobbySize /\ hostID \in {0, 1}
      OBVIOUS
    <2>2. options \in OptionValues /\ saved \in OptionValues
          /\ announced \in OptionValues /\ settings \in OptionValues
      BY DEF OptionValues
    <2>3. started \in BOOLEAN /\ opened \in BOOLEAN
      OBVIOUS
    <2> QED BY <1>2, <2>1, <2>2, <2>3 DEF TypeOK, OptionValues
  <1>4. Exclusive /\ Telling
    BY <1>1 DEF Exclusive, Telling
  <1>5. AnnouncedIsInForce
    BY DEF AnnouncedIsInForce
  <1> QED BY <1>3, <1>4, <1>5 DEF Inv

\* Steps that leave the commands, the seat and what is announced alone, and the
\* room's options with them.
Aside == UNCHANGED <<seat, doing, opened, options, announced>>

LEMMA AsideInv == ASSUME Inv, Aside, TypeOK' PROVE Inv'
  BY DEF Inv, Aside, Exclusive, Telling, AnnouncedIsInForce

\* Claim and the end of a read loop move the seat from and to nobody, and only
\* outside of a command.
LEMMA SeatInv ==
  ASSUME Inv, NEW t \in Tabs, Claim(t) \/ ReadLoopEnds(t)
  PROVE  Inv'
  <1>1. UNCHANGED <<doing, opened, options, announced>>
    BY DEF Claim, ReadLoopEnds, roomVars
  <1>2. Exclusive'
    <2> SUFFICES ASSUME NEW u \in Tabs, doing[u] # Nothing PROVE seat' = u
      BY <1>1 DEF Exclusive
    <2>1. seat = u /\ u # NoTab
      BY SetupAssumption DEF Inv, Exclusive, SetupAssumption
    <2> QED BY <2>1 DEF Claim, ReadLoopEnds
  <1>3. TypeOK'
    BY DEF Inv, TypeOK, Claim, ReadLoopEnds, roomVars, gameVars
  <1>4. Telling' /\ AnnouncedIsInForce'
    BY <1>1 DEF Inv, Telling, AnnouncedIsInForce
  <1> QED BY <1>2, <1>3, <1>4 DEF Inv

\* While t is in a command, nobody else is.
LEMMA Alone ==
  ASSUME Inv, NEW t \in Tabs, doing[t].op # "none"
  PROVE  seat = t /\ \A u \in Tabs : u # t => doing[u] = Nothing
  BY DEF Inv, Exclusive, Nothing

\* A command of the host is entered by the one in the seat, and what it asks for
\* is of the form's type.
LEMMA VerifyInv ==
  ASSUME Inv, NEW t \in Tabs, NEW c \in Commands, Verify(t, c),
         c.op \notin {"tell-open", "tell-closed"}
  PROVE  Inv'
  <1> USE DEF Inv, Verify, Goto, roomVars, gameVars
  <1>1. doing' \in [Tabs -> Commands]
    BY DEF TypeOK
  <1>2. TypeOK'
    BY <1>1 DEF TypeOK
  <1>3. doing'[t] = c /\ \A u \in Tabs : u # t => doing'[u] = doing[u]
    BY DEF TypeOK
  <1>4. Exclusive'
    BY <1>3 DEF Exclusive
  <1>5. Telling'
    BY <1>3 DEF Telling
  <1>6. AnnouncedIsInForce'
    <2>1. doing[t].op = "none"
      BY DEF Nothing
    <2> QED BY <1>3, <2>1 DEF AnnouncedIsInForce
  <1> QED BY <1>2, <1>4, <1>5, <1>6

\* The steps of a command: t, alone in one, goes on to c.
LEMMA CommandInv ==
  ASSUME Inv, NEW t \in Tabs, doing[t].op # "none", NEW c \in Commands, Goto(t, c),
         seat' = seat, TypeOK',
         c.op = "tell-open" => opened' /\ options' = c.opts,
         c.op = "tell-closed" => ~opened',
         c.op \notin {"tell-open", "tell-closed"} =>
             announced' = IF opened' THEN options' ELSE NoOptions
  PROVE  Inv'
  <1>1. seat = t /\ \A u \in Tabs : u # t => doing[u] = Nothing
    BY Alone
  <1>2. doing'[t] = c /\ \A u \in Tabs : u # t => doing'[u] = Nothing
    BY <1>1 DEF Goto, Inv, TypeOK
  <1>3. Exclusive'
    BY <1>1, <1>2 DEF Exclusive
  <1>4. Telling'
    BY <1>2 DEF Telling, Nothing
  <1>5. AnnouncedIsInForce'
    BY <1>2 DEF AnnouncedIsInForce
  <1> QED BY <1>3, <1>4, <1>5 DEF Inv

\* Each step of a command leaves the room as it is announced, or about to be.
LEMMA HostStepInv ==
  ASSUME Inv, NEW t \in Tabs,
         \/ SaveHostOptions(t) \/ OpenRoom(t) \/ HostStartGame(t) \/ HostCloseRoom(t)
         \/ Broadcast(t)
  PROVE  Inv'
  <1>0. /\ Nothing \in Commands /\ Nothing.op = "none"
        /\ doing[t] \in Commands /\ doing[t].opts \in OptionValues
    BY DEF Nothing, Commands, Inv, TypeOK, OptionValues
  <1>1. CASE SaveHostOptions(t)
    <2> USE <1>1 DEF SaveHostOptions
    <2>1. doing' \in [Tabs -> Commands]
      BY <1>0 DEF Goto, Inv, TypeOK
    <2>2. TypeOK'
      BY <1>0, <2>1 DEF Inv, TypeOK, roomVars, gameVars, OptionValues
    <2>3. announced' = IF opened' THEN options' ELSE NoOptions
      BY Alone DEF Inv, AnnouncedIsInForce, Nothing, roomVars
    <2> QED BY <1>0, <2>2, <2>3, CommandInv
  <1>2. CASE OpenRoom(t)
    <2> USE <1>2 DEF OpenRoom
    <2> DEFINE c == [doing[t] EXCEPT !.op = "tell-open"]
    <2>1. c \in Commands /\ c.op = "tell-open" /\ c.opts = doing[t].opts
      BY <1>0 DEF Commands
    <2>2. CASE started \/ members > 0
      <3>1. doing' \in [Tabs -> Commands]
        BY <1>0, <2>2 DEF Goto, Inv, TypeOK
      <3>2. TypeOK'
        BY <2>2, <3>1 DEF Inv, TypeOK, roomVars, gameVars
      <3>3. announced' = IF opened' THEN options' ELSE NoOptions
        BY <2>2, Alone DEF Inv, AnnouncedIsInForce, Nothing, roomVars
      <3> QED BY <1>0, <2>2, <3>2, <3>3, CommandInv
    <2>3. CASE ~(started \/ members > 0)
      <3>1. Goto(t, c)
        BY <2>3
      <3> HIDE DEF c
      <3>2. doing' \in [Tabs -> Commands]
        BY <2>1, <3>1 DEF Goto, Inv, TypeOK
      <3>3. TypeOK'
        BY <1>0, <2>3, <3>2 DEF Inv, TypeOK, roomVars, gameVars, OptionValues
      <3> QED BY <1>0, <2>1, <2>3, <3>1, <3>3, CommandInv
    <2> QED BY <2>2, <2>3
  <1>3. CASE HostStartGame(t)
    <2> USE <1>3 DEF HostStartGame
    <2>1. doing' \in [Tabs -> Commands]
      BY <1>0 DEF Goto, Inv, TypeOK
    <2>2. /\ started' \in BOOLEAN /\ phase' \in {"NONE", "PLAY", "END"}
          /\ settings' \in Inputs \cup {NoOptions}
      BY DEF StartWith, Inv, TypeOK, gameVars
    <2>3. TypeOK'
      BY <2>1, <2>2 DEF Inv, TypeOK, roomVars
    <2>4. announced' = IF opened' THEN options' ELSE NoOptions
      BY Alone DEF Inv, AnnouncedIsInForce, Nothing, roomVars
    <2> QED BY <1>0, <2>3, <2>4, CommandInv
  <1>4. CASE HostCloseRoom(t)
    <2> USE <1>4 DEF HostCloseRoom
    <2> DEFINE c == [doing[t] EXCEPT !.op = "tell-closed"]
    <2>1. c \in Commands /\ c.op = "tell-closed"
      BY <1>0 DEF Commands
    <2>2. Goto(t, c)
      OBVIOUS
    <2> HIDE DEF c
    <2>3. doing' \in [Tabs -> Commands]
      BY <2>1, <2>2 DEF Goto, Inv, TypeOK
    <2>4. TypeOK'
      <3>1. members' \in 0..MaxLobbySize /\ hostID' \in {0, 1}
        BY SetupAssumption DEF SetupAssumption
      <3>2. started' \in BOOLEAN /\ opened' \in BOOLEAN
        OBVIOUS
      <3> QED BY <2>3, <3>1, <3>2 DEF Inv, TypeOK
    <2> QED BY <2>1, <2>2, <2>4, CommandInv
  <1>5. CASE Broadcast(t)
    <2> USE <1>5 DEF Broadcast
    <2>1. doing' \in [Tabs -> Commands]
      BY <1>0 DEF Goto, Inv, TypeOK
    <2>2. announced' = IF opened' THEN options' ELSE NoOptions
      BY DEF Inv, Telling, roomVars
    <2>3. TypeOK'
      BY <1>0, <2>1 DEF Inv, TypeOK, roomVars, gameVars, OptionValues
    <2> QED BY <1>0, <2>2, <2>3, CommandInv
  <1> QED BY <1>1, <1>2, <1>3, <1>4, <1>5

\* Players and the game do not touch the host's commands.
LEMMA PlayerStepInv ==
  ASSUME Inv, \/ CreateSession \/ JoinPlayer \/ GameEnds
              \/ (\E o \in Inputs : StartGame(o)) \/ (\E t \in Tabs : Disconnect(t))
  PROVE  Inv'
  <1> USE DEF CreateSession, JoinPlayer, GameEnds, StartGame, StartWith, Disconnect,
              roomVars, gameVars
  <1>1. Aside
    BY DEF Aside
  <1>2. members' \in 0..MaxLobbySize /\ hostID' \in {0, 1}
    BY SetupAssumption DEF Inv, TypeOK, SetupAssumption
  <1>3. /\ started' \in BOOLEAN /\ phase' \in {"NONE", "PLAY", "END"}
        /\ settings' \in Inputs \cup {NoOptions}
    BY DEF Inv, TypeOK
  <1>4. saved' = saved /\ dropped' \subseteq Tabs
    BY DEF Inv, TypeOK
  <1>5. TypeOK'
    BY <1>1, <1>2, <1>3, <1>4 DEF Aside, Inv, TypeOK
  <1> QED BY <1>1, <1>5, AsideInv

\* Inv is inductive.
LEMMA InvHolds == Spec => []Inv
  <1>1. ASSUME Inv, [Next]_vars PROVE Inv'
    <2>1. CASE UNCHANGED vars
      BY <1>1, <2>1 DEF vars, roomVars, gameVars, Inv, TypeOK, Exclusive, Telling,
                        AnnouncedIsInForce
    <2>2. ASSUME NEW t \in Tabs, HostCommand(t) PROVE Inv'
      <3>1. \A o \in Inputs, op \in {"save", "open"} : [op |-> op, opts |-> o] \in Commands
        BY DEF Commands
      <3>2. \A op \in {"start", "close"} : [op |-> op, opts |-> NoOptions] \in Commands
        BY DEF Commands
      <3> QED BY <1>1, <2>2, <3>1, <3>2, VerifyInv, HostStepInv DEF HostCommand
    <2>3. ASSUME NEW t \in Tabs, Claim(t) \/ ReadLoopEnds(t) PROVE Inv'
      BY <1>1, <2>3, SeatInv
    <2>4. ASSUME \/ CreateSession \/ JoinPlayer \/ GameEnds
                 \/ (\E o \in Inputs : StartGame(o)) \/ (\E t \in Tabs : Disconnect(t))
          PROVE  Inv'
      BY <1>1, <2>4, PlayerStepInv
    <2> QED BY <1>1, <2>1, <2>2, <2>3, <2>4 DEF Next
  <1> QED BY <1>1, InitInv, PTL DEF Spec

-----------------------------------------------------------------------------
\* The types; JoinPlayer never lets the lobby outgrow its size.
THEOREM TypesHold == Spec => []TypeOK
  <1>1. Inv => TypeOK
    BY DEF Inv
  <1> QED BY <1>1, InvHolds, PTL

\* The release of the seat at the end of the read loop keeps two hosts from
\* interleaving: the pages show the options of the room.
THEOREM PagesShowTheOptions == Spec => []AnnouncedIsInForce
  <1>1. Inv => AnnouncedIsInForce
    BY DEF Inv
  <1> QED BY <1>1, InvHolds, PTL

\* Whatever was sent, joined and shuffled, a started game has the roles its
\* options ask for, an undecided count of the sides, and positive timers.
THEOREM GamesArePlayable == Spec => []StartedIsPlayable
  <1> DEFINE P == started => Playable(members, settings, role)
  <1>1. P <=> StartedIsPlayable
    BY DEF Playable, StartedIsPlayable, With, Holders
  <1>2. Init => P
    BY DEF Init
  <1>3. ASSUME Inv, P, [Next]_vars PROVE P'
    <2>1. ASSUME NEW o \in OptionValues, MayStart(o), StartWith(o), members' = members
          PROVE  P'
      <3>1. PICK s \in Shuffles[members] : role' = Assign(s, o["mafiaCount"])
        BY <2>1 DEF StartWith
      <3>2. members \in Fewest..Most /\ members \in Nat /\ ValidateOptions(o, members)
        BY <2>1 DEF MayStart, Fewest, Most
      <3>3. IsOrder(s, members)
        BY <3>1, <3>2, ShuffleAssumption DEF ShuffleAssumption
      <3>4. Playable(members, o, role')
        BY <3>1, <3>2, <3>3, OptionTypes, ValidIsPlayable
      <3> QED BY <2>1, <3>4 DEF StartWith
    <2>2. ASSUME UNCHANGED <<members, settings, role>>, started' => started PROVE P'
      BY <1>3, <2>2
    <2>3. CASE UNCHANGED vars
      BY <2>2, <2>3 DEF vars, roomVars, gameVars
    <2>4. ASSUME NEW t \in Tabs, HostStartGame(t) PROVE P'
      <3>1. options \in OptionValues
        BY <1>3 DEF Inv, TypeOK, OptionValues
      <3> QED BY <2>1, <2>2, <2>4, <3>1 DEF HostStartGame, roomVars, gameVars
    <2>5. ASSUME NEW o \in Inputs, StartGame(o) PROVE P'
      BY <2>1, <2>5 DEF StartGame, OptionValues, roomVars
    <2>6. ASSUME NEW t \in Tabs, HostCloseRoom(t) PROVE P'
      BY <2>6 DEF HostCloseRoom
    <2>7. CASE CreateSession \/ JoinPlayer
      BY <2>7 DEF CreateSession, JoinPlayer, gameVars
    <2>8. ASSUME \/ GameEnds
                 \/ \E t \in Tabs : \/ Claim(t) \/ Disconnect(t) \/ ReadLoopEnds(t)
                                    \/ \E c : Verify(t, c)
                                    \/ SaveHostOptions(t) \/ OpenRoom(t) \/ Broadcast(t)
          PROVE  P'
      <3>1. GameEnds \/ UNCHANGED started
        BY <2>8 DEF Claim, Disconnect, ReadLoopEnds, Verify, SaveHostOptions, OpenRoom,
                    Broadcast, gameVars
      <3>2. started' => started
        BY <3>1 DEF GameEnds
      <3>3. UNCHANGED <<settings, role>>
        BY <2>8 DEF GameEnds, Claim, Disconnect, ReadLoopEnds, Verify, SaveHostOptions,
                    OpenRoom, Broadcast, gameVars
      <3>4. UNCHANGED members
        BY <2>8 DEF GameEnds, Claim, Disconnect, ReadLoopEnds, Verify, SaveHostOptions,
                    OpenRoom, Broadcast, roomVars
      <3> QED BY <2>2, <3>2, <3>3, <3>4
    <2> QED BY <1>3, <2>3, <2>4, <2>5, <2>6, <2>7, <2>8 DEF Next, HostCommand
  <1> QED BY <1>1, <1>2, <1>3, InvHolds, PTL DEF Spec
=============================================================================
