------------------------------ MODULE Viewers ------------------------------
(***************************************************************************)
(* What the people around the table get to see: the events each engine     *)
(* step emits, the wire payload built from them, the clients they are      *)
(* routed to, the announcements, the state a client rebuilds from them     *)
(* (reducer.ts), and the States sent to a client that connects and to a    *)
(* player that resumes.                                                    *)
(*                                                                         *)
(* The engine is module GameEngine; the session calls it and dispatches    *)
(* the events under its lock, so a step and its deliveries are one action  *)
(* here.  A viewer has one client at most; how a connection comes and goes *)
(* in detail is module Hub's subject.  Of the events, those that carry no  *)
(* secret and leave the client's copy of the State alone are left out:     *)
(* VoteTallied, PeacefulNight, DiscussionTimerTick and VoiceToggled.       *)
(***************************************************************************)
EXTENDS GameEngine

CONSTANTS Screen,   \* the PUBLIC client of the host PC
          Flaky,    \* viewers whose connection may drop
          MaxAway   \* bound: how many of them are away at a time

Watchers == Players \cup {Screen}

ASSUME ViewersAssumption ==
    /\ Screen \notin Players \cup {NoPlayer, NotVoted}
    /\ Flaky \subseteq Watchers
    /\ MaxAway \in Nat

VARIABLES
    linked,      \* the viewers with a registered client
    bound,       \* the players whose client is bound to them; the others are PUBLIC
    copy,        \* copy[v]: GameState of v's reducer, as far as it shows the game
    addressed,   \* addressed[v]: the secrets in what was routed to v so far
    shown,       \* history, shown[v]: the secrets in the States sent to v so far
    executed     \* history: the players eliminated by vote

viewVars == <<linked, bound, copy, addressed, shown, executed>>
allVars == <<vars, viewVars>>

\* The secret fields of a Player.
Secrets == {"ROLE", "KEYWORD"} \X Players
RolesOf(S) == {"ROLE"} \X S

-----------------------------------------------------------------------------
(* Events, and the envelopes of pub, priv and mafia *)

Pub(e) == [event |-> e, visibility |-> "PUBLIC", player |-> NoPlayer]
Priv(e, p) == [event |-> e, visibility |-> "PLAYER", player |-> p]
MafiaOnly(e) == [event |-> e, visibility |-> "ROLE_MAFIA", player |-> NoPlayer]

PhaseChanged(ph, d, at) ==
    Pub([kind |-> "PhaseChanged", phase |-> ph, day |-> d, deadline |-> at])
NightStepChanged(s, at) ==
    Pub([kind |-> "NightStepChanged", step |-> s, deadline |-> at])
IntroSpeakerChanged(p) == Pub([kind |-> "IntroSpeakerChanged", player |-> p])

\* Engine.Start; GameStarted holds the whole State.
StartEvents ==
    <<Pub([kind |-> "GameStarted", state |-> role'])>>
    \o [i \in 1..Len(Roster) |->
          Priv([kind |-> "RoleRevealedToPlayer", player |-> Roster[i],
                role |-> role'[Roster[i]]], Roster[i])]
    \o <<MafiaOnly([kind |-> "MafiaCohortRevealed", rep |-> rep',
                    mafia |-> {p \in Players : role'[p] = "MAFIA"}]),
         PhaseChanged("INTRO", day', 0),
         IntroSpeakerChanged(Roster[1])>>

\* handleEndSelfIntro, handleAdvanceIntro and the loop of tickIntro: one event
\* per speaker passed, then the first DAY.
IntroEvents ==
    [i \in 1..(introIdx' - introIdx) |-> IntroSpeakerChanged(Roster[introIdx + i + 1])]
    \o IF phase' = "DAY" THEN <<PhaseChanged("DAY", day', deadline')>> ELSE <<>>

\* transitionDayToVote
VoteBegins == <<PhaseChanged("VOTE", day, 0)>>

\* Mutant: the sub-step is announced before the phase.
EnterNightSwapped == <<NightStepChanged("INTRO", nightStepDeadline'),
                       PhaseChanged("NIGHT", day, 0)>>

\* enterNight: the phase, then its first sub-step.
EnterNightEvents == <<PhaseChanged("NIGHT", day, 0),
                      NightStepChanged("INTRO", nightStepDeadline')>>

\* reassignMafiaRepresentative
ReassignEvents(dead) ==
    IF dead = rep /\ rep' # NoPlayer
    THEN <<MafiaOnly([kind |-> "MafiaRepresentativeReassigned",
                      old |-> rep, new |-> rep'])>>
    ELSE <<>>

\* resolveNight: the morning, then the death.
ResolveEvents ==
    <<PhaseChanged("DAY", day', deadline')>>
    \o IF Victim = NoPlayer THEN <<>>
       ELSE <<Pub([kind |-> "DeathAnnounced", player |-> Victim])>>
            \o ReassignEvents(Victim)

StepOrder == <<"INTRO", "MAFIA", "POLICE", "DOCTOR">>
StepIndex(s) == CHOOSE i \in 1..4 : StepOrder[i] = s

\* tickNight: every sub-step it passes, with its chained deadline; past DOCTOR
\* the night is resolved.
NightTickEvents ==
    LET last == IF phase' = "DAY" THEN "DOCTOR" ELSE nightStep'
        from == StepIndex(nightStep)
    IN  [i \in 1..(StepIndex(last) - from) |->
           NightStepChanged(StepOrder[from + i], ChainedDeadline(StepOrder[from + i]))]
        \o IF phase' = "DAY" THEN ResolveEvents ELSE <<>>

\* applyElimination
EliminationEvents(x) ==
    <<Pub([kind |-> "Eliminated", player |-> x, role |-> role[x]])>>
    \o ReassignEvents(x)
    \o IF EvaluateEnd(alive \ {x}) = "NONE" THEN EnterNightEvents ELSE <<>>

\* handleVote and tally
VoteEvents(voter, target) ==
    LET v   == [votes EXCEPT ![voter] = target]
        top == TopCandidates(v)
    IN  IF ~AllVoted(v) THEN <<>>
        ELSE IF Cardinality(top) = 1 THEN EliminationEvents(CHOOSE x \in top : TRUE)
        ELSE IF top # {} /\ voteRound = 1 THEN <<PhaseChanged("RECOUNT", day, 0)>>
        ELSE EnterNightEvents

MafiaTargetEvents(target) ==
    <<MafiaOnly([kind |-> "MafiaTargetSelected", rep |-> rep, target |-> target])>>

PoliceEvents(c, target) ==
    <<Priv([kind |-> "PoliceResult", target |-> target,
            team |-> TeamOf(role[target])], c)>>

\* handleResumeGame sends the shifted deadline of the running timer.
ResumedEvents ==
    <<Pub([kind |-> "GameResumed", phase |-> phase,
           deadline |-> CASE phase = "DAY" -> deadline'
                          [] phase = "NIGHT" -> nightStepDeadline'
                          [] OTHER -> 0])>>

PausedEvents == <<Pub([kind |-> "GamePaused"])>>

\* endGame and handleForceEnd; Reveal is the list of players with all fields.
EndEvents ==
    <<Pub([kind |-> "GameEnded", winner |-> winner', reason |-> endReason',
           reveal |-> role, survivors |-> alive])>>

\* Tick(t), by the branch it takes.
TickEvents(t) ==
    CASE paused \/ StaleTick(t)    -> <<>>
      [] OTHER -> IF EndDue(t) THEN EndEvents
                  ELSE CASE phase = "INTRO" -> IntroEvents
                         [] phase = "DAY" ->
                              IF phase' = "VOTE" THEN VoteBegins ELSE <<>>
                         [] phase = "NIGHT" -> NightTickEvents
                         [] OTHER -> <<>>

-----------------------------------------------------------------------------
(* The wire: payloads, routing, announcements *)

\* Mutant: the payload of GameStarted keeps the State.
FullPayload(e) == e

\* buildEventPayload: every field but the State of GameStarted.
BuildEventPayload(e) == IF e.kind = "GameStarted" THEN [kind |-> "GameStarted"] ELSE e

\* The secrets a payload discloses.
Disclosed(e) ==
    CASE e.kind = "GameStarted" -> IF "state" \in DOMAIN e THEN Secrets ELSE {}
      [] e.kind = "RoleRevealedToPlayer" -> {"ROLE", "KEYWORD"} \X {e.player}
      [] e.kind = "MafiaCohortRevealed" -> RolesOf(e.mafia)
      [] e.kind = "MafiaTargetSelected" -> RolesOf({e.rep})
      [] e.kind = "MafiaRepresentativeReassigned" -> RolesOf({e.old, e.new})
      [] e.kind = "PoliceResult" -> RolesOf({e.target})
      [] e.kind = "Eliminated" -> RolesOf({e.player})
      [] e.kind = "GameEnded" -> Secrets
      [] OTHER -> {}

\* routeEvent, on the State after the action; dead players keep receiving the
\* public events.
Route(env) ==
    CASE env.visibility = "PUBLIC"     -> Watchers
      [] env.visibility = "PLAYER"     -> {env.player}
      [] env.visibility = "ROLE_MAFIA" -> {p \in alive' : role'[p] = "MAFIA"}

\* The secrets in the announcement Render makes of an event: the subtitle of an
\* elimination names the role, and a private event has no announcement.
Render(e) == IF e.kind = "Eliminated" THEN RolesOf({e.player}) ELSE {}

-----------------------------------------------------------------------------
(* The client: reducer.ts *)

\* The stub LOBBY state that the PlayerJoined events build up.
LobbyCopy ==
    [phase |-> "NONE", day |-> 0, deadline |-> 0,
     nightStep |-> "NONE", nightStepDeadline |-> 0, paused |-> FALSE,
     players |-> Players, alive |-> Players, speaker |-> 0,
     your |-> "NONE", cohort |-> {}, rep |-> NoPlayer,
     policeChecked |-> FALSE, policeHistory |-> <<>>,
     winner |-> "NONE", reason |-> "NONE"]

\* Nothing received yet, as after a reload.
BlankCopy == [LobbyCopy EXCEPT !.players = {}, !.alive = {}]

\* findIndex, in the list of players the client has.
SpeakerIndex(m, p) ==
    IF p \in m.players THEN (CHOOSE i \in 1..Len(Roster) : Roster[i] = p) - 1 ELSE -1

ApplyPhaseChanged(m, e) ==
    [m EXCEPT !.phase = e.phase, !.day = e.day, !.deadline = e.deadline,
              !.nightStep = "NONE", !.nightStepDeadline = 0,
              !.policeChecked = FALSE]

\* applyEvent on the copy m.
ApplyEvent(m, e) ==
    CASE e.kind = "PhaseChanged" -> ApplyPhaseChanged(m, e)
      [] e.kind = "RoleRevealedToPlayer" -> [m EXCEPT !.your = e.role]
      [] e.kind = "MafiaCohortRevealed" -> [m EXCEPT !.cohort = e.mafia, !.rep = e.rep]
      [] e.kind = "IntroSpeakerChanged" ->
            [m EXCEPT !.speaker = SpeakerIndex(m, e.player)]
      [] e.kind = "NightStepChanged" ->
            [m EXCEPT !.nightStep = e.step, !.nightStepDeadline = e.deadline]
      [] e.kind = "PoliceResult" ->
            [m EXCEPT !.policeChecked = TRUE,
                      !.policeHistory = Append(@,
                          [day |-> m.day, target |-> e.target, team |-> e.team])]
      [] e.kind = "GamePaused" -> [m EXCEPT !.paused = TRUE]
      [] e.kind = "GameResumed" ->
            [m EXCEPT !.paused = FALSE,
                      !.deadline = IF e.phase = "DAY" /\ e.deadline > 0
                                   THEN e.deadline ELSE @,
                      !.nightStepDeadline = IF e.phase = "NIGHT" /\ e.deadline > 0
                                            THEN e.deadline ELSE @]
      [] e.kind \in {"DeathAnnounced", "Eliminated"} ->
            [m EXCEPT !.alive = @ \ {e.player}]
      [] e.kind = "MafiaRepresentativeReassigned" -> [m EXCEPT !.rep = e.new]
      [] e.kind = "GameEnded" ->
            [m EXCEPT !.phase = "END", !.winner = e.winner, !.reason = e.reason,
                      !.players = Players, !.alive = e.survivors]
      [] OTHER -> m

-----------------------------------------------------------------------------
(* Delivery *)

\* Whose events v's client gets: until it is bound to its player, those of the
\* PUBLIC client.
Identity(v) == IF v \in bound THEN v ELSE Screen

\* What v's reducer makes of an envelope: it gets those routed to its client while
\* it is connected. What is routed to a player without a client is lost.
Receive(v, m, env) ==
    IF v \in linked /\ Identity(v) \in Route(env)
    THEN ApplyEvent(m, BuildEventPayload(env.event))
    ELSE m

\* The reducers take the envelopes one by one, in order.
ReduceCopies(envs) ==
    copy' = [v \in Watchers |->
        LET seen[i \in 0..Len(envs)] ==
              IF i = 0 THEN copy[v] ELSE Receive(v, seen[i - 1], envs[i])
        IN  seen[Len(envs)]]

\* The secrets onEvent sends v's way: in the payload, if v is on the envelope's
\* route, and in its announcement, which goes to the PUBLIC clients.
Exposed(v, env) ==
    (IF v \in Route(env) THEN Disclosed(BuildEventPayload(env.event)) ELSE {})
    \cup (IF v \notin bound THEN Render(env.event) ELSE {})

\* dispatchHandlers and onEvent: each envelope, in order, to its viewers.
Deliver(sent) == \E envs \in {sent} :
    /\ ReduceCopies(envs)
    /\ addressed' = [v \in Watchers |->
          addressed[v] \cup UNION {Exposed(v, envs[i]) : i \in DOMAIN envs}]
    /\ UNCHANGED <<linked, bound, shown>>

\* A step that eliminates nobody.
Quietly(envs) == Deliver(envs) /\ UNCHANGED executed

\* The fields of the State as they are marshalled, without the players' secrets
\* and the police history.
StateCopy ==
    [phase |-> phase, day |-> day, deadline |-> deadline,
     nightStep |-> nightStep, nightStepDeadline |-> nightStepDeadline,
     paused |-> paused, players |-> IF phase = "NONE" THEN {} ELSE Players,
     alive |-> alive, speaker |-> introIdx,
     your |-> "NONE", cohort |-> {}, rep |-> rep,
     policeChecked |-> policeChecked, policeHistory |-> <<>>,
     winner |-> winner, reason |-> endReason]

\* The allies whose role a view discloses.
Allies(p) == IF p \in Mafia THEN Mafia ELSE {}

\* Mutant: the police history is scrubbed for everybody.
HistoryScrubbed(p) == <<>>

\* The police history is scrubbed for everybody but the police.
HistoryFor(p) == IF role[p] = "POLICE" THEN policeHistory ELSE <<>>

\* BuildPrivateView(state, p): the Role fields of others are blank until END ...
UnmaskedRoles(p) == IF phase = "END" THEN Players ELSE {p} \cup Allies(p)

\* ... and what else is p's own is filled in.
PrivateView(p) == [StateCopy EXCEPT !.your = role[p], !.cohort = Allies(p),
                                    !.policeHistory = HistoryFor(p)]

Targets(history) == {history[i].target : i \in DOMAIN history}

\* MafiaRepresentativeID, which is not scrubbed.
NamedMafia == {rep} \ {NoPlayer}

\* The secrets in the Role and Keyword fields, in the police history and in
\* MafiaRepresentativeID of a private view; keywords of others are never in it.
ViewSecrets(p) ==
    IF phase = "NONE" THEN {}
    ELSE {<<"KEYWORD", p>>}
         \cup RolesOf(UnmaskedRoles(p) \cup Targets(HistoryFor(p)) \cup NamedMafia)

\* The viewers who have lost their connection, or not resumed since.
Away == (Watchers \ linked) \cup (Players \ bound)

\* The connection of v drops, and its page is loaded anew.
Drop(v) ==
    /\ v \in linked \cap Flaky
    /\ Cardinality(Away \ {v}) < MaxAway
    /\ linked' = linked \ {v}
    /\ bound' = bound \ {v}
    /\ copy' = [copy EXCEPT ![v] = BlankCopy]
    /\ UNCHANGED <<vars, addressed, shown, executed>>

\* RoomSnapshot: the members before a game, the State as it is from then on ...
RoomSnapshot ==
    IF phase = "NONE" THEN LobbyCopy
    ELSE [StateCopy EXCEPT !.policeHistory = policeHistory]

\* ... with the Role and Keyword of every player.
RoomSecrets == IF phase = "NONE" THEN {} ELSE Secrets

\* Register's pushRoomState, to every new client of an open room: it is PUBLIC
\* still, whoever is behind it.
PushRoomState(v) ==
    /\ v \notin linked
    /\ linked' = linked \cup {v}
    /\ copy' = [copy EXCEPT ![v] = RoomSnapshot]
    /\ shown' = [shown EXCEPT ![v] = @ \cup RoomSecrets]
    /\ UNCHANGED <<vars, bound, addressed, executed>>

\* ResumePlayer and the snapshot that answers it, at any phase. Before the game the
\* engine's State has no players: an empty list after a HostCloseRoom, modelled
\* here, or null in a new process, on which the reducer fails altogether.
ResumePlayer(p) ==
    /\ p \in linked \ bound
    /\ bound' = bound \cup {p}
    /\ copy' = [copy EXCEPT ![p] = PrivateView(p)]
    /\ shown' = [shown EXCEPT ![p] = @ \cup ViewSecrets(p)]
    /\ UNCHANGED <<vars, linked, addressed, executed>>

-----------------------------------------------------------------------------
(* The engine's steps with their deliveries *)

ViewInit ==
    /\ Init
    /\ linked = Watchers
    /\ bound = Players
    /\ copy = [v \in Watchers |-> LobbyCopy]
    /\ addressed = [v \in Watchers |-> {}]
    /\ shown = [v \in Watchers |-> {}]
    /\ executed = {}

Vote(p, target) ==
    /\ SubmitVote(p, target)
    /\ Deliver(VoteEvents(p, target))
    /\ executed' = executed \cup (alive \ alive')

\* SubmitAction: Apply's handlers.
Command ==
    /\ phase \notin {"NONE", "END"}
    /\ WithinBounds
    /\ \/ \E p \in Players : EndSelfIntro(p) /\ Quietly(IntroEvents)
       \/ \E p, q \in Players :
             \/ SubmitMafiaKill(p, q) /\ Quietly(MafiaTargetEvents(q))
             \/ SubmitDoctorHeal(p, q) /\ Quietly(<<>>)
             \/ SubmitPoliceCheck(p, q) /\ Quietly(PoliceEvents(p, q))
       \/ \E p \in Players, target \in Ballots : Vote(p, target)
       \/ \E h \in Senders :
             \/ AdvanceIntro(h) /\ Quietly(IntroEvents)
             \/ EndNightEarly(h) /\ Quietly(ResolveEvents)
             \/ EndDiscussionEarly(h) /\ Quietly(VoteBegins)
             \/ PauseGame(h) /\ Quietly(PausedEvents)
             \/ ResumeGame(h) /\ Quietly(ResumedEvents)
             \/ ForceEndGame(h) /\ Quietly(EndEvents)
             \/ \E on \in VoiceInputs : ToggleVoice(h, on) /\ Quietly(<<>>)

EngineStep ==
    \/ Start /\ Quietly(StartEvents)
    \/ Command
    \/ \E t \in (now - MaxTickLag)..now : Ticker(t) /\ Quietly(TickEvents(t))
    \/ AdvanceClock /\ Quietly(<<>>)

ViewNext ==
    \/ EngineStep
    \/ \E v \in Watchers : PushRoomState(v)
    \/ \E v \in Flaky : Drop(v)
    \/ \E p \in Players : ResumePlayer(p)

ViewSpec == ViewInit /\ [][ViewNext]_allVars

-----------------------------------------------------------------------------
(* Properties *)

\* What everybody may know of the roles: the eliminated, and at the end all.
PublicSecrets == RolesOf(executed) \cup (IF phase = "END" THEN Secrets ELSE {})

\* What p may know besides: itself, as a mafioso its cohort, as the police the
\* players it has investigated.
OwnSecrets(p) ==
    ({"ROLE", "KEYWORD"} \X {p})
    \cup RolesOf(Allies(p))
    \cup (IF role[p] = "POLICE" THEN RolesOf(Targets(policeHistory)) ELSE {})

\* The roles stay hidden: over a whole game no event or announcement gives a viewer
\* a role or keyword that the rules of the game have not revealed to that viewer by
\* then, and neither does a private view, but for the representative of the mafia,
\* whom BuildPrivateView leaves in the view of every player. The State that
\* pushRoomState sends to a new client is the subject of StatesMasked.
KeepsSecrets ==
    /\ addressed[Screen] \subseteq PublicSecrets
    /\ \A p \in Players :
          /\ addressed[p] \subseteq PublicSecrets \cup OwnSecrets(p)
          /\ ViewSecrets(p) \subseteq PublicSecrets \cup OwnSecrets(p) \cup RolesOf(NamedMafia)

\* "Role and Keyword are secret and must be masked when sending state to viewers
\* other than the owner" (types.go; rules BR-U2-MASK-1 and -2): no State sent to a
\* viewer holds a role or keyword that the rules have not revealed to that viewer.
\* The State that answers Register is not masked.
StatesMasked ==
    /\ shown[Screen] \subseteq PublicSecrets
    /\ \A p \in Players : shown[p] \subseteq PublicSecrets \cup OwnSecrets(p)

\* Nothing private is lost for good: whatever private event was routed to a
\* player, connected or not, a resume shows its content again.
ResumeRestores ==
    \A p \in Players :
       phase # "NONE" => addressed[p] \subseteq PublicSecrets \cup ViewSecrets(p)

\* The public fields of a client's copy.
PublicAgrees(v) ==
    /\ copy[v].phase = phase /\ copy[v].day = day
    /\ copy[v].deadline = deadline
    /\ copy[v].nightStep = nightStep
    /\ copy[v].nightStepDeadline = nightStepDeadline
    /\ copy[v].paused = paused
    /\ copy[v].winner = winner /\ copy[v].reason = endReason
    /\ copy[v].players = Players =>
          /\ copy[v].alive = alive
          /\ phase = "INTRO" => copy[v].speaker = introIdx

\* The private fields a player's screen needs to offer the right commands.
PrivateAgrees(p) ==
    /\ copy[p].your = role[p]
    /\ p \in Mafia => copy[p].cohort = Mafia
    /\ p \in Mafia \cap alive => copy[p].rep = rep
    /\ role[p] = "POLICE" => /\ copy[p].policeChecked = policeChecked
                             /\ copy[p].policeHistory = policeHistory

\* The clients are in step with the engine: the events of every action, applied
\* in the order they are sent, take each connected client's copy to the engine's
\* State, whether it has been connected all along or was given a snapshot.
CopiesAgree ==
    phase # "NONE" => /\ \A v \in linked : PublicAgrees(v)
                      /\ \A p \in bound : PrivateAgrees(p)

\* A client that comes back "recovers its screen by the snapshot message" (rule
\* BR-U3-RECONNECT-2, and BR-U3-RECONNECT-5 has it at any phase): every connected
\* viewer has the players. The snapshot that answers a resume in the lobby is the
\* engine's State, which has none before Start.
RosterShown == \A v \in linked : copy[v].players = Players
=============================================================================
