# Verification of mafia-game-party

TLA+ models of the mafia party game: the rule engine, the session manager with
its crash recovery, the setup of a room, the WebSocket hub, what the browsers are
shown, and the shutdown of the program. TLC checks them on small instances; TLAPS
proves the central invariants for every size.

Run a model with `tlc -config <run>.cfg <module>` and the proofs with
`tlapm <module>.tla`. `PROJECT.json` lists the runs, and maps every definition
to the source lines it stands for.

## 1. The system

One Go process serves one game room to browsers on a local network.

```
 browser --WebSocket--> Hub (transport/ws) --calls--> SessionManager (session)
    ^                     | ^                            |          |
    |  send queues        | | subscription (callback     | Apply,   | SaveSnapshot,
    +---------------------+ | under session.mu)          | Tick,    | SaveResultAnd-
                            +----------------------------+ Start    | ClearActive
                                                         v          v
                                                     Engine      Store (SQLite)
                                                     (game)      (persistence)
```

| Component | State | Operations | What makes it correct |
|---|---|---|---|
| Game engine, `internal/game` | `State`: phase, day, roles, survivors, timers, night targets, ballots, scheduled end | `Start`, 11 actions through `Apply`, `Tick` | stages follow one another; at most one death per stage, with a cause; a win is noticed at once and declared; submissions of one night or round never leak into another; a late tick catches up |
| Session manager, `internal/session` | `Session` (members, host, Started, RoomOpened), the GM seat, the engine; one mutex | create, open, join, resume, start, submit, tick, close, claim and release of the seat, shutdown, boot | `Started` tells the truth about the engine; what clients saw survives a crash; a finished game stays finished |
| Persistence, `internal/persistence` | `active_snapshot` (one row), `game_results` | save, save-and-clear in one transaction, load, archive of a corrupt file | a game is never both finished and active |
| WebSocket hub, `internal/transport/ws` | registry with indices `byID`, `byPlayerID`, `publics`; per client a send channel, a context and two goroutines | `Register`, `Unregister`, handlers, `onEvent`, room broadcasts, `Close` | every registered client is reachable; one client per player; dead connections leave, give the seat back, and `Close` empties the hub |
| Setup of a room, `session/host_authority.go`, `host_options.go`, `game/validation.go`, `role.go` | the GM seat, the room's options, the saved options | claim, release, save, open, start, close; validation; the deal | a started game is playable; the pages show the options in force |
| Private views, `session/view.go`; payloads and routing, `ws/dispatch.go`; announcements, `announce` | none | event or state -> what one viewer is sent | nobody is sent a secret too early; a resume gives back what was missed |
| Web client state, `web/src/context/reducer.ts` | its copy of the State | one case per event, snapshots | the copy equals the engine's State |
| Program entry, `cmd/mafia-game/main.go`; HTTP server, `transport/http` | the three stages of the shutdown | signal, `Shutdown`, `hub.Close`, `mgr.Close` | nothing seen is lost; the ticker never meets a closed store; it ends |
| Keyword pool, web audio queue, web views | words, cues, rendering | lookups, playback | - |

**What is hard.** The engine is sequential but is driven by three independent
sources (players, host, ticker) and by a clock: a submission races a deadline,
a pause freezes some timers, a tick may carry an instant older than the last
one. The session's operations hold one mutex, yet an operation writes to disk
twice and the process may die in between. The hub's goroutines interleave
freely: read loop, write loop, `go h.Unregister` of a slow client, the dispatch
of an event and `Close` all touch the registry, and handlers use what they read
under one lock after they have released it. A browser sees only the events it is
connected for, and rebuilds the state from them. At the shutdown handlers, ticker
and requests are still under way while the parts below them go. `PROJECT.json`
lists these hazards line by line.

## 2. The modules

| Module | Models |
|---|---|
| `GameLifecycle` | what a game promises, without timers, ballots or commands |
| `GameEngine` | `internal/game`, the whole engine |
| `Session` | `internal/session` over `internal/persistence`, with crash and boot |
| `Hub` | `internal/transport/ws`: registry, goroutines, `Close` |
| `GameSetup` | the GM seat, the host's commands, options, lobby and deal |
| `Viewers` | composition of `GameEngine` with events, payloads, routing, private views and the browser's reducer |
| `Shutdown` | `cmd/mafia-game/main.go`, composed with `Close` of server, hub and session, read loops, ticker and store |
| `GameEngineProofs`, `GameRulesProofs`, `GameClockProofs` | theorems about `GameEngine`: types, representative, wins and night targets; ballots, deaths, investigations and the refinement; timers |
| `ViewersProofs` | theorems about `Viewers`, on those of the engine |
| `SessionProofs`, `HubProofs`, `GameSetupProofs`, `ShutdownProofs` | theorems about their modules |
| `MCGameEngine`, `MCSession`, `MCHub`, `MCGameSetup`, `MCViewers` | instances for TLC; `Shutdown` needs none |

### GameEngine

Variables are the fields of `State` under their own names; a `map[PlayerID]T`
is a function on `Players`, an absent key is `NoPlayer` or `NotVoted`, a zero
`time.Time` is 0. `now` is the wall clock and `timerTicks` counts the
`DiscussionTimerTick` events of a day, the only events a property speaks of.
There is one action for every `case` of `Engine.Apply`, with the handler's
checks as guards and everything it calls (a tally, a transition to the night,
a reassignment of the representative, a scheduled end) in the same step. A
rejected action changes nothing and is not a step. `Tick(t)` is the whole of
`Engine.Tick`: stale instant, pause, `firePendingEnd`, then the phase's
function. The loops of `tickIntro` and `tickNight` over several expired turns
are written in closed form (`NightOffset`, `ChainedDeadline`).

The ticker samples the clock before it gets the session's mutex, so `Ticker` may
use any `t` in `now - MaxTickLag .. now`. `AdvanceClock` lets time pass by a
second, but not beyond `MaxTickGap` seconds after the last tick of a running game.
Dealing roles is a choice from `Deals`; the keywords are left out.

`GameLifecycle` is the abstract specification: its stage is the engine's phase
with a recount counted as part of the vote, its verdict the scheduled end, its
result the declared one. `ImplementsLifecycle` states that the engine
implements it.

### Session

Each operation is an action guarded by `Free`, the mutex. An operation that
persists leaves a `job`, whose steps `WriteSnapshot` and `WriteResult` are the
two disk writes of `persistAndDispatch`; `Crash` may come between any two steps
and loses all but the disk. `Boot` is `New` with `bootRestore`: no snapshot, an
unreadable one (the file is archived, and the store stays closed), or one to
restore, which is finalised when it is of an ended game. The engine is seen as
its game ID, its phase, the number of persisted transitions and of unpersisted
submissions, and whether an end is scheduled. A token is as unique as its
player ID, so one number stands for both.

### Hub

Variables are the three indices, the `PlayerID` of each client, its socket, the
program points of `Register` and of the read loop, the goroutines spawned by
`enqueue` (`reapers`), the progress of `Close`, and of the session what the hub
depends on. A goroutine's step ends where another can make a difference: where
the GM lock is released between a session call and the use of its result,
where the registry lock is released between two uses of what was read under it,
and before an `Unregister`. Abstractions:

- *Messages.* What they say is left to `Viewers`. The peer alone decides how full
  a send channel is: any message may find it full.
- *Unregister.* Removal, cancel and close of the connection are one step. A
  second call finds nothing to remove, so a pending one is forgotten.
- *Register.* The welcome and the reading of the room's state are one step, after
  the client was added; the push is another.
- *Context.* Whether a client's context is done follows from the registry and the
  progress of `Close`, and is not a variable.
- *Seat.* A token is identified with the client that claimed it, and only that
  client's read loop releases it.

### Viewers

`Viewers` extends `GameEngine`: every step of the engine is taken together with the
delivery of its events, as the session does under its lock. `StartEvents`,
`NightTickEvents` and the like list, in order and with their visibility, the events
an engine function returns. `BuildEventPayload` is the wire's version, `Route` the
clients it goes to, `ApplyEvent` the reducer's case for it. `Deliver` folds a step's
events over the copy of every connected viewer (`ReduceCopies`), and adds to
`addressed` the secrets in what was *routed* to a viewer (`Exposed`), connected or
not, so that it speaks of both what leaks and what is lost. `Drop` is a lost connection
with a reload of the page. It comes back in two steps, as in the code: `PushRoomState`
registers a PUBLIC client (`Identity`), whoever is behind it, and sends it the room's
State; `ResumePlayer` binds the client to its player (`bound`) and answers with the
private view. `shown` is a history of the secrets in both kinds of State; no step
reads it, and the run `viewers` leaves it out of its view. A secret is a pair of a kind,
ROLE or KEYWORD, and its player.

Abstractions: registering a client and the State it is sent are one step, as are
binding one and its view (the gap is described below); a viewer's messages arrive in order, because its channel is
FIFO; drafts, toasts and the events `VoteTallied`, `PeacefulNight`,
`DiscussionTimerTick` and `VoiceToggled` are left out.

### GameSetup

A host command takes three steps: `Verify` (the token is checked and no lock is
held), the command itself under the session mutex, and for OpenRoom and
HostCloseRoom the broadcast after it. Between them the connection may break;
`ReadLoopEnds` gives up the seat. Both validators are translated with their own
limits. `Assign` walks a shuffled order, which is any permutation. A game is seen
only as started or ended.

### Shutdown

`stage` is the program counter of `shutdown` with the statements of `hub.Close` and
`mgr.Close` inlined. Each client's read loop and the ticker have a program counter
too; a critical section of the session is cut into SaveSnapshot, handleGameEnd and
the dispatch, because between them the context of its store calls may be cancelled.
The game is a count of State changes with a flag for END. The model begins with a
running game; `Session` has the other states in which a process may be stopped.

## 3. The runs

Passing runs:

| Run | Properties | Shows |
|---|---|---|
| `engine_play` | TypeOK, NightTargetsInStep, CueOncePerDay, ElectionOpen, NoUnnoticedWin, PoliceHistorySound, RepresentativeLives, TickCatchesUp, DeathHasCause, ImplementsLifecycle | five players with two mafiosi, all commands of players and host, pauses, late and stale ticks, a cue, two days |
| `engine_live` | BufferRunsOut, NightPasses | liveness under a running clock and ticker; ballots for nobody |
| `session_faults` | TypeOK, FinishedNotActive, StartedMatchesEngine, CrashLosesNothing | every write and load may fail, crashes, three boots |
| `hub` | TypeOK, NoOrphan, LastConnectWins, DeadConnectionsLeave, ClosedHubEmpties | two connections over two players and two changes of the session; liveness of the goroutines, `Close` included |
| `viewers` | KeepsSecrets, ResumeRestores, CopiesAgree | a day and a night seen by six viewers, of which a mafioso, the police and the screen may lose their connection: what events, announcements and private views disclose, and what the browsers make of them |
| `shutdown` | TypeOK, ToldIsDurable, TickerMeetsOpenStore, RequestsServed, ToldOnlyIfSavable, ShutdownCompletes | the stages against two clients, the ticker and a request, both timeouts included |
| `setup` | TypeOK, StartedIsPlayable, AnnouncedIsInForce | two host pages, options at the limits of both validators, up to eight players |

Runs that end in a violation. Each shows that the code does not keep what one of
its comments or rules says; `PROJECT.json` quotes it under "findings":

| Run | Property | Counterexample |
|---|---|---|
| `session_replay` | EndedStaysEnded | the snapshot of an end by the clock is still of a running game; SaveResult fails, the end is announced, the process crashes, and the boot plays the game on |
| `session_close` | ClosedTokensStayInvalid | a closed room is restored by the next boot |
| `hub_indices` | IndicesCoordinated | a client unregistered while its handler binds it stays indexed for good |
| `viewers_states` | StatesMasked | a player that reconnects during a game is sent the State with everybody's roles and keywords, before it has resumed |
| `viewers_lobby` | RosterShown | a player that resumes in the lobby is shown a room without players |

Behaviour of the code that a reader may not expect, without a run of its own:

- Host commands are accepted during a pause. A turn that one of them starts is
  moved by the whole pause at the resume, and so lasts longer than a full turn
  (`handlers_lifecycle.go:187`).
- A threshold crossed between the last tick and a pause is never announced, because
  the resume sets `LastTickAt` to the current time (`handlers_lifecycle.go:209`).
- Votes and night actions go on during the result buffer, and a scheduled end is
  never revised: MAFIA_WIN may be declared with no mafioso left alive.
  `GameLifecycle` says so: the first verdict stands.
- A player may join after the end of a game, before the room is closed
  (`lifecycle.go:80` tests `Started` only).
- A role dealt between `JoinPlayer` and `bindPlayer` reaches no client
  (`ws/handlers.go:84`); the player gets it by a resume, which `ResumeRestores` covers.
- A snapshot is read under the session's lock and queued after it, so an event may be
  queued before the older snapshot (`ws/hub.go:104`, `ws/handlers.go:93`).
- `BuildPrivateView` leaves `MafiaRepresentativeID` in every player's view; `KeepsSecrets`
  names this exception. It leaves the pending targets and the ballots in too. The
  `Reveal` of GameEnded has the keywords, which a view hides even at END
  (`view.go:64`).
- The browser never clears its `pendingMafiaTarget`, and offers all the living in a
  recount. A lobby snapshot of a new process has `players: null`.
- `validateSavedHostOptions` accepts up to `maxPlayers - 3` mafiosi, so options like 4
  of 7 can be saved, opened and joined, and never started; and options that can be
  started (`maxPlayers` 0, night steps 0) cannot be saved. `JoinPlayer` looks at
  `MaxLobbySize` only: a room may outgrow its `maxPlayers`, and is then refused a start
  until it is closed. Options are not looked at by `OpenRoom`.
- The 2 seconds of the last stage bound neither the wait for the ticker nor the lock.
  An error of `ListenAndServe` ends the program without a final snapshot, so the
  submissions since the last one are lost.

### Bounds, and why they are enough

- *Engine.* Timers last 1-2 seconds; the rules compare instants and never multiply
  them, so lengths matter only by their order. `MaxNow` = 1000 is never reached
  in the safety runs: the `VIEW` `RelativeTime` replaces instants by their
  distance to the clock. That is sound because guards compare instants with each
  other and with `t` only; it leaves out instants the current phase does not read,
  and merges timers that expired longer than a whole night ago. `MaxDay` = 2 lets
  records of one night meet the next; commands stop after it, and ticks go on.
  `MaxPause` = 1 is a pause as long as a turn, `MaxTickLag` = 1 and `MaxTickGap` = 2
  give a tick older than the last and one that is late by two turns.
  One deal stands for all: players differ by role and seat only. Five with two
  mafiosi let a representative be replaced and a game reach a second night. Ballots
  are for either mafioso or a citizen, enough for ties, recounts and executions of
  each side; `engine_live` has ballots for nobody. `MinPlayers` is a constant of the
  model, below the code's six.
- *Session.* Two names, two games, three IDs, two transitions a game and one
  submission a transition: a second game meets what the first left on disk. Three
  boots: a crash of a restored process included. `CHECK_DEADLOCK FALSE`, because a
  process whose boots are used up is off for good.
- *Hub.* Two connections are what every race here takes: one acts while the other
  binds, evicts, demotes or leaves. Two players, so that a client can change from
  one to another. `MaxVersion` = 2 bounds the joins, starts, openings and closings of a
  room, enough for a game after a join, a join after an opening, and a closing with a
  player inside; the events of a game are not counted. The theorems about `NoOrphan`
  and `LastConnectWins` hold for any bound. `CHECK_DEADLOCK FALSE`, because a hub that
  was closed, or whose connections have all left, has nothing left to do.
- *Viewers.* The same five players, the first day with its vote and the night up to the
  next morning, so that an execution, a new representative, a police result and a death
  in the night all occur; one
  viewer away (not connected, or not resumed yet) at a time, since no viewer's copy
  depends on another's. The view
  `ViewersRelativeTime` forgets copies that agree with the engine: the next state of
  such a copy is a function of what is kept.
- *Setup.* Two pages compete; eight members reach past a `maxPlayers` of 7; the forms
  lie on both sides of every limit. The orders of the deal are three of all, which
  the theorem covers.
- *Shutdown.* Two clients and two State changes: one handler is inside while another
  registers, and a submission may follow a save.

### Fairness

- *Engine* (`FairSpec`): `AdvanceClock`, and `Ticker` at the current instant. Time
  passes and `time.Ticker` keeps firing; nothing is asked of a player or the host.
  The conclusions allow for a pause, since a paused game need never go on.
- *Hub* (`FairSpec`): each goroutine of the hub that can run does. The GM lock
  comes free because a dispatch never blocks: `enqueue` drops instead of waiting.
  Nothing is asked of the peers.
- *Shutdown* (`FairSpec`): the holder of the mutex goes on (weak). Main and the
  ticker get the mutex although others take it again and again (strong): a
  `sync.Mutex` hands over to a waiter in its starvation mode. The `select` of
  `tickLoop` takes the closed stop channel in the end (strong), as Go chooses among
  ready cases at random. Nothing is asked of clients, requests or timeouts.

## 4. The proofs

Assumptions on constants are named and evaluated by TLC (`RosterAssumption`,
`OptionsAssumption`, `DealsAssumption`, `DurationAssumption`,
`ViewersAssumption`, `SessionAssumption`, `HubAssumption`, `SetupAssumption`, `ShuffleAssumption`,
`ShutdownAssumption`): sets of distinct model values, lengths
that are naturals or positive, as the option validation ensures. The bounds are
arbitrary naturals, so a theorem holds for every length of a run.

| Theorem | States |
|---|---|
| `GameEngineProofs!TypeCorrect` | `[]TypeOK`; the speaker's index stays on the roster however often it is advanced |
| `GameEngineProofs!RepresentativeAlwaysLives` | `[]RepresentativeLives` |
| `GameEngineProofs!WinsAreNoticed` | `[]NoUnnoticedWin` |
| `GameEngineProofs!TargetsStayInStep` | `[]NightTargetsInStep` |
| `GameRulesProofs!EngineImplementsLifecycle` | the refinement `ImplementsLifecycle` |
| `GameRulesProofs!ElectionsStayOpen` | `[]ElectionOpen` |
| `GameRulesProofs!DeathsHaveCauses` | the action property `DeathHasCause`, ballots included |
| `GameRulesProofs!InvestigationsAreSound` | `[]PoliceHistorySound` |
| `GameClockProofs!CuesAreAnnouncedOnce` | `[]CueOncePerDay`, for any thresholds |
| `GameClockProofs!TicksCatchUp` | the action property `TickCatchesUp` |
| `ViewersProofs!SecretsAreKept` | `[]KeepsSecrets`: events, announcements and private views; the State of `pushRoomState` is not in it |
| `ViewersProofs!ResumesRestore` | `[]ResumeRestores` |
| `ViewersProofs!CopiesStayInStep` | `[]CopiesAgree`, for any number of speakers and sub-steps a tick passes |
| `SessionProofs!TypeCorrect` | `[]TypeOK`; the host is a member, in memory and on disk |
| `SessionProofs!FinishedGamesStayFinished` | `[]FinishedNotActive` |
| `SessionProofs!StartedIsTruthful` | `[]StartedMatchesEngine` |
| `SessionProofs!CrashesLoseNothing` | `[]CrashLosesNothing` |
| `HubProofs!ClientsAreReachable` | `[]NoOrphan` |
| `HubProofs!OneClientPerPlayer` | `[]LastConnectWins` |
| `HubProofs!HubTypeCorrect` | `[]TypeOK`; a spawned `Unregister` is of a registered client |
| `GameSetupProofs!TypesHold` | `[]TypeOK` |
| `GameSetupProofs!GamesArePlayable` | `[]StartedIsPlayable`, for all integer options and all shuffles |
| `GameSetupProofs!PagesShowTheOptions` | `[]AnnouncedIsInForce`, for any number of pages |
| `GameSetupProofs!DefaultsCanStart` | the default options pass `validateOptions` for 6 to 12 players |
| `ShutdownProofs!TypesHold` | `[]TypeOK`, mutual exclusion included |
| `ShutdownProofs!NothingToldIsLost` | `[]ToldIsDurable` |
| `ShutdownProofs!TickerIsWaitedFor` | `[]TickerMeetsOpenStore` |
| `ShutdownProofs!ResultsAreServed` | `[]RequestsServed` |
| `ShutdownProofs!ToldWhileSavable` | the action property `ToldOnlyIfSavable` |

*Engine.* The type invariant is proved action by action. For the others, the lemma
`StepCases` first reduces every step to four cases: a start, a resolved night, an
elimination, or a quiet step that changes neither survivors, roles nor
representative. With `TypeOK`, each of the properties is then inductive by itself.

*Rules.* `TurnCases` refines `StepCases` by what a step does to the phase, the day and
the scheduled end; the results of `GameRulesProofs` but the ballot box go by its six
cases. `PoliceHistorySound` is not inductive: a second record of one night would break
it. `HistoryInDay` adds that a record of the current day was made this night, and that
`PoliceCheckedThisNight` remembers it. `ElectionOpen` is inductive beside `TypeOK` and
`NoUnnoticedWin`, which gives a new election living voters; that a recount has living
candidates rests on the lemma `TopAreNamed`, by which whoever is most voted is named
on a ballot. `DeathHasCause` needs facts made steps earlier: `NightTargetsInStep`, since
a victim of the night was no mafioso when it was chosen, and `ElectionOpen`, since the
ballots the last one completes must be of exactly the living. That the single top
candidate has more ballots than any other player is the lemma `TopBeatsAll`, and
`TalliedIsElected` puts the two together. The refinement needs `EndInStage`, that an end is scheduled only
from the first day on and always names a winner, and `NightTargetsInStep`, that a
victim of the night is alive and no mafioso.

*Timers.* `CueOncePerDay` is not inductive, as a deadline may move on. `CuesBehind` adds
that an announced cue lies behind the last tick and, during a pause, behind the start
of the pause: shifted by the pause it lies behind the resume, where `LastTickAt` is set.
`TimersRun` adds that `LastTickAt` is never ahead of the clock and that a night has a
deadline. `TickCatchesUp` follows step by step: the closed forms of `tickIntro` and
`tickNight` end at the first timer that has not expired.

*Viewers.* Every step of `ViewSpec` is one of the engine or leaves it alone
(`EngineRuns`), so the engine's theorems hold here. `MayKnow(v)` is what the rules have
revealed to `v` by now, and an envelope is `Safe` when it exposes nothing else to
anybody in the state after its step. There is a lemma for the envelopes of every
handler (`StartSafe` ... `TickSafe`), one that `MayKnow` never shrinks during a game
(`KnowledgeGrows`), and `SecretsInv` follows: what was addressed to `v` is within
`MayKnow(v)`. It needs `BallotsKnown`: in the result buffer the ballots of the dead stay
in the box, and an elimination there may name a player again who was executed before,
but never one who died at night, whose role is still hidden. `RepresentativeLives`
before and after the step makes the announced change of representative speak of two
mafiosi. An announcement goes to the PUBLIC clients, so it counts for a player whose
client is not bound yet. `ViewIsOwn` is the part about private views: a view holds the
player's own secrets, what is public, and the representative. TLC checked `BallotsKnown` and `CopyInv` (below) on the run `viewers`, and `EndInStage`,
`HistoryInDay`, `CuesBehind` and `TimersRun` on `engine_play`, before they were proved.

*Copies.* `CopiesAgree` says nothing before the game, so it is not inductive: `CopyInv`
adds what the lobby's copies must be for `StartEvents` to complete them (`Fresh`). The
engine's side is `EngineInv`. A reducer clears the night's timer and
`policeChecked` with every `PhaseChanged`, whatever the phase, so the engine must have
no timer running outside its phase (`TimersStopped`, and `NightTargetsInStep` for the
flag); and there is one police, because the deal is an `Assignments` (`Dealt`), so a
police result that reaches one player completes the only copy that keeps a history.
A client that is not bound yet gets the events of the PUBLIC client, so `CopyInv` says
of every client that its copy is in step for its `Identity`. How many envelopes a late
tick or a start sends is not bounded. `Becomes(v, m, envs, n)`
says that the reducer of a client with identity v takes the copy m to n by `envs`;
`ReducersRun` proves that the recursive function in `ReduceCopies` computes it, by induction over the envelopes. The
induction principle is `SetInduction`, for a set of naturals instead of a predicate, from
the well-foundedness of `<` on the naturals. `BecomesJoin` takes a sequence apart, and
`BecomesFrame` says of a homogeneous part, as the speakers passed or the sub-steps passed,
that it changes only what each envelope changes and ends with what the last one does.
There is one lemma `...InStep` for every handler, and `CopyStep` puts them together with
`Drop`, the pushed State and the private view.

*Session.* `FinishedNotActive` is not inductive: a snapshot written for a game that
already has a result would break it. `Inv` adds that a game which runs, may start
or has writes pending has no result; that game IDs are fresh; that `Started`
agrees with the engine also while a write is pending; that a pending write is of
the running game; and that the snapshot is of a started game. `CrashLosesNothing`
needs `Durable` on top: the pending write of a transition is of the engine's
current state, which holds because submissions wait for the mutex, and a process
that is off plays nothing.

*Hub.* `NoOrphan` follows from `Placed`: a registered client with a player is the
one indexed under it, one without is public, unless it is being evicted.
`Progress` says that a handler about to bind knows its player and that no client
has a player before `Register` is through; without it `RegisterAdd` could add a
client that is in neither index. `LastConnectWins` follows from `Placed`, as an
index holds one client. The invariant does *not* say that indices hold only
registered clients, which is false (`hub_indices`). `TypeOK` says of the goroutines
spawned by `enqueue` that they stand for registered clients (`Reaped`). That needs
`Known`: whoever is indexed, listed by a broadcast or taken by a dispatch was added by
`Register`, so that a target which is not cancelled is registered still.

*Setup.* `AnnouncedIsInForce` needs `Exclusive`: only the page in the seat is inside a
command, which holds because the read loop that runs a command is also the one that
gives up the seat; and `Telling`: a broadcast that is still to come is of the room as
it is. `StartedIsPlayable` is inductive beside it. That `Assign` deals the right
numbers of roles is proved from the order being a bijection, by counting the images
of its first places.

*Shutdown.* `Staged` says what each stage has already seen to (the subscription gone
from "unregister" on, the context cancelled from "mgr" on, the ticker gone from
"flush" on, the store open until "closed"). `Ahead` says that the engine's State is
never behind what was told, and that a game which is no longer started has its result.
The final snapshot then covers what was told. That it stays so needs `Staged` again: a
handler that is still inside when the store is closed can neither save nor tell.

*Only model-checked.* Liveness (`BufferRunsOut`, `NightPasses`,
`DeadConnectionsLeave`, `ClosedHubEmpties`, `ShutdownCompletes`), which is out of the
prover's reach. Every other property of a passing run is a theorem.

## 5. Not modelled

- Keyword pool: decorative words, which no rule reads. Who may see them is in `Viewers`.
- Wording and audio names of the announcements, JSON tags, HTTP routes of static
  files, flags and logging.
- Torn reads of `Client.PlayerID`, which handlers read without the registry lock
  while `broadcastRoomClosed` may write it. The value only chooses the sender of
  a session call.
- The gap between a session call and the use of its answer in the *contents* of what
  a browser shows: `Hub` has the gap without contents, `Viewers` the contents without
  the gap.
- The queue of voice cues and the views of the web client. The queue
  (`useAudioCueQueue.ts`) is driven by callbacks of the browser's media element, whose
  order the source does not determine; nothing on the server waits for it.
- The timing of reconnection (`useWebSocket.ts`): a dropped viewer may come back at
  any time or never, which includes every timing.

## 6. What is left

- The safety part of the violated properties: under which condition `EndedStaysEnded`
  and `IndicesCoordinated` do hold.
- Under which condition `StatesMasked` holds: for a client that connects in the lobby
  and is bound before the game.
- The gap between a session call and the use of its answer *with* the contents sent
  (section 5): it takes `Hub` and `Viewers` in one model.
