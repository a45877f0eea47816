----------------------------- MODULE GameEngine -----------------------------
(***************************************************************************)
(* The rules engine of package internal/game: one State, changed by        *)
(* Start, by Apply (one handler per client action) and by Tick (the        *)
(* session's one-second ticker).  Every handler runs to completion under   *)
(* the session mutex, so each is one atomic action here; a rejected action *)
(* leaves the State alone and is a stuttering step.                        *)
(*                                                                         *)
(* Instants are integers on the clock `now` (game.Clock); 0 is Go's zero   *)
(* time.Time.  The instant a Tick carries was sampled by the ticker before *)
(* the mutex was taken, so it may lie behind the clock.  "NONE" is Go's    *)
(* empty string, in a Phase, a NightStep, a Role, a Team and an EndReason. *)
(***************************************************************************)
EXTENDS Integers, Sequences, FiniteSets

CONSTANTS
    Players,                \* the IDs seated when the game starts
    Roster,                 \* State.Players: the seating (and intro) order
    NoPlayer,               \* the empty PlayerID, and a nil *PlayerID
    NotVoted,               \* "no key for this voter" in State.Votes
    HostID,                 \* State.HostID: a player, or NoPlayer in the v2 flow
    Senders,                \* sender IDs that host commands arrive with
    Deals,                  \* role assignments the shuffle may produce
    MinPlayers, MaxPlayers, \* the 6 and 12 of Start and validateOptions
    MafiaCount, IntroSecondsPerPlayer, DiscussionSeconds,     \* Options
    NightMafiaSeconds, NightPoliceSeconds, NightDoctorSeconds,
    DoctorSelfHealAllowed,
    NightIntroSeconds, DayIntroSeconds, FinalResultBufferSeconds,
    Thresholds,             \* discussionTimerThresholds
    VoiceInputs,            \* voice settings of Options and ToggleVoice
    Ballots,                \* targets a SubmitVote may carry, NoPlayer to abstain
    MaxTickLag,             \* bound: how far a Tick's instant may lag the clock
    MaxTickGap, MaxPause,   \* bounds: longest wait for a tick, longest pause
    MaxNow, MaxDay          \* bounds: last instant, last day with commands

Roles == {"MAFIA", "DOCTOR", "POLICE", "CITIZEN"}
NightSteps == {"INTRO", "MAFIA", "POLICE", "DOCTOR"}
Phases == {"NONE", "INTRO", "DAY", "VOTE", "RECOUNT", "NIGHT", "END"}
EndReasons == {"CITIZEN_WIN", "MAFIA_WIN", "HOST_FORCE_END"}
NoEnd == [reason |-> "NONE", deadline |-> 0]

ASSUME RosterAssumption ==
    /\ IsFiniteSet(Players)
    /\ Roster \in Seq(Players)
    /\ \A p \in Players : \E i \in 1..Len(Roster) : Roster[i] = p
    /\ Len(Roster) = Cardinality(Players)
    /\ NoPlayer \notin Players
    /\ NotVoted \notin Players \cup {NoPlayer}
    /\ HostID \in Players \cup {NoPlayer}

\* What Start and validateOptions demand before a game begins.
ASSUME OptionsAssumption ==
    /\ MinPlayers \in Nat /\ MaxPlayers \in Nat
    /\ Len(Roster) \in MinPlayers..MaxPlayers
    /\ MafiaCount \in Nat \ {0}
    /\ Len(Roster) - MafiaCount >= MafiaCount + 1
    /\ Len(Roster) - MafiaCount - 2 >= 1
    /\ DoctorSelfHealAllowed \in BOOLEAN /\ VoiceInputs \in SUBSET BOOLEAN

\* The role assignments Assign can deal.
Assignments ==
    {r \in [Players -> Roles] :
        /\ Cardinality({p \in Players : r[p] = "MAFIA"}) = MafiaCount
        /\ Cardinality({p \in Players : r[p] = "DOCTOR"}) = 1
        /\ Cardinality({p \in Players : r[p] = "POLICE"}) = 1}

ASSUME DealsAssumption == Deals \subseteq Assignments

ASSUME DurationAssumption ==
    /\ IntroSecondsPerPlayer \in Nat \ {0}
    /\ DiscussionSeconds \in Nat \ {0}
    /\ NightMafiaSeconds \in Nat \ {0}
    /\ NightPoliceSeconds \in Nat \ {0}
    /\ NightDoctorSeconds \in Nat \ {0}
    /\ NightIntroSeconds \in Nat \ {0}
    /\ DayIntroSeconds \in Nat \ {0}
    /\ FinalResultBufferSeconds \in Nat \ {0}
    /\ Thresholds \subseteq Nat
    /\ {MaxTickLag, MaxTickGap, MaxPause, MaxNow, MaxDay} \subseteq Nat

VARIABLES
    now,                                  \* clock.Now()
    phase, day, role, alive, rep,         \* Phase, Day, Players, MafiaRepresentativeID
    introIdx, introStartedAt,             \* IntroSpeakerIdx, IntroSpeakerStartedAt
    deadline,                             \* Deadline of the DAY discussion
    nightStep, nightStepDeadline,         \* NightStep, NightStepDeadline
    pendingMafia, pendingDoctor, pendingPolice,  \* Pending*Target
    policeChecked, policeHistory,         \* PoliceCheckedThisNight, PoliceHistory
    votes, voteRound, voteCandidates,     \* Votes, VoteRound, VoteCandidates
    paused, pausedAt,                     \* Paused, PausedAt
    pendingEnd, winner, endReason,        \* PendingGameEnd, Winner, EndReason
    lastTickAt, voiceOn,                  \* LastTickAt, Settings.AnnouncementVoiceOn
    timerTicks                            \* DiscussionTimerTicks sent this day

introVars == <<introIdx, introStartedAt>>
stepVars == <<nightStep, nightStepDeadline>>
targetVars == <<pendingMafia, pendingDoctor, pendingPolice, policeChecked>>
voteVars == <<votes, voteRound, voteCandidates>>
pauseVars == <<paused, pausedAt>>
endVars == <<pendingEnd, winner, endReason>>
vars == <<now, phase, day, role, alive, rep, introVars, deadline, stepVars,
          targetVars, policeHistory, voteVars, pauseVars, endVars,
          lastTickAt, voiceOn, timerTicks>>

-----------------------------------------------------------------------------
(* Reading the State *)

Mafia == {p \in Players : role[p] = "MAFIA"}
TeamOf(r) == IF r = "MAFIA" THEN "MAFIA" ELSE "CITIZEN"
EmptyVotes == [p \in Players |-> NotVoted]
NoTicks == [th \in Thresholds |-> 0]
Voted(v) == {p \in Players : v[p] # NotVoted}

\* evaluateEnd on the survivors `a`; "NONE" when neither side has won.
EvaluateEnd(a) ==
    IF a \cap Mafia = {} THEN "CITIZEN_WIN"
    ELSE IF Cardinality(a \cap Mafia) >= Cardinality(a \ Mafia)
         THEN "MAFIA_WIN" ELSE "NONE"

WinnerOf(reason) ==
    CASE reason = "CITIZEN_WIN" -> "CITIZEN"
      [] reason = "MAFIA_WIN"   -> "MAFIA"
      [] OTHER                  -> "NONE"

NightStepSeconds(s) ==
    CASE s = "INTRO"  -> NightIntroSeconds
      [] s = "MAFIA"  -> NightMafiaSeconds
      [] s = "POLICE" -> NightPoliceSeconds
      [] s = "DOCTOR" -> NightDoctorSeconds

EnsureHost(sender) == sender = HostID

-----------------------------------------------------------------------------
(* Transitions shared by several handlers *)

\* Mutant: the win conditions are evaluated before the death is applied.
ScheduleGameEndTooEarly(a) ==
    pendingEnd' = IF EvaluateEnd(alive) = "NONE" \/ pendingEnd # NoEnd THEN pendingEnd
                  ELSE [reason |-> EvaluateEnd(alive),
                        deadline |-> now + FinalResultBufferSeconds]

\* Mutant: a later win replaces the scheduled one.
ScheduleGameEndAgain(a) ==
    pendingEnd' = IF EvaluateEnd(a) = "NONE" THEN pendingEnd
                  ELSE [reason |-> EvaluateEnd(a),
                        deadline |-> now + FinalResultBufferSeconds]

\* scheduleGameEnd after the survivors became `a`: the first verdict stays.
ScheduleGameEnd(a) ==
    pendingEnd' = IF EvaluateEnd(a) = "NONE" \/ pendingEnd # NoEnd THEN pendingEnd
                  ELSE [reason |-> EvaluateEnd(a),
                        deadline |-> now + FinalResultBufferSeconds]

\* Mutant: the successor is drawn from the whole cohort, dead members included.
ReassignFromCohort(dead, a) ==
    IF dead # rep THEN rep' = rep
    ELSE IF a \cap Mafia = {} THEN rep' = NoPlayer
    ELSE rep' \in Mafia

\* reassignMafiaRepresentative once `dead` has left the survivors `a`.
ReassignMafiaRepresentative(dead, a) ==
    IF dead # rep THEN rep' = rep
    ELSE IF a \cap Mafia = {} THEN rep' = NoPlayer
    ELSE rep' \in a \cap Mafia

\* Mutant: the doctor's target outlives the night.
ClearTargetsButDoctor ==
    /\ pendingMafia' = NoPlayer
    /\ pendingDoctor' = pendingDoctor
    /\ pendingPolice' = NoPlayer
    /\ policeChecked' = FALSE

ClearTargets ==
    /\ pendingMafia' = NoPlayer
    /\ pendingDoctor' = NoPlayer
    /\ pendingPolice' = NoPlayer
    /\ policeChecked' = FALSE

\* transitionIntroToDay(at)
TransitionIntroToDay(at) ==
    /\ phase' = "DAY"
    /\ deadline' = at + DiscussionSeconds
    /\ ClearTargets
    /\ nightStep' = "NONE"
    /\ lastTickAt' = at
    /\ timerTicks' = NoTicks
    /\ UNCHANGED <<now, day, role, alive, rep, nightStepDeadline,
                   policeHistory, voteVars, pauseVars, endVars, voiceOn>>

\* transitionDayToVote(at)
TransitionDayToVote(at) ==
    /\ phase' = "VOTE"
    /\ deadline' = 0
    /\ votes' = EmptyVotes
    /\ voteRound' = 1
    /\ voteCandidates' = {}
    /\ lastTickAt' = at
    /\ UNCHANGED <<now, day, role, alive, rep, introVars, stepVars, targetVars,
                   policeHistory, pauseVars, endVars, voiceOn>>

\* enterNight, with beginNightStep(INTRO, now)
EnterNight ==
    /\ phase' = "NIGHT"
    /\ deadline' = 0
    /\ votes' = EmptyVotes
    /\ voteRound' = 0
    /\ voteCandidates' = {}
    /\ ClearTargets
    /\ nightStep' = "INTRO"
    /\ nightStepDeadline' = now + NightStepSeconds("INTRO")
    /\ lastTickAt' = now

\* The player the mafia kill this night: their target unless the doctor chose it.
Victim == IF pendingMafia # pendingDoctor THEN pendingMafia ELSE NoPlayer

\* resolveNight
ResolveNight ==
    LET survivors == alive \ {Victim} IN
    /\ alive' = survivors
    /\ IF Victim = NoPlayer THEN rep' = rep
       ELSE ReassignMafiaRepresentative(Victim, survivors)
    /\ ClearTargets
    /\ nightStep' = "NONE" /\ nightStepDeadline' = 0
    /\ day' = day + 1
    /\ phase' = "DAY"
    /\ deadline' = now + DayIntroSeconds + DiscussionSeconds
    /\ lastTickAt' = now
    /\ ScheduleGameEnd(survivors)
    /\ timerTicks' = NoTicks
    /\ UNCHANGED <<now, role, introVars, policeHistory, voteVars, pauseVars,
                   winner, endReason, voiceOn>>

-----------------------------------------------------------------------------
(* Start *)

\* NewDefault: the zero State.  Start accepts it (and LOBBY, which the session
\* restores after a closed room) alike; both are phase "NONE" here.
Init ==
    /\ now = 1
    /\ phase = "NONE" /\ day = 0
    /\ role = [p \in Players |-> "NONE"] /\ alive = {} /\ rep = NoPlayer
    /\ introIdx = 0 /\ introStartedAt = 0
    /\ deadline = 0
    /\ nightStep = "NONE" /\ nightStepDeadline = 0
    /\ pendingMafia = NoPlayer /\ pendingDoctor = NoPlayer
    /\ pendingPolice = NoPlayer /\ policeChecked = FALSE
    /\ policeHistory = <<>>
    /\ votes = EmptyVotes /\ voteRound = 0 /\ voteCandidates = {}
    /\ paused = FALSE /\ pausedAt = 0
    /\ pendingEnd = NoEnd /\ winner = "NONE" /\ endReason = "NONE"
    /\ lastTickAt = 0 /\ voiceOn = TRUE /\ timerTicks = NoTicks

\* Engine.Start: roles are dealt and the introductions begin.
Start ==
    /\ phase = "NONE"
    /\ role' \in Deals
    /\ rep' \in {p \in Players : role'[p] = "MAFIA"}
    /\ phase' = "INTRO" /\ day' = 1
    /\ alive' = Players
    /\ introIdx' = 0 /\ introStartedAt' = now
    /\ lastTickAt' = now
    /\ voiceOn' \in VoiceInputs
    /\ UNCHANGED <<now, deadline, stepVars, targetVars, policeHistory, voteVars,
                   pauseVars, endVars, timerTicks>>

-----------------------------------------------------------------------------
(* Introductions *)

\* Mutant: the index may run past the last speaker.
MoreSpeakersOffByOne == introIdx < Len(Roster)

MoreSpeakers == introIdx < Len(Roster) - 1

\* The branch handleEndSelfIntro and handleAdvanceIntro share.
NextSpeaker ==
    IF MoreSpeakers
    THEN /\ introIdx' = introIdx + 1
         /\ introStartedAt' = now
         /\ UNCHANGED <<now, phase, day, role, alive, rep, deadline, stepVars,
                        targetVars, policeHistory, voteVars, pauseVars, endVars,
                        lastTickAt, voiceOn, timerTicks>>
    ELSE /\ TransitionIntroToDay(now)
         /\ UNCHANGED introVars

EndSelfIntro(p) ==
    /\ phase = "INTRO"
    /\ p = Roster[introIdx + 1]
    /\ NextSpeaker

AdvanceIntro(h) ==
    /\ phase = "INTRO"
    /\ EnsureHost(h)
    /\ NextSpeaker

-----------------------------------------------------------------------------
(* Night *)

SubmitMafiaKill(m, target) ==
    /\ phase = "NIGHT" /\ nightStep = "MAFIA"
    /\ role[m] = "MAFIA"
    /\ m \in alive /\ target \in alive
    /\ m = rep
    /\ pendingMafia = NoPlayer
    /\ role[target] # "MAFIA"
    /\ pendingMafia' = target
    /\ UNCHANGED <<now, phase, day, role, alive, rep, introVars, deadline,
                   stepVars, pendingDoctor, pendingPolice, policeChecked,
                   policeHistory, voteVars, pauseVars, endVars, lastTickAt,
                   voiceOn, timerTicks>>

SubmitDoctorHeal(d, target) ==
    /\ phase = "NIGHT" /\ nightStep = "DOCTOR"
    /\ role[d] = "DOCTOR"
    /\ d \in alive /\ target \in alive
    /\ d # target \/ DoctorSelfHealAllowed
    /\ pendingDoctor = NoPlayer
    /\ pendingDoctor' = target
    /\ UNCHANGED <<now, phase, day, role, alive, rep, introVars, deadline,
                   stepVars, pendingMafia, pendingPolice, policeChecked,
                   policeHistory, voteVars, pauseVars, endVars, lastTickAt,
                   voiceOn, timerTicks>>

\* Mutant: any number of investigations a night.
AnyPoliceCheck == TRUE

FirstPoliceCheck == ~policeChecked

SubmitPoliceCheck(c, target) ==
    /\ phase = "NIGHT" /\ nightStep = "POLICE"
    /\ role[c] = "POLICE"
    /\ c \in alive /\ target \in alive
    /\ c # target
    /\ FirstPoliceCheck
    /\ pendingPolice' = target
    /\ policeChecked' = TRUE
    /\ policeHistory' = Append(policeHistory,
           [day |-> day, target |-> target, team |-> TeamOf(role[target])])
    /\ UNCHANGED <<now, phase, day, role, alive, rep, introVars, deadline,
                   stepVars, pendingMafia, pendingDoctor, voteVars, pauseVars,
                   endVars, lastTickAt, voiceOn, timerTicks>>

EndNightEarly(h) ==
    /\ phase = "NIGHT"
    /\ EnsureHost(h)
    /\ ResolveNight

-----------------------------------------------------------------------------
(* Day and vote *)

EndDiscussionEarly(h) ==
    /\ phase = "DAY"
    /\ EnsureHost(h)
    /\ TransitionDayToVote(now)
    /\ UNCHANGED timerTicks

Count(v, p) == Cardinality({q \in Players : v[q] = p})

\* Mutant: of the players with the most ballots only the first one is kept.
TopFirstOnly(v) ==
    LET top == {p \in Players : /\ Count(v, p) > 0
                                /\ \A q \in Players : Count(v, q) <= Count(v, p)}
    IN  IF top = {} THEN {} ELSE {CHOOSE p \in top : TRUE}

\* tally's topCandidates: the players with the most (and at least one) ballots.
TopCandidates(v) ==
    {p \in Players : /\ Count(v, p) > 0
                     /\ \A q \in Players : Count(v, q) <= Count(v, p)}

\* applyElimination of x, the ballots being v.
ApplyElimination(x, v) ==
    LET survivors == alive \ {x} IN
    /\ alive' = survivors
    /\ ReassignMafiaRepresentative(x, survivors)
    /\ ScheduleGameEnd(survivors)
    /\ IF EvaluateEnd(survivors) # "NONE"
       THEN /\ votes' = v
            /\ UNCHANGED <<phase, deadline, voteRound, voteCandidates,
                           stepVars, targetVars, lastTickAt>>
       ELSE EnterNight

\* tally of the ballots v.
Tally(v) ==
    LET top == TopCandidates(v) IN
    \/ \E x \in top :
          /\ top = {x}
          /\ ApplyElimination(x, v)
    \/ /\ Cardinality(top) > 1 /\ voteRound = 1
       /\ phase' = "RECOUNT"
       /\ voteRound' = 2
       /\ voteCandidates' = top
       /\ votes' = EmptyVotes
       /\ UNCHANGED <<alive, rep, deadline, stepVars, targetVars, pendingEnd,
                      lastTickAt>>
    \/ /\ top = {} \/ (Cardinality(top) > 1 /\ voteRound # 1)
       /\ EnterNight
       /\ UNCHANGED <<alive, rep, pendingEnd>>

\* Mutant: one ballot too many is awaited.
AllVotedButOne(v) == Cardinality(Voted(v)) > Cardinality(alive)

AllVoted(v) == Cardinality(Voted(v)) >= Cardinality(alive)

\* handleVote: record the ballot, tally once every survivor has voted.
SubmitVote(voter, target) ==
    LET v == [votes EXCEPT ![voter] = target] IN
    /\ phase \in {"VOTE", "RECOUNT"}
    /\ voter \in alive
    /\ \/ target = NoPlayer
       \/ target \in alive /\ (phase = "RECOUNT" => target \in voteCandidates)
    /\ IF AllVoted(v)
       THEN Tally(v)
       ELSE /\ votes' = v
            /\ UNCHANGED <<phase, alive, rep, deadline, voteRound,
                           voteCandidates, stepVars, targetVars, pendingEnd,
                           lastTickAt>>
    /\ UNCHANGED <<now, day, role, introVars, policeHistory, pauseVars, winner,
                   endReason, voiceOn, timerTicks>>

-----------------------------------------------------------------------------
(* Host commands available in every phase *)

ToggleVoice(h, on) ==
    /\ EnsureHost(h)
    /\ voiceOn' = on
    /\ UNCHANGED <<now, phase, day, role, alive, rep, introVars, deadline,
                   stepVars, targetVars, policeHistory, voteVars, pauseVars,
                   endVars, lastTickAt, timerTicks>>

PauseGame(h) ==
    /\ EnsureHost(h)
    /\ \/ pendingEnd # NoEnd
       \/ /\ phase \in {"INTRO", "DAY", "NIGHT"}
          /\ ~(phase = "NIGHT" /\ nightStep = "INTRO")
    /\ ~paused
    /\ paused' = TRUE
    /\ pausedAt' = now
    /\ UNCHANGED <<now, phase, day, role, alive, rep, introVars, deadline,
                   stepVars, targetVars, policeHistory, voteVars, endVars,
                   lastTickAt, voiceOn, timerTicks>>

\* Every running timer moves forward by the time spent paused.
ResumeGame(h) ==
    LET shift == IF now >= pausedAt THEN now - pausedAt ELSE 0 IN
    /\ EnsureHost(h)
    /\ paused
    /\ introStartedAt' = IF phase = "INTRO" THEN introStartedAt + shift
                         ELSE introStartedAt
    /\ deadline' = IF phase = "DAY" /\ deadline # 0 THEN deadline + shift
                   ELSE deadline
    /\ nightStepDeadline' = IF phase = "NIGHT" /\ nightStepDeadline # 0
                            THEN nightStepDeadline + shift
                            ELSE nightStepDeadline
    /\ pendingEnd' = IF pendingEnd = NoEnd THEN NoEnd
                     ELSE [pendingEnd EXCEPT !.deadline = @ + shift]
    /\ paused' = FALSE /\ pausedAt' = 0
    /\ lastTickAt' = now
    /\ UNCHANGED <<now, phase, day, role, alive, rep, introIdx, nightStep,
                   targetVars, policeHistory, voteVars, winner, endReason,
                   voiceOn, timerTicks>>

ForceEndGame(h) ==
    /\ EnsureHost(h)
    /\ pendingEnd' = NoEnd
    /\ phase' = "END"
    /\ endReason' = "HOST_FORCE_END"
    /\ winner' = "NONE"
    /\ UNCHANGED <<now, day, role, alive, rep, introVars, deadline, stepVars,
                   targetVars, policeHistory, voteVars, pauseVars, lastTickAt,
                   voiceOn, timerTicks>>

-----------------------------------------------------------------------------
(* Tick *)

\* Mutant: the buffer's last instant does not count.
EndDueTooLate(t) == pendingEnd # NoEnd /\ t > pendingEnd.deadline

EndDue(t) == pendingEnd # NoEnd /\ t >= pendingEnd.deadline

\* firePendingEnd(t) and endGame
FirePendingEnd(t) ==
    /\ EndDue(t)
    /\ pendingEnd' = NoEnd
    /\ lastTickAt' = t
    /\ phase' = "END"
    /\ endReason' = pendingEnd.reason
    /\ winner' = WinnerOf(pendingEnd.reason)
    /\ UNCHANGED <<now, day, role, alive, rep, introVars, deadline, stepVars,
                   targetVars, policeHistory, voteVars, pauseVars, voiceOn,
                   timerTicks>>

\* tickIntro(t): the loop hands the turn on k times, each new turn starting where
\* the previous budget ran out, and stops at the last speaker or at a speaker
\* with time left; an expired last speaker opens DAY 1.
TickIntro(t) ==
    /\ phase = "INTRO"
    /\ \E k \in 0..(Len(Roster) - 1 - introIdx) :
          LET startedAt == introStartedAt + k * IntroSecondsPerPlayer
              expired   == t - startedAt >= IntroSecondsPerPlayer
          IN
          /\ k > 0 => t >= startedAt
          /\ ~expired \/ introIdx + k = Len(Roster) - 1
          /\ introIdx' = introIdx + k
          /\ introStartedAt' = startedAt
          /\ IF expired THEN TransitionIntroToDay(t)
             ELSE /\ lastTickAt' = t
                  /\ UNCHANGED <<now, phase, day, role, alive, rep, deadline,
                                 stepVars, targetVars, policeHistory, voteVars,
                                 pauseVars, endVars, voiceOn, timerTicks>>

\* Mutant: a tick exactly at the threshold does not count as having reached it.
CrossedAgain(th, t) == t >= deadline - th /\ lastTickAt <= deadline - th

Crossed(th, t) == t >= deadline - th /\ lastTickAt < deadline - th

\* tickDay(t, prev): a threshold is announced by the tick that crosses it.
TickDay(t) ==
    /\ phase = "DAY"
    /\ timerTicks' = [th \in Thresholds |->
          IF Crossed(th, t)
          THEN timerTicks[th] + 1 ELSE timerTicks[th]]
    /\ IF t >= deadline THEN TransitionDayToVote(t)
       ELSE /\ lastTickAt' = t
            /\ UNCHANGED <<now, phase, day, role, alive, rep, introVars,
                           deadline, stepVars, targetVars, policeHistory,
                           voteVars, pauseVars, endVars, voiceOn>>

\* Seconds from the start of a night to the end of step s, in nextNightStep's order.
NightOffset(s) ==
    CASE s = "INTRO"  -> NightStepSeconds("INTRO")
      [] s = "MAFIA"  -> NightStepSeconds("INTRO") + NightStepSeconds("MAFIA")
      [] s = "POLICE" -> NightStepSeconds("INTRO") + NightStepSeconds("MAFIA")
                         + NightStepSeconds("POLICE")
      [] s = "DOCTOR" -> NightStepSeconds("INTRO") + NightStepSeconds("MAFIA")
                         + NightStepSeconds("POLICE") + NightStepSeconds("DOCTOR")

\* The deadline step s gets when the loop of tickNight reaches it: every step
\* starts at the instant its predecessor expired.
ChainedDeadline(s) == nightStepDeadline + NightOffset(s) - NightOffset(nightStep)

\* Mutant: the announcement buffer of the night never expires.
StepExpiredAfterIntro(t) ==
    nightStep \notin {"NONE", "INTRO"} /\ nightStepDeadline # 0 /\ t >= nightStepDeadline

StepExpired(t) ==
    nightStep # "NONE" /\ nightStepDeadline # 0 /\ t >= nightStepDeadline

\* tickNight(t): leave every expired step; past DOCTOR the night is resolved.
TickNight(t) ==
    /\ phase = "NIGHT"
    /\ \/ /\ ~StepExpired(t)
          /\ lastTickAt' = t
          /\ UNCHANGED <<now, phase, day, role, alive, rep, introVars, deadline,
                         stepVars, targetVars, policeHistory, voteVars,
                         pauseVars, endVars, voiceOn, timerTicks>>
       \/ /\ StepExpired(t)
          /\ \E s \in NightSteps :
               /\ NightOffset(s) > NightOffset(nightStep)
               /\ t >= ChainedDeadline(s) - NightStepSeconds(s)
               /\ t < ChainedDeadline(s)
               /\ nightStep' = s
               /\ nightStepDeadline' = ChainedDeadline(s)
          /\ lastTickAt' = t
          /\ UNCHANGED <<now, phase, day, role, alive, rep, introVars, deadline,
                         targetVars, policeHistory, voteVars, pauseVars,
                         endVars, voiceOn, timerTicks>>
       \/ /\ StepExpired(t)
          /\ t >= ChainedDeadline("DOCTOR")
          /\ ResolveNight

\* LOBBY, VOTE, RECOUNT and END have no time-driven progression.
TickIdle(t) ==
    /\ phase \notin {"INTRO", "DAY", "NIGHT"}
    /\ lastTickAt' = t
    /\ UNCHANGED <<now, phase, day, role, alive, rep, introVars, deadline,
                   stepVars, targetVars, policeHistory, voteVars, pauseVars,
                   endVars, voiceOn, timerTicks>>

\* Mutant: a tick sampled before the last one is applied all the same.
NeverStale(t) == FALSE

StaleTick(t) == t <= lastTickAt

\* Engine.Tick(t)
Tick(t) ==
    \/ /\ paused \/ StaleTick(t)
       /\ UNCHANGED vars
    \/ /\ ~paused /\ ~StaleTick(t)
       /\ \/ FirePendingEnd(t)
          \/ /\ ~EndDue(t)
             /\ TickIntro(t) \/ TickDay(t) \/ TickNight(t) \/ TickIdle(t)

-----------------------------------------------------------------------------
(* The system *)

\* The wall clock, followed while a game is running.
AdvanceClock ==
    /\ phase \notin {"NONE", "END"}
    /\ now < MaxNow
    /\ now < (IF paused THEN pausedAt + MaxPause ELSE lastTickAt + MaxTickGap)
    /\ now' = now + 1
    /\ UNCHANGED <<phase, day, role, alive, rep, introVars, deadline, stepVars,
                   targetVars, policeHistory, voteVars, pauseVars, endVars,
                   lastTickAt, voiceOn, timerTicks>>

\* The named bounds on client commands: none at the last instant or after MaxDay.
WithinBounds == now < MaxNow /\ day <= MaxDay

\* Engine.Apply's dispatch; the session lets commands through only while a game
\* is running, and Apply refuses them all after END.
Apply ==
    /\ phase \notin {"NONE", "END"}
    /\ WithinBounds
    /\ \/ \E p \in Players : EndSelfIntro(p)
       \/ \E p, q \in Players : \/ SubmitMafiaKill(p, q)
                                \/ SubmitDoctorHeal(p, q)
                                \/ SubmitPoliceCheck(p, q)
       \/ \E p \in Players, target \in Ballots : SubmitVote(p, target)
       \/ \E h \in Senders : \/ AdvanceIntro(h)
                             \/ EndNightEarly(h)
                             \/ EndDiscussionEarly(h)
                             \/ PauseGame(h)
                             \/ ResumeGame(h)
                             \/ ForceEndGame(h)
                             \/ \E on \in VoiceInputs : ToggleVoice(h, on)

\* One firing of the session's ticker: it ticks only a started game.
Ticker(t) == phase # "NONE" /\ Tick(t)

Next ==
    \/ Start
    \/ Apply
    \/ \E t \in (now - MaxTickLag)..now : Ticker(t)
    \/ AdvanceClock

Spec == Init /\ [][Next]_vars

\* time.Ticker keeps firing with the current time, and time keeps passing.
Fairness == WF_vars(AdvanceClock) /\ WF_vars(Ticker(now))

FairSpec == Spec /\ Fairness

-----------------------------------------------------------------------------
(* Properties *)

\* The instants, and the counters.
ClockType ==
    /\ now \in Nat /\ lastTickAt \in Nat /\ pausedAt \in Nat
    /\ introStartedAt \in Nat /\ deadline \in Nat /\ nightStepDeadline \in Nat
    /\ day \in Nat
    /\ introIdx \in 0..(Len(Roster) - 1)
    /\ voteRound \in 0..2

\* The fields that speak of players.
PlayerType ==
    /\ role \in [Players -> Roles \cup {"NONE"}]
    /\ alive \subseteq Players
    /\ rep \in Players \cup {NoPlayer}
    /\ pendingMafia \in Players \cup {NoPlayer}
    /\ pendingDoctor \in Players \cup {NoPlayer}
    /\ pendingPolice \in Players \cup {NoPlayer}
    /\ votes \in [Players -> Players \cup {NoPlayer, NotVoted}]
    /\ voteCandidates \subseteq Players

\* The enumerations and the flags.
FlagType ==
    /\ phase \in Phases
    /\ nightStep \in NightSteps \cup {"NONE"}
    /\ policeChecked \in BOOLEAN /\ paused \in BOOLEAN /\ voiceOn \in BOOLEAN
    /\ winner \in {"NONE", "MAFIA", "CITIZEN"}
    /\ endReason \in EndReasons \cup {"NONE"}

PoliceRecords == [day : Nat, target : Players, team : {"MAFIA", "CITIZEN"}]
ScheduledEnds == [reason : {"NONE", "CITIZEN_WIN", "MAFIA_WIN"}, deadline : Nat]

\* The structured fields.
RecordType ==
    /\ policeHistory \in Seq(PoliceRecords)
    /\ pendingEnd \in ScheduledEnds
    /\ timerTicks \in [Thresholds -> Nat]

\* Every field of the State keeps its type.
TypeOK == ClockType /\ PlayerType /\ FlagType /\ RecordType

\* The engine never plays on past a win: while a game is running without a
\* scheduled end, neither side has won yet.
NoUnnoticedWin ==
    (phase \notin {"NONE", "END"} /\ pendingEnd = NoEnd) => EvaluateEnd(alive) = "NONE"

\* The mafia representative is a living mafioso as long as one is left, so the
\* nightly kill can always be submitted by somebody.
RepresentativeLives ==
    phase # "NONE" => IF alive \cap Mafia = {} THEN rep = NoPlayer
                  ELSE rep \in alive \cap Mafia

\* Night submissions exist only inside their night, only from their own step on,
\* and point at players who are still alive when the night is resolved.
NightTargetsInStep ==
    /\ phase \notin {"NIGHT", "END"} =>
          /\ {pendingMafia, pendingDoctor, pendingPolice} = {NoPlayer}
          /\ ~policeChecked
    /\ phase = "NIGHT" =>
          /\ nightStep \in NightSteps
          /\ pendingMafia # NoPlayer =>
                pendingMafia \in alive \ Mafia /\ nightStep # "INTRO"
          /\ policeChecked => nightStep \in {"POLICE", "DOCTOR"}
          /\ pendingDoctor # NoPlayer =>
                pendingDoctor \in alive /\ nightStep = "DOCTOR"

\* A ballot box is never stuck: while an election is open (and no end is
\* scheduled) somebody alive has still to vote, only the living have voted, and
\* every ballot names a living player who stands in this round.
ElectionOpen ==
    (phase \in {"VOTE", "RECOUNT"} /\ pendingEnd = NoEnd) =>
        /\ Voted(votes) \subseteq alive
        /\ Voted(votes) # alive
        /\ voteRound = IF phase = "VOTE" THEN 1 ELSE 2
        /\ \A p \in Voted(votes) :
              votes[p] \in {NoPlayer} \cup
                 (IF phase = "VOTE" THEN alive ELSE voteCandidates)
        /\ phase = "RECOUNT" => /\ voteCandidates \subseteq alive
                                /\ Cardinality(voteCandidates) > 1

\* The police investigate at most once per night, over all nights of the game,
\* and every record tells the target's true team.
PoliceHistorySound ==
    /\ \A i, j \in 1..Len(policeHistory) :
          i < j => policeHistory[i].day < policeHistory[j].day
    /\ \A i \in 1..Len(policeHistory) :
          /\ policeHistory[i].team = TeamOf(role[policeHistory[i].target])
          /\ policeHistory[i].day = day => phase \in {"NIGHT", "END"}

\* A countdown cue is announced at most once a day, whatever pauses, resumes and
\* late ticks there are.
CueOncePerDay == \A th \in Thresholds : timerTicks[th] <= 1

\* The ballots v elect p: they are as many as the players alive, and p has more of
\* them than any other player. Until a win is scheduled they are the ballots of
\* exactly the living, and in a recount p is one of the tied candidates.
Elected(p, v) ==
    /\ Cardinality(Voted(v)) >= Cardinality(alive)
    /\ \A x \in Players \ {p} : Count(v, x) < Count(v, p)
    /\ pendingEnd = NoEnd => /\ Voted(v) = alive
                             /\ phase = "RECOUNT" => p \in voteCandidates

\* Nobody dies without a cause: at night only the mafia's target whom the doctor
\* did not choose, by day only the player whom the ballots elect once a survivor's
\* ballot completes them, no tie and no absent ballot deciding, and never two at
\* once.
DeathHasCause ==
    [][\A p \in alive \ alive' :
          /\ alive' = alive \ {p}
          /\ \/ /\ phase = "NIGHT" /\ phase' = "DAY" /\ day' = day + 1
                /\ role[p] # "MAFIA"
                /\ p = pendingMafia /\ p # pendingDoctor
             \/ /\ phase \in {"VOTE", "RECOUNT"} /\ day' = day
                /\ phase' = "NIGHT" \/ pendingEnd' # NoEnd
                /\ \E q \in alive, target \in Players \cup {NoPlayer} :
                      Elected(p, [votes EXCEPT ![q] = target])]_vars

\* However late a tick comes, it leaves no expired timer behind: whenever the
\* engine's tick instant moves while unpaused, the running timer lies after it.
TickCatchesUp ==
    [][(lastTickAt' # lastTickAt /\ ~paused) =>
          /\ lastTickAt' > lastTickAt
          /\ phase' = "INTRO" =>
                introStartedAt' + IntroSecondsPerPlayer > lastTickAt'
          /\ phase' = "DAY" => deadline' > lastTickAt'
          /\ phase' = "NIGHT" => nightStepDeadline' > lastTickAt']_vars

\* A win whose announcement buffer runs out within the horizon ends the game,
\* unless the host pauses the buffer.
BufferRunsOut ==
    (pendingEnd # NoEnd /\ pendingEnd.deadline <= MaxNow)
        ~> (phase = "END" \/ paused)

\* A night passes even if nobody submits anything: once it has begun with its
\* full length inside the horizon, it is resolved unless the host pauses it.
NightPasses ==
    (phase = "NIGHT" /\ nightStep = "INTRO"
       /\ nightStepDeadline + NightOffset("DOCTOR") - NightOffset("INTRO") <= MaxNow)
        ~> (phase # "NIGHT" \/ paused)

\* What the engine implements: the lifecycle of a game, a recount being part of
\* the vote and the scheduled end being the verdict that awaits declaration.
Lifecycle == INSTANCE GameLifecycle WITH
    stage   <- IF phase = "NONE" THEN "SETUP"
               ELSE IF phase = "RECOUNT" THEN "VOTE" ELSE phase,
    mafia   <- Mafia,
    verdict <- pendingEnd.reason,
    result  <- endReason

\* The engine implements GameLifecycle: no order of ballots, ticks, pauses and
\* host commands makes it skip a stage, kill twice, kill a mafioso at night, or
\* end with another verdict than the first one reached.
ImplementsLifecycle == Lifecycle!Spec
=============================================================================
