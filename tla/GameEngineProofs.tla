-------------------------- MODULE GameEngineProofs --------------------------
(***************************************************************************)
(* Theorems about GameEngine for every roster, every deal, every duration  *)
(* and every bound: its types and its safety invariants.                   *)
(***************************************************************************)
EXTENDS GameEngine, TLAPS, FiniteSetTheorems

-----------------------------------------------------------------------------
(* Facts about the operators *)

\* validateOptions lets no game start without players.
LEMMA RosterNonempty == Len(Roster) \in Nat /\ Len(Roster) > 0
  BY RosterAssumption, OptionsAssumption DEF RosterAssumption, OptionsAssumption

\* The durations of Options are positive.
LEMMA Durations ==
  /\ IntroSecondsPerPlayer \in Nat /\ IntroSecondsPerPlayer > 0
  /\ DiscussionSeconds \in Nat /\ DiscussionSeconds > 0
  /\ DayIntroSeconds \in Nat /\ DayIntroSeconds > 0
  /\ FinalResultBufferSeconds \in Nat /\ FinalResultBufferSeconds > 0
  /\ MaxTickLag \in Nat
  BY DurationAssumption DEF DurationAssumption

\* evaluateEnd returns a win of one of the sides, or none.
LEMMA EvaluateEndRange ==
  ASSUME NEW a PROVE EvaluateEnd(a) \in {"NONE", "CITIZEN_WIN", "MAFIA_WIN"}
  BY DEF EvaluateEnd

\* Every night step has a positive duration.
LEMMA NightStepSecondsPositive ==
  ASSUME NEW s \in NightSteps
  PROVE  NightStepSeconds(s) \in Nat /\ NightStepSeconds(s) > 0
  BY DurationAssumption DEF DurationAssumption, NightSteps, NightStepSeconds

\* The steps of a night end at a natural number of seconds after its start.
LEMMA NightOffsetNat ==
  ASSUME NEW s \in NightSteps PROVE NightOffset(s) \in Nat
  BY NightStepSecondsPositive DEF NightSteps, NightOffset

\* nextNightStep's order: the offsets grow from INTRO to MAFIA, POLICE, DOCTOR.
LEMMA NightOffsetOrder ==
  /\ NightOffset("INTRO") < NightOffset("MAFIA")
  /\ NightOffset("MAFIA") < NightOffset("POLICE")
  /\ NightOffset("POLICE") < NightOffset("DOCTOR")
  BY NightStepSecondsPositive DEF NightSteps, NightOffset

\* A scheduled end is a win with a deadline.
LEMMA ScheduledType ==
  ASSUME now \in Nat, pendingEnd \in ScheduledEnds, NEW a, ScheduleGameEnd(a)
  PROVE  pendingEnd' \in ScheduledEnds
  BY Durations, EvaluateEndRange DEF ScheduleGameEnd, ScheduledEnds

\* A representative stays a player, whoever dies.
LEMMA ReassignedType ==
  ASSUME rep \in Players \cup {NoPlayer}, NEW dead, NEW a,
         ReassignMafiaRepresentative(dead, a)
  PROVE  rep' \in Players \cup {NoPlayer}
  BY DEF ReassignMafiaRepresentative, Mafia

\* No key in State.Votes, and no cue sent: well-typed tables.
LEMMA EmptyTables ==
  /\ EmptyVotes \in [Players -> Players \cup {NoPlayer, NotVoted}]
  /\ NoTicks \in [Thresholds -> Nat]
  BY DEF EmptyVotes, NoTicks

-----------------------------------------------------------------------------
(* Type correctness *)

\* The fresh engine of NewGame is well typed.
LEMMA InitType == Init => TypeOK
  <1> SUFFICES ASSUME Init PROVE TypeOK
    OBVIOUS
  <1>1. ClockType
    BY RosterNonempty DEF Init, ClockType
  <1>2. PlayerType
    BY EmptyTables DEF Init, PlayerType
  <1>3. FlagType
    BY DEF Init, FlagType, Phases
  <1>4. RecordType
    BY EmptyTables DEF Init, RecordType, NoEnd, ScheduledEnds
  <1> QED
    BY <1>1, <1>2, <1>3, <1>4 DEF TypeOK

\* Start deals roles and installs options of the declared types.
LEMMA StartType == TypeOK /\ Start => TypeOK'
  <1> SUFFICES ASSUME TypeOK, Start PROVE TypeOK'
    OBVIOUS
  <1> USE DEF TypeOK, Start, stepVars, targetVars, voteVars, pauseVars, endVars
  <1>1. ClockType'
    BY RosterNonempty DEF ClockType
  <1>2. role' \in [Players -> Roles]
    BY DealsAssumption DEF DealsAssumption, Assignments
  <1>3. PlayerType'
    BY <1>2 DEF PlayerType
  <1>4. FlagType' /\ RecordType'
    BY OptionsAssumption DEF OptionsAssumption, FlagType, Phases, RecordType
  <1> QED
    BY <1>1, <1>3, <1>4

\* Leaving the introductions opens a well-typed discussion.
LEMMA IntroToDayType ==
  ASSUME TypeOK, NEW t \in Nat, TransitionIntroToDay(t),
         introIdx' \in 0..(Len(Roster) - 1), introStartedAt' \in Nat
  PROVE  TypeOK'
  <1> USE DEF TypeOK, TransitionIntroToDay, voteVars, pauseVars, endVars
  <1>1. ClockType'
    BY Durations DEF ClockType
  <1>2. PlayerType'
    BY DEF PlayerType, ClearTargets
  <1>3. FlagType'
    BY DEF FlagType, Phases, ClearTargets
  <1>4. RecordType'
    BY EmptyTables DEF RecordType
  <1> QED
    BY <1>1, <1>2, <1>3, <1>4

\* Leaving the discussion opens a well-typed vote.
LEMMA DayToVoteType ==
  ASSUME TypeOK, NEW t \in Nat, TransitionDayToVote(t),
         timerTicks' \in [Thresholds -> Nat]
  PROVE  TypeOK'
  <1> USE DEF TypeOK, TransitionDayToVote, introVars, stepVars, targetVars,
              pauseVars, endVars
  <1>1. ClockType'
    BY DEF ClockType
  <1>2. PlayerType'
    BY EmptyTables DEF PlayerType
  <1>3. FlagType'
    BY DEF FlagType, Phases
  <1>4. RecordType'
    BY DEF RecordType
  <1> QED
    BY <1>1, <1>2, <1>3, <1>4

\* The night's resolution keeps every field in its type.
LEMMA ResolveNightType == TypeOK /\ ResolveNight => TypeOK'
  <1> SUFFICES ASSUME TypeOK, ResolveNight PROVE TypeOK'
    OBVIOUS
  <1> USE DEF TypeOK, ResolveNight, introVars, voteVars, pauseVars
  <1>1. ClockType'
    BY Durations DEF ClockType
  <1>2. rep' \in Players \cup {NoPlayer}
    BY ReassignedType DEF PlayerType
  <1>3. PlayerType'
    BY <1>2 DEF PlayerType, ClearTargets
  <1>4. FlagType'
    BY DEF FlagType, Phases, ClearTargets
  <1>5. pendingEnd' \in ScheduledEnds
    BY ScheduledType DEF ClockType, RecordType
  <1>6. RecordType'
    BY <1>5, EmptyTables DEF RecordType
  <1> QED
    BY <1>1, <1>3, <1>4, <1>6

\* Passing the turn in the introductions keeps the types.
LEMMA NextSpeakerType == TypeOK /\ NextSpeaker => TypeOK'
  <1> SUFFICES ASSUME TypeOK, NextSpeaker PROVE TypeOK'
    OBVIOUS
  <1>1. CASE MoreSpeakers
    <2> USE <1>1 DEF NextSpeaker, TypeOK, stepVars, targetVars, voteVars,
                     pauseVars, endVars
    <2>1. ClockType'
      BY RosterNonempty DEF ClockType, MoreSpeakers
    <2>2. PlayerType'
      BY DEF PlayerType
    <2>3. FlagType' /\ RecordType'
      BY DEF FlagType, RecordType
    <2> QED
      BY <2>1, <2>2, <2>3
  <1>2. CASE ~MoreSpeakers
    BY <1>2, IntroToDayType DEF TypeOK, ClockType, NextSpeaker, introVars
  <1> QED
    BY <1>1, <1>2

\* The three night submissions keep the types.
LEMMA NightSubmissionType ==
  ASSUME TypeOK, NEW p \in Players, NEW q \in Players,
         \/ SubmitMafiaKill(p, q)
         \/ SubmitDoctorHeal(p, q)
         \/ SubmitPoliceCheck(p, q)
  PROVE  TypeOK'
  <1> USE DEF TypeOK, SubmitMafiaKill, SubmitDoctorHeal, SubmitPoliceCheck,
              introVars, stepVars, voteVars, pauseVars, endVars
  <1>1. ClockType'
    BY DEF ClockType
  <1>2. PlayerType'
    BY DEF PlayerType
  <1>3. FlagType'
    BY DEF FlagType
  <1>4. policeHistory' \in Seq(PoliceRecords)
    <2>1. [day |-> day, target |-> q, team |-> TeamOf(role[q])] \in PoliceRecords
      BY DEF PoliceRecords, TeamOf, ClockType
    <2> QED
      BY <2>1 DEF RecordType
  <1>5. RecordType'
    BY <1>4 DEF RecordType
  <1> QED
    BY <1>1, <1>2, <1>3, <1>5

\* enterNight leaves the ballot box empty and the submissions cleared.
LEMMA EnterNightType ==
  ASSUME TypeOK, EnterNight
  PROVE  /\ lastTickAt' \in Nat /\ deadline' \in Nat /\ nightStepDeadline' \in Nat
         /\ voteRound' \in 0..2
         /\ pendingMafia' = NoPlayer /\ pendingDoctor' = NoPlayer
         /\ pendingPolice' = NoPlayer /\ policeChecked' = FALSE
         /\ votes' \in [Players -> Players \cup {NoPlayer, NotVoted}]
         /\ voteCandidates' \subseteq Players
         /\ phase' = "NIGHT" /\ nightStep' = "INTRO"
  <1>1. NightStepSeconds("INTRO") \in Nat
    BY NightStepSecondsPositive DEF NightSteps
  <1> QED
    BY <1>1, EmptyTables DEF EnterNight, ClearTargets, TypeOK, ClockType

\* A ballot, the tally it may complete and the night that follows keep
\* the types.
LEMMA SubmitVoteType ==
  ASSUME TypeOK, NEW p \in Players, NEW target, SubmitVote(p, target)
  PROVE  TypeOK'
  <1> DEFINE v == [votes EXCEPT ![p] = target]
  <1>1. v \in [Players -> Players \cup {NoPlayer, NotVoted}]
    BY DEF SubmitVote, TypeOK, PlayerType
  <1> HIDE DEF v
  <1>2. /\ UNCHANGED <<now, day, role, introIdx, introStartedAt, policeHistory,
                       paused, pausedAt, winner, endReason, voiceOn, timerTicks>>
        /\ IF AllVoted(v)
           THEN Tally(v)
           ELSE /\ votes' = v
                /\ UNCHANGED <<phase, alive, rep, deadline, voteRound,
                               voteCandidates, stepVars, targetVars, pendingEnd,
                               lastTickAt>>
    BY DEF v, SubmitVote, introVars, pauseVars
  <1> DEFINE Changed == /\ lastTickAt' \in Nat /\ deadline' \in Nat
                        /\ nightStepDeadline' \in Nat /\ voteRound' \in 0..2
                        /\ alive' \subseteq Players
                        /\ rep' \in Players \cup {NoPlayer}
                        /\ pendingMafia' \in Players \cup {NoPlayer}
                        /\ pendingDoctor' \in Players \cup {NoPlayer}
                        /\ pendingPolice' \in Players \cup {NoPlayer}
                        /\ policeChecked' \in BOOLEAN
                        /\ votes' \in [Players -> Players \cup {NoPlayer, NotVoted}]
                        /\ voteCandidates' \subseteq Players
                        /\ phase' \in Phases
                        /\ nightStep' \in NightSteps \cup {"NONE"}
                        /\ pendingEnd' \in ScheduledEnds
  <1>3. Changed
    <2> USE DEF TypeOK, ClockType, PlayerType, FlagType, RecordType, stepVars,
                targetVars
    <2>1. CASE ~AllVoted(v)
      BY <1>1, <1>2, <2>1
    <2>2. ASSUME NEW x \in TopCandidates(v), ApplyElimination(x, v) PROVE Changed
      <3>1. alive' \subseteq Players
        BY <2>2 DEF ApplyElimination
      <3>2. rep' \in Players \cup {NoPlayer}
        BY <2>2, ReassignedType DEF ApplyElimination
      <3>3. pendingEnd' \in ScheduledEnds
        BY <2>2, ScheduledType DEF ApplyElimination
      <3>4. CASE EvaluateEnd(alive \ {x}) # "NONE"
        BY <1>1, <2>2, <3>1, <3>2, <3>3, <3>4 DEF ApplyElimination
      <3>5. CASE EvaluateEnd(alive \ {x}) = "NONE"
        <4>1. EnterNight
          BY <2>2, <3>5 DEF ApplyElimination
        <4> QED
          BY <4>1, <3>1, <3>2, <3>3, EnterNightType DEF Phases, NightSteps
      <3> QED
        BY <3>4, <3>5
    <2>3. CASE /\ phase' = "RECOUNT" /\ voteRound' = 2
               /\ voteCandidates' = TopCandidates(v) /\ votes' = EmptyVotes
               /\ UNCHANGED <<alive, rep, deadline, stepVars, targetVars,
                              pendingEnd, lastTickAt>>
      BY <2>3, EmptyTables DEF TopCandidates, Phases
    <2>4. CASE EnterNight /\ UNCHANGED <<alive, rep, pendingEnd>>
      BY <2>4, EnterNightType DEF Phases, NightSteps
    <2> QED
      BY <1>2, <2>1, <2>2, <2>3, <2>4 DEF Tally
  <1> HIDE DEF v
  <1>4. ClockType'
    BY <1>2, <1>3 DEF TypeOK, ClockType
  <1>5. PlayerType'
    BY <1>2, <1>3 DEF TypeOK, PlayerType
  <1>6. FlagType' /\ RecordType'
    BY <1>2, <1>3 DEF TypeOK, FlagType, RecordType
  <1> QED
    BY <1>4, <1>5, <1>6 DEF TypeOK

\* The host's commands keep the types.
LEMMA HostCommandType ==
  ASSUME TypeOK, NEW h,
         \/ PauseGame(h) \/ ResumeGame(h) \/ ForceEndGame(h)
         \/ \E on \in BOOLEAN : ToggleVoice(h, on)
  PROVE  TypeOK'
  <1> USE DEF TypeOK, introVars, stepVars, targetVars, voteVars, pauseVars, endVars
  <1>1. CASE PauseGame(h)
    <2> USE <1>1 DEF PauseGame
    <2>1. ClockType'
      BY DEF ClockType
    <2>2. PlayerType'
      BY DEF PlayerType
    <2>3. FlagType' /\ RecordType'
      BY DEF FlagType, RecordType
    <2> QED
      BY <2>1, <2>2, <2>3
  <1>2. CASE ResumeGame(h)
    <2> USE <1>2 DEF ResumeGame
    <2>1. ClockType'
      BY DEF ClockType
    <2>2. PlayerType'
      BY DEF PlayerType
    <2>3. FlagType'
      BY DEF FlagType
    <2>4. pendingEnd' \in ScheduledEnds
      <3>1. now \in Nat /\ pausedAt \in Nat
        BY DEF ClockType
      <3>2. PICK shift \in Nat :
              pendingEnd' \in {NoEnd, [pendingEnd EXCEPT !.deadline = @ + shift]}
        BY <3>1
      <3>3. pendingEnd \in ScheduledEnds
        BY DEF RecordType
      <3>4. NoEnd \in ScheduledEnds
        BY DEF NoEnd, ScheduledEnds
      <3>5. [pendingEnd EXCEPT !.deadline = @ + shift] \in ScheduledEnds
        BY <3>3 DEF ScheduledEnds
      <3> QED
        BY <3>2, <3>4, <3>5
    <2>5. RecordType'
      BY <2>4 DEF RecordType
    <2> QED
      BY <2>1, <2>2, <2>3, <2>5
  <1>3. CASE ForceEndGame(h)
    <2> USE <1>3 DEF ForceEndGame
    <2>1. ClockType'
      BY DEF ClockType
    <2>2. PlayerType'
      BY DEF PlayerType
    <2>3. FlagType' /\ RecordType'
      BY DEF FlagType, RecordType, Phases, EndReasons, NoEnd, ScheduledEnds
    <2> QED
      BY <2>1, <2>2, <2>3
  <1>4. ASSUME NEW on \in BOOLEAN, ToggleVoice(h, on) PROVE TypeOK'
    <2> USE <1>4 DEF ToggleVoice
    <2>1. ClockType'
      BY DEF ClockType
    <2>2. PlayerType'
      BY DEF PlayerType
    <2>3. FlagType' /\ RecordType'
      BY DEF FlagType, RecordType
    <2> QED
      BY <2>1, <2>2, <2>3
  <1> QED
    BY <1>1, <1>2, <1>3, <1>4

\* The State fields a tick leaves alone when no timer has run out.
LEMMA QuietTickType ==
  ASSUME TypeOK, NEW t \in Nat, lastTickAt' = t,
         introIdx' \in 0..(Len(Roster) - 1), introStartedAt' \in Nat,
         nightStep' \in NightSteps \cup {"NONE"}, nightStepDeadline' \in Nat,
         timerTicks' \in [Thresholds -> Nat],
         UNCHANGED <<now, phase, day, role, alive, rep, deadline, targetVars,
                     policeHistory, voteVars, pauseVars, endVars, voiceOn>>
  PROVE  TypeOK'
  <1> USE DEF TypeOK, targetVars, voteVars, pauseVars, endVars
  <1>1. ClockType'
    BY DEF ClockType
  <1>2. PlayerType'
    BY DEF PlayerType
  <1>3. FlagType' /\ RecordType'
    BY DEF FlagType, RecordType
  <1> QED
    BY <1>1, <1>2, <1>3

\* A tick of the introductions keeps the types.
LEMMA TickIntroType ==
  ASSUME TypeOK, NEW t \in Nat, TickIntro(t)
  PROVE  TypeOK'
  <1>1. PICK k \in 0..(Len(Roster) - 1 - introIdx) :
          LET startedAt == introStartedAt + k * IntroSecondsPerPlayer
              expired   == t - startedAt >= IntroSecondsPerPlayer
          IN
          /\ introIdx' = introIdx + k
          /\ introStartedAt' = startedAt
          /\ IF expired THEN TransitionIntroToDay(t)
             ELSE /\ lastTickAt' = t
                  /\ UNCHANGED <<now, phase, day, role, alive, rep, deadline,
                                 stepVars, targetVars, policeHistory, voteVars,
                                 pauseVars, endVars, voiceOn, timerTicks>>
    BY DEF TickIntro
  <1>2. introIdx' \in 0..(Len(Roster) - 1)
    BY <1>1, RosterNonempty DEF TypeOK, ClockType
  <1>3. introStartedAt' \in Nat
    <2>1. k * IntroSecondsPerPlayer \in Nat
      BY Durations, RosterNonempty DEF TypeOK, ClockType
    <2> QED
      BY <1>1, <2>1 DEF TypeOK, ClockType
  <1>4. CASE TransitionIntroToDay(t)
    BY <1>2, <1>3, <1>4, IntroToDayType
  <1>5. CASE ~TransitionIntroToDay(t)
    <2>1. nightStep' \in NightSteps \cup {"NONE"} /\ nightStepDeadline' \in Nat
          /\ timerTicks' \in [Thresholds -> Nat]
      BY <1>1, <1>5 DEF TypeOK, ClockType, FlagType, RecordType, stepVars
    <2> QED
      BY <1>1, <1>2, <1>3, <1>5, <2>1, QuietTickType
  <1> QED
    BY <1>4, <1>5

\* A tick of the discussion keeps the types.
LEMMA TickDayType ==
  ASSUME TypeOK, NEW t \in Nat, TickDay(t)
  PROVE  TypeOK'
  <1>1. timerTicks' \in [Thresholds -> Nat]
    BY DEF TickDay, TypeOK, RecordType
  <1>2. CASE t >= deadline
    BY <1>1, <1>2, DayToVoteType DEF TickDay
  <1>3. CASE ~(t >= deadline)
    <2>1. /\ introIdx' \in 0..(Len(Roster) - 1) /\ introStartedAt' \in Nat
          /\ nightStep' \in NightSteps \cup {"NONE"} /\ nightStepDeadline' \in Nat
      BY <1>3 DEF TickDay, TypeOK, ClockType, FlagType, introVars, stepVars
    <2> QED
      BY <1>1, <1>3, <2>1, QuietTickType DEF TickDay
  <1> QED
    BY <1>2, <1>3

\* tickNight hands a step on to a later one, at a natural deadline.
LEMMA ChainedStep ==
  ASSUME TypeOK, nightStep \in NightSteps, NEW s \in NightSteps,
         NightOffset(s) > NightOffset(nightStep)
  PROVE  ChainedDeadline(s) \in Nat
  BY NightOffsetNat DEF TypeOK, ClockType, ChainedDeadline

\* A tick of a night step keeps the types.
LEMMA TickNightType ==
  ASSUME TypeOK, NEW t \in Nat, TickNight(t)
  PROVE  TypeOK'
  <1> DEFINE Rest == UNCHANGED <<now, phase, day, role, alive, rep, introVars,
                                 deadline, targetVars, policeHistory, voteVars,
                                 pauseVars, endVars, voiceOn, timerTicks>>
  <1>1. CASE lastTickAt' = t /\ Rest /\ UNCHANGED stepVars
    <2>1. /\ introIdx' \in 0..(Len(Roster) - 1) /\ introStartedAt' \in Nat
          /\ nightStep' \in NightSteps \cup {"NONE"} /\ nightStepDeadline' \in Nat
          /\ timerTicks' \in [Thresholds -> Nat]
      BY <1>1 DEF TypeOK, ClockType, FlagType, RecordType, introVars, stepVars
    <2> QED
      BY <1>1, <2>1, QuietTickType
  <1>2. ASSUME StepExpired(t), lastTickAt' = t, Rest,
               NEW s \in NightSteps, NightOffset(s) > NightOffset(nightStep),
               nightStep' = s, nightStepDeadline' = ChainedDeadline(s)
        PROVE  TypeOK'
    <2>1. nightStepDeadline' \in Nat
      BY <1>2, ChainedStep DEF StepExpired, TypeOK, FlagType
    <2>2. /\ introIdx' \in 0..(Len(Roster) - 1) /\ introStartedAt' \in Nat
          /\ timerTicks' \in [Thresholds -> Nat]
      BY <1>2 DEF TypeOK, ClockType, RecordType, introVars
    <2> QED
      BY <1>2, <2>1, <2>2, QuietTickType
  <1>3. CASE ResolveNight
    BY <1>3, ResolveNightType
  <1> QED
    BY <1>1, <1>2, <1>3 DEF TickNight

\* A tick with nothing due only samples the clock.
LEMMA TickIdleType ==
  ASSUME TypeOK, NEW t \in Nat, TickIdle(t)
  PROVE  TypeOK'
  <1>1. /\ introIdx' \in 0..(Len(Roster) - 1) /\ introStartedAt' \in Nat
        /\ nightStep' \in NightSteps \cup {"NONE"} /\ nightStepDeadline' \in Nat
        /\ timerTicks' \in [Thresholds -> Nat]
    BY DEF TickIdle, TypeOK, ClockType, FlagType, RecordType, introVars, stepVars
  <1> QED
    BY <1>1, QuietTickType DEF TickIdle

\* Firing the scheduled end keeps the types.
LEMMA FirePendingEndType ==
  ASSUME TypeOK, NEW t \in Nat, FirePendingEnd(t)
  PROVE  TypeOK'
  <1> USE DEF TypeOK, FirePendingEnd, introVars, stepVars, targetVars, voteVars,
              pauseVars
  <1>1. ClockType'
    BY DEF ClockType
  <1>2. PlayerType'
    BY DEF PlayerType
  <1>3. pendingEnd.reason \in {"NONE", "CITIZEN_WIN", "MAFIA_WIN"}
    BY DEF RecordType, ScheduledEnds
  <1>4. FlagType'
    BY <1>3 DEF FlagType, Phases, EndReasons, WinnerOf
  <1>5. RecordType'
    BY DEF RecordType, NoEnd, ScheduledEnds
  <1> QED
    BY <1>1, <1>2, <1>4, <1>5

\* An instant that Tick does not ignore lies after the zero time.
LEMMA TickType ==
  ASSUME TypeOK, NEW t \in Int, Tick(t)
  PROVE  TypeOK'
  <1>1. CASE UNCHANGED vars
    BY <1>1
    DEF TypeOK, ClockType, PlayerType, FlagType, RecordType, vars, introVars,
        stepVars, targetVars, voteVars, pauseVars, endVars
  <1>2. CASE ~StaleTick(t)
    <2>1. t \in Nat
      BY <1>2 DEF StaleTick, TypeOK, ClockType
    <2> QED
      BY <1>1, <2>1, FirePendingEndType, TickIntroType, TickDayType, TickNightType,
         TickIdleType DEF Tick
  <1> QED
    BY <1>1, <1>2 DEF Tick

\* TypeOK is inductive: one case per action of Next.
LEMMA NextType == TypeOK /\ [Next]_vars => TypeOK'
  <1> SUFFICES ASSUME TypeOK, [Next]_vars PROVE TypeOK'
    OBVIOUS
  <1>1. CASE Start
    BY <1>1, StartType
  <1>2. ASSUME NEW p \in Players, EndSelfIntro(p) PROVE TypeOK'
    BY <1>2, NextSpeakerType DEF EndSelfIntro
  <1>3. ASSUME NEW p \in Players, NEW q \in Players,
               SubmitMafiaKill(p, q) \/ SubmitDoctorHeal(p, q)
                 \/ SubmitPoliceCheck(p, q)
        PROVE  TypeOK'
    BY <1>3, NightSubmissionType
  <1>4. ASSUME NEW p \in Players, NEW target, SubmitVote(p, target) PROVE TypeOK'
    BY <1>4, SubmitVoteType
  <1>5. ASSUME NEW h, AdvanceIntro(h) PROVE TypeOK'
    BY <1>5, NextSpeakerType DEF AdvanceIntro
  <1>6. ASSUME NEW h, EndNightEarly(h) PROVE TypeOK'
    BY <1>6, ResolveNightType DEF EndNightEarly
  <1>7. ASSUME NEW h, EndDiscussionEarly(h) PROVE TypeOK'
    <2>1. now \in Nat /\ timerTicks' \in [Thresholds -> Nat]
      BY <1>7 DEF EndDiscussionEarly, TypeOK, ClockType, RecordType
    <2> QED
      BY <1>7, <2>1, DayToVoteType DEF EndDiscussionEarly
  <1>8. ASSUME NEW h, PauseGame(h) \/ ResumeGame(h) \/ ForceEndGame(h)
                        \/ \E on \in VoiceInputs : ToggleVoice(h, on)
        PROVE  TypeOK'
    BY <1>8, HostCommandType, OptionsAssumption DEF OptionsAssumption
  <1>9. ASSUME NEW t \in (now - MaxTickLag)..now, Ticker(t) PROVE TypeOK'
    BY <1>9, TickType, Durations DEF Ticker, TypeOK, ClockType
  <1>10. CASE AdvanceClock
    <2> USE <1>10 DEF AdvanceClock, TypeOK, introVars, stepVars, targetVars,
                      voteVars, pauseVars, endVars
    <2>1. ClockType'
      BY DEF ClockType
    <2>2. PlayerType'
      BY DEF PlayerType
    <2>3. FlagType' /\ RecordType'
      BY DEF FlagType, RecordType
    <2> QED
      BY <2>1, <2>2, <2>3
  <1>11. CASE UNCHANGED vars
    BY <1>11
    DEF TypeOK, ClockType, PlayerType, FlagType, RecordType, vars, introVars,
        stepVars, targetVars, voteVars, pauseVars, endVars
  <1> QED
    BY <1>1, <1>2, <1>3, <1>4, <1>5, <1>6, <1>7, <1>8, <1>9, <1>10, <1>11
    DEF Next, Apply

\* Every handler of Apply, Start and Tick keeps every field of the State well-typed,
\* for every roster and every choice of the options.
THEOREM TypeCorrect == Spec => []TypeOK
  BY InitType, NextType, PTL DEF Spec

-----------------------------------------------------------------------------
(* The steps that change who is alive *)

\* A ballot that completes the vote and eliminates x.
Elimination(x) ==
    /\ phase \in {"VOTE", "RECOUNT"}
    /\ alive' = alive \ {x}
    /\ ReassignMafiaRepresentative(x, alive \ {x})
    /\ ScheduleGameEnd(alive \ {x})
    /\ EvaluateEnd(alive \ {x}) = "NONE" => phase' = "NIGHT"
    /\ UNCHANGED <<role, day>>

\* Every other step: the players, their roles and the representative stay, no
\* game begins, and a scheduled end is dropped only by ending the game.
Quiet ==
    /\ UNCHANGED <<role, alive, rep>>
    /\ phase = "NONE" => phase' = "NONE"
    /\ \/ phase' \in {"NONE", "END"}
       \/ phase \notin {"NONE", "END"} /\ (pendingEnd' = NoEnd => pendingEnd = NoEnd)

\* ResumeGame moves the deadline of a scheduled end; it does not drop the end.
LEMMA ShiftKeepsEnd ==
  ASSUME TypeOK, NEW h, ResumeGame(h), pendingEnd' = NoEnd
  PROVE  pendingEnd = NoEnd
  <1>1. pendingEnd.deadline \in Nat
    BY DEF TypeOK, RecordType, ScheduledEnds
  <1>2. now \in Nat /\ pausedAt \in Nat
    BY DEF TypeOK, ClockType
  <1>3. ASSUME pendingEnd # NoEnd PROVE FALSE
    <2>1. PICK shift \in Nat : NoEnd = [pendingEnd EXCEPT !.deadline = @ + shift]
      BY <1>2, <1>3 DEF ResumeGame
    <2>2. pendingEnd.reason = "NONE" /\ pendingEnd.deadline + shift = 0
      BY <2>1 DEF NoEnd, TypeOK, RecordType, ScheduledEnds
    <2>3. pendingEnd.deadline = 0
      BY <1>1, <2>2
    <2> QED
      BY <1>3, <2>2, <2>3 DEF NoEnd, TypeOK, RecordType, ScheduledEnds
  <1> QED
    BY <1>3

\* What a ballot may do to the state, reduced to the cases the invariants
\* below tell apart.
LEMMA VoteCases ==
  ASSUME TypeOK, NEW p \in Players, NEW target, SubmitVote(p, target)
  PROVE  Quiet \/ \E x \in Players : Elimination(x)
  <1> DEFINE v == [votes EXCEPT ![p] = target]
  <1>1. /\ phase \in {"VOTE", "RECOUNT"}
        /\ UNCHANGED <<role, day>>
        /\ \/ /\ AllVoted(v) /\ Tally(v)
           \/ UNCHANGED <<phase, alive, rep, pendingEnd>>
    BY DEF SubmitVote
  <1> HIDE DEF v
  <1>2. CASE UNCHANGED <<phase, alive, rep, pendingEnd>>
    BY <1>1, <1>2 DEF Quiet
  <1>3. ASSUME NEW x \in TopCandidates(v), ApplyElimination(x, v)
        PROVE  x \in Players /\ Elimination(x)
    BY <1>1, <1>3 DEF ApplyElimination, Elimination, EnterNight, TopCandidates
  <1>4. CASE phase' = "RECOUNT" /\ UNCHANGED <<alive, rep, pendingEnd>>
    BY <1>1, <1>4 DEF Quiet
  <1>5. CASE EnterNight /\ UNCHANGED <<alive, rep, pendingEnd>>
    BY <1>1, <1>5 DEF Quiet, EnterNight
  <1> QED
    BY <1>1, <1>2, <1>3, <1>4, <1>5 DEF Tally

\* What a tick may do to the state, reduced to the same cases.
LEMMA TickCases ==
  ASSUME TypeOK, NEW t, Ticker(t)
  PROVE  Quiet \/ (phase = "NIGHT" /\ ResolveNight)
  <1>1. CASE UNCHANGED vars
    BY <1>1 DEF Quiet, vars, endVars
  <1>2. CASE FirePendingEnd(t)
    BY <1>2 DEF FirePendingEnd, Ticker, Quiet
  <1>3. CASE TickIntro(t)
    BY <1>3 DEF TickIntro, TransitionIntroToDay, endVars, Quiet
  <1>4. CASE TickDay(t)
    BY <1>4 DEF TickDay, TransitionDayToVote, endVars, Quiet
  <1>5. CASE TickNight(t)
    BY <1>5 DEF TickNight, endVars, Quiet
  <1>6. CASE TickIdle(t)
    BY <1>6 DEF TickIdle, endVars, Quiet, Ticker
  <1> QED
    BY <1>1, <1>2, <1>3, <1>4, <1>5, <1>6 DEF Ticker, Tick

\* Only Start, the resolution of a night and an elimination change who is alive,
\* who holds which role, who represents the mafia, or whether an end is due.
LEMMA StepCases ==
  ASSUME TypeOK, [Next]_vars
  PROVE  \/ Start
         \/ phase = "NIGHT" /\ ResolveNight
         \/ \E x \in Players : Elimination(x)
         \/ Quiet
  <1> USE DEF endVars
  <1>1. ASSUME NEW p \in Players, EndSelfIntro(p) PROVE Quiet
    BY <1>1 DEF EndSelfIntro, NextSpeaker, TransitionIntroToDay, Quiet
  <1>2. ASSUME NEW p \in Players, NEW q \in Players,
               SubmitMafiaKill(p, q) \/ SubmitDoctorHeal(p, q)
                 \/ SubmitPoliceCheck(p, q)
        PROVE  Quiet
    BY <1>2 DEF SubmitMafiaKill, SubmitDoctorHeal, SubmitPoliceCheck, Quiet
  <1>3. ASSUME NEW h, AdvanceIntro(h) PROVE Quiet
    BY <1>3 DEF AdvanceIntro, NextSpeaker, TransitionIntroToDay, Quiet
  <1>4. ASSUME NEW h, EndNightEarly(h) PROVE phase = "NIGHT" /\ ResolveNight
    BY <1>4 DEF EndNightEarly
  <1>5. ASSUME NEW h, EndDiscussionEarly(h) PROVE Quiet
    BY <1>5 DEF EndDiscussionEarly, TransitionDayToVote, Quiet
  <1>6. ASSUME Apply, NEW h, ResumeGame(h) PROVE Quiet
    BY <1>6, ShiftKeepsEnd DEF Apply, ResumeGame, Quiet
  <1>7. ASSUME Apply, NEW h, PauseGame(h) PROVE Quiet
    BY <1>7 DEF Apply, PauseGame, Quiet
  <1>8. ASSUME Apply, NEW h, ForceEndGame(h) PROVE Quiet
    BY <1>8 DEF Apply, ForceEndGame, Quiet
  <1>9. ASSUME Apply, NEW h, NEW on, ToggleVoice(h, on) PROVE Quiet
    BY <1>9 DEF Apply, ToggleVoice, Quiet
  <1>10. ASSUME AdvanceClock PROVE Quiet
    BY <1>10 DEF AdvanceClock, Quiet
  <1>11. CASE UNCHANGED vars
    BY <1>11 DEF vars, Quiet
  <1>12. ASSUME NEW t, Ticker(t) PROVE Quiet \/ (phase = "NIGHT" /\ ResolveNight)
    BY <1>12, TickCases
  <1>13. CASE Apply
    BY <1>13, <1>1, <1>2, <1>3, <1>4, <1>5, <1>6, <1>7, <1>8, <1>9, VoteCases
    DEF Apply
  <1> QED
    BY <1>10, <1>11, <1>12, <1>13 DEF Next

-----------------------------------------------------------------------------
(* The mafia representative *)

\* reassignMafiaRepresentative hands the role on within the living mafia.
LEMMA ReassignKeepsLiving ==
  ASSUME RepresentativeLives, phase # "NONE", role' = role,
         NEW dead \in Players, alive' = alive \ {dead},
         ReassignMafiaRepresentative(dead, alive \ {dead})
  PROVE  RepresentativeLives'
  BY RosterAssumption
  DEF RepresentativeLives, ReassignMafiaRepresentative, Mafia, RosterAssumption

\* Every step keeps the mafia's representative among the living.
LEMMA RepresentativeStep ==
  TypeOK /\ RepresentativeLives /\ [Next]_vars => RepresentativeLives'
  <1> SUFFICES ASSUME TypeOK, RepresentativeLives, [Next]_vars
               PROVE  RepresentativeLives'
    OBVIOUS
  <1>1. CASE Start
    BY <1>1 DEF Start, RepresentativeLives, Mafia
  <1>2. CASE phase = "NIGHT" /\ ResolveNight
    <2>1. CASE Victim = NoPlayer
      <3>1. alive' = alive
        BY <1>2, <2>1, RosterAssumption
        DEF ResolveNight, RosterAssumption, TypeOK, PlayerType
      <3> QED
        BY <1>2, <2>1, <3>1 DEF ResolveNight, RepresentativeLives, Mafia
    <2>2. CASE Victim # NoPlayer
      <3>1. Victim \in Players
        BY <2>2 DEF Victim, TypeOK, PlayerType
      <3> QED
        BY <1>2, <2>2, <3>1, ReassignKeepsLiving DEF ResolveNight
    <2> QED
      BY <2>1, <2>2
  <1>3. ASSUME NEW x \in Players, Elimination(x) PROVE RepresentativeLives'
    BY <1>3, ReassignKeepsLiving DEF Elimination
  <1>4. CASE Quiet
    BY <1>4 DEF Quiet, RepresentativeLives, Mafia
  <1> QED
    BY <1>1, <1>2, <1>3, <1>4, StepCases

\* As long as a mafioso is alive, a living mafioso is the representative, so a
\* reassignment after any death keeps the nightly kill possible.
THEOREM RepresentativeAlwaysLives == Spec => []RepresentativeLives
  <1>1. Init => RepresentativeLives
    BY DEF Init, RepresentativeLives
  <1> QED
    BY <1>1, RepresentativeStep, TypeCorrect, PTL DEF Spec

-----------------------------------------------------------------------------
(* No win goes unnoticed *)

\* validateOptions and Assign leave both sides without a win at the start.
LEMMA DealIsOpen ==
  ASSUME Start PROVE (EvaluateEnd(alive) = "NONE")'
  <1> DEFINE M == {p \in Players : role'[p] = "MAFIA"}
  <1>1. IsFiniteSet(Players) /\ Cardinality(Players) = Len(Roster)
    BY RosterAssumption DEF RosterAssumption
  <1>2. Cardinality(M) = MafiaCount
    BY DealsAssumption DEF Start, DealsAssumption, Assignments
  <1>3. MafiaCount \in Nat /\ MafiaCount > 0 /\ Len(Roster) \in Nat
        /\ Len(Roster) - MafiaCount >= MafiaCount + 1
    BY OptionsAssumption, RosterAssumption DEF OptionsAssumption, RosterAssumption
  <1>4. M # {}
    BY <1>2, <1>3, FS_EmptySet
  <1>5. Players \cap M = M
    OBVIOUS
  <1>6. Cardinality(Players \ M) = Len(Roster) - MafiaCount
    <2> HIDE DEF M
    <2>1. Cardinality(Players \ M) = Cardinality(Players) - Cardinality(Players \cap M)
      BY <1>1, FS_Difference
    <2> QED
      BY <1>1, <1>2, <1>5, <2>1
  <1>7. ~(Cardinality(M) >= Cardinality(Players \ M))
    BY <1>2, <1>3, <1>6
  <1>8. alive' = Players /\ Mafia' = M
    BY DEF Start, Mafia
  <1> QED
    BY <1>4, <1>5, <1>7, <1>8 DEF EvaluateEnd

\* scheduleGameEnd leaves no end scheduled only if nobody has won.
LEMMA ScheduledWins ==
  ASSUME NEW a, ScheduleGameEnd(a), pendingEnd' = NoEnd
  PROVE  EvaluateEnd(a) = "NONE" /\ pendingEnd = NoEnd
  BY DEF ScheduleGameEnd, NoEnd

\* Every step that leaves a camp without members schedules the end.
LEMMA NoUnnoticedWinStep ==
  TypeOK /\ NoUnnoticedWin /\ [Next]_vars => NoUnnoticedWin'
  <1> SUFFICES ASSUME TypeOK, NoUnnoticedWin, [Next]_vars,
                      phase' \notin {"NONE", "END"}, pendingEnd' = NoEnd
               PROVE  (EvaluateEnd(alive) = "NONE")'
    BY DEF NoUnnoticedWin
  <1>1. CASE Start
    BY <1>1, DealIsOpen
  <1>2. CASE phase = "NIGHT" /\ ResolveNight
    <2>1. EvaluateEnd(alive \ {Victim}) = "NONE"
      BY <1>2, ScheduledWins DEF ResolveNight
    <2> QED
      BY <1>2, <2>1 DEF ResolveNight, EvaluateEnd, Mafia
  <1>3. ASSUME NEW x \in Players, Elimination(x)
        PROVE  (EvaluateEnd(alive) = "NONE")'
    <2>1. EvaluateEnd(alive \ {x}) = "NONE"
      BY <1>3, ScheduledWins DEF Elimination
    <2> QED
      BY <1>3, <2>1 DEF Elimination, EvaluateEnd, Mafia
  <1>4. CASE Quiet
    BY <1>4 DEF Quiet, NoUnnoticedWin, EvaluateEnd, Mafia
  <1> QED
    BY <1>1, <1>2, <1>3, <1>4, StepCases

\* Whatever the deal, the votes and the nights: a game that goes on without a
\* scheduled end is one that neither side has won.
THEOREM WinsAreNoticed == Spec => []NoUnnoticedWin
  <1>1. Init => NoUnnoticedWin
    BY DEF Init, NoUnnoticedWin
  <1> QED
    BY <1>1, NoUnnoticedWinStep, TypeCorrect, PTL DEF Spec

-----------------------------------------------------------------------------
(* Night submissions *)

\* A step that stays outside the night touches no submission.
LEMMA TargetsOutsideNight ==
  ASSUME NightTargetsInStep, phase # "NIGHT", phase' # "NIGHT",
         phase' # "END" => phase # "END",
         UNCHANGED targetVars \/ ClearTargets
  PROVE  NightTargetsInStep'
  BY DEF NightTargetsInStep, targetVars, ClearTargets

\* A step that clears the submissions may begin or end a night.
LEMMA TargetsCleared ==
  ASSUME ClearTargets, phase' = "NIGHT" => nightStep' \in NightSteps
  PROVE  NightTargetsInStep'
  BY DEF NightTargetsInStep, ClearTargets

\* A step of the night that leaves submissions and survivors alone and does not
\* go back to an earlier night step.
LEMMA TargetsKept ==
  ASSUME NightTargetsInStep, phase = "NIGHT", phase' = "NIGHT",
         UNCHANGED <<targetVars, role, alive>>,
         nightStep' \in NightSteps,
         NightOffset(nightStep') >= NightOffset(nightStep)
  PROVE  NightTargetsInStep'
  <1>1. nightStep \in NightSteps
    BY DEF NightTargetsInStep
  <1>2. /\ NightOffset("INTRO") \in Nat /\ NightOffset("MAFIA") \in Nat
        /\ NightOffset("POLICE") \in Nat /\ NightOffset("DOCTOR") \in Nat
    BY NightOffsetNat DEF NightSteps
  <1>3. /\ nightStep # "INTRO" => nightStep' # "INTRO"
        /\ nightStep \in {"POLICE", "DOCTOR"} => nightStep' \in {"POLICE", "DOCTOR"}
        /\ nightStep = "DOCTOR" => nightStep' = "DOCTOR"
    BY <1>1, <1>2, NightOffsetOrder DEF NightSteps
  <1> QED
    BY <1>3 DEF NightTargetsInStep, targetVars, Mafia

\* Every step keeps the night targets within the steps already played.
LEMMA TargetsStep ==
  TypeOK /\ NightTargetsInStep /\ [Next]_vars => NightTargetsInStep'
  <1> SUFFICES ASSUME TypeOK, NightTargetsInStep, [Next]_vars
               PROVE  NightTargetsInStep'
    OBVIOUS
  <1> USE DEF targetVars, stepVars
  <1>a. ASSUME UNCHANGED <<phase, targetVars, role, alive, nightStep>>
        PROVE  NightTargetsInStep'
    BY <1>a DEF NightTargetsInStep, Mafia
  <1>b. ASSUME phase' = "END" PROVE NightTargetsInStep'
    BY <1>b DEF NightTargetsInStep
  <1>c. ASSUME ResolveNight PROVE NightTargetsInStep'
    BY <1>c, TargetsCleared DEF ResolveNight
  <1>d. ASSUME NEW t, phase = "INTRO", TransitionIntroToDay(t)
        PROVE  NightTargetsInStep'
    BY <1>d, TargetsCleared DEF TransitionIntroToDay
  <1>e. ASSUME NEW t, phase = "DAY", TransitionDayToVote(t)
        PROVE  NightTargetsInStep'
    BY <1>e, TargetsOutsideNight DEF TransitionDayToVote
  <1>f. ASSUME EnterNight PROVE NightTargetsInStep'
    BY <1>f, TargetsCleared DEF EnterNight, NightSteps
  <1>1. CASE Start
    BY <1>1, TargetsOutsideNight DEF Start
  <1>2. ASSUME phase = "INTRO", NextSpeaker PROVE NightTargetsInStep'
    BY <1>2, <1>a, <1>d DEF NextSpeaker
  <1>3. ASSUME NEW p \in Players, NEW q \in Players, SubmitMafiaKill(p, q)
        PROVE  NightTargetsInStep'
    BY <1>3 DEF SubmitMafiaKill, NightTargetsInStep, Mafia
  <1>4. ASSUME NEW p \in Players, NEW q \in Players, SubmitDoctorHeal(p, q)
        PROVE  NightTargetsInStep'
    BY <1>4 DEF SubmitDoctorHeal, NightTargetsInStep, Mafia
  <1>5. ASSUME NEW p \in Players, NEW q \in Players, SubmitPoliceCheck(p, q)
        PROVE  NightTargetsInStep'
    BY <1>5 DEF SubmitPoliceCheck, NightTargetsInStep, Mafia
  <1>6. ASSUME NEW p \in Players, NEW target, SubmitVote(p, target)
        PROVE  NightTargetsInStep'
    <2> DEFINE v == [votes EXCEPT ![p] = target]
    <2>1. phase \in {"VOTE", "RECOUNT"}
          /\ (Tally(v) \/ UNCHANGED <<phase, targetVars>>)
      BY <1>6 DEF SubmitVote
    <2> HIDE DEF v
    <2>2. CASE UNCHANGED <<phase, targetVars>>
      BY <2>1, <2>2, TargetsOutsideNight
    <2>3. ASSUME NEW x, ApplyElimination(x, v) PROVE NightTargetsInStep'
      BY <2>1, <2>3, <1>f, TargetsOutsideNight DEF ApplyElimination
    <2>4. CASE phase' = "RECOUNT" /\ UNCHANGED targetVars
      BY <2>1, <2>4, TargetsOutsideNight
    <2> QED
      BY <2>1, <2>2, <2>3, <2>4, <1>f DEF Tally
  <1>7. ASSUME NEW h, ResumeGame(h) PROVE NightTargetsInStep'
    BY <1>7, <1>a DEF ResumeGame
  <1>8. ASSUME NEW h, PauseGame(h) PROVE NightTargetsInStep'
    BY <1>8, <1>a DEF PauseGame
  <1>9. ASSUME NEW h, NEW on, ToggleVoice(h, on) PROVE NightTargetsInStep'
    BY <1>9, <1>a DEF ToggleVoice
  <1>10. CASE Apply
    BY <1>10, <1>2, <1>3, <1>4, <1>5, <1>6, <1>7, <1>8, <1>9, <1>b, <1>c, <1>e
    DEF Apply, EndSelfIntro, AdvanceIntro, EndNightEarly, EndDiscussionEarly,
        ForceEndGame
  <1>11. ASSUME NEW t, TickNight(t) PROVE NightTargetsInStep'
    <2>1. ASSUME NEW s \in NightSteps, NightOffset(s) > NightOffset(nightStep),
                 nightStep' = s, phase = "NIGHT",
                 UNCHANGED <<phase, targetVars, role, alive>>
          PROVE  NightTargetsInStep'
      <3>1. nightStep \in NightSteps
        BY <2>1 DEF NightTargetsInStep
      <3>2. NightOffset(s) \in Nat /\ NightOffset(nightStep) \in Nat
        BY <3>1, NightOffsetNat
      <3>3. NightOffset(nightStep') >= NightOffset(nightStep)
        BY <2>1, <3>2
      <3> QED
        BY <2>1, <3>3, TargetsKept
    <2> QED
      BY <1>11, <2>1, <1>a, <1>c DEF TickNight
  <1>12. ASSUME NEW t, Ticker(t) PROVE NightTargetsInStep'
    <2>1. CASE TickIntro(t)
      BY <2>1, <1>a, <1>d DEF TickIntro
    <2>2. CASE TickDay(t)
      BY <2>2, <1>a, <1>e DEF TickDay
    <2>3. CASE TickIdle(t)
      BY <2>3, <1>a DEF TickIdle
    <2>4. CASE UNCHANGED vars
      BY <2>4, <1>a DEF vars
    <2> QED
      BY <1>12, <2>1, <2>2, <2>3, <2>4, <1>11, <1>b DEF Ticker, Tick, FirePendingEnd
  <1>13. CASE AdvanceClock
    BY <1>13, <1>a DEF AdvanceClock
  <1>14. CASE UNCHANGED vars
    BY <1>14, <1>a DEF vars
  <1> QED
    BY <1>1, <1>10, <1>12, <1>13, <1>14 DEF Next

\* No order of submissions, early ends, pauses and late ticks lets a submission
\* outlive its night, precede its step, or point at a dead player or (for the
\* kill) at a mafioso.
THEOREM TargetsStayInStep == Spec => []NightTargetsInStep
  <1>1. Init => NightTargetsInStep
    BY DEF Init, NightTargetsInStep
  <1> QED
    BY <1>1, TargetsStep, TypeCorrect, PTL DEF Spec

=============================================================================
