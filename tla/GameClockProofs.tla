-------------------------- MODULE GameClockProofs --------------------------
(***************************************************************************)
(* Theorems about the timers of GameEngine: a countdown cue is announced   *)
(* at most once a day whatever pauses and late ticks there are, and a tick *)
(* leaves no expired timer behind however late it comes.                   *)
(***************************************************************************)
EXTENDS GameEngineProofs

-----------------------------------------------------------------------------
(* The inductive invariant *)

\* A cue that was announced lies behind the last tick; and during a pause it lies
\* behind the pause too, so that moving the deadline on by the length of the
\* pause leaves it behind the instant of the resumption.
CuesBehind ==
    phase = "DAY" =>
        \A th \in Thresholds : timerTicks[th] > 0 =>
            /\ deadline - th <= lastTickAt
            /\ paused => deadline - th <= pausedAt

\* The engine never ran ahead of the clock, and a night has a timer.
TimersRun ==
    /\ lastTickAt <= now
    /\ phase = "NIGHT" => nightStepDeadline > 0

ClockInv == TimersRun /\ CuesBehind /\ CueOncePerDay

\* What the invariant says of numbers, for the provers of arithmetic.
LEMMA Instants ==
  ASSUME TypeOK
  PROVE  /\ now \in Nat /\ lastTickAt \in Nat /\ pausedAt \in Nat
         /\ deadline \in Nat /\ nightStepDeadline \in Nat /\ introStartedAt \in Nat
         /\ paused \in BOOLEAN
         /\ \A th \in Thresholds : th \in Nat /\ timerTicks[th] \in Nat
  BY DurationAssumption
  DEF TypeOK, ClockType, FlagType, RecordType, DurationAssumption

\* The action of TickCatchesUp.
CaughtUp ==
    (lastTickAt' # lastTickAt /\ ~paused) =>
        /\ lastTickAt' > lastTickAt
        /\ phase' = "INTRO" => introStartedAt' + IntroSecondsPerPlayer > lastTickAt'
        /\ phase' = "DAY" => deadline' > lastTickAt'
        /\ phase' = "NIGHT" => nightStepDeadline' > lastTickAt'

\* Both results at once: what each step of the engine has to show.
OnTime == ClockInv' /\ CaughtUp

-----------------------------------------------------------------------------
(* The steps *)

\* A step that moves neither the tick instant nor a timer.
LEMMA TimersKept ==
  ASSUME TypeOK, ClockInv, UNCHANGED <<lastTickAt, deadline, timerTicks>>,
         now' \in Nat, now' >= now,
         phase' = "DAY" => phase = "DAY" /\ UNCHANGED <<paused, pausedAt>>,
         phase' = "NIGHT" => phase = "NIGHT" /\ UNCHANGED nightStepDeadline
  PROVE  OnTime
  <1>1. TimersRun'
    BY Instants DEF ClockInv, TimersRun
  <1>2. CuesBehind' /\ CueOncePerDay'
    BY DEF ClockInv, CuesBehind, CueOncePerDay
  <1> QED
    BY <1>1, <1>2 DEF OnTime, ClockInv, CaughtUp

\* A step that enters a phase, or samples the clock in a phase without cues.
LEMMA TickMoved ==
  ASSUME TypeOK, ClockInv, UNCHANGED now,
         lastTickAt' \in Nat, lastTickAt' >= lastTickAt, lastTickAt' <= now,
         phase' = "DAY" => timerTicks' = NoTicks /\ deadline' > lastTickAt',
         phase' = "INTRO" => introStartedAt' + IntroSecondsPerPlayer > lastTickAt',
         phase' = "NIGHT" =>
            nightStepDeadline' \in Nat /\ nightStepDeadline' > lastTickAt',
         timerTicks' \in {timerTicks, NoTicks}
  PROVE  OnTime
  <1>1. TimersRun'
    BY Instants DEF TimersRun
  <1>2. CuesBehind'
    BY DEF CuesBehind, NoTicks
  <1>3. CueOncePerDay'
    BY DEF ClockInv, CueOncePerDay, NoTicks
  <1>4. CaughtUp
    BY Instants DEF CaughtUp
  <1> QED
    BY <1>1, <1>2, <1>3, <1>4 DEF OnTime, ClockInv

\* The clock behind the last tick, as TickMoved needs it.
LEMMA BehindClock == ASSUME ClockInv PROVE lastTickAt <= now
  BY DEF ClockInv, TimersRun

\* resolveNight opens a day with its whole discussion ahead.
LEMMA ResolveNightOnTime ==
  ASSUME TypeOK, ClockInv, ResolveNight PROVE OnTime
  BY TickMoved, BehindClock, Instants, Durations DEF ResolveNight

\* transitionIntroToDay opens a discussion ahead of its instant.
LEMMA IntroToDayOnTime ==
  ASSUME TypeOK, ClockInv, NEW t \in Nat, t >= lastTickAt, t <= now,
         TransitionIntroToDay(t)
  PROVE  OnTime
  BY TickMoved, Instants, Durations DEF TransitionIntroToDay

\* transitionDayToVote ends a discussion whose cues are counted right.
LEMMA DayToVoteOnTime ==
  ASSUME TypeOK, ClockInv, NEW t \in Nat, t >= lastTickAt, t <= now,
         TransitionDayToVote(t), CueOncePerDay'
  PROVE  OnTime
  <1>1. TimersRun' /\ CuesBehind'
    BY Instants DEF TransitionDayToVote, TimersRun, CuesBehind
  <1>2. CaughtUp
    BY Instants DEF TransitionDayToVote, CaughtUp
  <1> QED
    BY <1>1, <1>2 DEF OnTime, ClockInv

\* handleResume moves the deadline and the tick instant together, so that no cue
\* that was announced is ahead again.
LEMMA ResumeOnTime ==
  ASSUME TypeOK, ClockInv, NEW h, ResumeGame(h) PROVE OnTime
  <1> DEFINE shift == IF now >= pausedAt THEN now - pausedAt ELSE 0
  <1>1. shift \in Nat /\ (now >= pausedAt => shift = now - pausedAt)
        /\ (now < pausedAt => shift = 0)
    BY Instants
  <1>2. /\ deadline' = IF phase = "DAY" /\ deadline # 0 THEN deadline + shift
                       ELSE deadline
        /\ nightStepDeadline' = IF phase = "NIGHT" /\ nightStepDeadline # 0
                                THEN nightStepDeadline + shift
                                ELSE nightStepDeadline
        /\ paused /\ ~paused' /\ lastTickAt' = now
        /\ UNCHANGED <<now, phase, timerTicks>>
    BY DEF ResumeGame
  <1> HIDE DEF shift
  <1>3. TimersRun'
    BY <1>1, <1>2, Instants DEF ClockInv, TimersRun
  <1>4. CuesBehind'
    <2> SUFFICES ASSUME phase = "DAY", NEW th \in Thresholds, timerTicks[th] > 0
                 PROVE  deadline' - th <= now
      BY <1>2 DEF CuesBehind
    <2>1. deadline - th <= lastTickAt /\ deadline - th <= pausedAt
      BY <1>2 DEF ClockInv, CuesBehind
    <2> QED
      BY <1>1, <1>2, <2>1, BehindClock, Instants
  <1>5. CueOncePerDay'
    BY <1>2 DEF ClockInv, CueOncePerDay
  <1> QED
    BY <1>2, <1>3, <1>4, <1>5 DEF OnTime, ClockInv, CaughtUp

\* handlePause: what was announced before the pause lies behind it.
LEMMA PauseOnTime ==
  ASSUME TypeOK, ClockInv, NEW h, PauseGame(h) PROVE OnTime
  <1>1. /\ pausedAt' = now
        /\ UNCHANGED <<now, phase, deadline, nightStepDeadline, lastTickAt, timerTicks>>
    BY DEF PauseGame, stepVars
  <1>2. TimersRun' /\ CueOncePerDay'
    BY <1>1 DEF ClockInv, TimersRun, CueOncePerDay
  <1>3. CuesBehind'
    BY <1>1, BehindClock, Instants DEF ClockInv, CuesBehind
  <1> QED
    BY <1>1, <1>2, <1>3 DEF OnTime, ClockInv, CaughtUp

\* tickDay announces a threshold only when the last tick lies before it, and then
\* leaves it behind.
LEMMA TickDayOnTime ==
  ASSUME TypeOK, ClockInv, ~paused, NEW t \in Nat, t > lastTickAt, t <= now,
         TickDay(t)
  PROVE  OnTime
  <1>1. \A th \in Thresholds : timerTicks'[th] =
           IF Crossed(th, t) THEN timerTicks[th] + 1 ELSE timerTicks[th]
    BY DEF TickDay
  <1>2. phase = "DAY"
    BY DEF TickDay
  <1>3. ASSUME NEW th \in Thresholds
        PROVE  /\ timerTicks'[th] <= 1
               /\ timerTicks'[th] > 0 => deadline - th <= t
    <2>1. timerTicks[th] > 0 => deadline - th <= lastTickAt
      BY <1>2 DEF ClockInv, CuesBehind
    <2>2. timerTicks[th] <= 1
      BY DEF ClockInv, CueOncePerDay
    <2>3. CASE Crossed(th, t)
      BY <1>1, <2>1, <2>3, Instants DEF Crossed
    <2>4. CASE ~Crossed(th, t)
      BY <1>1, <2>1, <2>2, <2>4, Instants
    <2> QED
      BY <2>3, <2>4
  <1>4. CueOncePerDay'
    BY <1>3 DEF CueOncePerDay
  <1>5. CASE t >= deadline
    BY <1>4, <1>5, DayToVoteOnTime, Instants DEF TickDay
  <1>6. CASE ~(t >= deadline)
    <2>1. lastTickAt' = t /\ UNCHANGED <<now, phase, deadline, paused>>
      BY <1>6 DEF TickDay, pauseVars
    <2>2. TimersRun'
      BY <1>2, <2>1 DEF TimersRun
    <2>3. CuesBehind'
      BY <1>3, <2>1 DEF CuesBehind
    <2>4. CaughtUp
      BY <1>2, <1>6, <2>1, Instants DEF CaughtUp
    <2> QED
      BY <1>4, <2>2, <2>3, <2>4 DEF OnTime, ClockInv
  <1> QED
    BY <1>5, <1>6

\* A turn that has not used up its seconds ends in the future.
LEMMA TimeLeft ==
  ASSUME NEW startedAt \in Nat, NEW t \in Nat, NEW seconds \in Nat,
         ~(t - startedAt >= seconds)
  PROVE  startedAt + seconds > t
  OBVIOUS

\* tickIntro hands the turn on until a speaker has time left.
LEMMA TickIntroOnTime ==
  ASSUME TypeOK, ClockInv, NEW t \in Nat, t > lastTickAt, t <= now, TickIntro(t)
  PROVE  OnTime
  <1>1. PICK k \in 0..(Len(Roster) - 1 - introIdx) :
          LET startedAt == introStartedAt + k * IntroSecondsPerPlayer
              expired   == t - startedAt >= IntroSecondsPerPlayer
          IN
          /\ introStartedAt' = startedAt
          /\ IF expired THEN TransitionIntroToDay(t)
             ELSE /\ lastTickAt' = t
                  /\ UNCHANGED <<now, phase, day, role, alive, rep, deadline,
                                 stepVars, targetVars, policeHistory, voteVars,
                                 pauseVars, endVars, voiceOn, timerTicks>>
    BY DEF TickIntro
  <1>2. introStartedAt' \in Nat
    BY <1>1, TickIntroType DEF TypeOK, ClockType
  <1>3. CASE TransitionIntroToDay(t)
    BY <1>3, IntroToDayOnTime, Instants
  <1>4. CASE ~TransitionIntroToDay(t)
    <2>1. /\ ~(t - introStartedAt' >= IntroSecondsPerPlayer)
          /\ lastTickAt' = t /\ UNCHANGED <<now, phase, timerTicks>>
      BY <1>1, <1>4
    <2>2. introStartedAt' + IntroSecondsPerPlayer > t
      BY <1>2, <2>1, TimeLeft, Durations
    <2> QED
      BY <2>1, <2>2, TickMoved, Instants DEF TickIntro
  <1> QED
    BY <1>3, <1>4

\* tickNight leaves every expired step behind, up to the end of the night.
LEMMA TickNightOnTime ==
  ASSUME TypeOK, ClockInv, NightTargetsInStep,
         NEW t \in Nat, t > lastTickAt, t <= now, TickNight(t)
  PROVE  OnTime
  <1>1. phase = "NIGHT" /\ nightStep \in NightSteps /\ nightStepDeadline > 0
    BY DEF TickNight, NightTargetsInStep, ClockInv, TimersRun
  <1>2. CASE ~StepExpired(t) /\ lastTickAt' = t
             /\ UNCHANGED <<now, phase, stepVars, timerTicks>>
    <2>1. nightStepDeadline > t
      BY <1>1, <1>2, Instants DEF StepExpired, NightSteps
    <2> QED
      BY <1>1, <1>2, <2>1, TickMoved, Instants DEF stepVars
  <1>3. ASSUME lastTickAt' = t, UNCHANGED <<now, phase, timerTicks>>,
               NEW s \in NightSteps, NightOffset(s) > NightOffset(nightStep),
               t < ChainedDeadline(s), nightStepDeadline' = ChainedDeadline(s)
        PROVE  OnTime
    <2>1. ChainedDeadline(s) \in Nat
      BY <1>1, <1>3, ChainedStep
    <2> QED
      BY <1>1, <1>3, <2>1, TickMoved, Instants
  <1> QED
    BY <1>2, <1>3, ResolveNightOnTime DEF TickNight

\* Every tick of the session's ticker.
LEMMA TickOnTime ==
  ASSUME TypeOK, ClockInv, NightTargetsInStep,
         NEW t \in (now - MaxTickLag)..now, Ticker(t)
  PROVE  OnTime
  <1>1. t \in Int /\ t <= now
    BY Instants, Durations
  <1>2. CASE UNCHANGED vars
    BY <1>2, TimersKept, Instants DEF vars, stepVars, pauseVars
  <1>3. CASE ~paused /\ ~StaleTick(t)
    <2>1. t \in Nat /\ t > lastTickAt
      BY <1>1, <1>3, Instants DEF StaleTick
    <2>2. CASE FirePendingEnd(t)
      BY <1>1, <2>1, <2>2, TickMoved, Instants DEF FirePendingEnd
    <2>3. CASE TickIdle(t)
      BY <1>1, <2>1, <2>3, TickMoved, Instants DEF TickIdle
    <2> QED
      BY <1>1, <1>2, <1>3, <2>1, <2>2, <2>3, TickIntroOnTime, TickDayOnTime,
         TickNightOnTime DEF Ticker, Tick
  <1> QED
    BY <1>2, <1>3 DEF Ticker, Tick

\* A ballot, and the night it may begin.
LEMMA BallotOnTime ==
  ASSUME TypeOK, ClockInv, NEW p \in Players, NEW target, SubmitVote(p, target)
  PROVE  OnTime
  <1> DEFINE v == [votes EXCEPT ![p] = target]
  <1>1. /\ phase \in {"VOTE", "RECOUNT"} /\ UNCHANGED <<now, timerTicks>>
        /\ Tally(v) \/ UNCHANGED <<phase, deadline, lastTickAt>>
    BY DEF SubmitVote
  <1> HIDE DEF v
  <1>2. CASE UNCHANGED <<deadline, lastTickAt>> /\ phase' \in {"VOTE", "RECOUNT"}
    BY <1>1, <1>2, TimersKept, Instants
  <1>3. CASE EnterNight
    <2>1. NightStepSeconds("INTRO") \in Nat /\ NightStepSeconds("INTRO") > 0
      BY NightStepSecondsPositive DEF NightSteps
    <2>2. /\ phase' = "NIGHT" /\ lastTickAt' = now
          /\ nightStepDeadline' = now + NightStepSeconds("INTRO")
      BY <1>3 DEF EnterNight
    <2> QED
      BY <1>1, <2>1, <2>2, TickMoved, BehindClock, Instants
  <1>4. ASSUME NEW x, ApplyElimination(x, v) PROVE OnTime
    BY <1>1, <1>2, <1>3, <1>4 DEF ApplyElimination
  <1> QED
    BY <1>1, <1>2, <1>3, <1>4 DEF Tally

\* Every step of the engine is on time.
LEMMA StepOnTime ==
  TypeOK /\ NightTargetsInStep /\ ClockInv /\ [Next]_vars => OnTime
  <1> SUFFICES ASSUME TypeOK, NightTargetsInStep, ClockInv, [Next]_vars PROVE OnTime
    OBVIOUS
  <1> USE DEF stepVars, pauseVars
  <1>1. CASE Start
    BY <1>1, TickMoved, BehindClock, Instants, Durations DEF Start
  <1>2. ASSUME phase = "INTRO", NextSpeaker PROVE OnTime
    <2>1. CASE TransitionIntroToDay(now)
      BY <2>1, IntroToDayOnTime, BehindClock, Instants
    <2>2. CASE ~TransitionIntroToDay(now)
      BY <1>2, <2>2, TimersKept, Instants DEF NextSpeaker
    <2> QED
      BY <2>1, <2>2
  <1>3. ASSUME NEW p \in Players, NEW q \in Players,
               SubmitMafiaKill(p, q) \/ SubmitDoctorHeal(p, q)
                 \/ SubmitPoliceCheck(p, q)
        PROVE  OnTime
    BY <1>3, TimersKept, Instants
    DEF SubmitMafiaKill, SubmitDoctorHeal, SubmitPoliceCheck
  <1>4. ASSUME NEW h, EndDiscussionEarly(h) PROVE OnTime
    <2>1. CueOncePerDay'
      BY <1>4 DEF EndDiscussionEarly, ClockInv, CueOncePerDay
    <2> QED
      BY <1>4, <2>1, DayToVoteOnTime, BehindClock, Instants DEF EndDiscussionEarly
  <1>5. ASSUME NEW h, ForceEndGame(h) PROVE OnTime
    BY <1>5, TimersKept, Instants DEF ForceEndGame
  <1>6. ASSUME NEW h, NEW on, ToggleVoice(h, on) PROVE OnTime
    BY <1>6, TimersKept, Instants DEF ToggleVoice
  <1>7. CASE Apply
    BY <1>7, <1>2, <1>3, <1>4, <1>5, <1>6, ResolveNightOnTime, BallotOnTime,
       PauseOnTime, ResumeOnTime
    DEF Apply, EndSelfIntro, AdvanceIntro, EndNightEarly
  <1>8. CASE AdvanceClock
    BY <1>8, TimersKept, Instants DEF AdvanceClock
  <1>9. CASE UNCHANGED vars
    BY <1>9, TimersKept, Instants DEF vars
  <1> QED
    BY <1>1, <1>7, <1>8, <1>9, TickOnTime DEF Next

-----------------------------------------------------------------------------
(* The theorems *)

\* The invariant of the timers.
LEMMA ClocksHold == Spec => []ClockInv
  <1>1. Init => ClockInv
    BY DEF Init, ClockInv, TimersRun, CuesBehind, CueOncePerDay, NoTicks
  <1>2. OnTime => ClockInv'
    BY DEF OnTime
  <1> QED
    BY <1>1, <1>2, StepOnTime, TypeCorrect, TargetsStayInStep, PTL DEF Spec

\* A countdown cue is announced at most once a day: neither a late tick nor the
\* shift of the deadline after a pause announces it again, for any thresholds.
THEOREM CuesAreAnnouncedOnce == Spec => []CueOncePerDay
  <1>1. ClockInv => CueOncePerDay
    BY DEF ClockInv
  <1> QED
    BY <1>1, ClocksHold, PTL

\* The engine's tick instant only moves forward, and a tick, however late, moves
\* the introductions, the day and the night on past every timer that has expired.
THEOREM TicksCatchUp == Spec => TickCatchesUp
  <1>1. OnTime => CaughtUp
    BY DEF OnTime
  <1>2. Spec => [][CaughtUp]_vars
    BY <1>1, StepOnTime, ClocksHold, TypeCorrect, TargetsStayInStep, PTL DEF Spec
  <1> QED
    BY <1>2 DEF TickCatchesUp, CaughtUp

=============================================================================
