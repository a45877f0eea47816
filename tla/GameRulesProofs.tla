-------------------------- MODULE GameRulesProofs --------------------------
(***************************************************************************)
(* More theorems about GameEngine: the investigations the police have on   *)
(* record, the ballot box, and the lifecycle the engine implements.  They  *)
(* rest on one case analysis of the engine's steps, TurnCases, that says   *)
(* how each step moves the phase.                                          *)
(***************************************************************************)
EXTENDS GameEngineProofs

-----------------------------------------------------------------------------
(* How a step moves the phase *)

\* The end stays scheduled, or unscheduled, as it is; ResumeGame may move it.
EndKept ==
    /\ pendingEnd'.reason = pendingEnd.reason
    /\ pendingEnd' = NoEnd <=> pendingEnd = NoEnd

\* What only Start, a death and the end of the game change.
GameKept == UNCHANGED <<role, alive, day, endReason>> /\ EndKept

\* A step within a phase; the police's file grows by an investigation only.
Hold ==
    /\ UNCHANGED phase
    /\ GameKept
    /\ \/ UNCHANGED <<policeChecked, policeHistory>>
       \/ \E c, q \in Players : SubmitPoliceCheck(c, q)

\* A step to the next phase without a death.
Turn ==
    /\ <<phase, phase'>> \in {<<"INTRO", "DAY">>, <<"DAY", "VOTE">>,
                              <<"VOTE", "RECOUNT">>, <<"VOTE", "NIGHT">>,
                              <<"RECOUNT", "NIGHT">>}
    /\ GameKept
    /\ UNCHANGED policeHistory

\* The vote eliminates x, and night falls unless that decides the game.
Execution(x) ==
    /\ Elimination(x)
    /\ EvaluateEnd(alive \ {x}) # "NONE" => phase' = phase
    /\ UNCHANGED <<endReason, policeHistory>>

\* firePendingEnd, or the host's forced end.
Finish ==
    /\ phase # "NONE" /\ phase' = "END"
    /\ \/ pendingEnd # NoEnd /\ endReason' = pendingEnd.reason
       \/ phase # "END" /\ endReason' = "HOST_FORCE_END"
    /\ pendingEnd' = NoEnd
    /\ UNCHANGED <<role, alive, day, policeHistory>>

\* ResumeGame changes a scheduled end in its deadline only.
LEMMA ShiftKeepsReason ==
  ASSUME TypeOK, NEW h, ResumeGame(h) PROVE EndKept
  <1>1. now \in Nat /\ pausedAt \in Nat
    BY DEF TypeOK, ClockType
  <1>2. PICK shift \in Nat :
          pendingEnd' = IF pendingEnd = NoEnd THEN NoEnd
                        ELSE [pendingEnd EXCEPT !.deadline = @ + shift]
    BY <1>1 DEF ResumeGame
  <1>3. pendingEnd'.reason = pendingEnd.reason
    BY <1>2 DEF NoEnd, TypeOK, RecordType, ScheduledEnds
  <1>4. pendingEnd = NoEnd => pendingEnd' = NoEnd
    BY <1>2
  <1> QED
    BY <1>3, <1>4, ShiftKeepsEnd DEF EndKept

\* What a ballot does to the phase.
LEMMA VoteTurns ==
  ASSUME TypeOK, NEW p \in Players, NEW target, SubmitVote(p, target)
  PROVE  Hold \/ Turn \/ \E x \in Players : Execution(x)
  <1> DEFINE v == [votes EXCEPT ![p] = target]
  <1>1. /\ phase \in {"VOTE", "RECOUNT"}
        /\ UNCHANGED <<role, day, endReason, policeHistory>>
        /\ \/ Tally(v)
           \/ UNCHANGED <<phase, alive, pendingEnd, policeChecked>>
    BY DEF SubmitVote, targetVars
  <1> HIDE DEF v
  <1>2. CASE UNCHANGED <<phase, alive, pendingEnd, policeChecked>>
    BY <1>1, <1>2 DEF Hold, GameKept, EndKept
  <1>3. ASSUME NEW x \in TopCandidates(v), ApplyElimination(x, v)
        PROVE  x \in Players /\ Execution(x)
    BY <1>1, <1>3
    DEF ApplyElimination, Elimination, Execution, EnterNight, TopCandidates
  <1>4. CASE /\ voteRound = 1 /\ phase' = "RECOUNT"
             /\ UNCHANGED <<alive, targetVars, pendingEnd>>
    BY <1>1, <1>4 DEF Hold, Turn, GameKept, EndKept, targetVars
  <1>5. CASE EnterNight /\ UNCHANGED <<alive, pendingEnd>>
    BY <1>1, <1>5 DEF Turn, GameKept, EndKept, EnterNight
  <1> QED
    BY <1>1, <1>2, <1>3, <1>4, <1>5 DEF Tally

\* What a tick does to the phase.
LEMMA TickTurns ==
  ASSUME TypeOK, NEW t, Ticker(t)
  PROVE  Hold \/ Turn \/ Finish \/ (phase = "NIGHT" /\ ResolveNight)
  <1> USE DEF endVars, targetVars, GameKept, EndKept
  <1>1. CASE UNCHANGED vars
    BY <1>1 DEF Hold, vars
  <1>2. CASE FirePendingEnd(t)
    BY <1>2 DEF FirePendingEnd, EndDue, Ticker, Finish
  <1>3. CASE TickIntro(t)
    BY <1>3 DEF TickIntro, TransitionIntroToDay, Hold, Turn
  <1>4. CASE TickDay(t)
    BY <1>4 DEF TickDay, TransitionDayToVote, Hold, Turn
  <1>5. CASE TickNight(t)
    BY <1>5 DEF TickNight, Hold
  <1>6. CASE TickIdle(t)
    BY <1>6 DEF TickIdle, Hold
  <1> QED
    BY <1>1, <1>2, <1>3, <1>4, <1>5, <1>6 DEF Ticker, Tick

\* Every step of the engine is one of six kinds.
LEMMA TurnCases ==
  ASSUME TypeOK, [Next]_vars
  PROVE  \/ Start
         \/ phase = "NIGHT" /\ ResolveNight
         \/ \E x \in Players : Execution(x)
         \/ Hold \/ Turn \/ Finish
  <1> USE DEF endVars, targetVars, GameKept, EndKept
  <1>1. ASSUME phase = "INTRO", NextSpeaker PROVE Hold \/ Turn
    BY <1>1 DEF NextSpeaker, TransitionIntroToDay, Hold, Turn
  <1>2. ASSUME NEW p \in Players, NEW q \in Players,
               SubmitMafiaKill(p, q) \/ SubmitDoctorHeal(p, q)
                 \/ SubmitPoliceCheck(p, q)
        PROVE  Hold
    BY <1>2 DEF SubmitMafiaKill, SubmitDoctorHeal, SubmitPoliceCheck, Hold
  <1>3. ASSUME NEW h, EndDiscussionEarly(h) PROVE Turn
    BY <1>3 DEF EndDiscussionEarly, TransitionDayToVote, Turn
  <1>4. ASSUME NEW h, ResumeGame(h) PROVE Hold
    <2>1. EndKept
      BY <1>4, ShiftKeepsReason
    <2> QED
      BY <1>4, <2>1 DEF ResumeGame, Hold
  <1>5. ASSUME NEW h, PauseGame(h) PROVE Hold
    BY <1>5 DEF PauseGame, Hold
  <1>6. ASSUME Apply, NEW h, ForceEndGame(h) PROVE Finish
    BY <1>6 DEF Apply, ForceEndGame, Finish
  <1>7. ASSUME NEW h, NEW on, ToggleVoice(h, on) PROVE Hold
    BY <1>7 DEF ToggleVoice, Hold
  <1>8. CASE AdvanceClock
    BY <1>8 DEF AdvanceClock, Hold
  <1>9. CASE UNCHANGED vars
    BY <1>9 DEF vars, Hold
  <1>10. CASE Apply
    BY <1>10, <1>1, <1>2, <1>3, <1>4, <1>5, <1>6, <1>7, VoteTurns
    DEF Apply, EndSelfIntro, AdvanceIntro, EndNightEarly
  <1> QED
    BY <1>8, <1>9, <1>10, TickTurns DEF Next

-----------------------------------------------------------------------------
(* The scheduled end *)

\* An end is scheduled only once deaths are possible, and always names a winner.
EndInStage ==
    /\ pendingEnd # NoEnd => phase \in {"DAY", "VOTE", "RECOUNT", "NIGHT"}
    /\ pendingEnd.reason = "NONE" => pendingEnd = NoEnd

\* scheduleGameEnd names a winner or leaves the end as it is.
LEMMA ScheduledNamesWinner ==
  ASSUME EndInStage, NEW a, ScheduleGameEnd(a),
         phase' \in {"DAY", "VOTE", "RECOUNT", "NIGHT"}
  PROVE  EndInStage'
  BY EvaluateEndRange DEF EndInStage, ScheduleGameEnd

\* Every step keeps a scheduled end within the days and nights.
LEMMA EndInStageStep ==
  TypeOK /\ EndInStage /\ [Next]_vars => EndInStage'
  <1> SUFFICES ASSUME TypeOK, EndInStage, [Next]_vars PROVE EndInStage'
    OBVIOUS
  <1>1. CASE Start
    BY <1>1 DEF Start, EndInStage, endVars
  <1>2. CASE phase = "NIGHT" /\ ResolveNight
    BY <1>2, ScheduledNamesWinner DEF ResolveNight
  <1>3. ASSUME NEW x \in Players, Execution(x) PROVE EndInStage'
    BY <1>3, ScheduledNamesWinner DEF Execution, Elimination
  <1>4. CASE Hold \/ Turn
    BY <1>4 DEF Hold, Turn, GameKept, EndKept, EndInStage
  <1>5. CASE Finish
    BY <1>5 DEF Finish, EndInStage
  <1> QED
    BY <1>1, <1>2, <1>3, <1>4, <1>5, TurnCases

\* An end is scheduled only while days and nights are played, and it always
\* carries the side that won.
LEMMA EndsAreInStage == Spec => []EndInStage
  <1>1. Init => EndInStage
    BY DEF Init, EndInStage
  <1> QED
    BY <1>1, EndInStageStep, TypeCorrect, PTL DEF Spec

-----------------------------------------------------------------------------
(* The police's file *)

\* A record is at most as old as the game; one of the current day was made this
\* night, by an investigation the flag remembers.
HistoryInDay ==
    /\ phase = "NONE" => policeHistory = <<>>
    /\ \A i \in 1..Len(policeHistory) :
          /\ policeHistory[i].day <= day
          /\ policeHistory[i].day = day /\ phase # "END" =>
                phase = "NIGHT" /\ policeChecked

HistoryInv == HistoryInDay /\ PoliceHistorySound

\* The days on record are natural numbers.
LEMMA RecordedDays ==
  ASSUME TypeOK
  PROVE  /\ Len(policeHistory) \in Nat
         /\ \A i \in 1..Len(policeHistory) : policeHistory[i].day \in Nat
  <1>1. policeHistory \in Seq(PoliceRecords)
    BY DEF TypeOK, RecordType
  <1>2. \A i \in 1..Len(policeHistory) : policeHistory[i] \in PoliceRecords
    BY <1>1
  <1> QED
    BY <1>1, <1>2 DEF PoliceRecords

\* A new investigation is the first of its day.
LEMMA InvestigationRecorded ==
  ASSUME TypeOK, HistoryInv, NEW c \in Players, NEW q \in Players,
         SubmitPoliceCheck(c, q)
  PROVE  HistoryInv'
  <1> DEFINE r == [day |-> day, target |-> q, team |-> TeamOf(role[q])]
             n == Len(policeHistory)
  <1>1. /\ phase = "NIGHT" /\ ~policeChecked /\ policeChecked'
        /\ policeHistory' = Append(policeHistory, r)
        /\ UNCHANGED <<phase, day, role>>
    BY DEF SubmitPoliceCheck, FirstPoliceCheck
  <1>2. /\ r.day = day /\ r.target = q /\ r.team = TeamOf(role[q])
        /\ r \in PoliceRecords
    BY DEF TypeOK, ClockType, PoliceRecords, TeamOf
  <1> HIDE DEF r
  <1>3. policeHistory \in Seq(PoliceRecords) /\ n \in Nat /\ day \in Nat
    BY DEF TypeOK, RecordType, ClockType
  <1>4. /\ Len(policeHistory') = n + 1
        /\ policeHistory'[n + 1] = r
        /\ \A i \in 1..n : policeHistory'[i] = policeHistory[i]
    BY <1>1, <1>2, <1>3
  <1>5. \A i \in 1..n : policeHistory[i].day \in Nat
    BY RecordedDays
  <1>6. \A i \in 1..n : policeHistory[i].day < day
    BY <1>1, <1>3, <1>5 DEF HistoryInv, HistoryInDay
  <1> HIDE DEF n
  <1>7. HistoryInDay'
    BY <1>1, <1>2, <1>3, <1>4, <1>5, <1>6 DEF HistoryInDay, n
  <1>8. PoliceHistorySound'
    <2>1. \A i, j \in 1..(n + 1) :
             i < j => policeHistory'[i].day < policeHistory'[j].day
      BY <1>2, <1>3, <1>4, <1>6 DEF HistoryInv, PoliceHistorySound, n
    <2>2. \A i \in 1..(n + 1) :
             policeHistory'[i].team = TeamOf(role[policeHistory'[i].target])
      BY <1>2, <1>3, <1>4 DEF HistoryInv, PoliceHistorySound, n
    <2> QED
      BY <1>1, <1>4, <2>1, <2>2 DEF PoliceHistorySound, TeamOf
  <1> QED
    BY <1>7, <1>8 DEF HistoryInv

\* The file outlives every step that neither investigates nor deals roles, and
\* its records stay sound when a night passes.
LEMMA FileKept ==
  ASSUME TypeOK, HistoryInv, UNCHANGED <<policeHistory, role>>,
         phase' = "NONE" => phase = "NONE",
         \/ /\ day' = day
            /\ \/ phase' = "END"
               \/ phase \notin {"NIGHT", "END"}
               \/ UNCHANGED <<phase, policeChecked>>
         \/ day' = day + 1
  PROVE  HistoryInv'
  <1>1. /\ \A i \in 1..Len(policeHistory) : policeHistory[i].day \in Nat
        /\ day \in Nat
    BY RecordedDays DEF TypeOK, ClockType
  <1>2. HistoryInDay'
    BY <1>1 DEF HistoryInv, HistoryInDay
  <1>3. PoliceHistorySound'
    BY <1>1, <1>2 DEF HistoryInv, HistoryInDay, PoliceHistorySound, TeamOf
  <1> QED
    BY <1>2, <1>3 DEF HistoryInv

\* Every step keeps the police's file sound.
LEMMA HistoryStep ==
  TypeOK /\ HistoryInv /\ [Next]_vars => HistoryInv'
  <1> SUFFICES ASSUME TypeOK, HistoryInv, [Next]_vars PROVE HistoryInv'
    OBVIOUS
  <1>1. CASE Start
    <2>1. policeHistory' = <<>>
      BY <1>1 DEF Start, HistoryInv, HistoryInDay
    <2> QED
      BY <2>1 DEF HistoryInv, HistoryInDay, PoliceHistorySound
  <1>2. CASE phase = "NIGHT" /\ ResolveNight
    BY <1>2, FileKept DEF ResolveNight
  <1>3. ASSUME NEW x \in Players, Execution(x) PROVE HistoryInv'
    BY <1>3, FileKept DEF Execution, Elimination
  <1>4. CASE Hold
    <2>1. CASE UNCHANGED <<policeChecked, policeHistory>>
      BY <1>4, <2>1, FileKept DEF Hold, GameKept
    <2> QED
      BY <1>4, <2>1, InvestigationRecorded DEF Hold
  <1>5. CASE Turn
    BY <1>5, FileKept DEF Turn, GameKept
  <1>6. CASE Finish
    BY <1>6, FileKept DEF Finish
  <1> QED
    BY <1>1, <1>2, <1>3, <1>4, <1>5, <1>6, TurnCases

\* Over all nights of a game the police investigate at most once a night, and
\* the team on record is the target's team, whatever the roster and the deal.
THEOREM InvestigationsAreSound == Spec => []PoliceHistorySound
  <1>1. Init => HistoryInv
    BY DEF Init, HistoryInv, HistoryInDay, PoliceHistorySound
  <1>2. Spec => []HistoryInv
    BY <1>1, HistoryStep, TypeCorrect, PTL DEF Spec
  <1>3. HistoryInv => PoliceHistorySound
    BY DEF HistoryInv
  <1> QED
    BY <1>2, <1>3, PTL

-----------------------------------------------------------------------------
(* The ballot box *)

\* A game that nobody has won has survivors.
LEMMA SurvivorsLeft ==
  ASSUME EvaluateEnd(alive) = "NONE" PROVE alive # {}
  BY DEF EvaluateEnd

\* An election opens with an empty ballot box and the survivors as voters.
LEMMA EmptyBox ==
  ASSUME TypeOK, votes' = EmptyVotes, alive' # {},
         voteRound' = (IF phase' = "VOTE" THEN 1 ELSE 2),
         phase' = "RECOUNT" => /\ voteCandidates' \subseteq alive'
                               /\ Cardinality(voteCandidates') > 1
  PROVE  ElectionOpen'
  <1>1. Voted(votes') = {}
    BY DEF Voted, EmptyVotes
  <1> QED
    BY <1>1 DEF ElectionOpen, Voted

\* tally counts only ballots that name somebody.
LEMMA TopAreNamed ==
  ASSUME NEW v, NEW x \in TopCandidates(v)
  PROVE  \E q \in Players : v[q] = x
  <1>1. Cardinality({q \in Players : v[q] = x}) > 0
    BY DEF TopCandidates, Count
  <1> QED
    BY <1>1, FS_EmptySet

\* handleVote keeps a box the living have filled with the living.
LEMMA BallotStep ==
  ASSUME TypeOK, ElectionOpen, NEW p \in Players, NEW target,
         SubmitVote(p, target), phase' \in {"VOTE", "RECOUNT"}, pendingEnd' = NoEnd
  PROVE  ElectionOpen'
  <1> DEFINE v == [votes EXCEPT ![p] = target]
  <1>1. /\ phase \in {"VOTE", "RECOUNT"} /\ p \in alive
        /\ target = NoPlayer
             \/ target \in (IF phase = "VOTE" THEN alive ELSE alive \cap voteCandidates)
        /\ \/ /\ ~AllVoted(v) /\ votes' = v
              /\ UNCHANGED <<phase, alive, voteRound, voteCandidates, pendingEnd>>
           \/ Tally(v)
    BY DEF SubmitVote
  <1>2. votes \in [Players -> Players \cup {NoPlayer, NotVoted}] /\ alive \subseteq Players
    BY DEF TypeOK, PlayerType
  <1>3. /\ \A q \in Players : v[q] = IF q = p THEN target ELSE votes[q]
        /\ target # NotVoted
    BY <1>1, <1>2, RosterAssumption DEF RosterAssumption
  <1> HIDE DEF v
  <1>4. Voted(v) = Voted(votes) \cup {p}
    BY <1>3 DEF Voted
  <1>5. CASE ~AllVoted(v) /\ votes' = v
             /\ UNCHANGED <<phase, alive, voteRound, voteCandidates, pendingEnd>>
    <2> USE <1>5 DEF ElectionOpen
    <2>1. Voted(v) \subseteq alive
      BY <1>1, <1>4
    <2>2. Voted(v) # alive
      <3>1. IsFiniteSet(alive)
        BY <1>2, RosterAssumption, FS_Subset DEF RosterAssumption
      <3>2. Cardinality(alive) \in Nat
        BY <3>1, FS_CardinalityType
      <3> QED
        BY <3>2 DEF AllVoted
    <2>3. \A q \in Voted(v) :
             v[q] \in {NoPlayer} \cup (IF phase = "VOTE" THEN alive ELSE voteCandidates)
      BY <1>1, <1>3, <1>4 DEF Voted
    <2> QED
      BY <1>1, <2>1, <2>2, <2>3 DEF Voted
  <1>6. ASSUME NEW x \in TopCandidates(v), ApplyElimination(x, v) PROVE FALSE
    <2>1. EvaluateEnd(alive \ {x}) = "NONE"
      BY <1>6, ScheduledWins DEF ApplyElimination
    <2> QED
      BY <1>6, <2>1 DEF ApplyElimination, EnterNight
  <1>7. CASE /\ Cardinality(TopCandidates(v)) > 1 /\ phase' = "RECOUNT"
             /\ voteRound' = 2 /\ voteCandidates' = TopCandidates(v)
             /\ votes' = EmptyVotes /\ UNCHANGED <<alive, pendingEnd>>
    <2>1. ASSUME NEW x \in TopCandidates(v) PROVE x \in alive
      <3>1. PICK q \in Players : v[q] = x
        BY TopAreNamed
      <3>2. x \in Players /\ x # NoPlayer /\ x # NotVoted
        BY RosterAssumption DEF TopCandidates, RosterAssumption
      <3>3. q \in Voted(votes) \cup {p}
        BY <1>4, <3>1, <3>2 DEF Voted
      <3> QED
        BY <1>1, <1>3, <1>7, <3>1, <3>2, <3>3 DEF ElectionOpen
    <2> QED
      BY <1>1, <1>7, <2>1, EmptyBox
  <1>8. CASE EnterNight
    BY <1>8 DEF EnterNight
  <1> QED
    BY <1>1, <1>5, <1>6, <1>7, <1>8 DEF Tally

\* Every other step leaves an open election alone, or opens one with survivors.
LEMMA ElectionStep ==
  TypeOK /\ NoUnnoticedWin /\ ElectionOpen /\ [Next]_vars => ElectionOpen'
  <1> SUFFICES ASSUME TypeOK, NoUnnoticedWin, ElectionOpen, [Next]_vars,
                      phase' \in {"VOTE", "RECOUNT"}, pendingEnd' = NoEnd
               PROVE  ElectionOpen'
    BY DEF ElectionOpen
  <1> USE DEF voteVars, endVars
  <1>a. ASSUME UNCHANGED <<phase, alive, voteVars>>, pendingEnd = NoEnd
        PROVE  ElectionOpen'
    BY <1>a DEF ElectionOpen, Voted
  <1>b. ASSUME NEW t, phase = "DAY", TransitionDayToVote(t) PROVE ElectionOpen'
    <2>1. alive # {}
      BY <1>b, SurvivorsLeft DEF TransitionDayToVote, NoUnnoticedWin
    <2> QED
      BY <1>b, <2>1, EmptyBox DEF TransitionDayToVote
  <1>1. CASE Start
    BY <1>1 DEF Start
  <1>2. ASSUME NextSpeaker PROVE ElectionOpen'
    BY <1>2, <1>a DEF NextSpeaker, TransitionIntroToDay
  <1>3. ASSUME NEW p \in Players, NEW q \in Players,
               SubmitMafiaKill(p, q) \/ SubmitDoctorHeal(p, q)
                 \/ SubmitPoliceCheck(p, q)
        PROVE  ElectionOpen'
    BY <1>3 DEF SubmitMafiaKill, SubmitDoctorHeal, SubmitPoliceCheck
  <1>4. ASSUME ResolveNight PROVE ElectionOpen'
    BY <1>4 DEF ResolveNight
  <1>5. ASSUME NEW h, ResumeGame(h) PROVE ElectionOpen'
    BY <1>5, <1>a, ShiftKeepsEnd DEF ResumeGame
  <1>6. ASSUME NEW h, NEW on, PauseGame(h) \/ ToggleVoice(h, on) PROVE ElectionOpen'
    BY <1>6, <1>a DEF PauseGame, ToggleVoice
  <1>7. ASSUME NEW h, ForceEndGame(h) PROVE ElectionOpen'
    BY <1>7 DEF ForceEndGame
  <1>8. CASE Apply
    BY <1>8, <1>b, <1>2, <1>3, <1>4, <1>5, <1>6, <1>7, BallotStep
    DEF Apply, EndSelfIntro, AdvanceIntro, EndNightEarly, EndDiscussionEarly
  <1>9. ASSUME NEW t, Ticker(t) PROVE ElectionOpen'
    <2>1. CASE UNCHANGED vars
      BY <2>1, <1>a DEF vars
    <2>2. CASE FirePendingEnd(t)
      BY <2>2 DEF FirePendingEnd
    <2>3. CASE TickIntro(t)
      BY <2>3 DEF TickIntro, TransitionIntroToDay
    <2>4. CASE TickDay(t)
      BY <2>4, <1>b DEF TickDay
    <2>5. CASE TickNight(t)
      BY <2>5, <1>4 DEF TickNight
    <2>6. CASE TickIdle(t)
      BY <2>6, <1>a DEF TickIdle
    <2> QED
      BY <1>9, <2>1, <2>2, <2>3, <2>4, <2>5, <2>6 DEF Ticker, Tick
  <1>10. CASE AdvanceClock
    BY <1>10, <1>a DEF AdvanceClock
  <1>11. CASE UNCHANGED vars
    BY <1>11, <1>a DEF vars
  <1> QED
    BY <1>1, <1>8, <1>9, <1>10, <1>11 DEF Next

\* While an election is open somebody alive has still to vote, only the living
\* have voted, and every ballot names a living player who stands: the vote can
\* always be completed, and a recount has living candidates, at least two.
THEOREM ElectionsStayOpen == Spec => []ElectionOpen
  <1>1. Init => ElectionOpen
    BY DEF Init, ElectionOpen
  <1> QED
    BY <1>1, ElectionStep, TypeCorrect, WinsAreNoticed, PTL DEF Spec

-----------------------------------------------------------------------------
(* The causes of death *)

\* The action of DeathHasCause.
CauseOfDeath ==
    \A p \in alive \ alive' :
       /\ alive' = alive \ {p}
       /\ \/ /\ phase = "NIGHT" /\ phase' = "DAY" /\ day' = day + 1
             /\ role[p] # "MAFIA"
             /\ p = pendingMafia /\ p # pendingDoctor
          \/ /\ phase \in {"VOTE", "RECOUNT"} /\ day' = day
             /\ phase' = "NIGHT" \/ pendingEnd' # NoEnd
             /\ \E q \in alive, target \in Players \cup {NoPlayer} :
                   Elected(p, [votes EXCEPT ![q] = target])

\* The number of ballots for a player is a natural number.
LEMMA CountNat == ASSUME NEW v, NEW x PROVE Count(v, x) \in Nat
  BY RosterAssumption, FS_Subset, FS_CardinalityType DEF RosterAssumption, Count

\* A single top candidate has more ballots than any other player.
LEMMA TopBeatsAll ==
  ASSUME NEW v, NEW p, TopCandidates(v) = {p}
  PROVE  \A x \in Players \ {p} : Count(v, x) < Count(v, p)
  <1> SUFFICES ASSUME NEW x \in Players \ {p} PROVE Count(v, x) < Count(v, p)
    OBVIOUS
  <1>1. p \in TopCandidates(v) /\ x \notin TopCandidates(v)
    OBVIOUS
  <1>2. /\ Count(v, p) > 0
        /\ \A y \in Players : Count(v, y) <= Count(v, p)
    BY <1>1 DEF TopCandidates
  <1>3. Count(v, x) # Count(v, p)
    BY <1>1, <1>2 DEF TopCandidates
  <1> QED
    BY <1>2, <1>3, CountNat

\* Whom tally eliminates is elected by the ballots it tallies.
LEMMA TalliedIsElected ==
  ASSUME TypeOK, ElectionOpen, NEW p \in Players, NEW target,
         SubmitVote(p, target),
         AllVoted([votes EXCEPT ![p] = target]),
         NEW x, TopCandidates([votes EXCEPT ![p] = target]) = {x}
  PROVE  Elected(x, [votes EXCEPT ![p] = target])
  <1> DEFINE v == [votes EXCEPT ![p] = target]
  <1>1. /\ phase \in {"VOTE", "RECOUNT"} /\ p \in alive
        /\ target \in {NoPlayer} \cup alive
        /\ phase = "RECOUNT" => target \in {NoPlayer} \cup voteCandidates
    BY DEF SubmitVote
  <1>2. /\ votes \in [Players -> Players \cup {NoPlayer, NotVoted}]
        /\ alive \subseteq Players
    BY DEF TypeOK, PlayerType
  <1>3. /\ \A q \in Players : v[q] = IF q = p THEN target ELSE votes[q]
        /\ target # NotVoted
    BY <1>1, <1>2, RosterAssumption DEF RosterAssumption
  <1>4. Voted(v) = Voted(votes) \cup {p}
    BY <1>3 DEF Voted
  <1>5. Cardinality(Voted(v)) >= Cardinality(alive)
    BY DEF AllVoted
  <1>6. \A y \in Players \ {x} : Count(v, y) < Count(v, x)
    BY TopBeatsAll
  <1>7. ASSUME pendingEnd = NoEnd PROVE Voted(v) = alive
    <2>1. Voted(v) \subseteq alive
      BY <1>1, <1>4, <1>7 DEF ElectionOpen
    <2>2. IsFiniteSet(alive)
      BY <1>2, RosterAssumption, FS_Subset DEF RosterAssumption
    <2>3. /\ Cardinality(alive) \in Nat
          /\ IsFiniteSet(Voted(v)) /\ Cardinality(Voted(v)) \in Nat
          /\ Cardinality(Voted(v)) <= Cardinality(alive)
          /\ Cardinality(Voted(v)) = Cardinality(alive) => Voted(v) = alive
      BY <2>1, <2>2, FS_Subset, FS_CardinalityType
    <2>4. Cardinality(Voted(v)) = Cardinality(alive)
      BY <1>5, <2>3
    <2> QED
      BY <2>3, <2>4
  <1>8. ASSUME pendingEnd = NoEnd, phase = "RECOUNT" PROVE x \in voteCandidates
    <2>1. x \in TopCandidates(v)
      OBVIOUS
    <2>2. PICK q \in Players : v[q] = x
      BY <2>1, TopAreNamed
    <2>3. x \in Players /\ x # NoPlayer /\ x # NotVoted
      BY <2>1, RosterAssumption DEF TopCandidates, RosterAssumption
    <2>4. CASE q = p
      BY <1>1, <1>3, <1>8, <2>2, <2>3, <2>4
    <2>5. CASE q # p
      <3>1. votes[q] = x /\ q \in Voted(votes)
        BY <1>3, <2>2, <2>3, <2>5 DEF Voted
      <3> QED
        BY <1>8, <2>3, <3>1 DEF ElectionOpen
    <2> QED
      BY <2>4, <2>5
  <1> QED
    BY <1>5, <1>6, <1>7, <1>8 DEF Elected

\* A ballot that costs a life elects the one who dies.
LEMMA BallotCause ==
  ASSUME TypeOK, ElectionOpen, NEW q \in Players, NEW target, SubmitVote(q, target)
  PROVE  CauseOfDeath
  <1> DEFINE v == [votes EXCEPT ![q] = target]
  <1> SUFFICES ASSUME NEW p \in alive \ alive'
               PROVE  /\ alive' = alive \ {p}
                      /\ phase \in {"VOTE", "RECOUNT"} /\ day' = day
                      /\ phase' = "NIGHT" \/ pendingEnd' # NoEnd
                      /\ \E r \in alive, t \in Players \cup {NoPlayer} :
                            Elected(p, [votes EXCEPT ![r] = t])
    BY DEF CauseOfDeath
  <1>1. /\ phase \in {"VOTE", "RECOUNT"} /\ day' = day /\ q \in alive
        /\ target \in Players \cup {NoPlayer}
        /\ AllVoted(v) /\ Tally(v)
    BY DEF SubmitVote, TypeOK, PlayerType
  <1> HIDE DEF v
  <1>2. PICK x \in TopCandidates(v) : TopCandidates(v) = {x} /\ ApplyElimination(x, v)
    BY <1>1 DEF Tally
  <1>3. x = p /\ alive' = alive \ {p}
    BY <1>2 DEF ApplyElimination
  <1>4. phase' = "NIGHT" \/ pendingEnd' # NoEnd
    BY <1>2, ScheduledWins DEF ApplyElimination, EnterNight
  <1>5. Elected(p, v)
    BY <1>1, <1>2, <1>3, TalliedIsElected DEF v
  <1> QED
    BY <1>1, <1>3, <1>4, <1>5 DEF v

\* Only Start, the resolution of a night and a ballot change who is alive.
LEMMA LivingCases ==
  ASSUME TypeOK, [Next]_vars
  PROVE  \/ Start
         \/ phase = "NIGHT" /\ ResolveNight
         \/ \E q \in Players, target \in Ballots : SubmitVote(q, target)
         \/ alive' = alive
  <1>1. ASSUME NextSpeaker PROVE alive' = alive
    BY <1>1 DEF NextSpeaker, TransitionIntroToDay
  <1>2. ASSUME NEW p \in Players, NEW q \in Players,
               SubmitMafiaKill(p, q) \/ SubmitDoctorHeal(p, q)
                 \/ SubmitPoliceCheck(p, q)
        PROVE  alive' = alive
    BY <1>2 DEF SubmitMafiaKill, SubmitDoctorHeal, SubmitPoliceCheck
  <1>3. ASSUME NEW h, EndDiscussionEarly(h) \/ PauseGame(h) \/ ResumeGame(h)
                        \/ ForceEndGame(h) \/ \E on \in VoiceInputs : ToggleVoice(h, on)
        PROVE  alive' = alive
    BY <1>3 DEF EndDiscussionEarly, TransitionDayToVote, PauseGame, ResumeGame,
                ForceEndGame, ToggleVoice
  <1>4. CASE Apply
    BY <1>4, <1>1, <1>2, <1>3 DEF Apply, EndSelfIntro, AdvanceIntro, EndNightEarly
  <1>5. ASSUME NEW t, Ticker(t) PROVE alive' = alive \/ (phase = "NIGHT" /\ ResolveNight)
    BY <1>5, TickCases DEF Quiet
  <1>6. CASE AdvanceClock
    BY <1>6 DEF AdvanceClock
  <1>7. CASE UNCHANGED vars
    BY <1>7 DEF vars
  <1> QED
    BY <1>4, <1>5, <1>6, <1>7 DEF Next

\* Every step that takes a player from the living has one of the two causes.
LEMMA CauseStep ==
  TypeOK /\ NightTargetsInStep /\ ElectionOpen /\ [Next]_vars => [CauseOfDeath]_vars
  <1> SUFFICES ASSUME TypeOK, NightTargetsInStep, ElectionOpen, [Next]_vars
               PROVE  CauseOfDeath
    OBVIOUS
  <1>1. CASE Start
    BY <1>1 DEF Start, CauseOfDeath, TypeOK, PlayerType
  <1>2. CASE phase = "NIGHT" /\ ResolveNight
    <2> SUFFICES ASSUME NEW p \in alive \ alive'
                 PROVE  /\ alive' = alive \ {p}
                        /\ phase' = "DAY" /\ day' = day + 1
                        /\ role[p] # "MAFIA"
                        /\ p = pendingMafia /\ p # pendingDoctor
      BY <1>2 DEF CauseOfDeath
    <2>1. p = Victim /\ p \in Players
      BY <1>2 DEF ResolveNight, TypeOK, PlayerType
    <2>2. p = pendingMafia /\ p # pendingDoctor
      BY <2>1, RosterAssumption DEF Victim, RosterAssumption
    <2>3. role[p] # "MAFIA"
      BY <1>2, <2>1, <2>2, RosterAssumption
      DEF NightTargetsInStep, Mafia, RosterAssumption
    <2> QED
      BY <1>2, <2>1, <2>2, <2>3 DEF ResolveNight
  <1>3. ASSUME NEW q \in Players, NEW target, SubmitVote(q, target) PROVE CauseOfDeath
    BY <1>3, BallotCause
  <1>4. CASE alive' = alive
    BY <1>4 DEF CauseOfDeath
  <1> QED
    BY <1>1, <1>2, <1>3, <1>4, LivingCases

\* Players die one at a time: at night the mafia's target whom the doctor did not
\* choose, and no mafioso; by day the player whom the completed ballots put
\* before every other.
THEOREM DeathsHaveCauses == Spec => DeathHasCause
  <1>1. Spec => [][CauseOfDeath]_vars
    BY CauseStep, TypeCorrect, TargetsStayInStep, ElectionsStayOpen, PTL DEF Spec
  <1> QED
    BY <1>1 DEF DeathHasCause, CauseOfDeath

-----------------------------------------------------------------------------
(* The engine implements GameLifecycle *)

\* GameLifecycle's stage, as the refinement mapping reads it off the phase.
StageOf(ph) == IF ph = "NONE" THEN "SETUP" ELSE IF ph = "RECOUNT" THEN "VOTE" ELSE ph

\* The step leaves every variable of GameLifecycle alone.
Stutter == UNCHANGED <<StageOf(phase), day, Mafia, alive, pendingEnd.reason, endReason>>

\* The instance counts as FiniteSets does.
LEMMA SameCardinality == ASSUME NEW S PROVE Lifecycle!Cardinality(S) = Cardinality(S)
  BY DEF Lifecycle!Cardinality, Cardinality

\* The lifecycle judges the survivors as evaluateEnd does.
LEMMA SameVerdict == ASSUME NEW a PROVE Lifecycle!VerdictOn(a) = EvaluateEnd(a)
  BY SameCardinality DEF Lifecycle!VerdictOn, EvaluateEnd

\* The lifecycle's survivors and verdict follow scheduleGameEnd.
LEMMA ScheduledSettles ==
  ASSUME EndInStage, NEW a, alive' = a, ScheduleGameEnd(a)
  PROVE  Lifecycle!Settle(a)
  <1>1. pendingEnd.reason = "NONE" <=> pendingEnd = NoEnd
    BY DEF EndInStage, NoEnd
  <1>2. pendingEnd'.reason = IF pendingEnd.reason = "NONE" THEN EvaluateEnd(a)
                             ELSE pendingEnd.reason
    BY <1>1 DEF ScheduleGameEnd
  <1> QED
    BY <1>2, SameVerdict DEF Lifecycle!Settle

\* Start is the lifecycle's Begin: both camps are dealt, the mafia the smaller.
LEMMA StartBegins == ASSUME Start PROVE Lifecycle!Begin
  <1>1. /\ phase = "NONE" /\ phase' = "INTRO" /\ day' = 1 /\ alive' = Players
        /\ UNCHANGED <<pendingEnd, endReason>>
    BY DEF Start, endVars
  <1>2. Mafia' \in SUBSET Players
    BY DEF Mafia
  <1>3. (EvaluateEnd(Players) = "NONE")'
    BY <1>1, DealIsOpen
  <1>4. Players \cap Mafia' = Mafia'
    BY <1>2
  <1>5. Mafia' # {} /\ ~(Cardinality(Mafia') >= Cardinality(Players \ Mafia'))
    BY <1>3, <1>4 DEF EvaluateEnd
  <1>6. Cardinality(Mafia') \in Nat /\ Cardinality(Players \ Mafia') \in Nat
    BY <1>2, RosterAssumption, FS_Subset, FS_CardinalityType DEF RosterAssumption
  <1>7. Cardinality(Mafia') < Cardinality(Players \ Mafia')
    BY <1>5, <1>6
  <1> QED
    BY <1>1, <1>2, <1>5, <1>7, SameCardinality DEF Lifecycle!Begin

\* resolveNight is Dawn: the only victim is the mafia's target, no mafioso.
LEMMA NightDawns ==
  ASSUME TypeOK, NightTargetsInStep, EndInStage, phase = "NIGHT", ResolveNight
  PROVE  Lifecycle!Dawn
  <1> DEFINE victims == IF Victim \in alive THEN {Victim} ELSE {}
  <1>1. /\ alive' = alive \ {Victim} /\ ScheduleGameEnd(alive \ {Victim})
        /\ phase' = "DAY" /\ day' = day + 1 /\ UNCHANGED <<role, endReason>>
    BY DEF ResolveNight
  <1>2. alive \ victims = alive \ {Victim}
    OBVIOUS
  <1>3. Victim \in alive => Victim \in alive \ Mafia
    BY RosterAssumption
    DEF Victim, NightTargetsInStep, TypeOK, PlayerType, RosterAssumption
  <1>4. victims \in {{}} \cup {{x} : x \in alive \ Mafia}
    BY <1>3
  <1>5. Lifecycle!Settle(alive \ victims)
    BY <1>1, <1>2, ScheduledSettles
  <1>6. Mafia' = Mafia
    BY <1>1 DEF Mafia
  <1> QED
    BY <1>1, <1>4, <1>5, <1>6 DEF Lifecycle!Dawn

\* An elimination is Eliminate; after a decided game the late ballots may elect a
\* player who is dead already, and then the town in effect eliminates nobody.
LEMMA ExecutionEliminates ==
  ASSUME TypeOK, NoUnnoticedWin, EndInStage, NEW x \in Players, Execution(x)
  PROVE  Lifecycle!Eliminate \/ Lifecycle!Acquit \/ Stutter
  <1>1. /\ phase \in {"VOTE", "RECOUNT"}
        /\ alive' = alive \ {x} /\ ScheduleGameEnd(alive \ {x})
        /\ phase' = IF EvaluateEnd(alive \ {x}) = "NONE" THEN "NIGHT" ELSE phase
        /\ UNCHANGED <<role, day, endReason>>
    BY DEF Execution, Elimination
  <1>2. Mafia' = Mafia
    BY <1>1 DEF Mafia
  <1>3. Lifecycle!Settle(alive \ {x})
    BY <1>1, ScheduledSettles
  <1>4. CASE x \in alive
    <2>1. Lifecycle!VerdictOn(alive \ {x}) = EvaluateEnd(alive \ {x})
      BY SameVerdict
    <2>2. Lifecycle!VerdictOn(alive') = Lifecycle!VerdictOn(alive \ {x})
      BY <1>1
    <2> QED
      BY <1>1, <1>2, <1>3, <1>4, <2>1, <2>2 DEF Lifecycle!Eliminate
  <1>5. CASE x \notin alive
    <2>1. alive \ {x} = alive
      BY <1>5
    <2>2. pendingEnd' = pendingEnd
      BY <1>1, <2>1 DEF ScheduleGameEnd, NoUnnoticedWin
    <2> QED
      BY <1>1, <1>2, <2>1, <2>2 DEF Lifecycle!Acquit, Stutter, StageOf
  <1> QED
    BY <1>4, <1>5

\* Every step of the engine is a step of the lifecycle, or stutters there.
LEMMA LifecycleStep ==
  /\ TypeOK /\ NoUnnoticedWin /\ NightTargetsInStep /\ EndInStage
  /\ [Next]_vars
  => [Lifecycle!Next]_Lifecycle!vars
  <1> SUFFICES ASSUME TypeOK, NoUnnoticedWin, NightTargetsInStep, EndInStage,
                      [Next]_vars
               PROVE  Lifecycle!Next \/ Stutter
    BY DEF Stutter, StageOf, Lifecycle!vars
  <1>1. CASE Start
    BY <1>1, StartBegins DEF Lifecycle!Next
  <1>2. CASE phase = "NIGHT" /\ ResolveNight
    BY <1>2, NightDawns DEF Lifecycle!Next
  <1>3. ASSUME NEW x \in Players, Execution(x) PROVE Lifecycle!Next \/ Stutter
    BY <1>3, ExecutionEliminates DEF Lifecycle!Next
  <1>4. CASE Hold
    BY <1>4 DEF Hold, GameKept, EndKept, Stutter, StageOf, Mafia
  <1>5. CASE Turn
    <2>1. /\ UNCHANGED <<day, alive, endReason>> /\ Mafia' = Mafia
          /\ pendingEnd'.reason = pendingEnd.reason
      BY <1>5 DEF Turn, GameKept, EndKept, Mafia
    <2>2. CASE phase = "INTRO" /\ phase' = "DAY"
      BY <2>1, <2>2 DEF Lifecycle!OpenDiscussion, Lifecycle!Next
    <2>3. CASE phase = "DAY" /\ phase' = "VOTE"
      BY <2>1, <2>3 DEF Lifecycle!OpenVote, Lifecycle!Next
    <2>4. CASE phase = "VOTE" /\ phase' = "RECOUNT"
      BY <2>1, <2>4 DEF Stutter, StageOf
    <2>5. CASE phase \in {"VOTE", "RECOUNT"} /\ phase' = "NIGHT"
      BY <2>1, <2>5 DEF Lifecycle!Acquit, Lifecycle!Next
    <2> QED
      BY <1>5, <2>2, <2>3, <2>4, <2>5 DEF Turn
  <1>6. CASE Finish
    <2>1. /\ phase' = "END" /\ pendingEnd'.reason = "NONE"
          /\ UNCHANGED <<day, alive>> /\ Mafia' = Mafia
      BY <1>6 DEF Finish, NoEnd, Mafia
    <2>2. CASE pendingEnd # NoEnd /\ endReason' = pendingEnd.reason
      BY <2>1, <2>2 DEF EndInStage, Lifecycle!Declare, Lifecycle!Next
    <2>3. CASE phase # "END" /\ endReason' = "HOST_FORCE_END"
      <3>1. phase \in {"INTRO", "DAY", "VOTE", "RECOUNT", "NIGHT"}
        BY <1>6, <2>3 DEF Finish, TypeOK, FlagType, Phases
      <3> QED
        BY <2>1, <2>3, <3>1 DEF Lifecycle!CallOff, Lifecycle!Next
    <2> QED
      BY <1>6, <2>2, <2>3 DEF Finish
  <1> QED
    BY <1>1, <1>2, <1>3, <1>4, <1>5, <1>6, TurnCases

\* The fresh engine is a game in SETUP.
LEMMA LifecycleInit == Init => Lifecycle!Init
  BY DEF Init, Lifecycle!Init, Mafia, NoEnd

\* The rules engine implements the lifecycle of a game: with any roster, any
\* deal and any durations, no order of ballots, submissions, ticks, pauses and
\* host commands skips a stage, kills two at once, kills a mafioso at night, or
\* ends the game with another verdict than the first one reached.
THEOREM EngineImplementsLifecycle == Spec => ImplementsLifecycle
  <1>1. Spec => Lifecycle!Init
    BY LifecycleInit DEF Spec
  <1>2. Spec => [][Lifecycle!Next]_Lifecycle!vars
    BY LifecycleStep, TypeCorrect, WinsAreNoticed, TargetsStayInStep,
       EndsAreInStage, PTL DEF Spec
  <1> QED
    BY <1>1, <1>2, PTL DEF ImplementsLifecycle, Lifecycle!Spec

=============================================================================
