---------------------------- MODULE MCGameEngine ----------------------------
(***************************************************************************)
(* Small instances of GameEngine for TLC.                                  *)
(***************************************************************************)
EXTENDS GameEngine, TLC

CONSTANTS p1, p2, p3, p4, p5

\* Players differ only by the role they are dealt and the seat they have, and the
\* rules never read a seat but to name the speaker, so one deal stands for all.
FourPlayers == {p1, p2, p3, p4}
FourRoster == <<p1, p2, p3, p4>>
OneDeal == {(p1 :> "MAFIA" @@ p2 :> "DOCTOR" @@ p3 :> "POLICE" @@ p4 :> "CITIZEN")}

FivePlayers == FourPlayers \cup {p5}
FiveRoster == <<p1, p2, p3, p4, p5>>
TwoOfFive == {(p1 :> "MAFIA" @@ p2 :> "MAFIA" @@ p3 :> "DOCTOR" @@ p4 :> "POLICE"
                @@ p5 :> "CITIZEN")}

MafiaBallot == {p1, NoPlayer}
MafiaOrTown == {p1, p2, p5}
HostOnly == {NoPlayer}

\* Time translation: two states whose instants have the same distance to the
\* clock, as far as the engine still reads them, behave alike; so do timers that
\* expired longer ago than a whole night or round of introductions. After END
\* nothing reads the ballots and the targets any more.
LongAgo == 6
FromNow(x) == IF x = 0 THEN NoPlayer ELSE IF x < now - LongAgo THEN -LongAgo ELSE x - now
RelativeTime ==
    <<phase, day, role, alive, rep,
      IF phase = "INTRO" THEN <<introIdx, FromNow(introStartedAt)>> ELSE <<>>,
      FromNow(deadline), nightStep, FromNow(nightStepDeadline),
      policeChecked, policeHistory, paused,
      IF phase = "END" THEN <<>>
      ELSE <<pendingMafia, pendingDoctor, pendingPolice, voteVars, FromNow(pausedAt)>>,
      pendingEnd.reason, FromNow(pendingEnd.deadline), winner, endReason,
      IF phase = "END" THEN 0 ELSE FromNow(lastTickAt), voiceOn, timerTicks>>
=============================================================================
