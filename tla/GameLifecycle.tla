--------------------------- MODULE GameLifecycle ---------------------------
(***************************************************************************)
(* What a game of mafia promises its players, without timers, commands,    *)
(* ballots or night submissions: the stages follow one another as          *)
(* INTRO, DAY, VOTE, NIGHT, DAY, ...; a stage ends with at most one death; *)
(* nights never kill a mafioso; the first death that wins the game for a   *)
(* side fixes the verdict at once, and the game then ends with that        *)
(* verdict and no other, unless the host calls it off.  GameEngine         *)
(* implements this specification.                                          *)
(***************************************************************************)
EXTENDS Integers, FiniteSets

CONSTANT Players

VARIABLES
    stage,    \* where the game is; a recount is still the VOTE stage
    day,      \* the number of the current day
    mafia,    \* the players dealt the mafia role
    alive,    \* the survivors
    verdict,  \* the win to be declared, "NONE" while the game is open
    result    \* the declared end reason, "NONE" before the end

vars == <<stage, day, mafia, alive, verdict, result>>

\* The side that has won among the survivors a.
VerdictOn(a) ==
    IF a \cap mafia = {} THEN "CITIZEN_WIN"
    ELSE IF Cardinality(a \cap mafia) >= Cardinality(a \ mafia)
         THEN "MAFIA_WIN" ELSE "NONE"

\* The first win stands, whatever happens to the survivors afterwards.
Settle(a) ==
    /\ alive' = a
    /\ verdict' = IF verdict = "NONE" THEN VerdictOn(a) ELSE verdict

Init ==
    /\ stage = "SETUP" /\ day = 0
    /\ mafia = {} /\ alive = {}
    /\ verdict = "NONE" /\ result = "NONE"

Begin ==
    /\ stage = "SETUP"
    /\ stage' = "INTRO" /\ day' = 1
    /\ mafia' \in SUBSET Players
    /\ mafia' # {} /\ Cardinality(mafia') < Cardinality(Players \ mafia')
    /\ alive' = Players
    /\ UNCHANGED <<verdict, result>>

OpenDiscussion ==
    /\ stage = "INTRO" /\ stage' = "DAY"
    /\ UNCHANGED <<day, mafia, alive, verdict, result>>

OpenVote ==
    /\ stage = "DAY" /\ stage' = "VOTE"
    /\ UNCHANGED <<day, mafia, alive, verdict, result>>

\* The town eliminates a player; night falls unless that decides the game.
Eliminate ==
    /\ stage = "VOTE"
    /\ \E x \in alive : Settle(alive \ {x})
    /\ stage' = IF VerdictOn(alive') = "NONE" THEN "NIGHT" ELSE "VOTE"
    /\ UNCHANGED <<day, mafia, result>>

\* The town eliminates nobody.
Acquit ==
    /\ stage = "VOTE" /\ stage' = "NIGHT"
    /\ UNCHANGED <<day, mafia, alive, verdict, result>>

\* Morning, with at most one victim, who is not of the mafia.
Dawn ==
    /\ stage = "NIGHT" /\ stage' = "DAY"
    /\ day' = day + 1
    /\ \E victims \in {{}} \cup {{x} : x \in alive \ mafia} :
          Settle(alive \ victims)
    /\ UNCHANGED <<mafia, result>>

Declare ==
    /\ stage \in {"DAY", "VOTE", "NIGHT"} /\ verdict # "NONE"
    /\ stage' = "END"
    /\ result' = verdict /\ verdict' = "NONE"
    /\ UNCHANGED <<day, mafia, alive>>

CallOff ==
    /\ stage \in {"INTRO", "DAY", "VOTE", "NIGHT"}
    /\ stage' = "END"
    /\ result' = "HOST_FORCE_END" /\ verdict' = "NONE"
    /\ UNCHANGED <<day, mafia, alive>>

Next == \/ Begin \/ OpenDiscussion \/ OpenVote \/ Eliminate \/ Acquit
        \/ Dawn \/ Declare \/ CallOff

Spec == Init /\ [][Next]_vars
=============================================================================
