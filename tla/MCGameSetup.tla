---------------------------- MODULE MCGameSetup ----------------------------
(***************************************************************************)
(* An instance of GameSetup for TLC: lobbies of up to eight, options on    *)
(* and around the limits of both validators.                               *)
(***************************************************************************)
EXTENDS GameSetup, TLC

CONSTANTS t1, t2

Form(max, mafia, intro, discussion, night) ==
    [f \in OptionFields |->
        CASE f = "maxPlayers" -> max
          [] f = "mafiaCount" -> mafia
          [] f = "introSecondsPerPlayer" -> intro
          [] f = "discussionSeconds" -> discussion
          [] OTHER -> night]

\* Two that can be played, by six or seven; a tie of the sides at six; a mafia that
\* leaves no citizen; and one with a field too small.
BoundaryForms == {Form(7, 2, 5, 30, 5), Form(0, 3, 5, 30, 0), Form(7, 4, 5, 30, 5),
                  Form(6, 1, 4, 30, 5)}

\* The order of joining, its reverse, and a rotation; the theorems of
\* GameSetupProofs are about every order.
SomeShuffles ==
    [n \in Fewest..Most |->
        {[i \in 1..n |-> i], [i \in 1..n |-> n + 1 - i], [i \in 1..n |-> (i % n) + 1]}]

TabSymmetry == Permutations(Tabs)
=============================================================================
