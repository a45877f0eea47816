----------------------------- MODULE MCViewers -----------------------------
(* Instances of Viewers for TLC, on the players of MCGameEngine. *)
EXTENDS Viewers, MCGameEngine

CONSTANT s

\* Ballots against the representative and against a citizen.
MafiaVersusTown == {p1, p5}

\* The engine up to time translation. Where CopiesAgree holds, the fields of a
\* copy that are ever compared are those of the engine, but for a copy that has
\* no players, so the copies themselves need not tell states apart. No step, and no
\* property of the runs that use this view, reads shown.
ViewersRelativeTime ==
    <<RelativeTime, linked, bound, CopiesAgree, {v \in Watchers : copy[v].players = Players},
      addressed, executed>>
=============================================================================
