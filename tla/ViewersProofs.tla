--------------------------- MODULE ViewersProofs ---------------------------
(***************************************************************************)
(* Theorems about Viewers: the secrets in the events and announcements     *)
(* sent to a viewer over a whole game are secrets that viewer may know by  *)
(* then, a private view holds all of them and, of the others, the role of  *)
(* the representative only, and the copy of every connected client is in   *)
(* step with the engine (the second half, from "Induction" on).            *)
(***************************************************************************)
EXTENDS Viewers, GameRulesProofs

-----------------------------------------------------------------------------
(* The engine under the viewers *)

\* A step of the viewers' world is a step of the engine, or leaves it alone.
LEMMA EngineTakesPart == [ViewNext]_allVars => [Next]_vars
  <1> SUFFICES ASSUME [ViewNext]_allVars PROVE [Next]_vars
    OBVIOUS
  <1>1. CASE EngineStep
    <2>1. Command => Apply
      BY DEF Command, Apply, Vote
    <2> QED BY <1>1, <2>1 DEF EngineStep, Next
  <1>2. CASE ~EngineStep
    BY <1>2 DEF ViewNext, PushRoomState, Drop, ResumePlayer, allVars
  <1> QED BY <1>1, <1>2

\* So the engine's theorems hold among the viewers.
LEMMA EngineRuns == ViewSpec => Spec
  <1>1. ViewInit => Init
    BY DEF ViewInit
  <1> QED BY <1>1, EngineTakesPart, PTL DEF ViewSpec, Spec

-----------------------------------------------------------------------------
(* What a viewer may know *)

\* The secrets the rules of the game have revealed to v by now.
MayKnow(v) == IF v = Screen THEN PublicSecrets ELSE PublicSecrets \cup OwnSecrets(v)

\* An envelope tells nobody more than that, after the step that sends it.
Safe(env) == \A v \in Watchers : Exposed(v, env) \subseteq MayKnow(v)'

\* The envelopes of a step are safe together.
SafeSeq(envs) == \E S : envs \in Seq(S) /\ \A env \in S : Safe(env)

\* A payload without a secret is safe.
LEMMA Harmless ==
  ASSUME NEW env,
         env.event.kind \in {"PhaseChanged", "NightStepChanged", "IntroSpeakerChanged",
                             "DeathAnnounced", "GamePaused", "GameResumed", "GameStarted"}
  PROVE  Safe(env)
  <1>1. BuildEventPayload(env.event).kind = env.event.kind
    BY DEF BuildEventPayload
  <1>2. env.event.kind = "GameStarted" =>
          "state" \notin DOMAIN BuildEventPayload(env.event)
    BY DEF BuildEventPayload
  <1>3. Disclosed(BuildEventPayload(env.event)) = {} /\ Render(env.event) = {}
    BY <1>1, <1>2 DEF Disclosed, Render
  <1> QED BY <1>3 DEF Safe, Exposed

\* Sequences of safe envelopes, as the engine puts them together.
LEMMA SafeWithin ==
  ASSUME NEW S, NEW envs \in Seq(S), \A env \in S : Safe(env) PROVE SafeSeq(envs)
  BY Zenon DEF SafeSeq

\* No envelope.
LEMMA SafeNone == SafeSeq(<<>>)
  <1> DEFINE S == {}
             envs == <<>>
  <1>1. envs \in Seq(S)
    OBVIOUS
  <1>2. \A env \in S : Safe(env)
    OBVIOUS
  <1> HIDE DEF S, envs
  <1>3. SafeSeq(envs)
    BY <1>1, <1>2, SafeWithin
  <1> QED BY <1>3 DEF envs

\* One envelope.
LEMMA SafeOne == ASSUME NEW e, Safe(e) PROVE SafeSeq(<<e>>)
  <1> DEFINE S == {e}
             envs == <<e>>
  <1>1. envs \in Seq(S)
    OBVIOUS
  <1>2. \A env \in S : Safe(env)
    OBVIOUS
  <1> HIDE DEF S, envs
  <1>3. SafeSeq(envs)
    BY <1>1, <1>2, SafeWithin
  <1> QED BY <1>3 DEF envs

\* Two envelopes.
LEMMA SafeTwo == ASSUME NEW e, NEW f, Safe(e), Safe(f) PROVE SafeSeq(<<e, f>>)
  <1> DEFINE S == {e, f}
             envs == <<e, f>>
  <1>1. envs \in Seq(S)
    OBVIOUS
  <1>2. \A env \in S : Safe(env)
    OBVIOUS
  <1> HIDE DEF S, envs
  <1>3. SafeSeq(envs)
    BY <1>1, <1>2, SafeWithin
  <1> QED BY <1>3 DEF envs

\* Three envelopes.
LEMMA SafeThree ==
  ASSUME NEW e, NEW f, NEW g, Safe(e), Safe(f), Safe(g) PROVE SafeSeq(<<e, f, g>>)
  <1> DEFINE S == {e, f, g}
             envs == <<e, f, g>>
  <1>1. envs \in Seq(S)
    OBVIOUS
  <1>2. \A env \in S : Safe(env)
    OBVIOUS
  <1> HIDE DEF S, envs
  <1>3. SafeSeq(envs)
    BY <1>1, <1>2, SafeWithin
  <1> QED BY <1>3 DEF envs

\* One sequence after another.
LEMMA SafeJoin ==
  ASSUME NEW s, NEW t, SafeSeq(s), SafeSeq(t) PROVE SafeSeq(s \o t)
  <1>1. PICK S : s \in Seq(S) /\ \A env \in S : Safe(env)
    BY DEF SafeSeq
  <1>2. PICK T : t \in Seq(T) /\ \A env \in T : Safe(env)
    BY DEF SafeSeq
  <1>3. s \in Seq(S \cup T) /\ t \in Seq(S \cup T)
    BY <1>1, <1>2
  <1>4. s \o t \in Seq(S \cup T)
    BY <1>3
  <1>5. \A env \in S \cup T : Safe(env)
    BY <1>1, <1>2
  <1> QED BY <1>4, <1>5, SafeWithin

\* A sequence given envelope by envelope.
LEMMA SafeEach ==
  ASSUME NEW n \in Int, NEW f, f = [i \in 1..n |-> f[i]],
         \A i \in 1..n : Safe(f[i])
  PROVE  SafeSeq(f)
  <1> DEFINE S == {f[i] : i \in 1..n}
  <1>1. PICK m \in Nat : 1..n = 1..m
    <2>1. CASE n >= 0
      BY <2>1
    <2>2. CASE n < 0
      <3>1. 1..n = 1..0
        BY <2>2
      <3> QED BY <3>1
    <2> QED BY <2>1, <2>2
  <1>2. f \in [1..m -> S]
    BY <1>1
  <1>3. \A env \in S : Safe(env)
    OBVIOUS
  <1> HIDE DEF S
  <1>4. f \in Seq(S)
    BY <1>2
  <1> QED BY <1>3, <1>4, SafeWithin

\* onEvent tells no viewer more than the envelopes disclose.
LEMMA DeliverSafe ==
  ASSUME NEW envs, Deliver(envs), SafeSeq(envs), NEW v \in Watchers,
         addressed[v] \subseteq MayKnow(v)'
  PROVE  addressed'[v] \subseteq MayKnow(v)'
  <1>1. addressed'[v] = addressed[v] \cup UNION {Exposed(v, envs[i]) : i \in DOMAIN envs}
    BY DEF Deliver
  <1>2. ASSUME NEW i \in DOMAIN envs PROVE Exposed(v, envs[i]) \subseteq MayKnow(v)'
    <2>1. PICK S : envs \in Seq(S) /\ \A env \in S : Safe(env)
      BY DEF SafeSeq
    <2>2. envs[i] \in S
      BY <2>1
    <2> QED BY <2>1, <2>2 DEF Safe
  <1> QED BY <1>1, <1>2

-----------------------------------------------------------------------------
(* Which envelopes are safe *)

\* A public envelope, with what everybody may know.
LEMMA PublicSafe ==
  ASSUME NEW e, BuildEventPayload(e) = e,
         Disclosed(e) \subseteq PublicSecrets', Render(e) \subseteq PublicSecrets'
  PROVE  Safe(Pub(e))
  <1>1. Pub(e).event = e
    BY DEF Pub
  <1> SUFFICES ASSUME NEW v \in Watchers PROVE Exposed(v, Pub(e)) \subseteq MayKnow(v)'
    BY DEF Safe
  <1>2. Exposed(v, Pub(e)) \subseteq PublicSecrets'
    BY <1>1 DEF Exposed
  <1>3. PublicSecrets' \subseteq MayKnow(v)'
    BY DEF MayKnow
  <1> QED BY <1>2, <1>3

\* A private envelope, with what its player may know.
LEMMA PrivateSafe ==
  ASSUME NEW e, NEW p \in Players, BuildEventPayload(e) = e, Render(e) = {},
         Disclosed(e) \subseteq OwnSecrets(p)'
  PROVE  Safe(Priv(e, p))
  <1>1. /\ Priv(e, p).event = e /\ Priv(e, p).player = p
        /\ Priv(e, p).visibility = "PLAYER"
    BY DEF Priv
  <1> SUFFICES ASSUME NEW v \in Watchers PROVE Exposed(v, Priv(e, p)) \subseteq MayKnow(v)'
    BY DEF Safe
  <1>2. Route(Priv(e, p)) = {p}
    BY <1>1 DEF Route
  <1>3. Exposed(v, Priv(e, p)) = IF v = p THEN Disclosed(e) ELSE {}
    BY <1>1, <1>2 DEF Exposed
  <1>4. OwnSecrets(p)' \subseteq MayKnow(p)'
    BY ViewersAssumption DEF MayKnow, ViewersAssumption
  <1> QED BY <1>3, <1>4

\* An envelope for the mafia, with roles of the mafia.
LEMMA MafiaSafe ==
  ASSUME NEW e, BuildEventPayload(e) = e, Render(e) = {}, alive' \subseteq Players,
         Disclosed(e) \subseteq RolesOf(Mafia')
  PROVE  Safe(MafiaOnly(e))
  <1>1. MafiaOnly(e).event = e /\ MafiaOnly(e).visibility = "ROLE_MAFIA"
    BY DEF MafiaOnly
  <1> SUFFICES ASSUME NEW v \in Watchers PROVE Exposed(v, MafiaOnly(e)) \subseteq MayKnow(v)'
    BY DEF Safe
  <1>2. Route(MafiaOnly(e)) = {p \in alive' : role'[p] = "MAFIA"}
    BY <1>1 DEF Route
  <1>3. CASE v \notin Route(MafiaOnly(e))
    BY <1>1, <1>3 DEF Exposed
  <1>4. CASE v \in Route(MafiaOnly(e))
    <2>1. v \in Players /\ v \in Mafia' /\ v # Screen
      BY <1>2, <1>4, ViewersAssumption DEF Mafia, ViewersAssumption
    <2>2. RolesOf(Mafia') \subseteq OwnSecrets(v)'
      BY <2>1 DEF OwnSecrets, Allies
    <2>3. OwnSecrets(v)' \subseteq MayKnow(v)'
      BY <2>1 DEF MayKnow
    <2>4. Exposed(v, MafiaOnly(e)) = Disclosed(e)
      BY <1>1, <1>4 DEF Exposed
    <2> QED BY <2>2, <2>3, <2>4
  <1> QED BY <1>3, <1>4

\* The public envelopes without secrets.
LEMMA PhaseSafe == ASSUME NEW ph, NEW d, NEW at PROVE Safe(PhaseChanged(ph, d, at))
  BY Harmless DEF PhaseChanged, Pub

\* ... and the announcement of a sub-step.
LEMMA StepSafe == ASSUME NEW st, NEW at PROVE Safe(NightStepChanged(st, at))
  BY Harmless DEF NightStepChanged, Pub

\* ... and of a speaker.
LEMMA SpeakerSafe == ASSUME NEW p PROVE Safe(IntroSpeakerChanged(p))
  BY Harmless DEF IntroSpeakerChanged, Pub

-----------------------------------------------------------------------------
(* The envelopes of each step *)

\* reassignMafiaRepresentative names two mafiosi to the mafia.
LEMMA ReassignSafe ==
  ASSUME TypeOK', phase # "NONE", phase' # "NONE", UNCHANGED role,
         RepresentativeLives, RepresentativeLives', NEW x \in Players
  PROVE  SafeSeq(ReassignEvents(x))
  <1>1. CASE ~(x = rep /\ rep' # NoPlayer)
    BY <1>1, SafeNone DEF ReassignEvents
  <1>2. CASE x = rep /\ rep' # NoPlayer
    <2> DEFINE e == [kind |-> "MafiaRepresentativeReassigned", old |-> rep, new |-> rep']
    <2>1. BuildEventPayload(e) = e /\ Render(e) = {} /\ Disclosed(e) = RolesOf({rep, rep'})
      BY DEF BuildEventPayload, Render, Disclosed
    <2>2. Mafia' = Mafia
      BY DEF Mafia
    <2>3. rep \in Mafia /\ rep' \in Mafia'
      BY <1>2, RosterAssumption DEF RepresentativeLives, RosterAssumption
    <2>4. Disclosed(e) \subseteq RolesOf(Mafia')
      BY <2>1, <2>2, <2>3 DEF RolesOf
    <2>5. ReassignEvents(x) = <<MafiaOnly(e)>>
      BY <1>2 DEF ReassignEvents
    <2>6. alive' \subseteq Players
      BY DEF TypeOK, PlayerType
    <2> HIDE DEF e
    <2>7. Safe(MafiaOnly(e))
      BY <2>1, <2>4, <2>6, MafiaSafe
    <2> QED BY <2>5, <2>7, SafeOne
  <1> QED BY <1>1, <1>2

\* Start reveals to each player the own role, and to the mafia the mafia.
LEMMA StartSafe ==
  ASSUME TypeOK', Start PROVE SafeSeq(StartEvents)
  <1> DEFINE started == Pub([kind |-> "GameStarted", state |-> role'])
             own(p) == [kind |-> "RoleRevealedToPlayer", player |-> p, role |-> role'[p]]
             dealt == [i \in 1..Len(Roster) |-> Priv(own(Roster[i]), Roster[i])]
             cohort == [kind |-> "MafiaCohortRevealed", rep |-> rep',
                        mafia |-> {p \in Players : role'[p] = "MAFIA"}]
             opening == PhaseChanged("INTRO", day', 0)
             first == IntroSpeakerChanged(Roster[1])
  <1>1. StartEvents = <<started>> \o dealt \o <<MafiaOnly(cohort), opening, first>>
    BY DEF StartEvents
  <1>2. Safe(started)
    BY Harmless DEF Pub
  <1>3. ASSUME NEW p \in Players PROVE Safe(Priv(own(p), p))
    <2>1. /\ BuildEventPayload(own(p)) = own(p) /\ Render(own(p)) = {}
          /\ Disclosed(own(p)) = {"ROLE", "KEYWORD"} \X {p}
      BY DEF BuildEventPayload, Render, Disclosed
    <2>2. Disclosed(own(p)) \subseteq OwnSecrets(p)'
      BY <2>1 DEF OwnSecrets
    <2> HIDE DEF own
    <2> QED BY <2>1, <2>2, PrivateSafe
  <1>4. SafeSeq(dealt)
    <2>1. Len(Roster) \in Int /\ \A i \in 1..Len(Roster) : Roster[i] \in Players
      BY RosterAssumption DEF RosterAssumption
    <2>2. \A i \in 1..Len(Roster) : Safe(dealt[i])
      BY <1>3, <2>1
    <2>3. dealt = [i \in 1..Len(Roster) |-> dealt[i]]
      OBVIOUS
    <2> HIDE DEF dealt
    <2> QED BY <2>1, <2>2, <2>3, SafeEach
  <1>5. Safe(MafiaOnly(cohort))
    <2>1. /\ BuildEventPayload(cohort) = cohort /\ Render(cohort) = {}
          /\ Disclosed(cohort) = RolesOf(cohort.mafia)
      BY DEF BuildEventPayload, Render, Disclosed
    <2>2. cohort.mafia = Mafia'
      BY DEF Mafia
    <2>3. alive' \subseteq Players
      BY DEF TypeOK, PlayerType
    <2> HIDE DEF cohort
    <2> QED BY <2>1, <2>2, <2>3, MafiaSafe
  <1>6. Safe(opening) /\ Safe(first)
    BY PhaseSafe, SpeakerSafe
  <1> HIDE DEF started, dealt, cohort, opening, first
  <1>7. SafeSeq(<<started>>)
    BY <1>2, SafeOne
  <1>8. SafeSeq(<<MafiaOnly(cohort), opening, first>>)
    BY <1>5, <1>6, SafeThree
  <1> QED BY <1>1, <1>4, <1>7, <1>8, SafeJoin

\* The speakers and the first morning hold no secret.
LEMMA IntroSafe ==
  ASSUME TypeOK, TypeOK' PROVE SafeSeq(IntroEvents)
  <1> DEFINE n == introIdx' - introIdx
             turns == [i \in 1..n |-> IntroSpeakerChanged(Roster[introIdx + i + 1])]
             morning == IF phase' = "DAY" THEN <<PhaseChanged("DAY", day', deadline')>>
                        ELSE <<>>
  <1>1. IntroEvents = turns \o morning
    BY DEF IntroEvents
  <1>2. n \in Int
    <2>1. introIdx \in 0..(Len(Roster) - 1) /\ introIdx' \in 0..(Len(Roster) - 1)
      BY DEF TypeOK, ClockType
    <2>2. Len(Roster) \in Nat
      BY RosterNonempty
    <2>3. introIdx \in Int /\ introIdx' \in Int
      BY <2>1, <2>2
    <2> QED BY <2>3
  <1>3. turns = [i \in 1..n |-> turns[i]] /\ \A i \in 1..n : Safe(turns[i])
    BY SpeakerSafe
  <1>4. SafeSeq(morning)
    <2>1. Safe(PhaseChanged("DAY", day', deadline'))
      BY PhaseSafe
    <2> QED BY <2>1, SafeOne, SafeNone
  <1> HIDE DEF n, turns, morning
  <1>5. SafeSeq(turns)
    BY <1>2, <1>3, SafeEach
  <1> QED BY <1>1, <1>4, <1>5, SafeJoin

\* Nor do the vote and the nightfall.
LEMMA VoteBeginsSafe == SafeSeq(VoteBegins)
  BY PhaseSafe, SafeOne DEF VoteBegins

\* enterNight tells the phase and the sub-step.
LEMMA EnterNightSafe == SafeSeq(EnterNightEvents)
  BY PhaseSafe, StepSafe, SafeTwo DEF EnterNightEvents

\* The morning tells of the death, and the mafia of their new representative.
LEMMA ResolveSafe ==
  ASSUME TypeOK, TypeOK', RepresentativeLives, RepresentativeLives',
         phase = "NIGHT", ResolveNight
  PROVE  SafeSeq(ResolveEvents)
  <1> DEFINE morning == PhaseChanged("DAY", day', deadline')
             death == Pub([kind |-> "DeathAnnounced", player |-> Victim])
             rest == IF Victim = NoPlayer THEN <<>>
                     ELSE <<death>> \o ReassignEvents(Victim)
  <1>1. ResolveEvents = <<morning>> \o rest
    BY DEF ResolveEvents
  <1>2. Safe(morning) /\ Safe(death)
    BY PhaseSafe, Harmless DEF Pub
  <1>3. phase' = "DAY" /\ UNCHANGED role
    BY DEF ResolveNight
  <1>4. Victim # NoPlayer => Victim \in Players
    BY DEF Victim, TypeOK, PlayerType
  <1> HIDE DEF morning, death
  <1>5. SafeSeq(<<morning>>) /\ SafeSeq(<<death>>)
    BY <1>2, SafeOne
  <1>6. SafeSeq(rest)
    <2>1. CASE Victim = NoPlayer
      BY <2>1, SafeNone
    <2>2. CASE Victim # NoPlayer
      <3>1. SafeSeq(ReassignEvents(Victim))
        BY <1>3, <1>4, <2>2, ReassignSafe
      <3> QED BY <1>5, <2>2, <3>1, SafeJoin
    <2> QED BY <2>1, <2>2
  <1> HIDE DEF rest
  <1> QED BY <1>1, <1>5, <1>6, SafeJoin

\* tickNight announces the sub-steps it passes, and the morning.
LEMMA NightTickSafe ==
  ASSUME TypeOK, TypeOK', RepresentativeLives, RepresentativeLives',
         NightTargetsInStep, NightTargetsInStep', NEW t, TickNight(t)
  PROVE  SafeSeq(NightTickEvents)
  <1> DEFINE last == IF phase' = "DAY" THEN "DOCTOR" ELSE nightStep'
             from == StepIndex(nightStep)
             n == StepIndex(last) - from
             steps == [i \in 1..n |-> NightStepChanged(StepOrder[from + i],
                                                       ChainedDeadline(StepOrder[from + i]))]
             end == IF phase' = "DAY" THEN ResolveEvents ELSE <<>>
  <1>1. NightTickEvents = steps \o end
    BY DEF NightTickEvents
  <1>2. phase = "NIGHT" /\ (phase' = "NIGHT" \/ (phase' = "DAY" /\ ResolveNight))
    BY DEF TickNight, ResolveNight
  <1>3. nightStep \in NightSteps /\ last \in NightSteps
    BY <1>2 DEF NightTargetsInStep, NightSteps
  <1>4. ASSUME NEW st \in NightSteps PROVE StepIndex(st) \in Int
    <2>1. \E i \in 1..4 : StepOrder[i] = st
      BY DEF StepOrder, NightSteps
    <2> QED BY <2>1 DEF StepIndex
  <1> HIDE DEF last
  <1>5. n \in Int
    BY <1>3, <1>4
  <1>6. steps = [i \in 1..n |-> steps[i]] /\ \A i \in 1..n : Safe(steps[i])
    BY StepSafe
  <1>7. SafeSeq(end)
    BY <1>2, ResolveSafe, SafeNone
  <1> HIDE DEF n, steps, end
  <1>8. SafeSeq(steps)
    BY <1>5, <1>6, SafeEach
  <1> QED BY <1>1, <1>7, <1>8, SafeJoin

\* Every ballot of an open election names somebody who lives or was executed, so
\* nobody who died at night is found most voted.
BallotsKnown ==
    phase \in {"VOTE", "RECOUNT"} =>
        \A q \in Players : votes[q] \in {NotVoted, NoPlayer} \cup alive \cup executed

\* A vote reveals the role of the player it eliminates, and no other.
LEMMA EliminationSafe ==
  ASSUME TypeOK', RepresentativeLives, RepresentativeLives', UNCHANGED role,
         phase # "NONE", phase' # "NONE", NEW x \in Players, x \in executed'
  PROVE  SafeSeq(EliminationEvents(x))
  <1> DEFINE e == [kind |-> "Eliminated", player |-> x, role |-> role[x]]
             night == IF EvaluateEnd(alive \ {x}) = "NONE" THEN EnterNightEvents ELSE <<>>
  <1>1. EliminationEvents(x) = <<Pub(e)>> \o ReassignEvents(x) \o night
    BY DEF EliminationEvents
  <1>2. /\ BuildEventPayload(e) = e /\ Render(e) = RolesOf({x})
        /\ Disclosed(e) = RolesOf({x})
    BY DEF BuildEventPayload, Render, Disclosed
  <1>3. RolesOf({x}) \subseteq PublicSecrets'
    BY DEF RolesOf, PublicSecrets
  <1> HIDE DEF e
  <1>4. Safe(Pub(e))
    BY <1>2, <1>3, PublicSafe
  <1>5. SafeSeq(<<Pub(e)>>)
    BY <1>4, SafeOne
  <1>6. SafeSeq(ReassignEvents(x))
    BY ReassignSafe
  <1>7. SafeSeq(night)
    BY EnterNightSafe, SafeNone
  <1> HIDE DEF night
  <1>8. SafeSeq(<<Pub(e)>> \o ReassignEvents(x))
    BY <1>5, <1>6, SafeJoin
  <1> QED BY <1>1, <1>7, <1>8, SafeJoin

\* The player a box holds most ballots for is executed by the step that finds it.
LEMMA FoundIsExecuted ==
  ASSUME TypeOK, BallotsKnown, NEW p \in Players, NEW target, Vote(p, target),
         AllVoted([votes EXCEPT ![p] = target]),
         Cardinality(TopCandidates([votes EXCEPT ![p] = target])) = 1
  PROVE  LET x == CHOOSE x \in TopCandidates([votes EXCEPT ![p] = target]) : TRUE
         IN  x \in Players /\ x \in executed'
  <1> DEFINE v == [votes EXCEPT ![p] = target]
             top == TopCandidates(v)
  <1>1. /\ Tally(v) /\ phase \in {"VOTE", "RECOUNT"}
        /\ target = NoPlayer \/ target \in alive
        /\ executed' = executed \cup (alive \ alive')
    BY DEF Vote, SubmitVote
  <1>2. votes \in [Players -> Players \cup {NoPlayer, NotVoted}]
    BY DEF TypeOK, PlayerType
  <1>3. \A q \in Players : v[q] = votes[q] \/ v[q] = target
    BY <1>2
  <1>4. top \subseteq Players /\ Cardinality(top) = 1
    BY DEF TopCandidates
  <1> HIDE DEF v
  <1>5. IsFiniteSet(top)
    BY <1>4, RosterAssumption, FS_Subset DEF RosterAssumption
  <1>6. \E x : top = {x}
    BY <1>4, <1>5, FS_Singleton
  <1> DEFINE x == CHOOSE x \in top : TRUE
  <1>7. top = {x}
    BY <1>6
  <1>8. x \in top /\ x \in Players
    BY <1>4, <1>7
  <1> HIDE DEF x
  <1>9. alive' = alive \ {x}
    <2>1. ~(Cardinality(top) > 1) /\ top # {}
      BY <1>4, <1>7
    <2>2. PICK y \in top : ApplyElimination(y, v)
      BY <1>1, <2>1 DEF Tally
    <2> QED BY <1>7, <2>2 DEF ApplyElimination
  <1>10. PICK q \in Players : v[q] = x
    BY <1>8, TopAreNamed
  <1>11. x # NoPlayer /\ x # NotVoted
    BY <1>8, RosterAssumption DEF RosterAssumption
  <1>12. x \in alive \cup executed
    BY <1>1, <1>3, <1>10, <1>11 DEF BallotsKnown
  <1> QED BY <1>1, <1>8, <1>9, <1>12 DEF v, x

\* handleVote
LEMMA VoteSafe ==
  ASSUME TypeOK, TypeOK', RepresentativeLives, RepresentativeLives', BallotsKnown,
         NEW p \in Players, NEW target, Vote(p, target)
  PROVE  SafeSeq(VoteEvents(p, target))
  <1> DEFINE v == [votes EXCEPT ![p] = target]
             top == TopCandidates(v)
             x == CHOOSE x \in top : TRUE
             recount == PhaseChanged("RECOUNT", day, 0)
  <1>1. VoteEvents(p, target) =
          IF ~AllVoted(v) THEN <<>>
          ELSE IF Cardinality(top) = 1 THEN EliminationEvents(x)
          ELSE IF top # {} /\ voteRound = 1 THEN <<recount>> ELSE EnterNightEvents
    BY DEF VoteEvents
  <1>2. UNCHANGED role /\ phase # "NONE" /\ phase' # "NONE"
    BY DEF Vote, SubmitVote, Tally, ApplyElimination, EnterNight
  <1>3. AllVoted(v) /\ Cardinality(top) = 1 => x \in Players /\ x \in executed'
    BY FoundIsExecuted
  <1>4. Safe(recount)
    BY PhaseSafe
  <1> HIDE DEF v, top, x, recount
  <1>5. AllVoted(v) /\ Cardinality(top) = 1 => SafeSeq(EliminationEvents(x))
    BY <1>2, <1>3, EliminationSafe
  <1>6. SafeSeq(<<recount>>)
    BY <1>4, SafeOne
  <1> QED BY <1>1, <1>5, <1>6, EnterNightSafe, SafeNone

\* The mafia learn whom their representative chose; they know the representative.
LEMMA TargetSafe ==
  ASSUME TypeOK', NEW p \in Players, NEW q, SubmitMafiaKill(p, q)
  PROVE  SafeSeq(MafiaTargetEvents(q))
  <1> DEFINE e == [kind |-> "MafiaTargetSelected", rep |-> rep, target |-> q]
  <1>1. MafiaTargetEvents(q) = <<MafiaOnly(e)>>
    BY DEF MafiaTargetEvents
  <1>2. /\ BuildEventPayload(e) = e /\ Render(e) = {} /\ Disclosed(e) = RolesOf({rep})
    BY DEF BuildEventPayload, Render, Disclosed
  <1>3. rep \in Mafia'
    BY DEF SubmitMafiaKill, Mafia
  <1>4. RolesOf({rep}) \subseteq RolesOf(Mafia') /\ alive' \subseteq Players
    BY <1>3 DEF RolesOf, TypeOK, PlayerType
  <1> HIDE DEF e
  <1>5. Safe(MafiaOnly(e))
    BY <1>2, <1>4, MafiaSafe
  <1> QED BY <1>1, <1>5, SafeOne

\* The police learn the team of the player who is on their file from now on.
LEMMA PoliceSafe ==
  ASSUME TypeOK, NEW c \in Players, NEW q \in Players, SubmitPoliceCheck(c, q)
  PROVE  SafeSeq(PoliceEvents(c, q))
  <1> DEFINE e == [kind |-> "PoliceResult", target |-> q, team |-> TeamOf(role[q])]
             r == [day |-> day, target |-> q, team |-> TeamOf(role[q])]
  <1>1. PoliceEvents(c, q) = <<Priv(e, c)>>
    BY DEF PoliceEvents
  <1>2. /\ BuildEventPayload(e) = e /\ Render(e) = {} /\ Disclosed(e) = RolesOf({q})
    BY DEF BuildEventPayload, Render, Disclosed
  <1>3. role'[c] = "POLICE" /\ policeHistory' = Append(policeHistory, r)
    BY DEF SubmitPoliceCheck
  <1>4. policeHistory \in Seq(PoliceRecords) /\ r.target = q
    BY DEF TypeOK, RecordType
  <1> HIDE DEF r
  <1>5. \E i \in DOMAIN policeHistory' : policeHistory'[i] = r
    <2>1. /\ Len(policeHistory) + 1 \in DOMAIN policeHistory'
          /\ policeHistory'[Len(policeHistory) + 1] = r
      BY <1>3, <1>4
    <2> QED BY <2>1
  <1>6. q \in Targets(policeHistory')
    BY <1>4, <1>5 DEF Targets
  <1>7. RolesOf({q}) \subseteq OwnSecrets(c)'
    <2>1. RolesOf({q}) \subseteq RolesOf(Targets(policeHistory'))
      BY <1>6 DEF RolesOf
    <2>2. Targets(policeHistory') = Targets(policeHistory)'
      BY DEF Targets
    <2> QED BY <1>3, <2>1, <2>2 DEF OwnSecrets, RolesOf
  <1> HIDE DEF e
  <1>8. Safe(Priv(e, c))
    BY <1>2, <1>7, PrivateSafe
  <1> QED BY <1>1, <1>8, SafeOne

\* The pause and the resumption hold no secret.
LEMMA PauseSafe == SafeSeq(PausedEvents) /\ SafeSeq(ResumedEvents)
  <1> DEFINE away == Pub([kind |-> "GamePaused"])
             back == Pub([kind |-> "GameResumed", phase |-> phase,
                          deadline |-> CASE phase = "DAY" -> deadline'
                                         [] phase = "NIGHT" -> nightStepDeadline'
                                         [] OTHER -> 0])
  <1>1. away.event.kind = "GamePaused" /\ back.event.kind = "GameResumed"
    BY DEF Pub
  <1>2. PausedEvents = <<away>> /\ ResumedEvents = <<back>>
    BY DEF PausedEvents, ResumedEvents
  <1> HIDE DEF away, back
  <1>3. Safe(away) /\ Safe(back)
    BY <1>1, Harmless
  <1> QED BY <1>2, <1>3, SafeOne

\* The end reveals everything, to everybody.
LEMMA EndSafe == ASSUME phase' = "END" PROVE SafeSeq(EndEvents)
  <1> DEFINE e == [kind |-> "GameEnded", winner |-> winner', reason |-> endReason',
                   reveal |-> role, survivors |-> alive]
  <1>1. EndEvents = <<Pub(e)>>
    BY DEF EndEvents
  <1>2. BuildEventPayload(e) = e /\ Render(e) = {} /\ Disclosed(e) = Secrets
    BY DEF BuildEventPayload, Render, Disclosed
  <1>3. Secrets \subseteq PublicSecrets'
    BY DEF PublicSecrets
  <1> HIDE DEF e
  <1>4. Safe(Pub(e))
    BY <1>2, <1>3, PublicSafe
  <1> QED BY <1>1, <1>4, SafeOne

\* Tick, by the branch it takes.
LEMMA TickSafe ==
  ASSUME TypeOK, TypeOK', RepresentativeLives, RepresentativeLives',
         NightTargetsInStep, NightTargetsInStep', NEW t, Tick(t)
  PROVE  SafeSeq(TickEvents(t))
  <1>1. CASE paused \/ StaleTick(t)
    BY <1>1, SafeNone DEF TickEvents
  <1>2. CASE ~(paused \/ StaleTick(t)) /\ EndDue(t)
    <2>1. TickEvents(t) = EndEvents
      BY <1>2 DEF TickEvents
    <2>2. phase' = "END"
      BY <1>2 DEF Tick, FirePendingEnd
    <2> QED BY <2>1, <2>2, EndSafe
  <1>3. CASE ~(paused \/ StaleTick(t)) /\ ~EndDue(t)
    <2>1. TickEvents(t) = CASE phase = "INTRO" -> IntroEvents
                            [] phase = "DAY" -> IF phase' = "VOTE" THEN VoteBegins ELSE <<>>
                            [] phase = "NIGHT" -> NightTickEvents
                            [] OTHER -> <<>>
      BY <1>3 DEF TickEvents
    <2>2. phase = "NIGHT" => SafeSeq(NightTickEvents)
      BY <1>3, NightTickSafe DEF Tick, FirePendingEnd, TickIntro, TickDay, TickIdle
    <2> QED BY <2>1, <2>2, IntroSafe, VoteBeginsSafe, SafeNone
  <1> QED BY <1>1, <1>2, <1>3

-----------------------------------------------------------------------------
(* The ballot box *)

\* An open election was opened by this step, is left alone by it, or gets a ballot.
LEMMA BoxCases ==
  ASSUME EngineStep, phase' \in {"VOTE", "RECOUNT"}
  PROVE  \/ \E p \in Players, target \in Ballots : Vote(p, target)
         \/ /\ UNCHANGED executed
            /\ votes' = EmptyVotes \/ UNCHANGED <<phase, alive, votes>>
  <1> DEFINE Kept == votes' = EmptyVotes \/ UNCHANGED <<phase, alive, votes>>
  <1> USE DEF voteVars, Quietly
  <1>1. CASE Start
    BY <1>1 DEF Start
  <1>2. CASE Command
    <2>1. NextSpeaker => Kept
      BY DEF NextSpeaker, TransitionIntroToDay
    <2>2. ASSUME NEW p, NEW q
          PROVE  SubmitMafiaKill(p, q) \/ SubmitDoctorHeal(p, q)
                   \/ SubmitPoliceCheck(p, q) => Kept
      BY DEF SubmitMafiaKill, SubmitDoctorHeal, SubmitPoliceCheck
    <2>3. ResolveNight => Kept
      BY DEF ResolveNight
    <2>4. ASSUME NEW h PROVE EndDiscussionEarly(h) => Kept
      BY DEF EndDiscussionEarly, TransitionDayToVote
    <2>5. ASSUME NEW h PROVE PauseGame(h) \/ ResumeGame(h) => Kept
      BY DEF PauseGame, ResumeGame
    <2>6. ASSUME NEW h PROVE ForceEndGame(h) => Kept
      BY DEF ForceEndGame
    <2>7. ASSUME NEW h, NEW on PROVE ToggleVoice(h, on) => Kept
      BY DEF ToggleVoice
    <2> HIDE DEF Kept
    <2>8. (\E p \in Players, target \in Ballots : Vote(p, target))
             \/ (UNCHANGED executed /\ Kept)
      BY <1>2, <2>1, <2>2, <2>3, <2>4, <2>5, <2>6, <2>7
      DEF Command, EndSelfIntro, AdvanceIntro, EndNightEarly
    <2> QED BY <2>8 DEF Kept
  <1>3. ASSUME NEW t, Ticker(t), Quietly(TickEvents(t)) PROVE UNCHANGED executed /\ Kept
    BY <1>3 DEF Ticker, Tick, vars, FirePendingEnd, TickIntro, TransitionIntroToDay,
       TickDay, TransitionDayToVote, TickNight, ResolveNight, TickIdle
  <1>4. CASE AdvanceClock /\ Quietly(<<>>)
    BY <1>4 DEF AdvanceClock
  <1> QED BY <1>1, <1>2, <1>3, <1>4 DEF EngineStep

\* No step puts a ballot for a stranger into the box.
LEMMA BallotsKnownStep ==
  ASSUME TypeOK, BallotsKnown, [ViewNext]_allVars PROVE BallotsKnown'
  <1> SUFFICES ASSUME phase' \in {"VOTE", "RECOUNT"}, NEW q \in Players
               PROVE  votes'[q] \in {NotVoted, NoPlayer} \cup alive' \cup executed'
    BY DEF BallotsKnown
  <1>1. EmptyVotes[q] = NotVoted
    BY DEF EmptyVotes
  <1>2. ASSUME UNCHANGED <<phase, alive, votes, executed>>
        PROVE  votes'[q] \in {NotVoted, NoPlayer} \cup alive' \cup executed'
    BY <1>2 DEF BallotsKnown
  <1>3. ASSUME NEW p \in Players, NEW target, Vote(p, target)
        PROVE  votes'[q] \in {NotVoted, NoPlayer} \cup alive' \cup executed'
    <2> DEFINE v == [votes EXCEPT ![p] = target]
    <2>1. /\ phase \in {"VOTE", "RECOUNT"} /\ target \in alive \cup {NoPlayer}
          /\ executed' = executed \cup (alive \ alive')
          /\ votes' = v \/ Tally(v)
      BY <1>3 DEF Vote, SubmitVote
    <2>2. v[q] = votes[q] \/ v[q] = target
      BY DEF TypeOK, PlayerType
    <2> HIDE DEF v
    <2>3. votes' = v \/ votes' = EmptyVotes
      BY <2>1 DEF Tally, ApplyElimination, EnterNight
    <2> QED BY <1>1, <2>1, <2>2, <2>3 DEF BallotsKnown
  <1>4. CASE EngineStep
    BY <1>1, <1>2, <1>3, <1>4, BoxCases
  <1>5. CASE ~EngineStep
    <2>1. UNCHANGED <<vars, executed>>
      BY <1>5 DEF ViewNext, PushRoomState, Drop, ResumePlayer, allVars, viewVars
    <2> QED BY <1>2, <2>1 DEF vars, voteVars
  <1> QED BY <1>4, <1>5

-----------------------------------------------------------------------------
(* Nobody forgets, and nobody learns too much *)

\* Before the game nobody was told anything; from then on nobody was told what
\* the rules had not revealed by then.
SecretsInv ==
    /\ BallotsKnown
    /\ phase = "NONE" => \A v \in Watchers : addressed[v] = {}
    /\ \A v \in Watchers : addressed[v] \subseteq MayKnow(v)

\* What was revealed during a game stays revealed.
LEMMA KnowledgeGrows ==
  ASSUME TypeOK, [ViewNext]_allVars, phase # "NONE", NEW v \in Watchers
  PROVE  MayKnow(v) \subseteq MayKnow(v)'
  <1>1. executed \subseteq executed'
    <2>1. CASE EngineStep
      BY <2>1 DEF EngineStep, Command, Vote, Quietly
    <2>2. CASE ~EngineStep
      BY <2>2 DEF ViewNext, PushRoomState, Drop, ResumePlayer, allVars, viewVars
    <2> QED BY <2>1, <2>2
  <1>2. /\ UNCHANGED role
        /\ phase = "END" => phase' = "END"
        /\ \/ UNCHANGED policeHistory
           \/ \E c, q \in Players : SubmitPoliceCheck(c, q)
    BY EngineTakesPart, TurnCases
    DEF Start, ResolveNight, Execution, Elimination, Hold, Turn, Finish, GameKept
  <1>3. Targets(policeHistory) \subseteq Targets(policeHistory')
    <2>1. policeHistory \in Seq(PoliceRecords)
      BY DEF TypeOK, RecordType
    <2>2. ASSUME NEW c \in Players, NEW q \in Players, SubmitPoliceCheck(c, q)
          PROVE  \A i \in DOMAIN policeHistory :
                    i \in DOMAIN policeHistory' /\ policeHistory'[i] = policeHistory[i]
      BY <2>1, <2>2 DEF SubmitPoliceCheck
    <2> QED BY <1>2, <2>2 DEF Targets
  <1>4. PublicSecrets \subseteq PublicSecrets'
    BY <1>1, <1>2 DEF PublicSecrets, RolesOf
  <1>5. Allies(v)' = Allies(v)
    BY <1>2 DEF Allies, Mafia
  <1>6. Targets(policeHistory)' = Targets(policeHistory')
    BY DEF Targets
  <1>7. OwnSecrets(v) \subseteq OwnSecrets(v)'
    BY <1>2, <1>3, <1>5, <1>6 DEF OwnSecrets, RolesOf
  <1> QED BY <1>4, <1>7 DEF MayKnow

\* A step and its deliveries tell v nothing beyond that.
LEMMA NothingLeaks ==
  ASSUME TypeOK, TypeOK', RepresentativeLives, RepresentativeLives',
         NightTargetsInStep, NightTargetsInStep', BallotsKnown, EngineStep,
         NEW v \in Watchers, addressed[v] \subseteq MayKnow(v)'
  PROVE  addressed'[v] \subseteq MayKnow(v)'
  <1> USE DEF Quietly
  <1>1. CASE Start /\ Quietly(StartEvents)
    BY <1>1, StartSafe, DeliverSafe
  <1>2. CASE AdvanceClock /\ Quietly(<<>>)
    BY <1>2, SafeNone, DeliverSafe
  <1>3. ASSUME NEW t, Ticker(t), Quietly(TickEvents(t))
        PROVE  addressed'[v] \subseteq MayKnow(v)'
    BY <1>3, TickSafe, DeliverSafe DEF Ticker
  <1>4. ASSUME NEW p \in Players, NEW target, Vote(p, target)
        PROVE  addressed'[v] \subseteq MayKnow(v)'
    BY <1>4, VoteSafe, DeliverSafe DEF Vote
  <1>5. ASSUME NEW p \in Players, NEW q \in Players,
               \/ SubmitMafiaKill(p, q) /\ Quietly(MafiaTargetEvents(q))
               \/ SubmitDoctorHeal(p, q) /\ Quietly(<<>>)
               \/ SubmitPoliceCheck(p, q) /\ Quietly(PoliceEvents(p, q))
        PROVE  addressed'[v] \subseteq MayKnow(v)'
    BY <1>5, TargetSafe, PoliceSafe, SafeNone, DeliverSafe
  <1>6. ASSUME NEW h,
               \/ AdvanceIntro(h) /\ Quietly(IntroEvents)
               \/ EndNightEarly(h) /\ Quietly(ResolveEvents)
               \/ EndDiscussionEarly(h) /\ Quietly(VoteBegins)
               \/ PauseGame(h) /\ Quietly(PausedEvents)
               \/ ResumeGame(h) /\ Quietly(ResumedEvents)
               \/ ForceEndGame(h) /\ Quietly(EndEvents)
               \/ \E on \in VoiceInputs : ToggleVoice(h, on) /\ Quietly(<<>>)
        PROVE  addressed'[v] \subseteq MayKnow(v)'
    <2>1. EndNightEarly(h) => SafeSeq(ResolveEvents)
      BY ResolveSafe DEF EndNightEarly
    <2>2. ForceEndGame(h) => SafeSeq(EndEvents)
      BY EndSafe DEF ForceEndGame
    <2> QED BY <1>6, <2>1, <2>2, IntroSafe, VoteBeginsSafe, PauseSafe, SafeNone, DeliverSafe
  <1>7. ASSUME Quietly(IntroEvents) PROVE addressed'[v] \subseteq MayKnow(v)'
    BY <1>7, IntroSafe, DeliverSafe
  <1> QED BY <1>1, <1>2, <1>3, <1>4, <1>5, <1>6, <1>7 DEF EngineStep, Command

\* Every step keeps the secrets, however connections come and go.
LEMMA SecretsStep ==
  ASSUME TypeOK, TypeOK', RepresentativeLives, RepresentativeLives',
         NightTargetsInStep, NightTargetsInStep', SecretsInv, [ViewNext]_allVars
  PROVE  SecretsInv'
  <1>1. BallotsKnown'
    BY BallotsKnownStep DEF SecretsInv
  <1>2. CASE EngineStep
    <2>1. phase' # "NONE"
      <3>1. phase = "NONE" => Start
        BY <1>2 DEF EngineStep, Command, Ticker, AdvanceClock
      <3>2. Start => phase' = "INTRO"
        BY DEF Start
      <3> QED
        BY <3>1, <3>2, EngineTakesPart, TurnCases
        DEF ResolveNight, Execution, Elimination, Hold, Turn, Finish
    <2>2. ASSUME NEW v \in Watchers PROVE addressed'[v] \subseteq MayKnow(v)'
      <3>1. addressed[v] \subseteq MayKnow(v)'
        BY KnowledgeGrows DEF SecretsInv
      <3> QED BY <1>2, <3>1, NothingLeaks DEF SecretsInv
    <2> QED BY <1>1, <2>1, <2>2 DEF SecretsInv
  <1>3. CASE ~EngineStep
    <2>1. UNCHANGED <<vars, addressed, executed>>
      BY <1>3 DEF ViewNext, PushRoomState, Drop, ResumePlayer, allVars, viewVars
    <2>2. UNCHANGED <<phase, role, policeHistory>>
      BY <2>1 DEF vars
    <2>3. ASSUME NEW v \in Watchers PROVE MayKnow(v)' = MayKnow(v)
      BY <2>1, <2>2 DEF MayKnow, PublicSecrets, OwnSecrets, Allies, Mafia, Targets
    <2> QED BY <1>1, <2>1, <2>2, <2>3 DEF SecretsInv
  <1> QED BY <1>2, <1>3

\* Nobody is told a secret before it is revealed, over a whole game.
LEMMA SecretsHold == ViewSpec => []SecretsInv
  <1>1. ViewInit => SecretsInv
    BY DEF ViewInit, Init, SecretsInv, BallotsKnown
  <1>2. TypeOK /\ RepresentativeLives /\ NightTargetsInStep
          /\ TypeOK' /\ RepresentativeLives' /\ NightTargetsInStep'
          /\ SecretsInv /\ [ViewNext]_allVars => SecretsInv'
    BY SecretsStep
  <1> QED
    BY <1>1, <1>2, EngineRuns, TypeCorrect, RepresentativeAlwaysLives,
       TargetsStayInStep, PTL DEF ViewSpec

\* BuildPrivateView shows p its own secrets and the revealed ones, and all of them;
\* of the others it names the representative.
LEMMA ViewIsOwn ==
  ASSUME TypeOK, NEW p \in Players
  PROVE  /\ ViewSecrets(p) \subseteq PublicSecrets \cup OwnSecrets(p) \cup RolesOf(NamedMafia)
         /\ phase # "NONE" => OwnSecrets(p) \subseteq PublicSecrets \cup ViewSecrets(p)
  <1>1. Targets(policeHistory) \subseteq Players
    <2>1. policeHistory \in Seq(PoliceRecords)
      BY DEF TypeOK, RecordType
    <2>2. \A i \in DOMAIN policeHistory : policeHistory[i] \in PoliceRecords
      BY <2>1
    <2> QED BY <2>2 DEF Targets, PoliceRecords
  <1>2. Targets(<<>>) = {}
    BY DEF Targets
  <1>3. Targets(HistoryFor(p)) = IF role[p] = "POLICE" THEN Targets(policeHistory) ELSE {}
    BY <1>2 DEF HistoryFor
  <1>4. Allies(p) \subseteq Players
    BY DEF Allies, Mafia
  <1>5. CASE phase = "NONE"
    BY <1>5 DEF ViewSecrets
  <1>6. CASE phase = "END"
    BY <1>1, <1>3, <1>4, <1>6
    DEF ViewSecrets, UnmaskedRoles, PublicSecrets, OwnSecrets, RolesOf, Secrets
  <1>7. CASE phase \notin {"NONE", "END"}
    BY <1>3, <1>7 DEF ViewSecrets, UnmaskedRoles, OwnSecrets, RolesOf
  <1> QED BY <1>5, <1>6, <1>7

\* The roles stay hidden, for any number of players and any length of game: no
\* event routed by routeEvent and no announcement gives a viewer a role or keyword
\* that the rules have not revealed to that viewer by then, and a private view gives
\* none besides the role of the representative, who is named in all of them.
THEOREM SecretsAreKept == ViewSpec => []KeepsSecrets
  <1>1. TypeOK /\ SecretsInv => KeepsSecrets
    BY ViewIsOwn, ViewersAssumption
    DEF SecretsInv, MayKnow, KeepsSecrets, Watchers, ViewersAssumption
  <1> QED BY <1>1, SecretsHold, EngineRuns, TypeCorrect, PTL

\* Nothing private is lost for good: the private view that answers a resume holds
\* every secret that was ever routed to the player, connected or not.
THEOREM ResumesRestore == ViewSpec => []ResumeRestores
  <1>1. TypeOK /\ SecretsInv => ResumeRestores
    BY ViewIsOwn, ViewersAssumption
    DEF SecretsInv, MayKnow, ResumeRestores, Watchers, ViewersAssumption
  <1> QED BY <1>1, SecretsHold, EngineRuns, TypeCorrect, PTL

-----------------------------------------------------------------------------
(* Induction *)

\* A set of naturals has a least element.
LEMMA LeastNumber ==
  ASSUME NEW T, T \subseteq Nat, T # {}
  PROVE  \E m \in T : \A k \in T : m <= k
  <1>1. PICK m \in T : \A k \in T : ~(<<k, m>> \in OpToRel(<, Nat))
    BY NatLessThanWellFounded, WFMin
  <1>2. \A k \in T : ~(k < m)
    BY <1>1 DEF OpToRel
  <1>3. \A k \in T : k \in Nat
    OBVIOUS
  <1>4. m \in T /\ \A k \in T : m <= k
    BY <1>2, <1>3
  <1> QED BY <1>4

\* Induction up to n, for a set instead of a predicate.
LEMMA SetInduction ==
  ASSUME NEW n \in Nat, NEW S, 0 \in S, \A k \in 0..(n - 1) : k \in S => k + 1 \in S
  PROVE  0..n \subseteq S
  <1> SUFFICES ASSUME NEW j \in 0..n, j \notin S PROVE FALSE
    OBVIOUS
  <1> DEFINE T == {k \in 0..n : k \notin S}
  <1>1. T \subseteq Nat /\ T # {}
    OBVIOUS
  <1>2. PICK m \in T : \A k \in T : m <= k
    BY <1>1, LeastNumber
  <1>3. m # 0 /\ m \in 0..n /\ m \notin S
    BY <1>2
  <1>4. m - 1 \in 0..(n - 1) /\ m - 1 \in S
    BY <1>2, <1>3
  <1> QED BY <1>3, <1>4

-----------------------------------------------------------------------------
(* What the reducers make of a sequence of envelopes *)

\* What the reducer of a connected client makes of an envelope, if the client gets
\* the envelopes of v: a player, or Screen for a PUBLIC client.
Reduce(v, m, env) ==
    IF v \in Route(env) THEN ApplyEvent(m, BuildEventPayload(env.event)) ELSE m

\* The copies it passes through, from m on.
Passes(v, m, envs, seen) ==
    /\ seen[0] = m
    /\ \A i \in 1..Len(envs) : seen[i] = Reduce(v, seen[i - 1], envs[i])

\* A reducer that gets v's envelopes takes m to n by those of a step.
Becomes(v, m, envs, n) == \E seen : Passes(v, m, envs, seen) /\ seen[Len(envs)] = n

\* The recursive function of ReduceCopies is defined.
LEMMA ReducersRun ==
  ASSUME NEW envs, Len(envs) \in Nat, ReduceCopies(envs), NEW c \in Watchers,
         c \in linked, NEW v, v = Identity(c)
  PROVE  Becomes(v, copy[c], envs, copy'[c])
  <1>0. ASSUME NEW m, NEW env PROVE Receive(c, m, env) = Reduce(v, m, env)
    BY DEF Receive, Reduce
  <1> DEFINE n == Len(envs)
             Following(g, k) == [i \in 0..k |->
                IF i = 0 THEN copy[c] ELSE Receive(c, g[i - 1], envs[i])]
             S == {k \in 0..n : \E g : g = Following(g, k)}
  <1>1. 0 \in S
    <2> DEFINE g == [i \in 0..0 |-> copy[c]]
    <2>1. g = Following(g, 0)
      OBVIOUS
    <2>2. 0 \in 0..n
      OBVIOUS
    <2> HIDE DEF g, Following
    <2> QED BY <2>1, <2>2
  <1>2. ASSUME NEW k \in 0..(n - 1), k \in S PROVE k + 1 \in S
    <2>1. PICK g : g = Following(g, k)
      BY <1>2
    <2> DEFINE h == [i \in 0..(k + 1) |->
                       IF i = k + 1 THEN Receive(c, g[k], envs[k + 1]) ELSE g[i]]
    <2>2. h = Following(h, k + 1)
      <3>1. ASSUME NEW i \in 0..(k + 1) PROVE h[i] = Following(h, k + 1)[i]
        <4>1. CASE i = 0
          BY <2>1, <4>1
        <4>2. CASE i = k + 1
          BY <2>1, <4>2
        <4>3. CASE i \in 1..k
          <5>1. h[i] = g[i] /\ h[i - 1] = g[i - 1]
            BY <4>3
          <5>2. g[i] = Receive(c, g[i - 1], envs[i])
            BY <2>1, <4>3
          <5> QED BY <5>1, <5>2, <4>3
        <4> QED BY <4>1, <4>2, <4>3
      <3> QED BY <3>1
    <2>3. k + 1 \in 0..n
      OBVIOUS
    <2> HIDE DEF h, Following
    <2> QED BY <2>2, <2>3
  <1>3. n \in S
    <2> HIDE DEF S
    <2>1. 0..n \subseteq S
      BY <1>1, <1>2, SetInduction
    <2> QED BY <2>1
  <1> DEFINE seen[i \in 0..n] ==
               IF i = 0 THEN copy[c] ELSE Receive(c, seen[i - 1], envs[i])
  <1>4. seen = Following(seen, n)
    <2>1. \E g : g = Following(g, n)
      BY <1>3
    <2> QED BY <2>1
  <1>5. copy'[c] = seen[n]
    BY DEF ReduceCopies
  <1>6. Passes(v, copy[c], envs, seen)
    <2> HIDE DEF seen
    <2> QED BY <1>0, <1>4 DEF Passes
  <1> HIDE DEF seen
  <1> QED BY <1>5, <1>6 DEF Becomes

\* No envelope.
LEMMA BecomesNone == ASSUME NEW v, NEW m, NEW n, Becomes(v, m, <<>>, n) PROVE n = m
  BY DEF Becomes, Passes

\* One envelope.
LEMMA BecomesOne ==
  ASSUME NEW v, NEW m, NEW n, NEW e, Becomes(v, m, <<e>>, n) PROVE n = Reduce(v, m, e)
  BY DEF Becomes, Passes

\* Two sequences, one after the other: the reducer stops in between.
LEMMA BecomesJoin ==
  ASSUME NEW v, NEW m, NEW n, NEW s, NEW t, Len(s) \in Nat, Len(t) \in Nat,
         Becomes(v, m, s \o t, n)
  PROVE  \E k : Becomes(v, m, s, k) /\ Becomes(v, k, t, n)
  <1>1. PICK seen : Passes(v, m, s \o t, seen) /\ seen[Len(s \o t)] = n
    BY DEF Becomes
  <1>2. /\ Len(s \o t) = Len(s) + Len(t)
        /\ \A i \in 1..Len(s) : (s \o t)[i] = s[i]
        /\ \A i \in 1..Len(t) : (s \o t)[Len(s) + i] = t[i]
    OBVIOUS
  <1> DEFINE rest == [i \in 0..Len(t) |-> seen[Len(s) + i]]
  <1>3. Passes(v, m, s, seen)
    BY <1>1, <1>2 DEF Passes
  <1>4. Passes(v, seen[Len(s)], t, rest)
    <2>1. rest[0] = seen[Len(s)]
      OBVIOUS
    <2>2. ASSUME NEW i \in 1..Len(t) PROVE rest[i] = Reduce(v, rest[i - 1], t[i])
      <3>1. /\ rest[i] = seen[Len(s) + i] /\ rest[i - 1] = seen[Len(s) + i - 1]
            /\ Len(s) + i \in 1..Len(s \o t)
        BY <1>2
      <3>2. seen[Len(s) + i] = Reduce(v, seen[Len(s) + i - 1], (s \o t)[Len(s) + i])
        BY <1>1, <3>1 DEF Passes
      <3> QED BY <1>2, <3>1, <3>2
    <2> QED BY <2>1, <2>2 DEF Passes
  <1>5. rest[Len(t)] = n
    BY <1>1, <1>2
  <1> HIDE DEF rest
  <1>6. Becomes(v, m, s, seen[Len(s)]) /\ Becomes(v, seen[Len(s)], t, n)
    BY <1>3, <1>4, <1>5 DEF Becomes
  <1> QED BY <1>6

\* Two envelopes.
LEMMA BecomesTwo ==
  ASSUME NEW v, NEW m, NEW n, NEW e, NEW f, Becomes(v, m, <<e, f>>, n)
  PROVE  n = Reduce(v, Reduce(v, m, e), f)
  BY DEF Becomes, Passes

\* Three envelopes.
LEMMA BecomesThree ==
  ASSUME NEW v, NEW m, NEW n, NEW e, NEW f, NEW g, Becomes(v, m, <<e, f, g>>, n)
  PROVE  n = Reduce(v, Reduce(v, Reduce(v, m, e), f), g)
  BY DEF Becomes, Passes

-----------------------------------------------------------------------------
(* What an envelope does to a copy *)

Fields == {"phase", "day", "deadline", "nightStep", "nightStepDeadline", "paused",
           "players", "alive", "speaker", "your", "cohort", "rep",
           "policeChecked", "policeHistory", "winner", "reason"}

\* A record with the fields of a copy.
IsCopy(m) == DOMAIN m = Fields /\ m = [f \in Fields |-> m[f]]

\* n is m but for the fields F.
Same(m, n, F) == \A f \in Fields \ F : n[f] = m[f]

PhaseFields == {"phase", "day", "deadline", "nightStep", "nightStepDeadline",
                "policeChecked"}

\* What two changes leave alone, both together leave alone.
LEMMA SameKept ==
  ASSUME NEW m, NEW k, NEW n, NEW F, Same(m, k, F), Same(k, n, F) PROVE Same(m, n, F)
  BY DEF Same

\* What each event changes.
NewPhase(m, n, ph, d, at) ==
    /\ IsCopy(n) /\ Same(m, n, PhaseFields)
    /\ n.phase = ph /\ n.day = d /\ n.deadline = at
    /\ n.nightStep = "NONE" /\ n.nightStepDeadline = 0 /\ n.policeChecked = FALSE

NewStep(m, n, s, at) ==
    /\ IsCopy(n) /\ Same(m, n, {"nightStep", "nightStepDeadline"})
    /\ n.nightStep = s /\ n.nightStepDeadline = at

NewSpeaker(m, n, i) == IsCopy(n) /\ Same(m, n, {"speaker"}) /\ n.speaker = i

Buried(m, n, x) == IsCopy(n) /\ Same(m, n, {"alive"}) /\ n.alive = m.alive \ {x}

NewRep(m, n, r) == IsCopy(n) /\ Same(m, n, {"rep"}) /\ n.rep = r

\* A public envelope reaches every connected client.
LEMMA PublicReceived ==
  ASSUME NEW v \in Watchers, NEW m, NEW e,
         e.kind # "GameStarted"
  PROVE  Reduce(v, m, Pub(e)) = ApplyEvent(m, e)
  <1>1. Pub(e).event = e /\ Pub(e).visibility = "PUBLIC"
    BY DEF Pub
  <1> QED BY <1>1 DEF Reduce, Route, BuildEventPayload

\* PhaseChanged sets the phase with its day and deadline and stops the night's timer.
LEMMA PhaseReceived ==
  ASSUME NEW v \in Watchers, NEW m, IsCopy(m), NEW ph, NEW d, NEW at,
         NEW n, n = Reduce(v, m, PhaseChanged(ph, d, at))
  PROVE  NewPhase(m, n, ph, d, at)
  <1>1. n = [m EXCEPT !.phase = ph, !.day = d, !.deadline = at, !.nightStep = "NONE",
                      !.nightStepDeadline = 0, !.policeChecked = FALSE]
    <2> DEFINE e == [kind |-> "PhaseChanged", phase |-> ph, day |-> d, deadline |-> at]
    <2>1. /\ PhaseChanged(ph, d, at) = Pub(e) /\ e.kind = "PhaseChanged"
          /\ e.phase = ph /\ e.day = d /\ e.deadline = at
      BY DEF PhaseChanged
    <2> HIDE DEF e
    <2>2. n = ApplyEvent(m, e)
      BY <2>1, PublicReceived
    <2>3. ApplyEvent(m, e) = ApplyPhaseChanged(m, e)
      BY <2>1 DEF ApplyEvent
    <2> QED BY <2>1, <2>2, <2>3 DEF ApplyPhaseChanged
  <1> QED BY <1>1 DEF NewPhase, IsCopy, Same, Fields, PhaseFields

\* NightStepChanged sets the sub-step with its deadline.
LEMMA StepReceived ==
  ASSUME NEW v \in Watchers, NEW m, IsCopy(m), NEW s, NEW at,
         NEW n, n = Reduce(v, m, NightStepChanged(s, at))
  PROVE  NewStep(m, n, s, at)
  <1>1. n = [m EXCEPT !.nightStep = s, !.nightStepDeadline = at]
    <2> DEFINE e == [kind |-> "NightStepChanged", step |-> s, deadline |-> at]
    <2>1. /\ NightStepChanged(s, at) = Pub(e) /\ e.kind = "NightStepChanged"
          /\ e.step = s /\ e.deadline = at
      BY DEF NightStepChanged
    <2> HIDE DEF e
    <2>2. n = ApplyEvent(m, e)
      BY <2>1, PublicReceived
    <2> QED BY <2>1, <2>2 DEF ApplyEvent
  <1> QED BY <1>1 DEF NewStep, IsCopy, Same, Fields

\* IntroSpeakerChanged moves the turn to the seat of the player it names.
LEMMA SpeakerReceived ==
  ASSUME NEW v \in Watchers, NEW m, IsCopy(m), NEW p,
         NEW n, n = Reduce(v, m, IntroSpeakerChanged(p))
  PROVE  NewSpeaker(m, n, SpeakerIndex(m, p))
  <1>1. n = [m EXCEPT !.speaker = SpeakerIndex(m, p)]
    <2> DEFINE e == [kind |-> "IntroSpeakerChanged", player |-> p]
    <2>1. /\ IntroSpeakerChanged(p) = Pub(e) /\ e.kind = "IntroSpeakerChanged"
          /\ e.player = p
      BY DEF IntroSpeakerChanged
    <2> HIDE DEF e
    <2>2. n = ApplyEvent(m, e)
      BY <2>1, PublicReceived
    <2> QED BY <2>1, <2>2 DEF ApplyEvent
  <1> QED BY <1>1 DEF NewSpeaker, IsCopy, Same, Fields

\* DeathAnnounced and Eliminated strike the player off the living.
LEMMA DeathReceived ==
  ASSUME NEW v \in Watchers, NEW m, IsCopy(m), NEW e,
         e.kind \in {"DeathAnnounced", "Eliminated"},
         NEW n, n = Reduce(v, m, Pub(e))
  PROVE  Buried(m, n, e.player)
  <1>1. n = [m EXCEPT !.alive = @ \ {e.player}]
    BY PublicReceived DEF ApplyEvent
  <1> QED BY <1>1 DEF Buried, IsCopy, Same, Fields

\* A mafia envelope reaches the connected mafiosi who live after the step.
LEMMA MafiaReceived ==
  ASSUME NEW v, NEW m, NEW e, e.kind # "GameStarted"
  PROVE  Reduce(v, m, MafiaOnly(e)) =
           IF v \in {p \in alive' : role'[p] = "MAFIA"} THEN ApplyEvent(m, e) ELSE m
  <1>1. MafiaOnly(e).event = e /\ MafiaOnly(e).visibility = "ROLE_MAFIA"
    BY DEF MafiaOnly
  <1> QED BY <1>1 DEF Reduce, Route, BuildEventPayload

\* A private envelope reaches its player.
LEMMA PrivateReceived ==
  ASSUME NEW v, NEW m, NEW e, e.kind # "GameStarted", NEW p
  PROVE  Reduce(v, m, Priv(e, p)) = IF v = p THEN ApplyEvent(m, e) ELSE m
  <1>1. /\ Priv(e, p).event = e /\ Priv(e, p).visibility = "PLAYER"
        /\ Priv(e, p).player = p
    BY DEF Priv
  <1> QED BY <1>1 DEF Reduce, Route, BuildEventPayload

\* Living mafiosi hear of a new representative.
LEMMA ReassignReceived ==
  ASSUME NEW v, NEW m, IsCopy(m), NEW x, NEW n,
         Becomes(v, m, ReassignEvents(x), n)
  PROVE  NewRep(m, n, IF /\ x = rep /\ rep' # NoPlayer
                         /\ v \in {p \in alive' : role'[p] = "MAFIA"}
                      THEN rep' ELSE m.rep)
  <1>1. CASE ~(x = rep /\ rep' # NoPlayer)
    BY <1>1, BecomesNone DEF ReassignEvents, NewRep, Same
  <1>2. CASE x = rep /\ rep' # NoPlayer
    <2> DEFINE e == [kind |-> "MafiaRepresentativeReassigned", old |-> rep, new |-> rep']
    <2>1. /\ ReassignEvents(x) = <<MafiaOnly(e)>> /\ e.new = rep'
          /\ e.kind = "MafiaRepresentativeReassigned"
      BY <1>2 DEF ReassignEvents
    <2> HIDE DEF e
    <2>2. n = Reduce(v, m, MafiaOnly(e))
      BY <2>1, BecomesOne
    <2>3. n = IF v \in {p \in alive' : role'[p] = "MAFIA"} THEN ApplyEvent(m, e) ELSE m
      BY <2>1, <2>2, MafiaReceived
    <2>4. ApplyEvent(m, e) = [m EXCEPT !.rep = rep']
      BY <2>1 DEF ApplyEvent
    <2> QED BY <1>2, <2>3, <2>4 DEF NewRep, IsCopy, Same, Fields
  <1> QED BY <1>1, <1>2

\* It is a sequence whether or not there is a new representative.
LEMMA ReassignLength == ASSUME NEW x PROVE Len(ReassignEvents(x)) \in Nat
  BY DEF ReassignEvents

\* Each envelope changes only the fields F of a copy.
Keeps(v, envs, F) ==
    \A i \in 1..Len(envs) : \A k : IsCopy(k) =>
        IsCopy(Reduce(v, k, envs[i])) /\ Same(k, Reduce(v, k, envs[i]), F)

\* All of them do, and the last one comes last.
Framed(v, m, envs, n, F) ==
    /\ IsCopy(n) /\ Same(m, n, F)
    /\ Len(envs) = 0 => n = m
    /\ Len(envs) > 0 => \E k : /\ IsCopy(k) /\ Same(m, k, F)
                               /\ n = Reduce(v, k, envs[Len(envs)])

\* A sequence of envelopes each of which changes only the fields F does so as a
\* whole, and ends with what its last envelope does.
LEMMA BecomesFrame ==
  ASSUME NEW v, NEW m, IsCopy(m), NEW envs, Len(envs) \in Nat, NEW n,
         Becomes(v, m, envs, n), NEW F, Keeps(v, envs, F)
  PROVE  Framed(v, m, envs, n, F)
  <1>1. PICK seen : Passes(v, m, envs, seen) /\ seen[Len(envs)] = n
    BY DEF Becomes
  <1> DEFINE S == {i \in 0..Len(envs) : IsCopy(seen[i]) /\ Same(m, seen[i], F)}
  <1>2. 0 \in S
    BY <1>1 DEF Passes, Same
  <1>3. ASSUME NEW i \in 0..(Len(envs) - 1), i \in S PROVE i + 1 \in S
    <2>1. i + 1 \in 1..Len(envs) /\ (i + 1) - 1 = i
      OBVIOUS
    <2>2. seen[i + 1] = Reduce(v, seen[i], envs[i + 1])
      BY <1>1, <2>1 DEF Passes
    <2>3. IsCopy(seen[i]) /\ Same(m, seen[i], F)
      BY <1>3
    <2>4. IsCopy(seen[i + 1]) /\ Same(seen[i], seen[i + 1], F)
      BY <2>1, <2>2, <2>3 DEF Keeps
    <2>5. Same(m, seen[i + 1], F)
      BY <2>3, <2>4, SameKept
    <2> QED BY <2>1, <2>4, <2>5
  <1> HIDE DEF S
  <1>4. 0..Len(envs) \subseteq S
    BY <1>2, <1>3, SetInduction
  <1>5. \A i \in 0..Len(envs) : IsCopy(seen[i]) /\ Same(m, seen[i], F)
    BY <1>4 DEF S
  <1>6. Len(envs) = 0 => n = m
    BY <1>1 DEF Passes
  <1>7. ASSUME Len(envs) > 0
        PROVE  \E k : /\ IsCopy(k) /\ Same(m, k, F)
                      /\ n = Reduce(v, k, envs[Len(envs)])
    <2>1. Len(envs) \in 1..Len(envs) /\ Len(envs) - 1 \in 0..Len(envs)
      BY <1>7
    <2>2. n = Reduce(v, seen[Len(envs) - 1], envs[Len(envs)])
      BY <1>1, <2>1 DEF Passes
    <2> QED BY <1>5, <2>1, <2>2
  <1>8. IsCopy(n) /\ Same(m, n, F)
    BY <1>1, <1>5
  <1> QED BY <1>6, <1>7, <1>8 DEF Framed

-----------------------------------------------------------------------------
(* What the copies rely on in the engine *)

\* Outside its own phase a timer is stopped, and nothing of a game is set before
\* one is dealt.
TimersStopped ==
    /\ phase \notin {"NIGHT", "END"} => nightStep = "NONE" /\ nightStepDeadline = 0
    /\ phase \notin {"DAY", "END"} => deadline = 0

Dealt ==
    IF phase = "NONE"
    THEN paused = FALSE /\ winner = "NONE" /\ endReason = "NONE" /\ policeHistory = <<>>
    ELSE role \in Deals

\* A phase is left by stopping its timer; the END keeps what it finds.
LEMMA TimersStep ==
  TypeOK /\ TimersStopped /\ [Next]_vars => TimersStopped'
  <1> SUFFICES ASSUME TypeOK, TimersStopped, [Next]_vars PROVE TimersStopped'
    OBVIOUS
  <1> USE DEF stepVars
  <1>a. ASSUME UNCHANGED <<phase, deadline, nightStep, nightStepDeadline>>
        PROVE  TimersStopped'
    BY <1>a DEF TimersStopped
  <1>b. ASSUME phase = "INTRO", NEW t, TransitionIntroToDay(t) PROVE TimersStopped'
    BY <1>b DEF TransitionIntroToDay, TimersStopped
  <1>c. ASSUME phase = "DAY", NEW t, TransitionDayToVote(t) PROVE TimersStopped'
    BY <1>c DEF TransitionDayToVote, TimersStopped
  <1>d. ASSUME phase' = "END" PROVE TimersStopped'
    BY <1>d DEF TimersStopped
  <1>e. ASSUME EnterNight PROVE TimersStopped'
    BY <1>e DEF EnterNight, TimersStopped
  <1>f. ASSUME ResolveNight PROVE TimersStopped'
    BY <1>f DEF ResolveNight, TimersStopped
  <1>1. CASE Start
    BY <1>1 DEF Start, TimersStopped
  <1>2. ASSUME phase = "INTRO", NextSpeaker PROVE TimersStopped'
    BY <1>2, <1>a, <1>b DEF NextSpeaker
  <1>3. ASSUME NEW p \in Players, NEW q \in Players,
               SubmitMafiaKill(p, q) \/ SubmitDoctorHeal(p, q)
                 \/ SubmitPoliceCheck(p, q)
        PROVE  TimersStopped'
    BY <1>3, <1>a DEF SubmitMafiaKill, SubmitDoctorHeal, SubmitPoliceCheck
  <1>4. ASSUME NEW p \in Players, NEW target, SubmitVote(p, target) PROVE TimersStopped'
    <2> DEFINE v == [votes EXCEPT ![p] = target]
    <2>1. /\ phase \in {"VOTE", "RECOUNT"}
          /\ Tally(v) \/ UNCHANGED <<phase, deadline, nightStep, nightStepDeadline>>
      BY <1>4 DEF SubmitVote
    <2> HIDE DEF v
    <2>2. ASSUME NEW x, ApplyElimination(x, v) PROVE TimersStopped'
      BY <2>2, <1>a, <1>e DEF ApplyElimination
    <2>3. CASE phase' = "RECOUNT" /\ UNCHANGED <<deadline, stepVars>>
      BY <2>1, <2>3 DEF TimersStopped
    <2> QED BY <2>1, <2>2, <2>3, <1>a, <1>e DEF Tally
  <1>5. ASSUME NEW h, ResumeGame(h) PROVE TimersStopped'
    BY <1>5 DEF ResumeGame, TimersStopped
  <1>6. ASSUME NEW h, NEW on, PauseGame(h) \/ ToggleVoice(h, on) PROVE TimersStopped'
    BY <1>6, <1>a DEF PauseGame, ToggleVoice
  <1>7. ASSUME NEW h, ForceEndGame(h) PROVE TimersStopped'
    BY <1>7, <1>d DEF ForceEndGame
  <1>8. ASSUME NEW h, EndDiscussionEarly(h) PROVE TimersStopped'
    BY <1>8, <1>c DEF EndDiscussionEarly
  <1>9. CASE Apply
    BY <1>9, <1>2, <1>3, <1>4, <1>5, <1>6, <1>7, <1>8, <1>f
    DEF Apply, EndSelfIntro, AdvanceIntro, EndNightEarly
  <1>10. ASSUME NEW t, Ticker(t) PROVE TimersStopped'
    <2>1. CASE UNCHANGED vars
      BY <2>1, <1>a DEF vars
    <2>2. CASE FirePendingEnd(t)
      BY <2>2, <1>d DEF FirePendingEnd
    <2>3. CASE TickIntro(t)
      BY <2>3, <1>a, <1>b DEF TickIntro
    <2>4. CASE TickDay(t)
      BY <2>4, <1>a, <1>c DEF TickDay
    <2>5. CASE TickNight(t)
      BY <2>5, <1>a, <1>f DEF TickNight, TimersStopped
    <2>6. CASE TickIdle(t)
      BY <2>6, <1>a DEF TickIdle
    <2> QED
      BY <1>10, <2>1, <2>2, <2>3, <2>4, <2>5, <2>6 DEF Ticker, Tick
  <1>11. CASE AdvanceClock
    BY <1>11, <1>a DEF AdvanceClock
  <1>12. CASE UNCHANGED vars
    BY <1>12, <1>a DEF vars
  <1> QED BY <1>1, <1>9, <1>10, <1>11, <1>12 DEF Next

\* Only Start deals, and it finds the State of a game not begun.
LEMMA DealtStep == TypeOK /\ Dealt /\ [Next]_vars => Dealt'
  <1> SUFFICES ASSUME TypeOK, Dealt, [Next]_vars PROVE Dealt'
    OBVIOUS
  <1>1. CASE Start
    BY <1>1 DEF Start, Dealt
  <1>2. CASE UNCHANGED vars
    BY <1>2 DEF vars, pauseVars, endVars, Dealt
  <1>3. CASE ~Start /\ Next
    <2>1. phase # "NONE"
      BY <1>3 DEF Next, Apply, Ticker, AdvanceClock
    <2>2. phase' # "NONE" /\ role' = role
      BY <2>1, <1>3, TurnCases
      DEF ResolveNight, Execution, Elimination, Hold, Turn, Finish, GameKept
    <2> QED BY <2>1, <2>2 DEF Dealt
  <1> QED BY <1>1, <1>2, <1>3

\* What the viewers' proofs use of the engine.
EngineInv ==
    /\ TypeOK /\ RepresentativeLives /\ NightTargetsInStep
    /\ TimersStopped /\ Dealt

\* All of it holds while the engine serves the viewers.
LEMMA EngineInvHolds == ViewSpec => []EngineInv
  <1>1. Init => TimersStopped /\ Dealt
    BY DEF Init, TimersStopped, Dealt
  <1>2. Spec => [](TimersStopped /\ Dealt)
    BY <1>1, TimersStep, DealtStep, TypeCorrect, PTL DEF Spec
  <1>3. /\ TypeOK /\ RepresentativeLives /\ NightTargetsInStep
        /\ TimersStopped /\ Dealt
        => EngineInv
    BY DEF EngineInv
  <1> QED
    BY <1>2, <1>3, EngineRuns, TypeCorrect, RepresentativeAlwaysLives,
       TargetsStayInStep, PTL

-----------------------------------------------------------------------------
(* A copy in step with the engine *)

\* The lobby, as the PlayerJoined events or a snapshot show it.
Fresh(m) ==
    /\ m.paused = FALSE /\ m.winner = "NONE" /\ m.reason = "NONE"
    /\ m.policeHistory = <<>>
    /\ m.players = Players => m.alive = Players

\* PublicAgrees and PrivateAgrees, of a copy m.
Shows(m) ==
    /\ m.phase = phase /\ m.day = day /\ m.deadline = deadline
    /\ m.nightStep = nightStep /\ m.nightStepDeadline = nightStepDeadline
    /\ m.paused = paused /\ m.winner = winner /\ m.reason = endReason
    /\ m.players = Players =>
          /\ m.alive = alive
          /\ phase = "INTRO" => m.speaker = introIdx

ShowsOwn(p, m) ==
    /\ m.your = role[p]
    /\ p \in Mafia => m.cohort = Mafia
    /\ p \in Mafia \cap alive => m.rep = rep
    /\ role[p] = "POLICE" => /\ m.policeChecked = policeChecked
                             /\ m.policeHistory = policeHistory

InStep(v, m) ==
    /\ IsCopy(m)
    /\ IF phase = "NONE" THEN Fresh(m) ELSE Shows(m) /\ (v \in Players => ShowsOwn(v, m))

\* A step that changes nothing the copies show, and sends nothing they keep.
LEMMA QuietInStep ==
  ASSUME NEW v, NEW m, InStep(v, m), phase # "NONE",
         UNCHANGED <<phase, day, deadline, nightStep, nightStepDeadline, paused, winner,
                     endReason, alive, introIdx, role, rep, policeChecked, policeHistory>>
  PROVE  InStep(v, m)'
  BY DEF InStep, Shows, ShowsOwn, Mafia

\* A new phase without a night: the reducer stops the timers with it.
LEMMA PhaseInStep ==
  ASSUME EngineInv, EngineInv', phase # "NONE", phase' \in {"DAY", "VOTE", "RECOUNT"},
         UNCHANGED <<role, alive, rep, paused, winner, endReason, policeHistory>>,
         NEW v \in Watchers, NEW m, InStep(v, m),
         NEW k, IsCopy(k), Same(m, k, {"speaker"}),
         NEW ph, NEW d, NEW at, phase' = ph, day' = d, deadline' = at,
         NEW n, n = Reduce(v, k, PhaseChanged(ph, d, at))
  PROVE  InStep(v, n)'
  <1>1. NewPhase(k, n, ph, d, at)
    BY PhaseReceived
  <1>2. nightStep' = "NONE" /\ nightStepDeadline' = 0 /\ policeChecked' = FALSE
    BY DEF EngineInv, TimersStopped, NightTargetsInStep, TypeOK, FlagType
  <1>3. /\ n.paused = m.paused /\ n.winner = m.winner /\ n.reason = m.reason
        /\ n.players = m.players /\ n.alive = m.alive /\ n.your = m.your
        /\ n.cohort = m.cohort /\ n.rep = m.rep /\ n.policeHistory = m.policeHistory
    BY <1>1 DEF NewPhase, Same, PhaseFields, Fields
  <1> QED BY <1>1, <1>2, <1>3 DEF NewPhase, InStep, Shows, ShowsOwn, Mafia

\* transitionDayToVote.
LEMMA VoteBeginsInStep ==
  ASSUME EngineInv, EngineInv', phase = "DAY", NEW t, TransitionDayToVote(t),
         NEW v \in Watchers, NEW m, InStep(v, m),
         NEW n, Becomes(v, m, VoteBegins, n)
  PROVE  InStep(v, n)'
  <1>1. n = Reduce(v, m, PhaseChanged("VOTE", day, 0))
    <2> DEFINE e == PhaseChanged("VOTE", day, 0)
    <2>1. VoteBegins = <<e>>
      BY DEF VoteBegins
    <2> HIDE DEF e
    <2> QED BY <2>1, BecomesOne DEF e
  <1>2. phase' = "VOTE" /\ day' = day /\ deadline' = 0
    BY DEF TransitionDayToVote
  <1>3. UNCHANGED <<role, alive, rep, paused, winner, endReason, policeHistory>>
    BY DEF TransitionDayToVote, pauseVars, endVars
  <1>4. IsCopy(m) /\ Same(m, m, {"speaker"})
    BY DEF InStep, Same
  <1> QED BY <1>1, <1>2, <1>3, <1>4, PhaseInStep

\* A tie in the first round.
LEMMA RecountInStep ==
  ASSUME EngineInv, EngineInv', phase # "NONE", phase' = "RECOUNT",
         UNCHANGED <<role, day, alive, rep, paused, winner, endReason, policeHistory>>,
         NEW v \in Watchers, NEW m, InStep(v, m),
         NEW n, n = Reduce(v, m, PhaseChanged("RECOUNT", day, 0))
  PROVE  InStep(v, n)'
  <1>1. deadline' = 0
    BY DEF EngineInv, TimersStopped
  <1>2. IsCopy(m) /\ Same(m, m, {"speaker"})
    BY DEF InStep, Same
  <1> QED BY <1>1, <1>2, PhaseInStep

\* Nobody sits twice at the table.
LEMMA RosterInjective ==
  ASSUME NEW i \in 1..Len(Roster), NEW j \in 1..Len(Roster), Roster[i] = Roster[j]
  PROVE  i = j
  <1>1. Len(Roster) \in Nat /\ Roster \in [1..Len(Roster) -> Players]
    BY RosterAssumption DEF RosterAssumption
  <1>2. IsFiniteSet(1..Len(Roster)) /\ Cardinality(1..Len(Roster)) = Cardinality(Players)
    BY <1>1, FS_Interval, RosterAssumption DEF RosterAssumption
  <1>3. Roster \in Surjection(1..Len(Roster), Players)
    BY <1>1, RosterAssumption DEF RosterAssumption, Surjection
  <1>4. Roster \in Injection(1..Len(Roster), Players)
    BY <1>2, <1>3, FS_SurjSameCardinalityImpliesInj
  <1> QED BY <1>1, <1>4 DEF Injection, IsInjective

\* A client that has the players finds the speaker's seat.
LEMMA SpeakerSeat ==
  ASSUME NEW m, m.players = Players, NEW i \in 1..Len(Roster)
  PROVE  SpeakerIndex(m, Roster[i]) = i - 1
  <1>1. Roster[i] \in Players
    BY RosterAssumption DEF RosterAssumption
  <1>2. \A j \in 1..Len(Roster) : Roster[j] = Roster[i] <=> j = i
    BY RosterInjective
  <1>3. (CHOOSE j \in 1..Len(Roster) : Roster[j] = Roster[i]) = i
    BY <1>2
  <1> QED BY <1>1, <1>3 DEF SpeakerIndex

\* Seat numbers, for the provers of arithmetic.
LEMMA SeatsPassed ==
  ASSUME NEW l \in Nat, NEW a \in 0..(l - 1), NEW b \in 0..(l - 1), a <= b
  PROVE  /\ b - a \in Nat /\ b + 1 \in 1..l
         /\ a + (b - a) + 1 = b + 1 /\ (b + 1) - 1 = b
         /\ a # b => b - a > 0 /\ b - a \in 1..(b - a)
         /\ a = b => b - a = 0
  OBVIOUS

\* The same, of the speaker before and after an intro step.
LEMMA TurnsPassed ==
  ASSUME TypeOK, TypeOK', introIdx <= introIdx'
  PROVE  /\ introIdx' - introIdx \in Nat /\ introIdx' + 1 \in 1..Len(Roster)
         /\ introIdx + (introIdx' - introIdx) + 1 = introIdx' + 1
         /\ (introIdx' + 1) - 1 = introIdx'
         /\ introIdx' # introIdx =>
              introIdx' - introIdx > 0 /\ introIdx' - introIdx \in 1..(introIdx' - introIdx)
         /\ introIdx' = introIdx => introIdx' - introIdx = 0
  <1>1. introIdx \in 0..(Len(Roster) - 1) /\ introIdx' \in 0..(Len(Roster) - 1)
    BY DEF TypeOK, ClockType
  <1>2. Len(Roster) \in Nat
    BY RosterNonempty
  <1> QED BY <1>1, <1>2, SeatsPassed

\* The turns that an intro step announces lead to the speaker it ends with.
LEMMA TurnsReceived ==
  ASSUME TypeOK, TypeOK', introIdx <= introIdx',
         NEW v \in Watchers, NEW m, IsCopy(m), NEW turns,
         turns = [i \in 1..(introIdx' - introIdx) |->
                    IntroSpeakerChanged(Roster[introIdx + i + 1])],
         NEW n, Becomes(v, m, turns, n)
  PROVE  /\ IsCopy(n) /\ Same(m, n, {"speaker"})
         /\ m.players = Players =>
              n.speaker = IF introIdx' = introIdx THEN m.speaker ELSE introIdx'
  <1> DEFINE c == introIdx' - introIdx
  <1>1. /\ c \in Nat /\ introIdx' + 1 \in 1..Len(Roster)
        /\ introIdx + c + 1 = introIdx' + 1 /\ (introIdx' + 1) - 1 = introIdx'
        /\ introIdx' # introIdx => c > 0 /\ c \in 1..c
        /\ introIdx' = introIdx => c = 0
    BY TurnsPassed
  <1>2. Len(turns) = c
    BY <1>1
  <1>3. \A i \in 1..c : turns[i] = IntroSpeakerChanged(Roster[introIdx + i + 1])
    OBVIOUS
  <1> HIDE DEF c
  <1>4. ASSUME NEW i \in 1..Len(turns), NEW k, IsCopy(k)
        PROVE  IsCopy(Reduce(v, k, turns[i])) /\ Same(k, Reduce(v, k, turns[i]), {"speaker"})
    <2> DEFINE p == Roster[introIdx + i + 1]
               r == Reduce(v, k, turns[i])
    <2>1. r = Reduce(v, k, IntroSpeakerChanged(p))
      BY <1>2, <1>3
    <2> HIDE DEF p, r
    <2>2. NewSpeaker(k, r, SpeakerIndex(k, p))
      BY <2>1, <1>4, SpeakerReceived
    <2>3. IsCopy(r) /\ Same(k, r, {"speaker"})
      BY <2>2 DEF NewSpeaker
    <2> QED BY <2>3 DEF r
  <1>5. /\ IsCopy(n) /\ Same(m, n, {"speaker"})
        /\ Len(turns) = 0 => n = m
        /\ Len(turns) > 0 => \E k : /\ IsCopy(k) /\ Same(m, k, {"speaker"})
                                    /\ n = Reduce(v, k, turns[Len(turns)])
    <2>1. Len(turns) \in Nat
      BY <1>1, <1>2
    <2>2. Keeps(v, turns, {"speaker"})
      BY <1>4 DEF Keeps
    <2>3. Framed(v, m, turns, n, {"speaker"})
      BY <2>1, <2>2, BecomesFrame
    <2> QED BY <2>3 DEF Framed
  <1>6. CASE introIdx' = introIdx
    BY <1>1, <1>2, <1>5, <1>6
  <1>7. CASE introIdx' # introIdx
    <2>1. c > 0 /\ c \in 1..c
      BY <1>1, <1>7
    <2>2. PICK k : /\ IsCopy(k) /\ Same(m, k, {"speaker"})
                   /\ n = Reduce(v, k, turns[c])
      BY <1>2, <1>5, <2>1
    <2> DEFINE p == Roster[introIdx' + 1]
    <2>3. turns[c] = IntroSpeakerChanged(p)
      BY <1>1, <1>3, <2>1
    <2> HIDE DEF p
    <2>4. NewSpeaker(k, n, SpeakerIndex(k, p))
      BY <2>2, <2>3, SpeakerReceived
    <2>5. n.speaker = SpeakerIndex(k, p)
      BY <2>4 DEF NewSpeaker
    <2>6. ASSUME m.players = Players PROVE SpeakerIndex(k, p) = introIdx'
      <3>1. k.players = Players
        BY <2>2, <2>6 DEF Same, Fields
      <3>2. SpeakerIndex(k, p) = (introIdx' + 1) - 1
        BY <1>1, <3>1, SpeakerSeat DEF p
      <3> QED BY <1>1, <3>2
    <2> QED BY <1>5, <1>7, <2>5, <2>6
  <1> QED BY <1>6, <1>7

\* The introductions: the speakers that were passed, then the first morning.
LEMMA IntroInStep ==
  ASSUME EngineInv, EngineInv', phase = "INTRO", introIdx <= introIdx',
         UNCHANGED <<role, day, alive, rep, paused, winner, endReason, policeHistory>>,
         \/ phase' = "DAY"
         \/ UNCHANGED <<phase, deadline, nightStep, nightStepDeadline, policeChecked>>,
         NEW v \in Watchers, NEW m, InStep(v, m),
         NEW n, Becomes(v, m, IntroEvents, n)
  PROVE  InStep(v, n)'
  <1> DEFINE turns == [i \in 1..(introIdx' - introIdx) |->
                         IntroSpeakerChanged(Roster[introIdx + i + 1])]
             morning == IF phase' = "DAY" THEN <<PhaseChanged("DAY", day', deadline')>>
                        ELSE <<>>
  <1>1. IntroEvents = turns \o morning
    BY DEF IntroEvents
  <1>2. TypeOK /\ TypeOK' /\ IsCopy(m)
    BY DEF EngineInv, InStep
  <1>3. Len(turns) \in Nat /\ Len(morning) \in Nat
    <2>1. introIdx' - introIdx \in Nat
      BY <1>2, TurnsPassed
    <2> QED BY <2>1
  <1>4. turns = [i \in 1..(introIdx' - introIdx) |->
                    IntroSpeakerChanged(Roster[introIdx + i + 1])]
    OBVIOUS
  <1>5. /\ phase' = "DAY" => morning = <<PhaseChanged("DAY", day', deadline')>>
        /\ phase' # "DAY" => morning = <<>>
    OBVIOUS
  <1> HIDE DEF turns, morning
  <1>6. PICK k : Becomes(v, m, turns, k) /\ Becomes(v, k, morning, n)
    BY <1>1, <1>3, BecomesJoin
  <1>7. /\ IsCopy(k) /\ Same(m, k, {"speaker"})
        /\ m.players = Players =>
             k.speaker = IF introIdx' = introIdx THEN m.speaker ELSE introIdx'
    BY <1>2, <1>4, <1>6, TurnsReceived
  <1>8. CASE phase' = "DAY"
    <2> DEFINE d == day'
               at == deadline'
               e == PhaseChanged("DAY", d, at)
    <2>1. morning = <<e>>
      BY <1>5, <1>8
    <2>2. n = Reduce(v, k, e)
      <3> HIDE DEF e
      <3> QED BY <1>6, <2>1, BecomesOne
    <2>3. phase' = "DAY" /\ day' = d /\ deadline' = at
      BY <1>8
    <2> HIDE DEF d, at
    <2> QED BY <1>7, <2>2, <2>3, PhaseInStep
  <1>9. CASE phase' # "DAY"
    <2>1. n = k
      BY <1>5, <1>6, <1>9, BecomesNone
    <2>2. UNCHANGED <<phase, deadline, nightStep, nightStepDeadline, policeChecked>>
      BY <1>9
    <2>3. /\ IsCopy(n) /\ \A f \in Fields \ {"speaker"} : n[f] = m[f]
          /\ m.players = Players /\ m.speaker = introIdx => n.speaker = introIdx'
      BY <1>7, <2>1 DEF Same
    <2> QED BY <2>2, <2>3 DEF InStep, Shows, ShowsOwn, Mafia, Fields
  <1> QED BY <1>8, <1>9

\* A living mafioso has the new representative, if there is one.
LEMMA RepresentativeKnown ==
  ASSUME alive \subseteq Players, NEW x, alive' = alive \ {x}, UNCHANGED role,
         ReassignMafiaRepresentative(x, alive \ {x}),
         NEW v, v \in Mafia' \cap alive', NEW r, r = rep
  PROVE  (IF /\ x = rep /\ rep' # NoPlayer
             /\ v \in {p \in alive' : role'[p] = "MAFIA"}
          THEN rep' ELSE r) = rep'
  <1>1. v \in alive \cap Mafia /\ role'[v] = "MAFIA" /\ v \in alive \ {x}
    BY DEF Mafia
  <1>2. x = rep => rep' \in Players
    BY <1>1 DEF ReassignMafiaRepresentative
  <1> QED
    BY <1>1, <1>2, RosterAssumption DEF RosterAssumption, ReassignMafiaRepresentative

\* A death, announced with the mafia's new representative.
LEMMA DeathInStep ==
  ASSUME NEW v \in Watchers, NEW m, IsCopy(m), NEW n, NEW x, NEW e,
         e.kind \in {"DeathAnnounced", "Eliminated"}, e.player = x,
         Becomes(v, m, <<Pub(e)>> \o ReassignEvents(x), n)
  PROVE  /\ IsCopy(n) /\ Same(m, n, {"alive", "rep"})
         /\ n.alive = m.alive \ {x}
         /\ n.rep = IF /\ x = rep /\ rep' # NoPlayer
                       /\ v \in {p \in alive' : role'[p] = "MAFIA"}
                    THEN rep' ELSE m.rep
  <1>1. Len(<<Pub(e)>>) \in Nat /\ Len(ReassignEvents(x)) \in Nat
    BY ReassignLength
  <1>2. PICK k : Becomes(v, m, <<Pub(e)>>, k) /\ Becomes(v, k, ReassignEvents(x), n)
    BY <1>1, BecomesJoin
  <1>3. k = Reduce(v, m, Pub(e))
    BY <1>2, BecomesOne
  <1>4. Buried(m, k, x)
    BY <1>3, DeathReceived
  <1>5. IsCopy(k) /\ Same(m, k, {"alive"}) /\ k.alive = m.alive \ {x}
    BY <1>4 DEF Buried
  <1> DEFINE r == IF /\ x = rep /\ rep' # NoPlayer
                     /\ v \in {p \in alive' : role'[p] = "MAFIA"}
                  THEN rep' ELSE k.rep
  <1>6. NewRep(k, n, r)
    BY <1>2, <1>5, ReassignReceived
  <1>7. k.rep = m.rep
    BY <1>5 DEF Same, Fields
  <1>8. IsCopy(n) /\ Same(k, n, {"rep"}) /\ n.rep = r
    <2> HIDE DEF r
    <2> QED BY <1>6 DEF NewRep
  <1>9. n.alive = k.alive
    BY <1>8 DEF Same, Fields
  <1>10. Same(m, n, {"alive", "rep"})
    BY <1>5, <1>8 DEF Same, Fields
  <1> QED BY <1>5, <1>7, <1>8, <1>9, <1>10

\* Nightfall, as the reducers get it.
Nightfall(m, n, d, at) ==
    /\ IsCopy(n) /\ Same(m, n, PhaseFields)
    /\ n.phase = "NIGHT" /\ n.day = d /\ n.deadline = 0
    /\ n.nightStep = "INTRO" /\ n.nightStepDeadline = at /\ n.policeChecked = FALSE

\* The two events of enterNight, one after the other.
LEMMA NightReceived ==
  ASSUME NEW v \in Watchers, NEW m, IsCopy(m), NEW n,
         NEW at, at = nightStepDeadline', Becomes(v, m, EnterNightEvents, n)
  PROVE  Nightfall(m, n, day, at)
  <1> DEFINE e == PhaseChanged("NIGHT", day, 0)
             f == NightStepChanged("INTRO", at)
             k == Reduce(v, m, e)
  <1>1. EnterNightEvents = <<e, f>>
    BY DEF EnterNightEvents
  <1>2. n = Reduce(v, k, f)
    <2> HIDE DEF e, f
    <2> QED BY <1>1, BecomesTwo
  <1>3. NewPhase(m, k, "NIGHT", day, 0)
    BY PhaseReceived
  <1>4. IsCopy(k)
    BY <1>3 DEF NewPhase
  <1> HIDE DEF k
  <1>5. NewStep(k, n, "INTRO", at)
    BY <1>2, <1>4, StepReceived
  <1> QED
    BY <1>3, <1>5 DEF NewPhase, NewStep, Nightfall, Same, PhaseFields, Fields

\* Night falls, with the survivors and their representative as the copy has them.
LEMMA NightfallInStep ==
  ASSUME EngineInv, phase # "NONE", EnterNight,
         UNCHANGED <<day, role, paused, winner, endReason, policeHistory>>,
         NEW v, NEW m, InStep(v, m),
         NEW k, Same(m, k, {"alive", "rep"}),
         m.players = Players => k.alive = alive',
         v \in Players /\ v \in Mafia' \cap alive' => k.rep = rep',
         NEW n, NEW at, at = nightStepDeadline', Nightfall(k, n, day, at)
  PROVE  InStep(v, n)'
  <1>1. /\ phase' = "NIGHT" /\ deadline' = 0 /\ nightStep' = "INTRO"
        /\ policeChecked' = FALSE
    BY DEF EnterNight, ClearTargets
  <1>2. /\ IsCopy(n) /\ Same(k, n, PhaseFields)
        /\ n.phase = "NIGHT" /\ n.day = day /\ n.deadline = 0
        /\ n.nightStep = "INTRO" /\ n.nightStepDeadline = at /\ n.policeChecked = FALSE
    BY DEF Nightfall
  <1>3. /\ n.paused = m.paused /\ n.winner = m.winner /\ n.reason = m.reason
        /\ n.players = m.players /\ n.alive = k.alive /\ n.your = m.your
        /\ n.cohort = m.cohort /\ n.rep = k.rep /\ n.policeHistory = m.policeHistory
    BY <1>2 DEF Same, PhaseFields, Fields
  <1> QED BY <1>1, <1>2, <1>3 DEF InStep, Shows, ShowsOwn, Mafia

\* applyElimination, with the night or without.
LEMMA EliminationInStep ==
  ASSUME EngineInv, EngineInv', phase \in {"VOTE", "RECOUNT"},
         NEW x, NEW ballots, ApplyElimination(x, ballots),
         UNCHANGED <<day, role, paused, winner, endReason, policeHistory>>,
         NEW v \in Watchers, NEW m, InStep(v, m),
         NEW n, Becomes(v, m, EliminationEvents(x), n)
  PROVE  InStep(v, n)'
  <1> DEFINE e == [kind |-> "Eliminated", player |-> x, role |-> role[x]]
             death == <<Pub(e)>> \o ReassignEvents(x)
             night == IF EvaluateEnd(alive \ {x}) = "NONE" THEN EnterNightEvents ELSE <<>>
  <1>1. EliminationEvents(x) = death \o night
    BY DEF EliminationEvents
  <1>2. Len(death) \in Nat /\ Len(night) \in Nat
    BY ReassignLength DEF EnterNightEvents
  <1>3. e.kind \in {"DeathAnnounced", "Eliminated"} /\ e.player = x
    OBVIOUS
  <1> HIDE DEF night, e
  <1>4. PICK k : Becomes(v, m, death, k) /\ Becomes(v, k, night, n)
    <2> HIDE DEF death
    <2> QED BY <1>1, <1>2, BecomesJoin
  <1> DEFINE r == IF /\ x = rep /\ rep' # NoPlayer
                     /\ v \in {p \in alive' : role'[p] = "MAFIA"}
                  THEN rep' ELSE m.rep
  <1>5. IsCopy(m)
    BY DEF InStep
  <1>6. IsCopy(k) /\ Same(m, k, {"alive", "rep"}) /\ k.alive = m.alive \ {x} /\ k.rep = r
    BY <1>3, <1>4, <1>5, DeathInStep
  <1>7. /\ alive' = alive \ {x} /\ ReassignMafiaRepresentative(x, alive \ {x})
        /\ alive \subseteq Players
    BY DEF ApplyElimination, EngineInv, TypeOK, PlayerType
  <1>8. m.players = Players => k.alive = alive'
    BY <1>6, <1>7 DEF InStep, Shows
  <1>9. v \in Players /\ v \in Mafia' \cap alive' => k.rep = rep'
    <2> SUFFICES ASSUME v \in Players, v \in Mafia' \cap alive' PROVE k.rep = rep'
      OBVIOUS
    <2>1. m.rep = rep
      BY <1>7 DEF InStep, ShowsOwn, Mafia
    <2>2. r = rep'
      BY <1>7, <2>1, RepresentativeKnown
    <2> HIDE DEF r
    <2> QED BY <1>6, <2>2
  <1> HIDE DEF r, death
  <1>10. CASE EvaluateEnd(alive \ {x}) = "NONE"
    <2>1. EnterNight /\ night = EnterNightEvents /\ phase # "NONE"
      BY <1>10 DEF ApplyElimination, night
    <2> DEFINE at == nightStepDeadline'
    <2>2. at = nightStepDeadline'
      OBVIOUS
    <2> HIDE DEF at
    <2>3. Nightfall(k, n, day, at)
      BY <1>4, <1>6, <2>1, <2>2, NightReceived
    <2> QED BY <1>6, <1>8, <1>9, <2>1, <2>2, <2>3, NightfallInStep
  <1>11. CASE EvaluateEnd(alive \ {x}) # "NONE"
    <2>1. n = k
      BY <1>4, <1>11, BecomesNone DEF night
    <2>2. UNCHANGED <<phase, deadline, nightStep, nightStepDeadline, policeChecked>>
      BY <1>11 DEF ApplyElimination, stepVars, targetVars
    <2>3. /\ IsCopy(n) /\ \A f \in Fields \ {"alive", "rep"} : n[f] = m[f]
          /\ m.players = Players => n.alive = alive'
          /\ v \in Players /\ v \in Mafia' \cap alive' => n.rep = rep'
      BY <1>6, <1>8, <1>9, <2>1 DEF Same
    <2> QED BY <2>2, <2>3 DEF InStep, Shows, ShowsOwn, Mafia, Fields
  <1> QED BY <1>10, <1>11

\* An acquittal: night falls on everybody who lived.
LEMMA AcquittalInStep ==
  ASSUME EngineInv, phase # "NONE", EnterNight,
         UNCHANGED <<day, role, alive, rep, paused, winner, endReason, policeHistory>>,
         NEW v \in Watchers, NEW m, InStep(v, m),
         NEW n, Becomes(v, m, EnterNightEvents, n)
  PROVE  InStep(v, n)'
  <1> DEFINE at == nightStepDeadline'
  <1>1. at = nightStepDeadline'
    OBVIOUS
  <1> HIDE DEF at
  <1>2. IsCopy(m) /\ Same(m, m, {"alive", "rep"})
    BY DEF InStep, Same
  <1>3. Nightfall(m, n, day, at)
    BY <1>1, <1>2, NightReceived
  <1>4. m.players = Players => m.alive = alive'
    BY DEF InStep, Shows
  <1>5. v \in Players /\ v \in Mafia' \cap alive' => m.rep = rep'
    BY DEF InStep, ShowsOwn, Mafia
  <1> QED BY <1>1, <1>2, <1>3, <1>4, <1>5, NightfallInStep

\* handleVote and tally.
LEMMA VoteInStep ==
  ASSUME EngineInv, EngineInv', NEW p \in Players, NEW target, SubmitVote(p, target),
         NEW v \in Watchers, NEW m, InStep(v, m),
         NEW n, Becomes(v, m, VoteEvents(p, target), n)
  PROVE  InStep(v, n)'
  <1> DEFINE b == [votes EXCEPT ![p] = target]
             top == TopCandidates(b)
             x == CHOOSE x \in top : TRUE
             recount == PhaseChanged("RECOUNT", day, 0)
  <1>1. VoteEvents(p, target) =
          IF ~AllVoted(b) THEN <<>>
          ELSE IF Cardinality(top) = 1 THEN EliminationEvents(x)
          ELSE IF top # {} /\ voteRound = 1 THEN <<recount>> ELSE EnterNightEvents
    BY DEF VoteEvents
  <1>2. /\ phase \in {"VOTE", "RECOUNT"}
        /\ UNCHANGED <<day, role, introIdx, policeHistory, paused, winner, endReason>>
        /\ \/ AllVoted(b) /\ Tally(b)
           \/ /\ ~AllVoted(b)
              /\ UNCHANGED <<phase, alive, rep, deadline, nightStep, nightStepDeadline,
                             policeChecked>>
    BY DEF SubmitVote, introVars, pauseVars, stepVars, targetVars
  <1>3. IsFiniteSet(top)
    <2>1. top \subseteq Players
      BY DEF TopCandidates
    <2> HIDE DEF top
    <2> QED BY <2>1, RosterAssumption, FS_Subset DEF RosterAssumption
  <1>4. Cardinality({}) = 0
    BY FS_EmptySet
  <1> HIDE DEF b, x, recount
  <1>5. CASE ~AllVoted(b)
    <2>1. n = m
      BY <1>1, <1>5, BecomesNone
    <2> QED BY <1>2, <1>5, <2>1, QuietInStep
  <1>6. ASSUME AllVoted(b), NEW y \in top, top = {y}, ApplyElimination(y, b)
        PROVE  InStep(v, n)'
    <2>1. Cardinality(top) = 1 /\ x = y
      BY <1>6, FS_Singleton DEF x
    <2>2. Becomes(v, m, EliminationEvents(y), n)
      BY <1>1, <1>6, <2>1
    <2> QED BY <1>2, <1>6, <2>2, EliminationInStep
  <1>7. CASE /\ AllVoted(b) /\ Cardinality(top) > 1 /\ voteRound = 1
             /\ phase' = "RECOUNT" /\ UNCHANGED <<alive, rep>>
    <2>1. Cardinality(top) # 1 /\ top # {}
      BY <1>4, <1>7
    <2>2. n = Reduce(v, m, recount)
      BY <1>1, <1>7, <2>1, BecomesOne
    <2>3. phase # "NONE"
      BY <1>2
    <2> QED BY <1>2, <1>7, <2>2, <2>3, RecountInStep DEF recount
  <1>8. CASE /\ AllVoted(b) /\ (top = {} \/ (Cardinality(top) > 1 /\ voteRound # 1))
             /\ EnterNight /\ UNCHANGED <<alive, rep>>
    <2>1. Cardinality(top) # 1
      BY <1>4, <1>8
    <2>2. Becomes(v, m, EnterNightEvents, n)
      BY <1>1, <1>8, <2>1
    <2>3. phase # "NONE"
      BY <1>2
    <2> QED BY <1>2, <1>8, <2>2, <2>3, AcquittalInStep
  <1> HIDE DEF top
  <1>9. CASE AllVoted(b) /\ Tally(b)
    <2>1. \/ \E y \in top : top = {y} /\ ApplyElimination(y, b)
          \/ /\ Cardinality(top) > 1 /\ voteRound = 1
             /\ phase' = "RECOUNT" /\ UNCHANGED <<alive, rep>>
          \/ /\ top = {} \/ (Cardinality(top) > 1 /\ voteRound # 1)
             /\ EnterNight /\ UNCHANGED <<alive, rep>>
      BY <1>9 DEF Tally, top
    <2> QED BY <1>6, <1>7, <1>8, <1>9, <2>1
  <1> QED BY <1>2, <1>5, <1>9

\* resolveNight, after whatever the reducer was told of the night's steps.
LEMMA ResolveInStep ==
  ASSUME EngineInv, EngineInv', phase = "NIGHT", ResolveNight,
         NEW v \in Watchers, NEW m, InStep(v, m),
         NEW k, IsCopy(k), Same(m, k, {"nightStep", "nightStepDeadline"}),
         NEW n, Becomes(v, k, ResolveEvents, n)
  PROVE  InStep(v, n)'
  <1> DEFINE d == day'
             at == deadline'
             morning == PhaseChanged("DAY", d, at)
             e == [kind |-> "DeathAnnounced", player |-> Victim]
             rest == IF Victim = NoPlayer THEN <<>>
                     ELSE <<Pub(e)>> \o ReassignEvents(Victim)
  <1>1. ResolveEvents = <<morning>> \o rest
    BY DEF ResolveEvents
  <1>2. Len(<<morning>>) \in Nat /\ Len(rest) \in Nat
    BY ReassignLength
  <1>3. e.kind \in {"DeathAnnounced", "Eliminated"} /\ e.player = Victim
    OBVIOUS
  <1>4. day' = d /\ deadline' = at
    OBVIOUS
  <1> HIDE DEF d, at, e
  <1>5. PICK l : Becomes(v, k, <<morning>>, l) /\ Becomes(v, l, rest, n)
    <2> HIDE DEF morning, rest
    <2> QED BY <1>1, <1>2, BecomesJoin
  <1>6. l = Reduce(v, k, morning)
    <2> HIDE DEF morning
    <2> QED BY <1>5, BecomesOne
  <1>7. NewPhase(k, l, "DAY", d, at)
    BY <1>6, PhaseReceived
  <1>8. IsCopy(l) /\ Same(m, l, PhaseFields)
    BY <1>7 DEF NewPhase, Same, PhaseFields, Fields
  <1>9. /\ phase' = "DAY" /\ alive' = alive \ {Victim}
        /\ Victim = NoPlayer => rep' = rep
        /\ Victim # NoPlayer => ReassignMafiaRepresentative(Victim, alive \ {Victim})
        /\ UNCHANGED <<role, policeHistory, paused, winner, endReason>>
        /\ nightStep' = "NONE" /\ nightStepDeadline' = 0 /\ policeChecked' = FALSE
    BY DEF ResolveNight, ClearTargets, pauseVars
  <1>10. alive \subseteq Players
    BY DEF EngineInv, TypeOK, PlayerType
  <1>11. /\ IsCopy(n) /\ Same(l, n, {"alive", "rep"})
         /\ m.players = Players => n.alive = alive'
         /\ v \in Players /\ v \in Mafia' \cap alive' => n.rep = rep'
    <2>1. l.alive = m.alive /\ l.rep = m.rep
      BY <1>8 DEF Same, PhaseFields, Fields
    <2>2. CASE Victim = NoPlayer
      <3>1. n = l
        BY <1>5, <2>2, BecomesNone
      <3>2. alive' = alive
        BY <1>9, <1>10, <2>2, RosterAssumption DEF RosterAssumption
      <3> QED BY <1>8, <1>9, <2>1, <2>2, <3>1, <3>2 DEF InStep, Shows, ShowsOwn, Mafia, Same
    <2>3. CASE Victim # NoPlayer
      <3> DEFINE x == Victim
                 r == IF /\ x = rep /\ rep' # NoPlayer
                         /\ v \in {p \in alive' : role'[p] = "MAFIA"}
                      THEN rep' ELSE l.rep
      <3>1. Becomes(v, l, <<Pub(e)>> \o ReassignEvents(x), n) /\ e.player = x
        BY <1>3, <1>5, <2>3
      <3>2. alive' = alive \ {x} /\ ReassignMafiaRepresentative(x, alive \ {x})
        BY <1>9, <2>3
      <3> HIDE DEF x
      <3>3. IsCopy(n) /\ Same(l, n, {"alive", "rep"}) /\ n.alive = l.alive \ {x} /\ n.rep = r
        BY <1>3, <1>8, <3>1, DeathInStep
      <3>4. m.players = Players => n.alive = alive'
        BY <2>1, <3>2, <3>3 DEF InStep, Shows
      <3>5. ASSUME v \in Players, v \in Mafia' \cap alive' PROVE n.rep = rep'
        <4>1. l.rep = rep
          BY <1>9, <2>1, <3>2, <3>5 DEF InStep, ShowsOwn, Mafia
        <4>2. r = rep'
          BY <1>9, <1>10, <3>2, <3>5, <4>1, RepresentativeKnown
        <4> HIDE DEF r
        <4> QED BY <3>3, <4>2
      <3> QED BY <3>3, <3>4, <3>5
    <2> QED BY <2>2, <2>3
  <1>12. /\ n.phase = "DAY" /\ n.day = d /\ n.deadline = at
         /\ n.nightStep = "NONE" /\ n.nightStepDeadline = 0 /\ n.policeChecked = FALSE
    BY <1>7, <1>11 DEF NewPhase, Same, Fields
  <1>13. /\ n.paused = m.paused /\ n.winner = m.winner /\ n.reason = m.reason
         /\ n.players = m.players /\ n.your = m.your
         /\ n.cohort = m.cohort /\ n.policeHistory = m.policeHistory
    BY <1>8, <1>11 DEF Same, PhaseFields, Fields
  <1> QED BY <1>4, <1>9, <1>11, <1>12, <1>13 DEF InStep, Shows, ShowsOwn, Mafia

\* nextNightStep's order, by numbers.
LEMMA StepNumbers ==
  /\ StepIndex("INTRO") = 1 /\ StepIndex("MAFIA") = 2
  /\ StepIndex("POLICE") = 3 /\ StepIndex("DOCTOR") = 4
  <1>1. \A i \in 1..4 : /\ StepOrder[i] = "INTRO" <=> i = 1
                        /\ StepOrder[i] = "MAFIA" <=> i = 2
                        /\ StepOrder[i] = "POLICE" <=> i = 3
                        /\ StepOrder[i] = "DOCTOR" <=> i = 4
    BY DEF StepOrder
  <1> QED BY <1>1 DEF StepIndex

\* Every sub-step has a number, and its number leads back to it.
LEMMA StepNumbered ==
  ASSUME NEW s \in NightSteps
  PROVE  StepIndex(s) \in 1..4 /\ StepOrder[StepIndex(s)] = s /\ StepIndex(s) <= StepIndex("DOCTOR")
  BY StepNumbers DEF NightSteps, StepOrder

\* A sub-step that ends later comes later in the order.
LEMMA LaterStep ==
  ASSUME NEW s \in NightSteps, NEW r \in NightSteps, NightOffset(s) > NightOffset(r)
  PROVE  StepIndex(r) < StepIndex(s)
  <1>1. /\ NightOffset("INTRO") \in Nat /\ NightOffset("MAFIA") \in Nat
        /\ NightOffset("POLICE") \in Nat /\ NightOffset("DOCTOR") \in Nat
    BY NightOffsetNat DEF NightSteps
  <1>2. s \in {"INTRO", "MAFIA", "POLICE", "DOCTOR"} /\ r \in {"INTRO", "MAFIA", "POLICE", "DOCTOR"}
    BY DEF NightSteps
  <1> QED BY <1>1, <1>2, StepNumbers, NightOffsetOrder

\* The sub-steps that a late tick announces lead to the last of them.
LEMMA StepsReceived ==
  ASSUME nightStep \in NightSteps, NEW last \in NightSteps,
         StepIndex(nightStep) <= StepIndex(last),
         NEW v \in Watchers, NEW m, IsCopy(m), NEW steps,
         steps = [i \in 1..(StepIndex(last) - StepIndex(nightStep)) |->
                    NightStepChanged(StepOrder[StepIndex(nightStep) + i],
                                     ChainedDeadline(StepOrder[StepIndex(nightStep) + i]))],
         NEW n, Becomes(v, m, steps, n)
  PROVE  /\ Len(steps) \in Nat
         /\ IsCopy(n) /\ Same(m, n, {"nightStep", "nightStepDeadline"})
         /\ StepIndex(nightStep) < StepIndex(last) =>
              n.nightStep = last /\ n.nightStepDeadline = ChainedDeadline(last)
         /\ last = nightStep => n = m
  <1> DEFINE from == StepIndex(nightStep)
             c == StepIndex(last) - from
             F == {"nightStep", "nightStepDeadline"}
  <1>1. /\ from \in Int /\ StepIndex(last) \in Int /\ c \in Nat
        /\ from + c = StepIndex(last) /\ StepOrder[StepIndex(last)] = last
    BY StepNumbered
  <1>2. Len(steps) = c
    BY <1>1
  <1>3. \A i \in 1..c : steps[i] = NightStepChanged(StepOrder[from + i],
                                                    ChainedDeadline(StepOrder[from + i]))
    OBVIOUS
  <1>4. from < StepIndex(last) => c > 0 /\ c \in 1..c
    BY <1>1
  <1>5. last = nightStep => c = 0
    BY <1>1
  <1> HIDE DEF from, c
  <1>6. ASSUME NEW i \in 1..Len(steps), NEW k, IsCopy(k)
        PROVE  IsCopy(Reduce(v, k, steps[i])) /\ Same(k, Reduce(v, k, steps[i]), F)
    <2> DEFINE s == StepOrder[from + i]
               at == ChainedDeadline(StepOrder[from + i])
               r == Reduce(v, k, steps[i])
    <2>1. r = Reduce(v, k, NightStepChanged(s, at))
      BY <1>2, <1>3
    <2> HIDE DEF s, at, r
    <2>2. NewStep(k, r, s, at)
      BY <2>1, <1>6, StepReceived
    <2>3. IsCopy(r) /\ Same(k, r, F)
      BY <2>2 DEF NewStep
    <2> QED BY <2>3 DEF r
  <1> HIDE DEF F
  <1>7. Framed(v, m, steps, n, F)
    <2>1. Keeps(v, steps, F)
      BY <1>6 DEF Keeps
    <2>2. Len(steps) \in Nat
      BY <1>1, <1>2
    <2> QED BY <2>1, <2>2, BecomesFrame
  <1>8. ASSUME from < StepIndex(last)
        PROVE  n.nightStep = last /\ n.nightStepDeadline = ChainedDeadline(last)
    <2>1. PICK k : IsCopy(k) /\ n = Reduce(v, k, steps[c])
      BY <1>2, <1>4, <1>7, <1>8 DEF Framed
    <2> DEFINE at == ChainedDeadline(last)
    <2>2. steps[c] = NightStepChanged(last, at)
      BY <1>1, <1>3, <1>4, <1>8
    <2> HIDE DEF at
    <2>3. NewStep(k, n, last, at)
      BY <2>1, <2>2, StepReceived
    <2> QED BY <2>3 DEF NewStep, at
  <1>9. last = nightStep => n = m
    BY <1>1, <1>2, <1>5, <1>7 DEF Framed
  <1>10. IsCopy(n) /\ Same(m, n, F) /\ Len(steps) \in Nat
    BY <1>1, <1>2, <1>7 DEF Framed
  <1> QED BY <1>8, <1>9, <1>10 DEF from, F

\* tickNight: the sub-steps it passes, then the morning.
LEMMA NightTickInStep ==
  ASSUME EngineInv, EngineInv', NEW t, TickNight(t),
         NEW v \in Watchers, NEW m, InStep(v, m),
         NEW n, Becomes(v, m, NightTickEvents, n)
  PROVE  InStep(v, n)'
  <1> DEFINE last == IF phase' = "DAY" THEN "DOCTOR" ELSE nightStep'
             steps == [i \in 1..(StepIndex(last) - StepIndex(nightStep)) |->
                         NightStepChanged(StepOrder[StepIndex(nightStep) + i],
                                          ChainedDeadline(StepOrder[StepIndex(nightStep) + i]))]
             end == IF phase' = "DAY" THEN ResolveEvents ELSE <<>>
  <1>1. NightTickEvents = steps \o end
    BY DEF NightTickEvents
  <1>2. phase = "NIGHT" /\ nightStep \in NightSteps /\ IsCopy(m)
    BY DEF TickNight, EngineInv, NightTargetsInStep, InStep
  <1>3. \/ phase' = "DAY" /\ ResolveNight
        \/ /\ phase' = "NIGHT"
           /\ UNCHANGED <<day, deadline, nightStep, nightStepDeadline, paused, winner,
                          endReason, alive, introIdx, role, rep, policeChecked,
                          policeHistory>>
        \/ /\ phase' = "NIGHT" /\ nightStep' \in NightSteps
           /\ NightOffset(nightStep') > NightOffset(nightStep)
           /\ nightStepDeadline' = ChainedDeadline(nightStep')
           /\ UNCHANGED <<day, deadline, paused, winner, endReason, alive, introIdx,
                          role, rep, policeChecked, policeHistory>>
    BY <1>2 DEF TickNight, ResolveNight, introVars, stepVars, targetVars, pauseVars, endVars
  <1>4. last \in NightSteps /\ StepIndex(nightStep) <= StepIndex(last)
    <2>1. CASE phase' = "DAY"
      BY <1>2, <2>1, StepNumbered DEF NightSteps
    <2>2. CASE phase' = "NIGHT" /\ nightStep' = nightStep
      BY <1>2, <2>2, StepNumbered
    <2>3. CASE /\ phase' = "NIGHT" /\ nightStep' \in NightSteps
               /\ NightOffset(nightStep') > NightOffset(nightStep)
      BY <1>2, <2>3, LaterStep, StepNumbered
    <2> QED BY <1>3, <2>1, <2>2, <2>3
  <1>5. Len(end) \in Nat
    BY ReassignLength DEF ResolveEvents
  <1>6. steps = [i \in 1..(StepIndex(last) - StepIndex(nightStep)) |->
                   NightStepChanged(StepOrder[StepIndex(nightStep) + i],
                                    ChainedDeadline(StepOrder[StepIndex(nightStep) + i]))]
    OBVIOUS
  <1>7. Len(steps) \in Nat
    <2>1. StepIndex(last) \in Int /\ StepIndex(nightStep) \in Int
      BY <1>2, <1>4, StepNumbered
    <2>2. StepIndex(last) - StepIndex(nightStep) \in Nat
      BY <1>4, <2>1
    <2> QED BY <2>2
  <1>8. /\ phase' = "DAY" => last = "DOCTOR" /\ end = ResolveEvents
        /\ phase' = "NIGHT" => last = nightStep' /\ end = <<>>
    OBVIOUS
  <1> HIDE DEF last, steps, end
  <1>9. PICK k : Becomes(v, m, steps, k) /\ Becomes(v, k, end, n)
    BY <1>1, <1>5, <1>7, BecomesJoin
  <1>10. /\ IsCopy(k) /\ Same(m, k, {"nightStep", "nightStepDeadline"})
         /\ StepIndex(nightStep) < StepIndex(last) =>
              k.nightStep = last /\ k.nightStepDeadline = ChainedDeadline(last)
         /\ last = nightStep => k = m
    BY <1>2, <1>4, <1>6, <1>9, StepsReceived
  <1>11. CASE phase' = "DAY" /\ ResolveNight
    BY <1>2, <1>8, <1>9, <1>10, <1>11, ResolveInStep
  <1>12. CASE /\ phase' = "NIGHT"
              /\ UNCHANGED <<day, deadline, nightStep, nightStepDeadline, paused, winner,
                             endReason, alive, introIdx, role, rep, policeChecked,
                             policeHistory>>
    <2>1. n = m
      BY <1>8, <1>9, <1>10, <1>12, BecomesNone
    <2> QED BY <1>2, <1>12, <2>1, QuietInStep
  <1>13. CASE /\ phase' = "NIGHT" /\ nightStep' \in NightSteps
              /\ NightOffset(nightStep') > NightOffset(nightStep)
              /\ nightStepDeadline' = ChainedDeadline(nightStep')
              /\ UNCHANGED <<day, deadline, paused, winner, endReason, alive, introIdx,
                             role, rep, policeChecked, policeHistory>>
    <2>1. n = k
      BY <1>8, <1>9, <1>13, BecomesNone
    <2>2. StepIndex(nightStep) < StepIndex(last)
      BY <1>2, <1>8, <1>13, LaterStep
    <2>3. n.nightStep = nightStep' /\ n.nightStepDeadline = nightStepDeadline'
      BY <1>8, <1>10, <1>13, <2>1, <2>2
    <2>4. IsCopy(n) /\ \A f \in Fields \ {"nightStep", "nightStepDeadline"} : n[f] = m[f]
      BY <1>10, <2>1 DEF Same
    <2> QED BY <1>2, <1>13, <2>3, <2>4 DEF InStep, Shows, ShowsOwn, Mafia, Fields
  <1> QED BY <1>3, <1>11, <1>12, <1>13

\* The mafia's target is kept in no copy.
LEMMA TargetInStep ==
  ASSUME NEW c \in Players, NEW target \in Players, SubmitMafiaKill(c, target),
         NEW v \in Watchers, NEW m, InStep(v, m),
         NEW n, Becomes(v, m, MafiaTargetEvents(target), n)
  PROVE  InStep(v, n)'
  <1> DEFINE e == [kind |-> "MafiaTargetSelected", rep |-> rep, target |-> target]
  <1>1. MafiaTargetEvents(target) = <<MafiaOnly(e)>> /\ e.kind = "MafiaTargetSelected"
    BY DEF MafiaTargetEvents
  <1> HIDE DEF e
  <1>2. n = Reduce(v, m, MafiaOnly(e))
    BY <1>1, BecomesOne
  <1>3. ApplyEvent(m, e) = m
    BY <1>1 DEF ApplyEvent
  <1>4. n = m
    BY <1>1, <1>2, <1>3, MafiaReceived
  <1>5. /\ phase # "NONE"
        /\ UNCHANGED <<phase, day, deadline, nightStep, nightStepDeadline, paused, winner,
                       endReason, alive, introIdx, role, rep, policeChecked, policeHistory>>
    BY DEF SubmitMafiaKill, introVars, stepVars, pauseVars, endVars
  <1> QED BY <1>4, <1>5, QuietInStep

\* There is one police.
LEMMA OnePolice ==
  ASSUME role \in Deals, NEW p \in Players, NEW q \in Players,
         role[p] = "POLICE", role[q] = "POLICE"
  PROVE  p = q
  <1> DEFINE S == {x \in Players : role[x] = "POLICE"}
  <1>1. Cardinality(S) = 1
    BY DealsAssumption DEF DealsAssumption, Assignments
  <1>2. p \in S /\ q \in S /\ S \subseteq Players
    OBVIOUS
  <1> HIDE DEF S
  <1>3. IsFiniteSet(S)
    BY <1>2, RosterAssumption, FS_Subset DEF RosterAssumption
  <1>4. \E x : S = {x}
    BY <1>1, <1>3, FS_Singleton
  <1> QED BY <1>2, <1>4

\* What the police find out goes to their own list.
LEMMA PoliceInStep ==
  ASSUME EngineInv, NEW c \in Players, NEW target \in Players, SubmitPoliceCheck(c, target),
         NEW v \in Watchers, NEW m, InStep(v, m),
         NEW n, Becomes(v, m, PoliceEvents(c, target), n)
  PROVE  InStep(v, n)'
  <1> DEFINE team == TeamOf(role[target])
             e == [kind |-> "PoliceResult", target |-> target, team |-> team]
  <1>1. /\ PoliceEvents(c, target) = <<Priv(e, c)>> /\ e.kind = "PoliceResult"
        /\ e.target = target /\ e.team = team
    BY DEF PoliceEvents
  <1>2. /\ phase = "NIGHT" /\ role[c] = "POLICE" /\ policeChecked' = TRUE
        /\ policeHistory' = Append(policeHistory, [day |-> day, target |-> target, team |-> team])
        /\ UNCHANGED <<phase, day, deadline, nightStep, nightStepDeadline, paused, winner,
                       endReason, alive, introIdx, role, rep>>
    BY DEF SubmitPoliceCheck, introVars, stepVars, pauseVars, endVars
  <1> HIDE DEF e, team
  <1>3. n = Reduce(v, m, Priv(e, c))
    BY <1>1, BecomesOne
  <1>4. n = IF v = c THEN ApplyEvent(m, e) ELSE m
    BY <1>1, <1>3, PrivateReceived
  <1>5. CASE v = c
    <2>1. n = [m EXCEPT !.policeChecked = TRUE,
                        !.policeHistory = Append(@, [day |-> m.day, target |-> target,
                                                     team |-> team])]
      BY <1>1, <1>4, <1>5 DEF ApplyEvent
    <2>2. m.day = day /\ m.policeHistory = policeHistory
      BY <1>2, <1>5 DEF InStep, Shows, ShowsOwn
    <2>3. IsCopy(m)
      BY DEF InStep
    <2>4. /\ IsCopy(n) /\ \A f \in Fields \ {"policeChecked", "policeHistory"} : n[f] = m[f]
          /\ n.policeChecked = policeChecked' /\ n.policeHistory = policeHistory'
      BY <1>2, <2>1, <2>2, <2>3 DEF IsCopy, Fields
    <2> QED BY <1>2, <2>4 DEF InStep, Shows, ShowsOwn, Mafia, Fields
  <1>6. CASE v # c
    <2>1. n = m
      BY <1>4, <1>6
    <2>2. v \in Players => role[v] # "POLICE"
      BY <1>2, <1>6, OnePolice DEF EngineInv, Dealt
    <2> QED BY <1>2, <2>1, <2>2 DEF InStep, Shows, ShowsOwn, Mafia
  <1> QED BY <1>5, <1>6

\* handlePauseGame.
LEMMA PauseInStep ==
  ASSUME phase # "NONE", NEW h, PauseGame(h),
         NEW v \in Watchers, NEW m, InStep(v, m),
         NEW n, Becomes(v, m, PausedEvents, n)
  PROVE  InStep(v, n)'
  <1> DEFINE e == [kind |-> "GamePaused"]
  <1>1. PausedEvents = <<Pub(e)>> /\ e.kind = "GamePaused"
    BY DEF PausedEvents
  <1> HIDE DEF e
  <1>2. n = Reduce(v, m, Pub(e))
    BY <1>1, BecomesOne
  <1>3. n = ApplyEvent(m, e)
    BY <1>1, <1>2, PublicReceived
  <1>4. n = [m EXCEPT !.paused = TRUE]
    BY <1>1, <1>3 DEF ApplyEvent
  <1>5. IsCopy(n) /\ n.paused = TRUE /\ \A f \in Fields \ {"paused"} : n[f] = m[f]
    BY <1>4 DEF InStep, IsCopy, Fields
  <1>6. /\ paused' = TRUE
        /\ UNCHANGED <<phase, day, deadline, nightStep, nightStepDeadline, winner,
                       endReason, alive, introIdx, role, rep, policeChecked, policeHistory>>
    BY DEF PauseGame, introVars, stepVars, targetVars, endVars
  <1> QED BY <1>5, <1>6 DEF InStep, Shows, ShowsOwn, Mafia, Fields

\* A timer moved forward by the pause: what the reducer makes of its new deadline.
LEMMA Shifted ==
  ASSUME NEW d \in Nat, NEW s \in Nat, NEW e, e = IF d # 0 THEN d + s ELSE d
  PROVE  (IF e > 0 THEN e ELSE d) = e
  OBVIOUS

\* handleResumeGame: of the two deadlines only the running one moves.
LEMMA ResumeInStep ==
  ASSUME EngineInv, phase # "NONE", NEW h, ResumeGame(h),
         NEW v \in Watchers, NEW m, InStep(v, m),
         NEW n, Becomes(v, m, ResumedEvents, n)
  PROVE  InStep(v, n)'
  <1> DEFINE shift == IF now >= pausedAt THEN now - pausedAt ELSE 0
             at == CASE phase = "DAY" -> deadline'
                     [] phase = "NIGHT" -> nightStepDeadline'
                     [] OTHER -> 0
             e == [kind |-> "GameResumed", phase |-> phase, deadline |-> at]
  <1>1. ResumedEvents = <<Pub(e)>> /\ e.kind = "GameResumed" /\ e.phase = phase /\ e.deadline = at
    BY DEF ResumedEvents
  <1>2. /\ phase = "DAY" => at = deadline'
        /\ phase = "NIGHT" => at = nightStepDeadline'
    OBVIOUS
  <1>3. shift \in Nat
    BY DEF EngineInv, TypeOK, ClockType
  <1>4. /\ deadline' = IF phase = "DAY" THEN (IF deadline # 0 THEN deadline + shift ELSE deadline)
                       ELSE deadline
        /\ nightStepDeadline' = IF phase = "NIGHT"
                                THEN (IF nightStepDeadline # 0 THEN nightStepDeadline + shift
                                      ELSE nightStepDeadline)
                                ELSE nightStepDeadline
        /\ paused' = FALSE
        /\ UNCHANGED <<phase, day, nightStep, winner, endReason, alive, introIdx, role, rep,
                       policeChecked, policeHistory>>
    BY DEF ResumeGame, targetVars
  <1> HIDE DEF shift, at, e
  <1>5. n = Reduce(v, m, Pub(e))
    BY <1>1, BecomesOne
  <1>6. n = ApplyEvent(m, e)
    BY <1>1, <1>5, PublicReceived
  <1>7. n = [m EXCEPT !.paused = FALSE,
                      !.deadline = IF phase = "DAY" /\ at > 0 THEN at ELSE @,
                      !.nightStepDeadline = IF phase = "NIGHT" /\ at > 0 THEN at ELSE @]
    BY <1>1, <1>6 DEF ApplyEvent
  <1>8. /\ IsCopy(n) /\ n.paused = FALSE
        /\ n.deadline = IF phase = "DAY" /\ at > 0 THEN at ELSE m.deadline
        /\ n.nightStepDeadline = IF phase = "NIGHT" /\ at > 0 THEN at ELSE m.nightStepDeadline
        /\ \A f \in Fields \ {"paused", "deadline", "nightStepDeadline"} : n[f] = m[f]
    BY <1>7 DEF InStep, IsCopy, Fields
  <1>9. m.deadline = deadline /\ m.nightStepDeadline = nightStepDeadline
    BY DEF InStep, Shows
  <1>10. deadline \in Nat /\ nightStepDeadline \in Nat
    BY DEF EngineInv, TypeOK, ClockType
  <1>11. n.deadline = deadline'
    <2>1. CASE phase = "DAY"
      <3>1. at = IF deadline # 0 THEN deadline + shift ELSE deadline
        BY <1>2, <1>4, <2>1
      <3>2. (IF at > 0 THEN at ELSE deadline) = at
        BY <1>3, <1>10, <3>1, Shifted
      <3> QED BY <1>2, <1>8, <1>9, <2>1, <3>2
    <2> QED BY <1>4, <1>8, <1>9, <2>1
  <1>12. n.nightStepDeadline = nightStepDeadline'
    <2>1. CASE phase = "NIGHT"
      <3>1. at = IF nightStepDeadline # 0 THEN nightStepDeadline + shift ELSE nightStepDeadline
        BY <1>2, <1>4, <2>1
      <3>2. (IF at > 0 THEN at ELSE nightStepDeadline) = at
        BY <1>3, <1>10, <3>1, Shifted
      <3> QED BY <1>2, <1>8, <1>9, <2>1, <3>2
    <2> QED BY <1>4, <1>8, <1>9, <2>1
  <1>13. n.paused = paused'
    BY <1>4, <1>8
  <1>14. UNCHANGED <<phase, day, nightStep, winner, endReason, alive, introIdx, role, rep,
                     policeChecked, policeHistory>>
    BY <1>4
  <1>15. IsCopy(n) /\ \A f \in Fields \ {"paused", "deadline", "nightStepDeadline"} : n[f] = m[f]
    BY <1>8
  <1> QED BY <1>11, <1>12, <1>13, <1>14, <1>15 DEF InStep, Shows, ShowsOwn, Mafia, Fields

\* endGame and handleForceEnd.
LEMMA EndInStep ==
  ASSUME phase # "NONE", phase' = "END",
         UNCHANGED <<day, deadline, nightStep, nightStepDeadline, paused, alive, role, rep,
                     policeChecked, policeHistory>>,
         NEW v \in Watchers, NEW m, InStep(v, m),
         NEW n, Becomes(v, m, EndEvents, n)
  PROVE  InStep(v, n)'
  <1> DEFINE w == winner'
             r == endReason'
             e == [kind |-> "GameEnded", winner |-> w, reason |-> r, reveal |-> role,
                   survivors |-> alive]
  <1>1. /\ EndEvents = <<Pub(e)>> /\ e.kind = "GameEnded"
        /\ e.winner = w /\ e.reason = r /\ e.survivors = alive
    BY DEF EndEvents
  <1>2. winner' = w /\ endReason' = r
    OBVIOUS
  <1> HIDE DEF e, w, r
  <1>3. n = Reduce(v, m, Pub(e))
    BY <1>1, BecomesOne
  <1>4. n = ApplyEvent(m, e)
    BY <1>1, <1>3, PublicReceived
  <1>5. n = [m EXCEPT !.phase = "END", !.winner = w, !.reason = r,
                      !.players = Players, !.alive = alive]
    BY <1>1, <1>4 DEF ApplyEvent
  <1>6. /\ IsCopy(n) /\ n.phase = "END" /\ n.winner = w /\ n.reason = r /\ n.alive = alive
        /\ \A f \in Fields \ {"phase", "winner", "reason", "players", "alive"} : n[f] = m[f]
    BY <1>5 DEF InStep, IsCopy, Fields
  <1> QED BY <1>2, <1>6 DEF InStep, Shows, ShowsOwn, Mafia, Fields

\* The envelope with a player's role.
LEMMA RoleReceived ==
  ASSUME NEW v, NEW m, NEW p, NEW x
  PROVE  Reduce(v, m, Priv([kind |-> "RoleRevealedToPlayer", player |-> p, role |-> x], p))
           = IF v = p THEN [m EXCEPT !.your = x] ELSE m
  <1> DEFINE e == [kind |-> "RoleRevealedToPlayer", player |-> p, role |-> x]
  <1>1. e.kind = "RoleRevealedToPlayer" /\ e.role = x
    OBVIOUS
  <1> HIDE DEF e
  <1>2. Reduce(v, m, Priv(e, p)) = IF v = p THEN ApplyEvent(m, e) ELSE m
    <2>1. e.kind # "GameStarted"
      BY <1>1
    <2>2. BuildEventPayload(e) = e
      BY <2>1 DEF BuildEventPayload
    <2>3. /\ Priv(e, p).event = e /\ Priv(e, p).visibility = "PLAYER"
          /\ Priv(e, p).player = p
      BY DEF Priv
    <2> QED BY <2>2, <2>3 DEF Reduce, Route
  <1>3. ApplyEvent(m, e) = [m EXCEPT !.your = x]
    BY <1>1 DEF ApplyEvent
  <1> QED BY <1>2, <1>3 DEF e

\* The deal: everybody hears their own role.
LEMMA DealReceived ==
  ASSUME NEW v \in Watchers, NEW m, IsCopy(m), NEW r, NEW dealt,
         dealt = [i \in 1..Len(Roster) |->
                    Priv([kind |-> "RoleRevealedToPlayer", player |-> Roster[i],
                          role |-> r[Roster[i]]], Roster[i])],
         NEW n, Becomes(v, m, dealt, n)
  PROVE  /\ IsCopy(n) /\ Same(m, n, {"your"})
         /\ v \in Players => n.your = r[v]
  <1> DEFINE c == Len(Roster)
  <1>1. c \in Nat /\ Len(dealt) = c
    BY RosterNonempty
  <1>2. PICK seen : Passes(v, m, dealt, seen) /\ seen[c] = n
    BY <1>1 DEF Becomes
  <1>3. ASSUME NEW i \in 1..c
        PROVE  seen[i] = IF v = Roster[i] THEN [seen[i - 1] EXCEPT !.your = r[v]]
                         ELSE seen[i - 1]
    <2>1. dealt[i] = Priv([kind |-> "RoleRevealedToPlayer", player |-> Roster[i],
                           role |-> r[Roster[i]]], Roster[i])
      OBVIOUS
    <2>2. seen[i] = Reduce(v, seen[i - 1], dealt[i])
      BY <1>1, <1>2 DEF Passes
    <2> DEFINE p == Roster[i]
               k == seen[i - 1]
    <2>3. seen[i] = Reduce(v, k, Priv([kind |-> "RoleRevealedToPlayer", player |-> p,
                                        role |-> r[p]], p))
      BY <2>1, <2>2
    <2> HIDE DEF p, k
    <2>4. seen[i] = IF v = p THEN [k EXCEPT !.your = r[p]] ELSE k
      BY <2>3, RoleReceived
    <2> QED BY <2>4 DEF p, k
  <1> DEFINE S == {i \in 0..c : /\ IsCopy(seen[i]) /\ Same(m, seen[i], {"your"})
                                /\ \A j \in 1..i : Roster[j] = v => seen[i].your = r[v]}
  <1>4. 0 \in S
    BY <1>1, <1>2 DEF Passes, Same
  <1>5. ASSUME NEW i \in 0..(c - 1), i \in S PROVE i + 1 \in S
    <2>1. i + 1 \in 1..c /\ (i + 1) - 1 = i /\ \A j \in 1..(i + 1) : j = i + 1 \/ j \in 1..i
      BY <1>1
    <2> DEFINE k == seen[i]
               l == seen[i + 1]
    <2>2. l = IF v = Roster[i + 1] THEN [k EXCEPT !.your = r[v]] ELSE k
      BY <1>3, <2>1
    <2>3. /\ IsCopy(k) /\ Same(m, k, {"your"})
          /\ \A j \in 1..i : Roster[j] = v => k.your = r[v]
      BY <1>5
    <2> HIDE DEF k, l
    <2>4. IsCopy(l) /\ Same(k, l, {"your"}) /\ l.your = IF v = Roster[i + 1] THEN r[v] ELSE k.your
      BY <2>2, <2>3 DEF IsCopy, Same, Fields
    <2>5. Same(m, l, {"your"})
      BY <2>3, <2>4, SameKept
    <2>6. \A j \in 1..(i + 1) : Roster[j] = v => l.your = r[v]
      BY <2>1, <2>3, <2>4
    <2> QED BY <2>1, <2>4, <2>5, <2>6 DEF l
  <1>6. c \in S
    <2> HIDE DEF S, c
    <2>1. 0..c \subseteq S
      BY <1>1, <1>4, <1>5, SetInduction
    <2> QED BY <1>1, <2>1
  <1>7. /\ IsCopy(n) /\ Same(m, n, {"your"})
        /\ \A j \in 1..c : Roster[j] = v => n.your = r[v]
    BY <1>2, <1>6
  <1> QED BY <1>7, RosterAssumption DEF RosterAssumption

\* The state of a new game is stripped from its announcement.
LEMMA GameStartedReceived ==
  ASSUME NEW v \in Watchers, NEW m, NEW s
  PROVE  Reduce(v, m, Pub([kind |-> "GameStarted", state |-> s])) = m
  <1> DEFINE e == [kind |-> "GameStarted", state |-> s]
             f == [kind |-> "GameStarted"]
  <1>1. Pub(e).event = e /\ Pub(e).visibility = "PUBLIC"
    BY DEF Pub
  <1>2. BuildEventPayload(e) = f
    BY DEF BuildEventPayload
  <1>3. f.kind = "GameStarted"
    OBVIOUS
  <1> HIDE DEF e, f
  <1>4. Reduce(v, m, Pub(e)) = ApplyEvent(m, f)
    BY <1>1, <1>2 DEF Reduce, Route
  <1>5. ApplyEvent(m, f) = m
    BY <1>3 DEF ApplyEvent
  <1> QED BY <1>4, <1>5 DEF e

\* The mafia hear of each other.
LEMMA CohortReceived ==
  ASSUME NEW v, NEW m, IsCopy(m), NEW r, NEW who,
         NEW n, n = Reduce(v, m, MafiaOnly([kind |-> "MafiaCohortRevealed",
                                             rep |-> r, mafia |-> who]))
  PROVE  /\ IsCopy(n) /\ Same(m, n, {"cohort", "rep"})
         /\ v \in {p \in alive' : role'[p] = "MAFIA"} => n.cohort = who /\ n.rep = r
  <1> DEFINE e == [kind |-> "MafiaCohortRevealed", rep |-> r, mafia |-> who]
  <1>1. e.kind = "MafiaCohortRevealed" /\ e.rep = r /\ e.mafia = who
    OBVIOUS
  <1>2. n = Reduce(v, m, MafiaOnly(e))
    OBVIOUS
  <1> HIDE DEF e
  <1>3. n = IF v \in {p \in alive' : role'[p] = "MAFIA"} THEN ApplyEvent(m, e) ELSE m
    BY <1>1, <1>2, MafiaReceived
  <1>4. ApplyEvent(m, e) = [m EXCEPT !.cohort = who, !.rep = r]
    BY <1>1 DEF ApplyEvent
  <1> DEFINE here == v \in {p \in alive' : role'[p] = "MAFIA"}
             l == [m EXCEPT !.cohort = who, !.rep = r]
  <1>5. IsCopy(l) /\ Same(m, l, {"cohort", "rep"}) /\ l.cohort = who /\ l.rep = r
    BY DEF IsCopy, Same, Fields
  <1>6. Same(m, m, {"cohort", "rep"})
    BY DEF Same
  <1>7. n = IF here THEN l ELSE m
    BY <1>3, <1>4
  <1> HIDE DEF l, here
  <1>8. /\ IsCopy(n) /\ Same(m, n, {"cohort", "rep"})
        /\ here => n.cohort = who /\ n.rep = r
    BY <1>5, <1>6, <1>7
  <1> QED BY <1>8 DEF here

\* Engine.Start: from the lobby to the first speaker.
LEMMA StartInStep ==
  ASSUME EngineInv, EngineInv', Start,
         NEW v \in Watchers, NEW m, InStep(v, m),
         NEW n, Becomes(v, m, StartEvents, n)
  PROVE  InStep(v, n)'
  <1> DEFINE ro == role'
             re == rep'
             da == day'
             who == {p \in Players : ro[p] = "MAFIA"}
             started == Pub([kind |-> "GameStarted", state |-> ro])
             dealt == [i \in 1..Len(Roster) |->
                         Priv([kind |-> "RoleRevealedToPlayer", player |-> Roster[i],
                               role |-> ro[Roster[i]]], Roster[i])]
             cohort == MafiaOnly([kind |-> "MafiaCohortRevealed", rep |-> re, mafia |-> who])
             intro == PhaseChanged("INTRO", da, 0)
             first == IntroSpeakerChanged(Roster[1])
             rest == dealt \o <<cohort, intro, first>>
  <1>1. StartEvents = (<<started>> \o dealt) \o <<cohort, intro, first>>
    BY DEF StartEvents
  <1>2. /\ Len(<<started>>) \in Nat /\ Len(dealt) \in Nat
        /\ Len(<<started>> \o dealt) \in Nat /\ Len(<<cohort, intro, first>>) \in Nat
    BY RosterNonempty
  <1>3. IsCopy(m) /\ Fresh(m)
    BY DEF Start, InStep
  <1>4. /\ phase' = "INTRO" /\ introIdx' = 0 /\ alive' = Players
        /\ deadline' = 0 /\ nightStep' = "NONE" /\ nightStepDeadline' = 0
        /\ policeChecked' = FALSE /\ policeHistory' = <<>>
        /\ paused' = FALSE /\ winner' = "NONE" /\ endReason' = "NONE"
    BY DEF Start, EngineInv, TimersStopped, NightTargetsInStep, Dealt, TypeOK, FlagType,
           pauseVars, endVars, stepVars, targetVars
  <1>5. role' = ro /\ rep' = re /\ day' = da
    OBVIOUS
  <1>6. dealt = [i \in 1..Len(Roster) |->
                   Priv([kind |-> "RoleRevealedToPlayer", player |-> Roster[i],
                         role |-> ro[Roster[i]]], Roster[i])]
    OBVIOUS
  <1> HIDE DEF ro, re, da, dealt
  <1>7. PICK k : /\ Becomes(v, m, <<started>> \o dealt, k)
                 /\ Becomes(v, k, <<cohort, intro, first>>, n)
    <2> HIDE DEF started, cohort, intro, first
    <2> QED BY <1>1, <1>2, BecomesJoin
  <1>8. Becomes(v, m, dealt, k)
    <2>1. Reduce(v, m, started) = m
      BY GameStartedReceived
    <2> HIDE DEF started
    <2>2. PICK l : Becomes(v, m, <<started>>, l) /\ Becomes(v, l, dealt, k)
      BY <1>2, <1>7, BecomesJoin
    <2>3. l = m
      BY <2>1, <2>2, BecomesOne
    <2> QED BY <2>2, <2>3
  <1>9. IsCopy(k) /\ Same(m, k, {"your"}) /\ (v \in Players => k.your = ro[v])
    BY <1>3, <1>6, <1>8, DealReceived
  <1> DEFINE l1 == Reduce(v, k, cohort)
             l2 == Reduce(v, l1, intro)
  <1>10. n = Reduce(v, l2, first)
    <2> HIDE DEF cohort, intro, first
    <2> QED BY <1>7, BecomesThree
  <1>11. /\ IsCopy(l1) /\ Same(k, l1, {"cohort", "rep"})
         /\ v \in {p \in alive' : role'[p] = "MAFIA"} => l1.cohort = who /\ l1.rep = re
    <2>1. l1 = Reduce(v, k, MafiaOnly([kind |-> "MafiaCohortRevealed",
                                      rep |-> re, mafia |-> who]))
      OBVIOUS
    <2> HIDE DEF l1, who, re
    <2> QED BY <1>9, <2>1, CohortReceived
  <1> HIDE DEF l1
  <1>12. NewPhase(l1, l2, "INTRO", da, 0)
    BY <1>11, PhaseReceived
  <1>13. IsCopy(l2)
    BY <1>12 DEF NewPhase
  <1> HIDE DEF l2
  <1> DEFINE i == SpeakerIndex(l2, Roster[1])
  <1>14. NewSpeaker(l2, n, i)
    BY <1>10, <1>13, SpeakerReceived
  <1>15. /\ IsCopy(n) /\ n.speaker = i /\ Same(l2, n, {"speaker"})
         /\ Same(l1, l2, PhaseFields)
         /\ l2.phase = "INTRO" /\ l2.day = da /\ l2.deadline = 0
         /\ l2.nightStep = "NONE" /\ l2.nightStepDeadline = 0 /\ l2.policeChecked = FALSE
    <2> HIDE DEF i
    <2> QED BY <1>12, <1>14 DEF NewPhase, NewSpeaker
  <1>16. /\ n.phase = "INTRO" /\ n.day = da /\ n.deadline = 0 /\ n.nightStep = "NONE"
         /\ n.nightStepDeadline = 0 /\ n.policeChecked = FALSE
    BY <1>15 DEF Same, Fields
  <1>17. /\ n.paused = m.paused /\ n.winner = m.winner /\ n.reason = m.reason
         /\ n.policeHistory = m.policeHistory /\ n.players = m.players /\ n.alive = m.alive
         /\ n.your = k.your /\ n.cohort = l1.cohort /\ n.rep = l1.rep
         /\ l2.players = m.players
    BY <1>9, <1>11, <1>15 DEF Same, Fields, PhaseFields
  <1>18. m.players = Players => n.speaker = 0
    <2>1. 1 \in 1..Len(Roster)
      BY RosterNonempty
    <2>2. m.players = Players => i = 1 - 1
      BY <1>17, <2>1, SpeakerSeat
    <2> HIDE DEF i
    <2> QED BY <1>15, <2>2
  <1>19. Mafia' = who
    BY <1>5 DEF Mafia
  <1>20. v \in Mafia' => n.cohort = Mafia' /\ n.rep = rep'
    BY <1>4, <1>5, <1>11, <1>17, <1>19
  <1>21. Shows(n)'
    BY <1>3, <1>4, <1>5, <1>16, <1>17, <1>18 DEF Fresh, Shows
  <1>22. v \in Players => ShowsOwn(v, n)'
    BY <1>3, <1>4, <1>5, <1>9, <1>16, <1>17, <1>20 DEF Fresh, ShowsOwn
  <1> QED BY <1>4, <1>15, <1>21, <1>22 DEF InStep

-----------------------------------------------------------------------------
(* The clients stay in step *)

\* What Deliver hands over is what the reducers take in.
LEMMA Delivered ==
  ASSUME NEW envs, Deliver(envs), SafeSeq(envs), NEW c \in Watchers, c \in linked,
         NEW v, v = Identity(c), NEW m, m = copy[c], NEW n, n = copy'[c]
  PROVE  Becomes(v, m, envs, n)
  <1>1. ReduceCopies(envs)
    BY DEF Deliver
  <1>2. Len(envs) \in Nat
    BY DEF SafeSeq
  <1> QED BY <1>1, <1>2, ReducersRun

\* A seat reached by handing the turn on.
LEMMA SeatReached ==
  ASSUME NEW l \in Nat, NEW i \in 0..(l - 1), NEW j, \E k \in Nat : j = i + k PROVE i <= j
  OBVIOUS

\* handleEndSelfIntro, handleAdvanceIntro and tickIntro.
LEMMA SpeakersInStep ==
  ASSUME EngineInv, EngineInv', phase = "INTRO",
         \/ NextSpeaker
         \/ \E t : TickIntro(t),
         NEW v \in Watchers, NEW m, InStep(v, m),
         NEW n, Becomes(v, m, IntroEvents, n)
  PROVE  InStep(v, n)'
  <1>1. introIdx \in 0..(Len(Roster) - 1) /\ Len(Roster) \in Nat
    BY RosterNonempty DEF EngineInv, TypeOK, ClockType
  <1>2. \E k \in Nat : introIdx' = introIdx + k
    <2>1. introIdx \in Int
      BY <1>1
    <2>2. CASE NextSpeaker
      <3>1. introIdx' = introIdx + 1 \/ introIdx' = introIdx + 0
        BY <2>1, <2>2 DEF NextSpeaker, introVars
      <3> QED BY <3>1
    <2>3. CASE \E t : TickIntro(t)
      <3>1. PICK k \in 0..(Len(Roster) - 1 - introIdx) : introIdx' = introIdx + k
        BY <2>3 DEF TickIntro
      <3> QED BY <1>1, <3>1
    <2> QED BY <2>2, <2>3
  <1>3. introIdx <= introIdx'
    <2> DEFINE j == introIdx'
    <2>1. \E k \in Nat : j = introIdx + k
      BY <1>2
    <2> HIDE DEF j
    <2>2. introIdx <= j
      BY <1>1, <2>1, SeatReached
    <2> QED BY <2>2 DEF j
  <1>4. UNCHANGED <<role, day, alive, rep, paused, winner, endReason, policeHistory>>
    BY DEF NextSpeaker, TickIntro, TransitionIntroToDay, pauseVars, endVars
  <1>5. \/ phase' = "DAY"
        \/ UNCHANGED <<phase, deadline, nightStep, nightStepDeadline, policeChecked>>
    BY DEF NextSpeaker, TickIntro, TransitionIntroToDay, stepVars, targetVars
  <1> QED BY <1>3, <1>4, <1>5, IntroInStep

\* Tick, by the branch it takes.
LEMMA TickInStep ==
  ASSUME EngineInv, EngineInv', NEW t, Ticker(t),
         NEW v \in Watchers, NEW m, InStep(v, m),
         NEW n, Becomes(v, m, TickEvents(t), n)
  PROVE  InStep(v, n)'
  <1>1. phase # "NONE" /\ Tick(t)
    BY DEF Ticker
  <1>2. ASSUME n = m,
               UNCHANGED <<phase, day, deadline, nightStep, nightStepDeadline, paused, winner,
                           endReason, alive, introIdx, role, rep, policeChecked,
                           policeHistory>>
        PROVE  InStep(v, n)'
    BY <1>1, <1>2, QuietInStep
  <1>3. CASE paused \/ StaleTick(t)
    <2>1. TickEvents(t) = <<>> /\ UNCHANGED vars
      BY <1>1, <1>3 DEF TickEvents, Tick
    <2>2. n = m
      BY <2>1, BecomesNone
    <2>3. UNCHANGED <<phase, day, deadline, nightStep, nightStepDeadline, paused, winner,
                      endReason, alive, introIdx, role, rep, policeChecked, policeHistory>>
      BY <2>1 DEF vars, introVars, stepVars, targetVars, pauseVars, endVars
    <2> QED BY <1>2, <2>2, <2>3
  <1>4. CASE ~(paused \/ StaleTick(t)) /\ EndDue(t)
    <2>1. TickEvents(t) = EndEvents /\ FirePendingEnd(t)
      BY <1>1, <1>4 DEF TickEvents, Tick
    <2>2. /\ phase' = "END"
          /\ UNCHANGED <<day, deadline, nightStep, nightStepDeadline, paused, alive, role, rep,
                         policeChecked, policeHistory>>
      BY <2>1 DEF FirePendingEnd, stepVars, targetVars, pauseVars
    <2>3. Becomes(v, m, EndEvents, n)
      BY <2>1
    <2> QED BY <1>1, <2>2, <2>3, EndInStep
  <1>5. CASE ~(paused \/ StaleTick(t)) /\ ~EndDue(t)
    <2>1. /\ TickEvents(t) = CASE phase = "INTRO" -> IntroEvents
                               [] phase = "DAY" -> IF phase' = "VOTE" THEN VoteBegins ELSE <<>>
                               [] phase = "NIGHT" -> NightTickEvents
                               [] OTHER -> <<>>
          /\ TickIntro(t) \/ TickDay(t) \/ TickNight(t) \/ TickIdle(t)
      BY <1>1, <1>5 DEF TickEvents, Tick, FirePendingEnd
    <2>2. CASE TickIntro(t)
      <3>1. phase = "INTRO"
        BY <2>2 DEF TickIntro
      <3>2. Becomes(v, m, IntroEvents, n)
        BY <2>1, <3>1
      <3> QED BY <2>2, <3>1, <3>2, SpeakersInStep
    <2>3. CASE TickDay(t) /\ TransitionDayToVote(t)
      <3>1. phase = "DAY" /\ phase' = "VOTE"
        BY <2>3 DEF TickDay, TransitionDayToVote
      <3>2. Becomes(v, m, VoteBegins, n)
        BY <2>1, <3>1
      <3> QED BY <2>3, <3>1, <3>2, VoteBeginsInStep
    <2>4. CASE TickDay(t) /\ ~TransitionDayToVote(t)
      <3>1. /\ phase = "DAY"
            /\ UNCHANGED <<phase, day, deadline, nightStep, nightStepDeadline, paused, winner,
                           endReason, alive, introIdx, role, rep, policeChecked,
                           policeHistory>>
        BY <2>4 DEF TickDay, introVars, stepVars, targetVars, pauseVars, endVars
      <3>2. TickEvents(t) = <<>>
        BY <2>1, <3>1
      <3>3. n = m
        BY <3>2, BecomesNone
      <3> QED BY <1>2, <3>1, <3>3
    <2>5. CASE TickNight(t)
      <3>1. phase = "NIGHT"
        BY <2>5 DEF TickNight
      <3>2. Becomes(v, m, NightTickEvents, n)
        BY <2>1, <3>1
      <3> QED BY <2>5, <3>2, NightTickInStep
    <2>6. CASE TickIdle(t)
      <3>1. /\ phase \notin {"INTRO", "DAY", "NIGHT"}
            /\ UNCHANGED <<phase, day, deadline, nightStep, nightStepDeadline, paused, winner,
                           endReason, alive, introIdx, role, rep, policeChecked,
                           policeHistory>>
        BY <2>6 DEF TickIdle, introVars, stepVars, targetVars, pauseVars, endVars
      <3>2. TickEvents(t) = <<>>
        BY <2>1, <3>1
      <3>3. n = m
        BY <3>2, BecomesNone
      <3> QED BY <1>2, <3>1, <3>3
    <2> QED BY <2>1, <2>2, <2>3, <2>4, <2>5, <2>6
  <1> QED BY <1>3, <1>4, <1>5

\* Every step of the engine, with its deliveries, keeps a connected client in step
\* with what the one it stands for may see.
LEMMA EngineStepInStep ==
  ASSUME EngineInv, EngineInv', BallotsKnown, EngineStep,
         NEW c \in Watchers, c \in linked, NEW v \in Watchers, v = Identity(c),
         NEW m, m = copy[c], InStep(v, m), NEW n, n = copy'[c]
  PROVE  InStep(v, n)'
  <1> USE DEF Quietly
  <1>0. /\ TypeOK /\ TypeOK' /\ RepresentativeLives /\ RepresentativeLives'
        /\ NightTargetsInStep /\ NightTargetsInStep'
    BY DEF EngineInv
  <1>a. ASSUME phase # "NONE", Quietly(<<>>),
               UNCHANGED <<phase, day, deadline, nightStep, nightStepDeadline, paused, winner,
                           endReason, alive, introIdx, role, rep, policeChecked,
                           policeHistory>>
        PROVE  InStep(v, n)'
    <2>1. n = m
      BY <1>a, SafeNone, Delivered, BecomesNone
    <2> QED BY <1>a, <2>1, QuietInStep
  <1>b. ASSUME phase = "INTRO", NextSpeaker, Quietly(IntroEvents) PROVE InStep(v, n)'
    <2>1. Becomes(v, m, IntroEvents, n)
      BY <1>0, <1>b, IntroSafe, Delivered
    <2> QED BY <1>b, <2>1, SpeakersInStep
  <1>1. CASE Start /\ Quietly(StartEvents)
    <2>1. Becomes(v, m, StartEvents, n)
      BY <1>0, <1>1, StartSafe, Delivered
    <2> QED BY <1>1, <2>1, StartInStep
  <1>2. CASE AdvanceClock /\ Quietly(<<>>)
    BY <1>2, <1>a DEF AdvanceClock, introVars, stepVars, targetVars, pauseVars, endVars
  <1>3. ASSUME NEW t, Ticker(t), Quietly(TickEvents(t)) PROVE InStep(v, n)'
    <2>1. SafeSeq(TickEvents(t))
      BY <1>0, <1>3, TickSafe DEF Ticker
    <2>2. Becomes(v, m, TickEvents(t), n)
      BY <1>3, <2>1, Delivered
    <2> QED BY <1>3, <2>2, TickInStep
  <1>4. ASSUME NEW p \in Players, NEW target, Vote(p, target) PROVE InStep(v, n)'
    <2>1. SafeSeq(VoteEvents(p, target))
      BY <1>0, <1>4, VoteSafe
    <2>2. SubmitVote(p, target) /\ Deliver(VoteEvents(p, target))
      BY <1>4 DEF Vote
    <2>3. Becomes(v, m, VoteEvents(p, target), n)
      BY <2>1, <2>2, Delivered
    <2> QED BY <2>2, <2>3, VoteInStep
  <1>5. ASSUME NEW p \in Players, NEW q \in Players,
               SubmitMafiaKill(p, q), Quietly(MafiaTargetEvents(q))
        PROVE  InStep(v, n)'
    <2>1. Becomes(v, m, MafiaTargetEvents(q), n)
      BY <1>0, <1>5, TargetSafe, Delivered
    <2> QED BY <1>5, <2>1, TargetInStep
  <1>6. ASSUME NEW p \in Players, NEW q \in Players,
               SubmitDoctorHeal(p, q), Quietly(<<>>)
        PROVE  InStep(v, n)'
    BY <1>6, <1>a DEF SubmitDoctorHeal, introVars, stepVars, pauseVars, endVars
  <1>7. ASSUME NEW p \in Players, NEW q \in Players,
               SubmitPoliceCheck(p, q), Quietly(PoliceEvents(p, q))
        PROVE  InStep(v, n)'
    <2>1. Becomes(v, m, PoliceEvents(p, q), n)
      BY <1>0, <1>7, PoliceSafe, Delivered
    <2> QED BY <1>7, <2>1, PoliceInStep
  <1>8. ASSUME NEW h, EndNightEarly(h), Quietly(ResolveEvents) PROVE InStep(v, n)'
    <2>1. phase = "NIGHT" /\ ResolveNight
      BY <1>8 DEF EndNightEarly
    <2>2. Becomes(v, m, ResolveEvents, n)
      BY <1>0, <1>8, <2>1, ResolveSafe, Delivered
    <2>3. IsCopy(m) /\ Same(m, m, {"nightStep", "nightStepDeadline"})
      BY DEF InStep, Same
    <2> QED BY <2>1, <2>2, <2>3, ResolveInStep
  <1>9. ASSUME NEW h, EndDiscussionEarly(h), Quietly(VoteBegins) PROVE InStep(v, n)'
    <2>1. phase = "DAY" /\ TransitionDayToVote(now)
      BY <1>9 DEF EndDiscussionEarly
    <2>2. Becomes(v, m, VoteBegins, n)
      BY <1>9, VoteBeginsSafe, Delivered
    <2> QED BY <2>1, <2>2, VoteBeginsInStep
  <1>10. ASSUME NEW h, PauseGame(h), Quietly(PausedEvents), phase # "NONE"
         PROVE  InStep(v, n)'
    <2>1. Becomes(v, m, PausedEvents, n)
      BY <1>10, PauseSafe, Delivered
    <2> QED BY <1>10, <2>1, PauseInStep
  <1>11. ASSUME NEW h, ResumeGame(h), Quietly(ResumedEvents), phase # "NONE"
         PROVE  InStep(v, n)'
    <2>1. Becomes(v, m, ResumedEvents, n)
      BY <1>11, PauseSafe, Delivered
    <2> QED BY <1>11, <2>1, ResumeInStep
  <1>12. ASSUME NEW h, ForceEndGame(h), Quietly(EndEvents), phase # "NONE"
         PROVE  InStep(v, n)'
    <2>1. /\ phase' = "END"
          /\ UNCHANGED <<day, deadline, nightStep, nightStepDeadline, paused, alive, role, rep,
                         policeChecked, policeHistory>>
      BY <1>12 DEF ForceEndGame, stepVars, targetVars, pauseVars
    <2>2. Becomes(v, m, EndEvents, n)
      BY <1>12, <2>1, EndSafe, Delivered
    <2> QED BY <1>12, <2>1, <2>2, EndInStep
  <1>13. ASSUME NEW h, NEW on, ToggleVoice(h, on), Quietly(<<>>), phase # "NONE"
         PROVE  InStep(v, n)'
    BY <1>13, <1>a DEF ToggleVoice, introVars, stepVars, targetVars, pauseVars, endVars
  <1> HIDE DEF Quietly
  <1>14. CASE Command
    BY <1>14, <1>b, <1>4, <1>5, <1>6, <1>7, <1>8, <1>9, <1>10, <1>11, <1>12, <1>13
    DEF Command, EndSelfIntro, AdvanceIntro
  <1> QED BY <1>1, <1>2, <1>3, <1>14 DEF EngineStep

\* The lobby as the PlayerJoined events show it.
LEMMA LobbyInStep == ASSUME phase = "NONE", NEW v PROVE InStep(v, LobbyCopy)
  BY DEF InStep, IsCopy, Fields, Fresh, LobbyCopy

\* The snapshots that answer a new connection are in step.
LEMMA RoomInStep == ASSUME EngineInv PROVE InStep(Screen, RoomSnapshot)
  <1>1. CASE phase = "NONE"
    BY <1>1, LobbyInStep DEF RoomSnapshot
  <1>2. CASE phase # "NONE"
    <2>1. Screen \notin Players
      BY ViewersAssumption DEF ViewersAssumption
    <2>2. IsCopy(RoomSnapshot) /\ Shows(RoomSnapshot)
      BY <1>2 DEF RoomSnapshot, StateCopy, IsCopy, Fields, Shows
    <2> QED BY <1>2, <2>1, <2>2 DEF InStep
  <1> QED BY <1>1, <1>2

\* ... and so is the private view that answers a resume, before the game and in it.
LEMMA ViewInStep == ASSUME EngineInv, NEW p \in Players PROVE InStep(p, PrivateView(p))
  <1> DEFINE m == PrivateView(p)
  <1>1. /\ IsCopy(m) /\ m.your = role[p] /\ m.cohort = Allies(p)
        /\ m.policeHistory = HistoryFor(p)
        /\ \A f \in Fields \ {"your", "cohort", "policeHistory"} : m[f] = StateCopy[f]
    BY DEF PrivateView, StateCopy, IsCopy, Fields
  <1>2. /\ m.phase = phase /\ m.day = day /\ m.deadline = deadline
        /\ m.nightStep = nightStep /\ m.nightStepDeadline = nightStepDeadline
        /\ m.paused = paused /\ m.winner = winner /\ m.reason = endReason
        /\ m.alive = alive /\ m.speaker = introIdx /\ m.rep = rep
        /\ m.policeChecked = policeChecked
        /\ m.players = IF phase = "NONE" THEN {} ELSE Players
    BY <1>1 DEF StateCopy, Fields
  <1> HIDE DEF m
  <1>3. CASE phase = "NONE"
    <2>1. HistoryFor(p) = <<>> /\ paused = FALSE /\ winner = "NONE" /\ endReason = "NONE"
      BY <1>3 DEF HistoryFor, EngineInv, Dealt
    <2> QED BY <1>1, <1>2, <1>3, <2>1 DEF InStep, Fresh, m
  <1>4. CASE phase # "NONE"
    <2>1. Shows(m)
      BY <1>2, <1>4 DEF Shows
    <2>2. ShowsOwn(p, m)
      BY <1>1, <1>2 DEF ShowsOwn, Allies, HistoryFor
    <2> QED BY <1>1, <1>4, <2>1, <2>2 DEF InStep, m
  <1> QED BY <1>3, <1>4

\* Nothing happens to the engine.
LEMMA StillInStep ==
  ASSUME UNCHANGED vars, NEW v, NEW m, InStep(v, m) PROVE InStep(v, m)'
  BY DEF vars, introVars, stepVars, targetVars, pauseVars, endVars,
     InStep, Fresh, Shows, ShowsOwn, Mafia

\* Every connected client has a copy in step with the engine: its player's, once it
\* is bound, the public one before.
CopyInv ==
    /\ linked \subseteq Watchers /\ bound \subseteq linked \cap Players
    /\ DOMAIN copy = Watchers
    /\ \A v \in linked : InStep(Identity(v), copy[v])

\* The engine's steps reach them all, a lost connection concerns one of them, and a
\* new one begins with a State, the player's own view once it resumes.
LEMMA CopyStep ==
  ASSUME EngineInv, EngineInv', BallotsKnown, CopyInv, [ViewNext]_allVars
  PROVE  CopyInv'
  <1>0. ASSUME NEW v, NEW w, NEW n, w = Identity(v)', n = copy'[v], InStep(w, n)'
        PROVE  InStep(Identity(v), copy[v])'
    BY <1>0 DEF InStep, IsCopy, Fresh, Shows, ShowsOwn
  <1>1. CASE EngineStep
    <2>1. \E envs : ReduceCopies(envs) /\ UNCHANGED <<linked, bound>>
      BY <1>1 DEF EngineStep, Command, Vote, Quietly, Deliver
    <2>2. /\ linked' = linked /\ linked \subseteq Watchers /\ DOMAIN copy' = Watchers
          /\ bound' = bound /\ bound \subseteq linked \cap Players
      BY <2>1 DEF ReduceCopies, CopyInv
    <2>3. ASSUME NEW v \in linked, NEW w, w = Identity(v), NEW m, m = copy[v],
                 NEW n, n = copy'[v]
          PROVE  InStep(w, n)'
      <3>1. v \in Watchers /\ w \in Watchers
        BY <2>2, <2>3 DEF Identity, Watchers
      <3>2. InStep(w, m)
        BY <2>3 DEF CopyInv
      <3> QED BY <1>1, <2>3, <3>1, <3>2, EngineStepInStep
    <2>4. ASSUME NEW v \in linked PROVE InStep(Identity(v), copy[v])'
      <3>1. Identity(v)' = Identity(v)
        BY <2>2 DEF Identity
      <3> QED BY <1>0, <2>3, <3>1
    <2> QED BY <2>2, <2>4 DEF CopyInv
  <1>2. CASE \/ \E x \in Watchers : PushRoomState(x)
             \/ \E x \in Flaky : Drop(x)
             \/ \E p \in Players : ResumePlayer(p)
             \/ UNCHANGED allVars
    <2> DEFINE Unmoved(v) == /\ v \in linked /\ copy'[v] = copy[v]
                             /\ Identity(v)' = Identity(v)
               Pushed(v) == copy'[v] = RoomSnapshot /\ Identity(v)' = Screen
               Resumed(v) == /\ v \in Players /\ copy'[v] = PrivateView(v)
                             /\ Identity(v)' = v
    <2>1. UNCHANGED vars
      BY <1>2 DEF PushRoomState, Drop, ResumePlayer, allVars
    <2>2. /\ linked' \subseteq Watchers /\ bound' \subseteq linked' \cap Players
          /\ DOMAIN copy' = Watchers
          /\ \A v \in linked' : Unmoved(v) \/ Pushed(v) \/ Resumed(v)
      <3>1. CASE \E x \in Watchers : PushRoomState(x)
        BY <3>1 DEF PushRoomState, CopyInv, Identity
      <3>2. CASE \E x \in Flaky : Drop(x)
        BY <3>2 DEF Drop, CopyInv, Identity
      <3>3. CASE \E p \in Players : ResumePlayer(p)
        BY <3>3 DEF ResumePlayer, CopyInv, Identity
      <3>4. CASE UNCHANGED allVars
        BY <3>4 DEF allVars, viewVars, CopyInv, Identity
      <3> QED BY <1>2, <3>1, <3>2, <3>3, <3>4
    <2>3. ASSUME NEW v \in linked', NEW w, w = Identity(v)', NEW n, n = copy'[v]
          PROVE  InStep(w, n)'
      <3>1. InStep(w, n)
        BY <2>2, <2>3, RoomInStep, ViewInStep DEF CopyInv
      <3> QED BY <2>1, <3>1, StillInStep
    <2>4. ASSUME NEW v \in linked' PROVE InStep(Identity(v), copy[v])'
      BY <1>0, <2>3
    <2> QED BY <2>2, <2>4 DEF CopyInv
  <1> QED BY <1>1, <1>2 DEF ViewNext

\* The clients are in step with the engine, whatever the number of players, the length
\* of the game and the comings and goings of the connections: the events of every
\* action, applied by applyEvent in the order they are sent, take each connected
\* client's copy to the engine's State, as far as that client may see it.
THEOREM CopiesStayInStep == ViewSpec => []CopiesAgree
  <1>1. ViewInit => CopyInv
    <2> SUFFICES ASSUME ViewInit PROVE CopyInv
      OBVIOUS
    <2>1. /\ phase = "NONE" /\ linked = Watchers /\ bound = Players
          /\ copy = [v \in Watchers |-> LobbyCopy]
      BY DEF ViewInit, Init
    <2> QED BY <2>1, LobbyInStep DEF CopyInv, Watchers
  <1>2. EngineInv /\ EngineInv' /\ SecretsInv /\ CopyInv /\ [ViewNext]_allVars => CopyInv'
    BY CopyStep DEF SecretsInv
  <1>3. CopyInv => CopiesAgree
    <2> SUFFICES ASSUME CopyInv, phase # "NONE"
                 PROVE  /\ \A v \in linked : PublicAgrees(v)
                        /\ \A p \in bound : PrivateAgrees(p)
      BY DEF CopiesAgree
    <2>1. ASSUME NEW v \in linked PROVE PublicAgrees(v)
      <3>1. InStep(Identity(v), copy[v])
        BY <2>1 DEF CopyInv
      <3>2. Shows(copy[v])
        BY <3>1 DEF InStep
      <3> QED BY <3>2 DEF Shows, PublicAgrees
    <2>2. ASSUME NEW p \in bound PROVE PrivateAgrees(p)
      BY DEF CopyInv, Identity, InStep, ShowsOwn, PrivateAgrees
    <2> QED BY <2>1, <2>2
  <1> QED BY <1>1, <1>2, <1>3, EngineInvHolds, SecretsHold, PTL DEF ViewSpec
=============================================================================
