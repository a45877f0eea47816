--------------------------- MODULE ShutdownProofs ---------------------------
(***************************************************************************)
(* For every number of clients and of State changes: a shutdown loses      *)
(* nothing the players saw, the ticker never meets a closed store, and     *)
(* only a late answer to a request of the results can fail.                *)
(***************************************************************************)
EXTENDS Shutdown, TLAPS

Critical == {"saving", "ending", "sending"}
Labels == {"away", "upgraded", "checked", "idle", "locking", "saving", "ending",
           "sending", "gone"}

\* What each stage of shutdown leaves behind for the next.
Staged ==
    /\ stage \in {"unregister", "cancel", "mgr", "wait", "flush", "closed"} => ~subscribed
    /\ stage \in {"mgr", "wait", "flush", "closed"} => cancelled
    /\ stage \in {"flush", "closed"} => pc[Ticker] = "gone"
    /\ cancelled => ~subscribed
    /\ ~storeOpen => /\ stage \in {"closed", "exited"}
                     /\ cancelled /\ pc[Ticker] = "gone"

\* A request is in flight only while the server waits for it, or it is late.
Awaited ==
    /\ request = "pending" => stage \in {"serving", "http", "exited"} \/ httpLate
    /\ request = "failed" => httpLate /\ ~storeOpen

\* The State never goes back behind what was told, and a game that is no longer
\* started has its result.
Ahead ==
    /\ told.gen <= gen /\ (told.over => over)
    /\ started \/ result

Inv == TypeOK /\ Staged /\ Awaited /\ Ahead /\ ToldIsDurable

\* The actions that only move one actor, outside of the critical section.
Moves(a, l) ==
    /\ pc[a] \notin Critical
    /\ Goto(a, l)
    /\ UNCHANGED <<mainVars, open, mu, job, gameVars, flagVars, diskVars, request>>

-----------------------------------------------------------------------------
\* The program begins with a started game that is on disk, and an open store.
LEMMA InitInv == Init => Inv
  <1> SUFFICES ASSUME Init PROVE Inv
    OBVIOUS
  <1> USE ShutdownAssumption DEF ShutdownAssumption, Init
  <1>1. TypeOK
    <2>1. job \in Jobs
      BY DEF Jobs, NoJob
    <2>2. active \in States /\ told \in States
      BY DEF States, NoSnapshot
    <2>3. \A a \in Actors : mu = a <=> pc[a] \in {"saving", "ending", "sending"}
      OBVIOUS
    <2>4. pc \in [Actors -> Labels] /\ mu \in Actors \cup {Free} /\ gen \in 0..MaxSteps
      BY DEF Labels, Actors
    <2>5. stage \in Stages /\ open \subseteq Clients
      BY DEF Stages
    <2> QED BY <2>1, <2>2, <2>3, <2>4, <2>5 DEF TypeOK, Labels
  <1>2. Staged
    BY DEF Staged
  <1>3. Awaited
    BY DEF Awaited
  <1>4. Ahead
    BY DEF Ahead, NoSnapshot
  <1>5. ToldIsDurable
    BY DEF ToldIsDurable
  <1> QED BY <1>1, <1>2, <1>3, <1>4, <1>5 DEF Inv

\* An actor that moves outside of the critical section disturbs nothing.
LEMMA MovesInv ==
  ASSUME Inv, NEW a \in Actors, NEW l \in Labels \ Critical, Moves(a, l),
         pc[a] # "gone"
  PROVE  Inv'
  <1> USE DEF Inv, Moves, Goto, mainVars, gameVars, flagVars, diskVars
  <1>1. TypeOK'
    <2>1. pc' \in [Actors -> Labels]
      BY DEF TypeOK, Labels
    <2>2. \A b \in Actors : mu' = b <=> pc'[b] \in {"saving", "ending", "sending"}
      BY DEF TypeOK, Labels, Critical
    <2> QED BY <2>1, <2>2 DEF TypeOK, Labels
  <1>2. Staged'
    BY DEF Staged, TypeOK, Labels, Critical
  <1>3. Awaited' /\ Ahead'
    BY DEF Awaited, Ahead
  <1>4. ToldIsDurable'
    BY DEF ToldIsDurable, Covers
  <1> QED BY <1>1, <1>2, <1>3, <1>4

\* The steps of clients and ticker that are such moves.
LEMMA MoveSteps ==
  ASSUME Inv,
         \/ \E c \in Clients : Registers(c) \/ Receive(c) \/ ReadFails(c)
         \/ TickFires \/ TickLoopStops
         \/ \E a \in Actors : Idle(a)
  PROVE  Inv'
  <1> USE DEF Labels, Critical, Moves, Actors
  <1>1. ASSUME NEW c \in Clients, Registers(c) \/ Receive(c) \/ ReadFails(c)
        PROVE  Inv'
    <2>1. \E l \in Labels \ Critical : Moves(c, l)
      BY <1>1 DEF Registers, Upgrade, RegisterCheck, RegisterAdd, Receive, ReadFails
    <2>2. pc[c] # "gone"
      BY <1>1 DEF Registers, Upgrade, RegisterCheck, RegisterAdd, Receive, ReadFails
    <2> QED BY <2>1, <2>2, MovesInv
  <1>2. ASSUME TickFires \/ TickLoopStops PROVE Inv'
    <2>1. \E l \in Labels \ Critical : Moves(Ticker, l)
      BY <1>2 DEF TickFires, TickLoopStops
    <2>2. pc[Ticker] # "gone"
      BY <1>2 DEF TickFires, TickLoopStops
    <2> QED BY <2>1, <2>2, MovesInv
  <1>3. ASSUME NEW a \in Actors, Idle(a) PROVE Inv'
    <2>1. \E l \in Labels \ Critical : Moves(a, l)
      BY <1>3 DEF Idle
    <2>2. pc[a] # "gone"
      BY <1>3 DEF Idle
    <2> QED BY <2>1, <2>2, MovesInv
  <1> QED BY <1>1, <1>2, <1>3

\* Apply takes the mutex, counts the change and sets what is left to save.
LEMMA ApplyInv == ASSUME Inv, NEW a \in Actors, NEW j \in Jobs, Apply(a, j) PROVE Inv'
  <1> USE DEF Inv, Apply, Goto, mainVars, flagVars, diskVars
  <1>1. TypeOK'
    <2>1. pc' \in [Actors -> Labels] /\ mu' \in Actors \cup {Free} /\ job' \in Jobs
      BY DEF TypeOK, Labels
    <2>2. \A b \in Actors : mu' = b <=> pc'[b] \in {"saving", "ending", "sending"}
      BY ShutdownAssumption DEF TypeOK, ShutdownAssumption
    <2>3. gen' \in 0..MaxSteps /\ over' \in BOOLEAN
      BY ShutdownAssumption DEF TypeOK, ShutdownAssumption, Jobs
    <2> QED BY <2>1, <2>2, <2>3 DEF TypeOK, Labels
  <1>2. Staged'
    BY DEF Staged, TypeOK
  <1>3. Awaited' /\ ToldIsDurable'
    BY DEF Awaited, ToldIsDurable, Covers
  <1>4. Ahead'
    <2>1. told \in States /\ gen \in Nat /\ gen' = gen + 1
      BY ShutdownAssumption DEF TypeOK, ShutdownAssumption
    <2> QED BY <2>1 DEF Ahead, States
  <1> QED BY <1>1, <1>2, <1>3, <1>4

\* Save writes a State of the game, and only to an open store.
LEMMA SaveInv == ASSUME Inv, NEW a \in Actors, Save(a) PROVE Inv'
  <1> USE DEF Inv, Save, Goto, mainVars, gameVars, flagVars
  <1>1. TypeOK'
    <2>1. pc' \in [Actors -> Labels]
      BY DEF TypeOK, Labels
    <2>2. \A b \in Actors : mu' = b <=> pc'[b] \in {"saving", "ending", "sending"}
      BY DEF TypeOK
    <2>3. active' \in States
      BY ShutdownAssumption DEF TypeOK, ShutdownAssumption, StateToSave, States
    <2> QED BY <2>1, <2>2, <2>3 DEF TypeOK, Labels
  <1>2. Staged'
    BY DEF Staged, TypeOK
  <1>3. Awaited' /\ Ahead'
    BY DEF Awaited, Ahead
  <1>4. ToldIsDurable'
    BY DEF ToldIsDurable, Covers, StoreWorks
  <1> QED BY <1>1, <1>2, <1>3, <1>4

\* End saves the result with the active snapshot cleared, or leaves both.
LEMMA EndInv == ASSUME Inv, NEW a \in Actors, End(a) PROVE Inv'
  <1> USE DEF Inv, End, Goto, mainVars, flagVars
  <1>1. TypeOK'
    <2>1. pc' \in [Actors -> Labels]
      BY DEF TypeOK, Labels
    <2>2. \A b \in Actors : mu' = b <=> pc'[b] \in {"saving", "ending", "sending"}
      BY DEF TypeOK
    <2>0. NoSnapshot \in States
      BY ShutdownAssumption DEF ShutdownAssumption, NoSnapshot, States
    <2>3. active' \in States
      <3>1. active' = active \/ active' = NoSnapshot
        OBVIOUS
      <3> QED BY <2>0, <3>1 DEF TypeOK
    <2>4. result' \in BOOLEAN /\ started' \in BOOLEAN
      BY DEF TypeOK
    <2> QED BY <2>1, <2>2, <2>3, <2>4 DEF TypeOK, Labels
  <1>2. Staged'
    BY DEF Staged, TypeOK
  <1>3. Awaited' /\ Ahead'
    BY DEF Awaited, Ahead
  <1>4. ToldIsDurable'
    BY DEF ToldIsDurable, Covers, StoreWorks
  <1> QED BY <1>1, <1>2, <1>3, <1>4

\* Send tells the current State, if the hub is subscribed: then the store is open.
LEMMA SendInv == ASSUME Inv, NEW a \in Actors, Send(a) PROVE Inv'
  <1> USE DEF Inv, Send, Goto, mainVars, flagVars, diskVars
  <1>1. TypeOK'
    <2>1. pc' \in [Actors -> Labels]
      BY DEF TypeOK, Labels
    <2>2. \A b \in Actors : mu' = b <=> pc'[b] \in {"saving", "ending", "sending"}
      BY ShutdownAssumption DEF TypeOK, ShutdownAssumption
    <2>3. told' \in States /\ job' \in Jobs
      BY ShutdownAssumption DEF TypeOK, ShutdownAssumption, Current, States, NoJob, Jobs
    <2> QED BY <2>1, <2>2, <2>3 DEF TypeOK, Labels
  <1>2. Staged'
    BY DEF Staged, TypeOK
  <1>3. Awaited'
    BY DEF Awaited
  <1>4. Ahead'
    BY ShutdownAssumption DEF Ahead, Current, TypeOK, ShutdownAssumption
  <1>5. ToldIsDurable'
    BY DEF ToldIsDurable, Covers, Staged
  <1> QED BY <1>1, <1>2, <1>3, <1>4, <1>5

\* The steps of main and of a request, which move no actor.
LEMMA MainInv ==
  ASSUME Inv, \/ Signal \/ ListenFails \/ Main \/ ContextExpires
              \/ RequestArrives \/ RequestAnswered
  PROVE  Inv'
  <1>0. UNCHANGED <<pc, mu, job, gen, over, started, told, result>>
    BY DEF Signal, ListenFails, Main, ContextExpires, RequestArrives, RequestAnswered,
           HttpShutdown, HubCloses, HubUnsubscribes, HubUnregisters, HubCancels,
           MgrStops, MgrWaits, MgrFlushes, Exit, gameVars, diskVars
  <1>1. CASE MgrFlushes
    <2> USE DEF Inv, MgrFlushes
    <2>1. active' \in States /\ told \in States /\ gen \in Int
      BY <1>1, ShutdownAssumption DEF TypeOK, ShutdownAssumption, Current, States
    <2>2. TypeOK'
      BY <1>0, <1>1, <2>1 DEF TypeOK, Stages
    <2>3. Staged' /\ Awaited' /\ Ahead'
      BY <1>0, <1>1 DEF Staged, Awaited, Ahead
    <2>4. ToldIsDurable'
      BY <1>0, <1>1, <2>1 DEF ToldIsDurable, Covers, Current, Ahead
    <2> QED BY <2>2, <2>3, <2>4
  <1>2. CASE ~MgrFlushes
    <2> USE DEF Inv, Signal, ListenFails, Main, ContextExpires, RequestArrives,
           RequestAnswered, HttpShutdown, HubCloses, HubUnsubscribes, HubUnregisters,
           HubCancels, MgrStops, MgrWaits, Exit, mainVars, gameVars, flagVars, diskVars
    <2>1. UNCHANGED <<active, storeOpen>>
      BY <1>2
    <2>2. TypeOK'
      <3>1. stage' \in Stages /\ open' \subseteq Clients
        BY <1>2 DEF TypeOK, Stages
      <3>2. httpLate' \in BOOLEAN /\ ctxLate' \in BOOLEAN
        BY <1>2 DEF TypeOK
      <3>3. subscribed' \in BOOLEAN /\ hubClosed' \in BOOLEAN /\ cancelled' \in BOOLEAN
            /\ stopped' \in BOOLEAN
        BY <1>2 DEF TypeOK
      <3>4. request' \in {"none", "pending", "failed"}
        BY <1>2 DEF TypeOK
      <3> QED BY <1>0, <2>1, <3>1, <3>2, <3>3, <3>4 DEF TypeOK
    <2>3. Staged'
      BY <1>0, <1>2, <2>1 DEF Staged
    <2>4. Awaited'
      <3>1. CASE HttpShutdown
        BY <3>1 DEF Awaited, Staged, TypeOK
      <3>2. CASE RequestAnswered
        BY <2>1, <3>2 DEF Awaited, Staged, Running
      <3>3. CASE RequestArrives
        BY <2>1, <3>3 DEF Awaited
      <3>4. CASE ~HttpShutdown /\ ~RequestAnswered /\ ~RequestArrives
        <4>1. UNCHANGED <<request, httpLate>> /\ (stage' = stage \/ stage # "http")
          BY <1>2, <3>4
        <4>2. stage = "serving" => stage' \in {"serving", "http", "exited"}
          BY <1>2, <3>4
        <4>3. stage # "exited" \/ stage' = "exited"
          BY <1>2, <3>4
        <4> QED BY <2>1, <4>1, <4>2, <4>3 DEF Awaited
      <3> QED BY <3>1, <3>2, <3>3, <3>4
    <2>5. Ahead'
      BY <1>0 DEF Ahead
    <2>6. ToldIsDurable'
      <3>1. ~ctxLate' => ~ctxLate
        BY <1>2 DEF TypeOK
      <3> QED BY <1>0, <2>1, <3>1 DEF ToldIsDurable, Covers
    <2> QED BY <2>2, <2>3, <2>4, <2>5, <2>6
  <1> QED BY <1>1, <1>2

\* Inv is inductive.
LEMMA InvHolds == Spec => []Inv
  <1>1. ASSUME Inv, [Next]_vars PROVE Inv'
    <2>1. CASE UNCHANGED vars
      BY <1>1, <2>1 DEF vars, mainVars, gameVars, flagVars, diskVars, Inv, TypeOK, Staged,
                        Awaited, Ahead, ToldIsDurable, Covers
    <2>2. CASE Signal \/ ListenFails \/ Main \/ ContextExpires \/ RequestArrives
               \/ RequestAnswered
      BY <1>1, <2>2, MainInv
    <2>3. CASE \E c \in Clients : Registers(c) \/ Receive(c) \/ ReadFails(c)
      BY <1>1, <2>3, MoveSteps
    <2>4. CASE TickFires \/ TickLoopStops \/ \E a \in Actors : Idle(a)
      BY <1>1, <2>4, MoveSteps
    <2>5. CASE \E a \in Actors : \E j \in Jobs : Apply(a, j)
      BY <1>1, <2>5, ApplyInv
    <2>6. CASE \E a \in Actors : Holds(a)
      BY <1>1, <2>6, SaveInv, EndInv, SendInv DEF Holds
    <2> QED BY <1>1, <2>1, <2>2, <2>3, <2>4, <2>5, <2>6 DEF Next, Enter
  <1> QED BY <1>1, InitInv, PTL DEF Spec

-----------------------------------------------------------------------------
\* The types, and that the session mutex is held by exactly the actor between its
\* State change and the end of dispatchHandlers.
THEOREM TypesHold == Spec => []TypeOK
  <1>1. Inv => TypeOK
    BY DEF Inv
  <1> QED BY <1>1, InvHolds, PTL

\* mgr.Close writes what the clients were told last, for every interleaving of
\* read loops and ticker with the stages of shutdown.
THEOREM NothingToldIsLost == Spec => []ToldIsDurable
  <1>1. Inv => ToldIsDurable
    BY DEF Inv
  <1> QED BY <1>1, InvHolds, PTL

\* tickerWG.Wait before the store is closed keeps the ticker from a closed store.
THEOREM TickerIsWaitedFor == Spec => []TickerMeetsOpenStore
  <1>1. Inv => TickerMeetsOpenStore
    BY DEF Inv, Staged, TickerMeetsOpenStore
  <1> QED BY <1>1, InvHolds, PTL

\* srv.Shutdown before the store is closed: only a request that outlasts the 5
\* seconds can fail.
THEOREM ResultsAreServed == Spec => []RequestsServed
  <1>1. Inv => RequestsServed
    BY DEF Inv, Awaited, RequestsServed
  <1> QED BY <1>1, InvHolds, PTL

\* unsubscribe before rootCancel: nobody is told of a change that could not be saved.
THEOREM ToldWhileSavable == Spec => ToldOnlyIfSavable
  <1>1. Inv /\ [Next]_vars => [told' # told => storeOpen /\ ~cancelled]_vars
    <2> SUFFICES ASSUME Inv, Next, told' # told PROVE storeOpen /\ ~cancelled
      BY DEF vars, gameVars
    <2>1. PICK a \in Actors : Send(a)
      BY DEF Next, Signal, ListenFails, Main, ContextExpires, RequestArrives,
             RequestAnswered, HttpShutdown, HubCloses, HubUnsubscribes, HubUnregisters,
             HubCancels, MgrStops, MgrWaits, MgrFlushes, Exit, TickFires, TickLoopStops,
             Enter, Idle, Apply, Holds, Save, End, Registers, Upgrade, RegisterCheck,
             RegisterAdd, Receive, ReadFails, gameVars, vars
    <2>2. subscribed
      BY <2>1 DEF Send
    <2> QED BY <2>2 DEF Inv, Staged
  <1> QED BY <1>1, InvHolds, PTL DEF Spec, ToldOnlyIfSavable
=============================================================================
