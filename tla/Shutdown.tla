------------------------------ MODULE Shutdown ------------------------------
(***************************************************************************)
(* How the program ends: run and shutdown of cmd/mafia-game/main.go, the   *)
(* three stages they drive (Shutdown of the HTTP server, Close of the hub, *)
(* Close of the session manager), and everything that is still going on    *)
(* meanwhile: the read loop of every client, the ticker, and an HTTP       *)
(* request for the results.                                                *)
(*                                                                         *)
(* The game is abstracted to a counter of State changes and a flag for     *)
(* END; module GameEngine has the rules and module Session the store. A    *)
(* critical section of the session is cut into the steps between which     *)
(* the context of its store calls may be cancelled.                        *)
(***************************************************************************)
EXTENDS Integers

CONSTANTS Clients,     \* WebSocket connections
          Ticker,      \* the goroutine of tickLoop
          Free,        \* nobody holds the session mutex
          MaxSteps     \* bound: State changes of the game

Actors == Clients \cup {Ticker}

ASSUME ShutdownAssumption ==
    /\ Ticker \notin Clients
    /\ Free \notin Actors
    /\ MaxSteps \in Nat

VARIABLES
    stage,      \* where run and shutdown are
    pc,         \* pc[a]: where an actor is
    open,       \* the clients whose socket has not been closed by the hub
    mu,         \* holder of the session mutex
    job,        \* what the holder's State change asks of the store
    gen, over,  \* the engine's State: changes made so far, is its phase END?
    started,    \* Session.Started
    subscribed, \* is onEvent among the session's handlers?
    hubClosed, cancelled,  \* hub.closed, rootCtx cancelled
    stopped,    \* stopCh closed
    storeOpen,
    active,     \* the active snapshot: [gen, over], gen = -1 when there is none
    result,     \* has the game's result been saved?
    told,       \* the last State whose events went to the clients
    request,    \* "pending" while a request of /api/results is in flight
    httpLate, ctxLate   \* did the 5 s of stage 1, the 2 s of stage 3 run out?

mainVars == <<stage, httpLate, ctxLate>>
gameVars == <<gen, over, started, told>>
diskVars == <<active, result>>
flagVars == <<subscribed, hubClosed, cancelled, stopped, storeOpen>>
vars == <<mainVars, pc, open, mu, job, gameVars, flagVars, diskVars, request>>

Stages == {"serving", "http", "hub", "unsubscribe", "unregister", "cancel", "mgr",
           "wait", "flush", "closed", "exited"}
States == [gen : -1..MaxSteps, over : BOOLEAN]
NoSnapshot == [gen |-> -1, over |-> FALSE]
Current == [gen |-> gen, over |-> over]
NoJob == [trigger |-> FALSE, ends |-> FALSE]
Jobs == {j \in [trigger : BOOLEAN, ends : BOOLEAN] : j.ends => j.trigger}

Running == stage # "exited"

\* A game that has just been started and saved.
Init ==
    /\ stage = "serving" /\ httpLate = FALSE /\ ctxLate = FALSE
    /\ pc = [a \in Actors |-> IF a = Ticker THEN "idle" ELSE "away"]
    /\ open = Clients
    /\ mu = Free /\ job = NoJob
    /\ gen = 0 /\ over = FALSE /\ started = TRUE
    /\ active = [gen |-> 0, over |-> FALSE] /\ result = FALSE
    /\ told = NoSnapshot
    /\ subscribed = TRUE /\ hubClosed = FALSE /\ cancelled = FALSE
    /\ stopped = FALSE /\ storeOpen = TRUE
    /\ request = "none"

Goto(a, l) == pc' = [pc EXCEPT ![a] = l]

-----------------------------------------------------------------------------
(* Clients and ticker *)

\* UpgradeHandler: the socket is taken from the HTTP server, which closes its
\* listener when its shutdown begins and does not wait for it any more.
Upgrade(c) ==
    /\ Running /\ stage = "serving" /\ pc[c] = "away"
    /\ Goto(c, "upgraded")
    /\ UNCHANGED <<mainVars, open, mu, job, gameVars, flagVars, diskVars, request>>

\* Register reads the closed flag ...
RegisterCheck(c) ==
    /\ Running /\ pc[c] = "upgraded"
    /\ Goto(c, IF hubClosed THEN "gone" ELSE "checked")
    /\ UNCHANGED <<mainVars, open, mu, job, gameVars, flagVars, diskVars, request>>

\* ... and adds the client, takes the snapshot under the mutex and starts the
\* read loop.
RegisterAdd(c) ==
    /\ Running /\ pc[c] = "checked" /\ mu = Free
    /\ Goto(c, "idle")
    /\ UNCHANGED <<mainVars, open, mu, job, gameVars, flagVars, diskVars, request>>

\* readLoop: the next frame, or the end of a closed connection. The loop does not
\* look at the context: a client that was registered after the hub's loop over
\* the registry is cancelled by rootCtx, and reads on until its writeLoop sees
\* that and closes the connection.
Receive(c) ==
    /\ Running /\ pc[c] = "idle" /\ c \in open
    /\ Goto(c, "locking")
    /\ UNCHANGED <<mainVars, open, mu, job, gameVars, flagVars, diskVars, request>>

ReadFails(c) ==
    /\ Running /\ pc[c] = "idle" /\ (c \notin open \/ cancelled)
    /\ Goto(c, "gone")
    /\ UNCHANGED <<mainVars, open, mu, job, gameVars, flagVars, diskVars, request>>

\* The select of tickLoop; when both are ready Go takes either.
TickFires ==
    /\ Running /\ pc[Ticker] = "idle"
    /\ Goto(Ticker, "locking")
    /\ UNCHANGED <<mainVars, open, mu, job, gameVars, flagVars, diskVars, request>>

TickLoopStops ==
    /\ Running /\ pc[Ticker] = "idle" /\ stopped
    /\ Goto(Ticker, "gone")
    /\ UNCHANGED <<mainVars, open, mu, job, gameVars, flagVars, diskVars, request>>

\* SubmitAction and Tick under the mutex: without a game, or when the engine
\* refuses or has nothing to report, nothing happens ...
Idle(a) ==
    /\ Running /\ pc[a] = "locking" /\ mu = Free
    /\ Goto(a, "idle")
    /\ UNCHANGED <<mainVars, open, mu, job, gameVars, flagVars, diskVars, request>>

\* ... else the State changes. shouldPersist may be true of the events, and is if
\* the game ends.
Apply(a, j) ==
    /\ Running /\ pc[a] = "locking" /\ mu = Free
    /\ started /\ ~over /\ gen < MaxSteps
    /\ mu' = a /\ job' = j
    /\ gen' = gen + 1 /\ over' = j.ends
    /\ Goto(a, "saving")
    /\ UNCHANGED <<mainVars, open, started, told, flagVars, diskVars, request>>

\* The handlers of a client pass rootCtx to the store, the ticker Background().
StoreWorks(a) == storeOpen /\ (a = Ticker \/ ~cancelled)

\* firePendingEnd hands out the State of just before END, the handlers Apply's.
StateToSave(a) == [gen |-> gen, over |-> over /\ a # Ticker]

\* persistAndDispatch: SaveSnapshot, ...
Save(a) ==
    /\ Running /\ pc[a] = "saving"
    /\ active' = IF job.trigger /\ StoreWorks(a) THEN StateToSave(a) ELSE active
    /\ Goto(a, "ending")
    /\ UNCHANGED <<mainVars, open, mu, job, gameVars, flagVars, result, request>>

\* ... handleGameEnd with SaveResultAndClearActive, after which no game is
\* started, ...
End(a) ==
    /\ Running /\ pc[a] = "ending"
    /\ IF job.ends /\ StoreWorks(a)
       THEN result' = TRUE /\ active' = NoSnapshot /\ started' = FALSE
       ELSE UNCHANGED <<result, active, started>>
    /\ Goto(a, "sending")
    /\ UNCHANGED <<mainVars, open, mu, job, gen, over, told, flagVars, request>>

\* Mutant: the mutex is not released.
SendKeepsMutex(a) ==
    /\ Running /\ pc[a] = "sending"
    /\ told' = IF subscribed THEN Current ELSE told
    /\ mu' = mu /\ job' = NoJob
    /\ Goto(a, "idle")
    /\ UNCHANGED <<mainVars, open, gen, over, started, flagVars, diskVars, request>>

\* ... dispatchHandlers, and the mutex is released.
Send(a) ==
    /\ Running /\ pc[a] = "sending"
    /\ told' = IF subscribed THEN Current ELSE told
    /\ mu' = Free /\ job' = NoJob
    /\ Goto(a, "idle")
    /\ UNCHANGED <<mainVars, open, gen, over, started, flagVars, diskVars, request>>

\* resultsHandler: ListResults of the store, while the server waits.
RequestArrives ==
    /\ Running /\ stage = "serving" /\ request = "none"
    /\ request' = "pending"
    /\ UNCHANGED <<mainVars, pc, open, mu, job, gameVars, flagVars, diskVars>>

RequestAnswered ==
    /\ Running /\ request = "pending"
    /\ request' = IF storeOpen THEN "none" ELSE "failed"
    /\ UNCHANGED <<mainVars, pc, open, mu, job, gameVars, flagVars, diskVars>>

-----------------------------------------------------------------------------
(* run and shutdown *)

\* The signal, or ListenAndServe returning ErrServerClosed.
Signal ==
    /\ stage = "serving" /\ stage' = "http"
    /\ UNCHANGED <<httpLate, ctxLate, pc, open, mu, job, gameVars, flagVars, diskVars,
                   request>>

\* Any other error of ListenAndServe ends run without a shutdown.
ListenFails ==
    /\ stage = "serving" /\ stage' = "exited"
    /\ UNCHANGED <<httpLate, ctxLate, pc, open, mu, job, gameVars, flagVars, diskVars,
                   request>>

\* Mutant: the server is closed without waiting for its requests.
HttpClosesAtOnce ==
    /\ stage = "http" /\ stage' = "hub"
    /\ UNCHANGED <<httpLate, ctxLate, pc, open, mu, job, gameVars, flagVars, diskVars,
                   request>>

\* srv.Shutdown returns when no request is in flight, or after 5 seconds.
HttpShutdown ==
    /\ stage = "http" /\ stage' = "hub"
    /\ httpLate' = (request = "pending")
    /\ UNCHANGED <<ctxLate, pc, open, mu, job, gameVars, flagVars, diskVars, request>>

\* Mutant: rootCancel comes first.
HubCancelsFirst ==
    /\ stage = "hub" /\ stage' = "unsubscribe"
    /\ hubClosed' = TRUE /\ cancelled' = TRUE
    /\ UNCHANGED <<httpLate, ctxLate, pc, open, mu, job, gameVars, subscribed,
                   stopped, storeOpen, diskVars, request>>

\* hub.Close: the flag, ...
HubCloses ==
    /\ stage = "hub" /\ stage' = "unsubscribe"
    /\ hubClosed' = TRUE
    /\ UNCHANGED <<httpLate, ctxLate, pc, open, mu, job, gameVars, subscribed,
                   cancelled, stopped, storeOpen, diskVars, request>>

\* ... unsubscribe, under the session mutex, ...
HubUnsubscribes ==
    /\ stage = "unsubscribe" /\ stage' = "unregister"
    /\ mu = Free
    /\ subscribed' = FALSE
    /\ UNCHANGED <<httpLate, ctxLate, pc, open, mu, job, gameVars, hubClosed,
                   cancelled, stopped, storeOpen, diskVars, request>>

\* ... Unregister of the clients that are in the registry, ...
HubUnregisters ==
    /\ stage = "unregister" /\ stage' = "cancel"
    /\ open' = {c \in open : pc[c] \in {"away", "upgraded", "checked"}}
    /\ UNCHANGED <<httpLate, ctxLate, pc, mu, job, gameVars, flagVars, diskVars, request>>

\* ... rootCancel.
HubCancels ==
    /\ stage = "cancel" /\ stage' = "mgr"
    /\ cancelled' = TRUE
    /\ UNCHANGED <<httpLate, ctxLate, pc, open, mu, job, gameVars, subscribed,
                   hubClosed, stopped, storeOpen, diskVars, request>>

\* Mutant: the stop channel is not closed.
MgrForgetsStop ==
    /\ stage = "mgr" /\ stage' = "wait"
    /\ UNCHANGED <<httpLate, ctxLate, pc, open, mu, job, gameVars, flagVars, diskVars,
                   request>>

\* mgr.Close: the stop channel, ...
MgrStops ==
    /\ stage = "mgr" /\ stage' = "wait"
    /\ stopped' = TRUE
    /\ UNCHANGED <<httpLate, ctxLate, pc, open, mu, job, gameVars, subscribed,
                   hubClosed, cancelled, storeOpen, diskVars, request>>

\* Neither the wait nor the lock that follows looks at the context, so its 2
\* seconds may be over when the snapshot is saved.
ContextExpires ==
    /\ stage \in {"wait", "flush"} /\ ~ctxLate
    /\ ctxLate' = TRUE
    /\ UNCHANGED <<stage, httpLate, pc, open, mu, job, gameVars, flagVars, diskVars,
                   request>>

\* Mutant: the ticker is told to stop and not waited for.
MgrDoesNotWait ==
    /\ stage = "wait" /\ stage' = "flush"
    /\ UNCHANGED <<httpLate, ctxLate, pc, open, mu, job, gameVars, flagVars, diskVars,
                   request>>

\* ... tickerWG.Wait, ...
MgrWaits ==
    /\ stage = "wait" /\ stage' = "flush"
    /\ pc[Ticker] = "gone"
    /\ UNCHANGED <<httpLate, ctxLate, pc, open, mu, job, gameVars, flagVars, diskVars,
                   request>>

\* Mutant: the snapshots saved on the way are taken to be enough.
MgrClosesUnflushed ==
    /\ stage = "flush" /\ stage' = "closed"
    /\ mu = Free
    /\ storeOpen' = FALSE
    /\ UNCHANGED <<httpLate, ctxLate, pc, open, mu, job, gameVars, subscribed,
                   hubClosed, cancelled, stopped, active, result, request>>

\* ... and under the mutex the final snapshot and the end of the store.
MgrFlushes ==
    /\ stage = "flush" /\ stage' = "closed"
    /\ mu = Free
    /\ active' = IF started /\ ~ctxLate THEN Current ELSE active
    /\ storeOpen' = FALSE
    /\ UNCHANGED <<httpLate, ctxLate, pc, open, mu, job, gameVars, subscribed,
                   hubClosed, cancelled, stopped, result, request>>

\* main returns, and with it every goroutine ends.
Exit ==
    /\ stage = "closed" /\ stage' = "exited"
    /\ UNCHANGED <<httpLate, ctxLate, pc, open, mu, job, gameVars, flagVars, diskVars,
                   request>>

-----------------------------------------------------------------------------
Main == \/ HttpShutdown \/ HubCloses \/ HubUnsubscribes \/ HubUnregisters
        \/ HubCancels \/ MgrStops \/ MgrWaits \/ MgrFlushes \/ Exit

\* The holder of the mutex.
Holds(a) == Save(a) \/ End(a) \/ Send(a)

Enter(a) == Idle(a) \/ \E j \in Jobs : Apply(a, j)

Registers(c) == Upgrade(c) \/ RegisterCheck(c) \/ RegisterAdd(c)

Next ==
    \/ Signal \/ ListenFails \/ Main \/ ContextExpires
    \/ RequestArrives \/ RequestAnswered
    \/ TickFires \/ TickLoopStops
    \/ \E a \in Actors : Enter(a) \/ Holds(a)
    \/ \E c \in Clients : Registers(c) \/ Receive(c) \/ ReadFails(c)
    \/ stage = "exited" /\ UNCHANGED vars

Spec == Init /\ [][Next]_vars

\* The holder of the mutex runs on. A waiter on a sync.Mutex gets it in the end
\* (its starvation mode), so main and the ticker do; and the select of tickLoop
\* does not pass over a closed stopCh for ever (Go chooses at random among the
\* ready cases).
FairSpec ==
    /\ Spec
    /\ SF_vars(Main)
    /\ WF_vars(\E a \in Actors : Holds(a))
    /\ SF_vars(Enter(Ticker))
    /\ SF_vars(TickLoopStops)

-----------------------------------------------------------------------------
(* Properties *)

\* Types, and that the session mutex is held by the actor in the critical section.
TypeOK ==
    /\ stage \in Stages /\ httpLate \in BOOLEAN /\ ctxLate \in BOOLEAN
    /\ pc \in [Actors -> {"away", "upgraded", "checked", "idle", "locking", "saving",
                           "ending", "sending", "gone"}]
    /\ open \subseteq Clients
    /\ mu \in Actors \cup {Free} /\ job \in Jobs
    /\ \A a \in Actors : mu = a <=> pc[a] \in {"saving", "ending", "sending"}
    /\ gen \in 0..MaxSteps /\ over \in BOOLEAN /\ started \in BOOLEAN
    /\ active \in States /\ told \in States /\ result \in BOOLEAN
    /\ subscribed \in BOOLEAN /\ hubClosed \in BOOLEAN /\ cancelled \in BOOLEAN
    /\ stopped \in BOOLEAN /\ storeOpen \in BOOLEAN
    /\ request \in {"none", "pending", "failed"}

\* What the store holds is at least as far as the State s of the game: the
\* result, or a snapshot that is not older, and that is at END if s is.
Covers(s) == result \/ (active.gen >= s.gen /\ (s.over => active.over))

\* A shutdown loses nothing the players saw: once the store is closed, the State
\* of the last events any client was sent is on disk, also when it changed since
\* the last snapshot (a vote, a night target), and whatever handlers and ticker were
\* doing; unless the 2 seconds ran out. A save fails here when its context is
\* cancelled or the store closed; a failing disk is left to Session.
ToldIsDurable == ~storeOpen /\ ~ctxLate => Covers(told)

\* The ticker never meets a closed store: Close waits for it before.
TickerMeetsOpenStore == pc[Ticker] \in {"saving", "ending"} => storeOpen

\* Stage 1 is over before the store closes: a request for the results fails only
\* if the 5 seconds of the HTTP server ran out.
RequestsServed == request = "failed" => httpLate

\* unsubscribe before rootCancel: a change that handlers could only fail to save,
\* on a cancelled context or a closed store, is not told to anybody.
ToldOnlyIfSavable == [][told' # told => storeOpen /\ ~cancelled]_vars

\* The stages do not wait for one another in a circle (the hub for the session
\* mutex, Close for the ticker, the ticker for the mutex): a signal ends the
\* program.
ShutdownCompletes == stage = "http" ~> stage = "exited"
=============================================================================
