------------------------------- MODULE Process ------------------------------
(***************************************************************************)
(* The life of the process (cmd/piping/main.go): the settings it accepts,  *)
(* the steps of its start, the sweeper's goroutine, requests, a signal at  *)
(* any moment, the graceful shutdown, and the pool that is closed last.    *)
(*                                                                         *)
(* The context of run is cancelled by the first signal.  Startup calls and *)
(* the sweeper use it; requests do not.                                    *)
(***************************************************************************)
EXTENDS Integers

CONSTANTS
    Requests,   \* requests that may arrive
    Durations,  \* values of a duration; 0 stands for every one <= 0
    KeyLengths  \* lengths of ENCRYPTION_KEY in bytes

VARIABLES
    env,        \* the settings
    main,       \* where run is
    result,     \* what run is about to return
    ctxDone,    \* a signal has cancelled the context
    trapped,    \* signals go to the context; after stop() they kill
    sweeper,    \* the goroutine of Sweeper.Run
    shutdown,   \* the goroutine that waits for the signal
    listener,   \* the listening socket
    req,        \* req[r]: the handler of request r
    pool,       \* the connection pool
    exit        \* how the process ended

vars == <<env, main, result, ctxDone, trapped, sweeper, shutdown, listener,
          req, pool, exit>>

Settings == [complete: BOOLEAN,       \* all required ones there, numbers parse
             interval: Durations, sendTimeout: Durations, ageBound: Durations,
             keyLength: KeyLengths,
             endpoints: BOOLEAN,      \* the three endpoints are set as well
             uriParses: BOOLEAN]      \* OIDC_REDIRECT_URI is a URL

Init ==
    /\ env \in Settings
    /\ main = "config"
    /\ result = "none"
    /\ ctxDone = FALSE
    /\ trapped = TRUE
    /\ sweeper = "off"
    /\ shutdown = "off"
    /\ listener = "off"
    /\ req = [r \in Requests |-> "none"]
    /\ pool = "off"
    /\ exit = "running"

Up == exit = "running"
Active(r) == req[r] \in {"reading", "working", "statement"}

\* A request, or the sweeper, has a connection of the pool.
PoolInUse == (\E r \in Requests : req[r] = "statement") \/ sweeper = "pass"

-----------------------------------------------------------------------------
(* The start.                                                               *)

At(point) == Up /\ main = point
Goes(point) == main' = point /\ UNCHANGED result

\* The deferred pool.Close is next.
Return(what) == main' = "close" /\ result' = what

ReadSettings ==
    /\ At("config")
    /\ IF env.complete /\ env.ageBound > env.sendTimeout
         THEN Goes("ping") /\ pool' = "open"
         ELSE Return("failed") /\ UNCHANGED pool
    /\ UNCHANGED <<env, ctxDone, trapped, sweeper, shutdown, listener, req, exit>>

\* pool.Ping and VerifyDevice cannot succeed once the context is cancelled.
PingOrVerify ==
    /\ \/ At("ping") /\ ~ ctxDone /\ Goes("device")
       \/ At("device") /\ ~ ctxDone /\ Goes("sealer")
       \/ Up /\ main \in {"ping", "device"} /\ Return("failed")
    /\ UNCHANGED <<env, ctxDone, trapped, sweeper, shutdown, listener, req, pool, exit>>

NewSealer ==
    /\ At("sealer")
    /\ IF env.keyLength = 32 THEN Goes("discovery") ELSE Return("failed")
    /\ UNCHANGED <<env, ctxDone, trapped, sweeper, shutdown, listener, req, pool, exit>>

\* Without discovery, the endpoints of the settings have to do.
Discover ==
    /\ At("discovery")
    /\ \/ ~ ctxDone /\ Goes("sweeper")
       \/ IF env.endpoints THEN Goes("sweeper") ELSE Return("failed")
    /\ UNCHANGED <<env, ctxDone, trapped, sweeper, shutdown, listener, req, pool, exit>>

StartSweeper ==
    /\ At("sweeper")
    /\ sweeper' = "pass"
    /\ Goes("server")
    /\ UNCHANGED <<env, ctxDone, trapped, shutdown, listener, req, pool, exit>>

NewServer ==
    /\ At("server")
    /\ IF env.uriParses
         THEN Goes("listen") /\ shutdown' = "waiting"
         ELSE Return("failed") /\ UNCHANGED shutdown
    /\ UNCHANGED <<env, ctxDone, trapped, sweeper, listener, req, pool, exit>>

\* ListenAndServe refuses to begin after Shutdown; or the address is taken.
Listen ==
    /\ At("listen")
    /\ \/ listener = "closed" /\ Goes("wait") /\ UNCHANGED listener
       \/ listener = "off" /\ Goes("serve") /\ listener' = "open"
       \/ listener = "off" /\ Return("failed") /\ UNCHANGED listener
    /\ UNCHANGED <<env, ctxDone, trapped, sweeper, shutdown, req, pool, exit>>

-----------------------------------------------------------------------------
(* The end.                                                                 *)

\* Mutant: ErrServerClosed is an error like the others.
ServeEndsInError ==
    /\ At("serve") /\ listener = "closed"
    /\ Return("failed")
    /\ UNCHANGED <<env, ctxDone, trapped, sweeper, shutdown, listener, req, pool, exit>>

\* ListenAndServe returns as soon as Shutdown has begun, and not before: the
\* listening socket does not fail.
ServeEnds ==
    /\ At("serve") /\ listener = "closed"
    /\ Goes("wait")
    /\ UNCHANGED <<env, ctxDone, trapped, sweeper, shutdown, listener, req, pool, exit>>

\* Mutant: no wg.Wait().
WaitNot ==
    /\ At("wait")
    /\ Return("stopped")
    /\ UNCHANGED <<env, ctxDone, trapped, sweeper, shutdown, listener, req, pool, exit>>

Wait ==
    /\ At("wait") /\ shutdown \in {"done", "gaveUp"}
    /\ Return("stopped")
    /\ UNCHANGED <<env, ctxDone, trapped, sweeper, shutdown, listener, req, pool, exit>>

\* pool.Close refuses new acquires, then waits for the connections in use.
ClosePool ==
    /\ At("close") /\ pool = "open"
    /\ pool' = "closing"
    /\ UNCHANGED <<env, main, result, ctxDone, trapped, sweeper, shutdown,
                   listener, req, exit>>

Die(how) ==
    /\ exit' = how
    /\ req' = [r \in Requests |-> IF Active(r) THEN "cut" ELSE req[r]]
    /\ UNCHANGED <<env, main, result, ctxDone, trapped, sweeper, shutdown,
                   listener, pool>>

Exit ==
    /\ At("close") /\ pool # "open" /\ ~ PoolInUse
    /\ Die(result)

Signal ==
    /\ Up /\ trapped /\ ~ ctxDone
    /\ ctxDone' = TRUE
    /\ UNCHANGED <<env, main, result, trapped, sweeper, shutdown, listener,
                   req, pool, exit>>

SignalAgain == Up /\ ~ trapped /\ Die("killed")

\* <-ctx.Done(); stop(); Shutdown closes the listener, if there is one yet.
ShutdownBegins ==
    /\ Up /\ shutdown = "waiting" /\ ctxDone
    /\ trapped' = FALSE
    /\ listener' = "closed"
    /\ shutdown' = "draining"
    /\ UNCHANGED <<env, main, result, ctxDone, sweeper, req, pool, exit>>

ShutdownEnds ==
    /\ Up /\ shutdown = "draining"
    /\ \A r \in Requests : ~ Active(r)
    /\ shutdown' = "done"
    /\ UNCHANGED <<env, main, result, ctxDone, trapped, sweeper, listener, req, pool, exit>>

\* Mutant: Shutdown without a deadline.
ShutdownWaits ==
    /\ shutdown = "draining" /\ FALSE
    /\ UNCHANGED vars

\* After ten seconds.
ShutdownGivesUp ==
    /\ Up /\ shutdown = "draining"
    /\ \E r \in Requests : Active(r)
    /\ shutdown' = "gaveUp"
    /\ UNCHANGED <<env, main, result, ctxDone, trapped, sweeper, listener, req, pool, exit>>

-----------------------------------------------------------------------------
(* Sweeper.Run.  The ticker is made after the first pass, and panics unless *)
(* its interval is positive.                                                *)

Sweeps(point) ==
    /\ sweeper' = point
    /\ UNCHANGED <<env, main, result, ctxDone, trapped, shutdown, listener, req, pool, exit>>

PassEnds ==
    /\ Up /\ sweeper = "pass"
    /\ IF env.interval > 0 THEN Sweeps("waiting") ELSE Die("panicked")

\* A pass whose context is cancelled, or whose pool is closed, only fails.
SweepTick ==
    /\ Up /\ sweeper = "waiting"
    /\ Sweeps(IF ctxDone \/ pool # "open" THEN "waiting" ELSE "pass")

SweeperStops == Up /\ sweeper = "waiting" /\ ctxDone /\ Sweeps("gone")

-----------------------------------------------------------------------------
(* A request.  Nothing limits the time a client takes to send its body.     *)

Handles(r, point) ==
    /\ req' = [req EXCEPT ![r] = point]
    /\ UNCHANGED <<env, main, result, ctxDone, trapped, sweeper, shutdown,
                   listener, pool, exit>>

Accept(r) == Up /\ listener = "open" /\ req[r] = "none" /\ Handles(r, "reading")

BodyRead(r) == Up /\ req[r] = "reading" /\ Handles(r, "working")

\* A closed pool fails the statement, and the handler with it.
AcquireConn(r) ==
    /\ Up /\ req[r] = "working"
    /\ Handles(r, IF pool = "open" THEN "statement" ELSE "answered")

QueryEnds(r) == Up /\ req[r] = "statement" /\ Handles(r, "working")

Answer(r) == Up /\ req[r] = "working" /\ Handles(r, "answered")

Main ==
    \/ ReadSettings \/ PingOrVerify \/ NewSealer \/ Discover \/ StartSweeper
    \/ NewServer \/ Listen \/ ServeEnds \/ Wait \/ ClosePool \/ Exit

Shutdown == ShutdownBegins \/ ShutdownEnds \/ ShutdownGivesUp

Sweeper == PassEnds \/ SweeperStops

Exited == ~ Up /\ UNCHANGED vars

Next ==
    \/ Main \/ Shutdown \/ Sweeper \/ SweepTick
    \/ Signal \/ SignalAgain
    \/ \E r \in Requests :
          Accept(r) \/ BodyRead(r) \/ AcquireConn(r) \/ QueryEnds(r) \/ Answer(r)
    \/ Exited

Spec == Init /\ [][Next]_vars

(* Goroutines go on: startup calls end by their context or their timeout,   *)
(* Shutdown by its own, and the database answers statements.  Nothing is    *)
(* assumed of clients, who may never finish their upload, and no signal is  *)
(* assumed to come.                                                         *)
FairSpec ==
    /\ Spec
    /\ WF_vars(Main) /\ WF_vars(Shutdown)
    /\ WF_vars(PassEnds) /\ WF_vars(SweeperStops)
    /\ \A r \in Requests : WF_vars(QueryEnds(r))

-----------------------------------------------------------------------------
TypeOK ==
    /\ env \in Settings
    /\ main \in {"config", "ping", "device", "sealer", "discovery", "sweeper",
                 "server", "listen", "serve", "wait", "close"}
    /\ result \in {"none", "stopped", "failed"}
    /\ ctxDone \in BOOLEAN /\ trapped \in BOOLEAN
    /\ sweeper \in {"off", "pass", "waiting", "gone"}
    /\ shutdown \in {"off", "waiting", "draining", "done", "gaveUp"}
    /\ listener \in {"off", "open", "closed"}
    /\ req \in [Requests -> {"none", "reading", "working", "statement", "answered", "cut"}]
    /\ pool \in {"off", "open", "closing"}
    /\ exit \in {"running", "stopped", "failed", "panicked", "killed"}

(* A request that was accepted keeps its process and its pool until it is   *)
(* answered, unless Shutdown has given up on it, a second signal kills, or  *)
(* the sweeper panics.                                                      *)
NobodyIsCutOff ==
    \A r \in Requests :
        req[r] = "cut" \/ (Active(r) /\ pool # "open") =>
            shutdown = "gaveUp" \/ exit \in {"killed", "panicked"}

(* The exit status tells the service manager the truth: a process that says *)
(* it stopped was told to, and has waited for Shutdown; one that says it    *)
(* failed has not served anybody.                                           *)
ExitTellsTheTruth ==
    /\ exit = "stopped" => ctxDone /\ shutdown \in {"done", "gaveUp"}
    /\ exit = "failed" => \A r \in Requests : req[r] = "none"

(* One signal stops the process, at whatever point of its start it comes,   *)
(* and whatever clients do.                                                 *)
SignalStopsProcess == ctxDone ~> ~ Up

(* "So there is a periodic sweep task that resolves jobs stuck in non       *)
(* terminal states" (README.md): the task does not end the process.         *)
SweepIsPeriodic == exit # "panicked"

=============================================================================
