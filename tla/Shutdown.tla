------------------------------ MODULE Shutdown ------------------------------
(***************************************************************************)
(* The end of a driver process.  On a signal the gRPC server stops, by     *)
(* force where handlers take too long; then the background conversion work *)
(* is cancelled and waited for.  Handlers start that work, and it starts   *)
(* more of itself: each first checks that the common context is not        *)
(* cancelled and then adds itself to a wait group.                         *)
(***************************************************************************)
EXTENDS Integers, FiniteSets

CONSTANTS Requests, Workers

VARIABLES server,     \* "starting", "serving", "draining" (graceful stop) or "stopped"
          forced,     \* was it stopped by force?
          req,        \* handler of each request: "new", "running", "checked" or "done"
          worker,     \* each goroutine: "none", "running", "checked" (about to start another) or "done"
          cancelled,  \* the context of background work
          pc,         \* shutdown: "idle", "stop", "cancel", "wait", "returned"
          clean,      \* what StopConversionWorkers returned
          late,       \* was work started after it returned?
          serve, wg,  \* the goroutine of the server, "running" or "ended", and the group Run waits for
          main        \* "running" or "crashed"
vars == <<server, serve, wg, forced, req, worker, cancelled, pc, clean, late, main>>

Init ==
  /\ server = "starting" /\ serve = "running" /\ wg = 1 /\ forced = FALSE /\ req = [r \in Requests |-> "new"]
  /\ worker = [w \in Workers |-> "none"] /\ cancelled = FALSE /\ pc = "idle"
  /\ clean = FALSE /\ late = FALSE /\ main = "running"

Counted == {w \in Workers : worker[w] \in {"running", "checked"}}

(***************************************************************************)
(* The server.  Go's server waits for handlers when stopped gracefully,    *)
(* and does not when stopped by force.                                     *)
(***************************************************************************)
Serve ==
  /\ server = "starting" /\ server' = "serving"
  /\ UNCHANGED <<serve, wg, forced, req, worker, cancelled, pc, clean, late, main>>
Accept(r) ==
  /\ server = "serving" /\ req[r] = "new" /\ req' = [req EXCEPT ![r] = "running"]
  /\ UNCHANGED <<server, serve, wg, forced, worker, cancelled, pc, clean, late, main>>
Answer(r) ==
  /\ req[r] = "running" /\ req' = [req EXCEPT ![r] = "done"]
  /\ UNCHANGED <<server, serve, wg, forced, worker, cancelled, pc, clean, late, main>>
Stop ==
  /\ server = "draining" /\ \A r \in Requests : req[r] \in {"new", "done"} /\ server' = "stopped"
  /\ UNCHANGED <<serve, wg, forced, req, worker, cancelled, pc, clean, late, main>>

\* The goroutine ends with its server; it does not leave the wait group.
ServeReturns ==
  /\ server = "stopped" /\ serve = "running" /\ serve' = "ended"
  /\ UNCHANGED <<server, wg, forced, req, worker, cancelled, pc, clean, late, main>>

(***************************************************************************)
(* Starting background work: the check, then the goroutine.                *)
(***************************************************************************)
CheckContext(r) ==
  /\ req[r] = "running" /\ ~cancelled /\ req' = [req EXCEPT ![r] = "checked"]
  /\ UNCHANGED <<server, serve, wg, forced, worker, cancelled, pc, clean, late, main>>
StartQueuedConversion(r, w) ==
  /\ req[r] = "checked" /\ worker[w] = "none" /\ req' = [req EXCEPT ![r] = "running"]
  /\ worker' = [worker EXCEPT ![w] = "running"] /\ late' = (late \/ (pc = "returned" /\ clean))
  /\ UNCHANGED <<server, serve, wg, forced, cancelled, pc, clean, main>>
CheckContextAgain(v) ==
  /\ worker[v] = "running" /\ ~cancelled /\ worker' = [worker EXCEPT ![v] = "checked"]
  /\ UNCHANGED <<server, serve, wg, forced, req, cancelled, pc, clean, late, main>>
\* A conversion starts the watcher that follows it.
WatchConversion(v, w) ==
  /\ worker[v] = "checked" /\ worker[w] = "none"
  /\ worker' = [worker EXCEPT ![v] = "running", ![w] = "running"] /\ late' = (late \/ (pc = "returned" /\ clean))
  /\ UNCHANGED <<server, serve, wg, forced, req, cancelled, pc, clean, main>>
\* Work ends by itself; cancelled work ends soon, unless a call does not return.
WorkerDone(w) ==
  /\ worker[w] = "running" /\ worker' = [worker EXCEPT ![w] = "done"]
  /\ UNCHANGED <<server, serve, wg, forced, req, cancelled, pc, clean, late, main>>

(***************************************************************************)
(* The signal and the shutdown.                                            *)
(***************************************************************************)
\* Stopping a server that is not there yet is a panic.
Signal ==
  /\ pc = "idle" /\ pc' = "stop"
  /\ IF server = "starting" THEN main' = "crashed" /\ UNCHANGED server
                            ELSE server' = "draining" /\ UNCHANGED main
  /\ UNCHANGED <<serve, wg, forced, req, worker, cancelled, clean, late>>
\* Mutant: nothing bounds the graceful stop.
GracefulOnly ==
  /\ pc = "stop" /\ server = "stopped" /\ pc' = "cancel"
  /\ UNCHANGED <<server, serve, wg, forced, req, worker, cancelled, clean, late, main>>
\* Mutant: background work is stopped while the server still drains.
DoesNotWait ==
  /\ pc = "stop" /\ pc' = "cancel"
  /\ UNCHANGED <<server, serve, wg, forced, req, worker, cancelled, clean, late, main>>
\* The server has stopped, or the timeout forces it.
ForceStop ==
  /\ pc = "stop" /\ pc' = "cancel" /\ server' = "stopped" /\ forced' = (server # "stopped")
  /\ UNCHANGED <<serve, wg, req, worker, cancelled, clean, late, main>>
StopConversionWorkers ==
  /\ pc = "cancel" /\ cancelled' = TRUE /\ pc' = "wait"
  /\ UNCHANGED <<server, serve, wg, forced, req, worker, clean, late, main>>
\* Mutant: the caller learns of the end through another state.
ConversionWorkersEnd ==
  /\ pc = "wait" /\ pc' = "ended" /\ clean' \in {FALSE, Counted = {}}
  /\ UNCHANGED <<server, serve, wg, forced, req, worker, cancelled, late, main>>
\* The wait group is empty, or the timeout comes first.
ConversionWorkersStopped ==
  /\ pc = "wait" /\ pc' = "returned" /\ clean' \in {FALSE, Counted = {}}
  /\ UNCHANGED <<server, serve, wg, forced, req, worker, cancelled, late, main>>

Shut == ForceStop \/ StopConversionWorkers \/ ConversionWorkersStopped
Work ==
  \/ \E r \in Requests : \/ Accept(r) \/ Answer(r) \/ CheckContext(r)
                         \/ \E w \in Workers : StartQueuedConversion(r, w)
  \/ \E v \in Workers : \/ CheckContextAgain(v) \/ WorkerDone(v)
                        \/ \E w \in Workers : WatchConversion(v, w)
Next == main = "running" /\ (Serve \/ Stop \/ ServeReturns \/ Work \/ Signal \/ Shut)
\* Handlers may hang, a stopped process stays.
Rest == (main = "crashed" \/ pc = "returned" \/ server = "draining") /\ UNCHANGED vars
Spec == Init /\ [][Next \/ Rest]_vars
\* The shutdown goes on and a stopped server returns; no handler and no worker has to end.
Fairness == WF_vars(main = "running" /\ Shut) /\ WF_vars(main = "running" /\ ServeReturns)

(***************************************************************************)
(* Properties.                                                             *)
(***************************************************************************)
TypeOK ==
  /\ server \in {"starting", "serving", "draining", "stopped"}
  /\ pc \in {"idle", "stop", "cancel", "wait", "returned"}

\* After a graceful stop, a clean end of the shutdown is final: no worker runs and none can
\* be started, because no handler is left and every starter is counted itself.
CleanStopIsFinal ==
  pc = "returned" /\ clean /\ ~forced
    => Counted = {} /\ \A r \in Requests : req[r] \in {"new", "done"}

\* The shutdown ends, though handlers and workers may hang.
ShutdownEnds == Fairness => ((pc = "stop" /\ main = "running") ~> (pc = "returned"))

\* No background work starts once it has been stopped.
\* The code does not have this property (README, Observations): a forced stop waits
\* for no handler. CleanStopIsFinal is what holds.
NoWorkAfterStop == ~late

\* Waiting for the server ends when the server has stopped.
\* The code does not have this property (README, Observations): nothing takes the
\* serving goroutine out of the wait group.
WaitReturns == Fairness => ((serve = "ended") ~> (wg = 0))

=============================================================================
