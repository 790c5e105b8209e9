--------------------------- MODULE ShutdownProofs ---------------------------
(***************************************************************************)
(* CleanStopIsFinal for every set of requests and workers.  It is not      *)
(* inductive: that no handler is left when the shutdown returns follows    *)
(* from the server having stopped before, and that no worker is started    *)
(* from both.  ShutdownInv adds these facts.                               *)
(***************************************************************************)
EXTENDS Shutdown, TLAPS

Quiet(r) == req[r] \in {"new", "done"}
ShutdownInv ==
  /\ pc \in {"idle", "stop", "cancel", "wait", "returned"}
  /\ req \in [Requests -> {"new", "running", "checked", "done"}]
  /\ worker \in [Workers -> {"none", "running", "checked", "done"}]
  /\ pc \in {"idle", "stop"} => ~forced
  /\ pc \in {"cancel", "wait", "returned"} => server = "stopped"
  /\ server = "stopped" /\ ~forced => \A r \in Requests : Quiet(r)
  /\ pc = "returned" /\ clean /\ ~forced => Counted = {}

LEMMA InitShutdownInv == Init => ShutdownInv
BY DEF Init, ShutdownInv

\* Steps of the server and of its handlers.
LEMMA ServerStep ==
  ASSUME ShutdownInv,
         \/ Serve \/ Stop \/ ServeReturns
         \/ \E r \in Requests : Accept(r) \/ Answer(r) \/ CheckContext(r)
  PROVE  ShutdownInv'
<1>1. CASE Serve \/ ServeReturns
  BY <1>1 DEF ShutdownInv, Serve, ServeReturns, Quiet, Counted
<1>2. CASE Stop
  BY <1>2 DEF ShutdownInv, Stop, Quiet, Counted
<1>3. ASSUME NEW r \in Requests, Accept(r) PROVE ShutdownInv'
  BY <1>3 DEF ShutdownInv, Accept, Quiet, Counted
<1>4. ASSUME NEW r \in Requests, Answer(r) \/ CheckContext(r) PROVE ShutdownInv'
  BY <1>4 DEF ShutdownInv, Answer, CheckContext, Quiet, Counted
<1> QED  BY <1>1, <1>2, <1>3, <1>4

\* A handler that starts work is not quiet, so the server has not stopped
\* gracefully, and a clean shutdown has not returned.
LEMMA HandlerStartsWork ==
  ASSUME ShutdownInv, NEW r \in Requests, NEW w \in Workers, StartQueuedConversion(r, w)
  PROVE  ShutdownInv'
<1>1. ~Quiet(r)  BY DEF StartQueuedConversion, Quiet
<1>2. ~(server = "stopped" /\ ~forced)  BY <1>1 DEF ShutdownInv
<1>3. ~(pc = "returned" /\ clean /\ ~forced)  BY <1>2 DEF ShutdownInv
<1> QED  BY <1>2, <1>3 DEF ShutdownInv, StartQueuedConversion

\* A worker that takes a step is counted, so a clean shutdown has not returned.
LEMMA WorkerStep ==
  ASSUME ShutdownInv, NEW v \in Workers,
         \/ CheckContextAgain(v) \/ WorkerDone(v)
         \/ \E w \in Workers : WatchConversion(v, w)
  PROVE  ShutdownInv'
<1>1. v \in Counted
  BY DEF CheckContextAgain, WorkerDone, WatchConversion, Counted
<1>2. ~(pc = "returned" /\ clean /\ ~forced)  BY <1>1 DEF ShutdownInv
<1>3. CASE CheckContextAgain(v) \/ WorkerDone(v)
  BY <1>2, <1>3 DEF ShutdownInv, CheckContextAgain, WorkerDone, Quiet
<1>4. ASSUME NEW w \in Workers, WatchConversion(v, w) PROVE ShutdownInv'
  BY <1>2, <1>4 DEF ShutdownInv, WatchConversion, Quiet
<1> QED  BY <1>3, <1>4

\* The signal and the steps of the shutdown.
LEMMA ShutdownStep ==
  ASSUME ShutdownInv, Signal \/ Shut  PROVE  ShutdownInv'
<1>1. CASE Signal  BY <1>1 DEF ShutdownInv, Signal, Quiet, Counted
<1>2. CASE ForceStop
  <2>1. ~forced  BY <1>2 DEF ShutdownInv, ForceStop
  <2>2. ~forced' => server = "stopped"  BY <1>2 DEF ForceStop
  <2> QED  BY <1>2, <2>1, <2>2 DEF ShutdownInv, ForceStop, Quiet, Counted
<1>3. CASE StopConversionWorkers
  BY <1>3 DEF ShutdownInv, StopConversionWorkers, Quiet, Counted
<1>4. CASE ConversionWorkersStopped
  <2>1. clean' => Counted = {}  BY <1>4 DEF ConversionWorkersStopped
  <2> QED  BY <1>4, <2>1 DEF ShutdownInv, ConversionWorkersStopped, Quiet, Counted
<1> QED  BY <1>1, <1>2, <1>3, <1>4 DEF Shut

LEMMA ShutdownInvStep == ShutdownInv /\ [Next \/ Rest]_vars => ShutdownInv'
<1> SUFFICES ASSUME ShutdownInv, [Next \/ Rest]_vars PROVE ShutdownInv'  OBVIOUS
<1>1. CASE Next
  BY <1>1, ServerStep, HandlerStartsWork, WorkerStep, ShutdownStep DEF Next, Work
<1>2. CASE UNCHANGED vars  BY <1>2 DEF vars, ShutdownInv, Quiet, Counted
<1> QED  BY <1>1, <1>2 DEF Rest

(***************************************************************************)
(* After a graceful stop, a clean end of the shutdown is final: neither a  *)
(* handler nor a worker is left that could start background work.          *)
(***************************************************************************)
THEOREM CleanStopTheorem == Spec => []CleanStopIsFinal
<1>1. ShutdownInv => CleanStopIsFinal  BY DEF ShutdownInv, CleanStopIsFinal, Quiet
<1> QED  BY <1>1, InitShutdownInv, ShutdownInvStep, PTL DEF Spec
=============================================================================
