---------------------- MODULE DiskTypeConversionProofs ----------------------
(***************************************************************************)
(* Proofs about DiskTypeConversion, for every set of nodes, types, classes *)
(* and operations.                                                         *)
(*                                                                         *)
(* NeverAttachedWhileConverting is not inductive: that an attach is safe   *)
(* depends on what the attaching thread read earlier, on who may have      *)
(* written since, and on the PV being truthful about the operations of     *)
(* GCE.  The inductive invariant says for each step of a thread what the   *)
(* earlier steps established and the volume lock has kept true.            *)
(***************************************************************************)
EXTENDS DiskTypeConversion, TLAPS

\* The exclusive holder of the volume lock is alone.
LockHeld == th[Excl].step # "idle" => \A n \in Nodes : th[n].step = "idle"

\* A request ID is on the PV only while its operation is not.
RequestIsPending == pv.reqID # None => pv.op = Pending

\* A watcher that carries a request ID follows what GCE started for it.
WatcherKnowsItsRequest == watcher.r # None => accepted[watcher.r] = watcher.o

\* The thread between the write of its request and the write of its operation.
RequestInFlight ==
  LET e == th[Excl]
  IN  /\ e.step \in {"call", "rejected", "record"} => pv.op = Pending /\ e.r \in Reqs /\ pv.reqID = e.r
      /\ e.step = "rejected" => accepted[e.r] = None
      /\ e.step = "record" => e.o \in Ops /\ accepted[e.r] = e.o

\* The watcher with the lock, before and after it found its operation recorded.
FinishInFlight ==
  LET e == th[Excl]
  IN  /\ e.step \in {"ensure", "finish"} => e.o \in Ops /\ Finished(e.o)
      /\ e.step = "ensure" /\ e.r # None => accepted[e.r] = e.o
      /\ e.step = "finish" => pv.op = e.o

\* The reconciliation that follows.
ReconcileInFlight ==
  LET e == th[Excl]
  IN  /\ e.step \in {"identify", "clear"} => pv.op = Reconciling
      /\ e.step = "clear" => pv.reconID = e.o
      /\ e.step = "latest" => pv.op = None

\* What the step a thread has reached says: nothing blocked the volume when a
\* thread passed its checks, and a disk about to be detached is attached.
Justified(t) ==
  /\ th[t].step \in {"attach", "act", "perf"} => pv.op = None
  /\ t \in Nodes /\ th[t].step = "detach" => AttachedTo(t)
  /\ t = Excl => RequestInFlight /\ FinishInFlight /\ ReconcileInFlight

ConversionInv ==
  /\ TypeOK
  /\ LockHeld
  /\ RequestIsPending
  /\ WatcherKnowsItsRequest
  /\ \A t \in Threads : Justified(t)
  /\ RunningConversionIsRecorded
  /\ NeverAttachedWhileConverting

-----------------------------------------------------------------------------
\* How a thread moves.

\* Only thread t takes a step, and its record keeps its type.
Moves(t) == /\ th' \in [Threads -> Thread]
            /\ \A u \in Threads : u # t => th'[u] = th[u]

LEMMA GoMoves ==
  ASSUME TypeOK, NEW t \in Threads, NEW s \in Steps, Go(t, s)
  PROVE  /\ Moves(t)
         /\ th'[t].step = s /\ th'[t].kind = th[t].kind /\ th'[t].c = th[t].c
         /\ th'[t].r = th[t].r /\ th'[t].o = th[t].o
BY ZenonT(30) DEF TypeOK, Thread, Go, Moves

LEMMA LeaveMoves ==
  ASSUME TypeOK, NEW t \in Threads, Leave(t)
  PROVE  Moves(t) /\ th'[t].step = "idle"
<1>1. NoThread \in Thread /\ NoThread.step = "idle"
  BY ConstantsAssumption DEF NoThread, Thread, NoIntent, NoDisk, Intent, Kinds, Gated, Steps
<1> QED  BY <1>1 DEF TypeOK, Leave, Moves

LEMMA StepMoves ==
  ASSUME TypeOK, NEW t \in Threads, NEW s \in Steps, Step(t, s)
  PROVE  /\ Moves(t)
         /\ th'[t].step = s
         /\ s # "idle" => th'[t].r = th[t].r /\ th'[t].o = th[t].o
BY GoMoves, LeaveMoves DEF Step

\* A thread starts over, or goes on with another intent.
LEMMA ReplaceMoves ==
  ASSUME TypeOK, NEW t \in Threads, NEW e \in Thread, th' = [th EXCEPT ![t] = e]
  PROVE  Moves(t) /\ th'[t] = e
BY DEF TypeOK, Moves

LEMMA IntentMoves ==
  ASSUME TypeOK, NEW t \in Threads, NEW s \in Steps, NEW i \in Intent,
         th' = [th EXCEPT ![t].step = s, ![t].c = i]
  PROVE  Moves(t) /\ th'[t].step = s
<1> DEFINE e == [th[t] EXCEPT !.step = s, !.c = i]
<1>1. e \in Thread /\ e.step = s  BY Zenon DEF TypeOK, Thread
<1>2. th' = [th EXCEPT ![t] = e]  BY Zenon
<1> HIDE DEF e
<1> QED  BY <1>1, <1>2, ReplaceMoves, Zenon

LEMMA OperationMoves ==
  ASSUME TypeOK, NEW t \in Threads, NEW s \in Steps, NEW o \in Ops,
         th' = [th EXCEPT ![t].step = s, ![t].o = o]
  PROVE  Moves(t) /\ th'[t].step = s /\ th'[t].o = o /\ th'[t].r = th[t].r
<1> DEFINE e == [th[t] EXCEPT !.step = s, !.o = o]
<1>1. e \in Thread /\ e.step = s /\ e.o = o /\ e.r = th[t].r  BY Zenon DEF TypeOK, Thread
<1>2. th' = [th EXCEPT ![t] = e]  BY Zenon
<1> HIDE DEF e
<1> QED  BY <1>1, <1>2, ReplaceMoves, Zenon

\* What a thread knows of the disk.
DiskRead == [type : Types \cup {None}, perf : Perfs \cup {None}, attached : BOOLEAN]

LEMMA DiskMoves ==
  ASSUME TypeOK, NEW t \in Threads, NEW s \in Steps, NEW d \in DiskRead,
         th' = [th EXCEPT ![t].step = s, ![t].d = d]
  PROVE  Moves(t) /\ th'[t].step = s /\ th'[t].o = th[t].o
<1> DEFINE e == [th[t] EXCEPT !.step = s, !.d = d]
<1>1. e \in Thread /\ e.step = s /\ e.o = th[t].o  BY Zenon DEF TypeOK, Thread, DiskRead
<1>2. th' = [th EXCEPT ![t] = e]  BY Zenon
<1> HIDE DEF e
<1> QED  BY <1>1, <1>2, ReplaceMoves, Zenon

LEMMA GetDiskType == ASSUME TypeOK PROVE GetDisk \in DiskRead /\ NoDisk \in DiskRead
BY DEF TypeOK, GetDisk, NoDisk, DiskRead

LEMMA ThreadUpdates ==
  ASSUME NEW e \in Thread, NEW s \in Steps, NEW i \in Intent, NEW d \in DiskRead,
         NEW o \in Ops \cup {None, Uuid}
  PROVE  /\ [e EXCEPT !.step = s, !.d = d, !.o = o] \in Thread
         /\ [e EXCEPT !.step = s, !.c = i, !.o = o, !.r = None] \in Thread
BY Zenon DEF Thread, DiskRead

\* A step of a thread in the middle of its call.
LEMMA StepKeeps ==
  ASSUME ConversionInv, NEW t \in Threads, th[t].step # "idle", Moves(t),
         UNCHANGED <<class, disk, attaching, lagging, ops, accepted>>,
         pv' \in Annotations,
         watcher' \in [o : Ops, r : Reqs \cup {None}] \cup {NoWatcher},
         recon' \in {"none", "waiting", "running"}, runners' \in 0..MaxRunners,
         RequestIsPending', WatcherKnowsItsRequest', RunningConversionIsRecorded',
         t \in Nodes => pv'.op \in {pv.op, None},
         Justified(t)'
  PROVE  ConversionInv'
<1>1. TypeOK'  BY DEF ConversionInv, TypeOK, Moves
<1>2. LockHeld'  BY DEF ConversionInv, LockHeld, Moves, Threads
<1>3. ASSUME NEW u \in Threads, u # t PROVE Justified(u)'
  <2>1. th'[u] = th[u]  BY <1>3 DEF Moves
  <2>2. CASE t = Excl
    <3>1. u \in Nodes /\ u # Excl /\ th[u].step = "idle"
      BY <1>3, <2>2 DEF ConversionInv, LockHeld, Threads
    <3> QED  BY <2>1, <3>1 DEF Justified
  <2>3. CASE t # Excl
    <3>1. th[Excl].step = "idle" /\ t \in Nodes
      BY <2>3 DEF ConversionInv, LockHeld, Threads
    <3>2. CASE u = Excl
      <4>1. th'[Excl].step = "idle"  BY <2>1, <3>1, <3>2
      <4> QED  BY <3>2, <4>1, ConversionAssumption
               DEF Justified, RequestInFlight, FinishInFlight, ReconcileInFlight
    <3>3. CASE u # Excl
      <4>1. Justified(u)  BY DEF ConversionInv
      <4> QED  BY <2>1, <3>1, <3>3, <4>1 DEF Justified, AttachedTo
    <3> QED  BY <3>2, <3>3
  <2> QED  BY <2>2, <2>3
<1>4. NeverAttachedWhileConverting'
  BY DEF ConversionInv, NeverAttachedWhileConverting, Converting, InProgress
<1> QED  BY <1>1, <1>2, <1>3, <1>4 DEF ConversionInv

\* The same, when only threads and background work change.
LEMMA QuietStepKeeps ==
  ASSUME ConversionInv, NEW t \in Threads, th[t].step # "idle", Moves(t),
         UNCHANGED <<pv, class, disk, attaching, lagging, ops, accepted, watcher>>,
         recon' \in {"none", "waiting", "running"}, runners' \in 0..MaxRunners,
         Justified(t)'
  PROVE  ConversionInv'
<1>1. RequestIsPending' /\ WatcherKnowsItsRequest' /\ RunningConversionIsRecorded'
  BY DEF ConversionInv, RequestIsPending, WatcherKnowsItsRequest, RunningConversionIsRecorded, InProgress
<1>2. /\ pv' \in Annotations /\ pv'.op = pv.op
      /\ watcher' \in [o : Ops, r : Reqs \cup {None}] \cup {NoWatcher}
  BY DEF ConversionInv, TypeOK
<1> QED  BY <1>1, <1>2, StepKeeps

\* The volume lock is free for thread t.
Acquires(t) == (t = Excl /\ TryAcquire) \/ (t \in Nodes /\ TryAcquireShared(t))

\* A call that gets the volume lock.
LEMMA EnterKeeps ==
  ASSUME ConversionInv, NEW t \in Threads,
         Acquires(t),
         Moves(t),
         UNCHANGED <<pv, class, disk, attaching, lagging, ops, accepted, watcher>>,
         recon' \in {"none", "waiting", "running"}, runners' \in 0..MaxRunners,
         Justified(t)'
  PROVE  ConversionInv'
<1>1. TypeOK'  BY DEF ConversionInv, TypeOK, Moves
<1>2. LockHeld'
  BY ConversionAssumption
     DEF ConversionInv, LockHeld, Moves, Threads, Acquires, TryAcquire, TryAcquireShared
<1>3. ASSUME NEW u \in Threads, u # t PROVE Justified(u)'
  <2>1. th'[u] = th[u]  BY <1>3 DEF Moves
  <2>2. Justified(u)  BY DEF ConversionInv
  <2> QED  BY <2>1, <2>2
           DEF Justified, AttachedTo, RequestInFlight, FinishInFlight, ReconcileInFlight, Finished
<1>4. RequestIsPending' /\ WatcherKnowsItsRequest' /\ RunningConversionIsRecorded'
  BY DEF ConversionInv, RequestIsPending, WatcherKnowsItsRequest, RunningConversionIsRecorded, InProgress
<1>5. NeverAttachedWhileConverting'
  BY DEF ConversionInv, NeverAttachedWhileConverting, Converting, InProgress
<1> QED  BY <1>1, <1>2, <1>3, <1>4, <1>5 DEF ConversionInv

\* A step that nothing has to have been established for.
Plain == {"idle", "modify", "convert", "queue", "prepare", "report", "refuse", "note", "final",
          "cancel", "check", "outcome", "users", "recover", "wait", "hook"}

LEMMA PlainIsJustified ==
  ASSUME NEW t \in Threads, th'[t].step \in Plain
  PROVE  Justified(t)'
BY DEF Plain, Justified, RequestInFlight, FinishInFlight, ReconcileInFlight

\* The steps after a refusal and after a cancellation.
LEMMA AfterSteps ==
  ASSUME NEW t
  PROVE  /\ Admitted(t) \in {"attach", "act"}
         /\ AfterRefusal(t) \in {"final", "idle"}
         /\ AfterCancel(t) \in {"perf", "attach", "act", "idle"}
BY DEF Admitted, AfterRefusal, AfterCancel

-----------------------------------------------------------------------------
\* What the writes do to the fields that the invariant reads.

LEMMA NoIntentType == NoIntent \in Intent
BY DEF NoIntent, Intent

LEMMA AnnotationTypes ==
  ASSUME NEW a \in Annotations
  PROVE  /\ a.op \in Ops \cup {None, Pending, Reconciling} /\ a.reqID \in Reqs \cup {None}
         /\ a.target \in Types \cup {None} /\ a.perf \in Perfs \cup {None}
         /\ a.source \in Types \cup {None} /\ a.reconID \in Ops \cup {None, Uuid}
         /\ a.to \in Types \cup {None}
BY DEF Annotations

LEMMA QueuedType ==
  ASSUME NEW a \in Annotations, NEW ty \in Types \cup {None}
  PROVE  Queued(a, ty) \in Annotations /\ Queued(a, ty).op = Pending /\ Queued(a, ty).reqID = a.reqID
BY Zenon DEF Annotations, Queued

LEMMA PreparedType ==
  ASSUME NEW a \in Annotations, NEW r \in Reqs, NEW i \in Intent, NEW ty \in Types \cup {None}
  PROVE  /\ Prepared(a, r, i, ty) \in Annotations
         /\ Prepared(a, r, i, ty).op = Pending /\ Prepared(a, r, i, ty).reqID = r
BY ZenonT(30) DEF Annotations, Prepared, Intent

LEMMA StartedType ==
  ASSUME NEW a \in Annotations, NEW o \in Ops
  PROVE  Started(a, o) \in Annotations /\ Started(a, o).op = o /\ Started(a, o).reqID = None
BY NoIntentType, ZenonT(30) DEF Annotations, Started

LEMMA RequestForgottenType ==
  ASSUME NEW a \in Annotations
  PROVE  /\ RequestForgotten(a) \in Annotations
         /\ RequestForgotten(a).op = a.op /\ RequestForgotten(a).reqID = None
BY Zenon DEF Annotations, RequestForgotten

LEMMA OperationRestoredType ==
  ASSUME NEW a \in Annotations, NEW o \in Ops
  PROVE  /\ OperationRestored(a, o) \in Annotations
         /\ OperationRestored(a, o).op = o /\ OperationRestored(a, o).reqID = None
BY Zenon DEF Annotations, OperationRestored

LEMMA RequeuedType ==
  ASSUME NEW a \in Annotations
  PROVE  Requeued(a) \in Annotations /\ Requeued(a).op = Pending /\ Requeued(a).reqID = None
BY Zenon DEF Annotations, Requeued

LEMMA FailedType ==
  ASSUME NEW a \in Annotations
  PROVE  Failed(a) \in Annotations /\ Failed(a).op = None /\ Failed(a).reqID = None
<1>1. CASE a.target # None
  <2> DEFINE i == [type |-> a.target, perf |-> a.perf]
  <2>1. i \in Intent  BY DEF Annotations, Intent
  <2>2. Failed(a) = [a EXCEPT !.op = None, !.reqID = None, !.perf = None, !.source = None,
                              !.target = None, !.reconID = None, !.infeasible = TRUE, !.intent = i]
    BY <1>1, Zenon DEF Failed
  <2> HIDE DEF i
  <2> QED  BY <2>1, <2>2, Zenon DEF Annotations
<1>2. CASE a.target = None
  <2>1. Failed(a) = [a EXCEPT !.op = None, !.reqID = None, !.perf = None, !.source = None,
                              !.target = None, !.reconID = None]
    BY <1>2, Zenon DEF Failed, Annotations
  <2> QED  BY <2>1, Zenon DEF Annotations
<1> QED  BY <1>1, <1>2

LEMMA CompletedType ==
  ASSUME NEW a \in Annotations, NEW o \in Ops, NEW ty \in Types \cup {None}
  PROVE  /\ Completed(a, o, ty) \in Annotations
         /\ Completed(a, o, ty).op = Reconciling /\ Completed(a, o, ty).reqID = None
         /\ Completed(a, o, ty).reconID = o
<1> DEFINE f == IF a.source # None THEN a.source ELSE a.from
<1>1. f \in Types \cup {None}  BY DEF Annotations
<1>2. Completed(a, o, ty) =
        [a EXCEPT !.op = Reconciling, !.reconID = o, !.to = ty, !.from = f, !.reqID = None,
                  !.perf = None, !.source = None, !.target = None, !.lastErr = FALSE]
  BY DEF Completed
<1> HIDE DEF f
<1> QED  BY <1>1, <1>2, ZenonT(60) DEF Annotations

LEMMA ReconciledType ==
  ASSUME NEW a \in Annotations
  PROVE  Reconciled(a) \in Annotations /\ Reconciled(a).op = None /\ Reconciled(a).reqID = a.reqID
BY Zenon DEF Annotations, Reconciled

LEMMA CancelledType ==
  ASSUME NEW a \in Annotations
  PROVE  Cancelled(a) \in Annotations /\ Cancelled(a).op = None /\ Cancelled(a).reqID = None
BY Zenon DEF Annotations, Cancelled

LEMMA RefusedType ==
  ASSUME NEW a \in Annotations, NEW i \in Intent
  PROVE  /\ Refused(a, i) \in Annotations
         /\ Refused(a, i).op = a.op /\ Refused(a, i).reqID = a.reqID
BY ZenonT(30) DEF Annotations, Refused

LEMMA RefusalClearedType ==
  ASSUME NEW a \in Annotations
  PROVE  /\ RefusalCleared(a) \in Annotations
         /\ RefusalCleared(a).op = a.op /\ RefusalCleared(a).reqID = a.reqID
BY NoIntentType, ZenonT(60) DEF Annotations, RefusalCleared

LEMMA WorkerTypes ==
  ASSUME TypeOK
  PROVE  /\ UNCHANGED recon \/ startConversionReconciliation => recon' \in {"none", "waiting", "running"}
         /\ UNCHANGED runners \/ spawnRunner => runners' \in 0..MaxRunners
<1>1. MaxRunners \in Nat  BY ConversionAssumption
<1> QED  BY <1>1 DEF TypeOK, startConversionReconciliation, spawnRunner

\* A quiet step to a step that needs no justification.
LEMMA PlainStepKeeps ==
  ASSUME ConversionInv, NEW t \in Threads, th[t].step # "idle", Moves(t), th'[t].step \in Plain,
         UNCHANGED <<pv, class, gce, watcher>>,
         UNCHANGED recon \/ startConversionReconciliation,
         UNCHANGED runners \/ spawnRunner
  PROVE  ConversionInv'
<1>1. TypeOK  BY DEF ConversionInv
<1>2. recon' \in {"none", "waiting", "running"} /\ runners' \in 0..MaxRunners  BY <1>1, WorkerTypes
<1>3. Justified(t)'  BY PlainIsJustified
<1> QED  BY <1>2, <1>3, QuietStepKeeps DEF gce

\* A write of the PV that leaves the recorded operation and request alone.
LEMMA SameOperationKeeps ==
  ASSUME ConversionInv, NEW t \in Threads, th[t].step # "idle", Moves(t), th'[t].step \in Plain,
         pv' \in Annotations, pv'.op = pv.op, pv'.reqID = pv.reqID,
         UNCHANGED <<class, gce, workers>>
  PROVE  ConversionInv'
<1>1. UNCHANGED <<class, disk, attaching, lagging, ops, accepted, watcher, recon, runners>>
  BY DEF gce, workers
<1>2. RequestIsPending' /\ WatcherKnowsItsRequest' /\ RunningConversionIsRecorded'
  BY <1>1
     DEF ConversionInv, RequestIsPending, WatcherKnowsItsRequest, RunningConversionIsRecorded, InProgress
<1>3. /\ watcher' \in [o : Ops, r : Reqs \cup {None}] \cup {NoWatcher}
      /\ recon' \in {"none", "waiting", "running"} /\ runners' \in 0..MaxRunners
  BY <1>1 DEF ConversionInv, TypeOK
<1>4. Justified(t)'  BY PlainIsJustified
<1> QED  BY <1>1, <1>2, <1>3, <1>4, StepKeeps

\* A queued conversion is withdrawn: GCE cannot have been asked.
LEMMA WithdrawKeeps ==
  ASSUME ConversionInv, NEW t \in Threads, th[t].step # "idle", Moves(t),
         th'[t].step \in Plain \cup {"attach", "act", "perf"},
         pv.op = Pending, pv.reqID = None, pv' = Cancelled(pv),
         UNCHANGED <<class, gce, workers>>
  PROVE  ConversionInv'
<1>1. UNCHANGED <<class, disk, attaching, lagging, ops, accepted, watcher, recon, runners>>
  BY DEF gce, workers
<1>2. pv' \in Annotations /\ pv'.op = None /\ pv'.reqID = None
  BY CancelledType DEF ConversionInv, TypeOK
<1>3. \A o \in Ops : ~InProgress(o)
  BY ConstantsAssumption DEF ConversionInv, RunningConversionIsRecorded
<1>4. RequestIsPending' /\ WatcherKnowsItsRequest' /\ RunningConversionIsRecorded'
  BY <1>1, <1>2, <1>3 DEF ConversionInv, RequestIsPending, WatcherKnowsItsRequest,
                          RunningConversionIsRecorded, InProgress
<1>5. /\ watcher' \in [o : Ops, r : Reqs \cup {None}] \cup {NoWatcher}
      /\ recon' \in {"none", "waiting", "running"} /\ runners' \in 0..MaxRunners
  BY <1>1 DEF ConversionInv, TypeOK
<1>6. Justified(t)'
  BY <1>2 DEF Plain, Justified, RequestInFlight, FinishInFlight, ReconcileInFlight
<1> QED  BY <1>1, <1>2, <1>4, <1>5, <1>6, StepKeeps

\* A thread passes its checks because nothing blocks the volume.
LEMMA AdmittedKeeps ==
  ASSUME ConversionInv, NEW t \in Threads, th[t].step # "idle", Moves(t),
         th'[t].step \in {"idle", "attach", "act", "perf"}, pv.op = None,
         UNCHANGED <<pv, class, gce, workers>>
  PROVE  ConversionInv'
<1>1. UNCHANGED <<pv, class, disk, attaching, lagging, ops, accepted, watcher, recon, runners>>
  BY DEF gce, workers
<1>2. recon' \in {"none", "waiting", "running"} /\ runners' \in 0..MaxRunners
  BY <1>1 DEF ConversionInv, TypeOK
<1>3. Justified(t)'
  BY <1>1 DEF Justified, RequestInFlight, FinishInFlight, ReconcileInFlight
<1> QED  BY <1>1, <1>2, <1>3, QuietStepKeeps
\* A watcher is registered for the operation on the PV.
LEMMA FollowKeeps ==
  ASSUME ConversionInv, NEW t \in Threads, th[t].step # "idle", Moves(t), th'[t].step \in Plain,
         pv.op \in Ops, watcher' = [o |-> pv.op, r |-> None],
         UNCHANGED <<pv, class, gce, recon, runners>>
  PROVE  ConversionInv'
<1>1. UNCHANGED <<pv, class, disk, attaching, lagging, ops, accepted, recon, runners>>  BY DEF gce
<1>2. RequestIsPending' /\ WatcherKnowsItsRequest' /\ RunningConversionIsRecorded'
  BY <1>1
     DEF ConversionInv, RequestIsPending, WatcherKnowsItsRequest, RunningConversionIsRecorded, InProgress
<1>3. /\ watcher' \in [o : Ops, r : Reqs \cup {None}] \cup {NoWatcher}
      /\ pv' \in Annotations /\ pv'.op = pv.op
      /\ recon' \in {"none", "waiting", "running"} /\ runners' \in 0..MaxRunners
  BY <1>1 DEF ConversionInv, TypeOK
<1>4. Justified(t)'  BY PlainIsJustified
<1> QED  BY <1>1, <1>2, <1>3, <1>4, StepKeeps
-----------------------------------------------------------------------------
\* The steps that publish shares with the exclusive calls.

LEMMA CheckKeeps ==
  ASSUME ConversionInv, NEW t \in Threads, CheckNoConversionInProgress(t)
  PROVE  ConversionInv'
<1>1. TypeOK /\ th[t].step = "check"  BY DEF ConversionInv, CheckNoConversionInProgress
<1>2. CASE pv.op = None
  <2>1. Moves(t) /\ th'[t].step \in {"attach", "act"}
    BY <1>1, <1>2, ConstantsAssumption, AfterSteps, GoMoves DEF CheckNoConversionInProgress, Steps
  <2>2. UNCHANGED <<pv, class, gce, workers>>
    BY <1>2, ConstantsAssumption DEF CheckNoConversionInProgress
  <2> QED  BY <1>1, <1>2, <2>1, <2>2, AdmittedKeeps
<1>3. CASE pv.op \in {Pending, Reconciling}
  <2>1. Moves(t) /\ th'[t].step \in {"outcome", "idle"}
    BY <1>1, <1>3, ConstantsAssumption, GoMoves, LeaveMoves DEF CheckNoConversionInProgress, Steps
  <2>2. /\ UNCHANGED <<pv, class, gce, watcher>>
        /\ UNCHANGED recon \/ startConversionReconciliation
        /\ UNCHANGED runners \/ spawnRunner
    BY <1>3, ConstantsAssumption DEF CheckNoConversionInProgress, workers
  <2> QED  BY <1>1, <2>1, <2>2, PlainStepKeeps, ZenonT(30) DEF Plain
<1>4. CASE pv.op \in Ops
  <2>1. Moves(t) /\ th'[t].step = "idle"
    BY <1>1, <1>4, ConstantsAssumption, LeaveMoves DEF CheckNoConversionInProgress
  <2>2. watcher' = [o |-> pv.op, r |-> None] /\ UNCHANGED <<pv, class, gce, recon, runners>>
    BY <1>4, ConstantsAssumption DEF CheckNoConversionInProgress, watchConversion
  <2> QED  BY <1>1, <1>4, <2>1, <2>2, FollowKeeps DEF Plain
<1> QED  BY <1>1, <1>2, <1>3, <1>4, AnnotationTypes DEF TypeOK

LEMMA OutcomeKeeps ==
  ASSUME ConversionInv, NEW t \in Threads, QueuedConversionOutcome(t)
  PROVE  ConversionInv'
<1>1. TypeOK /\ th[t].step = "outcome"  BY DEF ConversionInv, QueuedConversionOutcome
<1>2. class \in Class /\ (class.type # Invalid => class \in Intent)
  BY <1>1, ConversionAssumption DEF TypeOK, Class, Intent
<1>3. Moves(t) /\ th'[t].step \in Plain
  <2>1. CASE Go(t, "cancel")  BY <1>1, <2>1, GoMoves DEF Plain, Steps
  <2>2. CASE Leave(t)  BY <1>1, <2>2, LeaveMoves DEF Plain
  <2>3. ASSUME NEW st \in {"refuse", "users", "prepare"}, NEW i \in Intent,
               th' = [th EXCEPT ![t].step = st, ![t].c = i]
        PROVE  Moves(t) /\ th'[t].step \in Plain
    <3>1. st \in Steps /\ st \in Plain  BY DEF Steps, Plain
    <3> QED  BY <1>1, <2>3, <3>1, IntentMoves, Zenon
  <2>4. ASSUME class.type = Invalid
        PROVE  (IF class.type = Invalid THEN NoIntent ELSE class) \in Intent
    BY <2>4, NoIntentType
  <2>5. (IF class.type = Invalid THEN NoIntent ELSE class) \in Intent  BY <1>2, <2>4
  <2>6. \/ Go(t, "cancel") \/ Leave(t)
        \/ th' = [th EXCEPT ![t].step = "refuse",
                            ![t].c = IF class.type = Invalid THEN NoIntent ELSE class]
        \/ /\ class.type # Invalid
           /\ \E st \in {"users", "prepare"} : th' = [th EXCEPT ![t].step = st, ![t].c = class]
    BY DEF QueuedConversionOutcome
  <2> QED  BY <1>2, <2>1, <2>2, <2>3, <2>5, <2>6
<1>4. UNCHANGED <<pv, class, gce, watcher, recon, runners>>  BY DEF QueuedConversionOutcome, workers
<1> QED  BY <1>1, <1>3, <1>4, PlainStepKeeps

LEMMA CancelKeeps ==
  ASSUME ConversionInv, NEW t \in Threads, CancelQueuedConversion(t)
  PROVE  ConversionInv'
<1>1. TypeOK /\ th[t].step = "cancel" /\ UNCHANGED <<class, gce, workers>>
  BY DEF ConversionInv, CancelQueuedConversion
<1>2. CASE pv.op = None
  <2>1. Step(t, AfterCancel(t)) /\ UNCHANGED pv  BY <1>2, ConstantsAssumption DEF CancelQueuedConversion
  <2>2. Moves(t) /\ th'[t].step \in {"idle", "attach", "act", "perf"}
    BY <1>1, <2>1, AfterSteps, StepMoves DEF Steps
  <2> QED  BY <1>1, <1>2, <2>1, <2>2, AdmittedKeeps
<1>3. CASE pv.op = Pending /\ pv.reqID = None
  <2>1. pv' = Cancelled(pv) /\ (Step(t, AfterCancel(t)) \/ Step(t, "idle"))
    BY <1>3, ConstantsAssumption DEF CancelQueuedConversion, Write
  <2>2. Moves(t) /\ th'[t].step \in {"idle", "attach", "act", "perf"}
    BY <1>1, <2>1, AfterSteps, StepMoves DEF Steps
  <2> QED  BY <1>1, <1>3, <2>1, <2>2, WithdrawKeeps DEF Plain
<1>4. CASE pv.op # None /\ ~(pv.op = Pending /\ pv.reqID = None)
  <2>1. Leave(t) /\ UNCHANGED pv  BY <1>4 DEF CancelQueuedConversion
  <2>2. Moves(t) /\ th'[t].step = "idle"  BY <1>1, <2>1, LeaveMoves
  <2> QED  BY <1>1, <2>1, <2>2, PlainStepKeeps DEF Plain, workers
<1> QED  BY <1>2, <1>3, <1>4

LEMMA RecordInfeasibleKeeps ==
  ASSUME ConversionInv, NEW t \in Threads, RecordInfeasibleConversion(t)
  PROVE  ConversionInv'
<1>1. TypeOK /\ th[t].step = "refuse" /\ UNCHANGED <<class, gce, workers>>
  BY DEF ConversionInv, RecordInfeasibleConversion
<1>2. CASE pv.op = Pending /\ pv.reqID = None
  <2>1. pv' = Cancelled(pv) /\ (Step(t, "note") \/ Step(t, AfterRefusal(t)))
    BY <1>2, ConstantsAssumption DEF RecordInfeasibleConversion, Write
  <2>2. Moves(t) /\ th'[t].step \in {"note", "final", "idle"}
    BY <1>1, <2>1, AfterSteps, StepMoves DEF Steps
  <2> QED  BY <1>1, <1>2, <2>1, <2>2, WithdrawKeeps DEF Plain
<1>3. CASE ~(pv.op = Pending /\ pv.reqID = None)
  <2>1. UNCHANGED pv /\ (Go(t, "note") \/ Step(t, AfterRefusal(t)))
    BY <1>3 DEF RecordInfeasibleConversion
  <2>2. Moves(t) /\ th'[t].step \in {"note", "final", "idle"}
    BY <1>1, <2>1, AfterSteps, StepMoves, GoMoves DEF Steps
  <2> QED  BY <1>1, <2>1, <2>2, PlainStepKeeps DEF Plain, workers
<1> QED  BY <1>2, <1>3

LEMMA NoteKeeps ==
  ASSUME ConversionInv, NEW t \in Threads, NoteInfeasible(t)
  PROVE  ConversionInv'
<1>1. TypeOK /\ th[t].step = "note" /\ UNCHANGED <<class, gce, workers>>
  BY DEF ConversionInv, NoteInfeasible
<1>2. pv' = Refused(pv, th[t].c) /\ Step(t, AfterRefusal(t))  BY DEF NoteInfeasible, Write
<1>3. Moves(t) /\ th'[t].step \in Plain
  BY <1>1, <1>2, AfterSteps, StepMoves DEF Steps, Plain
<1>4. th[t].c \in Intent  BY <1>1 DEF TypeOK, Thread
<1>5. pv' \in Annotations /\ pv'.op = pv.op /\ pv'.reqID = pv.reqID
  BY <1>1, <1>2, <1>4, RefusedType DEF TypeOK
<1> QED  BY <1>1, <1>3, <1>5, SameOperationKeeps

LEMMA FinalCheckKeeps ==
  ASSUME ConversionInv, NEW t \in Threads, FinalCheck(t)
  PROVE  ConversionInv'
<1>1. TypeOK /\ th[t].step = "final" /\ UNCHANGED <<pv, class, gce, workers>>
  BY DEF ConversionInv, FinalCheck
<1>2. CASE pv.op = None
  <2>1. Moves(t) /\ th'[t].step \in {"idle", "attach", "act", "perf"}
    BY <1>1, <1>2, AfterSteps, StepMoves DEF FinalCheck, Steps
  <2> QED  BY <1>1, <1>2, <2>1, AdmittedKeeps
<1>3. CASE pv.op # None
  <2>1. Moves(t) /\ th'[t].step = "idle"  BY <1>1, <1>3, StepMoves DEF FinalCheck, Steps
  <2> QED  BY <1>1, <2>1, PlainStepKeeps DEF Plain, workers
<1> QED  BY <1>2, <1>3

LEMMA ApiErrorKeeps ==
  ASSUME ConversionInv, NEW t \in Threads, ApiError(t)
  PROVE  ConversionInv'
<1>1. TypeOK /\ th[t].step # "idle" /\ UNCHANGED <<pv, class, gce, workers>>
  BY DEF ConversionInv, ApiError
<1>2. Moves(t) /\ th'[t].step \in Plain
  BY <1>1, AfterSteps, StepMoves DEF ApiError, Steps, Plain
<1> QED  BY <1>1, <1>2, PlainStepKeeps DEF workers

LEMMA SharedStepKeeps ==
  ASSUME ConversionInv, NEW t \in Threads, SharedStep(t)
  PROVE  ConversionInv'
BY CheckKeeps, OutcomeKeeps, CancelKeeps, RecordInfeasibleKeeps, NoteKeeps, FinalCheckKeeps DEF SharedStep
-----------------------------------------------------------------------------
\* The steps of the exclusive holder that leave GCE alone.

LEMMA ExclFacts == Excl \in Threads /\ Excl \notin Nodes
BY ConversionAssumption DEF Threads

\* A write of the PV while GCE is not converting.
LEMMA IdleWriteKeeps ==
  ASSUME ConversionInv, th[Excl].step # "idle", Moves(Excl),
         UNCHANGED <<class, gce, recon, runners>>,
         pv' \in Annotations, RequestIsPending',
         watcher' \in {watcher, NoWatcher},
         \A o \in Ops : ~InProgress(o),
         Justified(Excl)'
  PROVE  ConversionInv'
<1>1. UNCHANGED <<class, disk, attaching, lagging, ops, accepted, recon, runners>>  BY DEF gce
<1>2. RunningConversionIsRecorded'  BY <1>1 DEF RunningConversionIsRecorded, InProgress
<1>3. /\ watcher' \in [o : Ops, r : Reqs \cup {None}] \cup {NoWatcher}
      /\ recon' \in {"none", "waiting", "running"} /\ runners' \in 0..MaxRunners
  BY <1>1 DEF ConversionInv, TypeOK
<1>4. WatcherKnowsItsRequest'
  BY <1>1 DEF ConversionInv, WatcherKnowsItsRequest, NoWatcher
<1> QED  BY <1>1, <1>2, <1>3, <1>4, ExclFacts, StepKeeps

\* A watcher goes.
LEMMA UnregisterKeeps ==
  ASSUME ConversionInv, th[Excl].step # "idle", Moves(Excl), th'[Excl].step \in Plain,
         UNCHANGED <<pv, class, gce, recon, runners>>, watcher' \in {watcher, NoWatcher}
  PROVE  ConversionInv'
<1>1. UNCHANGED <<pv, class, disk, attaching, lagging, ops, accepted, recon, runners>>  BY DEF gce
<1>2. RequestIsPending' /\ WatcherKnowsItsRequest' /\ RunningConversionIsRecorded'
  BY <1>1 DEF ConversionInv, RequestIsPending, WatcherKnowsItsRequest, RunningConversionIsRecorded,
              InProgress, NoWatcher
<1>3. /\ watcher' \in [o : Ops, r : Reqs \cup {None}] \cup {NoWatcher}
      /\ pv' \in Annotations
      /\ recon' \in {"none", "waiting", "running"} /\ runners' \in 0..MaxRunners
  BY <1>1 DEF ConversionInv, TypeOK
<1> QED  BY <1>1, <1>2, <1>3, ExclFacts, PlainIsJustified, StepKeeps

LEMMA FollowRecordedKeeps == ASSUME ConversionInv, FollowRecorded(Excl) PROVE ConversionInv'
<1>1. TypeOK /\ th[Excl].step # "idle"  BY DEF ConversionInv, FollowRecorded
<1>2. Moves(Excl) /\ th'[Excl].step = "idle"  BY <1>1, ExclFacts, LeaveMoves DEF FollowRecorded
<1> QED  BY <1>1, <1>2, ExclFacts, FollowKeeps DEF FollowRecorded, watchConversion, Plain

LEMMA ConvertReplayedKeeps == ASSUME ConversionInv, ConvertReplayed(Excl) PROVE ConversionInv'
<1> DEFINE o == accepted[th[Excl].r]
<1>1. TypeOK /\ th[Excl].step = "call"  BY DEF ConversionInv, ConvertReplayed
<1>2. pv.op = Pending /\ th[Excl].r \in Reqs /\ pv.reqID = th[Excl].r
  BY <1>1, ExclFacts DEF ConversionInv, Justified, RequestInFlight
<1>3. o \in Ops  BY <1>1, <1>2, ZenonT(30) DEF TypeOK, ConvertReplayed
<1>4. /\ Moves(Excl)
      /\ th'[Excl].step = "record" /\ th'[Excl].o = o /\ th'[Excl].r = th[Excl].r
  <2>1. th' = [th EXCEPT ![Excl].step = "record", ![Excl].o = o]  BY DEF ConvertReplayed
  <2> HIDE DEF o
  <2> QED  BY <1>1, <1>3, <2>1, ExclFacts, OperationMoves, ZenonT(30) DEF Steps
<1>5. UNCHANGED <<pv, class, disk, attaching, lagging, ops, accepted, watcher, recon, runners>>
  BY DEF ConvertReplayed, gce, workers
<1>6. Justified(Excl)'
  BY <1>2, <1>3, <1>4, <1>5, ExclFacts, Zenon
     DEF Justified, RequestInFlight, FinishInFlight, ReconcileInFlight
<1>7. recon' \in {"none", "waiting", "running"} /\ runners' \in 0..MaxRunners
  BY <1>1, <1>5, ZenonT(30) DEF TypeOK
<1> QED  BY <1>1, <1>4, <1>5, <1>6, <1>7, ExclFacts, QuietStepKeeps

LEMMA ConvertRejectedKeeps == ASSUME ConversionInv, ConvertRejected(Excl) PROVE ConversionInv'
<1>1. TypeOK /\ th[Excl].step = "call"  BY ZenonT(30) DEF ConversionInv, ConvertRejected
<1>2. pv.op = Pending /\ th[Excl].r \in Reqs /\ pv.reqID = th[Excl].r
  BY <1>1, ExclFacts DEF ConversionInv, Justified, RequestInFlight
<1>3. Moves(Excl) /\ th'[Excl].step = "rejected" /\ th'[Excl].r = th[Excl].r
  BY <1>1, ExclFacts, GoMoves, ZenonT(30) DEF ConvertRejected, Steps
<1>4. UNCHANGED <<pv, class, disk, attaching, lagging, ops, accepted, watcher, recon, runners>>
  BY DEF ConvertRejected, gce, workers
<1>5. accepted'[th'[Excl].r] = None  BY <1>3, <1>4, ZenonT(30) DEF ConvertRejected
<1>6. Justified(Excl)'
  BY <1>2, <1>3, <1>4, <1>5, ExclFacts DEF Justified, RequestInFlight, FinishInFlight, ReconcileInFlight
<1>7. recon' \in {"none", "waiting", "running"} /\ runners' \in 0..MaxRunners
  BY <1>1, <1>4 DEF TypeOK
<1> QED  BY <1>1, <1>3, <1>4, <1>6, <1>7, ExclFacts, QuietStepKeeps

LEMMA ClearRejectedKeeps ==
  ASSUME ConversionInv, ClearRejectedConversionRequest(Excl) PROVE ConversionInv'
<1>1. TypeOK /\ th[Excl].step = "rejected"  BY DEF ConversionInv, ClearRejectedConversionRequest
<1>2. pv.op = Pending /\ th[Excl].r \in Reqs /\ pv.reqID = th[Excl].r /\ accepted[th[Excl].r] = None
  BY <1>1, ExclFacts DEF ConversionInv, Justified, RequestInFlight
<1>3. pv' = RequestForgotten(pv) /\ (Step(Excl, "refuse") \/ Step(Excl, "idle"))
  BY <1>2 DEF ClearRejectedConversionRequest, Write
<1>4. Moves(Excl) /\ th'[Excl].step \in Plain
  BY <1>1, <1>3, ExclFacts, StepMoves DEF Steps, Plain
<1>5. \A o \in Ops : ~InProgress(o)
  BY <1>2, ConstantsAssumption DEF ConversionInv, RunningConversionIsRecorded
<1>6. pv' \in Annotations /\ pv'.reqID = None  BY <1>1, <1>3, RequestForgottenType DEF TypeOK
<1>7. RequestIsPending'  BY <1>6 DEF RequestIsPending
<1>8. UNCHANGED <<class, gce, recon, runners>> /\ UNCHANGED watcher
  BY DEF ClearRejectedConversionRequest, workers
<1>9. Justified(Excl)'  BY <1>4, ExclFacts, PlainIsJustified
<1> QED  BY <1>1, <1>4, <1>5, <1>6, <1>7, <1>8, <1>9, IdleWriteKeeps

LEMMA RecordOperationKeeps == ASSUME ConversionInv, RecordOperation(Excl) PROVE ConversionInv'
<1>1. TypeOK /\ th[Excl].step = "record"  BY DEF ConversionInv, RecordOperation
<1>2. /\ pv.op = Pending /\ th[Excl].r \in Reqs /\ pv.reqID = th[Excl].r
      /\ th[Excl].o \in Ops /\ accepted[th[Excl].r] = th[Excl].o
  BY <1>1, ExclFacts, ZenonT(30) DEF ConversionInv, Justified, RequestInFlight
<1>3. Moves(Excl) /\ th'[Excl].step \in Plain
  BY <1>1, ExclFacts, StepMoves, LeaveMoves, ZenonT(30) DEF RecordOperation, Steps, Plain
<1>4. UNCHANGED <<class, disk, attaching, lagging, ops, accepted, recon, runners>>
  BY ZenonT(30) DEF RecordOperation, gce
<1>5. /\ pv' \in {pv, Started(pv, th[Excl].o)}
      /\ watcher' \in {[o |-> th[Excl].o, r |-> None], [o |-> th[Excl].o, r |-> th[Excl].r]}
  BY <1>2, ZenonT(30) DEF RecordOperation, watchConversion
<1>6. /\ watcher' \in [o : Ops, r : Reqs \cup {None}] \cup {NoWatcher}
      /\ recon' \in {"none", "waiting", "running"} /\ runners' \in 0..MaxRunners
  <2>1. watcher' \in [o : Ops, r : Reqs \cup {None}]  BY <1>2, <1>5
  <2>2. recon' \in {"none", "waiting", "running"} /\ runners' \in 0..MaxRunners  BY <1>1, <1>4 DEF TypeOK
  <2> QED  BY <2>1, <2>2
<1>7. WatcherKnowsItsRequest'  BY <1>2, <1>4, <1>5 DEF WatcherKnowsItsRequest
<1>8. CASE pv' = pv
  <2>1. pv' \in Annotations /\ RequestIsPending' /\ RunningConversionIsRecorded'
    BY <1>4, <1>8, Zenon
       DEF ConversionInv, TypeOK, RequestIsPending, RunningConversionIsRecorded, InProgress
  <2> QED  BY <1>1, <1>3, <1>4, <1>6, <1>7, <2>1, ExclFacts, PlainIsJustified, StepKeeps, ZenonT(30)
<1>9. CASE pv' = Started(pv, th[Excl].o)
  <2>1. pv' \in Annotations /\ pv'.op = th[Excl].o /\ pv'.reqID = None
    BY <1>1, <1>2, <1>9, StartedType DEF TypeOK
  <2>2. RequestIsPending'  BY <2>1, ZenonT(30) DEF RequestIsPending
  <2>3. RunningConversionIsRecorded'
    BY <1>2, <1>4, <2>1, ConstantsAssumption DEF ConversionInv, RunningConversionIsRecorded, InProgress
  <2>4. Justified(Excl)'  BY <1>3, ExclFacts, PlainIsJustified, Zenon
  <2> QED  BY <1>1, <1>3, <1>4, <1>6, <1>7, <2>1, <2>2, <2>3, <2>4, ExclFacts, StepKeeps, ZenonT(30)
<1> QED  BY <1>5, <1>8, <1>9

LEMMA MarkPendingKeeps == ASSUME ConversionInv, MarkConversionPending(Excl) PROVE ConversionInv'
<1>1. TypeOK /\ th[Excl].step = "queue" /\ UNCHANGED <<class, gce, workers>>
  BY DEF ConversionInv, MarkConversionPending
<1>2. Moves(Excl) /\ th'[Excl].step = "idle"
  BY <1>1, ExclFacts, LeaveMoves, ZenonT(30) DEF MarkConversionPending
<1>3. CASE pv.op \notin Ops /\ pv.reqID = None
  <2>1. \A o \in Ops : ~InProgress(o)
    BY <1>3 DEF ConversionInv, RunningConversionIsRecorded
  <2>2. th[Excl].c.type \in Types \cup {None}  BY <1>1, ExclFacts, ZenonT(30) DEF TypeOK, Thread, Intent
  <2>3. pv' \in Annotations /\ pv'.reqID = None
    BY <1>1, <1>3, <2>2, QueuedType, ZenonT(60) DEF MarkConversionPending, TypeOK
  <2>4. RequestIsPending'  BY <2>3 DEF RequestIsPending
  <2>5. UNCHANGED <<class, gce, recon, runners>> /\ UNCHANGED watcher  BY <1>1 DEF workers
  <2>6. Justified(Excl)'  BY <1>2, ExclFacts, PlainIsJustified DEF Plain
  <2> QED  BY <1>1, <1>2, <2>1, <2>3, <2>4, <2>5, <2>6, IdleWriteKeeps, ZenonT(30)
<1>4. CASE ~(pv.op \notin Ops /\ pv.reqID = None)
  <2>1. UNCHANGED pv  BY <1>4 DEF MarkConversionPending
  <2> QED  BY <1>1, <1>2, <2>1, ExclFacts, PlainStepKeeps, ZenonT(30) DEF Plain, workers
<1> QED  BY <1>3, <1>4

LEMMA ModifyStepsKeep ==
  ASSUME ConversionInv,
         ModifyWithoutType(Excl) \/ ModifyToOtherType(Excl) \/ CompleteConversionIfInProgress(Excl)
  PROVE  ConversionInv'
<1>1. TypeOK /\ th[Excl].step # "idle" /\ UNCHANGED <<pv, class, gce>>
  BY DEF ConversionInv, ModifyWithoutType, ModifyToOtherType, CompleteConversionIfInProgress
<1>2. CASE ModifyWithoutType(Excl) /\ pv.op = None
  <2>1. Moves(Excl) /\ th'[Excl].step = "perf"
    BY <1>1, <1>2, ExclFacts, StepMoves, ConstantsAssumption DEF ModifyWithoutType, Steps
  <2> QED  BY <1>1, <1>2, <2>1, ExclFacts, AdmittedKeeps DEF ModifyWithoutType
<1>3. CASE ModifyWithoutType(Excl) /\ pv.op # None
  <2>1. Moves(Excl) /\ th'[Excl].step \in Plain
    BY <1>1, <1>3, ExclFacts, StepMoves, ConstantsAssumption, ZenonT(30) DEF ModifyWithoutType, Steps, Plain
  <2> QED  BY <1>1, <1>3, <2>1, ExclFacts, PlainStepKeeps DEF ModifyWithoutType, workers
<1>4. CASE ModifyToOtherType(Excl)
  <2>1. Moves(Excl) /\ th'[Excl].step \in Plain
    BY <1>1, <1>4, ExclFacts, GoMoves, ZenonT(30) DEF ModifyToOtherType, Steps, Plain
  <2> QED  BY <1>1, <1>4, <2>1, ExclFacts, PlainStepKeeps, ZenonT(30) DEF ModifyToOtherType, workers
<1>5. CASE CompleteConversionIfInProgress(Excl) /\ pv.op = None
  <2>1. Moves(Excl) /\ th'[Excl].step = "perf" /\ UNCHANGED workers
    BY <1>1, <1>5, ExclFacts, GoMoves, ConstantsAssumption, ZenonT(30)
       DEF CompleteConversionIfInProgress, Steps
  <2> QED  BY <1>1, <1>5, <2>1, ExclFacts, AdmittedKeeps, ZenonT(30)
<1>6. CASE CompleteConversionIfInProgress(Excl) /\ pv.op \in {Pending, Reconciling}
  <2>1. Moves(Excl) /\ th'[Excl].step \in Plain
    BY <1>1, <1>6, ExclFacts, GoMoves, LeaveMoves, ConstantsAssumption, ZenonT(30)
       DEF CompleteConversionIfInProgress, Steps, Plain
  <2>2. /\ UNCHANGED watcher
        /\ UNCHANGED recon \/ startConversionReconciliation
        /\ UNCHANGED runners \/ spawnRunner
    BY <1>6, ConstantsAssumption, ZenonT(30) DEF CompleteConversionIfInProgress, workers
  <2> QED  BY <1>1, <2>1, <2>2, ExclFacts, PlainStepKeeps, ZenonT(30)
<1>7. CASE CompleteConversionIfInProgress(Excl) /\ pv.op \in Ops
  <2>1. Moves(Excl) /\ th'[Excl].step \in Plain
    BY <1>1, <1>7, ExclFacts, LeaveMoves, ConstantsAssumption, ZenonT(30)
       DEF CompleteConversionIfInProgress, Plain
  <2>2. watcher' = [o |-> pv.op, r |-> None] /\ UNCHANGED <<recon, runners>>
    BY <1>7, ConstantsAssumption DEF CompleteConversionIfInProgress, watchConversion
  <2> QED  BY <1>1, <1>7, <2>1, <2>2, ExclFacts, FollowKeeps, ZenonT(30)
<1> QED  BY <1>1, <1>2, <1>3, <1>4, <1>5, <1>6, <1>7, AnnotationTypes DEF TypeOK

LEMMA ConvertStepsKeep ==
  ASSUME ConversionInv,
         AnswerFromRecord(Excl) \/ ClearOtherRecord(Excl) \/ ConvertDiskType(Excl) \/ ReportLastError(Excl)
  PROVE  ConversionInv'
<1>1. TypeOK /\ th[Excl].step # "idle" /\ UNCHANGED <<class, gce, workers>>
  BY DEF ConversionInv, AnswerFromRecord, ClearOtherRecord, ConvertDiskType, ReportLastError
<1>2. CASE AnswerFromRecord(Excl) \/ ConvertDiskType(Excl)
  <2>1. Moves(Excl) /\ th'[Excl].step \in Plain /\ UNCHANGED pv
    BY <1>1, <1>2, ExclFacts, GoMoves, LeaveMoves DEF AnswerFromRecord, ConvertDiskType, Steps, Plain
  <2> QED  BY <1>1, <2>1, ExclFacts, PlainStepKeeps, ZenonT(30) DEF workers
<1>3. CASE ClearOtherRecord(Excl)
  <2>1. Moves(Excl) /\ th'[Excl].step \in Plain
    BY <1>1, <1>3, ExclFacts, StepMoves, ZenonT(30) DEF ClearOtherRecord, Write, Steps, Plain
  <2>2. pv' \in Annotations /\ pv'.op = pv.op /\ pv'.reqID = pv.reqID
    BY <1>1, <1>3, RefusalClearedType DEF ClearOtherRecord, Write, TypeOK
  <2> QED  BY <1>1, <2>1, <2>2, ExclFacts, SameOperationKeeps, ZenonT(30)
<1>4. CASE ReportLastError(Excl)
  <2>1. Moves(Excl) /\ th'[Excl].step \in Plain
    BY <1>1, <1>4, ExclFacts, LeaveMoves DEF ReportLastError, Plain
  <2>2. pv' \in Annotations /\ pv'.op = pv.op /\ pv'.reqID = pv.reqID
    BY <1>1, <1>4, ZenonT(30) DEF ReportLastError, TypeOK, Annotations
  <2> QED  BY <1>1, <2>1, <2>2, ExclFacts, SameOperationKeeps
<1> QED  BY <1>2, <1>3, <1>4

LEMMA RunnerStepsKeep ==
  ASSUME ConversionInv, ActOnDisk(Excl) \/ RecoverRequest(Excl) \/ WaitForDetachVisible(Excl)
  PROVE  ConversionInv'
<1>1. TypeOK /\ th[Excl].step # "idle" /\ UNCHANGED <<pv, class, gce, workers>>
  BY DEF ConversionInv, ActOnDisk, RecoverRequest, WaitForDetachVisible
<1>2. Moves(Excl) /\ th'[Excl].step \in Plain
  <2>1. CASE Leave(Excl)  BY <1>1, <2>1, ExclFacts, LeaveMoves, ZenonT(30) DEF Plain
  <2>2. CASE Go(Excl, "outcome")  BY <1>1, <2>2, ExclFacts, GoMoves, ZenonT(30) DEF Steps, Plain
  <2>3. CASE th' = [th EXCEPT ![Excl].step = "prepare", ![Excl].c = [type |-> pv.target, perf |-> None]]
    <3> DEFINE i == [type |-> pv.target, perf |-> None]
    <3>1. i \in Intent  BY <1>1, AnnotationTypes DEF TypeOK, Intent
    <3>2. th' = [th EXCEPT ![Excl].step = "prepare", ![Excl].c = i]  BY <2>3, ZenonT(30)
    <3> HIDE DEF i
    <3> QED  BY <1>1, <3>1, <3>2, ExclFacts, IntentMoves, ZenonT(30) DEF Steps, Plain
  <2>4. CASE th' = [th EXCEPT ![Excl].step = "prepare", ![Excl].d.attached = FALSE]
    <3> DEFINE d == [th[Excl].d EXCEPT !.attached = FALSE]
    <3>1. d \in DiskRead  BY <1>1, ExclFacts, ZenonT(30) DEF TypeOK, Thread, DiskRead
    <3>2. th' = [th EXCEPT ![Excl].step = "prepare", ![Excl].d = d]  BY <1>1, <2>4 DEF TypeOK, Thread
    <3> HIDE DEF d
    <3> QED  BY <1>1, <3>1, <3>2, ExclFacts, DiskMoves, Zenon DEF Steps, Plain
  <2> QED  BY <2>1, <2>2, <2>3, <2>4 DEF ActOnDisk, RecoverRequest, WaitForDetachVisible
<1> QED  BY <1>1, <1>2, ExclFacts, PlainStepKeeps DEF workers

LEMMA EnsureKeeps == ASSUME ConversionInv, EnsureWatchedOperationRecorded(Excl) PROVE ConversionInv'
<1> DEFINE e == th[Excl]
<1>1. TypeOK /\ e.step = "ensure"  BY DEF ConversionInv, EnsureWatchedOperationRecorded
<1>2. e.o \in Ops /\ Finished(e.o) /\ (e.r # None => accepted[e.r] = e.o)
  BY <1>1, ExclFacts DEF ConversionInv, Justified, FinishInFlight
<1>3. UNCHANGED <<class, gce, recon, runners>>  BY DEF EnsureWatchedOperationRecorded
<1>4. CASE pv.op = e.o
  <2>1. Go(Excl, "finish") /\ UNCHANGED <<pv, watcher>>
    BY <1>2, <1>4, ConstantsAssumption, ZenonT(30) DEF EnsureWatchedOperationRecorded
  <2>2. Moves(Excl) /\ th'[Excl].step = "finish" /\ th'[Excl].o = e.o
    BY <1>1, <2>1, ExclFacts, GoMoves, ZenonT(30) DEF Steps
  <2>3. Justified(Excl)'
    BY <1>2, <1>3, <1>4, <2>1, <2>2, ExclFacts
       DEF Justified, RequestInFlight, FinishInFlight, ReconcileInFlight, Finished, gce
  <2>4. recon' \in {"none", "waiting", "running"} /\ runners' \in 0..MaxRunners  BY <1>1, <1>3, ZenonT(30)
         DEF TypeOK
  <2> QED  BY <1>1, <1>3, <2>1, <2>2, <2>3, <2>4, ExclFacts, QuietStepKeeps, Zenon DEF gce
<1>5. CASE pv.op # e.o /\ pv.op = Pending /\ e.r # None /\ pv.reqID = e.r
  <2>1. /\ pv' = OperationRestored(pv, e.o) /\ UNCHANGED watcher
        /\ Step(Excl, "finish") \/ Step(Excl, "idle")
    BY <1>5, ZenonT(30) DEF EnsureWatchedOperationRecorded, Write
  <2>2. /\ Moves(Excl) /\ th'[Excl].step \in {"finish", "idle"}
        /\ th'[Excl].step = "finish" => th'[Excl].o = e.o
    BY <1>1, <2>1, ExclFacts, StepMoves, ZenonT(30) DEF Steps
  <2>3. pv' \in Annotations /\ pv'.op = e.o /\ pv'.reqID = None
    BY <1>1, <1>2, <2>1, OperationRestoredType, ZenonT(30) DEF TypeOK
  <2>4. \A o \in Ops : ~InProgress(o)
    BY <1>2, <1>5, ConstantsAssumption DEF ConversionInv, RunningConversionIsRecorded, InProgress, Finished
  <2>5. RequestIsPending'  BY <2>3, ZenonT(30) DEF RequestIsPending
  <2>6. Justified(Excl)'
    BY <1>2, <1>3, <2>2, <2>3, ExclFacts
       DEF Justified, RequestInFlight, FinishInFlight, ReconcileInFlight, Finished, gce
  <2> QED  BY <1>1, <1>3, <2>1, <2>2, <2>3, <2>4, <2>5, <2>6, IdleWriteKeeps, Zenon
<1>6. CASE pv.op # e.o /\ ~(pv.op = Pending /\ e.r # None /\ pv.reqID = e.r)
  <2>1. Leave(Excl) /\ Unregister(Excl) /\ UNCHANGED pv  BY <1>6 DEF EnsureWatchedOperationRecorded
  <2>2. Moves(Excl) /\ th'[Excl].step \in Plain  BY <1>1, <2>1, ExclFacts, LeaveMoves DEF Plain
  <2>3. watcher' \in {watcher, NoWatcher}  BY <2>1 DEF Unregister
  <2> QED  BY <1>1, <1>3, <2>1, <2>2, <2>3, UnregisterKeeps
<1> QED  BY <1>4, <1>5, <1>6

LEMMA FinishFailedKeeps == ASSUME ConversionInv, FinishFailedWatchedConversion(Excl) PROVE ConversionInv'
<1> DEFINE e == th[Excl]
<1>1. TypeOK /\ e.step = "finish" /\ UNCHANGED <<class, gce, recon, runners>>
  BY DEF ConversionInv, FinishFailedWatchedConversion
<1>2. e.o \in Ops /\ Finished(e.o) /\ pv.op = e.o
  BY <1>1, ExclFacts, ZenonT(30) DEF ConversionInv, Justified, FinishInFlight
<1>3. Moves(Excl) /\ th'[Excl].step \in Plain
  BY <1>1, ExclFacts, LeaveMoves DEF FinishFailedWatchedConversion, Plain
<1>4. \A o \in Ops : ~InProgress(o)
  BY <1>2, ConstantsAssumption, ZenonT(30)
     DEF ConversionInv, RunningConversionIsRecorded, InProgress, Finished
<1>5. pv' \in {Failed(pv), Requeued(pv)} /\ watcher' \in {watcher, NoWatcher}
  BY <1>2, ZenonT(30) DEF FinishFailedWatchedConversion, Unregister
<1>6. pv' \in Annotations /\ pv'.reqID = None  BY <1>1, <1>5, FailedType, RequeuedType, ZenonT(30) DEF TypeOK
<1>7. RequestIsPending'  BY <1>6 DEF RequestIsPending
<1>8. Justified(Excl)'  BY <1>3, ExclFacts, PlainIsJustified
<1> QED  BY <1>1, <1>3, <1>4, <1>5, <1>6, <1>7, <1>8, IdleWriteKeeps

LEMMA FinishKeeps == ASSUME ConversionInv, FinishWatchedConversion(Excl) PROVE ConversionInv'
<1> DEFINE e == th[Excl]
<1>1. TypeOK /\ e.step = "finish" /\ UNCHANGED <<class, gce, recon, runners>>
  BY DEF ConversionInv, FinishWatchedConversion
<1>2. e.o \in Ops /\ Finished(e.o) /\ pv.op = e.o
  BY <1>1, ExclFacts DEF ConversionInv, Justified, FinishInFlight
<1>3. \A o \in Ops : ~InProgress(o)
  BY <1>2, ConstantsAssumption DEF ConversionInv, RunningConversionIsRecorded, InProgress, Finished
<1>4. pv' = Completed(pv, e.o, disk.type) /\ watcher' \in {watcher, NoWatcher}
  BY <1>2 DEF FinishWatchedConversion
<1>5. disk.type \in Types \cup {None}  BY <1>1, ZenonT(30) DEF TypeOK
<1>6. pv' \in Annotations /\ pv'.op = Reconciling /\ pv'.reqID = None /\ pv'.reconID = e.o
  BY <1>1, <1>2, <1>4, <1>5, CompletedType DEF TypeOK
<1>7. RequestIsPending'  BY <1>6, ZenonT(30) DEF RequestIsPending
<1>8. /\ Moves(Excl) /\ th'[Excl].step \in {"clear", "idle"}
      /\ th'[Excl].step = "clear" => th'[Excl].o = e.o
  <2>1. Leave(Excl) \/ th' = [th EXCEPT ![Excl].step = "clear", ![Excl].d = GetDisk]
    BY DEF FinishWatchedConversion
  <2> QED  BY <1>1, <2>1, ExclFacts, LeaveMoves, DiskMoves, GetDiskType, ZenonT(30) DEF Steps
<1>9. Justified(Excl)'
  BY <1>6, <1>8, ExclFacts DEF Justified, RequestInFlight, FinishInFlight, ReconcileInFlight
<1> QED  BY <1>1, <1>3, <1>4, <1>6, <1>7, <1>8, <1>9, IdleWriteKeeps, Zenon

LEMMA IdentifyKeeps == ASSUME ConversionInv, IdentifyReconciliation(Excl) PROVE ConversionInv'
<1>1. TypeOK /\ th[Excl].step = "identify" /\ UNCHANGED <<class, gce, watcher, recon, runners>>
  BY DEF ConversionInv, IdentifyReconciliation, workers
<1>2. pv.op = Reconciling  BY <1>1, ExclFacts, ZenonT(30) DEF ConversionInv, Justified, ReconcileInFlight
<1>3. pv.reqID = None /\ \A o \in Ops : ~InProgress(o)
  BY <1>2, ConstantsAssumption DEF ConversionInv, RequestIsPending, RunningConversionIsRecorded
<1>4. CASE pv.reconID # None
  <2> DEFINE e == [th[Excl] EXCEPT !.step = "clear", !.d = GetDisk, !.o = pv.reconID]
  <2>1. th' = [th EXCEPT ![Excl] = e] /\ UNCHANGED pv
    BY <1>4, Zenon DEF IdentifyReconciliation
  <2>2. pv.reconID \in Ops \cup {Uuid}  BY <1>1, <1>4, AnnotationTypes DEF TypeOK
  <2>3. e \in Thread /\ e.step = "clear" /\ e.o = pv.reconID
    <3>1. th[Excl] \in Thread  BY <1>1, ExclFacts DEF TypeOK
    <3>2. e \in Thread  BY <1>1, <2>2, <3>1, GetDiskType, NoIntentType, ThreadUpdates, ZenonT(30) DEF Steps
    <3> QED  BY <3>1, <3>2 DEF Thread
  <2> HIDE DEF e
  <2>4. Moves(Excl) /\ th'[Excl].step = "clear" /\ th'[Excl].o = pv.reconID
    BY <1>1, <2>1, <2>3, ExclFacts, ReplaceMoves, Zenon
  <2>5. Justified(Excl)'
    BY <1>2, <2>1, <2>4, ExclFacts DEF Justified, RequestInFlight, FinishInFlight, ReconcileInFlight
  <2>6. recon' \in {"none", "waiting", "running"} /\ runners' \in 0..MaxRunners  BY <1>1 DEF TypeOK
  <2> QED  BY <1>1, <2>1, <2>4, <2>5, <2>6, ExclFacts, QuietStepKeeps DEF gce
<1>5. CASE pv.reconID = None /\ pv.to # None
  <2>1. pv' = [pv EXCEPT !.reconID = Uuid] /\ (Step(Excl, "identify") \/ Step(Excl, "idle"))
    BY <1>5 DEF IdentifyReconciliation, Write
  <2>2. Moves(Excl) /\ th'[Excl].step \in {"identify", "idle"}
    BY <1>1, <2>1, ExclFacts, StepMoves DEF Steps
  <2>3. pv' \in Annotations /\ pv'.op = Reconciling /\ pv'.reqID = None
    BY <1>1, <1>2, <1>3, <2>1 DEF TypeOK, Annotations
  <2>4. RequestIsPending'  BY <2>3, ZenonT(30) DEF RequestIsPending
  <2>5. Justified(Excl)'
    BY <2>2, <2>3, ExclFacts DEF Justified, RequestInFlight, FinishInFlight, ReconcileInFlight
  <2> QED  BY <1>1, <1>3, <2>2, <2>3, <2>4, <2>5, IdleWriteKeeps
<1>6. CASE pv.reconID = None /\ pv.to = None
  <2>1. Leave(Excl) /\ UNCHANGED pv  BY <1>6 DEF IdentifyReconciliation
  <2>2. Moves(Excl) /\ th'[Excl].step \in Plain  BY <1>1, <2>1, ExclFacts, LeaveMoves DEF Plain
  <2> QED  BY <1>1, <2>1, <2>2, ExclFacts, PlainStepKeeps
<1> QED  BY <1>4, <1>5, <1>6

LEMMA ClearReconciliationKeeps ==
  ASSUME ConversionInv, ClearConversionReconciliation(Excl) PROVE ConversionInv'
<1>1. TypeOK /\ th[Excl].step = "clear" /\ UNCHANGED <<class, gce, watcher, recon, runners>>
  BY DEF ConversionInv, ClearConversionReconciliation, workers
<1>2. pv.op = Reconciling /\ pv.reconID = th[Excl].o
  BY <1>1, ExclFacts DEF ConversionInv, Justified, ReconcileInFlight
<1>3. pv.reqID = None /\ \A o \in Ops : ~InProgress(o)
  BY <1>2, ConstantsAssumption DEF ConversionInv, RequestIsPending, RunningConversionIsRecorded
<1>4. \/ pv' = Reconciled(pv) /\ (Step(Excl, "latest") \/ Step(Excl, "idle"))
      \/ Leave(Excl) /\ UNCHANGED pv
  BY <1>2 DEF ClearConversionReconciliation, Write
<1>5. CASE pv' = Reconciled(pv) /\ (Step(Excl, "latest") \/ Step(Excl, "idle"))
  <2>1. Moves(Excl) /\ th'[Excl].step \in {"latest", "idle"}
    BY <1>1, <1>5, ExclFacts, StepMoves, ZenonT(30) DEF Steps
  <2>2. pv' \in Annotations /\ pv'.op = None /\ pv'.reqID = None
    BY <1>1, <1>3, <1>5, ReconciledType DEF TypeOK
  <2>3. RequestIsPending'  BY <2>2, ZenonT(30) DEF RequestIsPending
  <2>4. Justified(Excl)'
    BY <2>1, <2>2, ExclFacts, Zenon DEF Justified, RequestInFlight, FinishInFlight, ReconcileInFlight
  <2> QED  BY <1>1, <1>3, <2>1, <2>2, <2>3, <2>4, IdleWriteKeeps, ZenonT(30)
<1>6. CASE Leave(Excl) /\ UNCHANGED pv
  <2>1. Moves(Excl) /\ th'[Excl].step \in Plain  BY <1>1, <1>6, ExclFacts, LeaveMoves, ZenonT(30) DEF Plain
  <2> QED  BY <1>1, <1>6, <2>1, ExclFacts, PlainStepKeeps, ZenonT(30)
<1> QED  BY <1>4, <1>5, <1>6

LEMMA LatestKeeps == ASSUME ConversionInv, ReconcileLatestVACAfterConversion(Excl) PROVE ConversionInv'
<1>1. TypeOK /\ th[Excl].step = "latest" /\ UNCHANGED <<pv, class, gce, watcher, recon, runners>>
  BY DEF ConversionInv, ReconcileLatestVACAfterConversion, workers
<1>2. pv.op = None  BY <1>1, ExclFacts DEF ConversionInv, Justified, ReconcileInFlight
<1>3. LatestStep(Excl) \in {"refuse", "perf", "queue", "prepare"}  BY DEF LatestStep
<1>4. Moves(Excl) /\ th'[Excl].step = LatestStep(Excl)
  <2> DEFINE i == IF class.type = Invalid THEN NoIntent ELSE class
             s == LatestStep(Excl)
             e == [th[Excl] EXCEPT !.step = s, !.c = i, !.o = None, !.r = None]
  <2>1. class \in Class  BY <1>1, ConversionAssumption DEF TypeOK
  <2>2. i \in Intent  BY <2>1, NoIntentType DEF Class, Intent
  <2>3. th' = [th EXCEPT ![Excl] = e]  BY Zenon DEF ReconcileLatestVACAfterConversion
  <2>4. th[Excl] \in Thread /\ s \in Steps  BY <1>1, <1>3, ExclFacts DEF TypeOK, Steps
  <2> HIDE DEF i, s
  <2>5. e \in Thread  BY <2>2, <2>4, ThreadUpdates, GetDiskType, <1>1, Zenon
  <2>6. e.step = s  BY <2>4 DEF Thread
  <2> HIDE DEF e
  <2>7. Moves(Excl) /\ th'[Excl] = e  BY <1>1, <2>3, <2>5, ExclFacts, ReplaceMoves, Zenon
  <2> QED  BY <2>6, <2>7 DEF s
<1>5. Justified(Excl)'
  BY <1>1, <1>2, <1>3, <1>4, ExclFacts, Zenon
     DEF Justified, RequestInFlight, FinishInFlight, ReconcileInFlight
<1>6. recon' \in {"none", "waiting", "running"} /\ runners' \in 0..MaxRunners  BY <1>1 DEF TypeOK
<1> QED  BY <1>1, <1>4, <1>5, <1>6, ExclFacts, QuietStepKeeps DEF gce
-----------------------------------------------------------------------------
\* The steps of the exclusive holder that change what GCE knows.

\* Nobody else is in the middle of anything.
LEMMA ExclStepKeeps ==
  ASSUME ConversionInv, th[Excl].step # "idle", Moves(Excl),
         TypeOK', RequestIsPending', WatcherKnowsItsRequest', RunningConversionIsRecorded',
         NeverAttachedWhileConverting', Justified(Excl)'
  PROVE  ConversionInv'
<1>1. \A n \in Nodes : n \in Threads /\ n # Excl /\ th'[n].step = "idle"
  BY ConversionAssumption, ZenonT(30) DEF ConversionInv, LockHeld, Moves, Threads
<1>2. LockHeld'  BY <1>1 DEF LockHeld
<1>3. \A n \in Nodes : Justified(n)'  BY <1>1 DEF Justified
<1>4. \A t \in Threads : Justified(t)'  BY <1>3 DEF Threads
<1> QED  BY <1>2, <1>4 DEF ConversionInv

LEMMA PrepareKeeps == ASSUME ConversionInv, PrepareRequest(Excl) PROVE ConversionInv'
<1>1. TypeOK /\ th[Excl].step = "prepare" /\ pv.op \notin Ops
  BY DEF ConversionInv, PrepareRequest
<1>2. UNCHANGED <<class, disk, attaching, lagging, ops, watcher, recon, runners>>
  BY ZenonT(30) DEF PrepareRequest, workers
<1> DEFINE i == SentIntent(Excl)
           src == SourceType(Excl)
<1>3. PICK id \in IF Replaying THEN {pv.reqID} ELSE FreshReqs :
        /\ pv' = Prepared(pv, id, i, src)
        /\ accepted' = IF Replaying THEN accepted ELSE [accepted EXCEPT ![id] = None]
        /\ \/ th' = [th EXCEPT ![Excl].step = "call", ![Excl].r = id, ![Excl].c = i]
           \/ Leave(Excl)
  BY ZenonT(30) DEF PrepareRequest
<1>4. id \in Reqs /\ (~Replaying => id # watcher.r)
  BY <1>1, AnnotationTypes DEF TypeOK, Replaying, FreshReqs
<1>5. th[Excl] \in Thread /\ th[Excl].c \in Intent /\ th[Excl].d.type \in Types \cup {None}
  BY <1>1, ExclFacts DEF TypeOK, Thread
<1>6. i \in Intent /\ src \in Types \cup {None}
  <2>1. [type |-> pv.target, perf |-> pv.perf] \in Intent  BY <1>1, AnnotationTypes, ZenonT(30)
         DEF TypeOK, Intent
  <2>2. pv.source \in Types \cup {None}  BY <1>1, AnnotationTypes DEF TypeOK
  <2> QED  BY <1>5, <2>1, <2>2, ZenonT(30) DEF SentIntent, SourceType
<1> HIDE DEF i, src
<1>7. pv' \in Annotations /\ pv'.op = Pending /\ pv'.reqID = id
  BY <1>1, <1>3, <1>4, <1>6, PreparedType DEF TypeOK
<1>8. /\ Moves(Excl) /\ th'[Excl].step \in {"call", "idle"}
      /\ th'[Excl].step = "call" => th'[Excl].r = id
  <2>1. CASE th' = [th EXCEPT ![Excl].step = "call", ![Excl].r = id, ![Excl].c = i]
    <3> DEFINE e == [th[Excl] EXCEPT !.step = "call", !.r = id, !.c = i]
    <3>1. e \in Thread /\ e.step = "call" /\ e.r = id  BY <1>4, <1>5, <1>6, Zenon DEF Thread, Steps
    <3>2. th' = [th EXCEPT ![Excl] = e]  BY <2>1, Zenon
    <3> HIDE DEF e
    <3> QED  BY <1>1, <3>1, <3>2, ExclFacts, ReplaceMoves, Zenon
  <2>2. CASE Leave(Excl)  BY <1>1, <2>2, ExclFacts, LeaveMoves
  <2> QED  BY <1>3, <2>1, <2>2, ZenonT(30)
<1>9. accepted' \in [Reqs -> Ops \cup {None}]  BY <1>1, <1>3, <1>4, ZenonT(30) DEF TypeOK
<1>10. TypeOK'  BY <1>1, <1>2, <1>7, <1>8, <1>9 DEF TypeOK, Moves
<1>11. RequestIsPending'  BY <1>7 DEF RequestIsPending
<1>12. watcher.r # None => watcher.r \in Reqs  BY <1>1 DEF TypeOK, NoWatcher
<1>13. WatcherKnowsItsRequest'
  <2>1. WatcherKnowsItsRequest  BY DEF ConversionInv
  <2>2. watcher.r # None => accepted'[watcher.r] = accepted[watcher.r]
    BY <1>1, <1>3, <1>4, <1>12 DEF TypeOK
  <2> QED  BY <1>2, <2>1, <2>2 DEF WatcherKnowsItsRequest
<1>14. RunningConversionIsRecorded'
  <2>1. CASE Replaying
    BY <1>1, <1>2, <1>3, <1>7, <2>1, ConstantsAssumption
       DEF ConversionInv, RunningConversionIsRecorded, InProgress, Replaying
  <2>2. CASE ~Replaying
    <3>1. \A o \in Ops : ~InProgress(o)
      BY <1>1, <2>2 DEF ConversionInv, RunningConversionIsRecorded, Replaying
    <3> QED  BY <1>2, <3>1 DEF RunningConversionIsRecorded, InProgress
  <2> QED  BY <2>1, <2>2
<1>15. NeverAttachedWhileConverting'
  BY <1>2, ZenonT(30) DEF ConversionInv, NeverAttachedWhileConverting, Converting, InProgress
<1>16. Justified(Excl)'
  BY <1>4, <1>7, <1>8, ExclFacts DEF Justified, RequestInFlight, FinishInFlight, ReconcileInFlight
<1> QED  BY <1>1, <1>8, <1>10, <1>11, <1>13, <1>14, <1>15, <1>16, ExclStepKeeps

LEMMA ConvertAcceptedKeeps == ASSUME ConversionInv, ConvertAccepted(Excl) PROVE ConversionInv'
<1> DEFINE r == th[Excl].r
<1>1. TypeOK /\ th[Excl].step = "call"  BY DEF ConversionInv, ConvertAccepted
<1>2. pv.op = Pending /\ r \in Reqs /\ pv.reqID = r
  BY <1>1, ExclFacts DEF ConversionInv, Justified, RequestInFlight
<1>3. UNCHANGED <<pv, class, disk, attaching, lagging, watcher, recon, runners>>
  BY DEF ConvertAccepted, workers
<1>4. /\ accepted[r] = None /\ disk.users = {} /\ attaching = {}
      /\ \A o \in Ops : ~InProgress(o)
  BY DEF ConvertAccepted, Converting
<1>5. PICK o \in FreshOps :
        /\ ops' = [p \in Ops |->
                     IF p = o THEN [st |-> "running", i |-> th[Excl].c, from |-> disk.type]
                     ELSE IF p \in FreshOps THEN NoOperation ELSE ops[p]]
        /\ accepted' = [q \in Reqs |-> IF q = r THEN o
                                       ELSE IF accepted[q] \in FreshOps THEN None ELSE accepted[q]]
        /\ \/ th' = [th EXCEPT ![Excl].step = "record", ![Excl].o = o]
           \/ Leave(Excl)
  BY DEF ConvertAccepted
<1>6. o \in Ops /\ watcher.o \notin FreshOps  BY DEF FreshOps
<1>7. th[Excl] \in Thread /\ th[Excl].c \in Intent /\ disk.type \in Types \cup {None}
  BY <1>1, ExclFacts, ZenonT(30) DEF TypeOK, Thread
<1>8. /\ Moves(Excl) /\ th'[Excl].step \in {"record", "idle"}
      /\ th'[Excl].step = "record" => th'[Excl].o = o /\ th'[Excl].r = r
  BY <1>1, <1>5, <1>6, ExclFacts, OperationMoves, LeaveMoves, Zenon DEF Steps
<1>9. ops' \in [Ops -> Operation]
  <2>1. [st |-> "running", i |-> th[Excl].c, from |-> disk.type] \in Operation
    BY <1>7 DEF Operation
  <2>2. NoOperation \in Operation  BY NoIntentType DEF NoOperation, Operation
  <2> QED  BY <1>1, <1>5, <2>1, <2>2 DEF TypeOK
<1>10. accepted' \in [Reqs -> Ops \cup {None}]  BY <1>1, <1>5, <1>6 DEF TypeOK
<1>11. TypeOK'  BY <1>1, <1>3, <1>8, <1>9, <1>10 DEF TypeOK, Moves
<1>12. RequestIsPending'  BY <1>3 DEF ConversionInv, RequestIsPending
<1>13. WatcherKnowsItsRequest'
  <2> SUFFICES ASSUME watcher.r # None PROVE accepted'[watcher.r] = watcher.o
    BY <1>3 DEF WatcherKnowsItsRequest
  <2>1. watcher.r \in Reqs /\ watcher.o \in Ops  BY <1>1 DEF TypeOK, NoWatcher
  <2>2. accepted[watcher.r] = watcher.o  BY ZenonT(30) DEF ConversionInv, WatcherKnowsItsRequest
  <2>3. watcher.r # r  BY <1>4, <2>1, <2>2, ConstantsAssumption
  <2> QED  BY <1>5, <1>6, <2>1, <2>2, <2>3
<1>14. RunningConversionIsRecorded'
  <2>1. \A p \in Ops : ops'[p].st \in {"running", "switched"} => p = o
    BY <1>4, <1>5 DEF InProgress, NoOperation
  <2>2. accepted'[pv'.reqID] = o  BY <1>2, <1>3, <1>5, ZenonT(30)
  <2>3. pv'.op = Pending /\ pv'.reqID # None  BY <1>2, <1>3, ConstantsAssumption, ZenonT(30)
  <2> QED  BY <2>1, <2>2, <2>3 DEF RunningConversionIsRecorded, InProgress
<1>15. NeverAttachedWhileConverting'  BY <1>3, <1>4, Zenon DEF NeverAttachedWhileConverting
<1>16. Justified(Excl)'
  BY <1>2, <1>3, <1>5, <1>6, <1>8, ExclFacts, ZenonT(30)
     DEF Justified, RequestInFlight, FinishInFlight, ReconcileInFlight
<1> QED  BY <1>1, <1>8, <1>11, <1>12, <1>13, <1>14, <1>15, <1>16, ExclStepKeeps

LEMMA DiskStepsKeep == ASSUME ConversionInv, UpdateDisk(Excl) \/ DeleteDisk(Excl) PROVE ConversionInv'
<1>1. TypeOK /\ th[Excl].step # "idle" /\ UNCHANGED <<pv, class, attaching, lagging, ops, accepted, recon, runners>>
  BY DEF ConversionInv, UpdateDisk, DeleteDisk, workers
<1>2. Moves(Excl) /\ th'[Excl].step = "idle"
  BY <1>1, ExclFacts, LeaveMoves DEF UpdateDisk, DeleteDisk
<1>3. watcher' \in {watcher, NoWatcher}  BY ZenonT(30) DEF UpdateDisk, DeleteDisk, workers
<1>4. /\ disk' \in [type : Types \cup {None}, perf : Perfs \cup {None}, users : SUBSET Nodes]
      /\ disk'.users = disk.users
  <2>1. th[Excl].c.perf \in Perfs \cup {None}  BY <1>1, ExclFacts DEF TypeOK, Thread, Intent
  <2>2. CASE UpdateDisk(Excl)  BY <1>1, <2>1, <2>2 DEF UpdateDisk, TypeOK
  <2>3. CASE DeleteDisk(Excl)  BY <1>1, <2>3 DEF DeleteDisk, TypeOK
  <2> QED  BY <2>2, <2>3, Zenon
<1>5. TypeOK'  BY <1>1, <1>2, <1>3, <1>4, ZenonT(30) DEF TypeOK, Moves
<1>6. RequestIsPending' /\ RunningConversionIsRecorded'
  BY <1>1, Zenon DEF ConversionInv, RequestIsPending, RunningConversionIsRecorded, InProgress
<1>7. WatcherKnowsItsRequest'
  <2>1. WatcherKnowsItsRequest /\ accepted' = accepted  BY <1>1, Zenon DEF ConversionInv
  <2>2. CASE watcher' = watcher  BY <2>1, <2>2 DEF WatcherKnowsItsRequest
  <2>3. CASE watcher' = NoWatcher  BY <2>3 DEF WatcherKnowsItsRequest, NoWatcher
  <2> QED  BY <1>3, <2>2, <2>3, ZenonT(30)
<1>8. NeverAttachedWhileConverting'
  BY <1>1, <1>4 DEF ConversionInv, NeverAttachedWhileConverting, Converting, InProgress
<1>9. Justified(Excl)'  BY <1>2, ExclFacts, PlainIsJustified, ZenonT(30) DEF Plain
<1> QED  BY <1>1, <1>2, <1>5, <1>6, <1>7, <1>8, <1>9, ExclStepKeeps, Zenon

LEMMA ExclusiveStepKeeps == ASSUME ConversionInv, ExclusiveStep(Excl) PROVE ConversionInv'
BY FollowRecordedKeeps, PrepareKeeps, ConvertReplayedKeeps, ConvertAcceptedKeeps, ConvertRejectedKeeps,
   ClearRejectedKeeps, RecordOperationKeeps, MarkPendingKeeps, ModifyStepsKeep, ConvertStepsKeep,
   DiskStepsKeep, RunnerStepsKeep, EnsureKeeps, FinishFailedKeeps, FinishKeeps, IdentifyKeeps,
   ClearReconciliationKeeps, LatestKeeps
   DEF ExclusiveStep
-----------------------------------------------------------------------------
\* Publish and unpublish.

LEMMA NodeFacts == \A n \in Nodes : n \in Threads /\ n # Excl
BY ConversionAssumption DEF Threads

LEMMA AttachDiskKeeps == ASSUME ConversionInv, NEW n \in Nodes, AttachDisk(n) PROVE ConversionInv'
<1>1. TypeOK /\ th[n].step = "attach" /\ n \in Threads /\ n # Excl
  BY NodeFacts DEF ConversionInv, AttachDisk
<1>2. UNCHANGED <<pv, class, disk, lagging, ops, accepted, watcher, recon, runners>>
  BY ZenonT(30) DEF AttachDisk, workers
<1>3. Moves(n) /\ th'[n].step \in {"wait", "idle"}
  BY <1>1, GoMoves, LeaveMoves, ZenonT(30) DEF AttachDisk, Steps
<1>4. pv.op = None  BY <1>1 DEF ConversionInv, Justified
<1>5. \A o \in Ops : ~InProgress(o)
  BY <1>4, ConstantsAssumption DEF ConversionInv, RunningConversionIsRecorded
<1>6. attaching' \subseteq Nodes  BY <1>1, ZenonT(30) DEF AttachDisk, TypeOK
<1>7. TypeOK'  BY <1>1, <1>2, <1>3, <1>6, ZenonT(30) DEF TypeOK, Moves
<1>8. LockHeld'  BY <1>1, <1>3, ZenonT(30) DEF ConversionInv, LockHeld, Moves, Threads
<1>9. RequestIsPending' /\ WatcherKnowsItsRequest'
  BY <1>2, ZenonT(30) DEF ConversionInv, RequestIsPending, WatcherKnowsItsRequest
<1>10. RunningConversionIsRecorded' /\ NeverAttachedWhileConverting'
  BY <1>2, <1>5 DEF RunningConversionIsRecorded, NeverAttachedWhileConverting, Converting, InProgress
<1>11. ASSUME NEW u \in Threads PROVE Justified(u)'
  <2>1. CASE u = n  BY <1>1, <1>3, <2>1, PlainIsJustified, ZenonT(30) DEF Plain
  <2>2. CASE u # n
    <3>1. th'[u] = th[u] /\ Justified(u)  BY <1>3, <2>2, ZenonT(30) DEF Moves, ConversionInv
    <3> QED  BY <1>2, <3>1, ZenonT(30) DEF Justified, AttachedTo, RequestInFlight, FinishInFlight,
                               ReconcileInFlight, Finished
  <2> QED  BY <2>1, <2>2
<1> QED  BY <1>7, <1>8, <1>9, <1>10, <1>11 DEF ConversionInv

LEMMA DetachDiskKeeps == ASSUME ConversionInv, NEW n \in Nodes, DetachDisk(n) PROVE ConversionInv'
<1>1. TypeOK /\ th[n].step = "detach" /\ n \in Threads /\ n # Excl
  BY NodeFacts, ZenonT(30) DEF ConversionInv, DetachDisk
<1>2. UNCHANGED <<pv, class, disk, attaching, ops, accepted, watcher, recon, runners>>
  BY ZenonT(30) DEF DetachDisk, workers
<1>3. Moves(n) /\ th'[n].step \in {"hook", "idle"}
  BY <1>1, GoMoves, LeaveMoves, Zenon DEF DetachDisk, Steps
<1>4. n \in disk.users  BY <1>1 DEF ConversionInv, Justified, AttachedTo
<1>5. lagging' = lagging \cup {n} /\ lagging' \subseteq disk.users  BY <1>1, <1>4, ZenonT(30)
       DEF DetachDisk, TypeOK
<1>6. TypeOK'  BY <1>1, <1>2, <1>3, <1>5, ZenonT(30) DEF TypeOK, Moves
<1>7. LockHeld'  BY <1>1, <1>3, ZenonT(30) DEF ConversionInv, LockHeld, Moves, Threads
<1>8. RequestIsPending' /\ WatcherKnowsItsRequest'
  BY <1>2, Zenon DEF ConversionInv, RequestIsPending, WatcherKnowsItsRequest
<1>9. RunningConversionIsRecorded' /\ NeverAttachedWhileConverting'
  BY <1>2, ZenonT(30)
     DEF ConversionInv, RunningConversionIsRecorded, NeverAttachedWhileConverting, Converting, InProgress
<1>10. ASSUME NEW u \in Threads PROVE Justified(u)'
  <2>1. CASE u = n  BY <1>1, <1>3, <2>1, PlainIsJustified, ZenonT(30) DEF Plain
  <2>2. CASE u # n
    <3>1. th'[u] = th[u] /\ Justified(u)  BY <1>3, <2>2 DEF Moves, ConversionInv
    <3> QED  BY <1>2, <1>5, <2>2, <3>1, ZenonT(30)
           DEF Justified, AttachedTo, RequestInFlight, FinishInFlight,
                                           ReconcileInFlight, Finished
  <2> QED  BY <2>1, <2>2
<1> QED  BY <1>6, <1>7, <1>8, <1>9, <1>10 DEF ConversionInv

LEMMA NodeStepKeeps == ASSUME ConversionInv, NEW n \in Nodes, NodeStep(n) PROVE ConversionInv'
<1>1. TypeOK /\ n \in Threads  BY NodeFacts, ZenonT(30) DEF ConversionInv
<1>2. CASE WaitForAttach(n)
  <2>1. th[n].step # "idle" /\ Moves(n) /\ th'[n].step \in Plain
    BY <1>1, <1>2, LeaveMoves DEF WaitForAttach, Plain
  <2> QED  BY <1>1, <1>2, <2>1, PlainStepKeeps, Zenon DEF WaitForAttach, workers
<1>3. CASE StartQueuedConversionOnDetach(n)
  <2>1. th[n].step # "idle" /\ Moves(n) /\ th'[n].step \in Plain
    BY <1>1, <1>3, LeaveMoves DEF StartQueuedConversionOnDetach, Plain
  <2>2. /\ UNCHANGED <<pv, class, gce, watcher>>
        /\ UNCHANGED recon \/ startConversionReconciliation
        /\ UNCHANGED runners \/ spawnRunner
    BY <1>3 DEF StartQueuedConversionOnDetach
  <2> QED  BY <1>1, <2>1, <2>2, PlainStepKeeps, ZenonT(30)
<1> QED  BY <1>2, <1>3, AttachDiskKeeps, DetachDiskKeeps DEF NodeStep
-----------------------------------------------------------------------------
\* Calls and background work that get the volume lock.

\* A call that starts with a step that needs no justification.
LEMMA PlainEnterKeeps ==
  ASSUME ConversionInv, NEW t \in Threads,
         Acquires(t),
         NEW e \in Thread, e.step \in Plain, th' = [th EXCEPT ![t] = e],
         UNCHANGED <<pv, class, gce, watcher, recon>>, runners' \in 0..MaxRunners
  PROVE  ConversionInv'
<1>1. TypeOK  BY DEF ConversionInv
<1>2. Moves(t) /\ th'[t].step \in Plain  BY <1>1, ReplaceMoves, Zenon
<1>3. recon' \in {"none", "waiting", "running"}  BY <1>1 DEF TypeOK
<1> QED  BY <1>2, <1>3, PlainIsJustified, EnterKeeps DEF gce

LEMMA CallsKeep == ASSUME ConversionInv, Calls PROVE ConversionInv'
<1>1. TypeOK /\ GetDisk \in DiskRead /\ NoDisk \in DiskRead  BY GetDiskType DEF ConversionInv
<1>2. runners \in 0..MaxRunners  BY <1>1 DEF TypeOK
<1>3. ASSUME NEW c \in Classes, c.type # Invalid, ModifyVolume(c) PROVE ConversionInv'
  <2> DEFINE e == [NoThread EXCEPT !.kind = "modify", !.step = "modify", !.c = c, !.d = GetDisk]
  <2>1. c \in Intent  BY <1>3, ConversionAssumption DEF Class, Intent
  <2>2. e \in Thread /\ e.step = "modify"
    BY <1>1, <2>1, Zenon DEF Thread, DiskRead, NoThread, Kinds, Steps
  <2>3. th' = [th EXCEPT ![Excl] = e]  BY <1>3 DEF ModifyVolume
  <2> HIDE DEF e
  <2>4. Acquires(Excl) /\ UNCHANGED <<pv, class, gce, watcher, recon, runners>>
    BY <1>3 DEF ModifyVolume, Acquires, workers
  <2>5. e.step \in Plain  BY <2>2 DEF Plain
  <2> QED  BY <1>2, <2>2, <2>3, <2>4, <2>5, ExclFacts, PlainEnterKeeps, Zenon
<1>4. ASSUME NEW k \in {"delete", "expand", "snapshot"}, GatedCall(k) PROVE ConversionInv'
  <2>1. PICK d \in DiskRead :
          th' = [th EXCEPT ![Excl] = [NoThread EXCEPT !.kind = k, !.step = "check", !.d = d]]
    BY <1>1, <1>4, Zenon DEF GatedCall
  <2> DEFINE e == [NoThread EXCEPT !.kind = k, !.step = "check", !.d = d]
  <2>2. e \in Thread /\ e.step = "check"
    BY NoIntentType, Zenon DEF Thread, DiskRead, NoThread, Kinds, Gated, Steps
  <2>3. th' = [th EXCEPT ![Excl] = e]  BY <2>1
  <2> HIDE DEF e
  <2>4. Acquires(Excl) /\ UNCHANGED <<pv, class, gce, watcher, recon, runners>>
    BY <1>4 DEF GatedCall, Acquires, workers
  <2>5. e.step \in Plain  BY <2>2 DEF Plain
  <2> QED  BY <1>2, <2>2, <2>3, <2>4, <2>5, ExclFacts, PlainEnterKeeps, Zenon
<1>5. ASSUME NEW n \in Nodes, PublishVolume(n) PROVE ConversionInv'
  <2> DEFINE e == [NoThread EXCEPT !.kind = "publish", !.step = "check", !.d = GetDisk]
  <2>1. e \in Thread /\ e.step = "check"
    BY <1>1, NoIntentType, Zenon DEF Thread, DiskRead, NoThread, Kinds, Gated, Steps
  <2>2. th' = [th EXCEPT ![n] = e]  BY <1>5 DEF PublishVolume
  <2> HIDE DEF e
  <2>3. Acquires(n) /\ UNCHANGED <<pv, class, gce, watcher, recon, runners>>
    BY <1>5 DEF PublishVolume, Acquires, workers
  <2>4. n \in Threads /\ e.step \in Plain  BY <2>1, NodeFacts, ZenonT(30) DEF Plain
  <2> QED  BY <1>2, <2>1, <2>2, <2>3, <2>4, PlainEnterKeeps, Zenon
<1>6. ASSUME NEW n \in Nodes, UnpublishVolume(n) PROVE ConversionInv'
  <2> DEFINE e == [NoThread EXCEPT !.kind = "unpublish", !.step = "detach"]
  <2>1. e \in Thread /\ e.step = "detach"
    BY <1>1, NoIntentType, Zenon DEF Thread, DiskRead, NoThread, Kinds, Steps
  <2>2. th' = [th EXCEPT ![n] = e]  BY <1>6 DEF UnpublishVolume
  <2> HIDE DEF e
  <2>3. Moves(n) /\ th'[n].step = "detach"  BY <1>1, <2>1, <2>2, NodeFacts, ReplaceMoves, Zenon
  <2>4. UNCHANGED <<pv, class, disk, attaching, lagging, ops, accepted, watcher, recon, runners>>
    BY <1>6 DEF UnpublishVolume, gce, workers
  <2>5. Justified(n)'  BY <1>6, <2>3, <2>4, NodeFacts DEF UnpublishVolume, Justified, AttachedTo
  <2>6. recon' \in {"none", "waiting", "running"} /\ runners' \in 0..MaxRunners  BY <1>1, <2>4 DEF TypeOK
  <2>7. Acquires(n) /\ n \in Threads  BY <1>6, NodeFacts DEF UnpublishVolume, Acquires
  <2> QED  BY <2>3, <2>4, <2>5, <2>6, <2>7, EnterKeeps, Zenon
<1> QED  BY <1>3, <1>4, <1>5, <1>6 DEF Calls

\* A worker that finds nothing to do, or that is done.
LEMMA WorkersOnlyKeep ==
  ASSUME ConversionInv,
         UNCHANGED <<pv, disk, attaching, lagging, ops, accepted, th, watcher>>,
         class' \in Classes,
         recon' \in {"none", "waiting", "running"}, runners' \in 0..MaxRunners
  PROVE  ConversionInv'
<1>1. TypeOK'  BY DEF ConversionInv, TypeOK
<1>2. LockHeld' /\ RequestIsPending' /\ WatcherKnowsItsRequest'
  BY DEF ConversionInv, LockHeld, RequestIsPending, WatcherKnowsItsRequest
<1>3. RunningConversionIsRecorded' /\ NeverAttachedWhileConverting'
  BY ZenonT(30)
     DEF ConversionInv, RunningConversionIsRecorded, NeverAttachedWhileConverting, Converting, InProgress
<1>4. ASSUME NEW t \in Threads PROVE Justified(t)'
  <2>1. Justified(t)  BY DEF ConversionInv
  <2> QED  BY <2>1, ZenonT(30)
         DEF Justified, AttachedTo, RequestInFlight, FinishInFlight, ReconcileInFlight, Finished
<1> QED  BY <1>1, <1>2, <1>3, <1>4 DEF ConversionInv

LEMMA BackgroundKeeps == ASSUME ConversionInv, Background PROVE ConversionInv'
<1>1. TypeOK /\ GetDisk \in DiskRead  BY GetDiskType DEF ConversionInv
<1>2. /\ runners \in 0..MaxRunners /\ recon \in {"none", "waiting", "running"}
      /\ class \in Classes
  BY <1>1 DEF TypeOK
<1>3. CASE RunQueuedConversion /\ UNCHANGED th
  <2>1. UNCHANGED <<pv, class, disk, attaching, lagging, ops, accepted, watcher, recon>>
    BY <1>3 DEF RunQueuedConversion, gce
  <2>2. runners' \in 0..MaxRunners
    BY <1>2, <1>3, ConversionAssumption DEF RunQueuedConversion
  <2> QED  BY <1>2, <1>3, <2>1, <2>2, WorkersOnlyKeep
<1>4. CASE RunQueuedConversion /\ ~UNCHANGED th
  <2> DEFINE e == [NoThread EXCEPT !.kind = "runner", !.step = "recover", !.d = GetDisk]
  <2>1. e \in Thread /\ e.step = "recover"
    BY <1>1, NoIntentType, Zenon DEF Thread, DiskRead, NoThread, Kinds, Steps
  <2>2. th' = [th EXCEPT ![Excl] = e]  BY <1>4 DEF RunQueuedConversion
  <2> HIDE DEF e
  <2>3. Acquires(Excl) /\ UNCHANGED <<pv, class, gce, watcher, recon>>
    BY <1>4 DEF RunQueuedConversion, Acquires
  <2>4. runners' \in 0..MaxRunners
    BY <1>2, <1>4, ConversionAssumption DEF RunQueuedConversion
  <2>5. e.step \in Plain  BY <2>1, ZenonT(30) DEF Plain
  <2> QED  BY <2>1, <2>2, <2>3, <2>4, <2>5, ExclFacts, PlainEnterKeeps, Zenon
<1>5. CASE PollConversion
  <2> DEFINE e == [NoThread EXCEPT !.kind = "watcher", !.step = "ensure", !.o = watcher.o, !.r = watcher.r]
  <2>1. watcher.o \in Ops /\ watcher.r \in Reqs \cup {None} /\ Finished(watcher.o)
    BY <1>1, <1>5 DEF TypeOK, PollConversion
  <2>2. e \in Thread /\ e.step = "ensure" /\ e.o = watcher.o /\ e.r = watcher.r
    BY <2>1, NoIntentType, Zenon DEF Thread, NoThread, NoDisk, Kinds, Steps
  <2>3. th' = [th EXCEPT ![Excl] = e]  BY <1>5 DEF PollConversion
  <2> HIDE DEF e
  <2>4. /\ Moves(Excl)
        /\ th'[Excl].step = "ensure" /\ th'[Excl].o = watcher.o /\ th'[Excl].r = watcher.r
    BY <1>1, <2>2, <2>3, ExclFacts, ReplaceMoves, ZenonT(30)
  <2>5. /\ Acquires(Excl)
        /\ UNCHANGED <<pv, class, disk, attaching, lagging, ops, accepted, watcher, recon, runners>>
    BY <1>5 DEF PollConversion, Acquires, gce, workers
  <2>6. Justified(Excl)'
    BY <2>1, <2>4, <2>5, ExclFacts, Zenon
       DEF ConversionInv, WatcherKnowsItsRequest, Justified, RequestInFlight, FinishInFlight,
           ReconcileInFlight, Finished
  <2> QED  BY <1>2, <2>4, <2>5, <2>6, ExclFacts, EnterKeeps
<1>6. CASE ReconciliationWorker /\ UNCHANGED th
  <2>1. UNCHANGED <<pv, class, disk, attaching, lagging, ops, accepted, watcher, runners>>
    BY <1>6 DEF ReconciliationWorker, gce
  <2>2. recon' \in {"none", "waiting", "running"}  BY <1>6, ZenonT(30) DEF ReconciliationWorker
  <2> QED  BY <1>2, <1>6, <2>1, <2>2, WorkersOnlyKeep
<1>7. CASE ReconciliationWorker /\ ~UNCHANGED th
  <2> DEFINE e == [NoThread EXCEPT !.kind = "reconcile", !.step = "identify"]
  <2>1. e \in Thread /\ e.step = "identify"
    BY NoIntentType, Zenon DEF Thread, NoThread, NoDisk, Kinds, Steps
  <2>2. th' = [th EXCEPT ![Excl] = e] /\ pv.op = Reconciling  BY <1>7 DEF ReconciliationWorker
  <2> HIDE DEF e
  <2>3. Moves(Excl) /\ th'[Excl].step = "identify"  BY <1>1, <2>1, <2>2, ExclFacts, ReplaceMoves, Zenon
  <2>4. /\ Acquires(Excl) /\ recon' \in {"none", "waiting", "running"}
        /\ UNCHANGED <<pv, class, disk, attaching, lagging, ops, accepted, watcher, runners>>
    BY <1>7 DEF ReconciliationWorker, Acquires, gce
  <2>5. Justified(Excl)'
    BY <2>2, <2>3, <2>4, ExclFacts, Zenon DEF Justified, RequestInFlight, FinishInFlight, ReconcileInFlight
  <2> QED  BY <1>2, <2>3, <2>4, <2>5, ExclFacts, EnterKeeps
<1>8. CASE ReconciliationWorkerExits
  <2>1. /\ UNCHANGED <<pv, class, disk, attaching, lagging, ops, accepted, th, watcher, runners>>
        /\ recon' \in {"none", "waiting", "running"}
    BY <1>8 DEF ReconciliationWorkerExits, gce
  <2> QED  BY <1>2, <2>1, WorkersOnlyKeep
<1> QED  BY <1>3, <1>4, <1>5, <1>6, <1>7, <1>8 DEF Background
-----------------------------------------------------------------------------
\* The environment.

\* What GCE does on its own: it attaches what it was asked to, lists no new
\* user otherwise, and only finishes conversions.
CloudEffect ==
  /\ disk' \in [type : Types \cup {None}, perf : Perfs \cup {None}, users : SUBSET Nodes]
  /\ attaching' \subseteq attaching /\ lagging' \subseteq disk'.users
  /\ ops' \in [Ops -> Operation]
  /\ \A n \in Nodes : AttachedTo(n) => AttachedTo(n)'
  /\ \A o \in Ops : (Finished(o) => Finished(o)') /\ (InProgress(o)' => InProgress(o))
  /\ disk'.users \subseteq disk.users \cup attaching

LEMMA CloudKeeps == ASSUME ConversionInv, Cloud PROVE ConversionInv'
<1>1. TypeOK  BY ZenonT(30) DEF ConversionInv
<1>2. UNCHANGED <<pv, class, accepted, th, watcher, recon, runners>>
  BY Zenon DEF Cloud, AttachOperationEnds, UsersCatchUp, ConversionSwitchesType, ConversionEnds, workers
<1>3. CloudEffect
  <2>1. ASSUME NEW n \in Nodes, AttachOperationEnds(n) PROVE CloudEffect
    BY <1>1, <2>1 DEF AttachOperationEnds, TypeOK, AttachedTo, Finished, InProgress, CloudEffect
  <2>2. ASSUME NEW n \in Nodes, UsersCatchUp(n) PROVE CloudEffect
    BY <1>1, <2>2 DEF UsersCatchUp, TypeOK, AttachedTo, Finished, InProgress, CloudEffect
  <2>3. ASSUME NEW o \in Ops, ConversionSwitchesType(o) PROVE CloudEffect
    BY <1>1, <2>3, ZenonT(30)
       DEF ConversionSwitchesType, TypeOK, Operation, Intent, AttachedTo, Finished, InProgress, CloudEffect
  <2>4. ASSUME NEW o \in Ops, ConversionEnds(o) PROVE CloudEffect
    BY <1>1, <2>4 DEF ConversionEnds, TypeOK, Operation, AttachedTo, Finished, InProgress, CloudEffect
  <2> QED  BY <2>1, <2>2, <2>3, <2>4 DEF Cloud
<1>4. TypeOK'  BY <1>1, <1>2, <1>3 DEF TypeOK, CloudEffect
<1>5. LockHeld' /\ RequestIsPending' /\ WatcherKnowsItsRequest'
  BY <1>2, Zenon DEF ConversionInv, LockHeld, RequestIsPending, WatcherKnowsItsRequest
<1>6. RunningConversionIsRecorded'
  BY <1>2, <1>3, ZenonT(30) DEF ConversionInv, RunningConversionIsRecorded, CloudEffect
<1>7. NeverAttachedWhileConverting'
  BY <1>3, ZenonT(30) DEF ConversionInv, NeverAttachedWhileConverting, Converting, CloudEffect
<1>8. ASSUME NEW t \in Threads PROVE Justified(t)'
  <2>1. Justified(t)  BY DEF ConversionInv
  <2> QED  BY <1>2, <1>3, <2>1, Zenon
         DEF Justified, RequestInFlight, FinishInFlight, ReconcileInFlight, CloudEffect
<1> QED  BY <1>4, <1>5, <1>6, <1>7, <1>8 DEF ConversionInv

LEMMA SetClassKeeps == ASSUME ConversionInv, NEW c \in Classes, SetClass(c) PROVE ConversionInv'
<1>1. UNCHANGED <<pv, disk, attaching, lagging, ops, accepted, th, watcher>> /\ class' \in Classes
  BY DEF SetClass, gce, workers
<1>2. recon' \in {"none", "waiting", "running"} /\ runners' \in 0..MaxRunners
  BY DEF SetClass, workers, ConversionInv, TypeOK
<1> QED  BY <1>1, <1>2, WorkersOnlyKeep

\* A crash leaves the PV and GCE as they are, and no thread.
LEMMA CrashKeeps == ASSUME ConversionInv, Crash PROVE ConversionInv'
<1>1. UNCHANGED <<pv, class, disk, attaching, lagging, ops, accepted>>  BY ZenonT(30) DEF Crash, gce
<1>2. NoThread \in Thread /\ NoThread.step = "idle"
  BY NoIntentType DEF NoThread, Thread, NoDisk, Kinds, Gated, Steps
<1>3. th' \in [Threads -> Thread] /\ \A t \in Threads : th'[t].step = "idle"
  BY <1>2 DEF Crash
<1>4. 0 \in 0..MaxRunners  BY ConversionAssumption
<1>5. watcher' = NoWatcher /\ recon' = "none" /\ runners' = 0  BY DEF Crash
<1>6. TypeOK'  BY <1>1, <1>3, <1>4, <1>5 DEF ConversionInv, TypeOK
<1>7. LockHeld'  BY <1>3, NodeFacts DEF LockHeld
<1>8. RequestIsPending' /\ WatcherKnowsItsRequest'
  BY <1>1, <1>5, ZenonT(30) DEF ConversionInv, RequestIsPending, WatcherKnowsItsRequest, NoWatcher
<1>9. RunningConversionIsRecorded' /\ NeverAttachedWhileConverting'
  BY <1>1
     DEF ConversionInv, RunningConversionIsRecorded, NeverAttachedWhileConverting, Converting, InProgress
<1>10. \A t \in Threads : Justified(t)'  BY <1>3, PlainIsJustified DEF Plain
<1> QED  BY <1>6, <1>7, <1>8, <1>9, <1>10 DEF ConversionInv
-----------------------------------------------------------------------------
\* The invariant.

LEMMA InitConversionInv == Init => ConversionInv
<1> SUFFICES ASSUME Init PROVE ConversionInv  BY ZenonT(30)
<1>1. NoThread \in Thread /\ NoThread.step = "idle"
  BY NoIntentType DEF NoThread, Thread, NoDisk, Kinds, Gated, Steps
<1>2. PICK ty \in Types : disk = [type |-> ty, perf |-> None, users |-> {}]  BY DEF Init
<1>3. pv \in Annotations /\ pv.op \in {None, Reconciling} /\ pv.reqID = None
  <2>1. NoAnnotations \in Annotations /\ NoAnnotations.op = None /\ NoAnnotations.reqID = None
    BY NoIntentType DEF NoAnnotations, Annotations
  <2>2. disk.type \in Types  BY <1>2
  <2>3. /\ [NoAnnotations EXCEPT !.op = Reconciling, !.to = disk.type] \in Annotations
        /\ [NoAnnotations EXCEPT !.op = Reconciling, !.to = disk.type].op = Reconciling
        /\ [NoAnnotations EXCEPT !.op = Reconciling, !.to = disk.type].reqID = None
    BY <2>1, <2>2, Zenon DEF Annotations
  <2> QED  BY <2>1, <2>3, Zenon DEF Init
<1>4. th \in [Threads -> Thread] /\ \A t \in Threads : th[t].step = "idle"  BY <1>1 DEF Init
<1>5. ops \in [Ops -> Operation] /\ \A o \in Ops : ~InProgress(o)
  BY NoIntentType DEF Init, NoOperation, Operation, InProgress
<1>6. TypeOK
  <2>1. 0 \in 0..MaxRunners  BY ConversionAssumption
  <2>2. disk \in [type : Types \cup {None}, perf : Perfs \cup {None}, users : SUBSET Nodes]
    BY <1>2
  <2>3. attaching \subseteq Nodes /\ lagging \subseteq disk.users  BY DEF Init
  <2> QED  BY <1>3, <1>4, <1>5, <2>1, <2>2, <2>3 DEF Init, TypeOK
<1>7. LockHeld  BY <1>4, NodeFacts DEF LockHeld
<1>8. RequestIsPending /\ WatcherKnowsItsRequest
  BY <1>3 DEF Init, RequestIsPending, WatcherKnowsItsRequest, NoWatcher
<1>9. RunningConversionIsRecorded /\ NeverAttachedWhileConverting
  BY <1>5, ZenonT(30) DEF RunningConversionIsRecorded, NeverAttachedWhileConverting, Converting
<1>10. \A t \in Threads : Justified(t)
  BY <1>4, Zenon DEF Justified, RequestInFlight, FinishInFlight, ReconcileInFlight
<1> QED  BY <1>6, <1>7, <1>8, <1>9, <1>10 DEF ConversionInv

LEMMA NextConversionInv == ConversionInv /\ [Next]_vars => ConversionInv'
<1> SUFFICES ASSUME ConversionInv, [Next]_vars PROVE ConversionInv'  OBVIOUS
<1>1. CASE UNCHANGED vars
  <2>1. /\ UNCHANGED <<pv, disk, attaching, lagging, ops, accepted, th, watcher>>
        /\ class' \in Classes
        /\ recon' \in {"none", "waiting", "running"} /\ runners' \in 0..MaxRunners
    BY <1>1 DEF vars, ConversionInv, TypeOK
  <2> QED  BY <2>1, WorkersOnlyKeep, ZenonT(30)
<1>2. CASE Next
  BY <1>2, CallsKeep, ExclusiveStepKeeps, SharedStepKeeps, ApiErrorKeeps, NodeStepKeeps,
     BackgroundKeeps, CloudKeeps, SetClassKeeps, CrashKeeps DEF Next
<1> QED  BY <1>1, <1>2

LEMMA ConversionInvariant == Spec => []ConversionInv
BY InitConversionInv, NextConversionInv, PTL DEF Spec

(***************************************************************************)
(* Type correctness of the conversion: no interleaving of calls, failures  *)
(* and crashes puts a value of the wrong kind on the PV, into a thread or  *)
(* into the watcher.                                                       *)
(***************************************************************************)
THEOREM ConversionTypeCorrect == Spec => []TypeOK
<1>1. ConversionInv => TypeOK  BY DEF ConversionInv
<1> QED  BY <1>1, ConversionInvariant, PTL

(***************************************************************************)
(* For any number of nodes, no disk is attached or being attached while    *)
(* GCE converts it.                                                        *)
(***************************************************************************)
THEOREM NeverAttachedTheorem == Spec => []NeverAttachedWhileConverting
<1>1. ConversionInv => NeverAttachedWhileConverting  BY ZenonT(30) DEF ConversionInv
<1> QED  BY <1>1, ConversionInvariant, PTL

(***************************************************************************)
(* Nor is any call that the conversion has to keep out past its checks.    *)
(***************************************************************************)
THEOREM NoUseTheorem == Spec => []NoUseWhileConverting
<1>1. ConversionInv => NoUseWhileConverting
  BY ConstantsAssumption
     DEF ConversionInv, NoUseWhileConverting, Justified, Converting, RunningConversionIsRecorded
<1> QED  BY <1>1, ConversionInvariant, PTL

(***************************************************************************)
(* A running conversion can always be found again from the PV: after any   *)
(* crash, lost response or failed write its operation or its request ID is *)
(* recorded.                                                               *)
(***************************************************************************)
THEOREM RecordedTheorem == Spec => []RunningConversionIsRecorded
<1>1. ConversionInv => RunningConversionIsRecorded  BY DEF ConversionInv
<1> QED  BY <1>1, ConversionInvariant, PTL

\* The step that takes an operation off the PV.
LEMMA OperationLeaves ==
  ASSUME ConversionInv, Next, pv.op \in Ops, pv'.op # pv.op
  PROVE  Finished(pv.op)
<1>1. TypeOK /\ pv.op # Pending /\ pv.op # Reconciling /\ pv.op # None /\ pv' # pv /\ pv \in Annotations
  BY ConstantsAssumption, ZenonT(30) DEF ConversionInv, TypeOK
<1>2. CASE ExclusiveStep(Excl)
  <2>1. CASE \/ FollowRecorded(Excl) \/ ConvertReplayed(Excl) \/ ConvertAccepted(Excl)
             \/ ConvertRejected(Excl) \/ ModifyWithoutType(Excl) \/ ModifyToOtherType(Excl)
             \/ CompleteConversionIfInProgress(Excl) \/ AnswerFromRecord(Excl) \/ ConvertDiskType(Excl)
             \/ UpdateDisk(Excl) \/ ActOnDisk(Excl) \/ DeleteDisk(Excl) \/ RecoverRequest(Excl)
             \/ WaitForDetachVisible(Excl) \/ ReconcileLatestVACAfterConversion(Excl)
    <3>1. UNCHANGED pv
      BY <2>1, Zenon DEF FollowRecorded, ConvertReplayed, ConvertAccepted, ConvertRejected,
           ModifyWithoutType, ModifyToOtherType, CompleteConversionIfInProgress, AnswerFromRecord,
           ConvertDiskType, UpdateDisk, ActOnDisk, DeleteDisk, RecoverRequest, WaitForDetachVisible,
           ReconcileLatestVACAfterConversion
    <3> QED  BY <1>1, <3>1
  <2>8. CASE PrepareRequest(Excl)  BY <1>1, <2>8, ZenonT(30) DEF PrepareRequest
  <2>9. CASE ClearRejectedConversionRequest(Excl)
    BY <1>1, <2>9, ZenonT(30) DEF ClearRejectedConversionRequest
  <2>10. CASE MarkConversionPending(Excl)  BY <1>1, <2>10, ZenonT(30) DEF MarkConversionPending
  <2>2. CASE RecordOperation(Excl)  BY <1>1, <2>2, ZenonT(30) DEF RecordOperation
  <2>3. CASE ClearOtherRecord(Excl)  BY <1>1, <2>3, RefusalClearedType DEF ClearOtherRecord, Write
  <2>4. CASE ReportLastError(Excl)  BY <1>1, <2>4 DEF ReportLastError, Annotations
  <2>5. CASE EnsureWatchedOperationRecorded(Excl)  BY <1>1, <2>5, ZenonT(30)
         DEF EnsureWatchedOperationRecorded
  <2>6. CASE FinishFailedWatchedConversion(Excl) \/ FinishWatchedConversion(Excl)
    <3>1. th[Excl].step = "finish"
      BY <2>6, ZenonT(30) DEF FinishFailedWatchedConversion, FinishWatchedConversion
    <3> QED  BY <3>1, ExclFacts DEF ConversionInv, Justified, FinishInFlight
  <2>7. CASE IdentifyReconciliation(Excl) \/ ClearConversionReconciliation(Excl)
    <3>1. th[Excl].step \in {"identify", "clear"}
      BY <2>7 DEF IdentifyReconciliation, ClearConversionReconciliation
    <3> QED  BY <1>1, <3>1, ExclFacts DEF ConversionInv, Justified, ReconcileInFlight
  <2> QED  BY <1>2, <2>1, <2>2, <2>3, <2>4, <2>5, <2>6, <2>7, <2>8, <2>9, <2>10, ZenonT(30)
         DEF ExclusiveStep
<1>3. ASSUME NEW t \in Threads, SharedStep(t) PROVE FALSE
  <2>1. CASE \/ CheckNoConversionInProgress(t) \/ QueuedConversionOutcome(t) \/ CancelQueuedConversion(t)
             \/ RecordInfeasibleConversion(t) \/ FinalCheck(t)
    BY <1>1, <2>1, ZenonT(30)
       DEF CheckNoConversionInProgress, QueuedConversionOutcome, CancelQueuedConversion,
         RecordInfeasibleConversion, FinalCheck
  <2>2. CASE NoteInfeasible(t)
    <3>1. th[t].c \in Intent  BY <1>1 DEF TypeOK, Thread
    <3> QED  BY <1>1, <2>2, <3>1, RefusedType, ZenonT(30) DEF NoteInfeasible, Write
  <2> QED  BY <1>3, <2>1, <2>2 DEF SharedStep
<1>4. ~Calls
  <2>1. Calls => UNCHANGED pv
    BY Zenon DEF Calls, ModifyVolume, GatedCall, PublishVolume, UnpublishVolume
  <2> QED  BY <1>1, <2>1
<1>5. ~\E t \in Threads : ApiError(t)  BY <1>1, ZenonT(30) DEF ApiError
<1>6. ~\E n \in Nodes : NodeStep(n)
  BY <1>1, Zenon DEF NodeStep, AttachDisk, WaitForAttach, DetachDisk, StartQueuedConversionOnDetach
<1>7. ~Background
  BY <1>1
     DEF Background, RunQueuedConversion, PollConversion, ReconciliationWorker, ReconciliationWorkerExits
<1>8. ~Cloud
  <2>1. Cloud => UNCHANGED pv
    BY Zenon DEF Cloud, AttachOperationEnds, UsersCatchUp, ConversionSwitchesType, ConversionEnds
  <2> QED  BY <1>1, <2>1
<1>9. ~(\E c \in Classes : SetClass(c)) /\ ~Crash  BY <1>1 DEF SetClass, Crash
<1> QED  BY <1>2, <1>3, <1>4, <1>5, <1>6, <1>7, <1>8, <1>9, ZenonT(30) DEF Next

(***************************************************************************)
(* Once recorded, an operation leaves the PV only when GCE has finished    *)
(* it, whichever worker, retry or newer class takes it off.                *)
(***************************************************************************)
THEOREM OperationKeptTheorem == Spec => OperationKeptUntilFinished
<1>1. ConversionInv /\ [Next]_vars => [pv.op \in Ops /\ pv'.op # pv.op => Finished(pv.op)]_vars
  BY OperationLeaves
<1> QED  BY <1>1, ConversionInvariant, PTL DEF Spec, OperationKeptUntilFinished
=============================================================================
