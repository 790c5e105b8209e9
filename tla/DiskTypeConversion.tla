------------------------- MODULE DiskTypeConversion -------------------------
(***************************************************************************)
(* In-place disk type conversion of one zonal, single-writer volume with a *)
(* PersistentVolume: controller.go's ControllerModifyVolume and the        *)
(* background work it starts, together with every other controller call    *)
(* that the conversion has to keep away from the disk.                     *)
(*                                                                         *)
(* The calls are threads of one driver process.  The exclusive volume lock *)
(* has one holder, the thread Excl; a publish or unpublish on a node holds *)
(* the lock shared and the node's lock exclusively, so it is the thread of *)
(* its node.  Everything a thread reads and uses in a later step is in its *)
(* record.  A step is one call to the API server or to GCE, with the reads *)
(* that nobody else can make stale before it.  Any such call can fail, and *)
(* a write can take effect although its caller sees an error.  The process *)
(* can crash between any two steps; the PersistentVolume, the disk and the *)
(* GCE operations survive.                                                 *)
(***************************************************************************)
EXTENDS ConversionAnnotations, Naturals

CONSTANTS Nodes,       \* the instances the disk can be attached to
          Excl,        \* the thread that holds the volume lock exclusively
          Classes,     \* the classes the claim can name
          Rejected,    \* intents GCE rejects for good when they are requested
          Doomed,      \* intents whose operation fails for good
          MaxRunners   \* queued-conversion goroutines that wait at a time

ASSUME ConversionAssumption ==
  /\ Excl \notin Nodes
  /\ Classes \subseteq Class
  /\ Rejected \subseteq Intent /\ Doomed \subseteq Intent
  /\ MaxRunners \in Nat \ {0}

VARIABLES
  pv,         \* annotations of the PersistentVolume
  class,      \* the class the claim names now
  disk,       \* the GCE disk: type (None once deleted), perf, users
  attaching,  \* nodes with a GCE attach operation that has not finished
  lagging,    \* nodes detached from but still listed among the users
  ops,        \* the GCE conversion operations
  accepted,   \* accepted[r]: the operation GCE started for request ID r
  th,         \* the threads
  watcher,    \* the registered watcher: the operation it polls, a request ID
  recon,      \* the registered reconciliation worker
  runners     \* runQueuedConversion goroutines waiting for the volume lock

gce     == <<disk, attaching, lagging, ops, accepted>>
workers == <<watcher, recon, runners>>
vars    == <<pv, class, disk, attaching, lagging, ops, accepted, th, watcher, recon, runners>>

Threads == Nodes \cup {Excl}

\* Calls refused while a conversion is queued or running.
Gated == {"publish", "delete", "expand", "snapshot"}
Kinds == Gated \cup {"none", "modify", "unpublish", "runner", "reconcile", "watcher"}
Steps == {"idle", "modify", "convert", "queue", "prepare", "call", "rejected", "record",
          "report", "refuse", "note", "final", "cancel", "perf", "check", "outcome",
          "users", "ensure", "finish", "recover", "identify", "clear", "latest", "act",
          "attach", "wait", "detach", "hook"}

\* What GetDisk returned; NoDisk when it failed and the caller goes on.
NoDisk   == [type |-> None, perf |-> None, attached |-> FALSE]
GetDisk  == [type |-> disk.type, perf |-> disk.perf, attached |-> disk.users # {}]
NoThread == [kind |-> "none", step |-> "idle", c |-> NoIntent, d |-> NoDisk,
             r |-> None, o |-> None]
Thread   == [kind : Kinds, step : Steps, c : Intent,
             d : [type : Types \cup {None}, perf : Perfs \cup {None}, attached : BOOLEAN],
             r : Reqs \cup {None}, o : Ops \cup {None, Uuid}]

NoWatcher == [o |-> None, r |-> None]
Operation == [st : {"none", "running", "switched", "done", "retriable", "terminal"},
              i : Intent, from : Types \cup {None}]
NoOperation == [st |-> "none", i |-> NoIntent, from |-> None]

InProgress(o) == ops[o].st \in {"running", "switched"}
Finished(o)   == ops[o].st \in {"done", "retriable", "terminal"}
Converting    == \E o \in Ops : InProgress(o)

-----------------------------------------------------------------------------
\* Steps of a thread.

Go(t, s)   == th' = [th EXCEPT ![t].step = s]
Leave(t)   == th' = [th EXCEPT ![t] = NoThread]
Step(t, s) == IF s = "idle" THEN Leave(t) ELSE Go(t, s)

\* UpdatePVAnnotations when its conditions hold: the write takes effect, and
\* its caller may still see an error.
Write(t, new, ok, err) == /\ pv' = new
                          /\ Step(t, ok) \/ Step(t, err)

\* What follows a cancelled queued conversion, a conversion recorded as
\* infeasible, and a check that found no conversion in the way.
Admitted(t)     == IF th[t].kind = "publish" THEN "attach" ELSE "act"
AfterCancel(t)  == CASE th[t].kind = "modify" -> "perf"
                     [] th[t].kind \in Gated  -> Admitted(t)
                     [] OTHER                 -> "idle"
AfterRefusal(t) == IF th[t].kind \in Gated THEN "final" ELSE "idle"

\* A call that fails before it takes effect.  Every caller gives up, except
\* that recording an infeasible conversion is best effort.  A failure to
\* record an accepted operation is an outcome of RecordOperation.
ApiError(t) ==
  /\ th[t].step \notin {"idle", "record"}
  /\ Step(t, IF th[t].step \in {"refuse", "note"} THEN AfterRefusal(t) ELSE "idle")
  /\ UNCHANGED <<pv, class, gce, workers>>

\* The volume lock: exclusive for Excl, shared for a node, whose own lock
\* admits one call at a time.
\* (Mutant: an exclusive holder that ignores the shared ones.)
TryAcquireIgnoringReaders == th[Excl].step = "idle"
TryAcquire          == \A t \in Threads : th[t].step = "idle"
TryAcquireShared(n) == th[Excl].step = "idle" /\ th[n].step = "idle"

\* Background work.
watchConversion(o, r) == watcher' = [o |-> o, r |-> r]
startConversionReconciliation == recon' = IF recon = "none" THEN "waiting" ELSE recon
spawnRunner == runners' = IF runners < MaxRunners THEN runners + 1 ELSE runners

-----------------------------------------------------------------------------
(***************************************************************************)
(* startDiskTypeConversion: persist the request, ask GCE, persist the      *)
(* operation.  The thread asks for the intent in its field c, which        *)
(* becomes the intent sent when an earlier request is replayed.            *)
(***************************************************************************)

\* A name that nothing refers to any more stands for a fresh one, and what
\* GCE knows under it is forgotten then.
FreshReqs == Reqs \ ({pv.reqID, watcher.r} \cup {th[t].r : t \in Threads})
FreshOps  == {o \in Ops \ ({pv.op, pv.reconID, watcher.o} \cup {th[t].o : t \in Threads}) :
                ~InProgress(o)}

Replaying == pv.reqID # None
\* (Mutants: the request is replayed with the values asked for now, and from
\* the type the disk has now.)
SentIntentOfNow(t) == th[t].c
SourceTypeOfNow(t) == th[t].d.type
SentIntent(t) == IF Replaying THEN [type |-> pv.target, perf |-> pv.perf] ELSE th[t].c
SourceType(t) == IF Replaying /\ pv.source # None THEN pv.source ELSE th[t].d.type

\* A recorded operation is followed, not requested again.
FollowRecorded(t) ==
  /\ th[t].step = "prepare"
  /\ pv.op \in Ops
  /\ watchConversion(pv.op, None)
  /\ Leave(t)
  /\ UNCHANGED <<pv, class, gce, recon, runners>>

\* (Mutant: every attempt gets its own request ID.)
PrepareNewRequest(t) ==
  /\ th[t].step = "prepare"
  /\ pv.op \notin Ops
  /\ \E id \in FreshReqs :
        /\ pv' = Prepared(pv, id, SentIntent(t), SourceType(t))
        /\ accepted' = [accepted EXCEPT ![id] = None]
        /\ th' = [th EXCEPT ![t].step = "call", ![t].r = id, ![t].c = SentIntent(t)]
  /\ UNCHANGED <<class, disk, attaching, lagging, ops, workers>>

PrepareRequest(t) ==
  /\ th[t].step = "prepare"
  /\ pv.op \notin Ops
  /\ Replaying => pv.target # None
  /\ \E id \in IF Replaying THEN {pv.reqID} ELSE FreshReqs :
        /\ pv' = Prepared(pv, id, SentIntent(t), SourceType(t))
        /\ accepted' = IF Replaying THEN accepted ELSE [accepted EXCEPT ![id] = None]
        /\ \/ th' = [th EXCEPT ![t].step = "call", ![t].r = id, ![t].c = SentIntent(t)]
           \/ Leave(t)
  /\ UNCHANGED <<class, disk, attaching, lagging, ops, workers>>

\* GCE has already started an operation for this request ID.
ConvertReplayed(t) ==
  /\ th[t].step = "call"
  /\ accepted[th[t].r] # None
  /\ th' = [th EXCEPT ![t].step = "record", ![t].o = accepted[th[t].r]]
  /\ UNCHANGED <<pv, class, gce, workers>>

\* GCE converts a detached disk that no other operation is using.
ConvertAccepted(t) ==
  /\ th[t].step = "call"
  /\ accepted[th[t].r] = None
  /\ th[t].c \notin Rejected
  /\ disk.users = {} /\ attaching = {} /\ ~Converting
  /\ \E o \in FreshOps :
        /\ ops' = [p \in Ops |->
                     IF p = o THEN [st |-> "running", i |-> th[t].c, from |-> disk.type]
                     ELSE IF p \in FreshOps THEN NoOperation ELSE ops[p]]
        /\ accepted' = [q \in Reqs |-> IF q = th[t].r THEN o
                                       ELSE IF accepted[q] \in FreshOps THEN None ELSE accepted[q]]
        /\ \/ th' = [th EXCEPT ![t].step = "record", ![t].o = o]
           \/ Leave(t)  \* the response is lost
  /\ UNCHANGED <<pv, class, disk, attaching, lagging, workers>>

\* A reason in terminalConversionReasons.
ConvertRejected(t) ==
  /\ th[t].step = "call"
  /\ accepted[th[t].r] = None
  /\ th[t].c \in Rejected
  /\ Go(t, "rejected")
  /\ UNCHANGED <<pv, class, gce, workers>>

ClearRejectedConversionRequest(t) ==
  /\ th[t].step = "rejected"
  /\ IF pv.op = Pending /\ pv.reqID = th[t].r
       THEN Write(t, RequestForgotten(pv), "refuse", "idle")
       ELSE Leave(t) /\ UNCHANGED pv
  /\ UNCHANGED <<class, gce, workers>>

\* The operation that GCE accepted replaces the request.  When that fails,
\* the watcher carries the request ID to restore it later.
RecordOperation(t) ==
  /\ th[t].step = "record"
  /\ \/ /\ pv.op = Pending /\ pv.reqID = th[t].r
        /\ pv' = Started(pv, th[t].o)
        /\ watchConversion(th[t].o, None)
        /\ Step(t, IF th[t].kind = "modify" THEN "report" ELSE "idle")
     \/ /\ IF pv.op = Pending /\ pv.reqID = th[t].r
             THEN pv' \in {pv, Started(pv, th[t].o)}
             ELSE UNCHANGED pv
        /\ watchConversion(th[t].o, th[t].r)
        /\ Leave(t)
  /\ UNCHANGED <<class, gce, recon, runners>>

-----------------------------------------------------------------------------
(***************************************************************************)
(* Giving a conversion up, and recording why.                              *)
(***************************************************************************)

\* (Mutant: cancels a request that GCE may have accepted.)
CancelAnyConversion(t) ==
  /\ th[t].step = "cancel"
  /\ CASE pv.op = None    -> Step(t, AfterCancel(t)) /\ UNCHANGED pv
       [] pv.op = Pending -> Write(t, Cancelled(pv), AfterCancel(t), "idle")
       [] OTHER           -> Leave(t) /\ UNCHANGED pv
  /\ UNCHANGED <<class, gce, workers>>

CancelQueuedConversion(t) ==
  /\ th[t].step = "cancel"
  /\ CASE pv.op = None                          -> Step(t, AfterCancel(t)) /\ UNCHANGED pv
       [] pv.op = Pending /\ pv.reqID = None    -> Write(t, Cancelled(pv), AfterCancel(t), "idle")
       [] OTHER                                 -> Leave(t) /\ UNCHANGED pv
  /\ UNCHANGED <<class, gce, workers>>

\* recordInfeasibleConversion withdraws a queued conversion, leaves a running
\* one alone, and then writes the reason.
RecordInfeasibleConversion(t) ==
  /\ th[t].step = "refuse"
  /\ CASE pv.op = Pending /\ pv.reqID = None    -> Write(t, Cancelled(pv), "note", AfterRefusal(t))
       [] pv.op \in {None, Reconciling}         -> Go(t, "note") /\ UNCHANGED pv
       [] OTHER                                 -> Step(t, AfterRefusal(t)) /\ UNCHANGED pv
  /\ UNCHANGED <<class, gce, workers>>

NoteInfeasible(t) ==
  /\ th[t].step = "note"
  /\ Write(t, Refused(pv, th[t].c), AfterRefusal(t), AfterRefusal(t))
  /\ UNCHANGED <<class, gce, workers>>

MarkConversionPending(t) ==
  /\ th[t].step = "queue"
  /\ IF pv.op \notin Ops /\ pv.reqID = None
       THEN pv' = Queued(pv, th[t].c.type)
       ELSE UNCHANGED pv
  /\ Leave(t)
  /\ UNCHANGED <<class, gce, workers>>

-----------------------------------------------------------------------------
(***************************************************************************)
(* ControllerModifyVolume, for the class c that the external-resizer       *)
(* applies, which need not be the class the claim names by now.            *)
(***************************************************************************)

\* The driver itself rules out performance values the target does not take.
Unconvertible(c) == c.perf # None /\ c.type \notin PerfTypes

ModifyVolume(c) ==
  /\ TryAcquire
  /\ disk.type # None
  /\ th' = [th EXCEPT ![Excl] = [NoThread EXCEPT !.kind = "modify", !.step = "modify",
                                                 !.c = c, !.d = GetDisk]]
  /\ UNCHANGED <<pv, class, gce, workers>>

\* (Mutant: a class without a type is applied whatever is recorded.)
ModifyWithoutTypeUnchecked(t) ==
  /\ th[t].step = "modify"
  /\ th[t].c.type = None
  /\ Step(t, IF pv.op = Pending THEN "cancel" ELSE "perf")
  /\ UNCHANGED <<pv, class, gce, workers>>

\* A class without a type: a queued conversion is cancelled, anything else
\* that the volume is blocked on stays.
ModifyWithoutType(t) ==
  /\ th[t].step = "modify"
  /\ th[t].c.type = None
  /\ Step(t, CASE pv.op = None    -> "perf"
               [] pv.op = Pending -> "cancel"
               [] OTHER           -> "idle")
  /\ UNCHANGED <<pv, class, gce, workers>>

ModifyToOtherType(t) ==
  /\ th[t].step = "modify"
  /\ th[t].c.type \notin {None, th[t].d.type}
  /\ Go(t, "convert")
  /\ UNCHANGED <<pv, class, gce, workers>>

\* (Mutant: a disk that has the type counts as converted.)
CompleteConversionOnTypeMatch(t) ==
  /\ th[t].step = "modify"
  /\ th[t].c.type # None /\ th[t].c.type = th[t].d.type
  /\ pv.op \in Ops
  /\ pv' = Completed(pv, pv.op, th[t].d.type)
  /\ Leave(t)
  /\ UNCHANGED <<class, gce, workers>>

\* The disk has the type: completeConversionIfInProgress.
CompleteConversionIfInProgress(t) ==
  /\ th[t].step = "modify"
  /\ th[t].c.type # None /\ th[t].c.type = th[t].d.type
  /\ \/ pv.op = None /\ Go(t, "perf") /\ UNCHANGED workers
     \/ pv.op = Pending /\ pv.reqID = None /\ Go(t, "cancel") /\ UNCHANGED workers
     \/ pv.op = Pending /\ pv.reqID # None /\ Leave(t) /\ spawnRunner /\ UNCHANGED <<watcher, recon>>
     \/ pv.op = Reconciling /\ Leave(t) /\ startConversionReconciliation /\ UNCHANGED <<watcher, runners>>
     \/ pv.op \in Ops /\ Leave(t) /\ watchConversion(pv.op, None) /\ UNCHANGED <<recon, runners>>
  /\ UNCHANGED <<pv, class, gce>>

\* convertDiskType.  The same request that was found infeasible is answered
\* from the record; a record of another request is removed first.
AnswerFromRecord(t) ==
  /\ th[t].step = "convert"
  /\ pv.infeasible /\ pv.intent = th[t].c
  /\ Leave(t)
  /\ UNCHANGED <<pv, class, gce, workers>>

ClearOtherRecord(t) ==
  /\ th[t].step = "convert"
  /\ pv.infeasible /\ pv.intent # th[t].c
  /\ Write(t, RefusalCleared(pv), "convert", "idle")
  /\ UNCHANGED <<class, gce, workers>>

ConvertDiskType(t) ==
  /\ th[t].step = "convert"
  /\ ~pv.infeasible
  /\ Go(t, CASE Unconvertible(th[t].c) -> "refuse"
             [] th[t].d.attached       -> "queue"
             [] OTHER                  -> "prepare")
  /\ UNCHANGED <<pv, class, gce, workers>>

\* The failure of an earlier, requeued conversion is passed on once.
ReportLastError(t) ==
  /\ th[t].step = "report"
  /\ pv' = [pv EXCEPT !.lastErr = FALSE]
  /\ Leave(t)
  /\ UNCHANGED <<class, gce, workers>>

\* UpdateDisk, from ControllerModifyVolume and reconcileProvisionedPerformance.
\* The first checks the type itself, the second leaves that to GCE.
UpdateDisk(t) ==
  /\ th[t].step = "perf"
  /\ IF th[t].c.perf \in {None, th[t].d.perf} \/ th[t].d.type \notin PerfTypes
       THEN UNCHANGED disk
       ELSE disk' = [disk EXCEPT !.perf = th[t].c.perf]
  /\ Leave(t)
  /\ UNCHANGED <<pv, class, attaching, lagging, ops, accepted, workers>>

-----------------------------------------------------------------------------
(***************************************************************************)
(* checkNoConversionInProgress and the calls it admits.                    *)
(***************************************************************************)

\* (Mutant: the check only checks; it restarts no watcher and no goroutine.)
CheckWithoutWatching(t) ==
  /\ th[t].step = "check"
  /\ Step(t, CASE pv.op = None -> Admitted(t)
               [] pv.op = Pending /\ pv.reqID = None -> "outcome"
               [] OTHER -> "idle")
  /\ IF pv.op = Reconciling THEN startConversionReconciliation ELSE UNCHANGED recon
  /\ UNCHANGED <<pv, class, gce, watcher, runners>>

CheckNoConversionInProgress(t) ==
  /\ th[t].step = "check"
  /\ \/ pv.op = None /\ Go(t, Admitted(t)) /\ UNCHANGED workers
     \/ pv.op = Pending /\ pv.reqID = None /\ Go(t, "outcome") /\ UNCHANGED workers
     \/ /\ pv.op = Pending /\ pv.reqID # None
        /\ Leave(t)
        /\ IF th[t].d.attached THEN UNCHANGED runners ELSE spawnRunner
        /\ UNCHANGED <<watcher, recon>>
     \/ pv.op = Reconciling /\ Leave(t) /\ startConversionReconciliation /\ UNCHANGED <<watcher, runners>>
     \/ pv.op \in Ops /\ Leave(t) /\ watchConversion(pv.op, None) /\ UNCHANGED <<recon, runners>>
  /\ UNCHANGED <<pv, class, gce>>

\* (Mutant: the error of ExtractModifyVolumeParameters is dropped.)
QueuedConversionOutcomeUnparsed(t) ==
  /\ th[t].step = "outcome"
  /\ IF class.type \in {None, th[t].d.type} THEN Go(t, "cancel")
     ELSE th' = [th EXCEPT ![t].step = IF Unconvertible(class) THEN "refuse" ELSE "prepare",
                           ![t].c = class]
  /\ UNCHANGED <<pv, class, gce, workers>>

\* queuedConversionOutcome, on the class the claim names now.  A conversion
\* that is still wanted keeps the caller out, or is what the caller runs.
QueuedConversionOutcome(t) ==
  /\ th[t].step = "outcome"
  /\ LET abandoned  == class.type \in {None, th[t].d.type}
         infeasible == class.type = Invalid \/ Unconvertible(class)
     IN  CASE abandoned -> Go(t, "cancel")
           [] ~abandoned /\ infeasible ->
                th' = [th EXCEPT ![t].step = "refuse",
                                 ![t].c = IF class.type = Invalid THEN NoIntent ELSE class]
           [] OTHER ->
                IF th[t].kind = "runner"
                  THEN th' = [th EXCEPT ![t].step = IF th[t].d.attached THEN "users" ELSE "prepare",
                                        ![t].c = class]
                  ELSE Leave(t)
  /\ UNCHANGED <<pv, class, gce, workers>>

\* After an infeasible conversion was withdrawn, the state decides again.
FinalCheck(t) ==
  /\ th[t].step = "final"
  /\ Step(t, IF pv.op = None THEN Admitted(t) ELSE "idle")
  /\ UNCHANGED <<pv, class, gce, workers>>

\* DeleteVolume, ControllerExpandVolume and CreateSnapshot take the volume
\* lock exclusively.  Only CreateSnapshot insists on reading the disk.
GatedCall(k) ==
  /\ TryAcquire
  /\ disk.type # None
  /\ \E d \in IF k = "snapshot" THEN {GetDisk} ELSE {GetDisk, NoDisk} :
       th' = [th EXCEPT ![Excl] = [NoThread EXCEPT !.kind = k, !.step = "check", !.d = d]]
  /\ UNCHANGED <<pv, class, gce, workers>>

ActOnDisk(t) ==
  /\ th[t].step = "act"
  /\ th[t].kind # "delete"
  /\ Leave(t)
  /\ UNCHANGED <<pv, class, gce, workers>>

\* DeleteVolume stops the watcher before it deletes; GCE refuses to delete a
\* disk in use.
DeleteDisk(t) ==
  /\ th[t].step = "act"
  /\ th[t].kind = "delete"
  /\ watcher' = NoWatcher
  /\ \/ UNCHANGED disk
     \/ disk.users \cup attaching = {} /\ disk' = [disk EXCEPT !.type = None]
  /\ Leave(t)
  /\ UNCHANGED <<pv, class, attaching, lagging, ops, accepted, recon, runners>>

-----------------------------------------------------------------------------
(***************************************************************************)
(* ControllerPublishVolume and ControllerUnpublishVolume.  Whether a disk  *)
(* is attached to an instance is read from the instance, which does not    *)
(* lag behind as the users of the disk do.                                 *)
(***************************************************************************)

AttachedTo(n) == n \in disk.users \ lagging

\* A disk that is attached already is published without any check.
PublishVolume(n) ==
  /\ TryAcquireShared(n)
  /\ disk.type # None
  /\ ~AttachedTo(n)
  /\ th' = [th EXCEPT ![n] = [NoThread EXCEPT !.kind = "publish", !.step = "check", !.d = GetDisk]]
  /\ UNCHANGED <<pv, class, gce, workers>>

AttachDisk(n) ==
  /\ th[n].step = "attach"
  /\ attaching' = attaching \cup {n}
  /\ Go(n, "wait") \/ Leave(n)
  /\ UNCHANGED <<pv, class, disk, lagging, ops, accepted, workers>>

WaitForAttach(n) ==
  /\ th[n].step = "wait"
  /\ n \notin attaching
  /\ Leave(n)
  /\ UNCHANGED <<pv, class, gce, workers>>

UnpublishVolume(n) ==
  /\ TryAcquireShared(n)
  /\ AttachedTo(n)
  /\ th' = [th EXCEPT ![n] = [NoThread EXCEPT !.kind = "unpublish", !.step = "detach"]]
  /\ UNCHANGED <<pv, class, gce, workers>>

DetachDisk(n) ==
  /\ th[n].step = "detach"
  /\ lagging' = lagging \cup {n}
  /\ Go(n, "hook") \/ Leave(n)
  /\ UNCHANGED <<pv, class, disk, attaching, ops, accepted, workers>>

StartQueuedConversionOnDetach(n) ==
  /\ th[n].step = "hook"
  /\ IF pv.op = Pending THEN spawnRunner ELSE UNCHANGED runners
  /\ IF pv.op = Reconciling THEN startConversionReconciliation ELSE UNCHANGED recon
  /\ Leave(n)
  /\ UNCHANGED <<pv, class, gce, watcher>>

-----------------------------------------------------------------------------
(***************************************************************************)
(* runQueuedConversion.                                                    *)
(***************************************************************************)

\* The state may have moved on while the goroutine waited for the lock.
RunQueuedConversion ==
  /\ runners > 0
  /\ TryAcquire
  /\ runners' = runners - 1
  /\ IF pv.op = Pending /\ disk.type # None
       THEN th' = [th EXCEPT ![Excl] = [NoThread EXCEPT !.kind = "runner", !.step = "recover",
                                                        !.d = GetDisk]]
       ELSE UNCHANGED th
  /\ UNCHANGED <<pv, class, gce, watcher, recon>>

\* A request that GCE may have accepted is replayed before anything else.
RecoverRequest(t) ==
  /\ th[t].step = "recover"
  /\ CASE pv.reqID = None -> Go(t, "outcome")
       [] pv.reqID # None /\ ~th[t].d.attached /\ pv.target # None ->
            th' = [th EXCEPT ![t].step = "prepare", ![t].c = [type |-> pv.target, perf |-> None]]
       [] OTHER -> Leave(t)
  /\ UNCHANGED <<pv, class, gce, workers>>

\* The disk is read again until the detach is visible, or for ten seconds; the
\* type stays the one that was read first.
WaitForDetachVisible(t) ==
  /\ th[t].step = "users"
  /\ \/ disk.users = {} /\ th' = [th EXCEPT ![t].step = "prepare", ![t].d.attached = FALSE]
     \/ disk.users # {} /\ Leave(t)
  /\ UNCHANGED <<pv, class, gce, workers>>

-----------------------------------------------------------------------------
(***************************************************************************)
(* The watcher of a running operation, and the reconciliation that follows *)
(* a completed one.                                                        *)
(***************************************************************************)

\* pollConversion saw the end of its operation and got the volume lock.
PollConversion ==
  /\ watcher # NoWatcher
  /\ Finished(watcher.o)
  /\ TryAcquire
  /\ th' = [th EXCEPT ![Excl] = [NoThread EXCEPT !.kind = "watcher", !.step = "ensure",
                                                 !.o = watcher.o, !.r = watcher.r]]
  /\ UNCHANGED <<pv, class, gce, workers>>

\* unregisterConversionWatcher: only the registered watcher goes.
Unregister(t) ==
  watcher' = IF watcher = [o |-> th[t].o, r |-> th[t].r] THEN NoWatcher ELSE watcher

EnsureWatchedOperationRecorded(t) ==
  /\ th[t].step = "ensure"
  /\ LET mine == pv.op = Pending /\ th[t].r # None /\ pv.reqID = th[t].r
     IN  CASE pv.op = th[t].o -> Go(t, "finish") /\ UNCHANGED <<pv, watcher>>
           [] mine            -> /\ Write(t, OperationRestored(pv, th[t].o), "finish", "idle")
                                 /\ UNCHANGED watcher
           [] OTHER           -> Leave(t) /\ Unregister(t) /\ UNCHANGED pv
  /\ UNCHANGED <<class, gce, recon, runners>>

\* A failed operation: what it leaves on the volume depends on whether the
\* failure can clear.  A watcher that could not write keeps polling.
FinishFailedWatchedConversion(t) ==
  /\ th[t].step = "finish"
  /\ ops[th[t].o].st # "done"
  /\ pv' = IF pv.op # th[t].o THEN pv
           ELSE IF ops[th[t].o].st = "terminal" THEN Failed(pv) ELSE Requeued(pv)
  /\ Unregister(t) \/ UNCHANGED watcher
  /\ Leave(t)
  /\ UNCHANGED <<class, gce, recon, runners>>

\* A completed one: recordCompletedConversion stops the watcher, whose
\* goroutine goes on to the reconciliation with the lock held.
FinishWatchedConversion(t) ==
  /\ th[t].step = "finish"
  /\ ops[th[t].o].st = "done"
  /\ disk.type # None
  /\ pv' = IF pv.op = th[t].o THEN Completed(pv, th[t].o, disk.type) ELSE pv
  /\ \/ /\ watcher' = IF pv.op = th[t].o THEN NoWatcher ELSE watcher
        /\ th' = [th EXCEPT ![t].step = "clear", ![t].d = GetDisk]
     \/ UNCHANGED watcher /\ Leave(t)
  /\ UNCHANGED <<class, gce, recon, runners>>

\* startConversionReconciliation, for a volume found in Reconciling.
ReconciliationWorker ==
  /\ recon = "waiting"
  /\ TryAcquire
  /\ recon' = "running"
  /\ IF pv.op = Reconciling
       THEN th' = [th EXCEPT ![Excl] = [NoThread EXCEPT !.kind = "reconcile", !.step = "identify"]]
       ELSE UNCHANGED th
  /\ UNCHANGED <<pv, class, gce, watcher, runners>>

\* A marker written before reconciliation IDs existed gets one first.
IdentifyReconciliation(t) ==
  /\ th[t].step = "identify"
  /\ disk.type # None
  /\ CASE pv.reconID # None ->
            /\ th' = [th EXCEPT ![t].step = "clear", ![t].d = GetDisk, ![t].o = pv.reconID]
            /\ UNCHANGED pv
       [] pv.reconID = None /\ pv.to # None ->
            Write(t, [pv EXCEPT !.reconID = Uuid], "identify", "idle")
       [] OTHER -> Leave(t) /\ UNCHANGED pv
  /\ UNCHANGED <<class, gce, workers>>

\* finishConversionReconciliation removes the marker first: a failure to do
\* so leaves the volume blocked, what comes after it does not.
ClearConversionReconciliation(t) ==
  /\ th[t].step = "clear"
  /\ CASE pv.op # Reconciling \/ pv.reconID # th[t].o -> Go(t, "latest") /\ UNCHANGED pv
       [] /\ pv.op = Reconciling /\ pv.reconID = th[t].o
          /\ pv.to = th[t].d.type /\ pv.reqID = None /\ pv.perf = None /\ pv.target = None ->
            Write(t, Reconciled(pv), "latest", "idle")
       [] OTHER -> Leave(t) /\ UNCHANGED pv
  /\ UNCHANGED <<class, gce, workers>>

\* reconcileLatestVACAfterConversion, on the disk read before the marker was
\* removed and the class the claim names now.
LatestStep(t) ==
  LET wanted == class.type \notin {None, Invalid, th[t].d.type}
  IN  CASE class.type \in {None, th[t].d.type}                            -> "perf"
        [] class.type = Invalid \/ (wanted /\ Unconvertible(class))       -> "refuse"
        [] wanted /\ ~Unconvertible(class) /\ th[t].d.attached            -> "queue"
        [] OTHER                                                          -> "prepare"

ReconcileLatestVACAfterConversion(t) ==
  /\ th[t].step = "latest"
  /\ th' = [th EXCEPT ![t].step = LatestStep(t),
                      ![t].c = IF class.type = Invalid THEN NoIntent ELSE class,
                      ![t].o = None, ![t].r = None]
  /\ UNCHANGED <<pv, class, gce, workers>>

\* The goroutine frees the volume lock before its registration.
ReconciliationWorkerExits ==
  /\ recon = "running"
  /\ th[Excl].kind # "reconcile"
  /\ recon' = "none"
  /\ UNCHANGED <<pv, class, gce, th, watcher, runners>>

-----------------------------------------------------------------------------
(***************************************************************************)
(* The environment: GCE, the user and crashes.                             *)
(***************************************************************************)

AttachOperationEnds(n) ==
  /\ n \in attaching
  /\ attaching' = attaching \ {n}
  /\ \/ disk' = [disk EXCEPT !.users = @ \cup {n}] /\ lagging' = lagging \ {n}
     \/ UNCHANGED <<disk, lagging>>
  /\ UNCHANGED <<pv, class, ops, accepted, th, workers>>

UsersCatchUp(n) ==
  /\ n \in lagging
  /\ lagging' = lagging \ {n}
  /\ disk' = [disk EXCEPT !.users = @ \ {n}]
  /\ UNCHANGED <<pv, class, attaching, ops, accepted, th, workers>>

\* The disk can report its new type before the operation is done.
ConversionSwitchesType(o) ==
  /\ ops[o].st = "running"
  /\ ops[o].i \notin Doomed
  /\ ops' = [ops EXCEPT ![o].st = "switched"]
  /\ disk' = [disk EXCEPT !.type = ops[o].i.type, !.perf = ops[o].i.perf]
  /\ UNCHANGED <<pv, class, attaching, lagging, accepted, th, workers>>

ConversionEnds(o) ==
  /\ InProgress(o)
  /\ \E st \in IF ops[o].st = "switched" THEN {"done"}
               ELSE IF ops[o].i \in Doomed THEN {"retriable", "terminal"} ELSE {"retriable"} :
        ops' = [ops EXCEPT ![o].st = st]
  /\ UNCHANGED <<pv, class, disk, attaching, lagging, accepted, th, workers>>

SetClass(c) ==
  /\ class' = c
  /\ UNCHANGED <<pv, gce, th, workers>>

\* A crash, or the shutdown that StopConversionWorkers is part of.
Crash ==
  /\ th' = [t \in Threads |-> NoThread]
  /\ watcher' = NoWatcher
  /\ recon' = "none"
  /\ runners' = 0
  /\ UNCHANGED <<pv, class, gce>>

-----------------------------------------------------------------------------

\* A volume no conversion has touched, or one an older driver left with a
\* marker that has no ID.
Init ==
  /\ disk \in {[type |-> ty, perf |-> None, users |-> {}] : ty \in Types}
  /\ pv \in {NoAnnotations,
             [NoAnnotations EXCEPT !.op = Reconciling, !.to = disk.type]}
  /\ class \in Classes
  /\ attaching = {} /\ lagging = {}
  /\ ops = [o \in Ops |-> NoOperation]
  /\ accepted = [r \in Reqs |-> None]
  /\ th = [t \in Threads |-> NoThread]
  /\ watcher = NoWatcher /\ recon = "none" /\ runners = 0

\* Steps of the holder of the exclusive lock.
ExclusiveStep(t) ==
  \/ FollowRecorded(t) \/ PrepareRequest(t)
  \/ ConvertReplayed(t) \/ ConvertAccepted(t) \/ ConvertRejected(t)
  \/ ClearRejectedConversionRequest(t) \/ RecordOperation(t)
  \/ MarkConversionPending(t)
  \/ ModifyWithoutType(t) \/ ModifyToOtherType(t) \/ CompleteConversionIfInProgress(t)
  \/ AnswerFromRecord(t) \/ ClearOtherRecord(t) \/ ConvertDiskType(t)
  \/ ReportLastError(t) \/ UpdateDisk(t)
  \/ ActOnDisk(t) \/ DeleteDisk(t)
  \/ RecoverRequest(t) \/ WaitForDetachVisible(t)
  \/ EnsureWatchedOperationRecorded(t)
  \/ FinishFailedWatchedConversion(t) \/ FinishWatchedConversion(t)
  \/ IdentifyReconciliation(t) \/ ClearConversionReconciliation(t)
  \/ ReconcileLatestVACAfterConversion(t)

\* Steps that a publish shares with the calls that hold the lock exclusively.
SharedStep(t) ==
  \/ CheckNoConversionInProgress(t) \/ QueuedConversionOutcome(t)
  \/ CancelQueuedConversion(t) \/ RecordInfeasibleConversion(t) \/ NoteInfeasible(t)
  \/ FinalCheck(t)

NodeStep(n) ==
  \/ AttachDisk(n) \/ WaitForAttach(n) \/ DetachDisk(n) \/ StartQueuedConversionOnDetach(n)

Calls ==
  \/ \E c \in Classes : c.type # Invalid /\ ModifyVolume(c)
  \/ \E k \in {"delete", "expand", "snapshot"} : GatedCall(k)
  \/ \E n \in Nodes : PublishVolume(n) \/ UnpublishVolume(n)

Background ==
  \/ RunQueuedConversion \/ PollConversion \/ ReconciliationWorker \/ ReconciliationWorkerExits

Cloud ==
  \/ \E n \in Nodes : AttachOperationEnds(n) \/ UsersCatchUp(n)
  \/ \E o \in Ops : ConversionSwitchesType(o) \/ ConversionEnds(o)

Next ==
  \/ Calls
  \/ ExclusiveStep(Excl)
  \/ \E t \in Threads : SharedStep(t) \/ ApiError(t)
  \/ \E n \in Nodes : NodeStep(n)
  \/ Background
  \/ Cloud
  \/ \E c \in Classes : SetClass(c)
  \/ Crash

Spec == Init /\ [][Next]_vars

-----------------------------------------------------------------------------

(***************************************************************************)
(* Type correctness.  In particular a class that does not parse never      *)
(* becomes an intent, and the registered watcher follows an operation      *)
(* (ExtractModifyVolumeParameters, conversionWatcher).                     *)
(***************************************************************************)
TypeOK ==
  /\ pv \in Annotations
  /\ class \in Classes
  /\ disk \in [type : Types \cup {None}, perf : Perfs \cup {None}, users : SUBSET Nodes]
  /\ attaching \subseteq Nodes /\ lagging \subseteq disk.users
  /\ ops \in [Ops -> Operation]
  /\ accepted \in [Reqs -> Ops \cup {None}]
  /\ th \in [Threads -> Thread]
  /\ watcher \in [o : Ops, r : Reqs \cup {None}] \cup {NoWatcher}
  /\ recon \in {"none", "waiting", "running"}
  /\ runners \in 0..MaxRunners

(***************************************************************************)
(* A disk is never attached, or being attached, while GCE converts it.     *)
(* GCE is not assumed to refuse the attach: what keeps the two apart is    *)
(* checkNoConversionInProgress, the volume locks and the state on the PV,  *)
(* across lost responses, crashes and late attach operations.              *)
(***************************************************************************)
NeverAttachedWhileConverting == Converting => disk.users = {} /\ attaching = {}

(***************************************************************************)
(* No call that the conversion has to keep out - snapshot, expand, delete, *)
(* attach, a performance update - is past its checks while GCE converts    *)
(* the disk.                                                               *)
(***************************************************************************)
NoUseWhileConverting ==
  Converting => \A t \in Threads : th[t].step \notin {"act", "attach", "perf"}

(***************************************************************************)
(* The PV always leads to the running operation: its self link is          *)
(* recorded, or the request ID that makes GCE return it is.  "The PV is    *)
(* the durable source of truth" (startDiskTypeConversion).                 *)
(***************************************************************************)
RunningConversionIsRecorded ==
  \A o \in Ops : InProgress(o) =>
    \/ pv.op = o
    \/ pv.op = Pending /\ pv.reqID # None /\ accepted[pv.reqID] = o

(***************************************************************************)
(* The request on the PV is the request GCE works on: its target and       *)
(* performance values, and as its source the type the disk had before.     *)
(* Replays, failure records and the converted-from record rely on it.      *)
(***************************************************************************)
RecordedRequestIsTheOneSent ==
  \A o \in Ops :
     (pv.op = o \/ (pv.reqID # None /\ accepted[pv.reqID] = o)) =>
        /\ ops[o].i = [type |-> pv.target, perf |-> pv.perf]
        /\ ops[o].from = pv.source

(***************************************************************************)
(* A failure is on record for a request only if that very request can      *)
(* never succeed: the driver or GCE rules it out.  Otherwise retries that  *)
(* would convert the disk are answered from the record (convertDiskType).  *)
(***************************************************************************)
OnlyInfeasibleRequestsAreOnRecord ==
  pv.infeasible /\ pv.intent # NoIntent =>
    pv.intent \in Rejected \cup Doomed \/ Unconvertible(pv.intent)

(***************************************************************************)
(* A recorded operation leaves the PV only once GCE has finished it, so no *)
(* stale worker, retry or newer class releases a volume that is being      *)
(* converted (recordCompletedConversion, recordFailedConversion).          *)
(***************************************************************************)
OperationKeptUntilFinished ==
  [][pv.op \in Ops /\ pv'.op # pv.op => Finished(pv.op)]_vars

(***************************************************************************)
(* converted-to and converted-from are written once per conversion that    *)
(* GCE completed, and say what it did; a queued, cancelled or failed one   *)
(* leaves them alone.                                                      *)
(***************************************************************************)
ConvertedRecordsAreTrue ==
  [][pv'.to # pv.to \/ pv'.from # pv.from =>
       /\ pv.op \in Ops
       /\ ops[pv.op].st = "done"
       /\ pv'.to = ops[pv.op].i.type
       /\ pv'.from = ops[pv.op].from]_vars

(***************************************************************************)
(* constants.go:106-107: "Keep post-conversion reconciliation identifiable *)
(* until its latest VAC work succeeds, so the volume stays blocked in the  *)
(* meantime."  finishConversionReconciliation clears the marker first.     *)
(***************************************************************************)
BlockedUntilLatestClassApplied ==
  [][pv.op = Reconciling /\ pv'.op = None => class.type \in {None, disk.type}]_vars

(***************************************************************************)
(* controller.go:2095: "A conversion that has already finished does not    *)
(* block anything."  checkNoConversionInProgress starts a watcher and      *)
(* refuses the call.                                                       *)
(***************************************************************************)
FinishedConversionBlocksNothing ==
  [][\A t \in Threads :
       CheckNoConversionInProgress(t) /\ pv.op \in Ops /\ ops[pv.op].st = "done"
         => th'[t].step = Admitted(t)]_vars
=============================================================================
