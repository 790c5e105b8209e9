----------------------- MODULE ConversionAnnotations -----------------------
(***************************************************************************)
(* The state of a disk type conversion that survives the driver: the       *)
(* annotations on the PersistentVolume (pkg/constants/constants.go:88-129) *)
(* and, as functions from annotations to annotations, every update the     *)
(* driver makes to them.  Each update of controller.go is one conditional, *)
(* resource-version-checked write (k8sclient.UpdatePVAnnotations), so each *)
(* is one step of the modules that use it.                                 *)
(*                                                                         *)
(* An intent is what GCE judges a conversion on: the target type and the   *)
(* provisioned performance.  IOPS and throughput are always read, written  *)
(* and compared together, so they are one value here.  A VolumeAttributes- *)
(* Class is the intent it asks for; a claim without a class asks for what  *)
(* a class without parameters asks for, which is nothing.                  *)
(***************************************************************************)

CONSTANTS Types,        \* disk types
          PerfTypes,    \* those that take provisioned IOPS or throughput
          Perfs,        \* provisioned performance values
          Ops,          \* self links of GCE conversion operations
          Reqs,         \* GCE request IDs (uuid.NewUUID)
          None,         \* an annotation that is not set, a value not given
          Pending,      \* constants.ConversionStatePending
          Reconciling,  \* constants.ConversionStateReconciling
          Uuid,         \* a reconciliation ID that is not an operation
          Invalid       \* the type of a class whose parameters do not parse

ASSUME ConstantsAssumption ==
  /\ PerfTypes \subseteq Types
  /\ None \notin Types \cup Perfs \cup Ops \cup Reqs \cup {Pending, Reconciling, Uuid, Invalid}
  /\ Pending \notin Ops /\ Reconciling \notin Ops /\ Uuid \notin Ops
  /\ Pending # Reconciling
  /\ Invalid \notin Types

Intent    == [type : Types \cup {None}, perf : Perfs \cup {None}]
NoIntent  == [type |-> None, perf |-> None]
Class     == [type : Types \cup {None, Invalid}, perf : Perfs \cup {None}]

Annotations ==
  [op         : Ops \cup {None, Pending, Reconciling},
   reqID      : Reqs \cup {None},
   target     : Types \cup {None},
   perf       : Perfs \cup {None},
   source     : Types \cup {None},
   reconID    : Ops \cup {None, Uuid},
   to         : Types \cup {None},
   from       : Types \cup {None},
   infeasible : BOOLEAN,
   intent     : Intent,
   lastErr    : BOOLEAN]

NoAnnotations ==
  [op |-> None, reqID |-> None, target |-> None, perf |-> None, source |-> None,
   reconID |-> None, to |-> None, from |-> None,
   infeasible |-> FALSE, intent |-> NoIntent, lastErr |-> FALSE]

-----------------------------------------------------------------------------
\* The writes.  a stands for the annotations as they are before the write.

\* markConversionPending: queue a conversion to type.
Queued(a, type) ==
  [a EXCEPT !.op = Pending, !.target = type, !.reconID = None]

\* startDiskTypeConversion, before GCE is called: the request with its ID.
Prepared(a, id, i, src) ==
  [a EXCEPT !.op = Pending, !.reqID = id, !.target = i.type, !.perf = i.perf,
            !.source = src, !.reconID = None]

\* startDiskTypeConversion, after GCE accepted the request as operation o.
Started(a, o) ==
  [a EXCEPT !.op = o, !.reqID = None, !.reconID = None,
            !.infeasible = FALSE, !.intent = NoIntent]

\* clearRejectedConversionRequest: the request will not be replayed.
RequestForgotten(a) ==
  [a EXCEPT !.reqID = None, !.perf = None, !.source = None]

\* ensureWatchedOperationRecorded: what Started could not write.
OperationRestored(a, o) == [a EXCEPT !.op = o, !.reqID = None, !.reconID = None]

\* requeueFailedConversion: wait for another conversion.
Requeued(a) ==
  [a EXCEPT !.op = Pending, !.lastErr = TRUE, !.source = None, !.reqID = None,
            !.perf = None, !.reconID = None]

\* (Mutant: the record of the failure forgets the performance values.)
FailedTypeOnly(a) ==
  [a EXCEPT !.op = None, !.reqID = None, !.perf = None, !.source = None,
            !.target = None, !.reconID = None, !.infeasible = @ \/ a.target # None,
            !.intent = IF a.target # None THEN [type |-> a.target, perf |-> None] ELSE @]

\* recordFailedConversion: release the volume; the failure stays on record
\* under the request that produced it, when that request is known.
Failed(a) ==
  [a EXCEPT !.op = None, !.reqID = None, !.perf = None, !.source = None,
            !.target = None, !.reconID = None,
            !.infeasible = @ \/ a.target # None,
            !.intent = IF a.target # None THEN [type |-> a.target, perf |-> a.perf] ELSE @]

\* recordCompletedConversion: the disk has its new type, the class of the
\* claim is still to be looked at.
Completed(a, o, type) ==
  [a EXCEPT !.op = Reconciling, !.reconID = o, !.to = type,
            !.from = IF a.source # None THEN a.source ELSE @,
            !.reqID = None, !.perf = None, !.source = None, !.target = None,
            !.lastErr = FALSE]

\* clearConversionReconciliation.
Reconciled(a) == [a EXCEPT !.op = None, !.reconID = None]

\* cancelQueuedConversion.
Cancelled(a) ==
  [a EXCEPT !.op = None, !.reqID = None, !.perf = None, !.source = None,
            !.target = None, !.reconID = None, !.lastErr = FALSE]

\* recordInfeasibleConversion, its last write.
Refused(a, i) == [a EXCEPT !.infeasible = TRUE, !.intent = i]

\* convertDiskType: a different request is tried afresh.
RefusalCleared(a) == [a EXCEPT !.infeasible = FALSE, !.intent = NoIntent]
=============================================================================
