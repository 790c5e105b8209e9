------------------------- MODULE ConversionLiveness -------------------------
(***************************************************************************)
(* What a conversion leads to: DiskTypeConversion with the fairness of its *)
(* environment.  Crashes, failed calls, operations that fail and changes   *)
(* of the class are faults here, of which there are finitely many.         *)
(***************************************************************************)
EXTENDS DiskTypeConversion

CONSTANT MaxFaults
ASSUME MaxFaultsAssumption == MaxFaults \in Nat

VARIABLE faults   \* faults still to come

liveVars == <<vars, faults>>

AttachSucceeds(n) == AttachOperationEnds(n) /\ n \in disk'.users \ lagging'
AttachFails(n)    == AttachOperationEnds(n) /\ UNCHANGED <<disk, lagging>>
ConversionDone(o)  == ConversionEnds(o) /\ ops'[o].st = "done"
ConversionFails(o) == ConversionEnds(o) /\ ops'[o].st # "done"

\* GCE does not convert a disk in use; the request stays on the PV for later.
ConvertRefusedForNow(t) ==
  /\ th[t].step = "call"
  /\ accepted[th[t].r] = None
  /\ th[t].c \notin Rejected
  /\ disk.users # {} \/ attaching # {} \/ Converting
  /\ ApiError(t)

Fault ==
  \/ Crash
  \/ \E t \in Threads : ApiError(t)
  \/ \E n \in Nodes : AttachFails(n)
  \/ \E o \in Ops : ConversionFails(o)
  \/ \E c \in Classes : SetClass(c)

\* The sidecars of a volume that stays: the external-resizer and the
\* external-attacher.
Sidecars ==
  \/ class.type # Invalid /\ ModifyVolume(class)
  \/ \E n \in Nodes : PublishVolume(n) \/ UnpublishVolume(n)

Steady ==
  \/ Sidecars
  \/ ExclusiveStep(Excl) \/ ConvertRefusedForNow(Excl)
  \/ \E t \in Threads : SharedStep(t)
  \/ \E n \in Nodes : NodeStep(n)
  \/ Background
  \/ \E n \in Nodes : AttachSucceeds(n) \/ UsersCatchUp(n)
  \/ \E o \in Ops : ConversionSwitchesType(o) \/ ConversionDone(o)

LiveInit == Init /\ faults = MaxFaults

LiveNext ==
  \/ Steady /\ UNCHANGED faults
  \/ faults > 0 /\ Fault /\ faults' = faults - 1

\* A call that has started goes on, and GCE finishes what it started.
CallsGoOn ==
  /\ WF_liveVars((ExclusiveStep(Excl) \/ ConvertRefusedForNow(Excl) \/ SharedStep(Excl)) /\ UNCHANGED faults)
  /\ \A n \in Nodes : WF_liveVars((NodeStep(n) \/ SharedStep(n)) /\ UNCHANGED faults)
  /\ WF_liveVars(ReconciliationWorkerExits /\ UNCHANGED faults)
CloudGoesOn ==
  /\ WF_liveVars((\E n \in Nodes : AttachSucceeds(n) \/ UsersCatchUp(n)) /\ UNCHANGED faults)
  /\ WF_liveVars((\E o \in Ops : ConversionSwitchesType(o) \/ ConversionDone(o)) /\ UNCHANGED faults)

\* The response to the write of a request is not lost every time.
RequestsGetThrough ==
  SF_liveVars(PrepareRequest(Excl) /\ th'[Excl].step = "call" /\ UNCHANGED faults)

\* The sidecars retry, and nobody who keeps trying misses the lock for ever.
SidecarsRetry ==
  /\ SF_liveVars(class.type # Invalid /\ ModifyVolume(class) /\ UNCHANGED faults)
  /\ \A n \in Nodes : SF_liveVars(PublishVolume(n) /\ UNCHANGED faults)
WorkersGetTheLock ==
  /\ SF_liveVars(RunQueuedConversion /\ UNCHANGED faults)
  /\ SF_liveVars(PollConversion /\ UNCHANGED faults)
  /\ SF_liveVars(ReconciliationWorker /\ UNCHANGED faults)

LiveSpec ==
  /\ LiveInit /\ [][LiveNext]_liveVars
  /\ CallsGoOn /\ CloudGoesOn /\ RequestsGetThrough /\ SidecarsRetry /\ WorkersGetTheLock

-----------------------------------------------------------------------------

(***************************************************************************)
(* No crash, failed call or change of mind leaves a volume unattachable    *)
(* for good: a publish that is retried succeeds in the end                 *)
(* (checkNoConversionInProgress).                                          *)
(***************************************************************************)
VolumeIsAttachedInTheEnd ==
  \A n \in Nodes : []<>AttachedTo(n)
=============================================================================
