------------------------------ MODULE Expansion ------------------------------
(***************************************************************************)
(* Growing a volume, from the claim to the file system, beside changes of  *)
(* its provisioned performance.                                            *)
(*                                                                         *)
(* The external resizer calls ControllerExpandVolume until it succeeds and *)
(* ControllerModifyVolume for a changed class; both take the volume lock.  *)
(* The kubelet then calls NodeExpandVolume.  A call that fails or times    *)
(* out is made again, while the operation it started goes on in GCE.       *)
(* Performance is one number: the IOPS of the types whose minimum is one   *)
(* of IOPS, the throughput of the others.                                  *)
(***************************************************************************)
EXTENDS Integers, FiniteSets

CONSTANTS DiskTypes,
          GiB,           \* the bytes of a GB, scaled down
          FirstSize,     \* the size of the new disk, in GB
          FirstPerf,     \* and the performance it may have
          Requests,      \* the sizes in bytes that the claim may ask for
          Classes,       \* the performance that a class may ask for
          LateGuest,     \* may the guest learn of a size after the operation is done?
          ModifyMayFail, \* may an accepted change of performance fail?
          MaxFaults

ASSUME Scale == /\ GiB \in Nat \ {0} /\ FirstSize \in Nat /\ FirstPerf \subseteq Nat
                /\ Requests \subseteq Nat /\ Classes \subseteq Nat \ {0}

VARIABLES disk,      \* its type, size in GB and performance, as GCE has them
          op,        \* the operation GCE is running, or NoOp
          failed,    \* did the last operation fail?
          cooling,   \* GCE accepts no change of performance for a while
          owner,     \* who holds the volume lock
          e,         \* ControllerExpandVolume
          m,         \* ControllerModifyVolume
          need,      \* the bytes the claim asks for
          capacity,  \* the bytes of the PersistentVolume
          class,     \* the performance the claim's class asks for, or 0
          told,      \* the performance the driver has said the disk has, or 0
          device,    \* the size in GB that the guest sees
          fs,        \* the size in GB of the file system
          n,         \* NodeExpandVolume
          usable,    \* the bytes that NodeExpandVolume has said are usable
          faults
gce == <<disk, op, failed, cooling, device>>
claim == <<need, capacity, class, told>>
node == <<fs, n, usable>>
vars == <<gce, owner, e, m, claim, node, faults>>

NoOp == [by |-> "no one", size |-> 0, perf |-> 0]
Idle == [pc |-> "idle", bytes |-> 0, perf |-> 0]
Fault == faults < MaxFaults /\ faults' = faults + 1
Works == UNCHANGED faults

(***************************************************************************)
(* Sizes and minimums.                                                     *)
(***************************************************************************)
MinimumVolumeSizeInBytes == GiB
BytesToGbRoundUp(bytes) == bytes \div GiB + (IF bytes % GiB # 0 THEN 1 ELSE 0)
GbToBytes(gb) == gb * GiB
\* Only the required bytes: the resizer sets no limit.
getRequestCapacity(required) ==
  IF required < MinimumVolumeSizeInBytes THEN MinimumVolumeSizeInBytes ELSE required

Least(a, b) == IF a < b THEN a ELSE b
MinPerf(type, gb) ==
  CASE type = "hyperdisk-balanced"   -> Least(500 * gb, 3000)
    [] type = "hyperdisk-extreme"    -> 2 * gb
    [] type = "hyperdisk-ml"         -> (12 * gb) \div 100
    [] type = "hyperdisk-throughput" -> (10 * gb) \div 1024
    [] OTHER                         -> 0
\* Mutant: the minimum is set even where the disk has more.
GetMinimumAlways(d, gb) == MinPerf(d.type, gb)
\* Mutant: the minimum of the size that the disk has.
GetMinimumOfOldSize(d, gb) == IF d.perf < MinPerf(d.type, d.size) THEN MinPerf(d.type, d.size) ELSE 0
\* 0 stands for no update.
GetMinIopsThroughput(d, gb) == IF d.perf < MinPerf(d.type, gb) THEN MinPerf(d.type, gb) ELSE 0

\* What GCE demands of a disk, up to the rounding of throughput.
Provisionable(type, perf, gb) ==
  CASE type = "hyperdisk-balanced"   -> perf >= 3000 \/ perf >= 500 * gb
    [] type = "hyperdisk-extreme"    -> perf >= 2 * gb
    [] type = "hyperdisk-ml"         -> 100 * (perf + 1) > 12 * gb
    [] type = "hyperdisk-throughput" -> 1024 * (perf + 1) > 10 * gb
    [] OTHER                         -> TRUE

Init ==
  /\ disk \in [type : DiskTypes, size : {FirstSize}, perf : FirstPerf]
  /\ Provisionable(disk.type, disk.perf, disk.size)
  /\ op = NoOp /\ failed = FALSE /\ cooling = FALSE /\ owner = "no one"
  /\ e = Idle /\ m = Idle /\ n = Idle
  /\ need = GbToBytes(FirstSize) /\ capacity = need /\ usable = need
  /\ class = 0 /\ told = 0
  /\ device = FirstSize /\ fs = FirstSize /\ faults = 0

(***************************************************************************)
(* GCE: one operation on a disk at a time.                                 *)
(***************************************************************************)
Accepts(o) ==
  /\ op = NoOp
  /\ o.size # 0 => o.size > disk.size
  /\ o.perf # 0 => ~cooling
  /\ Provisionable(disk.type, IF o.perf = 0 THEN disk.perf ELSE o.perf,
                              IF o.size = 0 THEN disk.size ELSE o.size)
Finish ==
  /\ op # NoOp /\ op' = NoOp
  /\ \/ /\ disk' = [disk EXCEPT !.size = IF op.size = 0 THEN @ ELSE op.size,
                                !.perf = IF op.perf = 0 THEN @ ELSE op.perf]
        /\ cooling' = (cooling \/ op.perf # 0) /\ failed' = FALSE
        /\ device' = IF LateGuest THEN device ELSE disk'.size
        /\ Works
     \/ /\ (op.by = "modify" => ModifyMayFail) /\ Fault /\ failed' = TRUE
        /\ UNCHANGED <<disk, cooling, device>>
  /\ UNCHANGED <<owner, e, m, claim, node>>
\* The cooldown takes hours, a handler minutes: none ends between a read and the
\* request made from it.
CoolDown == cooling /\ e.pc # "send" /\ cooling' = FALSE
            /\ UNCHANGED <<disk, op, failed, device, owner, e, m, claim, node, faults>>
GuestSees == device # disk.size /\ device' = disk.size
             /\ UNCHANGED <<disk, op, failed, cooling, owner, e, m, claim, node, faults>>

(***************************************************************************)
(* ControllerExpandVolume.  Whether a conversion is in progress is checked *)
(* after the lock is taken; see DiskTypeConversion.                        *)
(***************************************************************************)
ExpandFails == e' = Idle /\ owner' = "no one" /\ UNCHANGED claim
ExpandSucceeds(gb) ==
  /\ e' = Idle /\ owner' = "no one"
  /\ capacity' = GbToBytes(gb) /\ UNCHANGED <<need, class, told>>

ControllerExpandVolume ==
  /\ e = Idle /\ capacity < need
  /\ owner = "no one" /\ owner' = "expand"
  /\ e' = [pc |-> "size", bytes |-> getRequestCapacity(need), perf |-> 0]
  /\ UNCHANGED <<gce, m, claim, node, faults>>

\* A disk that is large enough is left alone: this is how a retry finds what an
\* operation did that it did not wait for.
ResizeDisk ==
  /\ e.pc = "size"
  /\ \/ Fault /\ ExpandFails
     \/ Works /\ disk.size >= BytesToGbRoundUp(e.bytes) /\ ExpandSucceeds(disk.size)
     \/ /\ Works /\ disk.size < BytesToGbRoundUp(e.bytes)
        /\ e' = [e EXCEPT !.pc = "perf"] /\ UNCHANGED <<owner, claim>>
  /\ UNCHANGED <<gce, m, node>>

\* resizeZonalDisk and resizeRegionalDisk: the disk is read a second time for the
\* minimum, then grown and, when needed, given it in the same request.
ReadPerformance ==
  /\ e.pc = "perf"
  /\ \/ Fault /\ ExpandFails
     \/ /\ Works /\ UNCHANGED <<owner, claim>>
        /\ e' = [e EXCEPT !.pc = "send",
                          !.perf = GetMinIopsThroughput(disk, BytesToGbRoundUp(e.bytes))]
  /\ UNCHANGED <<gce, m, node>>
SendResize ==
  LET o == [by |-> "expand", size |-> BytesToGbRoundUp(e.bytes), perf |-> e.perf]
  IN  /\ e.pc = "send"
      /\ \/ /\ Accepts(o) /\ op' = o /\ failed' = FALSE
            /\ \/ Works /\ e' = [e EXCEPT !.pc = "wait"] /\ UNCHANGED <<owner, claim>>
               \/ Fault /\ ExpandFails      \* the response is lost
         \/ ~Accepts(o) /\ Works /\ ExpandFails /\ UNCHANGED <<op, failed>>
      /\ UNCHANGED <<disk, cooling, device, m, node>>
\* Mutant: the operation is not waited for.
ResizeNotWaitedFor ==
  /\ e.pc = "wait" /\ Works /\ ExpandSucceeds(BytesToGbRoundUp(e.bytes))
  /\ UNCHANGED <<gce, m, node>>
\* waitForZonalOp, waitForRegionalOp.
WaitForResize ==
  /\ e.pc = "wait"
  /\ \/ op = NoOp /\ ~failed /\ Works /\ ExpandSucceeds(BytesToGbRoundUp(e.bytes))
     \/ op = NoOp /\ failed /\ Works /\ ExpandFails
     \/ Fault /\ ExpandFails                \* the call times out
  /\ UNCHANGED <<gce, m, node>>

(***************************************************************************)
(* ControllerModifyVolume with a class that asks for performance only.     *)
(***************************************************************************)
ModifyReturns == m' = Idle /\ owner' = "no one"
Supported(type) == type \notin {"pd-balanced", "pd-ssd"}
ControllerModifyVolume ==
  /\ m = Idle /\ class # told
  /\ owner = "no one"
  /\ \/ /\ Supported(disk.type) /\ disk.perf # class
        /\ m' = [pc |-> "send", bytes |-> 0, perf |-> class] /\ owner' = "modify"
        /\ UNCHANGED <<class, told>>
     \/ /\ Supported(disk.type) /\ disk.perf = class
        /\ told' = class /\ UNCHANGED <<m, owner, class>>
     \/ /\ ~Supported(disk.type) /\ class' = told /\ UNCHANGED <<m, owner, told>>
  /\ UNCHANGED <<gce, e, need, capacity, node, faults>>
\* updateZonalDisk returns when GCE has accepted the change.  A value that GCE
\* refuses on its merits is infeasible and given up; anything else is retried.
UpdateDisk ==
  LET o == [by |-> "modify", size |-> 0, perf |-> m.perf]
  IN  /\ m.pc = "send" /\ ModifyReturns
      /\ \/ /\ Accepts(o) /\ op' = o /\ failed' = FALSE
            /\ \/ Works /\ told' = m.perf
               \/ Fault /\ UNCHANGED told
            /\ UNCHANGED class
         \/ /\ ~Accepts(o) /\ Works /\ UNCHANGED <<op, failed, told>>
            /\ class' = IF Provisionable(disk.type, m.perf, disk.size) THEN class ELSE told
      /\ UNCHANGED <<disk, cooling, device, e, need, capacity, node>>

(***************************************************************************)
(* NodeExpandVolume takes no lock.                                         *)
(***************************************************************************)
NodeExpandVolume ==
  /\ n = Idle /\ usable < capacity
  /\ n' = [pc |-> "resize", bytes |-> getRequestCapacity(capacity), perf |-> 0]
  /\ UNCHANGED <<gce, owner, e, m, claim, fs, usable, faults>>
\* Mutant: a device of the right size is taken for a file system of that size.
ResizeOnlySmallDevice ==
  /\ n.pc = "resize" /\ n' = [n EXCEPT !.pc = "check"] /\ Works
  /\ fs' = IF GbToBytes(device) < n.bytes THEN device ELSE fs
  /\ UNCHANGED <<gce, owner, e, m, claim, usable>>
\* Mutant: the file system is resized to what was asked for.
ResizeToRequest ==
  /\ n.pc = "resize" /\ n' = [n EXCEPT !.pc = "check"] /\ Works
  /\ fs' = BytesToGbRoundUp(n.bytes)
  /\ UNCHANGED <<gce, owner, e, m, claim, usable>>
Resize ==
  /\ n.pc = "resize"
  /\ \/ Works /\ fs' = device /\ n' = [n EXCEPT !.pc = "check"]
     \/ Fault /\ n' = Idle /\ UNCHANGED fs
  /\ UNCHANGED <<gce, owner, e, m, claim, usable>>
\* getBlockSizeBytes answers -1 when it fails.
CheckBlockSize ==
  /\ n.pc = "check" /\ n' = Idle
  /\ \/ Works /\ usable' = IF GbToBytes(device) < n.bytes THEN usable ELSE n.bytes
     \/ Fault /\ UNCHANGED usable
  /\ UNCHANGED <<gce, owner, e, m, claim, fs>>

\* The owner of the claim asks for more, or for another class.
AskForSize(bytes) ==
  /\ bytes > need /\ need' = bytes
  /\ UNCHANGED <<gce, owner, e, m, capacity, class, told, node, faults>>
AskForClass(perf) ==
  /\ class = told /\ perf > class /\ class' = perf
  /\ UNCHANGED <<gce, owner, e, m, need, capacity, told, node, faults>>

Controller == ResizeDisk \/ ReadPerformance \/ SendResize \/ WaitForResize \/ UpdateDisk
Node == NodeExpandVolume \/ Resize \/ CheckBlockSize
Next == \/ Controller \/ ControllerExpandVolume \/ ControllerModifyVolume \/ Node
        \/ Finish \/ CoolDown \/ GuestSees
        \/ \E bytes \in Requests : AskForSize(bytes)
        \/ \E perf \in Classes : AskForClass(perf)
Spec == Init /\ [][Next]_vars

\* Handlers run to their end, the kubelet calls again, and GCE and the guest get on
\* with what they have accepted.  The resizer calls again too, and does not find
\* the lock taken each time: no handler keeps it.
Fairness == /\ WF_vars(Controller) /\ WF_vars(Node)
            /\ SF_vars(ControllerExpandVolume)
            /\ WF_vars(Finish) /\ SF_vars(CoolDown) /\ WF_vars(GuestSees)

(***************************************************************************)
(* Properties.                                                             *)
(***************************************************************************)
TypeOK ==
  /\ disk \in [type : DiskTypes, size : Nat, perf : Nat]
  /\ op.by \in {"no one", "expand", "modify"}
  /\ owner \in {"no one", "expand", "modify"}
  /\ e.pc \in {"idle", "size", "perf", "send", "wait"}
  /\ m.pc \in {"idle", "send"} /\ n.pc \in {"idle", "resize", "check"}
  /\ fs <= device /\ device <= disk.size

\* The capacity that ControllerExpandVolume answered is there, also when the answer
\* comes from a retry that found the operation of an earlier call: ResizeDisk
\* answers the size of the disk, or waits.
AnsweredCapacityIsThere == capacity <= GbToBytes(disk.size)

\* What a change of performance was reported to have done is never taken back by a
\* concurrent or later expansion, which sends the minimum it computed from an
\* earlier read of the disk. (Where GCE carries out what it has accepted, ModifyMayFail =
\* FALSE: README, Observations.)
ClassIsKept == (told # 0 /\ op = NoOp) => disk.perf >= told

\* When NodeExpandVolume has succeeded for a capacity, the file system has grown to
\* it: the size it checks in the end is that of the device. (Where the guest learns of a
\* new size in time, LateGuest = FALSE: README, Observations.)
ExpandedIsUsable == usable <= GbToBytes(fs)

\* A claim that asks for more gets it, whatever failed or timed out, on disks of
\* every type: a hyperdisk gets the minimum performance of its new size, without
\* which GCE refuses to grow it.
GrownInTheEnd == Fairness => \A bytes \in Requests : need = bytes ~> usable >= bytes
=============================================================================
