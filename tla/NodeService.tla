---------------------------- MODULE NodeService ----------------------------
(***************************************************************************)
(* The node service of one volume on one node (node.go): NodeStageVolume,  *)
(* NodePublishVolume, NodeUnpublishVolume, NodeUnstageVolume under the     *)
(* lock of the volume, NodeExpandVolume without it.  The kubelet that      *)
(* calls them is external: it stages before it publishes, unpublishes      *)
(* before it unstages, retries what failed, and may stop waiting for a     *)
(* call that the driver goes on with.                                      *)
(*                                                                         *)
(* The in-use check of NodeUnstageVolume is in DeviceInUse, the data cache *)
(* in DataCache, the semaphore of formatAndMount in FormatAndMount.        *)
(***************************************************************************)
EXTENDS Integers

CONSTANTS Pods,         \* each has one target path
          Modes,        \* the capabilities explored: "rw", "ro", "block"
          MaxSize,      \* sizes of the disk
          MaxFailures, MaxCrashes, MaxTimeouts

VARIABLES mode,     \* the capability of the volume
          tune,     \* do its mount flags ask for read-ahead or sysfs values?
          attached, size,
          fs,       \* the size of the file system, 0 if unformatted
          stage,    \* what is mounted at the staging path
          targets,  \* what is mounted at the target path of each pod
          tuned,    \* are those values set?
          cached,   \* is the volume in the device cache?
          call,     \* the call that holds the lock, or Idle
          expand,   \* the step of NodeExpandVolume, or "idle"
          waiting,  \* does the kubelet wait for that call?
          known,    \* what the kubelet takes for staged: "no", "maybe", "yes"
          published,\* the pods whose target may be mounted, as the kubelet knows
          want,     \* are there pods that use the volume?
          failures, crashes, timeouts
volume == <<attached, size, fs, stage, targets, tuned, cached>>
kubelet == <<waiting, known, published>>
faults == <<failures, crashes, timeouts>>
vars == <<mode, tune, volume, call, expand, kubelet, want, faults>>

Idle == [op |-> "none", step |-> "idle", pod |-> "none"]

Init ==
  /\ mode \in Modes
  /\ tune \in (IF mode = "block" THEN {FALSE} ELSE BOOLEAN)
  /\ attached = FALSE /\ size = 1
  /\ fs \in (IF mode = "ro" THEN {1} ELSE {0})
  /\ stage = "none" /\ targets = [p \in Pods |-> "none"]
  /\ tuned = FALSE /\ cached = FALSE
  /\ call = Idle /\ expand = "idle"
  /\ waiting = FALSE /\ known = "no" /\ published = {} /\ want = TRUE
  /\ failures = 0 /\ crashes = 0 /\ timeouts = 0

KeepVolume == UNCHANGED volume
KeepFixed == UNCHANGED <<mode, tune, expand, want, crashes, timeouts>>
Fault == failures < MaxFailures /\ failures' = failures + 1

(***************************************************************************)
(* A call takes the lock, or is answered Aborted, which the kubelet takes  *)
(* for a failure.  Success and failure are both told to a kubelet that     *)
(* still waits; a kubelet that does not wait any more learns nothing.      *)
(***************************************************************************)
TryAcquire(op, p) ==
  IF call = Idle
  THEN /\ call' = [op |-> op, step |-> "start", pod |-> p] /\ waiting' = TRUE
       /\ UNCHANGED failures
  ELSE UNCHANGED <<call, waiting>> /\ Fault
Goto(step) == call' = [call EXCEPT !.step = step] /\ UNCHANGED kubelet
\* Mutant: the answer is lost.
FailUnanswered == call' = Idle /\ UNCHANGED kubelet
Fail == call' = Idle /\ waiting' = FALSE /\ UNCHANGED <<known, published>>
Succeed(knows, pods) ==
  /\ call' = Idle /\ waiting' = FALSE
  /\ known' = IF waiting THEN knows ELSE known
  /\ published' = IF waiting THEN pods ELSE published
At(op, step) == call.op = op /\ call.step = step

\* The kubelet: what it asks for, and when.
CallStage ==
  /\ want /\ attached /\ known # "yes" /\ ~waiting
  /\ TryAcquire("stage", "none") /\ known' = "maybe"
  /\ KeepVolume /\ KeepFixed /\ UNCHANGED published
CallPublish(p) ==
  /\ want /\ known = "yes" /\ ~waiting
  /\ TryAcquire("publish", p) /\ published' = published \cup {p}
  /\ KeepVolume /\ KeepFixed /\ UNCHANGED known
CallUnpublish(p) ==
  /\ p \in published /\ ~waiting
  /\ TryAcquire("unpublish", p)
  /\ KeepVolume /\ KeepFixed /\ UNCHANGED <<known, published>>
CallUnstage ==
  /\ known # "no" /\ published = {} /\ ~waiting
  /\ TryAcquire("unstage", "none") /\ known' = "maybe"
  /\ KeepVolume /\ KeepFixed /\ UNCHANGED published
KubeletTimeout ==
  /\ waiting /\ timeouts < MaxTimeouts
  /\ timeouts' = timeouts + 1 /\ waiting' = FALSE
  /\ KeepVolume /\ UNCHANGED <<mode, tune, call, expand, known, published, want, failures, crashes>>

PodsComeAndGo ==
  /\ want' = ~want
  /\ KeepVolume /\ UNCHANGED <<mode, tune, call, expand, kubelet, faults>>

\* The controller: it detaches once the kubelet has unstaged, and expands.
Attach ==
  /\ want /\ ~attached /\ attached' = TRUE
  /\ UNCHANGED <<size, fs, stage, targets, tuned, cached, call, kubelet, failures>> /\ KeepFixed
\* The settings of the block device go with the device.
Detach ==
  /\ attached /\ known = "no" /\ ~waiting
  /\ attached' = FALSE /\ tuned' = FALSE
  /\ UNCHANGED <<size, fs, stage, targets, cached, call, kubelet, failures>> /\ KeepFixed
GrowDisk ==
  /\ size < MaxSize /\ size' = size + 1
  /\ UNCHANGED <<attached, fs, stage, targets, tuned, cached, call, kubelet, failures>> /\ KeepFixed

(***************************************************************************)
(* NodeStageVolume.                                                        *)
(***************************************************************************)
\* getDevicePath fails without the disk; a mounted path ends the call at once;
\* a block volume needs no more than the staging path.
StageCheck ==
  /\ At("stage", "start") /\ attached
  /\ IF stage # "none" \/ mode = "block" THEN Succeed("yes", published) ELSE Goto("mount")
  /\ KeepVolume /\ KeepFixed /\ UNCHANGED failures

\* The device must be as large as the publish context says; then it is formatted
\* if it is blank (never read-only) and mounted.  A read-only mount that fails is
\* tried again with noload, which ends the call.
\* Mutant: a read-only volume goes on to be resized.
StageMountReadOnlyResized ==
  /\ At("stage", "mount") /\ attached
  /\ fs' = (IF fs = 0 THEN size ELSE fs)
  /\ stage' = (IF mode = "ro" THEN "ro" ELSE "rw") /\ Goto("resize")
  /\ UNCHANGED <<attached, size, targets, tuned, cached, failures>> /\ KeepFixed
StageMount ==
  /\ At("stage", "mount") /\ attached
  /\ IF mode = "ro"
     THEN UNCHANGED fs /\ \/ stage' = "ro" /\ Goto("tune")
                          \/ stage' = "noload" /\ Succeed("yes", published)
     ELSE fs' = (IF fs = 0 THEN size ELSE fs) /\ stage' = "rw" /\ Goto("resize")
  /\ UNCHANGED <<attached, size, targets, tuned, cached, failures>> /\ KeepFixed
\* Resize grows the file system to the device.
\* Mutant: the size is rounded up past the device.
StageResizeRoundedUp ==
  /\ At("stage", "resize") /\ attached
  /\ fs' = size + 1 /\ Goto("tune")
  /\ UNCHANGED <<attached, size, stage, targets, tuned, cached, failures>> /\ KeepFixed
StageResize ==
  /\ At("stage", "resize") /\ attached
  /\ fs' = size /\ Goto("tune")
  /\ UNCHANGED <<attached, size, stage, targets, tuned, cached, failures>> /\ KeepFixed
StageTune ==
  /\ At("stage", "tune") /\ attached
  /\ tuned' = (tuned \/ tune) /\ Goto("cache")
  /\ UNCHANGED <<attached, size, fs, stage, targets, cached, failures>> /\ KeepFixed
\* AddVolume: its failure is only a warning.
StageCache ==
  /\ At("stage", "cache")
  /\ cached' \in {cached, TRUE} /\ Succeed("yes", published)
  /\ UNCHANGED <<attached, size, fs, stage, targets, tuned, failures>> /\ KeepFixed

(***************************************************************************)
(* NodePublishVolume: a bind mount of the staging path, or of the device.  *)
(***************************************************************************)
PublishCheck ==
  /\ At("publish", "start")
  /\ IF targets[call.pod] # "none" THEN Succeed(known, published)
     ELSE (mode = "block" => attached) /\ Goto("mount")
  /\ KeepVolume /\ KeepFixed /\ UNCHANGED failures
PublishMount ==
  /\ At("publish", "mount")
  /\ targets' = [targets EXCEPT ![call.pod] = IF mode = "block" THEN "block" ELSE stage]
  /\ Succeed(known, published)
  /\ UNCHANGED <<attached, size, fs, stage, tuned, cached, failures>> /\ KeepFixed
\* The mount fails, but is there: it is unmounted, or stays when that fails too.
PublishMountUndone ==
  /\ At("publish", "mount") /\ Fault
  /\ targets' \in {targets, [targets EXCEPT ![call.pod] = IF mode = "block" THEN "block" ELSE stage]}
  /\ Fail
  /\ UNCHANGED <<attached, size, fs, stage, tuned, cached>> /\ KeepFixed
\* Mutant: an unmount that fails is not reported.
UnpublishUnchecked ==
  /\ At("unpublish", "start")
  /\ targets' \in {targets, [targets EXCEPT ![call.pod] = "none"]}
  /\ Succeed(known, published \ {call.pod})
  /\ UNCHANGED <<attached, size, fs, stage, tuned, cached, failures>> /\ KeepFixed
NodeUnpublishVolume ==
  /\ At("unpublish", "start")
  /\ targets' = [targets EXCEPT ![call.pod] = "none"]
  /\ Succeed(known, published \ {call.pod})
  /\ UNCHANGED <<attached, size, fs, stage, tuned, cached, failures>> /\ KeepFixed

(***************************************************************************)
(* NodeUnstageVolume: unmount, then forget the volume.                     *)
(***************************************************************************)
\* Mutants: an unmount that fails is not reported; a path that is not mounted is
\* an error.
UnstageUnchecked ==
  /\ At("unstage", "start")
  /\ stage' \in {"none", stage} /\ Goto("forget")
  /\ UNCHANGED <<attached, size, fs, targets, tuned, cached, failures>> /\ KeepFixed
UnstageMountedOnly ==
  /\ At("unstage", "start")
  /\ stage' = "none" /\ IF stage # "none" THEN Goto("forget") ELSE Fail
  /\ UNCHANGED <<attached, size, fs, targets, tuned, cached, failures>> /\ KeepFixed
UnstageUnmount ==
  /\ At("unstage", "start")
  /\ stage' = "none" /\ Goto("forget")
  /\ UNCHANGED <<attached, size, fs, targets, tuned, cached, failures>> /\ KeepFixed
\* Mutant: the device cache keeps the volume.
UnstageUnforgotten ==
  /\ At("unstage", "forget") /\ Succeed("no", published)
  /\ KeepVolume /\ UNCHANGED failures /\ KeepFixed
UnstageForget ==
  /\ At("unstage", "forget")
  /\ cached' = FALSE /\ Succeed("no", published)
  /\ UNCHANGED <<attached, size, fs, stage, targets, tuned, failures>> /\ KeepFixed

\* Every step that runs a command may fail; what was done stays done.
CommandFails ==
  /\ call # Idle /\ call.step # "cache" /\ ~At("publish", "mount") /\ Fault /\ Fail
  /\ KeepVolume /\ KeepFixed

(***************************************************************************)
(* NodeExpandVolume: it takes no lock.  Block and read-only volumes need   *)
(* nothing; the size that is checked at the end is that of the device.     *)
(***************************************************************************)
ExpandStart ==
  /\ expand = "idle" /\ known = "yes"
  /\ expand' = IF attached /\ mode = "rw" THEN "resize" ELSE "idle"
  /\ KeepVolume /\ UNCHANGED <<mode, tune, call, kubelet, want, faults>>
ExpandResize ==
  /\ expand = "resize" /\ expand' = "idle"
  /\ fs' = IF stage = "rw" THEN size ELSE fs   \* fails on a path that is not mounted
  /\ UNCHANGED <<attached, size, stage, targets, tuned, cached, mode, tune, call, kubelet, want, faults>>

\* The driver stops: its locks go with it, and the device cache is filled anew
\* from what the node last reported as in use.
Crash ==
  /\ crashes < MaxCrashes /\ crashes' = crashes + 1
  /\ call' = Idle /\ expand' = "idle" /\ waiting' = FALSE /\ cached' \in BOOLEAN
  /\ UNCHANGED <<mode, tune, attached, size, fs, stage, targets, tuned, known, published, want, failures, timeouts>>

DriverStep == \/ StageCheck \/ StageMount \/ StageResize \/ StageTune \/ StageCache
              \/ PublishCheck \/ PublishMount \/ NodeUnpublishVolume
              \/ UnstageUnmount \/ UnstageForget
KubeletStep == \/ CallStage \/ CallUnstage
               \/ \E p \in Pods : CallPublish(p) \/ CallUnpublish(p)
Next == \/ DriverStep \/ KubeletStep \/ KubeletTimeout \/ PodsComeAndGo
        \/ PublishMountUndone \/ CommandFails \/ ExpandStart \/ ExpandResize
        \/ Attach \/ Detach \/ GrowDisk \/ Crash
Spec == Init /\ [][Next]_vars

\* Handlers run to their end; the kubelet keeps unpublishing and unstaging, and
\* the controller detaches what it may.
Fairness == /\ WF_vars(DriverStep) /\ WF_vars(CallUnstage) /\ WF_vars(Detach)
            /\ \A p \in Pods : WF_vars(CallUnpublish(p))

(***************************************************************************)
(* Properties.                                                             *)
(***************************************************************************)
TypeOK ==
  /\ size \in 1..MaxSize /\ fs \in 0..MaxSize
  /\ stage \in {"none", "rw", "ro", "noload"}
  /\ targets \in [Pods -> {"none", "rw", "ro", "noload", "block"}]
  /\ published \subseteq Pods
  /\ known \in {"no", "maybe", "yes"}
  /\ call = Idle => ~waiting

\* A disk is detached only when nothing of it is mounted on the node, although a
\* call that the kubelet gave up on may still be running in the driver: the
\* volume lock of NodeStageVolume and NodeUnstageVolume sees to it.
NeverDetachedWhileMounted ==
  ~attached => stage = "none" /\ \A p \in Pods : targets[p] = "none"

\* A pod never has more of the volume than is staged: NodePublishVolume binds the
\* staging path, and that stays mounted until the last target is gone.
PodSeesStagedVolume ==
  \A p \in Pods : targets[p] \notin {"none", "block"} => stage = targets[p]

\* A read-only volume is never formatted or resized, whatever NodeStageVolume has
\* to retry and whenever NodeExpandVolume, which takes no lock, comes in.
ReadOnlyIsNeverWritten == [][mode = "ro" => fs' = fs]_vars

\* A file system only grows, and never past its device: no interleaving of
\* NodeStageVolume with the unlocked NodeExpandVolume shrinks or reformats it.
FileSystemOnlyGrows == [][fs' >= fs /\ fs' <= size']_vars

\* When the kubelet is told that the volume is unstaged it is neither mounted nor
\* in the device cache.
UnstagedIsForgotten ==
  [][known # "no" /\ known' = "no" => stage' = "none" /\ ~cached']_vars

\* Once no pod uses the volume it leaves the node, whatever failed, timed out or
\* was cut short by a restart before.
ReleasedInTheEnd == Fairness => (~want ~> (~attached \/ want))

\* What NodeStageVolume succeeded for has the read-ahead and sysfs values that the
\* mount flags ask for.
\* The code does not have this property (README, Observations): a retry finds the path
\* mounted and succeeds without them.
StagedMeansTuned == (known = "yes" /\ tune /\ stage # "none") => tuned

=============================================================================
