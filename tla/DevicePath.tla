----------------------------- MODULE DevicePath -----------------------------
(***************************************************************************)
(* Finding the device of an attached disk (VerifyDevicePath in             *)
(* device-utils.go): take the first /dev/disk/by-id path that exists,      *)
(* check the serial number of the device it points to, ask udev to repair  *)
(* the symlink when there is none or it is stale, poll until it has, and   *)
(* after the last poll or an error set the symlink by hand.                *)
(*                                                                         *)
(* The disk keeps its device while the call runs; its symlinks may be      *)
(* absent or left over from a device that now holds another disk, and udev *)
(* repairs them at any time after it was triggered.                        *)
(***************************************************************************)
EXTENDS Integers, Sequences

CONSTANTS Devices,
          MaxPolls,      \* pollTimeout / pollInterval
          MaxFailures,
          Partitions     \* is a partition asked for?  A set of answers.

VARIABLES partition, \* is one asked for in this call?
          disk,      \* the device of the disk, or Nowhere
          link,      \* the device each by-id symlink points to, or Nowhere
          triggered, \* has udev an event to handle?
          pc, polls, path, device,
          failures
vars == <<partition, disk, link, triggered, pc, polls, path, device, failures>>

Nowhere == "nowhere"
NoPath == "no path"

\* GetDiskByIdPaths: the candidates, in the order they are looked at.
Whole == <<"google", "scsi-google">>
OfPartition == <<"google-part", "scsi-google-part">>
Candidates == IF partition THEN OfPartition ELSE Whole
Paths == {Whole[i] : i \in 1..2} \cup {OfPartition[i] : i \in 1..2}
Existing == SelectSeq(Candidates, LAMBDA p : link[p] # Nowhere)

Init ==
  /\ partition \in Partitions
  /\ disk \in Devices \cup {Nowhere}
  /\ link \in [Paths -> Devices \cup {Nowhere}]
  /\ triggered = FALSE
  /\ pc = "start" /\ polls = 0 /\ path = NoPath /\ device = Nowhere
  /\ failures = 0

Goto(step) == pc' = step
Keep == UNCHANGED <<partition, disk>>

\* ensureUdevToolsExist.
EnsureUdevToolsExist ==
  /\ pc = "start"
  /\ \/ Goto("poll") /\ UNCHANGED failures
     \/ Goto("failed") /\ failures < MaxFailures /\ failures' = failures + 1
  /\ UNCHANGED <<link, triggered, polls, path, device>> /\ Keep

\* udevadmTriggerForDiskIfExists: an error, without the disk, ends the polling.
Trigger ==
  IF disk = Nowhere THEN Goto("manual") /\ UNCHANGED <<triggered, polls>>
  ELSE Goto("poll") /\ triggered' = TRUE /\ polls' = polls + 1

ExistingDevicePath ==
  /\ pc = "poll" /\ polls < MaxPolls
  /\ IF Existing = <<>>
     THEN Trigger /\ path' = NoPath
     ELSE path' = Existing[1] /\ Goto("resolve") /\ UNCHANGED <<triggered, polls>>
  /\ UNCHANGED <<link, device, failures>> /\ Keep
EvalSymlinks ==
  /\ pc = "resolve" /\ device' = link[path] /\ Goto("serial")
  /\ UNCHANGED <<link, triggered, polls, path, failures>> /\ Keep
\* Mutant: the path exists, so it is taken for the disk's.
CheckSerialSkipped ==
  /\ pc = "serial" /\ Goto("found")
  /\ UNCHANGED <<link, triggered, polls, path, device, failures>> /\ Keep
\* getDevFsSerial: the serial number of a disk is its name.
CheckSerial ==
  /\ pc = "serial"
  /\ IF device = disk THEN Goto("found") /\ UNCHANGED <<triggered, polls>> ELSE Trigger
  /\ UNCHANGED <<link, path, device, failures>> /\ Keep
\* A file system call, scsi_id, google_nvme_id or udevadm fails.
ToolFails ==
  /\ pc \in {"poll", "resolve", "serial", "manual"}
  /\ failures < MaxFailures /\ failures' = failures + 1
  /\ Goto(IF pc = "manual" THEN "failed" ELSE "manual")
  /\ UNCHANGED <<link, triggered, polls, path, device>> /\ Keep
\* Mutant: no link by hand.
PollTimeoutFails ==
  /\ pc = "poll" /\ polls = MaxPolls /\ Goto("failed")
  /\ UNCHANGED <<link, triggered, polls, path, device, failures>> /\ Keep
PollTimeout ==
  /\ pc = "poll" /\ polls = MaxPolls /\ Goto("manual")
  /\ UNCHANGED <<link, triggered, polls, path, device, failures>> /\ Keep

\* manuallySetDevicePath: findDevice, then a rename over the symlink.
ManuallySetDevicePath ==
  /\ pc = "manual"
  /\ IF disk = Nowhere THEN Goto("failed") /\ UNCHANGED <<link, path>>
     ELSE /\ link' = [link EXCEPT !["google"] = disk]
          /\ path' = "google" /\ Goto("found")
  /\ UNCHANGED <<triggered, polls, device, failures>> /\ Keep

\* udev repairs the symlinks of the disk, those of a partition if it has one.
Udev ==
  /\ triggered /\ triggered' = FALSE
  /\ \E parts \in {{}, {OfPartition[1], OfPartition[2]}} :
       link' = [p \in Paths |-> IF p \in {Whole[1], Whole[2]} \cup parts THEN disk ELSE link[p]]
  /\ UNCHANGED <<pc, polls, path, device, failures>> /\ Keep

\* The call has returned; the next one is for another volume.
Done == pc \in {"found", "failed"} /\ ~triggered /\ UNCHANGED vars

VerifyDevicePath == \/ EnsureUdevToolsExist \/ ExistingDevicePath \/ EvalSymlinks \/ CheckSerial
                    \/ PollTimeout \/ ManuallySetDevicePath
Next == VerifyDevicePath \/ ToolFails \/ Udev \/ Done
Spec == Init /\ [][Next]_vars
Fairness == WF_vars(VerifyDevicePath)

(***************************************************************************)
(* Properties.                                                             *)
(***************************************************************************)
TypeOK ==
  /\ pc \in {"start", "poll", "resolve", "serial", "manual", "found", "failed"}
  /\ polls \in 0..MaxPolls
  /\ path \in Paths \cup {NoPath} /\ device \in Devices \cup {Nowhere}
  /\ pc \in {"resolve", "serial"} => path \in Paths /\ link[path] # Nowhere

\* The path that VerifyDevicePath returns leads to the device of the disk, even
\* when stale symlinks lead to other disks and udev moves them between two steps.
FoundIsTheDisk == pc = "found" => disk # Nowhere /\ link[path] = disk

\* The call always returns, with the device if the disk is attached and no tool is
\* missing: udev that never answers is made up for by hand.
AlwaysReturns ==
  Fairness => <>(pc = "found" \/ (pc = "failed" /\ (disk = Nowhere \/ failures > 0)))

\* The path is one of the candidates.
\* The code does not have this property (README, Observations): for a partition
\* manuallySetDevicePath links the whole disk.
FoundIsACandidate == pc = "found" => \E i \in DOMAIN Candidates : path = Candidates[i]

=============================================================================
