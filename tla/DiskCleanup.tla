---------------------------- MODULE DiskCleanup -----------------------------
(***************************************************************************)
(* VerifyClusterDisks: when it starts, the driver looks at the disks that  *)
(* are still labelled "provisioning" and, in the background, labels or     *)
(* deletes them by what it finds of their PersistentVolume and claim.  The *)
(* life of one disk goes on meanwhile: the provisioner creates it and its  *)
(* PersistentVolume, publishes write the status label, users edit labels   *)
(* and delete the claim.                                                   *)
(***************************************************************************)
EXTENDS Integers, FiniteSets

CONSTANTS CleanupEnabled, \* values of enable-disk-cleanup
          Policies,       \* reclaim policies
          MaxEdits, MaxFailures,
          MaxUpdates      \* publishes stop after so many changes of the labels

VARIABLES enabled, policy,
          claim, volume,      \* do the PersistentVolumeClaim and PersistentVolume exist?
          provisioner,        \* of the disk: "waiting", "created", "done" or "gave up"
          disk, attached,
          labels,             \* status and user are labels, print is the LabelFingerprint
          publisher, read,    \* a publish, and the labels it has read
          cleaner, hasPV, hasPVC, current,
          edits, failures
vars == <<enabled, policy, claim, volume, provisioner, disk, attached, labels, publisher, read,
          cleaner, hasPV, hasPVC, current, edits, failures>>
config == <<enabled, policy>>
objects == <<claim, volume, provisioner>>
publish == <<publisher, read>>
seen == <<hasPV, hasPVC, current>>
bounds == <<edits, failures>>

NewLabels == [status |-> "provisioning", user |-> 0, print |-> 0]

Init ==
  /\ enabled \in CleanupEnabled /\ policy \in Policies
  /\ claim = TRUE /\ volume = FALSE /\ provisioner = "waiting"
  /\ disk = FALSE /\ attached = FALSE /\ labels = NewLabels
  /\ publisher = "idle" /\ read = NewLabels
  /\ cleaner = "off" /\ hasPV = FALSE /\ hasPVC = FALSE /\ current = NewLabels
  /\ edits = 0 /\ failures = 0

\* SetDiskLabels replaces all labels; the API refuses it when they have changed since
\* they were read.
Fresh(old) == disk /\ old.print = labels.print
\* Mutant: the request has no fingerprint.
SetLabelsBlindly(old, status) ==
  labels' = [status |-> status, user |-> old.user, print |-> labels.print + 1]
SetLabels(old, status) ==
  IF Fresh(old) THEN labels' = [old EXCEPT !.status = status, !.print = @ + 1] ELSE UNCHANGED labels

(***************************************************************************)
(* The clean-up.                                                           *)
(***************************************************************************)
cleanerRest == <<config, objects, attached, publish, bounds>>

\* Mutant: the filter has another status.
ListDisksAttaching ==
  /\ cleaner = "off"
  /\ cleaner' = IF disk /\ labels.status = "attaching" THEN "volume" ELSE "done"
  /\ UNCHANGED <<cleanerRest, disk, labels, seen>>
\* listDisks at the start of the driver.
ListDisks ==
  /\ cleaner = "off"
  /\ cleaner' = IF disk /\ labels.status = "provisioning" THEN "volume" ELSE "done"
  /\ UNCHANGED <<cleanerRest, disk, labels, seen>>
\* validateAssociatedObjects, with two calls.
GetVolume ==
  /\ cleaner = "volume" /\ hasPV' = volume /\ cleaner' = "claim"
  /\ UNCHANGED <<cleanerRest, disk, labels, hasPVC, current>>
GetClaim ==
  /\ cleaner = "claim" /\ hasPVC' = claim /\ cleaner' = "get"
  /\ UNCHANGED <<cleanerRest, disk, labels, hasPV, current>>
GetDisk ==
  /\ cleaner = "get" /\ current' = labels
  /\ cleaner' = IF ~disk \/ labels.status = "provisioned" THEN "done"
                ELSE IF hasPV THEN "label" ELSE "check"
  /\ UNCHANGED <<cleanerRest, disk, labels, hasPV, hasPVC>>
SetProvisioned ==
  /\ cleaner = "label" /\ SetLabels(current, "provisioned")
  /\ cleaner' = IF Fresh(current) THEN "check" ELSE "done"
  /\ UNCHANGED <<cleanerRest, disk, seen>>
\* Mutant: a disk with a claim and no volume yet counts as leaked.
CheckVolumeOnly ==
  /\ cleaner = "check" /\ cleaner' = IF ~hasPV /\ enabled THEN "delete" ELSE "done"
  /\ UNCHANGED <<cleanerRest, disk, labels, seen>>
Check ==
  /\ cleaner = "check" /\ cleaner' = IF ~hasPVC /\ enabled THEN "delete" ELSE "done"
  /\ UNCHANGED <<cleanerRest, disk, labels, seen>>
DeleteDisk ==
  /\ cleaner = "delete" /\ cleaner' = "done" /\ disk' = (disk /\ attached)
  /\ UNCHANGED <<cleanerRest, labels, seen>>
\* A call fails: the disk is left for the next start.
Fails ==
  /\ cleaner \notin {"off", "done"} /\ failures < MaxFailures /\ failures' = failures + 1
  /\ cleaner' = "done"
  /\ UNCHANGED <<config, objects, disk, attached, labels, publish, seen, edits>>
Restart ==
  /\ cleaner # "off" /\ cleaner' = "off" /\ publisher' = "idle"
  /\ \/ cleaner = "done" /\ UNCHANGED failures
     \/ cleaner # "done" /\ failures < MaxFailures /\ failures' = failures + 1
  /\ UNCHANGED <<config, objects, disk, attached, labels, read, seen, edits>>

(***************************************************************************)
(* The rest of the driver, the provisioner and the users.                  *)
(***************************************************************************)
CreateDisk ==
  /\ provisioner = "waiting" /\ claim /\ provisioner' = "created" /\ disk' = TRUE
  /\ UNCHANGED <<config, claim, volume, attached, labels, publish, cleaner, seen, bounds>>
CreateVolume ==
  /\ provisioner = "created" /\ disk /\ provisioner' = "done" /\ volume' = TRUE
  /\ UNCHANGED <<config, claim, disk, attached, labels, publish, cleaner, seen, bounds>>
\* The claim is gone and the provisioner has seen a final error or was restarted.
GiveUp ==
  /\ provisioner \in {"waiting", "created"} /\ ~claim /\ provisioner' = "gave up"
  /\ UNCHANGED <<config, claim, volume, disk, attached, labels, publish, cleaner, seen, bounds>>
DeleteClaim ==
  /\ claim /\ claim' = FALSE
  /\ UNCHANGED <<config, volume, provisioner, disk, attached, labels, publish, cleaner, seen, bounds>>
Reclaim ==
  /\ ~claim /\ volume /\ policy = "Delete" /\ ~attached /\ volume' = FALSE /\ disk' = FALSE
  /\ UNCHANGED <<config, claim, provisioner, attached, labels, publish, cleaner, seen, bounds>>

\* A publish reads the disk, writes the status label, whose failure is only logged,
\* and attaches the disk.
Publish ==
  /\ publisher = "idle" /\ volume /\ claim /\ disk /\ ~attached /\ labels.print < MaxUpdates
  /\ publisher' = "label" /\ read' = labels
  /\ UNCHANGED <<config, objects, disk, attached, labels, cleaner, seen, bounds>>
UpdateStatusLabel ==
  /\ publisher = "label" /\ SetLabels(read, "attaching") /\ publisher' = "attach"
  /\ UNCHANGED <<config, objects, disk, attached, read, cleaner, seen, bounds>>
Attach ==
  /\ publisher = "attach" /\ attached' = disk /\ publisher' = "idle"
  /\ UNCHANGED <<config, objects, disk, labels, read, cleaner, seen, bounds>>
Detach ==
  /\ attached /\ publisher = "idle" /\ attached' = FALSE
  /\ UNCHANGED <<config, objects, disk, labels, publish, cleaner, seen, bounds>>
EditLabels ==
  /\ disk /\ edits < MaxEdits /\ edits' = edits + 1
  /\ labels' = [labels EXCEPT !.user = @ + 1, !.print = @ + 1]
  /\ UNCHANGED <<config, objects, disk, attached, publish, cleaner, seen, failures>>

Clean == \/ ListDisks \/ GetVolume \/ GetClaim \/ GetDisk \/ SetProvisioned \/ Check
         \/ DeleteDisk
Next == \/ Clean \/ Fails \/ Restart \/ CreateDisk \/ CreateVolume \/ GiveUp \/ DeleteClaim
        \/ Reclaim \/ Publish \/ UpdateStatusLabel \/ Attach \/ Detach \/ EditLabels
Spec == Init /\ [][Next]_vars
\* The clean-up runs on, and the driver is started again after it.
Fairness == WF_vars(Clean) /\ WF_vars(cleaner = "done" /\ Restart)

(***************************************************************************)
(* Properties.                                                             *)
(***************************************************************************)
TypeOK ==
  /\ labels.status \in {"provisioning", "attaching", "provisioned"} /\ labels.user \in 0..MaxEdits
  /\ cleaner \in {"off", "volume", "claim", "get", "label", "check", "delete", "done"}
  /\ publisher \in {"idle", "label", "attach"}
  /\ attached => disk

CleanerDeletes == cleaner = "delete" /\ disk /\ ~disk'

\* The clean-up never deletes a disk whose claim exists, whatever the provisioner and
\* the publishes do in between, and deletes nothing when it is turned off.
ClaimedDiskIsKept == [][CleanerDeletes => enabled /\ ~claim]_vars

\* Only users change their labels: the two writers of the status label, which write
\* back all labels they have read, never undo an edit made in between.
UserLabelsAreKept == [][labels'.user # labels.user => edits' = edits + 1]_vars

\* A disk whose claim is gone before its PersistentVolume was created is not leaked:
\* with the clean-up enabled some start of the driver deletes it.
LeakedDiskIsDeleted ==
  Fairness => ((enabled /\ provisioner = "gave up" /\ disk) ~> ~disk)

\* The clean-up deletes no disk whose PersistentVolume it has found.
\* The code does not have this property (README, Observations): handleDisk
\* returns early for a claim only.
DiskOfVolumeIsKept == [][CleanerDeletes => ~hasPV]_vars

=============================================================================
