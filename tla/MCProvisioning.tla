--------------------------- MODULE MCProvisioning ---------------------------
(***************************************************************************)
(* Provisioning and what it leaves behind: dynamic volumes, CreateVolume   *)
(* and DeleteVolume with retries, the choice of zones, and the clean-up of *)
(* leaked disks. They share no state, so a property of one of them holds   *)
(* of them together if it holds where only that one moves: part says which *)
(* one does, and the others stay in an initial state.                      *)
(***************************************************************************)
EXTENDS DynamicVolumes, SequencesExt

VARIABLE part

\* Machines with either, both and neither of the two types.
MCMachines == SUBSET {HD, PD}
MCGiven == SUBSET {"replication-type", "provisioned-iops-on-create", "disk-encryption-kms-key", "labels"}
MCSources == {"none", HD, PD, DefaultType}
MCClasses == {"none", HD, PD}
Served == volume # NoVolume /\ UNCHANGED vars
DynamicAtRest == /\ given = {} /\ preference = HD /\ source = "none" /\ vac = "none" /\ machine = {}
                 /\ Init

VARIABLES status, sent, h, owner, cur, phase, claim, uncertain, topology, created, lost, finals
createVars == <<status, sent, h, owner, cur, phase, claim, uncertain, topology, created, lost,
                 finals>>
\* A volume in one zone while someone else makes disks; without them, for progress; and
\* one disk in each of two zones.
OneZone == INSTANCE CreateVolume WITH Zones <- {1, 2}, Handlers <- {"h1", "h2"},
  MultiZone <- FALSE, ReadsThatFail <- {"first", "after"}, BadDisks <- FALSE, Foreign <- {2},
  MaxFaults <- 2, MaxFinal <- 1,
  disk <- status, faults <- lost, volume <- created
Creating == INSTANCE CreateVolume WITH Zones <- {1, 2}, Handlers <- {"h1", "h2"},
  MultiZone <- FALSE, ReadsThatFail <- {"first", "after"}, BadDisks <- FALSE, Foreign <- {},
  MaxFaults <- 2, MaxFinal <- 1,
  disk <- status, faults <- lost, volume <- created
MultiZone == INSTANCE CreateVolume WITH Zones <- {1, 2}, Handlers <- {"h1", "h2"},
  MultiZone <- TRUE, ReadsThatFail <- {"first", "after", "list"}, BadDisks <- TRUE, Foreign <- {},
  MaxFaults <- 2, MaxFinal <- 1,
  disk <- status, faults <- lost, volume <- created
CreateAtRest == topology = {1} /\ OneZone!Init

VARIABLES top, src, isRegional, fallbackRequisiteZones, pickPc, zones, key, placed, answer,
          tries
pickVars == <<top, src, isRegional, fallbackRequisiteZones, pickPc, zones, key, placed, answer,
               tries>>
\* Three zones of one region and two of another; preferred zones are among the
\* requisite ones, each once.
MCRegionOf == <<"w1", "w1", "w1", "w12", "w12">>
Preferred(req) == {p \in SeqOf(req, 2) : IsInjective(p)}
MCTopologies ==
  {[given |-> FALSE, pref |-> <<>>, req |-> {}]}
    \cup UNION {{[given |-> TRUE, pref |-> p, req |-> q] : p \in Preferred(q)} : q \in SUBSET (1 .. 5) \ {{}}}
Picking == INSTANCE ZonePicking WITH Zones <- 1 .. 5, RegionOf <- MCRegionOf,
  Named <- [z \in 1 .. 5 |-> {MCRegionOf[z]}], DefaultZone <- 1, Topologies <- MCTopologies,
  Fallbacks <- {{}, {2, 4, 5}}, MaxTries <- 2, pc <- pickPc, disks <- placed
NoMoreTries == pickPc = "idle" /\ tries = 2 /\ UNCHANGED pickVars
PickAtRest == /\ top = [given |-> FALSE, pref |-> <<>>, req |-> {}] /\ src = Picking!NoSource
              /\ isRegional = FALSE /\ fallbackRequisiteZones = {} /\ Picking!Init

VARIABLES enabled, policy, pvc, pv, provisioner, exists, attached, labels, publisher, read,
          cleaner, hasPV, hasPVC, current, edits, failures
cleanupVars == <<enabled, policy, pvc, pv, provisioner, exists, attached, labels, publisher,
                  read, cleaner, hasPV, hasPVC, current, edits, failures>>
Cleanup == INSTANCE DiskCleanup WITH CleanupEnabled <- BOOLEAN, Policies <- {"Delete", "Retain"},
  MaxEdits <- 1, MaxFailures <- 1, MaxUpdates <- 3, claim <- pvc, volume <- pv, disk <- exists
CleanupAtRest == enabled = FALSE /\ policy = "Delete" /\ Cleanup!Init

PartsInit ==
  \/ part = "dynamic" /\ CreateAtRest /\ PickAtRest /\ CleanupAtRest /\ Init
  \/ part = "one zone" /\ DynamicAtRest /\ PickAtRest /\ CleanupAtRest /\ OneZone!Init
  \/ part = "creating" /\ DynamicAtRest /\ PickAtRest /\ CleanupAtRest /\ Creating!Init
  \/ part = "multi zone" /\ DynamicAtRest /\ PickAtRest /\ CleanupAtRest /\ MultiZone!Init
  \/ part = "picking" /\ DynamicAtRest /\ CreateAtRest /\ CleanupAtRest /\ Picking!Init
  \/ part = "cleanup" /\ DynamicAtRest /\ CreateAtRest /\ PickAtRest /\ Cleanup!Init

DynamicStep == /\ part = "dynamic" /\ (Next \/ Served)
               /\ UNCHANGED <<part, createVars, pickVars, cleanupVars>>
OneZoneStep == /\ part = "one zone" /\ OneZone!Next
               /\ UNCHANGED <<part, vars, pickVars, cleanupVars>>
CreatingStep == /\ part = "creating" /\ Creating!Next
                /\ UNCHANGED <<part, vars, pickVars, cleanupVars>>
MultiZoneStep == /\ part = "multi zone" /\ MultiZone!Next
                 /\ UNCHANGED <<part, vars, pickVars, cleanupVars>>
PickingStep == /\ part = "picking" /\ (Picking!Next \/ NoMoreTries)
               /\ UNCHANGED <<part, vars, createVars, cleanupVars>>
CleanupStep == /\ part = "cleanup" /\ Cleanup!Next
               /\ UNCHANGED <<part, vars, createVars, pickVars>>
PartsNext == DynamicStep \/ OneZoneStep \/ CreatingStep \/ MultiZoneStep \/ PickingStep \/
             CleanupStep
PartsSpec == PartsInit /\ [][PartsNext]_<<part, vars, createVars, pickVars, cleanupVars>>

(***************************************************************************)
(* Properties: what each part promises, from the properties of its module. *)
(***************************************************************************)
\* The answer for a dynamic volume names the type of its disk. With valid parameters and no
\* type from a VolumeAttributesClass the volume keeps those that apply to its disk type,
\* and it has one disk as long as the preferred node stays; it is served in the end when
\* its request is valid, whatever was lost.
DynamicVolumeIsServed ==
  /\ [](TypeOK /\ TopologyNamesTheDisk /\ ApplicableParametersAreKept /\ OneDiskForOneNode)
  /\ part # "dynamic" \/ ProvisionedInTheEnd

\* CreateVolume in one zone makes no second disk on a retry, after a final error it leaves
\* none, where the read of the disk after a duplicate insert does not fail, and what it
\* returns is ready; a claim that stays is provisioned in the end or gets a final error,
\* and once it is gone what was created, or may have been, is deleted. The answer to a
\* multi-zone CreateVolume names every zone that has a disk, and after a DeleteVolume no
\* zone keeps one, although single zones fail.
CreateLeaksNothing ==
  /\ [](OneZone!TypeOK /\ OneZone!ProvisionedIsReady)
  /\ [](part # "multi zone" => OneZone!OneDiskPerVolume /\ OneZone!FinalErrorLeavesNoDisk)
  /\ [](part = "multi zone" => MultiZone!ResponseNamesEveryDisk /\ MultiZone!DeletedMeansGone)
  /\ part # "creating" \/ Creating!ProvisionedInTheEnd
  /\ part # "creating" \/ Creating!DeletedInTheEnd

\* A clone is at its source, replicas are in two zones of one region, the fallback zones
\* come last, a regional clone with a topology and no fallback zones is in the region of
\* its source, where no region's name is contained in the name of another region's zone,
\* and retries with a preferred zone, or without a topology, pick the place of the disk
\* they made before.
ZonesMeetTheRequest ==
  /\ Picking!TypeOK /\ Picking!CloneIsAtItsSource /\ Picking!ReplicasDiffer
  /\ Picking!FallbackIsLast /\ Picking!PickedCloneIsInRegion /\ Picking!RetriesMeetOneDisk

\* The clean-up deletes no disk whose claim exists and undoes no edit of labels, whatever
\* the provisioner and the publishes do between its steps; a disk whose claim is gone
\* before it got a PersistentVolume is deleted after some start of the driver.
CleanupDeletesTheLeaked ==
  /\ []Cleanup!TypeOK
  /\ Cleanup!ClaimedDiskIsKept /\ Cleanup!UserLabelsAreKept
  /\ part # "cleanup" \/ Cleanup!LeakedDiskIsDeleted

=============================================================================
