-------------------------- MODULE MCDriverProcess ---------------------------
(***************************************************************************)
(* What a driver process holds and how that outlives it: its background    *)
(* work and the shutdown, the list that ListVolumes and ListSnapshots      *)
(* serve their pages from, and the volume groups of the data cache. They   *)
(* share no state, so a property of one of them holds of them together if  *)
(* it holds where only that one moves: part says which one does, and the   *)
(* others stay in an initial state.                                        *)
(***************************************************************************)
EXTENDS Shutdown

CONSTANTS v1, v2

VARIABLE part


VARIABLES kind, instances, disks, uses, entries, seen, listPc, page, listed, nodes, token, got,
          own, was, always, changes
listingVars == <<kind, instances, disks, uses, entries, seen, listPc, page, listed, nodes,
                  token, got, own, was, always, changes>>
\* Two clients that list three disks on two pages of the API; and one client, while
\* disks are attached and detached.
PageOf == [d \in {"d1", "d2", "d3"} |-> IF d = "d1" THEN 1 ELSE 2]
Listings == INSTANCE Listing WITH Clients <- {"c1", "c2"}, Disks <- {"d1", "d2", "d3"},
  Nodes <- {}, MultiZone <- {}, Kinds <- {"volumes"}, Instances <- {FALSE}, MaxEntries <- 1,
  MaxChanges <- 0, present <- disks, pc <- listPc
Published == INSTANCE Listing WITH Clients <- {"c1"}, Disks <- {"d1", "d2"},
  Nodes <- {"n1", "n2"}, MultiZone <- {"d1", "d2"}, Kinds <- {"volumes"}, Instances <- BOOLEAN,
  MaxEntries <- 2, MaxChanges <- 1, present <- disks, pc <- listPc
ListingAtRest == disks = {} /\ Listings!Init

VARIABLES at, meta, ssd, inc, boot, step, staged, touched, data, ids, commandFailures,
          driverCrashes
lvmVars == <<at, meta, ssd, inc, boot, step, staged, touched, data, ids, commandFailures,
              driverCrashes>>
\* One volume that moves between two nodes.
OneVolume == INSTANCE DataCache WITH Volumes <- {v1}, Nodes <- {"n1", "n2"},
  MaxPreemptions <- 1, MaxFailures <- 1, MaxCrashes <- 1, MaxGroups <- 4,
  LvsFailsOnMissingPV <- FALSE, BootFails <- FALSE, QueriesFail <- FALSE,
  call <- step, failures <- commandFailures, crashes <- driverCrashes

VARIABLES theAt, theMeta, theSsd, theInc, theBoot, theCall, theStaged, theTouched, theData,
          theIds, theFailures, theCrashes
groupVars == <<theAt, theMeta, theSsd, theInc, theBoot, theCall, theStaged, theTouched, theData,
                theIds, theFailures, theCrashes>>
\* Two volumes on a node; and one, where queries and the set-up of the node fail too.
TwoVolumes == INSTANCE DataCache WITH Volumes <- {v1, v2}, Nodes <- {"n1"},
  MaxPreemptions <- 0, MaxFailures <- 1, MaxCrashes <- 1, MaxGroups <- 4,
  LvsFailsOnMissingPV <- FALSE, BootFails <- FALSE, QueriesFail <- FALSE,
  at <- theAt, meta <- theMeta, ssd <- theSsd, inc <- theInc,
  boot <- theBoot, call <- theCall, staged <- theStaged, touched <- theTouched,
  data <- theData, ids <- theIds, failures <- theFailures, crashes <- theCrashes
Faults == INSTANCE DataCache WITH Volumes <- {v1}, Nodes <- {"n1"},
  MaxPreemptions <- 1, MaxFailures <- 2, MaxCrashes <- 1, MaxGroups <- 4,
  LvsFailsOnMissingPV <- TRUE, BootFails <- TRUE, QueriesFail <- TRUE,
  at <- theAt, meta <- theMeta, ssd <- theSsd, inc <- theInc,
  boot <- theBoot, call <- theCall, staged <- theStaged, touched <- theTouched,
  data <- theData, ids <- theIds, failures <- theFailures, crashes <- theCrashes

PartsInit ==
  \/ part = "shutdown" /\ ListingAtRest /\ OneVolume!Init /\ TwoVolumes!Init /\ Init
  \/ part = "listings" /\ Init /\ OneVolume!Init /\ TwoVolumes!Init /\ Listings!Init
  \/ part = "published" /\ Init /\ OneVolume!Init /\ TwoVolumes!Init /\ Published!Init
  \/ part = "one volume" /\ Init /\ ListingAtRest /\ TwoVolumes!Init /\ OneVolume!Init
  \/ part = "two volumes" /\ Init /\ ListingAtRest /\ OneVolume!Init /\ TwoVolumes!Init
  \/ part = "faults" /\ Init /\ ListingAtRest /\ OneVolume!Init /\ Faults!Init

ShutdownStep == /\ part = "shutdown" /\ (Next \/ Rest)
                /\ UNCHANGED <<part, listingVars, lvmVars, groupVars>>
ListingsStep == /\ part = "listings" /\ Listings!Next
                /\ UNCHANGED <<part, vars, lvmVars, groupVars>>
PublishedStep == /\ part = "published" /\ Published!Next
                 /\ UNCHANGED <<part, vars, lvmVars, groupVars>>
OneVolumeStep == /\ part = "one volume" /\ OneVolume!Next
                 /\ UNCHANGED <<part, vars, listingVars, groupVars>>
TwoVolumesStep == /\ part = "two volumes" /\ TwoVolumes!Next
                  /\ UNCHANGED <<part, vars, listingVars, lvmVars>>
FaultsStep == /\ part = "faults" /\ Faults!Next
              /\ UNCHANGED <<part, vars, listingVars, lvmVars>>
PartsNext == ShutdownStep \/ ListingsStep \/ PublishedStep \/ OneVolumeStep \/ TwoVolumesStep \/
             FaultsStep
PartsSpec == PartsInit /\ [][PartsNext]_<<part, vars, listingVars, lvmVars, groupVars>>

(***************************************************************************)
(* Properties: what each part promises, from the properties of its module. *)
(***************************************************************************)
\* The shutdown ends, though handlers and workers may hang.
ShutdownReturns == []TypeOK /\ (part # "shutdown" \/ ShutdownEnds)

\* A client that reads all pages gets exactly the list its first call made, whatever other
\* clients list in between; a volume is reported on every node that used it all the time of
\* the listing and only on nodes that used it at some time of it; and every listing of
\* volumes is answered.
ListingsAreTrue ==
  /\ [](part # "published" => Listings!TypeOK)
  /\ [](part = "listings" => Listings!PagesAreOfOneListing)
  /\ [](part = "published" => Published!PublishedNodesAreTrue)
  /\ part # "published" \/ Published!ListingEnds

\* The main volume with the data of the user survives every order of staging, unstaging,
\* preemption, failed commands and sweeps of the watcher, for one volume that moves between
\* nodes and for two volumes on a node that keeps its SSD; under the assumption that lvs
\* exits without an error when a PV is missing, that scans do not fail and that the set-up
\* of the node does not. Without any one of them, or with two volumes of a preempted node,
\* it does not hold (README, Observations).
UserDataSurvives == OneVolume!UserDataSurvives /\ (part = "two volumes" => TwoVolumes!UserDataSurvives)

\* A volume that setupCaching succeeded for is cached on the SSD its node has now, a disk
\* is split from the group of the node before it is detached, where vgscan and lvscan do
\* not fail, and one that stays attached is staged in the end: setupCaching gets out of
\* every state that a preemption, a crash or a failed command leaves.
VolumesGetTheirCache ==
  /\ [](OneVolume!TypeOK /\ OneVolume!StagedIsCached)
  /\ [](part = "two volumes" => TwoVolumes!StagedIsCached)
  /\ [](part = "faults" => Faults!StagedIsCached)
  /\ OneVolume!DetachedDiskIsSplit
  /\ part # "one volume" \/ OneVolume!StagedInTheEnd

=============================================================================
