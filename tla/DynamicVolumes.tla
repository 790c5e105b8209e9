--------------------------- MODULE DynamicVolumes ---------------------------
(***************************************************************************)
(* CreateVolume for a StorageClass of type "dynamic": the parameters are   *)
(* extracted, the disk type is selected from the source or from the node   *)
(* that the scheduler prefers, parameters that do not apply to it are      *)
(* dropped, and the disk is looked up, checked or inserted.  The call is   *)
(* repeated until it succeeds, and the preferred node may change meanwhile.*)
(* Handlers that overlap are in CreateVolume.                              *)
(***************************************************************************)
EXTENDS Integers, FiniteSets

CONSTANTS Machines,    \* for each machine, the disk types it is labelled with
          Given,       \* the sets of parameters that a class may give
          Invalid,     \* those of them that may have a value that is refused
          SourceTypes, \* the types a source volume may have; "none": no source
          ClassTypes,  \* the types a VolumeAttributesClass may name, or "none"
          MaxMoves,    \* how often another node may be preferred
          MaxFaults

VARIABLES given, invalid, preference, source, vac, \* the request
          machine,  \* the preferred node
          call,     \* the handler: its step and its parameters
          disks,    \* the disk of that name in the zone and in the region
          volume,   \* the answered volume: its place and the type in its topology
          reply, moves, faults
request == <<given, invalid, preference, source, vac>>
vars == <<request, machine, call, disks, volume, reply, moves, faults>>

HD == "hyperdisk-balanced"
PD == "pd-balanced"
DefaultType == "pd-standard"
NoDisk == [type |-> "none", keys |-> {}]
NoVolume == [at |-> "nowhere", type |-> "none"]
Idle == [pc |-> "idle", type |-> "none", keys |-> {}]
Fault == faults < MaxFaults /\ faults' = faults + 1
Works == UNCHANGED faults

Init ==
  /\ given \in Given /\ invalid \in SUBSET (given \cap Invalid)
  /\ preference \in {HD, PD} /\ source \in SourceTypes /\ vac \in ClassTypes
  /\ machine \in Machines
  /\ call = Idle /\ disks = [at \in {"zone", "region"} |-> NoDisk]
  /\ volume = NoVolume /\ reply = "none" /\ moves = 0 /\ faults = 0

(***************************************************************************)
(* The parameters.                                                         *)
(***************************************************************************)
\* Mutant: a parameter counts only if it comes after the type.
ExtractedAfterType == {taken \cup {"type"} : taken \in SUBSET given}
\* The parameters are taken in no fixed order up to the first invalid one.  What
\* was taken by then is returned beside the error.
Extracted == IF invalid = {} THEN {given \cup {"type"}}
             ELSE SUBSET ((given \cup {"type"}) \ invalid)

selectDiskTypeFromTopologies ==
  LET isHDSupported == HD \in machine
      isPDSupported == PD \in machine
  IN  IF isHDSupported /\ ~isPDSupported THEN HD
      ELSE IF isPDSupported /\ ~isHDSupported THEN PD ELSE preference
SelectDisk == IF source = "none" THEN selectDiskTypeFromTopologies ELSE source
Selectable == source \in {"none", HD, PD}

Inapplicable(type) ==
  CASE type = HD -> {"replication-type"}
    [] type = PD -> {"provisioned-iops-on-create"}
    [] OTHER -> {}
\* Mutant: everything is kept.
SanitizeNothing(type, keys) == keys
SanitizeDiskParameters(type, keys) == keys \ Inapplicable(type)

Return(code) == reply' = code /\ call' = Idle

\* createVolumeInternal: SelectDisk is called when the type that was extracted is
\* dynamic, and its error replaces that of the extraction.  A class of the claim
\* that names a type goes before.
CreateVolume(taken) ==
  /\ call = Idle /\ volume = NoVolume
  /\ IF "type" \notin taken \/ ~Selectable
     THEN Return("InvalidArgument")
     ELSE /\ call' = [pc   |-> "get",
                      type |-> IF vac = "none" THEN SelectDisk ELSE vac,
                      keys |-> SanitizeDiskParameters(SelectDisk, taken \ {"type"})]
          /\ UNCHANGED reply
  /\ UNCHANGED <<request, machine, disks, volume, moves, faults>>

(***************************************************************************)
(* The disk.                                                               *)
(***************************************************************************)
\* Mutant: from the parameters of the class.
PlaceOfClass == IF "replication-type" \in given THEN "region" ELSE "zone"
\* A regional disk has another key than a zonal one.
Place == IF "replication-type" \in call.keys THEN "region" ELSE "zone"
Key(keys) == keys \cap {"disk-encryption-kms-key"}

\* Mutant: the type is not compared.
ValidateAllButType(d) == IF Key(d.keys) # Key(call.keys) THEN "KMS key did not match" ELSE "OK"
\* IsDiskDynamic is false for every request that comes here: its type was replaced.
ValidateDiskParameters(d) ==
  IF d.type # call.type THEN "type did not match"
  ELSE IF Key(d.keys) # Key(call.keys) THEN "KMS key did not match" ELSE "OK"

\* generateCreateVolumeResponseWithVolumeId: the topology has the type of the
\* parameters.
Answer == volume' = [at |-> Place, type |-> call.type] /\ Return("OK")
\* Mutant: a disk that is there is refused.
GetDiskExists ==
  /\ call.pc = "get"
  /\ IF disks[Place] = NoDisk
     THEN call' = [call EXCEPT !.pc = "insert"] /\ UNCHANGED <<volume, reply>>
     ELSE Return("AlreadyExists") /\ UNCHANGED volume
  /\ UNCHANGED <<request, machine, disks, moves, faults>>
GetDisk ==
  /\ call.pc = "get"
  /\ \/ Fault /\ Return("Unavailable") /\ UNCHANGED volume
     \/ /\ Works
        /\ LET d == disks[Place]
           IN  \/ /\ d = NoDisk /\ call' = [call EXCEPT !.pc = "insert"]
                  /\ UNCHANGED <<volume, reply>>
               \/ d # NoDisk /\ ValidateDiskParameters(d) = "OK" /\ Answer
               \/ /\ d # NoDisk /\ ValidateDiskParameters(d) # "OK"
                  /\ Return(ValidateDiskParameters(d)) /\ UNCHANGED volume
  /\ UNCHANGED <<request, machine, disks, moves>>
InsertDisk ==
  /\ call.pc = "insert"
  /\ \/ /\ disks' = [disks EXCEPT ![Place] = [type |-> call.type, keys |-> call.keys]]
        /\ \/ Works /\ Answer
           \/ Fault /\ Return("Unavailable") /\ UNCHANGED volume   \* the response is lost
     \/ Fault /\ Return("Unavailable") /\ UNCHANGED <<disks, volume>>
  /\ UNCHANGED <<request, machine, moves>>

\* The preferred node is gone, or does not suit: the scheduler picks another.
PreferAnotherNode ==
  /\ call = Idle /\ volume = NoVolume /\ moves < MaxMoves /\ moves' = moves + 1
  /\ machine' \in Machines \ {machine}
  /\ UNCHANGED <<request, call, disks, volume, reply, faults>>

Next == \/ \E taken \in Extracted : CreateVolume(taken)
        \/ GetDisk \/ InsertDisk \/ PreferAnotherNode
Spec == Init /\ [][Next]_vars
\* The provisioner calls again, and a handler runs to its end.
Fairness == WF_vars(\E taken \in Extracted : CreateVolume(taken)) /\ WF_vars(GetDisk \/ InsertDisk)

(***************************************************************************)
(* Properties.                                                             *)
(***************************************************************************)
TypeOK ==
  /\ volume.at \in {"nowhere", "zone", "region"}
  /\ volume # NoVolume => disks[volume.at] # NoDisk
  /\ \A at \in DOMAIN disks : disks[at].type \in {"none", HD, PD}
  /\ disks["region"] # NoDisk => "replication-type" \in disks["region"].keys

\* The volume can be attached to the node it was made for: a retry for another node
\* than the one an earlier, lost call made the disk for does not take that disk
\* unless its type is the one selected for this node.
SuitsTheNode ==
  (volume # NoVolume /\ source = "none" /\ vac = "none" /\ machine \cap {HD, PD} # {})
     => disks[volume.at].type \in machine

\* The type in the topology of the answer is the type of the disk, so that pods go
\* only to nodes that support it, also when the disk comes from an earlier call.
TopologyNamesTheDisk == volume # NoVolume => volume.type = disks[volume.at].type

\* A disk is made with every given parameter that applies to its type, and with no
\* other: CreateVolume drops what SanitizeDiskParameters says and nothing else.  (A
\* class that names a type comes after that, so its disks are left out.)
ApplicableParametersAreKept ==
  vac = "none" => \A at \in DOMAIN disks :
     disks[at] # NoDisk => disks[at].keys = given \ Inapplicable(disks[at].type)

\* While the preferred node stays the same, retries meet the disk of the first call
\* and no second one is made: the selection depends on nothing else.
OneDiskForOneNode ==
  moves = 0 => Cardinality({at \in DOMAIN disks : disks[at] # NoDisk}) <= 1

\* A request that is valid is served, whatever was lost, when the preferred node
\* stays the same.
ProvisionedInTheEnd ==
  Fairness => <>(volume # NoVolume \/ moves > 0 \/ ~Selectable \/ vac # "none" \/ invalid # {})

\* A dynamic volume is not refused because of the type of its disk.
\* The code does not have this property (README, Observations): a retry for a node of
\* the other kind is refused.
TypeIsNotRefused == reply # "type did not match"
=============================================================================
