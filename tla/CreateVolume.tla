---------------------------- MODULE CreateVolume ----------------------------
(***************************************************************************)
(* CreateVolume and DeleteVolume of one name, as a volume in one zone or   *)
(* as a multi-zone volume with a disk of that name in several zones.       *)
(*                                                                         *)
(* The external provisioner calls CreateVolume until it succeeds.  A call  *)
(* that outlives its deadline is retried while its handler, whose context  *)
(* is done, may still run; handlers exclude each other by the volume lock. *)
(* What matters to the provisioner is whether an error is final (the       *)
(* volume does not exist: forget it, or try another zone) or not (it may   *)
(* exist: try again, even for a claim that is deleted).                    *)
(***************************************************************************)
EXTENDS Integers, FiniteSets, FiniteSetsExt, TLC

CONSTANTS Zones,        \* the zones of the region, numbers in the order of their names
          Handlers,
          MultiZone,    \* multi-zone provisioning?
          ReadsThatFail, \* GetDisk calls that may fail: "first", "exists", "after", "list"
          BadDisks,     \* may a disk be created with status FAILED?
          Foreign,      \* zones where someone else makes a disk of that name
          MaxFaults, MaxFinal

VARIABLES disk,    \* the status of the disk of that name in each zone
          sent,    \* zones with an insert request the client no longer waits for
          h,       \* the handlers
          owner,   \* the handler that holds the volume lock, or NoOne
          cur,     \* the handler whose reply the provisioner waits for, or NoOne
          phase, claim, uncertain,
          topology, \* the zones the provisioner asks for
          volume,  \* the zones of the volume in the response
          faults, finals
vars == <<disk, sent, h, owner, cur, phase, claim, uncertain, topology, volume, faults, finals>>
provisioner == <<phase, claim, uncertain, topology, volume, finals>>

NoOne == "no one"
NoDisk == "no disk"
Codes == {"OK", "Aborted", "Unavailable", "AlreadyExists", "FailedPrecondition",
          "PermissionDenied", "Internal"}
csiRetryableErrorCodes == {"Aborted", "Unavailable"}
Idle == [pc |-> "idle", zone |-> 0, todo |-> {}, zones |-> {}, code |-> "OK"]
Ours == {z \in Zones : disk[z] \in {"creating", "ready", "failed"}}
Coming == {z \in sent : disk[z] = NoDisk}

Init ==
  /\ disk = [z \in Zones |-> NoDisk]
  /\ sent = {}
  /\ h = [c \in Handlers |-> Idle] /\ owner = NoOne /\ cur = NoOne
  /\ phase = "creating" /\ claim = TRUE /\ uncertain = FALSE
  /\ topology \in IF MultiZone THEN {Zones} ELSE {{z} : z \in Zones}
  /\ volume = {} /\ faults = 0 /\ finals = 0

(***************************************************************************)
(* Handlers.                                                               *)
(***************************************************************************)
Goto(c, step) == h' = [h EXCEPT ![c].pc = step]

\* An API call fails: always when the context of the handler is done.
Fault(c) == \/ c # cur /\ UNCHANGED faults
            \/ c = cur /\ faults < MaxFaults /\ faults' = faults + 1
Works(c) == c = cur /\ UNCHANGED faults

\* A handler that took the lock gives it back when it returns.
Release(c) == owner' = IF owner = c THEN NoOne ELSE owner

\* The provisioner's side of a reply.
CreateReplied(c, code) ==
  /\ phase' = IF code = "OK" THEN (IF claim THEN "provisioned" ELSE "deleting")
              ELSE IF code \notin csiRetryableErrorCodes /\ ~claim THEN "gone" ELSE phase
  /\ uncertain' = (code \in csiRetryableErrorCodes)
  /\ volume' = IF code = "OK" THEN h[c].zones ELSE volume
  /\ finals' = IF code = "OK" \/ code \in csiRetryableErrorCodes \/ finals > MaxFinal
               THEN finals ELSE finals + 1
  /\ IF code = "OK" \/ code \in csiRetryableErrorCodes THEN UNCHANGED topology
     ELSE topology' \in IF MultiZone THEN {topology} ELSE {{z} : z \in Zones}
  /\ UNCHANGED claim
Return(c, code) ==
  /\ h' = [h EXCEPT ![c] = Idle] /\ Release(c)
  /\ IF c # cur THEN UNCHANGED <<cur, provisioner>>
     ELSE cur' = NoOne /\ CreateReplied(c, code)

\* createSingleDisk has returned code: createSingleDeviceDisk passes it on,
\* createMultiZoneDisk notes the first error and goes on with the next zone.
DiskReturned(c, code) ==
  LET first == IF h[c].code # "OK" THEN h[c].code ELSE code
  IN  IF h[c].todo = {} THEN Return(c, first)
      ELSE /\ h' = [h EXCEPT ![c].pc = "get", ![c].zone = Min(h[c].todo),
                             ![c].todo = @ \ {Min(h[c].todo)}, ![c].code = first]
           /\ UNCHANGED <<owner, cur, provisioner>>

\* Mutant: only the zones asked for.
ListedTopology == topology
\* getMultiZoneProvisioningZones: the zones asked for and those with a disk of
\* that name and type.  The lock is not held.
Listed == IF MultiZone THEN topology \cup Ours ELSE topology
List(c) ==
  /\ h[c].pc = "list"
  /\ \/ /\ (IF MultiZone THEN Works(c) ELSE UNCHANGED faults)
        /\ h' = [h EXCEPT ![c].pc = "lock", ![c].zones = Listed]
        /\ UNCHANGED <<owner, cur, provisioner>>
     \/ MultiZone /\ (c = cur => "list" \in ReadsThatFail) /\ Fault(c) /\ Return(c, "Internal")
  /\ UNCHANGED <<disk, sent>>
Lock(c) ==
  /\ h[c].pc = "lock"
  /\ IF owner # NoOne THEN Return(c, "Aborted")
     ELSE /\ owner' = c
          /\ h' = [h EXCEPT ![c].pc = "get", ![c].zone = Min(h[c].zones),
                            ![c].todo = h[c].zones \ {Min(h[c].zones)}]
          /\ UNCHANGED <<cur, provisioner>>
  /\ UNCHANGED <<disk, sent, faults>>

\* Mutant: a failed GetDisk is taken for a missing disk, another reply for a disk
\* that is ready.
GetDiskUnvalidated(c) ==
  /\ h[c].pc = "get"
  /\ IF disk[h[c].zone] = NoDisk THEN Goto(c, "insert") /\ UNCHANGED <<owner, cur, provisioner>>
     ELSE DiskReturned(c, "OK")
  /\ UNCHANGED <<disk, sent, faults>>
\* Mutant: a disk that is not ready is an error of its own.
GetDiskFinal(c) ==
  /\ h[c].pc = "get"
  /\ LET status == disk[h[c].zone]
     IN  \/ Fault(c) /\ DiskReturned(c, "Unavailable")
         \/ /\ Works(c)
            /\ \/ status = NoDisk /\ Goto(c, "insert") /\ UNCHANGED <<owner, cur, provisioner>>
               \/ status \in {"foreign", "creating", "failed"} /\ DiskReturned(c, "AlreadyExists")
               \/ status = "ready" /\ DiskReturned(c, "OK")
  /\ UNCHANGED <<disk, sent>>
\* Mutant: a disk that is there is refused.
GetDiskNotIdempotent(c) ==
  /\ h[c].pc = "get"
  /\ \/ Fault(c) /\ DiskReturned(c, "Unavailable")
     \/ /\ Works(c)
        /\ IF disk[h[c].zone] = NoDisk
           THEN Goto(c, "insert") /\ UNCHANGED <<owner, cur, provisioner>>
           ELSE DiskReturned(c, "Aborted")
  /\ UNCHANGED <<disk, sent>>
\* GetDisk, ValidateExistingDisk, isDiskReady.
GetDisk(c) ==
  /\ h[c].pc = "get"
  /\ LET status == disk[h[c].zone]
     IN  \/ (c = cur => "first" \in ReadsThatFail) /\ Fault(c) /\ DiskReturned(c, "Unavailable")
         \/ /\ Works(c)
            /\ \/ status = NoDisk /\ Goto(c, "insert") /\ UNCHANGED <<owner, cur, provisioner>>
               \/ status = "foreign" /\ DiskReturned(c, "AlreadyExists")
               \/ status \in {"creating", "failed"} /\ DiskReturned(c, "Aborted")
               \/ status = "ready" /\ DiskReturned(c, "OK")
  /\ UNCHANGED <<disk, sent>>

\* insertConstructedDisk: the request is accepted, refused, or its answer is
\* lost.  Requests for a name are handled in the order they were sent, and one
\* for a name that exists is refused as a duplicate before anything else.
Insert(c) ==
  /\ h[c].pc = "insert"
  /\ LET z == h[c].zone
     IN  \/ /\ Works(c) /\ z \notin sent
            /\ IF disk[z] = NoDisk THEN disk' = [disk EXCEPT ![z] = "creating"] /\ Goto(c, "wait")
               ELSE Goto(c, "exists") /\ UNCHANGED disk
            /\ UNCHANGED <<sent, owner, cur, provisioner>>
         \/ /\ c = cur /\ z \notin sent /\ disk[z] = NoDisk /\ finals < MaxFinal
            /\ DiskReturned(c, "PermissionDenied") /\ UNCHANGED <<disk, sent, faults>>
         \/ /\ Fault(c) /\ sent' \in {sent, IF c = cur THEN sent \cup {z} ELSE sent}
            /\ DiskReturned(c, "Unavailable") /\ UNCHANGED disk

\* processDiskAlreadyExistErr after an insert that was refused as a duplicate:
\* a disk that does not match, or GetDisk failing, returns the error of the
\* insert (409); otherwise it waits for an operation that has no name.
AlreadyExists(c) ==
  /\ h[c].pc = "exists"
  /\ \/ (c = cur => "exists" \in ReadsThatFail) /\ Fault(c) /\ DiskReturned(c, "FailedPrecondition")
     \/ /\ Works(c)
        /\ IF disk[h[c].zone] = "foreign" THEN DiskReturned(c, "FailedPrecondition")
           ELSE DiskReturned(c, "Unavailable")
  /\ UNCHANGED <<disk, sent>>

\* waitForZonalOp: the operation is done, has failed, or cannot be polled.
\* Mutant: the error of the polling is passed on with its own code.
WaitForOpFinal(c) ==
  /\ h[c].pc = "wait"
  /\ \/ /\ Works(c) /\ disk[h[c].zone] # "creating"
        /\ Goto(c, "after") /\ UNCHANGED <<owner, cur, provisioner>>
     \/ Fault(c) /\ DiskReturned(c, "Internal")
  /\ UNCHANGED <<disk, sent>>
WaitForOp(c) ==
  /\ h[c].pc = "wait"
  /\ \/ /\ Works(c) /\ disk[h[c].zone] # "creating"
        /\ Goto(c, "after") /\ UNCHANGED <<owner, cur, provisioner>>
     \/ Fault(c) /\ DiskReturned(c, "Unavailable")
  /\ UNCHANGED <<disk, sent>>
\* GetDisk and isDiskReady of the new disk.
GetNewDisk(c) ==
  /\ h[c].pc = "after"
  /\ \/ (c = cur => "after" \in ReadsThatFail) /\ Fault(c) /\ DiskReturned(c, "Unavailable")
     \/ /\ Works(c)
        /\ DiskReturned(c, CASE disk[h[c].zone] = "ready" -> "OK"
                             [] disk[h[c].zone] = NoDisk -> "Unavailable"
                             [] OTHER -> "Internal")
  /\ UNCHANGED <<disk, sent>>

\* DeleteVolume: deleteSingleDeviceDisk, or deleteMultiZoneDisk zone by zone.
\* Mutant: an error in one zone is only logged.
DeleteReturnLogged(c, code) ==
  /\ h' = [h EXCEPT ![c] = Idle] /\ Release(c)
  /\ IF c # cur THEN UNCHANGED <<cur, phase>>
     ELSE cur' = NoOne /\ phase' = IF code = "Aborted" THEN phase ELSE "gone"
\* Mutant: a delete that was retried is not reported.
DeleteReturnLost(c, code) ==
  /\ h' = [h EXCEPT ![c] = Idle] /\ Release(c)
  /\ IF c # cur THEN UNCHANGED <<cur, phase>> ELSE cur' = NoOne /\ UNCHANGED phase
DeleteReturn(c, code) ==
  /\ h' = [h EXCEPT ![c] = Idle] /\ Release(c)
  /\ IF c # cur THEN UNCHANGED <<cur, phase>>
     ELSE cur' = NoOne /\ phase' = IF code = "OK" THEN "gone" ELSE phase
DeleteLock(c) ==
  /\ h[c].pc = "dlock"
  /\ IF owner # NoOne THEN DeleteReturn(c, "Aborted")
     ELSE LET zones == IF MultiZone THEN Zones ELSE volume
          IN  /\ owner' = c
              /\ h' = [h EXCEPT ![c].pc = "delete", ![c].zone = Min(zones), ![c].todo = zones \ {Min(zones)}]
              /\ UNCHANGED <<cur, phase>>
  /\ UNCHANGED <<disk, sent, claim, uncertain, topology, volume, faults, finals>>
\* When the disk of a zone cannot be deleted the error that is noted is that of
\* deleting the disk of the zone "multi-zone", which may be nil; with no other
\* error, LoggedError dereferences the nil that is left and the process panics.
NextDelete(c, code) ==
  IF h[c].todo = {} /\ code = "nil"
  THEN h' = [d \in Handlers |-> Idle] /\ owner' = NoOne /\ cur' = NoOne /\ UNCHANGED phase
  ELSE IF h[c].todo = {} THEN DeleteReturn(c, code)
  ELSE /\ h' = [h EXCEPT ![c].zone = Min(h[c].todo), ![c].todo = @ \ {Min(h[c].todo)}, ![c].code = code]
       /\ UNCHANGED <<owner, cur, phase>>
DeleteDisk(c) ==
  /\ h[c].pc = "delete"
  /\ LET z == h[c].zone
         gone == [disk EXCEPT ![z] = NoDisk]
     IN  \/ Works(c) /\ disk' = gone /\ NextDelete(c, h[c].code)
         \/ /\ Fault(c) /\ disk' \in {disk, IF c = cur THEN gone ELSE disk}
            /\ \/ NextDelete(c, "Internal")
               \/ MultiZone /\ NextDelete(c, IF h[c].code = "OK" THEN "nil" ELSE h[c].code)
  /\ UNCHANGED <<sent, claim, uncertain, topology, volume, finals>>

(***************************************************************************)
(* The provisioner and the compute API.                                    *)
(***************************************************************************)
\* A lost request has been handled before the volume is deleted, and before a
\* multi-zone volume is asked for again.
Call ==
  /\ cur = NoOne
  /\ phase = "deleting" \/ MultiZone => sent = {}
  /\ phase = "deleting" \/ (phase = "creating" /\ (claim \/ uncertain))
  /\ \E c \in Handlers :
       /\ h[c] = Idle /\ cur' = c
       /\ h' = [h EXCEPT ![c].pc = IF phase = "creating" THEN "list" ELSE "dlock"]
  /\ UNCHANGED <<disk, sent, owner, faults, provisioner>>
\* The deadline of the call passes.
Deadline ==
  /\ cur # NoOne /\ faults < MaxFaults /\ faults' = faults + 1
  /\ cur' = NoOne /\ uncertain' = TRUE
  /\ UNCHANGED <<disk, sent, h, owner, phase, claim, topology, volume, finals>>
DeleteClaim ==
  /\ claim /\ claim' = FALSE
  /\ phase' = CASE phase = "provisioned" -> "deleting"
                [] phase = "creating" /\ ~uncertain /\ cur = NoOne -> "gone"
                [] OTHER -> phase
  /\ UNCHANGED <<disk, sent, h, owner, cur, uncertain, topology, volume, faults, finals>>
\* Nodes come and go: the topology of the next call is another one.
ShiftTopology ==
  /\ MultiZone /\ phase = "creating" /\ cur = NoOne
  /\ topology' \in (SUBSET Zones) \ {{}, topology}
  /\ UNCHANGED <<disk, sent, h, owner, cur, phase, claim, uncertain, volume, faults, finals>>
Crash ==
  /\ faults < MaxFaults /\ faults' = faults + 1
  /\ \E c \in Handlers : h[c] # Idle
  /\ h' = [c \in Handlers |-> Idle] /\ owner' = NoOne /\ cur' = NoOne
  /\ uncertain' = (uncertain \/ cur # NoOne)
  /\ UNCHANGED <<disk, sent, phase, claim, topology, volume, finals>>

\* A request whose answer was lost reaches the API.
Land(z) ==
  /\ z \in sent /\ sent' = sent \ {z}
  /\ disk' = IF disk[z] = NoDisk THEN [disk EXCEPT ![z] = "creating"] ELSE disk
  /\ UNCHANGED <<h, owner, cur, faults, provisioner>>
Created(z) ==
  /\ disk[z] = "creating"
  /\ \/ disk' = [disk EXCEPT ![z] = "ready"] /\ UNCHANGED faults
     \/ BadDisks /\ disk' = [disk EXCEPT ![z] = "failed"] /\ UNCHANGED faults
     \/ faults < MaxFaults /\ faults' = faults + 1 /\ disk' = [disk EXCEPT ![z] = NoDisk]
  /\ UNCHANGED <<sent, h, owner, cur, provisioner>>

SomeoneElseCreates(z) ==
  /\ z \in Foreign /\ disk[z] = NoDisk /\ disk' = [disk EXCEPT ![z] = "foreign"]
  /\ faults < MaxFaults /\ faults' = faults + 1
  /\ UNCHANGED <<sent, h, owner, cur, provisioner>>

Settled == phase = "gone" /\ UNCHANGED vars

CreateStep(c) == List(c) \/ Lock(c) \/ GetDisk(c) \/ Insert(c) \/ AlreadyExists(c)
                   \/ WaitForOp(c) \/ GetNewDisk(c)
DeleteStep(c) == DeleteLock(c) \/ DeleteDisk(c)
Handle(c) == CreateStep(c) \/ DeleteStep(c)
Api == \E z \in Zones : Land(z) \/ Created(z)
Next == \/ \E c \in Handlers : Handle(c)
        \/ Call \/ Deadline \/ DeleteClaim \/ ShiftTopology \/ Crash \/ Api
        \/ (\E z \in Zones : SomeoneElseCreates(z)) \/ Settled
Spec == Init /\ [][Next]_vars
Fairness == /\ WF_vars(Call) /\ WF_vars(Api)
            /\ \A c \in Handlers : WF_vars(Handle(c))

(***************************************************************************)
(* Properties.                                                             *)
(***************************************************************************)
TypeOK ==
  /\ disk \in [Zones -> {NoDisk, "creating", "ready", "failed", "foreign"}]
  /\ phase \in {"creating", "provisioned", "deleting", "gone"}
  /\ \A c \in Handlers :
       /\ h[c].code \in Codes \cup {"nil"} /\ h[c].todo \subseteq Zones
       /\ owner = c <=> h[c].pc \in {"get", "insert", "exists", "wait", "after", "delete"}

\* A volume in one zone has one disk: no retry of CreateVolume, after whatever
\* failure and in whatever zone, makes a second one.
OneDiskPerVolume == ~MultiZone => Cardinality(Ours \cup Coming) <= 1

\* A claim that is given up after a final error leaves nothing behind: where the
\* disk may have been created the error code is not final. (Not where the read after a
\* duplicate insert fails: README, Observations.)
FinalErrorLeavesNoDisk == phase = "gone" => Ours \cup Coming = {}

\* A volume that CreateVolume returned is ready in each of its zones, and is no
\* disk that was there before with other parameters.
ProvisionedIsReady == phase = "provisioned" => volume # {} /\ \A z \in volume : disk[z] = "ready"

\* When DeleteVolume of a multi-zone volume succeeds, or panics and is retried, no
\* zone keeps a disk of it.
DeletedMeansGone == phase = "gone" /\ volume # {} => Ours = {}

\* The response of a multi-zone CreateVolume names every zone that has a disk.
ResponseNamesEveryDisk == phase = "provisioned" => Ours \subseteq volume

\* A claim that stays is provisioned in the end, or gets a final error.
ProvisionedInTheEnd ==
  Fairness => (phase = "creating" ~> phase # "creating" \/ ~claim \/ finals > 0)

\* Once its claim is gone, a volume that was created or may have been is deleted,
\* or its creation fails for good.
DeletedInTheEnd == Fairness => (~claim ~> phase = "gone")
=============================================================================
