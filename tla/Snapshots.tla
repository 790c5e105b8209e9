----------------------------- MODULE Snapshots ------------------------------
(***************************************************************************)
(* CreateSnapshot, ListSnapshots with an id, and DeleteSnapshot, for one   *)
(* snapshot or image of one volume, called by the external snapshotter,    *)
(* which retries them.  Requests and answers get lost, calls outlive their *)
(* callers, operations fail, the driver restarts, and a resource of that   *)
(* name may belong to another disk.                                        *)
(***************************************************************************)
EXTENDS Integers, FiniteSets

CONSTANTS Kinds,     \* "snapshots", "images"
          Tags,      \* resource tags of the class
          MayExist,  \* values: can a resource of another disk have the name?
          MayFail,   \* values: can the resource end as FAILED?
          MaxFaults

VARIABLES kind, mayExist, mayFail,
          resource,  \* at the API: NoResource, or its source, status and tags
          seen,      \* the resource as the handler has read it
          sent,      \* an insert was sent and its answer lost
          pc,        \* the handler of CreateSnapshot, with the lock of the volume
          alive,     \* does its caller still wait?
          phase,     \* of the snapshotter
          call,      \* its call: "none", "create", "poll", "delete"
          faults
vars == <<kind, mayExist, mayFail, resource, seen, sent, pc, alive, phase, call, faults>>
config == <<kind, mayExist, mayFail>>

NoResource == [source |-> "none", status |-> "none", tags |-> {}]
Exists == resource # NoResource
\* A new snapshot is CREATING, an image PENDING.
Initial == IF kind = "snapshots" THEN "CREATING" ELSE "PENDING"
NewResource(source) == [source |-> source, status |-> Initial, tags |-> {}]

Init ==
  /\ kind \in Kinds /\ mayExist \in MayExist /\ mayFail \in MayFail
  /\ resource = NoResource /\ seen = NoResource /\ sent = FALSE
  /\ pc = "idle" /\ alive = FALSE /\ phase = "creating" /\ call = "none" /\ faults = 0

\* An API call fails, which is counted, or always does once the caller is gone.
Fault == \/ alive /\ faults < MaxFaults /\ faults' = faults + 1
         \/ ~alive /\ UNCHANGED faults
Works == alive /\ UNCHANGED faults

\* The handler returns; the lock of the volume is given back.
Return(answer) ==
  /\ pc' = "idle" /\ alive' = FALSE
  /\ call' = IF alive THEN "none" ELSE call
  /\ phase' = IF alive THEN answer ELSE phase
Error == Return(phase)

\* isCSISnapshotReady and isImageReady: yes, no or an error.
IsCSISnapshotReady(status) ==
  CASE status = "READY" -> "yes" [] status = "FAILED" -> "error" [] OTHER -> "no"
IsImageReady(status) ==
  CASE status \in {"READY", "DELETING"} -> "yes" [] status = "PENDING" -> "no" [] OTHER -> "error"
\* The entries of a listing, which do not tell an error from not ready.
GenerateDiskSnapshotEntry(snapshot) == [ready |-> IsCSISnapshotReady(snapshot.status) = "yes"]
GenerateDiskImageEntry(image) == [ready |-> IsImageReady(image.status) = "yes"]
\* validateExistingSnapshot and validateExistingImage: is it of this volume?
ValidateExistingSnapshot(snapshot) == snapshot.source = "ours"
ValidateExistingImage(image) == image.source = "ours"

\* Mutant: a resource that exists is an error also when it is of an earlier try.
GetNotIdempotent ==
  /\ pc = "get"
  /\ \/ Works /\ ~Exists /\ pc' = "insert" /\ UNCHANGED <<alive, phase, call>>
     \/ Works /\ Exists /\ Error
     \/ Fault /\ Error
  /\ UNCHANGED <<config, resource, seen, sent>>
\* CreateSnapshot up to createPDSnapshot or createImage.
Get ==
  /\ pc = "get"
  /\ \/ /\ Works /\ pc' = (IF Exists THEN "check" ELSE "insert") /\ seen' = resource
        /\ UNCHANGED <<alive, phase, call>>
     \/ Fault /\ Error /\ UNCHANGED seen
  /\ UNCHANGED <<config, resource, sent>>
\* Mutant: an insert that is refused as a duplicate is taken for an earlier try.
InsertAdopts ==
  /\ pc = "insert"
  /\ \/ /\ Works /\ resource' = IF Exists THEN resource ELSE NewResource("ours")
        /\ pc' = "wait" /\ UNCHANGED <<sent, alive, phase, call>>
     \/ Fault /\ Error /\ sent' \in {sent, TRUE} /\ UNCHANGED resource
  /\ UNCHANGED <<config, seen>>
Insert ==
  /\ pc = "insert"
  /\ \/ /\ Works /\ ~Exists /\ resource' = NewResource("ours") /\ pc' = "wait"
        /\ UNCHANGED <<sent, alive, phase, call>>
     \/ Works /\ Exists /\ Error /\ UNCHANGED <<resource, sent>>
     \/ Fault /\ Error /\ sent' \in {sent, TRUE} /\ UNCHANGED resource
  /\ UNCHANGED <<config, seen>>
\* Until the resource has left its first status, or for so long.
WaitForCreation(initial) ==
  /\ pc = "wait"
  /\ \/ /\ Works /\ Exists /\ resource.status # initial /\ pc' = "tags" /\ seen' = resource
        /\ UNCHANGED <<alive, phase, call>>
     \/ Fault /\ Error /\ UNCHANGED seen
  /\ UNCHANGED <<config, resource, sent>>
WaitForSnapshotCreation == WaitForCreation("CREATING")
WaitForImageCreation == WaitForCreation("PENDING")
\* attachTagsToResource: the tags that are missing, each by a request of its own; one that
\* fails, perhaps after it had its effect, does not stop the others.
AttachTags ==
  /\ pc = "tags"
  /\ \/ /\ Works /\ pc' = "check"
        /\ resource' = IF Exists THEN [resource EXCEPT !.tags = Tags] ELSE resource
        /\ UNCHANGED <<alive, phase, call>>
     \/ \E done \in SUBSET Tags : /\ Fault /\ Error
          /\ resource' = IF Exists THEN [resource EXCEPT !.tags = @ \cup done] ELSE resource
  /\ UNCHANGED <<config, seen, sent>>
\* Mutant: a snapshot that is uploading counts as ready.
CheckReadyUnlessFailed(valid, ready) ==
  /\ pc = "check"
  /\ Return(IF ~valid \/ ready = "error" THEN phase ELSE "ready")
  /\ UNCHANGED <<config, resource, seen, sent, faults>>
\* What createPDSnapshot and createImage make of the resource they have read.
Check(valid, ready) ==
  /\ pc = "check"
  /\ Return(IF ~valid \/ ready = "error" THEN phase ELSE IF ready = "yes" THEN "ready" ELSE "polling")
  /\ UNCHANGED <<config, resource, seen, sent, faults>>

\* CloudProvider.CreateSnapshot and CreateImage.
CloudCreateSnapshot == Insert \/ WaitForSnapshotCreation \/ AttachTags
CloudCreateImage == Insert \/ WaitForImageCreation \/ AttachTags
CreatePDSnapshot ==
  /\ kind = "snapshots"
  /\ Get \/ CloudCreateSnapshot \/ Check(ValidateExistingSnapshot(seen), IsCSISnapshotReady(seen.status))
CreateImage ==
  /\ kind = "images"
  /\ Get \/ CloudCreateImage \/ Check(ValidateExistingImage(seen), IsImageReady(seen.status))

\* getSnapshotByID: an entry with the status; none when there is no resource.
Poll ==
  LET Entry == IF kind = "snapshots" THEN GenerateDiskSnapshotEntry(resource)
               ELSE GenerateDiskImageEntry(resource) IN
  /\ call = "poll" /\ call' = "none"
  /\ \/ UNCHANGED faults /\ phase' = IF Exists /\ Entry.ready THEN "ready" ELSE phase
     \/ faults < MaxFaults /\ faults' = faults + 1 /\ UNCHANGED phase
  /\ UNCHANGED <<config, resource, seen, sent, pc, alive>>
\* Mutant: nothing to delete is an error.
DeleteMustFind ==
  /\ call = "delete" /\ UNCHANGED <<faults, phase>>
  /\ \/ Exists /\ resource' = [resource EXCEPT !.status = "DELETING"] /\ call' = "deleting"
     \/ ~Exists /\ call' = "none" /\ UNCHANGED resource
  /\ UNCHANGED <<config, seen, sent, pc, alive>>
\* Mutant: the operation is not waited for.
DeleteUnwaited ==
  /\ call = "delete" /\ UNCHANGED faults /\ call' = "none" /\ phase' = "deleted"
  /\ resource' = IF Exists THEN [resource EXCEPT !.status = "DELETING"] ELSE resource
  /\ UNCHANGED <<config, seen, sent, pc, alive>>
\* DeleteSnapshot, without a lock: nothing to delete is a success.
Delete ==
  /\ call = "delete" /\ UNCHANGED faults
  /\ \/ Exists /\ resource' = [resource EXCEPT !.status = "DELETING"] /\ call' = "deleting" /\ UNCHANGED phase
     \/ ~Exists /\ call' = "none" /\ phase' = "deleted" /\ UNCHANGED resource
  /\ UNCHANGED <<config, seen, sent, pc, alive>>
DeleteWait ==
  /\ call = "deleting" /\ ~Exists /\ call' = "none" /\ phase' = "deleted"
  /\ UNCHANGED <<config, resource, seen, sent, pc, alive, faults>>
DeleteFails ==
  /\ call \in {"delete", "deleting"} /\ faults < MaxFaults /\ faults' = faults + 1 /\ call' = "none"
  /\ UNCHANGED <<config, resource, seen, sent, pc, alive, phase>>

(***************************************************************************)
(* The snapshotter, the API and the faults.                                *)
(***************************************************************************)
\* A call that finds the lock of the volume taken is refused.
CallCreate ==
  /\ phase = "creating" /\ call = "none" /\ pc = "idle"
  /\ call' = "create" /\ pc' = "get" /\ alive' = TRUE
  /\ UNCHANGED <<config, resource, seen, sent, phase, faults>>
CallPoll ==
  LET Entry == IF kind = "snapshots" THEN GenerateDiskSnapshotEntry(resource)
               ELSE GenerateDiskImageEntry(resource) IN
  /\ phase = "polling" /\ call = "none" /\ call' = "poll"
  /\ UNCHANGED <<config, resource, seen, sent, pc, alive, phase, faults>>
\* A lost insert has had its effect before the snapshot is deleted.
StartDelete ==
  /\ phase \in {"polling", "ready"} /\ call = "none" /\ ~sent /\ phase' = "deleting"
  /\ UNCHANGED <<config, resource, seen, sent, pc, alive, call, faults>>
CallDelete ==
  /\ phase = "deleting" /\ call = "none" /\ call' = "delete"
  /\ UNCHANGED <<config, resource, seen, sent, pc, alive, phase, faults>>
Timeout ==
  /\ call = "create" /\ alive /\ faults < MaxFaults /\ faults' = faults + 1
  /\ call' = "none" /\ alive' = FALSE /\ UNCHANGED <<config, resource, seen, sent, pc, phase>>
Crash ==
  /\ pc # "idle" /\ faults < MaxFaults /\ faults' = faults + 1
  /\ pc' = "idle" /\ alive' = FALSE /\ call' = "none" /\ UNCHANGED <<config, resource, seen, sent, phase>>

Successors(status) ==
  CASE status = "CREATING" -> {"UPLOADING"}
    [] status \in {"UPLOADING", "PENDING"} -> {"READY"} \cup IF mayFail THEN {"FAILED"} ELSE {}
    [] OTHER -> {}
Progress ==
  /\ \E status \in Successors(resource.status) : resource' = [resource EXCEPT !.status = status]
  /\ UNCHANGED <<config, seen, sent, pc, alive, phase, call, faults>>
Gone ==
  /\ resource.status = "DELETING" /\ resource' = NoResource
  /\ UNCHANGED <<config, seen, sent, pc, alive, phase, call, faults>>
Land ==
  /\ sent /\ sent' = FALSE /\ resource' = IF Exists THEN resource ELSE NewResource("ours")
  /\ UNCHANGED <<config, seen, pc, alive, phase, call, faults>>
SomeoneElseCreates ==
  /\ mayExist /\ ~Exists /\ phase = "creating" /\ resource' = NewResource("theirs")
  /\ UNCHANGED <<config, seen, sent, pc, alive, phase, call, faults>>

Create == CreatePDSnapshot \/ CreateImage
Next == \/ Create \/ Poll \/ Delete \/ DeleteWait \/ DeleteFails
        \/ CallCreate \/ CallPoll \/ StartDelete \/ CallDelete \/ Timeout \/ Crash
        \/ Progress \/ Gone \/ Land \/ SomeoneElseCreates
Done == phase = "deleted" /\ UNCHANGED vars
Spec == Init /\ [][Next \/ Done]_vars
\* Handlers and operations go on and the snapshotter retries.
Fairness == /\ WF_vars(Create) /\ WF_vars(Poll) /\ WF_vars(Delete) /\ WF_vars(DeleteWait)
            /\ WF_vars(CallCreate) /\ WF_vars(CallPoll) /\ WF_vars(CallDelete)
            /\ WF_vars(Progress) /\ WF_vars(Gone) /\ WF_vars(Land)

(***************************************************************************)
(* Properties.                                                             *)
(***************************************************************************)
TypeOK ==
  /\ seen.source \in {"none", "ours", "theirs"} /\ resource.source \in {"none", "ours", "theirs"} /\ resource.tags \subseteq Tags
  /\ pc \in {"idle", "get", "insert", "wait", "tags", "check"}
  /\ call \in {"none", "create", "poll", "delete", "deleting"}
  /\ alive => pc # "idle" /\ call = "create"

\* What is reported as ready to use is a finished snapshot of this volume, however
\* many calls, lost answers and restarts it took.
ReadyIsReady == phase = "ready" => resource.source = "ours" /\ resource.status = "READY"

\* The resource of another disk with the same name is never deleted or tagged.
ForeignIsKept ==
  [][resource.source = "theirs" => resource'.source = "theirs" /\ resource'.tags = resource.tags
                                   /\ resource'.status # "DELETING"]_vars

\* DeleteSnapshot succeeds only when nothing is left.
DeletedMeansGone == phase = "deleted" => ~Exists

\* A snapshot whose creation does not fail is reported as ready or deleted in the end.
ReadyInTheEnd ==
  Fairness => <>(phase \in {"ready", "deleted"} \/ resource.source = "theirs" \/ resource.status = "FAILED")
\* A delete that has begun ends.
DeletedInTheEnd == Fairness => ((phase = "deleting") ~> (phase = "deleted"))

\* A snapshot that is ready has the resource tags that are attached to each snapshot.
\* The code does not have this property (README, Observations): a retry that finds the
\* snapshot attaches none.
ReadyHasItsTags == phase = "ready" => resource.tags = Tags

=============================================================================
