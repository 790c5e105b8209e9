--------------------------- MODULE MCVolumeCalls ----------------------------
(***************************************************************************)
(* Calls of the controller on a volume that exists: expansion and change   *)
(* of performance, publishing with conversion and re-attachment, the       *)
(* backoff of failing publishes, and snapshots. They share no state, so a  *)
(* property of one of them holds of them together if it holds where only   *)
(* that one moves: part says which one does, and the others stay in an     *)
(* initial state.                                                          *)
(***************************************************************************)
EXTENDS Expansion

VARIABLE part

\* Guests that learn of the new size in time.
InTime == INSTANCE Expansion WITH DiskTypes <- {"pd-balanced", "hyperdisk-balanced"}, LateGuest <- FALSE
\* Everything that was asked for is done.
Served == /\ capacity >= need /\ usable >= capacity /\ class = told
          /\ owner = "no one" /\ op = NoOp /\ UNCHANGED vars
ExpansionAtRest == disk = [type |-> "pd-balanced", size |-> FirstSize, perf |-> 8] /\ Init

VARIABLES diskKind, conversion, quick, converted, converting, attached, mode, annotation, pc,
          optIn, reply, saidNo, saidYes, failures, edits
publishVars == <<diskKind, conversion, quick, converted, converting, attached, mode, annotation,
                  pc, optIn, reply, saidNo, saidYes, failures, edits>>
\* A newer machine beside one that reads only; and one machine for progress.
Publishing == INSTANCE PublishVolume WITH Nodes <- {"a", "b"}, Newer <- {"a"}, ReadOnly <- {"b"},
  Kinds <- {"ml"}, Quick <- {FALSE}, Enabled <- {TRUE}, Answers <- {"none", "true", "false"},
  MaxFailures <- 1, MaxEdits <- 1, kind <- diskKind
Converting == INSTANCE PublishVolume WITH Nodes <- {"a"}, Newer <- {"a"}, ReadOnly <- {},
  Kinds <- {"pd"}, Quick <- BOOLEAN, Enabled <- BOOLEAN, Answers <- {"none", "true"},
  MaxFailures <- 2, MaxEdits <- 2, kind <- diskKind
PublishAtRest == /\ diskKind = "ml" /\ conversion = TRUE /\ quick = FALSE
                 /\ annotation = [s \in Publishing!Surfaces |-> "none"] /\ Publishing!Init

VARIABLES entry, code, backoffPc, backoffFailed, backoffReply
backoffVars == <<entry, code, backoffPc, backoffFailed, backoffReply>>
Backoff == INSTANCE ErrorBackoff WITH Calls <- {"publish", "unpublish"},
  InitialDuration <- 1, MaxDuration <- 3, ErrorCodes <- {"Aborted", "Unavailable"},
  pc <- backoffPc, failed <- backoffFailed, reply <- backoffReply
OneCall == Backoff!Call("publish") \/ Backoff!Handle("publish") \/ Backoff!Tick

VARIABLES resourceKind, mayExist, mayFail, resource, seen, sent, snapshotPc, alive, phase, call,
          snapshotFaults
snapshotVars == <<resourceKind, mayExist, mayFail, resource, seen, sent, snapshotPc, alive,
                   phase, call, snapshotFaults>>
Snapshotting == INSTANCE Snapshots WITH Kinds <- {"snapshots", "images"}, Tags <- {"t1", "t2"},
  MayExist <- BOOLEAN, MayFail <- BOOLEAN, MaxFaults <- 3,
  kind <- resourceKind, pc <- snapshotPc, faults <- snapshotFaults
SnapshotAtRest == /\ resourceKind = "images" /\ mayExist = FALSE /\ mayFail = FALSE
                  /\ Snapshotting!Init

PartsInit ==
  \/ part = "expansion" /\ PublishAtRest /\ Backoff!Init /\ SnapshotAtRest /\ Init
  \/ part = "in time" /\ PublishAtRest /\ Backoff!Init /\ SnapshotAtRest /\ InTime!Init
  \/ part = "publishing" /\ ExpansionAtRest /\ Backoff!Init /\ SnapshotAtRest /\ Publishing!Init
  \/ part = "converting" /\ ExpansionAtRest /\ Backoff!Init /\ SnapshotAtRest /\ Converting!Init
  \/ part = "backoff" /\ ExpansionAtRest /\ PublishAtRest /\ SnapshotAtRest /\ Backoff!Init
  \/ part = "one call" /\ ExpansionAtRest /\ PublishAtRest /\ SnapshotAtRest /\ Backoff!Init
  \/ part = "snapshot" /\ ExpansionAtRest /\ PublishAtRest /\ Backoff!Init /\ Snapshotting!Init

ExpansionStep == /\ part = "expansion" /\ (Next \/ Served)
                 /\ UNCHANGED <<part, publishVars, backoffVars, snapshotVars>>
InTimeStep == /\ part = "in time" /\ (InTime!Next \/ Served)
              /\ UNCHANGED <<part, publishVars, backoffVars, snapshotVars>>
PublishingStep == /\ part = "publishing" /\ Publishing!Next
                  /\ UNCHANGED <<part, vars, backoffVars, snapshotVars>>
ConvertingStep == /\ part = "converting" /\ Converting!Next
                  /\ UNCHANGED <<part, vars, backoffVars, snapshotVars>>
BackoffStep == /\ part = "backoff" /\ Backoff!Next
               /\ UNCHANGED <<part, vars, publishVars, snapshotVars>>
OneCallStep == /\ part = "one call" /\ OneCall
               /\ UNCHANGED <<part, vars, publishVars, snapshotVars>>
SnapshotStep == /\ part = "snapshot" /\ (Snapshotting!Next \/ Snapshotting!Done)
                /\ UNCHANGED <<part, vars, publishVars, backoffVars>>
PartsNext == ExpansionStep \/ InTimeStep \/ PublishingStep \/ ConvertingStep \/ BackoffStep \/
             OneCallStep \/ SnapshotStep
PartsSpec == PartsInit /\ [][PartsNext]_<<part, vars, publishVars, backoffVars, snapshotVars>>

(***************************************************************************)
(* Properties: what each part promises, from the properties of its module. *)
(***************************************************************************)
\* Growing a volume takes back no change of its class that GCE carries out once it has
\* accepted it; the file system has the capacity that NodeExpandVolume succeeded for, where
\* the guest sees a new size before GCE's operation is done; and the volume grows to what
\* is asked for, however often calls fail.
GrowthIsUsable ==
  /\ [](TypeOK /\ ClassIsKept /\ (part = "in time" => InTime!ExpandedIsUsable))
  /\ part # "expansion" \/ GrownInTheEnd

\* ControllerPublishVolume succeeds only with the disk attached. A slow conversion starts
\* only for a workload that opted in on some surface, never while a surface says false and
\* has said so since the call began; and a workload that has opted in for good has its
\* volume attached again and again, however the conversions fail.
PublishConvertsWhatIsWanted ==
  /\ [](IF part = "converting" THEN Converting!TypeOK /\ Converting!PublishedMeansAttached
                               ELSE Publishing!TypeOK /\ Publishing!PublishedMeansAttached)
  /\ [][part = "publishing" => Publishing!StartIsWanted]_publishVars
  /\ part # "converting" \/ Converting!ConvertedInTheEnd

\* A publish inside the window of a failure is refused with the code of a call that failed,
\* where calls for the pair do not overlap; and publishes are let through again and again,
\* because a refusal does not extend the window.
RefusalsEnd ==
  /\ [](Backoff!TypeOK /\ (part = "one call" => Backoff!BlockedCodeIsRecorded))
  /\ part # "backoff" \/ Backoff!AttemptedInTheEnd

\* What is answered as ready is a finished snapshot of this volume, what is answered as
\* deleted is gone, and the resource of another disk is not touched; a snapshot that is
\* asked for is ready in the end unless its name is taken or it failed, and one to be
\* deleted goes.
SnapshotAnswersAreTrue ==
  /\ [](Snapshotting!TypeOK /\ Snapshotting!ReadyIsReady /\ Snapshotting!DeletedMeansGone)
  /\ Snapshotting!ForeignIsKept
  /\ part # "snapshot" \/ Snapshotting!ReadyInTheEnd
  /\ part # "snapshot" \/ Snapshotting!DeletedInTheEnd

=============================================================================
