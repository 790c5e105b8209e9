------------------------------- MODULE MCNode -------------------------------
(***************************************************************************)
(* The driver on a node: the limit on formatting and mounting, staging and *)
(* publishing, the device-in-use check, the device cache and the search    *)
(* for a device. They share no state, so a property of one of them holds   *)
(* of them together if it holds where only that one moves: part says which *)
(* one does, and the others stay in an initial state.                      *)
(***************************************************************************)
EXTENDS FormatAndMount

VARIABLE part


VARIABLES mode, tune, attached, size, fs, stage, targets, tuned, cached, nodeCall, expand,
          waiting, known, published, want, nodeFailures, crashes, timeouts
nodeVars == <<mode, tune, attached, size, fs, stage, targets, tuned, cached, nodeCall, expand,
               waiting, known, published, want, nodeFailures, crashes, timeouts>>
\* Two pods, and one for progress.
Node == INSTANCE NodeService WITH Pods <- {"p1", "p2"}, Modes <- {"rw", "ro", "block"},
  MaxSize <- 2, MaxFailures <- 2, MaxCrashes <- 1, MaxTimeouts <- 1,
  call <- nodeCall, failures <- nodeFailures
OnePod == INSTANCE NodeService WITH Pods <- {"p1"}, Modes <- {"rw", "ro", "block"},
  MaxSize <- 2, MaxFailures <- 1, MaxCrashes <- 1, MaxTimeouts <- 1,
  call <- nodeCall, failures <- nodeFailures
NodeAtRest == mode = "block" /\ tune = FALSE /\ Node!Init

VARIABLES phase, busy, age, recent, waited, gap, useFailures
useVars == <<phase, busy, age, recent, waited, gap, useFailures>>
\* A cache of records that is too small for the volumes, and one with room for them.
Evicting == INSTANCE DeviceInUse WITH Volumes <- {"v1", "v2"}, Timeout <- 2, MaxGap <- 2,
  Capacity <- 1, MaxFailures <- 1, MayRestage <- FALSE, failures <- useFailures
InUse == INSTANCE DeviceInUse WITH Volumes <- {"v1", "v2"}, Timeout <- 2, MaxGap <- 2,
  Capacity <- 2, MaxFailures <- 1, MayRestage <- FALSE, failures <- useFailures

VARIABLES link, cache, refreshPc, copied, updates, changes
cacheVars == <<link, cache, refreshPc, copied, updates, changes>>
Cache == INSTANCE DeviceCache WITH Volumes <- {"v1", "v2"}, Paths <- {"sda", "sdb"},
  MaxChanges <- 2, pc <- refreshPc
CacheAtRest == /\ link = [v \in {"v1", "v2"} |-> "gone"] /\ cache = [v \in {"v1", "v2"} |-> "none"]
               /\ Cache!Init

VARIABLES partition, disk, symlink, triggered, pathPc, polls, path, device, toolFailures
pathVars == <<partition, disk, symlink, triggered, pathPc, polls, path, device, toolFailures>>
Device == INSTANCE DevicePath WITH Devices <- {"sda", "sdb"}, MaxPolls <- 2, MaxFailures <- 1,
  Partitions <- BOOLEAN, link <- symlink, pc <- pathPc, failures <- toolFailures
PathAtRest == /\ partition = FALSE /\ disk = "nowhere" /\ symlink = [p \in Device!Paths |-> "nowhere"]
              /\ Device!Init

PartsInit ==
  \/ part = "mount" /\ NodeAtRest /\ InUse!Init /\ CacheAtRest /\ PathAtRest /\ Init
  \/ part = "node" /\ Init /\ InUse!Init /\ CacheAtRest /\ PathAtRest /\ Node!Init
  \/ part = "one pod" /\ Init /\ InUse!Init /\ CacheAtRest /\ PathAtRest /\ OnePod!Init
  \/ part = "evicting" /\ Init /\ NodeAtRest /\ CacheAtRest /\ PathAtRest /\ Evicting!Init
  \/ part = "in use" /\ Init /\ NodeAtRest /\ CacheAtRest /\ PathAtRest /\ InUse!Init
  \/ part = "cache" /\ Init /\ NodeAtRest /\ InUse!Init /\ PathAtRest /\ Cache!Init
  \/ part = "path" /\ Init /\ NodeAtRest /\ InUse!Init /\ CacheAtRest /\ Device!Init

MountStep == /\ part = "mount" /\ Next
             /\ UNCHANGED <<part, nodeVars, useVars, cacheVars, pathVars>>
NodeStep == /\ part = "node" /\ Node!Next
            /\ UNCHANGED <<part, vars, useVars, cacheVars, pathVars>>
OnePodStep == /\ part = "one pod" /\ OnePod!Next
              /\ UNCHANGED <<part, vars, useVars, cacheVars, pathVars>>
EvictingStep == /\ part = "evicting" /\ Evicting!Next
                /\ UNCHANGED <<part, vars, nodeVars, cacheVars, pathVars>>
InUseStep == /\ part = "in use" /\ InUse!Next
             /\ UNCHANGED <<part, vars, nodeVars, cacheVars, pathVars>>
CacheStep == /\ part = "cache" /\ Cache!Next
             /\ UNCHANGED <<part, vars, nodeVars, useVars, pathVars>>
PathStep == /\ part = "path" /\ Device!Next
            /\ UNCHANGED <<part, vars, nodeVars, useVars, cacheVars>>
PartsNext == MountStep \/ NodeStep \/ OnePodStep \/ EvictingStep \/ InUseStep \/ CacheStep \/
             PathStep
PartsSpec == PartsInit /\ [][PartsNext]_<<part, vars, nodeVars, useVars, cacheVars, pathVars>>

(***************************************************************************)
(* Properties: what each part promises, from the properties of its module. *)
(***************************************************************************)
\* A format-and-mount call whose own mount does not hang is served in the end, although
\* others hang: that is what the timeout of the semaphore is for.
OthersAreServed == []TypeOK /\ (part # "mount" \/ StuckMountBlocksNoOther)

\* Nothing of a disk is mounted when it is detached, and pods see only what is staged,
\* although calls the kubelet gave up on still run; a read-only volume is not written, a
\* file system only grows, and an unstaged volume is forgotten; and once no pod uses the
\* volume it leaves the node, whatever failed or was cut short before.
MountsAreSafe ==
  /\ [](part # "one pod" =>
          Node!TypeOK /\ Node!NeverDetachedWhileMounted /\ Node!PodSeesStagedVolume)
  /\ Node!ReadOnlyIsNeverWritten /\ Node!FileSystemOnlyGrows /\ Node!UnstagedIsForgotten
  /\ part # "one pod" \/ OnePod!ReleasedInTheEnd

\* NodeUnstageVolume gives up on a device that is in use only after the timeout, or when
\* the check cannot be made, for a volume that is not staged again after a failed unstage;
\* and, given a cache with room for every device and tries no further apart than the
\* timeout, a device that is never released does not block its volume for ever.
InUseIsRespectedInTime ==
  /\ [](part = "evicting" => Evicting!TypeOK)
  /\ InUse!InUseIsRespected
  /\ part # "in use" \/ InUse!GivenUpInTheEnd

\* A refresh that read the file system before a volume was removed does not bring it back,
\* and an entry that stays has the device of its symlink in the end.
CacheFollowsTheLinks ==
  /\ []Cache!TypeOK /\ Cache!RemovedStaysRemoved
  /\ part # "cache" \/ Cache!EntriesFollowTheLinks

\* The path that VerifyDevicePath returns leads to the device of the disk, though stale
\* symlinks lead to others and udev moves them between two steps; and it always returns,
\* with the device if the disk is attached and no tool fails.
DeviceIsFound ==
  /\ [](Device!TypeOK /\ Device!FoundIsTheDisk)
  /\ part # "path" \/ Device!AlwaysReturns

=============================================================================
