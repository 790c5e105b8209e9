---------------------------- MODULE DeviceCache ----------------------------
(***************************************************************************)
(* The device path cache of the node (linkcache/devices_linux.go).  It     *)
(* holds the device each /dev/disk/by-id symlink of a staged volume points *)
(* to.  A loop refreshes it: it copies the symlinks under the mutex, reads *)
(* the file system one symlink after the other without it, and writes back *)
(* under it what is still in the cache.                                    *)
(***************************************************************************)
EXTENDS Integers

CONSTANTS Volumes, Paths,
          MaxChanges   \* how often devices appear, move or disappear

VARIABLES link,     \* the device of the symlink of each volume, or Gone
          cache,    \* the entry of each volume: a path, Unknown, or None
          pc,       \* the loop: "sleep" or "read"
          copied,   \* the volumes it has copied and not read yet
          updates,  \* what it has read
          changes
vars == <<link, cache, pc, copied, updates, changes>>

Gone == "gone"
None == "none"
Unknown == ""

NoUpdates == [v \in Volumes |-> None]
\* EvalSymlinks of the symlink, which may not be there (yet).
Evaluated(v) == IF link[v] = Gone THEN Unknown ELSE link[v]

\* newDeviceCacheForNode adds what the node reports as in use.
Init ==
  /\ link \in [Volumes -> Paths \cup {Gone}]
  /\ \E used \in SUBSET Volumes : cache = [v \in Volumes |-> IF v \in used THEN Evaluated(v) ELSE None]
  /\ pc = "sleep" /\ copied = {} /\ updates = NoUpdates
  /\ changes = 0

AddVolume(v) ==
  /\ cache' = [cache EXCEPT ![v] = Evaluated(v)]
  /\ UNCHANGED <<link, pc, copied, updates, changes>>
RemoveVolume(v) ==
  /\ cache' = [cache EXCEPT ![v] = None]
  /\ UNCHANGED <<link, pc, copied, updates, changes>>

\* listAndUpdate: copy, read without the mutex, apply.
GetSymlinksMap ==
  /\ pc = "sleep" /\ pc' = "read"
  /\ copied' = {v \in Volumes : cache[v] # None} /\ updates' = NoUpdates
  /\ UNCHANGED <<link, cache, changes>>
ReadSymlink(v) ==
  /\ pc = "read" /\ v \in copied
  /\ copied' = copied \ {v}
  /\ updates' = [updates EXCEPT ![v] = IF link[v] = Gone THEN None ELSE link[v]]
  /\ UNCHANGED <<link, cache, pc, changes>>
\* (Mutants: what was copied is written back; only what is unknown is filled in.)
ApplyAllUpdates ==
  /\ pc = "read" /\ copied = {} /\ pc' = "sleep"
  /\ cache' = [v \in Volumes |-> IF updates[v] # None THEN updates[v] ELSE cache[v]]
  /\ UNCHANGED <<link, copied, updates, changes>>
ApplyToUnknown ==
  /\ pc = "read" /\ copied = {} /\ pc' = "sleep"
  /\ cache' = [v \in Volumes |-> IF cache[v] = Unknown /\ updates[v] # None THEN updates[v] ELSE cache[v]]
  /\ UNCHANGED <<link, copied, updates, changes>>
ApplyUpdates ==
  /\ pc = "read" /\ copied = {} /\ pc' = "sleep"
  /\ cache' = [v \in Volumes |-> IF cache[v] # None /\ updates[v] # None THEN updates[v] ELSE cache[v]]
  /\ UNCHANGED <<link, copied, updates, changes>>

\* udev moves a symlink.
MoveLink(v, p) ==
  /\ changes < MaxChanges /\ link[v] # p /\ changes' = changes + 1
  /\ link' = [link EXCEPT ![v] = p]
  /\ UNCHANGED <<cache, pc, copied, updates>>

Refresh == GetSymlinksMap \/ ApplyUpdates \/ \E v \in Volumes : ReadSymlink(v)
Next == \/ Refresh
        \/ \E v \in Volumes : AddVolume(v) \/ RemoveVolume(v)
        \/ \E v \in Volumes, p \in Paths \cup {Gone} : MoveLink(v, p)
Spec == Init /\ [][Next]_vars
\* The ticker of Run never stops.
Fairness == WF_vars(Refresh)

(***************************************************************************)
(* Properties.                                                             *)
(***************************************************************************)
TypeOK ==
  /\ cache \in [Volumes -> Paths \cup {Unknown, None}]
  /\ updates \in [Volumes -> Paths \cup {None}]
  /\ copied # {} => pc = "read"

\* A refresh that read the file system before NodeUnstageVolume removed a volume
\* does not bring it back: only AddVolume adds an entry.
RemovedStaysRemoved ==
  [][\A v \in Volumes : cache[v] = None /\ cache'[v] # None => pc' = pc /\ cache'[v] = Evaluated(v)]_vars

\* An entry of a volume that stays in the cache has the device of its symlink in
\* the end: what a refresh has read too early, across a removal and a new AddVolume
\* of the volume, is overwritten by the next one.
EntriesFollowTheLinks ==
  Fairness => \A v \in Volumes, p \in Paths :
    <>[](link[v] = p /\ cache[v] # None) => <>[](cache[v] = p)

=============================================================================
