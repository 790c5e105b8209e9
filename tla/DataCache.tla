----------------------------- MODULE DataCache -----------------------------
(***************************************************************************)
(* The data cache of the node service (cache.go): a persistent disk holds  *)
(* the main logical volume, the RAIDed local SSD of the node caches it,    *)
(* and both are physical volumes of the volume group of the node.  A       *)
(* preempted node comes back under its name with an empty SSD, and the     *)
(* disk may move to another node, so a disk arrives with the metadata of a *)
(* group whose SSD no longer exists.                                       *)
(*                                                                         *)
(* Each command of LVM is a step, so the watcher of /dev, a crash of the   *)
(* driver and a preemption come between any two of them.  What a command   *)
(* does is modelled from what cache.go relies on: above all that           *)
(* "vgreduce --removemissing --force" removes a cached volume whose SSD is *)
(* missing.  Creating the cache volume and attaching it are one step.      *)
(***************************************************************************)
EXTENDS Integers, FiniteSets

CONSTANTS Volumes,          \* the persistent disks; each has one main volume
          Nodes,            \* the node names, which outlive the machines
          MaxPreemptions, MaxFailures, MaxCrashes,
          MaxGroups,        \* no call starts once so many group IDs were used
          LvsFailsOnMissingPV, \* does lvs exit with an error on a partial group?
          BootFails,           \* may the set-up of a node fail, or be overtaken by an attach?
          QueriesFail          \* may vgscan and lvscan fail as well?

VARIABLES at,       \* the node a disk is attached to, or NoNode
          meta,     \* the metadata on each disk
          ssd,      \* the metadata on the RAIDed SSD of each node
          inc,      \* the incarnation of that SSD
          boot,     \* how far the driver of a node has come
          call,     \* the step of the stage or unstage call of each volume
          staged,   \* the volumes NodeStageVolume succeeded for
          touched,  \* the volumes to unstage before they are detached
          data,     \* what became of the data of each volume
          ids, failures, crashes
vars == <<at, meta, ssd, inc, boot, call, staged, touched, data, ids, failures, crashes>>

NoNode == "no node"
NodeVg(n) == <<"node", n>>
StaleVg(i) == <<"stale", i>>
UnstagedVg(v) == <<"unstaged", v>>
NoVg == <<"none">>
Ssd(n) == <<n, inc[n]>>

NoMeta == [name |-> NoVg, id |-> 0, pvs |-> {}, lvs |-> [v \in Volumes |-> "none"]]

\* The groups that LVM shows on node n.  Without its SSD a group only loses
\* members, volumes and caches, so the copy with the fewest is the latest one.
Attached(n) == {v \in Volumes : at[v] = n}
Copies(n) == {meta[v] : v \in Attached(n)} \cup {ssd[n]}
KeyOf(m) == <<m.name, m.id>>
Content(m) == Cardinality(m.pvs) + Cardinality({v \in Volumes : m.lvs[v] # "none"})
              + Cardinality({v \in Volumes : m.lvs[v] = "cached"})
Group(n, key) ==
  LET copies == {m \in Copies(n) : KeyOf(m) = key}
  IN IF KeyOf(ssd[n]) = key THEN ssd[n]
     ELSE CHOOSE m \in copies : \A o \in copies : Content(m) <= Content(o)
Named(n, name) == {KeyOf(m) : m \in {c \in Copies(n) : c.name = name}}
Exists(n, name) == Named(n, name) # {}
Unique(n, name) == Cardinality(Named(n, name)) = 1
The(n, name) == Group(n, CHOOSE key \in Named(n, name) : TRUE)

\* The members of a group that are there, and those that are not.
Present(n, g) == {v \in Attached(n) : KeyOf(meta[v]) = KeyOf(g) /\ v \in g.pvs}
Missing(n, g) == g.pvs \ (Present(n, g) \cup (IF KeyOf(ssd[n]) = KeyOf(g) THEN {Ssd(n)} ELSE {}))
Partial(n, g) == Missing(n, g) # {}
Whole(n, name) == Unique(n, name) /\ ~Partial(n, The(n, name))

\* Group g of node n becomes h: every member that is present carries it; the
\* members in gone carry nothing any more.
Rewrite(n, g, h, gone) ==
  /\ meta' = [v \in Volumes |-> IF v \notin Present(n, g) THEN meta[v]
                                ELSE IF v \in gone THEN NoMeta ELSE h]
  /\ ssd' = IF KeyOf(ssd[n]) = KeyOf(g) THEN [ssd EXCEPT ![n] = h] ELSE ssd

\* vgreduce --removemissing --force: the missing members go, and with them
\* every logical volume that lies on one or whose cache does.
Reduced(n, g) ==
  LET lost == Missing(n, g)
      noSsd == lost \ Volumes # {}
  IN [g EXCEPT !.pvs = @ \ lost,
               !.lvs = [v \in Volumes |-> IF v \in lost \/ (noSsd /\ g.lvs[v] = "cached")
                                          THEN "none" ELSE g.lvs[v]]]
Destroyed(n, g) == {v \in Present(n, g) : g.lvs[v] # "none" /\ Reduced(n, g).lvs[v] = "none"}
Lose(vs) == data' = [v \in Volumes |-> IF v \in vs /\ data[v] = "kept" THEN "lost" ELSE data[v]]

\* reduceVolumeGroup: nothing without the group, and its failure is only logged.
ReduceVolumeGroup(n, name) ==
  IF Unique(n, name)
  THEN LET g == The(n, name)
       IN Rewrite(n, g, Reduced(n, g), {}) /\ Lose(Destroyed(n, g))
  ELSE UNCHANGED <<meta, ssd, data>>

\* RunCommand returns no output when the command exits with an error, so a
\* volume of a partial group looks uncached if lvs fails on such groups.
LvsFails(n) == LvsFailsOnMissingPV /\ \E m \in Copies(n) : Partial(n, Group(n, KeyOf(m)))
CachedIn(m, v) == m.lvs[v] = "cached"
IsCachingSetup(n, v) ==
  ~LvsFails(n) /\ \E m \in Copies(n) : CachedIn(Group(n, KeyOf(m)), v)
IsLvCachedOnDevice(v) == CachedIn(meta[v], v) /\ ~LvsFailsOnMissingPV

Init ==
  /\ at = [v \in Volumes |-> NoNode]
  /\ meta = [v \in Volumes |-> NoMeta]
  /\ ssd = [n \in Nodes |-> NoMeta]
  /\ inc = [n \in Nodes |-> 0]
  /\ boot = [n \in Nodes |-> "boot"]
  /\ call = [v \in Volumes |-> "idle"]
  /\ staged = {} /\ touched = {}
  /\ data = [v \in Volumes |-> "none"]
  /\ ids = 1 /\ failures = 0 /\ crashes = 0

Goto(v, step) == call' = [call EXCEPT ![v] = step]
Keep == UNCHANGED <<at, inc, boot, staged, touched, crashes>>
KeepLvm == UNCHANGED <<meta, ssd, data, ids>>

(***************************************************************************)
(* Starting the driver (setupDataCache in main.go): RAID the SSD, then     *)
(* InitializeDataCacheNode, whose failure is only logged.  An SSD that is  *)
(* already RAIDed skips both, so a restart does not make up for it.        *)
(***************************************************************************)
SetupDataCache(n) ==
  /\ boot[n] = "boot"
  /\ boot' = [boot EXCEPT ![n] = "init"]
  /\ UNCHANGED <<at, inc, call, staged, touched, failures, crashes>> /\ KeepLvm

NewGroup(n) == [name |-> NodeVg(n), id |-> ids, pvs |-> {Ssd(n)},
                lvs |-> [v \in Volumes |-> "none"]]
CreateVg(n) ==
  /\ ssd[n] = NoMeta /\ ids' = ids + 1
  /\ ssd' = [ssd EXCEPT ![n] = NewGroup(n)]
  /\ UNCHANGED <<meta, data>>

\* The group with the SSD added, after vgextend.
Extended(n, g, pv) == [g EXCEPT !.pvs = @ \cup {pv}]
AddSsd(n) ==
  /\ Whole(n, NodeVg(n)) /\ ssd[n] = NoMeta
  /\ LET g == The(n, NodeVg(n)) h == Extended(n, g, Ssd(n))
     IN /\ ssd' = [ssd EXCEPT ![n] = h]
        /\ meta' = [v \in Volumes |-> IF v \in Present(n, g) THEN h ELSE meta[v]]
  /\ UNCHANGED <<data, ids>>

InitializeDataCacheNode(n) ==
  /\ boot[n] = "init"
  /\ IF Exists(n, NodeVg(n))
     THEN /\ ReduceVolumeGroup(n, NodeVg(n)) /\ UNCHANGED ids
          /\ boot' = [boot EXCEPT ![n] = IF ssd[n].name = NodeVg(n) THEN "ready" ELSE "add"]
     ELSE CreateVg(n) /\ boot' = [boot EXCEPT ![n] = "ready"]
  /\ UNCHANGED <<at, inc, call, staged, touched, failures, crashes>>
ValidateRaidedLSSDinVG(n) ==
  /\ boot[n] = "add"
  /\ IF Whole(n, NodeVg(n)) THEN AddSsd(n) ELSE KeepLvm
  /\ boot' = [boot EXCEPT ![n] = "ready"]
  /\ UNCHANGED <<at, inc, call, staged, touched, failures, crashes>>
InitFails(n) ==
  /\ BootFails /\ boot[n] \in {"init", "add"}
  /\ failures < MaxFailures /\ failures' = failures + 1
  /\ boot' = [boot EXCEPT ![n] = "ready"]
  /\ UNCHANGED <<at, inc, call, staged, touched, crashes>> /\ KeepLvm

(***************************************************************************)
(* setupCaching, at the node the disk is attached to.                      *)
(***************************************************************************)
On(v, step) == call[v] = step /\ at[v] # NoNode /\ boot[at[v]] = "ready"

StartStage(v) ==
  /\ On(v, "idle") /\ ids <= MaxGroups
  /\ Goto(v, "detect") /\ touched' = touched \cup {v}
  /\ UNCHANGED <<at, inc, boot, staged, failures, crashes>> /\ KeepLvm

\* detectPreemptionVgConflict: the disk names the group of this node but is not
\* part of it; vgs fails on an ambiguous or missing name.
OthersNamed(v) ==
  {KeyOf(m) : m \in {c \in {meta[w] : w \in Attached(at[v]) \ {v}} \cup {ssd[at[v]]} :
                       c.name = NodeVg(at[v])}}
\* Mutant: the preempted node is never noticed.
HasConflictNever(v) == FALSE
HasConflict(v) ==
  /\ meta[v].name = NodeVg(at[v])
  /\ OthersNamed(v) # {KeyOf(meta[v])}
DetectPreemptionVgConflict(v) ==
  /\ On(v, "detect")
  /\ Goto(v, IF HasConflict(v) THEN "uncacheStale" ELSE "group")
  /\ UNCHANGED failures /\ Keep /\ KeepLvm

\* recoverPreemptionVgConflict, with all devices but the disk filtered out.
Uncached(v) == [meta[v] EXCEPT !.lvs[v] = IF @ = "cached" THEN "plain" ELSE @]
AloneReduced(v) ==
  [meta[v] EXCEPT !.pvs = {v},
                  !.lvs = [w \in Volumes |-> IF w = v /\ @[v] # "cached" THEN @[v] ELSE "none"]]
\* Mutant: the stale group is reduced while its volume is still cached.
UncacheStaleSkipped(v) ==
  /\ On(v, "uncacheStale") /\ Goto(v, "reduceStale")
  /\ KeepLvm /\ UNCHANGED failures /\ Keep
UncacheStale(v) ==
  /\ On(v, "uncacheStale")
  /\ meta' = [meta EXCEPT ![v] = IF IsLvCachedOnDevice(v) THEN Uncached(v) ELSE @]
  /\ Goto(v, "reduceStale")
  /\ UNCHANGED <<ssd, data, ids, failures>> /\ Keep
ReduceStaleVolumeGroup(v) ==
  /\ On(v, "reduceStale")
  /\ meta' = [meta EXCEPT ![v] = AloneReduced(v)]
  /\ Lose(IF CachedIn(meta[v], v) THEN {v} ELSE {})
  /\ Goto(v, "rename")
  /\ UNCHANGED <<ssd, ids, failures>> /\ Keep
RenameVolumeGroup(v) ==
  /\ On(v, "rename")
  /\ meta' = [meta EXCEPT ![v].name = StaleVg(meta[v].id)]
  /\ Goto(v, "regenerate")
  /\ UNCHANGED <<ssd, data, ids, failures>> /\ Keep
\* Its failure is a warning, and the recovery goes on.
RegenerateVolumeGroupUuid(v) ==
  /\ On(v, "regenerate") /\ Goto(v, "group")
  /\ \/ meta' = [meta EXCEPT ![v].id = ids] /\ ids' = ids + 1 /\ UNCHANGED failures
     \/ UNCHANGED <<meta, ids>> /\ failures < MaxFailures /\ failures' = failures + 1
  /\ UNCHANGED <<ssd, data>> /\ Keep

\* The group of the node is cleaned up and gets the SSD, or is created.
PrepareGroup(v) ==
  /\ On(v, "group")
  /\ IF Exists(at[v], NodeVg(at[v]))
     THEN /\ ReduceVolumeGroup(at[v], NodeVg(at[v])) /\ UNCHANGED ids
          /\ Goto(v, "ssd")
     ELSE CreateVg(at[v]) /\ Goto(v, "join")
  /\ UNCHANGED failures /\ Keep
EnsureLocalSsdInVolumeGroup(v) ==
  /\ On(v, "ssd")
  /\ IF ssd[at[v]].name = NodeVg(at[v]) THEN KeepLvm ELSE AddSsd(at[v])
  /\ Goto(v, "join") /\ UNCHANGED failures /\ Keep

\* The disk is in the group, in another one that is merged, or in none.
JoinGroup(v) ==
  LET n == at[v] g == The(n, NodeVg(n)) IN
  /\ On(v, "join")
  /\ \/ meta[v].name = NodeVg(n) /\ KeepLvm /\ Goto(v, "lv")
     \/ meta[v].name \notin {NodeVg(n), NoVg} /\ KeepLvm /\ Goto(v, "uncacheMerge")
     \/ /\ meta[v].name = NoVg /\ Whole(n, NodeVg(n))
        /\ LET h == Extended(n, g, v)
           IN /\ meta' = [w \in Volumes |-> IF w = v \/ w \in Present(n, g) THEN h ELSE meta[w]]
              /\ ssd' = IF KeyOf(ssd[n]) = KeyOf(g) THEN [ssd EXCEPT ![n] = h] ELSE ssd
        /\ Goto(v, "lv") /\ UNCHANGED <<data, ids>>
  /\ UNCHANGED failures /\ Keep

\* mergeStaleVgIntoHost.
UncacheMerge(v) ==
  LET n == at[v] g == Group(n, KeyOf(meta[v])) IN
  /\ On(v, "uncacheMerge")
  /\ IF IsCachingSetup(n, v)
     THEN Rewrite(n, g, [g EXCEPT !.lvs[v] = IF @ = "cached" THEN "plain" ELSE @], {})
     ELSE UNCHANGED <<meta, ssd>>
  /\ Goto(v, "reduceMerge") /\ UNCHANGED <<data, ids, failures>> /\ Keep
ReduceMerge(v) ==
  /\ On(v, "reduceMerge") /\ ReduceVolumeGroup(at[v], meta[v].name)
  /\ Goto(v, "merge") /\ UNCHANGED <<ids, failures>> /\ Keep
Merge(v) ==
  LET n == at[v] g == Group(n, KeyOf(meta[v])) host == The(n, NodeVg(n))
      both == [host EXCEPT !.pvs = @ \cup g.pvs,
                           !.lvs = [w \in Volumes |-> IF g.lvs[w] # "none" THEN g.lvs[w] ELSE @[w]]]
  IN
  /\ On(v, "merge") /\ Whole(n, NodeVg(n)) /\ ~Partial(n, g)
  /\ meta' = [w \in Volumes |-> IF w \in Present(n, g) \cup Present(n, host) THEN both ELSE meta[w]]
  /\ ssd' = [ssd EXCEPT ![n] = IF KeyOf(@) = KeyOf(host) THEN both ELSE @]
  /\ Goto(v, "lv") /\ UNCHANGED <<data, ids, failures>> /\ Keep

\* lvcreate of the main volume, unless some group of that name has it.  Over the
\* data of an earlier one it is a loss.
HasLv(n, v) == \E key \in Named(n, NodeVg(n)) : Group(n, key).lvs[v] # "none"
CreateMainLv(v) ==
  LET n == at[v] g == The(n, NodeVg(n)) IN
  /\ On(v, "lv")
  /\ IF HasLv(n, v) THEN UNCHANGED <<meta, ssd, data>>
     ELSE /\ Whole(n, NodeVg(n)) /\ v \in Present(n, g)
          /\ Rewrite(n, g, [g EXCEPT !.lvs[v] = "plain"], {})
          /\ data' = [data EXCEPT ![v] = IF @ = "none" THEN "kept" ELSE "lost"]
  /\ Goto(v, "cache") /\ UNCHANGED <<ids, failures>> /\ Keep

\* Mutant: the cache of an earlier staging is taken for granted.
AttachCacheAssumed(v) ==
  /\ On(v, "cache") /\ Goto(v, "activate")
  /\ KeepLvm /\ UNCHANGED failures /\ Keep
AttachCache(v) ==
  LET n == at[v] g == The(n, NodeVg(n)) IN
  /\ On(v, "cache")
  /\ IF IsCachingSetup(n, v) THEN UNCHANGED <<meta, ssd>>
     ELSE /\ Whole(n, NodeVg(n)) /\ Ssd(n) \in g.pvs
          /\ Rewrite(n, g, [g EXCEPT !.lvs[v] = "cached"], {})
  /\ Goto(v, "activate") /\ UNCHANGED <<data, ids, failures>> /\ Keep
ActivateGroup(v) ==
  /\ On(v, "activate") /\ Unique(at[v], NodeVg(at[v]))
  /\ Goto(v, "idle") /\ staged' = staged \cup {v}
  /\ UNCHANGED <<at, inc, boot, touched, failures, crashes>> /\ KeepLvm

(***************************************************************************)
(* cleanupCache, called by NodeUnstageVolume.                              *)
(***************************************************************************)
StartUnstage(v) ==
  /\ On(v, "idle") /\ v \in touched
  /\ Goto(v, "clean") /\ staged' = staged \ {v}
  /\ UNCHANGED <<at, inc, boot, touched, failures, crashes>> /\ KeepLvm
Unstaged(v) ==
  /\ Goto(v, "idle") /\ touched' = touched \ {v}
  /\ UNCHANGED <<at, inc, boot, staged, crashes>>
CleanupReduce(v) ==
  LET n == at[v] IN
  /\ On(v, "clean")
  /\ IF Exists(n, NodeVg(n))
     THEN ReduceVolumeGroup(n, NodeVg(n)) /\ Goto(v, "findLv") /\ UNCHANGED <<ids, failures>> /\ Keep
     ELSE Unstaged(v) /\ KeepLvm /\ UNCHANGED failures
CleanupFindLv(v) ==
  /\ On(v, "findLv")
  /\ IF HasLv(at[v], v) THEN Goto(v, "uncache") /\ Keep ELSE Unstaged(v)
  /\ KeepLvm /\ UNCHANGED failures
\* A cache that could not be checked is uncached as well.
CleanupUncache(v) ==
  LET n == at[v] g == The(n, NodeVg(n)) IN
  /\ On(v, "uncache")
  /\ IF IsCachingSetup(n, v) \/ LvsFails(n)
     THEN /\ Whole(n, NodeVg(n)) /\ CachedIn(g, v)
          /\ Rewrite(n, g, [g EXCEPT !.lvs[v] = "plain"], {})
     ELSE UNCHANGED <<meta, ssd>>
  /\ Goto(v, "split") /\ UNCHANGED <<data, ids, failures>> /\ Keep
\* Mutant: the disk stays in the group of the node, as before vgsplit was added.
CleanupWithoutSplit(v) == On(v, "split") /\ KeepLvm /\ UNCHANGED failures /\ Unstaged(v)
CleanupSplit(v) ==
  LET n == at[v] g == The(n, NodeVg(n))
      own == [name |-> UnstagedVg(v), id |-> ids, pvs |-> {v},
              lvs |-> [w \in Volumes |-> IF w = v THEN g.lvs[v] ELSE "none"]]
      rest == [g EXCEPT !.pvs = @ \ {v}, !.lvs[v] = "none"]
  IN
  /\ On(v, "split") /\ Whole(n, NodeVg(n)) /\ v \in Present(n, g) /\ ~CachedIn(g, v)
  /\ meta' = [w \in Volumes |-> IF w = v THEN own ELSE IF w \in Present(n, g) THEN rest ELSE meta[w]]
  /\ ssd' = IF KeyOf(ssd[n]) = KeyOf(g) THEN [ssd EXCEPT ![n] = rest] ELSE ssd
  /\ ids' = ids + 1 /\ UNCHANGED <<data, failures>> /\ Unstaged(v)
\* A vgscan or lvscan that fails counts as "not found": nothing to uncache.
ScanFails(v) ==
  /\ QueriesFail /\ failures < MaxFailures /\ failures' = failures + 1
  /\ On(v, "clean") \/ On(v, "findLv")
  /\ Unstaged(v) /\ KeepLvm

\* Any other command that fails ends the call; so does one that LVM refuses.
CommandFails(v) ==
  /\ call[v] \in {"uncacheStale", "reduceStale", "rename", "ssd", "join", "uncacheMerge",
                  "merge", "lv", "cache", "activate", "uncache", "split"}
  /\ failures < MaxFailures /\ failures' = failures + 1
  /\ Goto(v, "idle") /\ Keep /\ KeepLvm
CommandRefused(v) ==
  LET n == at[v] host == NodeVg(n) IN
  /\ \/ On(v, "group") /\ ~Exists(n, host) /\ ssd[n] # NoMeta
     \/ On(v, "ssd") /\ ssd[n].name # host /\ ~(Whole(n, host) /\ ssd[n] = NoMeta)
     \/ On(v, "join") /\ meta[v].name = NoVg /\ ~Whole(n, host)
     \/ On(v, "merge") /\ ~(Whole(n, host) /\ ~Partial(n, Group(n, KeyOf(meta[v]))))
     \/ /\ On(v, "lv") /\ ~HasLv(n, v)
        /\ ~(Whole(n, host) /\ v \in Present(n, The(n, host)))
     \/ /\ On(v, "cache") /\ ~IsCachingSetup(n, v)
        /\ ~(Whole(n, host) /\ Ssd(n) \in The(n, host).pvs)
     \/ On(v, "activate") /\ ~Unique(n, host)
     \/ /\ On(v, "uncache") /\ (IsCachingSetup(n, v) \/ LvsFails(n))
        /\ ~(Whole(n, host) /\ CachedIn(The(n, host), v))
     \/ /\ On(v, "split")
        /\ ~(/\ Whole(n, host) /\ v \in Present(n, The(n, host))
             /\ ~CachedIn(The(n, host), v))
  /\ Goto(v, "idle") /\ Keep /\ KeepLvm /\ UNCHANGED failures

(***************************************************************************)
(* watchDiskDetaches: any event in /dev.  vgck drops the metadata of a     *)
(* disk that the group no longer lists, then the group is reduced.         *)
(***************************************************************************)
Outdated(n) == {v \in Attached(n) : KeyOf(meta[v]) = KeyOf(ssd[n]) /\ v \notin ssd[n].pvs}
WatchDiskDetaches(n) ==
  LET g == The(n, NodeVg(n)) IN
  /\ boot[n] = "ready" /\ ssd[n].name = NodeVg(n) /\ Unique(n, NodeVg(n))
  /\ Outdated(n) # {} \/ Partial(n, g)
  /\ meta' = [v \in Volumes |-> IF v \in Outdated(n) THEN NoMeta
                                ELSE IF v \in Present(n, g) THEN Reduced(n, g) ELSE meta[v]]
  /\ ssd' = [ssd EXCEPT ![n] = Reduced(n, g)]
  /\ Lose(Destroyed(n, g) \cup {v \in Outdated(n) : meta[v].lvs[v] # "none"})
  /\ UNCHANGED <<call, ids, failures>> /\ Keep

\* The controller: the disk is detached only once it is unstaged.
AttachDisk(v, n) ==
  /\ at[v] = NoNode
  /\ boot[n] = "ready" \/ BootFails
  /\ at' = [at EXCEPT ![v] = n]
  /\ UNCHANGED <<inc, boot, call, staged, touched, failures, crashes>> /\ KeepLvm
DetachDisk(v) ==
  /\ at[v] # NoNode /\ v \notin touched /\ call[v] = "idle" /\ at' = [at EXCEPT ![v] = NoNode]
  /\ UNCHANGED <<inc, boot, call, staged, touched, failures, crashes>> /\ KeepLvm

\* The machine is replaced by one with the same name and an empty SSD.
Preempt(n) ==
  /\ inc[n] < MaxPreemptions /\ inc' = [inc EXCEPT ![n] = @ + 1]
  /\ ssd' = [ssd EXCEPT ![n] = NoMeta]
  /\ boot' = [boot EXCEPT ![n] = "boot"]
  /\ at' = [v \in Volumes |-> IF at[v] = n THEN NoNode ELSE at[v]]
  /\ call' = [v \in Volumes |-> IF at[v] = n THEN "idle" ELSE call[v]]
  /\ staged' = staged \ Attached(n) /\ touched' = touched \ Attached(n)
  /\ UNCHANGED <<meta, data, ids, failures, crashes>>
\* The driver is restarted: an SSD that is RAIDed is not set up again.
Crash(n) ==
  /\ crashes < MaxCrashes /\ crashes' = crashes + 1
  /\ boot[n] = "ready" \/ (BootFails /\ boot[n] # "boot")
  /\ boot' = [boot EXCEPT ![n] = "ready"]
  /\ call' = [v \in Volumes |-> IF at[v] = n THEN "idle" ELSE call[v]]
  /\ UNCHANGED <<at, inc, staged, touched, failures>> /\ KeepLvm

StageStep(v) ==
  \/ StartStage(v) \/ DetectPreemptionVgConflict(v) \/ UncacheStale(v)
  \/ ReduceStaleVolumeGroup(v) \/ RenameVolumeGroup(v) \/ RegenerateVolumeGroupUuid(v)
  \/ PrepareGroup(v) \/ EnsureLocalSsdInVolumeGroup(v) \/ JoinGroup(v)
  \/ UncacheMerge(v) \/ ReduceMerge(v) \/ Merge(v) \/ CreateMainLv(v)
  \/ AttachCache(v) \/ ActivateGroup(v) \/ CommandRefused(v)
UnstageStep(v) ==
  StartUnstage(v) \/ CleanupReduce(v) \/ CleanupFindLv(v) \/ CleanupUncache(v) \/ CleanupSplit(v)
BootStep(n) == SetupDataCache(n) \/ InitializeDataCacheNode(n) \/ ValidateRaidedLSSDinVG(n)
Next ==
  \/ \E v \in Volumes : StageStep(v) \/ UnstageStep(v) \/ CommandFails(v) \/ ScanFails(v)
                        \/ DetachDisk(v)
  \/ \E n \in Nodes : BootStep(n) \/ InitFails(n) \/ WatchDiskDetaches(n) \/ Preempt(n) \/ Crash(n)
  \/ \E v \in Volumes, n \in Nodes : AttachDisk(v, n)
Spec == Init /\ [][Next]_vars

\* The driver starts, its calls go on, and the kubelet retries NodeStageVolume.
Fairness == /\ \A v \in Volumes : WF_vars(StageStep(v)) /\ WF_vars(UnstageStep(v))
            /\ \A n \in Nodes : WF_vars(BootStep(n)) /\ WF_vars(WatchDiskDetaches(n))

(***************************************************************************)
(* Properties.                                                             *)
(***************************************************************************)
Steps == {"idle", "detect", "uncacheStale", "reduceStale", "rename", "regenerate", "group",
          "ssd", "join", "uncacheMerge", "reduceMerge", "merge", "lv", "cache", "activate",
          "clean", "findLv", "uncache", "split"}
UnstageSteps == {"clean", "findLv", "uncache", "split"}

TypeOK ==
  /\ at \in [Volumes -> Nodes \cup {NoNode}]
  /\ \A m \in {meta[v] : v \in Volumes} \cup {ssd[n] : n \in Nodes} :
       m.id \in 0..ids /\ m.lvs \in [Volumes -> {"none", "plain", "cached"}]
  /\ boot \in [Nodes -> {"boot", "init", "add", "ready"}]
  /\ call \in [Volumes -> Steps]
  /\ staged \subseteq touched /\ touched \subseteq Volumes
  /\ data \in [Volumes -> {"none", "kept", "lost"}]

\* The main volume with the data of the user survives every order of staging,
\* unstaging, preemption, failed commands and sweeps of the watcher: no vgreduce
\* removes it while its cache is missing, and none is created over it
\* (recoverPreemptionVgConflict, mergeStaleVgIntoHost, cleanupCache).  It needs that
\* lvs exits without an error when a PV is missing, that scans and the set-up of the
\* node do not fail, and one volume for each preempted node (README, Observations).
UserDataSurvives == \A v \in Volumes : data[v] # "lost"

\* A volume that setupCaching succeeded for is a cached volume of the group of
\* its node, and its cache lies on the SSD the node has now.
StagedIsCached ==
  \A v \in staged : LET n == at[v] IN
    /\ n # NoNode /\ KeyOf(meta[v]) = KeyOf(ssd[n]) /\ meta[v].name = NodeVg(n)
    /\ {v, Ssd(n)} \subseteq ssd[n].pvs /\ CachedIn(ssd[n], v)

\* cleanupCache splits a disk from the group of the node before it is detached,
\* so the watcher finds no member of that group missing.  (Where vgscan and lvscan do
\* not fail: README, Observations.)
DetachedDiskIsSplit ==
  [][\A v \in Volumes :
       (at[v] # NoNode /\ at'[v] = NoNode /\ inc' = inc /\ meta[v].lvs[v] # "none")
         => KeyOf(meta[v]) # KeyOf(ssd[at[v]])]_vars

\* A disk that stays attached, and that the kubelet keeps staging, is staged in
\* the end: every state a preemption, a crash or a failed command leaves behind
\* is one that setupCaching gets out of.
StagedInTheEnd ==
  Fairness => \A v \in Volumes :
    <>[](at[v] # NoNode /\ call[v] \notin UnstageSteps /\ ids <= MaxGroups) => <>(v \in staged)

=============================================================================
