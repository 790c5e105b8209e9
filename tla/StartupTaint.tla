---------------------------- MODULE StartupTaint ----------------------------
(***************************************************************************)
(* The start-up taint of one node: the webhook puts it on a new node, and  *)
(* the controller takes it off when the driver has registered.  The        *)
(* controller reads nodes and CSINodes from caches that lag behind, its    *)
(* patches are merge patches, which replace the list of taints, and other  *)
(* controllers change that list too.                                       *)
(***************************************************************************)
EXTENDS Integers

CONSTANTS Edits,         \* how often other controllers change their taint
          Registrations, \* what the CSINode may come to hold
          MaxChanges,    \* changes of the CSINode
          MaxFailures

Startup == "startup"
Other == "other"

VARIABLES created, disabled,  \* the node, and its label that opts out
          taints, csi, old,   \* taints, CSINode: "none", "others" or "driver"; past the grace period?
          cTaints, cCsi,      \* in the caches of the controller
          queued, pc, read,   \* the work queue, the reconciler, the taints it has read
          registered,         \* has the driver ever been registered?
          edits, changes, failures
vars == <<created, disabled, taints, csi, old, cTaints, cCsi, queued, pc, read, registered,
          edits, changes, failures>>
node == <<created, disabled>>
reconciler == <<queued, pc, read>>
caches == <<cTaints, cCsi>>
bounds == <<edits, changes, failures>>

Init ==
  /\ created = FALSE /\ disabled = FALSE /\ taints = {} /\ csi = "none" /\ old = FALSE
  /\ cTaints = {} /\ cCsi = "none" /\ queued = FALSE /\ pc = "idle" /\ read = {}
  /\ registered = FALSE /\ edits = 0 /\ changes = 0 /\ failures = 0

HasStartupTaint(list) == Startup \in list
\* Mutant: every driver counts.
IsAnyDriverRegistered(csiNode) == csiNode # "none"
IsDriverRegistered(csiNode) == csiNode = "driver"
BuildTaintPatches(existing) == existing \cup {Startup}

\* The kubelet registers the node with some taints, and the webhook admits it.
Handle ==
  /\ ~created /\ created' = TRUE
  /\ \E own \in SUBSET {Startup, Other}, label \in BOOLEAN :
       /\ disabled' = label
       /\ taints' = IF label \/ HasStartupTaint(own) THEN own ELSE BuildTaintPatches(own)
  /\ UNCHANGED <<csi, old, caches, reconciler, registered, bounds>>

\* The watches of both kinds of object fill the caches and queue the node.
WatchNode ==
  /\ created /\ cTaints # taints /\ cTaints' = taints /\ queued' = TRUE
  /\ UNCHANGED <<node, taints, csi, old, cCsi, pc, read, registered, bounds>>
WatchCSINode ==
  /\ created /\ cCsi # csi /\ cCsi' = csi /\ queued' = TRUE
  /\ UNCHANGED <<node, taints, csi, old, cTaints, pc, read, registered, bounds>>

\* Reconcile: the node; its CSINode; the patch.
GetNode ==
  /\ pc = "idle" /\ queued /\ queued' = FALSE /\ read' = cTaints
  /\ pc' = IF HasStartupTaint(cTaints) THEN "csinode" ELSE "idle"
  /\ UNCHANGED <<node, taints, csi, old, caches, registered, bounds>>
\* Mutant: a node whose CSINode is missing is not queued again.
GetCSINodeOnce ==
  /\ pc = "csinode"
  /\ IF IsDriverRegistered(cCsi) \/ (cCsi = "none" /\ old)
     THEN pc' = "patch" /\ UNCHANGED queued
     ELSE pc' = "idle" /\ UNCHANGED queued
  /\ UNCHANGED <<node, taints, csi, old, caches, read, registered, bounds>>
GetCSINode ==
  /\ pc = "csinode"
  /\ IF IsDriverRegistered(cCsi) \/ (cCsi = "none" /\ old)
     THEN pc' = "patch" /\ UNCHANGED queued
     ELSE pc' = "idle" /\ queued' = TRUE
  /\ UNCHANGED <<node, taints, csi, old, caches, read, registered, bounds>>
\* Mutant: the reconciler stays at the patch.
RemoveTaintStays ==
  /\ pc = "patch" /\ taints' = read \ {Startup} /\ pc' = "patched"
  /\ UNCHANGED <<node, csi, old, caches, queued, read, registered, bounds>>
RemoveTaint ==
  /\ pc = "patch" /\ taints' = read \ {Startup} /\ pc' = "idle"
  /\ UNCHANGED <<node, csi, old, caches, queued, read, registered, bounds>>
\* A read or a patch fails, or the controller restarts and lists everything.
Fails ==
  /\ pc # "idle" /\ failures < MaxFailures /\ failures' = failures + 1 /\ pc' = "idle" /\ queued' = TRUE
  /\ UNCHANGED <<node, taints, csi, old, caches, read, registered, edits, changes>>

(***************************************************************************)
(* Kubelet, other controllers and time.                                    *)
(***************************************************************************)
ChangeCSINode ==
  /\ created /\ changes < MaxChanges /\ changes' = changes + 1
  /\ \E c \in Registrations \ {csi} : csi' = c /\ registered' = (registered \/ c = "driver")
  /\ UNCHANGED <<node, taints, old, caches, reconciler, edits, failures>>
Age ==
  /\ created /\ ~old /\ old' = TRUE
  /\ UNCHANGED <<node, taints, csi, caches, reconciler, registered, bounds>>
ChangeOtherTaint ==
  /\ created /\ edits < Edits /\ edits' = edits + 1
  /\ taints' \in {taints \cup {Other}, taints \ {Other}} \ {taints}
  /\ UNCHANGED <<node, csi, old, caches, reconciler, registered, changes, failures>>

Reconcile == GetNode \/ GetCSINode \/ RemoveTaint
Next == \/ Handle \/ WatchNode \/ WatchCSINode \/ Reconcile \/ Fails
        \/ ChangeCSINode \/ Age \/ ChangeOtherTaint
Rest == created /\ pc = "idle" /\ ~queued /\ UNCHANGED vars
Spec == Init /\ [][Next \/ Rest]_vars
\* Watches deliver, the queue is worked off, and time passes.
Fairness == /\ WF_vars(Handle) /\ WF_vars(WatchNode) /\ WF_vars(WatchCSINode)
            /\ WF_vars(Reconcile) /\ WF_vars(Age)

(***************************************************************************)
(* Properties.                                                             *)
(***************************************************************************)
TypeOK ==
  /\ taints \subseteq {Startup, Other} /\ cTaints \subseteq {Startup, Other}
  /\ csi \in {"none", "others", "driver"} /\ pc \in {"idle", "csinode", "patch"}

\* A node that has not opted out carries the taint until the driver has registered or the
\* grace period is over, however late the caches are and whatever else is changed.
UnreadyNodeIsTainted ==
  created /\ ~disabled /\ ~registered /\ ~old => HasStartupTaint(taints)

\* Once the driver stays registered, or an old node stays without a CSINode, the taint goes
\* for good, although time passing is no event.
FreedInTheEnd ==
  Fairness /\ (<>[](csi = "driver") \/ <>[](csi = "none" /\ created)) => <>[]~HasStartupTaint(taints)

\* Removing the start-up taint does not change other taints.
\* The code does not have this property (README, Observations): the patch replaces the
\* list by the cached one.
OtherTaintsAreKept == [][RemoveTaint => (Other \in taints' <=> Other \in taints)]_vars

\* The taint of a node does not outlive the grace period when the driver never gets healthy.
\* The code does not have this property (README, Observations): the age counts only
\* where there is no CSINode.
OldNodeIsFreed == Fairness => <>[]~HasStartupTaint(taints)

=============================================================================
