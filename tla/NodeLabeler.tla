---------------------------- MODULE NodeLabeler -----------------------------
(***************************************************************************)
(* The node labeler: it keeps, for every node, a label per disk type that  *)
(* the node's machine family supports.  A ConfigMap says which types those *)
(* are; its event handler replaces the map in memory and queues all nodes, *)
(* while the reconciler works on another one.  Objects are read from       *)
(* caches; patches are merge patches of single labels.                     *)
(***************************************************************************)
EXTENDS Integers, FiniteSets

CONSTANTS Nodes, Families, Disks,
          Malformed, NoKey,  \* a ConfigMap that does not parse, or lacks its key
          Contents,      \* what the ConfigMap may hold: families' disk types, Malformed or NoKey
          MaxChanges,    \* changes of the ConfigMap
          MaxEdits,      \* edits of labels by others
          MaxFailures, MaxRestarts

Other == "other"         \* a label that is no disk type's
ConfigMap == "configmap"
Keys == Disks \cup {Other}
NoType == "none"
Unlabelled == [k \in Keys |-> "none"]
NoMap == [f \in Families |-> {}]

VARIABLES cm, labels, type,            \* ConfigMap; each node's labels and machine family
          cCm, cLabels, cType,         \* in the caches
          unseen,                      \* objects with changes the watches have not delivered
          event,                       \* a ConfigMap event waits for its handler
          compatibility, queue,
          pc, cur, read, patch,        \* the reconciler: node, what it read, new value per label
          changes, edits, failures, restarts,
          listFailed                   \* the last change of the map reached no node
vars == <<cm, labels, type, cCm, cLabels, cType, unseen, event, compatibility, queue, pc, cur, read, patch,
          changes, edits, failures, restarts, listFailed>>
cluster == <<cm, labels, type>>
objects == <<cm, labels, type, unseen>>
caches == <<cCm, cLabels, cType>>
reconciler == <<pc, cur, read, patch>>
bounds == <<changes, edits, failures, restarts>>

Init ==
  /\ cm \in Contents /\ labels = [n \in Nodes |-> Unlabelled] /\ type \in [Nodes -> Families \cup {NoType}]
  /\ cCm = cm /\ cLabels = labels /\ cType = type /\ unseen = {} /\ event = TRUE
  /\ compatibility = NoMap /\ queue = Nodes
  /\ pc = "idle" /\ cur \in {CHOOSE n \in Nodes : TRUE} /\ read = Unlabelled /\ patch = Unlabelled
  /\ changes = 0 /\ edits = 0 /\ failures = 0 /\ restarts = 0 /\ listFailed = FALSE

\* The types of a machine family that the ConfigMap says are supported.
UpdateMap(data) == [f \in Families |-> {d \in Disks : data[f][d]}]
CompatiblePDs(family) == compatibility[family]

(***************************************************************************)
(* The ConfigMap's event handler.                                          *)
(***************************************************************************)
\* Mutant: the handler replaces the map and queues no node.
MapQueuesNothing ==
  /\ event /\ event' = FALSE
  /\ IF cCm \in {Malformed, NoKey} THEN UNCHANGED <<compatibility, queue>>
     ELSE compatibility' = UpdateMap(cCm) /\ UNCHANGED queue
  /\ UNCHANGED <<objects, caches, reconciler, bounds, listFailed>>
Map ==
  /\ event /\ event' = FALSE
  /\ \/ cCm = Malformed /\ UNCHANGED <<compatibility, queue, failures, listFailed>>
     \/ /\ cCm # Malformed
        /\ compatibility' = IF cCm = NoKey THEN compatibility ELSE UpdateMap(cCm)
        /\ \/ queue' = Nodes /\ listFailed' = FALSE /\ UNCHANGED failures
           \/ /\ failures < MaxFailures /\ failures' = failures + 1
              /\ listFailed' = TRUE /\ UNCHANGED queue
  /\ UNCHANGED <<objects, caches, reconciler, changes, edits, restarts>>

(***************************************************************************)
(* The reconciler.  A node queued again meanwhile is reconciled again.     *)
(***************************************************************************)
GetNode(n) ==
  /\ pc = "idle" /\ n \in queue /\ queue' = queue \ {n}
  /\ cur' = n /\ read' = cLabels[n] /\ pc' = IF cType[n] = NoType THEN "idle" ELSE "labels"
  /\ UNCHANGED <<objects, caches, event, compatibility, patch, bounds, listFailed>>
\* Mutant: labels of types that are no longer supported stay.
NewLabelsAdded(old, pds) == [k \in Keys |-> IF k \in pds THEN "true" ELSE old[k]]
NewLabels(old, pds) ==
  [k \in Keys |-> IF k \in pds THEN "true" ELSE IF k \in Disks THEN "none" ELSE old[k]]
Compute ==
  /\ pc = "labels"
  /\ LET pds == CompatiblePDs(cType[cur])
     IN /\ patch' = NewLabels(read, pds)
        /\ pc' = IF pds = {} \/ NewLabels(read, pds) = read THEN "idle" ELSE "patch"
  /\ UNCHANGED <<objects, caches, event, compatibility, queue, cur, read, bounds, listFailed>>
\* Mutant: the node is written as a whole.
UpdateNode ==
  /\ pc = "patch" /\ pc' = "idle" /\ labels' = [labels EXCEPT ![cur] = patch]
  /\ unseen' = unseen \cup {cur}
  /\ UNCHANGED <<cm, type, caches, event, compatibility, queue, cur, read, patch, bounds, listFailed>>
\* The merge patch holds the labels that differ from what was read.
Patch ==
  /\ pc = "patch" /\ pc' = "idle"
  /\ labels' = [labels EXCEPT ![cur] = [k \in Keys |-> IF patch[k] # read[k] THEN patch[k] ELSE @[k]]]
  /\ unseen' = unseen \cup {cur}
  /\ UNCHANGED <<cm, type, caches, event, compatibility, queue, cur, read, patch, bounds, listFailed>>
\* An error queues the node again.
ReconcileFails ==
  /\ pc # "idle" /\ failures < MaxFailures /\ failures' = failures + 1
  /\ pc' = "idle" /\ queue' = queue \cup {cur}
  /\ UNCHANGED <<objects, caches, event, compatibility, cur, read, patch, changes, edits, restarts, listFailed>>
Reconcile == (\E n \in Nodes : GetNode(n)) \/ Compute \/ Patch

\* The watches the labeler sets up; a heartbeat of the kubelet is an update of the node, too.
WatchNode(n) ==
  /\ n \in unseen /\ unseen' = unseen \ {n}
  /\ cLabels' = [cLabels EXCEPT ![n] = labels[n]] /\ cType' = [cType EXCEPT ![n] = type[n]]
  /\ queue' = queue \cup {n}
  /\ UNCHANGED <<cluster, cCm, event, compatibility, reconciler, bounds, listFailed>>
Heartbeat(n) ==
  /\ queue' = queue \cup {n}
  /\ UNCHANGED <<objects, caches, event, compatibility, reconciler, bounds, listFailed>>
WatchConfigMap ==
  /\ ConfigMap \in unseen /\ unseen' = unseen \ {ConfigMap} /\ cCm' = cm /\ event' = TRUE
  /\ UNCHANGED <<cluster, cLabels, cType, compatibility, queue, reconciler, bounds, listFailed>>
\* A new process lists everything and has no map yet.
Restart ==
  /\ restarts < MaxRestarts /\ restarts' = restarts + 1
  /\ compatibility' = NoMap /\ queue' = Nodes /\ event' = TRUE /\ pc' = "idle"
  /\ cCm' = cm /\ cLabels' = labels /\ cType' = type /\ unseen' = {}
  /\ UNCHANGED <<cluster, cur, read, patch, changes, edits, failures, listFailed>>

ChangeConfigMap ==
  /\ changes < MaxChanges /\ changes' = changes + 1 /\ cm' \in Contents \ {cm}
  /\ unseen' = unseen \cup {ConfigMap}
  /\ UNCHANGED <<labels, type, caches, event, compatibility, queue, reconciler, edits, failures, restarts, listFailed>>
EditLabel(n, k) ==
  /\ edits < MaxEdits /\ edits' = edits + 1
  /\ \E v \in {"none", "true", "false"} \ {labels[n][k]} : labels' = [labels EXCEPT ![n][k] = v]
  /\ unseen' = unseen \cup {n}
  /\ UNCHANGED <<cm, type, caches, event, compatibility, queue, reconciler, changes, failures, restarts, listFailed>>
SetType(n, f) ==
  /\ type[n] = NoType /\ type' = [type EXCEPT ![n] = f] /\ unseen' = unseen \cup {n}
  /\ UNCHANGED <<cm, labels, caches, event, compatibility, queue, reconciler, bounds, listFailed>>

Watch == (\E n \in Nodes : WatchNode(n)) \/ WatchConfigMap
Environment ==
  \/ ChangeConfigMap \/ Restart \/ ReconcileFails
  \/ \E n \in Nodes : \/ Heartbeat(n)
                      \/ \E k \in Keys : EditLabel(n, k)
                      \/ \E f \in Families : SetType(n, f)
Next == Map \/ Reconcile \/ Watch \/ Environment
Spec == Init /\ [][Next]_vars
\* Events are delivered, every queued node gets its turn, and kubelets send heartbeats.
Fairness ==
  /\ WF_vars(Map) /\ WF_vars(Compute) /\ WF_vars(Patch) /\ WF_vars(WatchConfigMap)
  /\ \A n \in Nodes : /\ SF_vars(GetNode(n)) /\ WF_vars(WatchNode(n)) /\ WF_vars(Heartbeat(n))

(***************************************************************************)
(* Properties.                                                             *)
(***************************************************************************)
TypeOK ==
  /\ labels \in [Nodes -> [Keys -> {"none", "true", "false"}]] /\ queue \subseteq Nodes
  /\ pc \in {"idle", "labels", "patch"}

\* The disk types of node n by the ConfigMap of the cluster.
Supported(n) == IF cm \in {Malformed, NoKey} \/ type[n] = NoType THEN {} ELSE UpdateMap(cm)[type[n]]
Right(n) == \A d \in Disks : labels[n][d] = IF d \in Supported(n) THEN "true" ELSE "none"

\* When nothing is waiting any more, every node that supports a type has exactly the labels
\* of the ConfigMap: no change of the map between reading a node and patching it is lost.
SettledLabelsAreRight ==
  ~event /\ queue = {} /\ pc = "idle" /\ unseen = {} /\ ~listFailed
    => \A n \in Nodes : Supported(n) # {} => Right(n)

\* Patching the disk types' labels leaves every other label as it is in the cluster.
OtherLabelsAreKept == [][Patch => \A n \in Nodes : labels'[n][Other] = labels[n][Other]]_vars

\* When the ConfigMap stays as it is, the labels follow it, even where queueing the nodes failed.
LabelsFollow ==
  Fairness => \A n \in Nodes : \A c \in Contents \ {Malformed, NoKey} :
    \A f \in Families : UpdateMap(c)[f] # {} =>
      (<>[](cm = c /\ type[n] = f) => <>[]Right(n))

\* Labels of types the ConfigMap does not support any more are removed.
\* The code does not have this property (README, Observations): Reconcile returns
\* before it removes labels when no type is left for the machine family.
UnsupportedLabelsGo ==
  Fairness => \A n \in Nodes : \A c \in Contents \ {Malformed, NoKey} : <>[](cm = c) => <>[]Right(n)

=============================================================================
