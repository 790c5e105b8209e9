---------------------------- MODULE MCCompanions ----------------------------
(***************************************************************************)
(* The companions of the driver, which watch and change objects of the     *)
(* cluster: the start-up taint, the readiness of a node, the node labeler, *)
(* the restorer of the default StorageClass and the informer of the        *)
(* tenants. They share no state, so a property of one of them holds of     *)
(* them together if it holds where only that one moves: part says which    *)
(* one does, and the others stay in an initial state.                      *)
(***************************************************************************)
EXTENDS StartupTaint

CONSTANTS Malformed, NoKey

VARIABLE part


VARIABLES condition, reporterPc, healthy, seen, resetFailed, crashes, patchFailures, flips
readinessVars == <<condition, reporterPc, healthy, seen, resetFailed, crashes, patchFailures,
                    flips>>
Readiness == INSTANCE NodeReadiness WITH MaxCrashes <- 2, MaxFailures <- 3, MaxFlips <- 3,
  pc <- reporterPc, failures <- patchFailures

VARIABLES cm, labels, type, cCm, cLabels, cType, unseen, event, compatibility, queue, labelerPc,
          cur, readLabels, patch, cmChanges, labelEdits, labelerFailures, labelerRestarts,
          listFailed
labelerVars == <<cm, labels, type, cCm, cLabels, cType, unseen, event, compatibility, queue,
                  labelerPc, cur, readLabels, patch, cmChanges, labelEdits, labelerFailures,
                  labelerRestarts, listFailed>>
\* One machine family with two types of disks; one node with every fault, and two nodes.
Types == {"pd", "hd"}
Only(S) == [f \in {"n2"} |-> [d \in Types |-> d \in S]]
Labeler == INSTANCE NodeLabeler WITH Nodes <- {"a"}, Families <- {"n2"}, Disks <- Types,
  Contents <- {Only({"pd"}), Only({"pd", "hd"}), Malformed, NoKey},
  MaxChanges <- 1, MaxEdits <- 1, MaxFailures <- 1, MaxRestarts <- 1,
  pc <- labelerPc, read <- readLabels, changes <- cmChanges, edits <- labelEdits,
  failures <- labelerFailures, restarts <- labelerRestarts
Labelers == INSTANCE NodeLabeler WITH Nodes <- {"a", "b"}, Families <- {"n2"}, Disks <- Types,
  Contents <- {Only({"pd"}), Only({"pd", "hd"})},
  MaxChanges <- 1, MaxEdits <- 0, MaxFailures <- 1, MaxRestarts <- 0,
  pc <- labelerPc, read <- readLabels, changes <- cmChanges, edits <- labelEdits,
  failures <- labelerFailures, restarts <- labelerRestarts
LabelerAtRest == cm = NoKey /\ type = [n \in {"a"} |-> "n2"] /\ Labeler!Init

VARIABLES exists, default, marker, other, api, access, restorerPc, err, otherDefaults, marked,
          restorerFailures, restarts, classEdits
restorerVars == <<exists, default, marker, other, api, access, restorerPc, err, otherDefaults,
                   marked, restorerFailures, restarts, classEdits>>
Restorer == INSTANCE DefaultClass WITH MaxFailures <- 2, MaxRestarts <- 2, MaxEdits <- 2,
  pc <- restorerPc, failures <- restorerFailures, edits <- classEdits
RestorerAtRest == marker = TRUE /\ other = FALSE /\ Restorer!Init

VARIABLES present, gone, events, tenantServiceMap, writing, callPc, project, service, crashed,
          calls, clientFailures, missed, failed
tenantVars == <<present, gone, events, tenantServiceMap, writing, callPc, project, service,
                 crashed, calls, clientFailures, missed, failed>>
\* Three tenants, of which the first two have the same project one after the other.
Tenancy == INSTANCE Tenants WITH Names <- {"t1", "t2", "t3"}, Projects <- {"p1", "p2"},
  Project <- [t \in {"t1", "t2", "t3"} |-> IF t = "t3" THEN "p2" ELSE "p1"],
  None <- "none", Default <- "default", MaxCalls <- 2, MaxFailures <- 1, MaxMissed <- 1,
  pc <- callPc, failures <- clientFailures

PartsInit ==
  \/ part = "taint" /\ Readiness!Init /\ LabelerAtRest /\ RestorerAtRest /\ Tenancy!Init /\ Init
  \/ part = "readiness" /\ Init /\ LabelerAtRest /\ RestorerAtRest /\ Tenancy!Init /\ Readiness!Init
  \/ part = "labeler" /\ Init /\ Readiness!Init /\ RestorerAtRest /\ Tenancy!Init /\ Labeler!Init
  \/ part = "labelers" /\ Init /\ Readiness!Init /\ RestorerAtRest /\ Tenancy!Init /\ Labelers!Init
  \/ part = "restorer" /\ Init /\ Readiness!Init /\ LabelerAtRest /\ Tenancy!Init /\ Restorer!Init
  \/ part = "tenants" /\ Init /\ Readiness!Init /\ LabelerAtRest /\ RestorerAtRest /\ Tenancy!Init

TaintStep == /\ part = "taint" /\ (Next \/ Rest)
             /\ UNCHANGED <<part, readinessVars, labelerVars, restorerVars, tenantVars>>
ReadinessStep == /\ part = "readiness" /\ (Readiness!Next \/ Readiness!Rest)
                 /\ UNCHANGED <<part, vars, labelerVars, restorerVars, tenantVars>>
LabelerStep == /\ part = "labeler" /\ Labeler!Next
               /\ UNCHANGED <<part, vars, readinessVars, restorerVars, tenantVars>>
LabelersStep == /\ part = "labelers" /\ Labelers!Next
                /\ UNCHANGED <<part, vars, readinessVars, restorerVars, tenantVars>>
RestorerStep == /\ part = "restorer" /\ (Restorer!Next \/ Restorer!Rest)
                /\ UNCHANGED <<part, vars, readinessVars, labelerVars, tenantVars>>
TenantsStep == /\ part = "tenants" /\ (Tenancy!Next \/ Tenancy!Rest)
               /\ UNCHANGED <<part, vars, readinessVars, labelerVars, restorerVars>>
PartsNext == TaintStep \/ ReadinessStep \/ LabelerStep \/ LabelersStep \/ RestorerStep \/
             TenantsStep
PartsSpec == PartsInit /\ [][PartsNext]_<<part, vars, readinessVars, labelerVars, restorerVars, tenantVars>>

(***************************************************************************)
(* Properties: what each part promises, from the properties of its module. *)
(***************************************************************************)
\* Once the driver stays registered, or an old node stays without a CSINode, the start-up
\* taint goes for good, although time passing is no event.
TaintGoes == []TypeOK /\ (part # "taint" \/ FreedInTheEnd)

\* The reporter marks its node ready only when this life of the driver has seen the
\* registrar healthy, or when its one attempt to reset the condition failed; and with a
\* registrar that stays healthy the node is marked in the end, whatever patches failed.
ReadinessIsEarned ==
  /\ [](Readiness!TypeOK /\ Readiness!TrueMeansSeen)
  /\ part # "readiness" \/ Readiness!TrueInTheEnd

\* The labels of a node follow the ConfigMap: they are right when nothing is waiting, no
\* change between the reconciler's read and its patch is lost, labels of others are not
\* touched, and a ConfigMap that stays is followed even where queueing the nodes failed.
LabelsFollowTheConfigMap ==
  /\ [](IF part = "labelers" THEN Labelers!TypeOK /\ Labelers!SettledLabelsAreRight
                             ELSE Labeler!TypeOK /\ Labeler!SettledLabelsAreRight)
  /\ Labeler!OtherLabelsAreKept
  /\ part # "labeler" \/ Labeler!LabelsFollow

\* The restorer's runs end, also while permissions never come; one that ends well leaves no
\* marker and, undisturbed by an administrator, exactly one default class, whatever failed
\* or was killed in earlier runs.
DefaultIsRestored ==
  /\ [](Restorer!TypeOK /\ Restorer!SuccessMeansUnmarked /\ Restorer!RestoredToOneDefault)
  /\ part # "restorer" \/ Restorer!EveryRunEnds

\* With every event handled and none missed, each project has the client of its present
\* tenant, also after it changed hands; and a tenant that stays, and whose client could be
\* made, has it for good in the end, in spite of crashes.
TenantsHaveTheirClients ==
  /\ [](Tenancy!TypeOK /\ Tenancy!SettledMapIsRight)
  /\ part # "tenants" \/ Tenancy!ServedInTheEnd

=============================================================================
