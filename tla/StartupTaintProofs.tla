------------------------- MODULE StartupTaintProofs -------------------------
(***************************************************************************)
(* UnreadyNodeIsTainted for every bound on changes, edits and failures.    *)
(* The controller decides on cached copies; the inductive invariant says   *)
(* that what they hold was true once: a cached driver has been registered, *)
(* and a patch is sent only when one of the two reasons for it is there,   *)
(* both of which last.                                                     *)
(***************************************************************************)
EXTENDS StartupTaint, TLAPS

TaintInv ==
  /\ disabled \in BOOLEAN /\ registered \in BOOLEAN /\ old \in BOOLEAN /\ created \in BOOLEAN
  /\ csi = "driver" => registered
  /\ cCsi = "driver" => registered
  /\ pc = "patch" => registered \/ old
  /\ UnreadyNodeIsTainted

LEMMA InitTaintInv == Init => TaintInv
BY DEF Init, TaintInv, UnreadyNodeIsTainted

LEMMA TaintInvStep == TaintInv /\ [Next \/ Rest]_vars => TaintInv'
<1> SUFFICES ASSUME TaintInv, [Next \/ Rest]_vars PROVE TaintInv'  OBVIOUS
<1> USE DEF TaintInv, UnreadyNodeIsTainted, HasStartupTaint, node, caches, reconciler, bounds
<1>1. CASE Handle  BY <1>1 DEF Handle, BuildTaintPatches
<1>2. CASE WatchNode \/ WatchCSINode  BY <1>2 DEF WatchNode, WatchCSINode
<1>3. CASE GetNode  BY <1>3 DEF GetNode
<1>4. CASE GetCSINode  BY <1>4 DEF GetCSINode, IsDriverRegistered
<1>5. CASE RemoveTaint  BY <1>5 DEF RemoveTaint
<1>6. CASE Fails  BY <1>6 DEF Fails
<1>7. CASE ChangeCSINode  BY <1>7 DEF ChangeCSINode
<1>8. CASE Age  BY <1>8 DEF Age
<1>9. CASE ChangeOtherTaint
  <2>1. Startup # Other  BY DEF Startup, Other
  <2>2. Startup \in taints => Startup \in taints'  BY <1>9, <2>1 DEF ChangeOtherTaint
  <2> QED  BY <1>9, <2>2 DEF ChangeOtherTaint
<1>10. CASE UNCHANGED vars  BY <1>10 DEF vars
<1> QED  BY <1>1, <1>2, <1>3, <1>4, <1>5, <1>6, <1>7, <1>8, <1>9, <1>10 DEF Next, Reconcile, Rest

(***************************************************************************)
(* A node that has not opted out is tainted until the driver has been      *)
(* registered or the grace period is over.                                 *)
(***************************************************************************)
THEOREM UnreadyNodeTheorem == Spec => []UnreadyNodeIsTainted
<1>1. TaintInv => UnreadyNodeIsTainted  BY DEF TaintInv
<1> QED  BY <1>1, InitTaintInv, TaintInvStep, PTL DEF Spec
=============================================================================
