------------------------ MODULE FormatAndMountProofs ------------------------
(***************************************************************************)
(* BoundedConcurrency for every finite set of calls and every number of    *)
(* places.  It rests on a goroutine being armed exactly once per           *)
(* acquisition: a call that waits has none, and one that mounts in time    *)
(* has not given its place back.                                           *)
(***************************************************************************)
EXTENDS FormatAndMount, FiniteSetTheorems, TLAPS

Armed == {c \in Calls : releaser[c] = "armed"}
InTime == {c \in Calls : pc[c] = "mounting" /\ c \notin overdue}
PlacesInv ==
  /\ pc \in [Calls -> {"idle", "waiting", "mounting", "done"}]
  /\ releaser \in [Calls -> {"none", "armed", "released"}]
  /\ overdue \subseteq Calls
  /\ places \in 0 .. MaxConcurrent
  /\ places = Cardinality(Armed)
  /\ \A c \in Calls : pc[c] \in {"idle", "waiting"} => releaser[c] = "none"
  /\ InTime \subseteq Armed

LEMMA ArmedIsFinite == IsFiniteSet(Armed) /\ Cardinality(Armed) \in Nat
<1>1. Armed \subseteq Calls  BY DEF Armed
<1> QED  BY <1>1, CallsAssumption, FS_Subset, FS_CardinalityType

LEMMA InitPlacesInv == Init => PlacesInv
<1> SUFFICES ASSUME Init PROVE PlacesInv  OBVIOUS
<1>1. Armed = {} /\ InTime = {}  BY DEF Init, Armed, InTime
<1>2. Cardinality(Armed) = 0  BY <1>1, FS_EmptySet
<1> QED  BY <1>1, <1>2, MaxConcurrentAssumption DEF Init, PlacesInv

LEMMA PlacesInvStep == PlacesInv /\ [Next]_vars => PlacesInv'
<1> SUFFICES ASSUME PlacesInv, [Next]_vars PROVE PlacesInv'  OBVIOUS
<1> USE MaxConcurrentAssumption
<1>1. ASSUME NEW c \in Calls, Begin(c) PROVE PlacesInv'
  <2>1. Armed' = Armed  BY <1>1 DEF Begin, Armed
  <2>2. InTime' \subseteq InTime  BY <1>1 DEF Begin, InTime, PlacesInv
  <2> QED  BY <1>1, <2>1, <2>2 DEF Begin, PlacesInv
<1>2. ASSUME NEW c \in Calls, Acquire(c) PROVE PlacesInv'
  <2>1. c \notin Armed  BY <1>2 DEF Acquire, Armed, PlacesInv
  <2>2. Armed' = Armed \cup {c}  BY <1>2 DEF Acquire, Armed, PlacesInv
  <2>3. Cardinality(Armed') = Cardinality(Armed) + 1
    BY <2>1, <2>2, ArmedIsFinite, FS_AddElement
  <2>4. InTime' \subseteq InTime \cup {c}  BY <1>2 DEF Acquire, InTime, PlacesInv
  <2>5. places' \in 0 .. MaxConcurrent  BY <1>2 DEF Acquire, PlacesInv
  <2> QED  BY <1>2, <2>2, <2>3, <2>4, <2>5 DEF Acquire, PlacesInv
<1>3. ASSUME NEW c \in Calls, Return(c) PROVE PlacesInv'
  <2>1. Armed' = Armed  BY <1>3 DEF Return, Armed
  <2>2. InTime' \subseteq InTime  BY <1>3 DEF Return, InTime, PlacesInv
  <2> QED  BY <1>3, <2>1, <2>2 DEF Return, PlacesInv
<1>4. ASSUME NEW c \in Calls, TimerFires(c) PROVE PlacesInv'
  <2>1. Armed' = Armed  BY <1>4 DEF TimerFires, Armed
  <2>2. InTime' \subseteq InTime  BY <1>4 DEF TimerFires, InTime
  <2> QED  BY <1>4, <2>1, <2>2 DEF TimerFires, PlacesInv
<1>5. ASSUME NEW c \in Calls, Release(c) PROVE PlacesInv'
  <2>1. c \in Armed  BY <1>5 DEF Release, Armed
  <2>2. Armed' = Armed \ {c}  BY <1>5 DEF Release, Armed, PlacesInv
  <2>3. Cardinality(Armed') = Cardinality(Armed) - 1
    BY <2>1, <2>2, ArmedIsFinite, FS_RemoveElement
  <2>4. InTime' = InTime /\ c \notin InTime  BY <1>5 DEF Release, InTime
  <2>5. Cardinality(Armed') \in Nat  BY <2>2, ArmedIsFinite, FS_RemoveElement, FS_CardinalityType
  <2>6. places' \in 0 .. MaxConcurrent  BY <1>5, <2>3, <2>5 DEF Release, PlacesInv
  <2> QED  BY <1>5, <2>2, <2>3, <2>4, <2>6 DEF Release, PlacesInv
<1>6. ASSUME NEW c \in Calls, Again(c) PROVE PlacesInv'
  <2>1. Armed' = Armed  BY <1>6 DEF Again, Armed, PlacesInv
  <2>2. InTime' \subseteq InTime  BY <1>6 DEF Again, InTime, PlacesInv
  <2> QED  BY <1>6, <2>1, <2>2 DEF Again, PlacesInv
<1>7. CASE UNCHANGED vars  BY <1>7 DEF vars, PlacesInv, Armed, InTime
<1> QED  BY <1>1, <1>2, <1>3, <1>4, <1>5, <1>6, <1>7 DEF Next, Hang

(***************************************************************************)
(* At most MaxConcurrent calls format and mount at a time, apart from      *)
(* those that have overrun their timeout, and no place is given back twice.*)
(***************************************************************************)
THEOREM BoundedConcurrencyTheorem == Spec => []BoundedConcurrency
<1>1. PlacesInv => BoundedConcurrency
  <2> SUFFICES ASSUME PlacesInv PROVE BoundedConcurrency  OBVIOUS
  <2>1. /\ IsFiniteSet(InTime) /\ Cardinality(InTime) \in Nat
        /\ Cardinality(InTime) <= Cardinality(Armed)
    BY ArmedIsFinite, FS_Subset, FS_CardinalityType DEF PlacesInv
  <2>2. Cardinality(InTime) <= MaxConcurrent
    BY <2>1, ArmedIsFinite, MaxConcurrentAssumption DEF PlacesInv
  <2> QED  BY <2>2 DEF PlacesInv, BoundedConcurrency, InTime, Armed
<1> QED  BY <1>1, InitPlacesInv, PlacesInvStep, PTL DEF Spec
=============================================================================
