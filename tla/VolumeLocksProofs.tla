------------------------- MODULE VolumeLocksProofs -------------------------
(***************************************************************************)
(* Proofs about VolumeLocks, for every finite set of clients and every set *)
(* of lock IDs.  The invariants TypeOK, CountersAreHolders and Exclusion   *)
(* are inductive together: a call reads only the counters, so Exclusion is *)
(* preserved because the counters say who holds the lock.                  *)
(***************************************************************************)
EXTENDS VolumeLocks, FiniteSetTheorems, TLAPS

LockInv == TypeOK /\ CountersAreHolders /\ Exclusion

\* The holders of a lock are finitely many, so a count of zero means none.
LEMMA SharersAreFinite ==
  \A id \in IDs : /\ IsFiniteSet(Sharers(id))
                  /\ Cardinality(Sharers(id)) = 0 <=> Sharers(id) = {}
<1>1. ASSUME NEW id \in IDs PROVE IsFiniteSet(Sharers(id))
  <2>1. Sharers(id) \subseteq Clients  BY DEF Sharers
  <2> QED  BY <2>1, ClientsAssumption, FS_Subset
<1> QED  BY <1>1, FS_EmptySet

\* What a lock attempt learns from the counters.
LEMMA CountersTellWhoHolds ==
  ASSUME LockInv, NEW id \in IDs
  PROVE  /\ ~State(id).writer => \A c \in Clients : holds[c][id] # "exclusive"
         /\ State(id).readers = 0 => \A c \in Clients : holds[c][id] # "shared"
BY SharersAreFinite, Zenon DEF LockInv, CountersAreHolders, Owners, Sharers

LEMMA InitLockInv == Init => LockInv
<1> SUFFICES ASSUME Init PROVE LockInv  OBVIOUS
<1>1. TypeOK  BY DEF Init, TypeOK
<1>2. \A id \in IDs : Owners(id) = {} /\ Sharers(id) = {}  BY DEF Init, Owners, Sharers
<1>3. \A id \in IDs : State(id) = Unlocked  BY DEF Init, State
<1>4. CountersAreHolders
  <2>1. DOMAIN locks = {}  BY DEF Init
  <2>2. Cardinality({}) = 0  BY FS_EmptySet
  <2>3. \A id \in IDs : State(id).writer = FALSE /\ State(id).readers = 0  BY <1>3 DEF Unlocked
  <2>4. {id \in IDs : Owners(id) \cup Sharers(id) # {}} = {}  BY <1>2
  <2> QED  BY <1>2, <2>1, <2>2, <2>3, <2>4, Zenon DEF CountersAreHolders
<1>5. Exclusion  BY DEF Init, Exclusion
<1> QED  BY <1>1, <1>4, <1>5 DEF LockInv
-----------------------------------------------------------------------------
\* What the actions do to the holders.

LEMMA HoldersAfter ==
  ASSUME LockInv, NEW c \in Clients, NEW id \in IDs, NEW h \in {"no", "exclusive", "shared"},
         holds' = [holds EXCEPT ![c][id] = h]
  PROVE  /\ \A i \in IDs : i # id => Owners(i)' = Owners(i) /\ Sharers(i)' = Sharers(i)
         /\ Owners(id)' = IF h = "exclusive" THEN Owners(id) \cup {c} ELSE Owners(id) \ {c}
         /\ Sharers(id)' = IF h = "shared" THEN Sharers(id) \cup {c} ELSE Sharers(id) \ {c}
         /\ holds' \in [Clients -> [IDs -> {"no", "exclusive", "shared"}]]
<1> holds \in [Clients -> [IDs -> {"no", "exclusive", "shared"}]]  BY DEF LockInv, TypeOK
<1>1. \A e \in Clients, i \in IDs :
        holds'[e][i] = IF e = c /\ i = id THEN h ELSE holds[e][i]
  OBVIOUS
<1>2. holds' \in [Clients -> [IDs -> {"no", "exclusive", "shared"}]]  OBVIOUS
<1>3. \A i \in IDs : i # id => Owners(i)' = Owners(i) /\ Sharers(i)' = Sharers(i)
  BY <1>1 DEF Owners, Sharers
<1>4. Owners(id)' = IF h = "exclusive" THEN Owners(id) \cup {c} ELSE Owners(id) \ {c}
  BY <1>1 DEF Owners
<1>5. Sharers(id)' = IF h = "shared" THEN Sharers(id) \cup {c} ELSE Sharers(id) \ {c}
  BY <1>1 DEF Sharers
<1> QED  BY <1>2, <1>3, <1>4, <1>5

\* Who held the lock before each call that returns, and who holds it after.
LEMMA TryAcquireHolders ==
  ASSUME LockInv, NEW c \in Clients, NEW id \in IDs, TryAcquire(c, id)
  PROVE  /\ Owners(id) = {} /\ Sharers(id) = {}
         /\ \A i \in IDs : i # id => Owners(i)' = Owners(i) /\ Sharers(i)' = Sharers(i)
         /\ Owners(id)' = {c} /\ Sharers(id)' = {}
         /\ holds' \in [Clients -> [IDs -> {"no", "exclusive", "shared"}]]
<1>1. Owners(id) = {} /\ Sharers(id) = {}
  BY CountersTellWhoHolds DEF TryAcquire, Owners, Sharers
<1>2. /\ \A i \in IDs : i # id => Owners(i)' = Owners(i) /\ Sharers(i)' = Sharers(i)
      /\ Owners(id)' = {c} /\ Sharers(id)' = {}
      /\ holds' \in [Clients -> [IDs -> {"no", "exclusive", "shared"}]]
  <2>1. holds' = [holds EXCEPT ![c][id] = "exclusive"]  BY DEF TryAcquire
  <2>2. /\ \A i \in IDs : i # id => Owners(i)' = Owners(i) /\ Sharers(i)' = Sharers(i)
        /\ Owners(id)' = Owners(id) \cup {c} /\ Sharers(id)' = Sharers(id) \ {c}
        /\ holds' \in [Clients -> [IDs -> {"no", "exclusive", "shared"}]]
    BY <2>1, HoldersAfter, ZenonT(30)
  <2> QED  BY <1>1, <2>2, Zenon
<1> QED  BY <1>1, <1>2

LEMMA TryAcquireSharedHolders ==
  ASSUME LockInv, NEW c \in Clients, NEW id \in IDs, TryAcquireShared(c, id)
  PROVE  /\ Owners(id) = {} /\ c \notin Sharers(id)
         /\ \A i \in IDs : i # id => Owners(i)' = Owners(i) /\ Sharers(i)' = Sharers(i)
         /\ Owners(id)' = {} /\ Sharers(id)' = Sharers(id) \cup {c}
         /\ holds' \in [Clients -> [IDs -> {"no", "exclusive", "shared"}]]
<1>1. Owners(id) = {} /\ c \notin Sharers(id)
  BY CountersTellWhoHolds DEF TryAcquireShared, Owners, Sharers
<1>2. /\ \A i \in IDs : i # id => Owners(i)' = Owners(i) /\ Sharers(i)' = Sharers(i)
      /\ Owners(id)' = {} /\ Sharers(id)' = Sharers(id) \cup {c}
      /\ holds' \in [Clients -> [IDs -> {"no", "exclusive", "shared"}]]
  <2>1. holds' = [holds EXCEPT ![c][id] = "shared"]  BY DEF TryAcquireShared
  <2>2. /\ \A i \in IDs : i # id => Owners(i)' = Owners(i) /\ Sharers(i)' = Sharers(i)
        /\ Owners(id)' = Owners(id) \ {c} /\ Sharers(id)' = Sharers(id) \cup {c}
        /\ holds' \in [Clients -> [IDs -> {"no", "exclusive", "shared"}]]
    BY <2>1, HoldersAfter, ZenonT(30)
  <2> QED  BY <1>1, <2>2, Zenon
<1> QED  BY <1>1, <1>2

LEMMA ReleaseHolders ==
  ASSUME LockInv, NEW c \in Clients, NEW id \in IDs, Release(c, id)
  PROVE  /\ Owners(id) = {c} /\ Sharers(id) = {}
         /\ \A i \in IDs : i # id => Owners(i)' = Owners(i) /\ Sharers(i)' = Sharers(i)
         /\ Owners(id)' = {} /\ Sharers(id)' = {}
         /\ holds' \in [Clients -> [IDs -> {"no", "exclusive", "shared"}]]
<1>1. Owners(id) = {c} /\ Sharers(id) = {}
  BY DEF LockInv, TypeOK, Exclusion, Release, Owners, Sharers
<1>2. /\ \A i \in IDs : i # id => Owners(i)' = Owners(i) /\ Sharers(i)' = Sharers(i)
      /\ Owners(id)' = {} /\ Sharers(id)' = {}
      /\ holds' \in [Clients -> [IDs -> {"no", "exclusive", "shared"}]]
  <2>1. holds' = [holds EXCEPT ![c][id] = "no"]  BY DEF Release
  <2>2. /\ \A i \in IDs : i # id => Owners(i)' = Owners(i) /\ Sharers(i)' = Sharers(i)
        /\ Owners(id)' = Owners(id) \ {c} /\ Sharers(id)' = Sharers(id) \ {c}
        /\ holds' \in [Clients -> [IDs -> {"no", "exclusive", "shared"}]]
    BY <2>1, HoldersAfter, Zenon
  <2> QED  BY <1>1, <2>2
<1> QED  BY <1>1, <1>2

LEMMA ReleaseSharedHolders ==
  ASSUME LockInv, NEW c \in Clients, NEW id \in IDs, ReleaseShared(c, id)
  PROVE  /\ Owners(id) = {} /\ c \in Sharers(id)
         /\ \A i \in IDs : i # id => Owners(i)' = Owners(i) /\ Sharers(i)' = Sharers(i)
         /\ Owners(id)' = {} /\ Sharers(id)' = Sharers(id) \ {c}
         /\ holds' \in [Clients -> [IDs -> {"no", "exclusive", "shared"}]]
<1>1. Owners(id) = {} /\ c \in Sharers(id)
  BY DEF LockInv, TypeOK, Exclusion, ReleaseShared, Owners, Sharers
<1>2. /\ \A i \in IDs : i # id => Owners(i)' = Owners(i) /\ Sharers(i)' = Sharers(i)
      /\ Owners(id)' = {} /\ Sharers(id)' = Sharers(id) \ {c}
      /\ holds' \in [Clients -> [IDs -> {"no", "exclusive", "shared"}]]
  <2>1. holds' = [holds EXCEPT ![c][id] = "no"]  BY DEF ReleaseShared
  <2>2. /\ \A i \in IDs : i # id => Owners(i)' = Owners(i) /\ Sharers(i)' = Sharers(i)
        /\ Owners(id)' = Owners(id) \ {c} /\ Sharers(id)' = Sharers(id) \ {c}
        /\ holds' \in [Clients -> [IDs -> {"no", "exclusive", "shared"}]]
    BY <2>1, HoldersAfter, ZenonT(30)
  <2> QED  BY <1>1, <2>2, Zenon
<1> QED  BY <1>1, <1>2

\* What the actions do to the map.
LEMMA EntrySet ==
  ASSUME LockInv, NEW id \in IDs, NEW s \in [writer : BOOLEAN, readers : Nat],
         locks' = WithEntry(id, s)
  PROVE  /\ DOMAIN locks' = DOMAIN locks \cup {id}
         /\ locks' \in [DOMAIN locks' -> [writer : BOOLEAN, readers : Nat]]
         /\ State(id)' = s
         /\ \A i \in IDs : i # id => State(i)' = State(i)
BY DEF LockInv, TypeOK, WithEntry, State

LEMMA EntryRemoved ==
  ASSUME LockInv, NEW id \in IDs, locks' = WithoutEntry(id)
  PROVE  /\ DOMAIN locks' = DOMAIN locks \ {id}
         /\ locks' \in [DOMAIN locks' -> [writer : BOOLEAN, readers : Nat]]
         /\ State(id)' = Unlocked
         /\ \A i \in IDs : i # id => State(i)' = State(i)
BY DEF LockInv, TypeOK, WithoutEntry, State

LEMMA StateType == ASSUME LockInv, NEW id \in IDs PROVE State(id) \in [writer : BOOLEAN, readers : Nat]
BY DEF LockInv, TypeOK, State, Unlocked

-----------------------------------------------------------------------------
LEMMA TryAcquireKeeps ==
  ASSUME LockInv, NEW c \in Clients, NEW id \in IDs, TryAcquire(c, id)
  PROVE  LockInv'
<1>1. Owners(id) = {} /\ Sharers(id) = {}
  BY TryAcquireHolders
<1>2. /\ \A i \in IDs : i # id => Owners(i)' = Owners(i) /\ Sharers(i)' = Sharers(i)
      /\ Owners(id)' = {c} /\ Sharers(id)' = {}
      /\ holds' \in [Clients -> [IDs -> {"no", "exclusive", "shared"}]]
  BY TryAcquireHolders
<1>3. /\ DOMAIN locks' = DOMAIN locks \cup {id}
      /\ locks' \in [DOMAIN locks' -> [writer : BOOLEAN, readers : Nat]]
      /\ State(id)'.writer = TRUE /\ State(id)'.readers = 0
      /\ \A i \in IDs : i # id => State(i)' = State(i)
  <2> DEFINE s == [writer |-> TRUE, readers |-> 0]
  <2>1. s \in [writer : BOOLEAN, readers : Nat] /\ s.writer = TRUE /\ s.readers = 0
    OBVIOUS
  <2>2. locks' = WithEntry(id, s)  BY DEF TryAcquire
  <2> HIDE DEF s
  <2> QED  BY <2>1, <2>2, EntrySet
<1>4. TypeOK'  BY <1>2, <1>3 DEF LockInv, TypeOK
<1>5. CountersAreHolders'
  <2>1. Cardinality({}) = 0  BY FS_EmptySet
  <2>2. ASSUME NEW i \in IDs
        PROVE  /\ State(i)'.writer <=> Owners(i)' # {}
               /\ State(i)'.readers = Cardinality(Sharers(i)')
    <3>1. CASE i = id  BY <1>2, <1>3, <2>1, <3>1, Zenon
    <3>2. CASE i # id  BY <1>2, <1>3, <3>2 DEF LockInv, CountersAreHolders
    <3> QED  BY <3>1, <3>2
  <2>3. DOMAIN locks' = {i \in IDs : Owners(i)' \cup Sharers(i)' # {}}
    BY <1>2, <1>3, Zenon DEF LockInv, CountersAreHolders
  <2> QED  BY <2>2, <2>3 DEF CountersAreHolders
<1>6. Exclusion'
  BY <1>1 DEF LockInv, TypeOK, Exclusion, TryAcquire, Owners, Sharers
<1> QED  BY <1>4, <1>5, <1>6 DEF LockInv

LEMMA TryAcquireSharedKeeps ==
  ASSUME LockInv, NEW c \in Clients, NEW id \in IDs, TryAcquireShared(c, id)
  PROVE  LockInv'
<1>1. Owners(id) = {} /\ c \notin Sharers(id)
  BY TryAcquireSharedHolders
<1>2. /\ \A i \in IDs : i # id => Owners(i)' = Owners(i) /\ Sharers(i)' = Sharers(i)
      /\ Owners(id)' = {} /\ Sharers(id)' = Sharers(id) \cup {c}
      /\ holds' \in [Clients -> [IDs -> {"no", "exclusive", "shared"}]]
  BY TryAcquireSharedHolders
<1>3. /\ DOMAIN locks' = DOMAIN locks \cup {id}
      /\ locks' \in [DOMAIN locks' -> [writer : BOOLEAN, readers : Nat]]
      /\ State(id)'.writer = FALSE /\ State(id)'.readers = State(id).readers + 1
      /\ \A i \in IDs : i # id => State(i)' = State(i)
  <2> DEFINE s == [writer |-> FALSE, readers |-> State(id).readers + 1]
  <2>1. /\ s \in [writer : BOOLEAN, readers : Nat]
        /\ s.writer = FALSE /\ s.readers = State(id).readers + 1
    BY StateType
  <2>2. locks' = WithEntry(id, s)  BY DEF TryAcquireShared
  <2> HIDE DEF s
  <2> QED  BY <2>1, <2>2, EntrySet, Zenon
<1>4. TypeOK'  BY <1>2, <1>3 DEF LockInv, TypeOK
<1>5. CountersAreHolders'
  <2>1. Cardinality(Sharers(id)') = Cardinality(Sharers(id)) + 1
    BY <1>1, <1>2, SharersAreFinite, FS_AddElement, Zenon
  <2>2. ASSUME NEW i \in IDs
        PROVE  /\ State(i)'.writer <=> Owners(i)' # {}
               /\ State(i)'.readers = Cardinality(Sharers(i)')
    <3>1. CASE i = id  BY <1>2, <1>3, <2>1, <3>1, Zenon DEF LockInv, CountersAreHolders
    <3>2. CASE i # id  BY <1>2, <1>3, <3>2 DEF LockInv, CountersAreHolders
    <3> QED  BY <3>1, <3>2
  <2>3. DOMAIN locks' = {i \in IDs : Owners(i)' \cup Sharers(i)' # {}}
    BY <1>2, <1>3, Zenon DEF LockInv, CountersAreHolders
  <2> QED  BY <2>2, <2>3 DEF CountersAreHolders
<1>6. Exclusion'
  BY <1>1 DEF LockInv, TypeOK, Exclusion, TryAcquireShared, Owners, Sharers
<1> QED  BY <1>4, <1>5, <1>6 DEF LockInv

LEMMA ReleaseKeeps ==
  ASSUME LockInv, NEW c \in Clients, NEW id \in IDs, Release(c, id)
  PROVE  LockInv'
<1>1. Owners(id) = {c} /\ Sharers(id) = {}
  BY ReleaseHolders
<1>2. /\ \A i \in IDs : i # id => Owners(i)' = Owners(i) /\ Sharers(i)' = Sharers(i)
      /\ Owners(id)' = {} /\ Sharers(id)' = {}
      /\ holds' \in [Clients -> [IDs -> {"no", "exclusive", "shared"}]]
  BY ReleaseHolders
<1>3. State(id).readers = 0  BY <1>1, FS_EmptySet DEF LockInv, CountersAreHolders
<1>4. /\ DOMAIN locks' = DOMAIN locks \ {id}
      /\ locks' \in [DOMAIN locks' -> [writer : BOOLEAN, readers : Nat]]
      /\ State(id)'.writer = FALSE /\ State(id)'.readers = 0
      /\ \A i \in IDs : i # id => State(i)' = State(i)
  <2>1. locks' = WithoutEntry(id)  BY <1>3 DEF Release
  <2>2. Unlocked.writer = FALSE /\ Unlocked.readers = 0  BY DEF Unlocked
  <2> QED  BY <2>1, <2>2, EntryRemoved
<1>5. TypeOK'  BY <1>2, <1>4 DEF LockInv, TypeOK
<1>6. CountersAreHolders'
  <2>1. Cardinality({}) = 0  BY FS_EmptySet
  <2>2. ASSUME NEW i \in IDs
        PROVE  /\ State(i)'.writer <=> Owners(i)' # {}
               /\ State(i)'.readers = Cardinality(Sharers(i)')
    <3>1. CASE i = id  BY <1>2, <1>4, <2>1, <3>1, Zenon
    <3>2. CASE i # id  BY <1>2, <1>4, <3>2 DEF LockInv, CountersAreHolders
    <3> QED  BY <3>1, <3>2
  <2>3. DOMAIN locks' = {i \in IDs : Owners(i)' \cup Sharers(i)' # {}}
    BY <1>2, <1>4 DEF LockInv, CountersAreHolders
  <2> QED  BY <2>2, <2>3 DEF CountersAreHolders
<1>7. Exclusion'
  BY DEF LockInv, TypeOK, Exclusion, Release
<1> QED  BY <1>5, <1>6, <1>7 DEF LockInv

LEMMA ReleaseSharedKeeps ==
  ASSUME LockInv, NEW c \in Clients, NEW id \in IDs, ReleaseShared(c, id)
  PROVE  LockInv'
<1>1. Owners(id) = {} /\ c \in Sharers(id)
  BY ReleaseSharedHolders
<1>2. /\ \A i \in IDs : i # id => Owners(i)' = Owners(i) /\ Sharers(i)' = Sharers(i)
      /\ Owners(id)' = {} /\ Sharers(id)' = Sharers(id) \ {c}
      /\ holds' \in [Clients -> [IDs -> {"no", "exclusive", "shared"}]]
  BY ReleaseSharedHolders
<1>3. Cardinality(Sharers(id)') = Cardinality(Sharers(id)) - 1
  BY <1>1, <1>2, SharersAreFinite, FS_RemoveElement, Zenon
<1>4. /\ ~State(id).writer
      /\ State(id).readers = Cardinality(Sharers(id)) /\ State(id).readers \in Nat
      /\ State(id).readers # 0
  BY <1>1, SharersAreFinite, StateType DEF LockInv, CountersAreHolders
<1>5. OneReaderLess(id) = State(id).readers - 1 /\ OneReaderLess(id) \in Nat
  BY <1>4 DEF OneReaderLess
<1>6. OneReaderLess(id) = 0 <=> Sharers(id)' = {}
  BY <1>2, <1>3, <1>4, <1>5, SharersAreFinite, FS_RemoveElement, FS_EmptySet
<1>7. /\ DOMAIN locks' = IF Sharers(id)' = {} THEN DOMAIN locks \ {id} ELSE DOMAIN locks \cup {id}
      /\ locks' \in [DOMAIN locks' -> [writer : BOOLEAN, readers : Nat]]
      /\ State(id)'.writer = FALSE /\ State(id)'.readers = OneReaderLess(id)
      /\ \A i \in IDs : i # id => State(i)' = State(i)
  <2>1. CASE Sharers(id)' = {}
    BY <1>4, <1>6, <2>1, EntryRemoved DEF ReleaseShared, Unlocked
  <2>2. CASE Sharers(id)' # {}
    <3> DEFINE s == [State(id) EXCEPT !.readers = OneReaderLess(id)]
    <3>1. s.writer = FALSE /\ s.readers = OneReaderLess(id)  BY <1>4, <1>5, StateType
    <3>2. s \in [writer : BOOLEAN, readers : Nat]  BY <1>5, StateType
    <3>3. locks' = WithEntry(id, s)  BY <1>6, <2>2 DEF ReleaseShared
    <3> HIDE DEF s
    <3> QED  BY <2>2, <3>1, <3>2, <3>3, EntrySet, Zenon
  <2> QED  BY <2>1, <2>2, Zenon
<1>8. TypeOK'  BY <1>2, <1>7 DEF LockInv, TypeOK
<1>9. CountersAreHolders'
  <2>2. ASSUME NEW i \in IDs
        PROVE  /\ State(i)'.writer <=> Owners(i)' # {}
               /\ State(i)'.readers = Cardinality(Sharers(i)')
    <3>1. CASE i = id  BY <1>2, <1>3, <1>4, <1>5, <1>7, <3>1, Zenon
    <3>2. CASE i # id  BY <1>2, <1>7, <3>2 DEF LockInv, CountersAreHolders
    <3> QED  BY <3>1, <3>2
  <2>3. DOMAIN locks' = {i \in IDs : Owners(i)' \cup Sharers(i)' # {}}
    BY <1>2, <1>7 DEF LockInv, CountersAreHolders
  <2> QED  BY <2>2, <2>3 DEF CountersAreHolders
<1>10. Exclusion'
  BY DEF LockInv, TypeOK, Exclusion, ReleaseShared
<1> QED  BY <1>8, <1>9, <1>10 DEF LockInv
LEMMA NextLockInv == LockInv /\ [Next]_vars => LockInv'
<1> SUFFICES ASSUME LockInv, [Next]_vars PROVE LockInv'  OBVIOUS
<1>1. ASSUME NEW c \in Clients, NEW id \in IDs, TryAcquire(c, id) PROVE LockInv'
  BY <1>1, TryAcquireKeeps
<1>2. ASSUME NEW c \in Clients, NEW id \in IDs, TryAcquireShared(c, id) PROVE LockInv'
  BY <1>2, TryAcquireSharedKeeps
<1>3. ASSUME NEW c \in Clients, NEW id \in IDs, Release(c, id) PROVE LockInv'
  BY <1>3, ReleaseKeeps
<1>4. ASSUME NEW c \in Clients, NEW id \in IDs, ReleaseShared(c, id) PROVE LockInv'
  BY <1>4, ReleaseSharedKeeps
<1>5. CASE UNCHANGED vars
  <2>1. TypeOK' /\ Exclusion'  BY <1>5 DEF vars, LockInv, TypeOK, Exclusion
  <2>2. \A id \in IDs : /\ Owners(id)' = Owners(id) /\ Sharers(id)' = Sharers(id)
                       /\ State(id)' = State(id)
    BY <1>5 DEF vars, State, Owners, Sharers
  <2>3. DOMAIN locks' = DOMAIN locks  BY <1>5 DEF vars
  <2>4. CountersAreHolders'  BY <2>2, <2>3 DEF LockInv, CountersAreHolders
  <2> QED  BY <2>1, <2>4 DEF LockInv
<1> QED  BY <1>1, <1>2, <1>3, <1>4, <1>5 DEF Next

\* Everything at once, for the theorems below.
LEMMA LocksInvariant == Spec => []LockInv
BY InitLockInv, NextLockInv, PTL DEF Spec

(***************************************************************************)
(* The map keeps its type: no release makes a count negative.              *)
(***************************************************************************)
THEOREM LocksTypeCorrect == Spec => []TypeOK
<1>1. LockInv => TypeOK  BY DEF LockInv
<1> QED  BY <1>1, LocksInvariant, PTL

(***************************************************************************)
(* The writer flag and the reader count say at every moment who holds the  *)
(* lock, and no entry outlives its holders.                                *)
(***************************************************************************)
THEOREM CountersAreCorrect == Spec => []CountersAreHolders
<1>1. LockInv => CountersAreHolders  BY DEF LockInv
<1> QED  BY <1>1, LocksInvariant, PTL

(***************************************************************************)
(* A call that holds a lock exclusively is its only holder, however many   *)
(* calls and however many lock IDs there are.                              *)
(***************************************************************************)
THEOREM LocksExclude == Spec => []Exclusion
<1>1. LockInv => Exclusion  BY DEF LockInv
<1> QED  BY <1>1, LocksInvariant, PTL
-----------------------------------------------------------------------------
\* The abstract writer is read off the set of exclusive holders.
LEMMA WriterIs ==
  ASSUME NEW id \in IDs
  PROVE  /\ Owners(id) = {} => Writer(id) = None
         /\ \A c \in Clients : Owners(id) = {c} => Writer(id) = c
BY DEF Writer, OneOf

LEMMA WriterIsAfter ==
  ASSUME NEW id \in IDs
  PROVE  /\ Owners(id)' = {} => Writer(id)' = None
         /\ \A c \in Clients : Owners(id)' = {c} => Writer(id)' = c
         /\ Owners(id)' = Owners(id) => Writer(id)' = Writer(id)
<1>1. Owners(id)' = {} => Writer(id)' = None  BY DEF Writer, OneOf
<1>2. \A c \in Clients : Owners(id)' = {c} => Writer(id)' = c  BY DEF Writer, OneOf
<1>3. Owners(id)' = Owners(id) => Writer(id)' = Writer(id)  BY DEF Writer
<1> QED  BY <1>1, <1>2, <1>3

(***************************************************************************)
(* The code's table of counters implements the readers/writer lock: every  *)
(* successful call is one step of the abstract lock.                       *)
(***************************************************************************)
THEOREM LocksRefinement == Spec => ImplementsReaderWriterLock
<1> DEFINE W == [id \in IDs |-> Writer(id)]
           R == [id \in IDs |-> Sharers(id)]
<1>1. Init => RW!RWInit
  <2> SUFFICES ASSUME Init PROVE RW!RWInit  OBVIOUS
  <2>1. \A id \in IDs : Owners(id) = {} /\ Sharers(id) = {}  BY DEF Init, Owners, Sharers
  <2>2. \A id \in IDs : Writer(id) = None  BY <2>1, WriterIs
  <2> QED  BY <2>1, <2>2 DEF RW!RWInit
<1>2. LockInv /\ [Next]_vars => [RW!RWNext]_(RW!rwVars)
  <2> SUFFICES ASSUME LockInv, [Next]_vars PROVE [RW!RWNext]_(RW!rwVars)  OBVIOUS
  <2>1. ASSUME NEW c \in Clients, NEW id \in IDs, TryAcquire(c, id) PROVE RW!Acquire(c, id)
    <3>1. W[id] = None /\ R[id] = {}  BY <2>1, TryAcquireHolders, WriterIs
    <3>2. \A i \in IDs : Writer(i)' = (IF i = id THEN c ELSE Writer(i)) /\ Sharers(i)' = Sharers(i)
      BY <2>1, TryAcquireHolders, WriterIsAfter
    <3>3. W' = [W EXCEPT ![id] = c] /\ R' = R  BY <3>2, Zenon
    <3> QED  BY <3>1, <3>3 DEF RW!Acquire
  <2>2. ASSUME NEW c \in Clients, NEW id \in IDs, TryAcquireShared(c, id)
        PROVE  RW!AcquireShared(c, id)
    <3>1. W[id] = None /\ c \notin R[id]  BY <2>2, TryAcquireSharedHolders, WriterIs
    <3>2. \A i \in IDs : /\ Owners(i)' = Owners(i)
                         /\ Sharers(i)' = IF i = id THEN Sharers(id) \cup {c} ELSE Sharers(i)
      BY <2>2, TryAcquireSharedHolders, Zenon
    <3>3. \A i \in IDs : Writer(i)' = Writer(i)  BY <3>2, WriterIsAfter
    <3>4. W' = W /\ R' = [R EXCEPT ![id] = R[id] \cup {c}]  BY <3>2, <3>3, Zenon
    <3> QED  BY <3>1, <3>4 DEF RW!AcquireShared
  <2>3. ASSUME NEW c \in Clients, NEW id \in IDs, Release(c, id) PROVE RW!GiveBack(c, id)
    <3>1. W[id] = c  BY <2>3, ReleaseHolders, WriterIs
    <3>2. \A i \in IDs : Writer(i)' = (IF i = id THEN None ELSE Writer(i)) /\ Sharers(i)' = Sharers(i)
      BY <2>3, ReleaseHolders, WriterIsAfter, Zenon
    <3>3. W' = [W EXCEPT ![id] = None] /\ R' = R  BY <3>2, Zenon
    <3> QED  BY <3>1, <3>3 DEF RW!GiveBack
  <2>4. ASSUME NEW c \in Clients, NEW id \in IDs, ReleaseShared(c, id)
        PROVE  RW!GiveBackShared(c, id)
    <3>1. c \in R[id]  BY <2>4, ReleaseSharedHolders
    <3>2. \A i \in IDs : /\ Owners(i)' = Owners(i)
                         /\ Sharers(i)' = IF i = id THEN Sharers(id) \ {c} ELSE Sharers(i)
      BY <2>4, ReleaseSharedHolders, Zenon
    <3>3. \A i \in IDs : Writer(i)' = Writer(i)  BY <3>2, WriterIsAfter
    <3>4. W' = W /\ R' = [R EXCEPT ![id] = R[id] \ {c}]  BY <3>2, <3>3, Zenon
    <3> QED  BY <3>1, <3>4 DEF RW!GiveBackShared
  <2>5. CASE UNCHANGED vars
    BY <2>5 DEF vars, RW!rwVars, Writer, Owners, Sharers
  <2> QED  BY <2>1, <2>2, <2>3, <2>4, <2>5 DEF Next, RW!RWNext
<1> QED  BY <1>1, <1>2, LocksInvariant, PTL DEF Spec, ImplementsReaderWriterLock, RW!RWSpec
=============================================================================
