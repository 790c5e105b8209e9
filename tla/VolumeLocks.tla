---------------------------- MODULE VolumeLocks ----------------------------
(***************************************************************************)
(* The per-volume locks of the controller, pkg/common/volume_lock.go: a    *)
(* map from lock ID to a writer flag and a count of readers, whose methods *)
(* run under one mutex and so are single steps.  An ID that nobody locks   *)
(* has no entry.                                                           *)
(*                                                                         *)
(* The map does not know who holds a lock.  The variable holds is what the *)
(* callers know: each releases what it acquired, once, in the way it       *)
(* acquired it (every TryAcquire in controller.go is followed by the       *)
(* matching deferred release).                                             *)
(***************************************************************************)
EXTENDS Naturals, FiniteSets

CONSTANTS IDs,      \* the lock IDs: volume IDs and "node/volume" IDs
          Clients,  \* the calls and background workers that take locks
          None      \* no client

ASSUME ClientsAssumption == IsFiniteSet(Clients) /\ None \notin Clients

VARIABLES locks,    \* the map: [writer, readers] for every ID with an entry
          holds     \* holds[c][id]: how client c holds id

vars == <<locks, holds>>

\* The state Go reads for an ID that has no entry.
Unlocked == [writer |-> FALSE, readers |-> 0]

State(id) == IF id \in DOMAIN locks THEN locks[id] ELSE Unlocked

\* The map with the entry of id set to s, and without it.
WithEntry(id, s) ==
  [i \in DOMAIN locks \cup {id} |-> IF i = id THEN s ELSE locks[i]]
WithoutEntry(id) == [i \in DOMAIN locks \ {id} |-> locks[i]]

Init == /\ locks = [i \in {} |-> Unlocked]
        /\ holds = [c \in Clients |-> [id \in IDs |-> "no"]]

\* (Mutant: readers are not looked at.)
TryAcquireDespiteReaders(c, id) ==
  /\ holds[c][id] = "no"
  /\ ~State(id).writer
  /\ locks' = WithEntry(id, [State(id) EXCEPT !.writer = TRUE])
  /\ holds' = [holds EXCEPT ![c][id] = "exclusive"]

TryAcquire(c, id) ==
  /\ holds[c][id] = "no"
  /\ ~State(id).writer
  /\ State(id).readers = 0
  /\ locks' = WithEntry(id, [writer |-> TRUE, readers |-> 0])
  /\ holds' = [holds EXCEPT ![c][id] = "exclusive"]

\* (Mutant: the writer is not looked at.)
TryAcquireSharedDespiteWriter(c, id) ==
  /\ holds[c][id] = "no"
  /\ locks' = WithEntry(id, [State(id) EXCEPT !.readers = @ + 1])
  /\ holds' = [holds EXCEPT ![c][id] = "shared"]

TryAcquireShared(c, id) ==
  /\ holds[c][id] = "no"
  /\ ~State(id).writer
  /\ locks' = WithEntry(id, [writer |-> FALSE, readers |-> State(id).readers + 1])
  /\ holds' = [holds EXCEPT ![c][id] = "shared"]

\* (Mutant: counts a reader down that was never counted up.)
ReleaseAsReader(c, id) ==
  /\ holds[c][id] = "exclusive"
  /\ locks' = WithEntry(id, [writer |-> FALSE, readers |-> State(id).readers - 1])
  /\ holds' = [holds EXCEPT ![c][id] = "no"]

Release(c, id) ==
  /\ holds[c][id] = "exclusive"
  /\ locks' = IF State(id).readers = 0
                THEN WithoutEntry(id)
                ELSE WithEntry(id, [State(id) EXCEPT !.writer = FALSE])
  /\ holds' = [holds EXCEPT ![c][id] = "no"]

\* The count after one reader leaves; the code never lets it go below zero.
OneReaderLess(id) == IF State(id).readers > 0 THEN State(id).readers - 1 ELSE 0

\* (Mutant: the first reader to leave takes the entry with it.)
ReleaseSharedForAll(c, id) ==
  /\ holds[c][id] = "shared"
  /\ locks' = WithoutEntry(id)
  /\ holds' = [holds EXCEPT ![c][id] = "no"]

ReleaseShared(c, id) ==
  /\ holds[c][id] = "shared"
  /\ locks' = IF ~State(id).writer /\ OneReaderLess(id) = 0
                THEN WithoutEntry(id)
                ELSE WithEntry(id, [State(id) EXCEPT !.readers = OneReaderLess(id)])
  /\ holds' = [holds EXCEPT ![c][id] = "no"]

Next == \E c \in Clients, id \in IDs :
          \/ TryAcquire(c, id)
          \/ TryAcquireShared(c, id)
          \/ Release(c, id)
          \/ ReleaseShared(c, id)

Spec == Init /\ [][Next]_vars

-----------------------------------------------------------------------------

Sharers(id) == {c \in Clients : holds[c][id] = "shared"}
Owners(id)  == {c \in Clients : holds[c][id] = "exclusive"}

(***************************************************************************)
(* Type correctness: the map has entries for lock IDs only, each a writer  *)
(* flag and a count that never goes negative.                              *)
(***************************************************************************)
TypeOK == /\ DOMAIN locks \subseteq IDs
          /\ locks \in [DOMAIN locks -> [writer : BOOLEAN, readers : Nat]]
          /\ holds \in [Clients -> [IDs -> {"no", "exclusive", "shared"}]]

(***************************************************************************)
(* The counters tell the truth: the flag is set exactly when some call     *)
(* holds the ID exclusively, the count is the number of calls that share   *)
(* it, and an entry is left behind by nobody (volume_lock.go:75, 91).      *)
(***************************************************************************)
CountersAreHolders ==
  /\ \A id \in IDs : /\ State(id).writer <=> Owners(id) # {}
                     /\ State(id).readers = Cardinality(Sharers(id))
  /\ DOMAIN locks = {id \in IDs : Owners(id) \cup Sharers(id) # {}}

(***************************************************************************)
(* What TryAcquire and TryAcquireShared promise their callers: an          *)
(* exclusive holder of an ID is its only holder (volume_lock.go:41, 53).   *)
(***************************************************************************)
Exclusion ==
  \A id \in IDs, c, e \in Clients :
     holds[c][id] = "exclusive" /\ e # c => holds[e][id] = "no"

\* The lock as its holders see it.
OneOf(S) == IF S = {} THEN None ELSE CHOOSE c \in S : TRUE
Writer(id) == OneOf(Owners(id))

RW == INSTANCE ReaderWriterLock WITH
        writer  <- [id \in IDs |-> Writer(id)],
        readers <- [id \in IDs |-> Sharers(id)]

(***************************************************************************)
(* The table of counters implements a readers/writer lock.                 *)
(***************************************************************************)
ImplementsReaderWriterLock == RW!RWSpec
=============================================================================
