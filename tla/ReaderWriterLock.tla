-------------------------- MODULE ReaderWriterLock --------------------------
(***************************************************************************)
(* What the per-volume lock promises to the controller's calls: for every  *)
(* lock ID there is at most one exclusive holder, and while there is one   *)
(* there is no shared holder.  Nothing is counted here: a lock is the set  *)
(* of calls that hold it.  VolumeLocks, the code's table of counters, is   *)
(* shown to implement this.                                                *)
(***************************************************************************)

CONSTANTS IDs,      \* the lock IDs: a volume, or a volume on a node
          Clients,  \* the calls and background workers that take locks
          None      \* no client

VARIABLES writer,   \* writer[id]: the exclusive holder, or None
          readers   \* readers[id]: the shared holders

rwVars == <<writer, readers>>

RWInit == /\ writer = [id \in IDs |-> None]
          /\ readers = [id \in IDs |-> {}]

\* An exclusive holder needs the lock for itself.
Acquire(c, id) == /\ writer[id] = None
                  /\ readers[id] = {}
                  /\ writer' = [writer EXCEPT ![id] = c]
                  /\ UNCHANGED readers

\* Shared holders only need that nobody holds the lock exclusively.
AcquireShared(c, id) == /\ writer[id] = None
                        /\ c \notin readers[id]
                        /\ readers' = [readers EXCEPT ![id] = @ \cup {c}]
                        /\ UNCHANGED writer

GiveBack(c, id) == /\ writer[id] = c
                   /\ writer' = [writer EXCEPT ![id] = None]
                   /\ UNCHANGED readers

GiveBackShared(c, id) == /\ c \in readers[id]
                         /\ readers' = [readers EXCEPT ![id] = @ \ {c}]
                         /\ UNCHANGED writer

RWNext == \E c \in Clients, id \in IDs :
             \/ Acquire(c, id)
             \/ AcquireShared(c, id)
             \/ GiveBack(c, id)
             \/ GiveBackShared(c, id)

RWSpec == RWInit /\ [][RWNext]_rwVars
=============================================================================
