--------------------------- MODULE FormatAndMount ---------------------------
(***************************************************************************)
(* formatAndMount of the node service (utils_linux.go): a semaphore of     *)
(* MaxConcurrent places serialises formatting and mounting.  A goroutine   *)
(* per call gives the place back when the call is done or its timeout has  *)
(* passed, whichever comes first, so a mount that is stuck holds a place   *)
(* no longer than that.                                                    *)
(***************************************************************************)
EXTENDS Integers, FiniteSets

CONSTANTS Calls,           \* stage calls, one per volume
          MaxConcurrent,   \* --max-concurrent-format-and-mount
          Stuck            \* the calls whose mount never returns

ASSUME MaxConcurrentAssumption == MaxConcurrent \in Nat \ {0}
ASSUME CallsAssumption == IsFiniteSet(Calls)

VARIABLES pc,       \* of each call: "idle", "waiting", "mounting" or "done"
          places,   \* how many items the semaphore channel holds
          releaser, \* the goroutine of each call: "none", "armed" or "released"
          overdue   \* the calls whose timer has fired
vars == <<pc, places, releaser, overdue>>

Init ==
  /\ pc = [c \in Calls |-> "idle"] /\ places = 0
  /\ releaser = [c \in Calls |-> "none"] /\ overdue = {}

Begin(c) ==
  /\ pc[c] = "idle" /\ pc' = [pc EXCEPT ![c] = "waiting"]
  /\ UNCHANGED <<places, releaser, overdue>>
\* The call blocks until there is a place, then starts its goroutine.
Acquire(c) ==
  /\ pc[c] = "waiting" /\ places < MaxConcurrent
  /\ places' = places + 1
  /\ pc' = [pc EXCEPT ![c] = "mounting"]
  /\ releaser' = [releaser EXCEPT ![c] = "armed"]
  /\ UNCHANGED overdue
\* FormatAndMount returns; closing the channel done is the way out of the call.
Return(c) ==
  /\ pc[c] = "mounting" /\ c \notin Stuck
  /\ pc' = [pc EXCEPT ![c] = "done"]
  /\ UNCHANGED <<places, releaser, overdue>>
\* A mount that hangs goes on hanging.
Hang(c) == pc[c] = "mounting" /\ c \in Stuck /\ UNCHANGED vars
TimerFires(c) ==
  /\ releaser[c] = "armed" /\ c \notin overdue
  /\ overdue' = overdue \cup {c}
  /\ UNCHANGED <<pc, places, releaser>>
\* The goroutine waits for either.  (Mutants: a call that is done after its timeout
\* gives its place back again; the timeout is left out.)
ReleaseTwice(c) ==
  /\ \/ releaser[c] = "armed" /\ releaser' = [releaser EXCEPT ![c] = "released"]
     \/ releaser[c] = "released" /\ c \in overdue /\ places > 0 /\ UNCHANGED releaser
  /\ (pc[c] = "done" \/ c \in overdue) /\ places' = places - 1
  /\ UNCHANGED <<pc, overdue>>
ReleaseWhenDone(c) ==
  /\ releaser[c] = "armed" /\ pc[c] = "done"
  /\ releaser' = [releaser EXCEPT ![c] = "released"] /\ places' = places - 1
  /\ UNCHANGED <<pc, overdue>>
Release(c) ==
  /\ releaser[c] = "armed" /\ (pc[c] = "done" \/ c \in overdue)
  /\ releaser' = [releaser EXCEPT ![c] = "released"]
  /\ places' = places - 1
  /\ UNCHANGED <<pc, overdue>>
\* The volume is staged again later.
Again(c) ==
  /\ pc[c] = "done" /\ releaser[c] = "released"
  /\ pc' = [pc EXCEPT ![c] = "idle"] /\ releaser' = [releaser EXCEPT ![c] = "none"]
  /\ overdue' = overdue \ {c}
  /\ UNCHANGED places

Next == \E c \in Calls : Begin(c) \/ Acquire(c) \/ Return(c) \/ Hang(c)
                         \/ TimerFires(c) \/ Release(c) \/ Again(c)
Spec == Init /\ [][Next]_vars
\* Goroutines run, timers fire, and the channel serves the calls that wait for it
\* in the order they came, so none of them is passed over for ever.
Fairness == \A c \in Calls : /\ SF_vars(Acquire(c)) /\ WF_vars(Return(c))
                             /\ WF_vars(TimerFires(c)) /\ WF_vars(Release(c))

(***************************************************************************)
(* Properties.                                                             *)
(***************************************************************************)
TypeOK == places \in 0..MaxConcurrent /\ overdue \subseteq Calls

\* No more than MaxConcurrent calls format and mount at a time, apart from those
\* that have overrun their timeout: a place is given back once, never twice.
BoundedConcurrency ==
  /\ Cardinality({c \in Calls : pc[c] = "mounting" /\ c \notin overdue}) <= MaxConcurrent
  /\ places = Cardinality({c \in Calls : releaser[c] = "armed"})

\* A call whose own mount does not hang is served in the end, although others
\* hang: that is what the timeout of the semaphore is for.
StuckMountBlocksNoOther ==
  Fairness => \A c \in Calls \ Stuck : pc[c] = "waiting" ~> pc[c] = "done"

=============================================================================
