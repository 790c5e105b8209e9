---------------------------- MODULE DeviceInUse ----------------------------
(***************************************************************************)
(* The in-use check of NodeUnstageVolume (node.go) and the memory of its   *)
(* errors (device_error_map.go): a device that is still in use fails the   *)
(* call until the first such error is older than --device-in-use-timeout.  *)
(* The memory is a cache that forgets an entry after twice the timeout and *)
(* drops the one used least recently when it is full.                      *)
(*                                                                         *)
(* Time is counted in ticks, as ages: a record has the age it would have.  *)
(***************************************************************************)
EXTENDS Integers, Sequences, SequencesExt

CONSTANTS Volumes,
          Timeout,            \* --device-in-use-timeout
          MaxGap,             \* the kubelet tries again within so many ticks
          Capacity,           \* maxDeviceCacheSize, twice the disks a machine may have
          MaxFailures,
          MayRestage          \* may a volume be staged again while it is unstaged?

VARIABLES phase,    \* of each volume: "staged", "unstaging" or "unstaged"
          busy,     \* is its device in use?
          age,      \* the age of its record, or None
          recent,   \* the volumes with a record, the one used last at the end
          waited,   \* how long the unstage of each volume has been tried
          gap,      \* the ticks since it was last tried
          failures
vars == <<phase, busy, age, recent, waited, gap, failures>>

None == -1
Ttl == 2 * Timeout
Forever == Timeout + 1   \* waited is counted so far

Init ==
  /\ phase = [v \in Volumes |-> "staged"]
  /\ busy = [v \in Volumes |-> TRUE]
  /\ age = [v \in Volumes |-> None]
  /\ recent = <<>>
  /\ waited = [v \in Volumes |-> 0] /\ gap = [v \in Volumes |-> 0]
  /\ failures = 0

\* deviceErrorExpired, markDeviceError and deleteDevice, each under the mutex.
Touched(v) == Append(Remove(recent, v), v)
\* Mutant: off by one at the timeout.
DeviceErrorExpiredAtTimeout(v) == age[v] >= Timeout
DeviceErrorExpired(v) == age[v] > Timeout
\* Mutant: a later error overwrites the first one.
MarkDeviceErrorAnew(v) == age' = [age EXCEPT ![v] = 0] /\ recent' = Touched(v)
MarkDeviceError(v) ==
  IF age[v] # None THEN recent' = Touched(v) /\ UNCHANGED age
  ELSE LET full == Len(recent) = Capacity
           dropped == IF full THEN {recent[1]} ELSE {}
       IN /\ recent' = Append(IF full THEN Tail(recent) ELSE recent, v)
          /\ age' = [w \in Volumes |-> IF w = v THEN 0 ELSE IF w \in dropped THEN None ELSE age[w]]
DeleteDevice(v) == age' = [age EXCEPT ![v] = None] /\ recent' = Remove(recent, v)

\* The kubelet tries to unstage; the first try starts the wait.
Try(v) ==
  /\ phase[v] \in {"staged", "unstaging"}
  /\ gap' = [gap EXCEPT ![v] = 0]
  /\ UNCHANGED busy
Fails(v) == phase' = [phase EXCEPT ![v] = "unstaging"] /\ UNCHANGED waited
Succeeds(v) ==
  /\ phase' = [phase EXCEPT ![v] = "unstaged"] /\ waited' = [waited EXCEPT ![v] = 0]

\* confirmDeviceUnused finds the device unused, or the record expired.
UnstageSucceeds(v) ==
  /\ Try(v) /\ (~busy[v] \/ DeviceErrorExpired(v))
  /\ DeleteDevice(v) /\ Succeeds(v) /\ UNCHANGED failures
UnstageInUse(v) ==
  /\ Try(v) /\ busy[v] /\ ~DeviceErrorExpired(v)
  /\ MarkDeviceError(v) /\ Fails(v) /\ UNCHANGED failures
\* The check itself fails, which is ignored.
CheckFails(v) ==
  /\ Try(v) /\ failures < MaxFailures /\ failures' = failures + 1
  /\ DeleteDevice(v) /\ Succeeds(v)
\* The unmount fails before the check, or the clean-up of the cache after it.
UnmountFails(v) ==
  /\ Try(v) /\ failures < MaxFailures /\ failures' = failures + 1
  /\ Fails(v) /\ UNCHANGED <<age, recent>>
CleanupFails(v) ==
  /\ Try(v) /\ failures < MaxFailures /\ failures' = failures + 1
  /\ ~busy[v] \/ DeviceErrorExpired(v)
  /\ DeleteDevice(v) /\ Fails(v)

\* The last process lets go of the device.
Release(v) ==
  /\ phase[v] = "unstaging" /\ busy[v] /\ busy' = [busy EXCEPT ![v] = FALSE]
  /\ UNCHANGED <<phase, age, recent, waited, gap, failures>>
\* NodeStageVolume leaves the records alone.
Stage(v) ==
  /\ phase[v] = "unstaged" \/ (MayRestage /\ phase[v] = "unstaging")
  /\ phase' = [phase EXCEPT ![v] = "staged"] /\ busy' = [busy EXCEPT ![v] = TRUE]
  /\ waited' = [waited EXCEPT ![v] = 0] /\ gap' = [gap EXCEPT ![v] = 0]
  /\ UNCHANGED <<age, recent, failures>>

\* Time passes: records older than the limit of the cache are gone.
Tick ==
  /\ \A v \in Volumes : phase[v] = "unstaging" => gap[v] < MaxGap
  /\ age' = [v \in Volumes |-> IF age[v] \in {None, Ttl} THEN None ELSE age[v] + 1]
  /\ recent' = SelectSeq(recent, LAMBDA v : age[v] # Ttl)
  /\ waited' = [v \in Volumes |-> IF phase[v] = "unstaging" /\ waited[v] < Forever
                                  THEN waited[v] + 1 ELSE waited[v]]
  /\ gap' = [v \in Volumes |-> IF phase[v] = "unstaging" THEN gap[v] + 1 ELSE gap[v]]
  /\ UNCHANGED <<phase, busy, failures>>

NodeUnstageVolume(v) ==
  \/ UnstageSucceeds(v) \/ UnstageInUse(v) \/ CheckFails(v) \/ UnmountFails(v) \/ CleanupFails(v)
Next == Tick \/ \E v \in Volumes : NodeUnstageVolume(v) \/ Release(v) \/ Stage(v)
Spec == Init /\ [][Next]_vars

\* Time passes, and the kubelet tries again before the gap is over.
Due(v) == phase[v] = "unstaging" /\ gap[v] = MaxGap
Fairness == /\ WF_vars(Tick)
            /\ \A v \in Volumes : WF_vars(Due(v) /\ NodeUnstageVolume(v))

(***************************************************************************)
(* Properties.                                                             *)
(***************************************************************************)
\* The records and their order hold the same volumes, never more than fit.
TypeOK ==
  /\ age \in [Volumes -> None..Ttl]
  /\ ToSet(recent) = {v \in Volumes : age[v] # None}
  /\ Len(recent) <= Capacity

\* NodeUnstageVolume gives up on a device that is in use only after it has been
\* tried for longer than the timeout, or when the check cannot be made at all. (Where a
\* volume is not staged again after a failed unstage: README, Observations.)
InUseIsRespected ==
  [][\A v \in Volumes :
       (phase[v] # "unstaged" /\ phase'[v] = "unstaged" /\ busy[v] /\ failures' = failures)
         => waited[v] > Timeout]_vars

\* A device that is never released does not block its volume for ever: the record
\* of the first error lives until a try finds it expired (given a cache with room
\* for every device, and tries no further apart than the timeout).
GivenUpInTheEnd ==
  Fairness => \A v \in Volumes : phase[v] = "unstaging" ~> phase[v] # "unstaging"

=============================================================================
