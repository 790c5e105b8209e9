--------------------------- MODULE ExpansionProofs ---------------------------
(***************************************************************************)
(* AnsweredCapacityIsThere for disks of any type and size, any requests    *)
(* and classes and any number of faults.                                   *)
(***************************************************************************)
EXTENDS Expansion, TLAPS

\* While ControllerExpandVolume waits it has the lock, so that the operation in GCE
\* is its own, and when that is done without failure the disk has the size it asked
\* for.  An operation only makes a disk larger.
SizeInv ==
  /\ disk = [type |-> disk.type, size |-> disk.size, perf |-> disk.perf]
  /\ disk.size \in Nat /\ op.size \in Nat /\ failed \in BOOLEAN
  /\ need \in Nat /\ e.bytes \in Nat
  /\ e = [pc |-> e.pc, bytes |-> e.bytes, perf |-> e.perf]
  /\ e # Idle => owner = "expand"
  /\ m # Idle => owner = "modify"
  /\ op.size # 0 => op.size > disk.size
  /\ (e.pc = "wait" /\ op # NoOp) => op.size = BytesToGbRoundUp(e.bytes)
  /\ (e.pc = "wait" /\ op = NoOp /\ ~failed) => disk.size >= BytesToGbRoundUp(e.bytes)
  /\ \E gb \in Nat : capacity = GbToBytes(gb) /\ gb <= disk.size

LEMMA RoundUpType == ASSUME NEW b \in Nat PROVE BytesToGbRoundUp(b) \in Nat
  BY Scale DEF BytesToGbRoundUp

LEMMA RequestType == ASSUME NEW b \in Nat PROVE getRequestCapacity(b) \in Nat
  BY Scale DEF getRequestCapacity, MinimumVolumeSizeInBytes

LEMMA GbToBytesMonotone ==
  ASSUME NEW a \in Nat, NEW b \in Nat, a <= b PROVE GbToBytes(a) <= GbToBytes(b)
<1>1. PICK c \in Nat : b = a + c
  <2>1. b - a \in Nat /\ b = a + (b - a) OBVIOUS
  <2>2. QED BY <2>1
<1>2. (a + c) * GiB = a * GiB + c * GiB /\ a * GiB \in Nat /\ c * GiB \in Nat
  BY Scale
<1>3. QED BY <1>1, <1>2 DEF GbToBytes

LEMMA InitSizeInv == Init => SizeInv
<1> SUFFICES ASSUME Init PROVE SizeInv
  OBVIOUS
<1>1. need = GbToBytes(FirstSize) /\ capacity = need /\ need \in Nat
  <2>1. FirstSize * GiB \in Nat
    BY Scale
  <2>2. QED BY <2>1 DEF Init, GbToBytes
<1>2. /\ disk = [type |-> disk.type, size |-> disk.size, perf |-> disk.perf]
      /\ disk.size = FirstSize
  BY DEF Init
<1>3. \E gb \in Nat : capacity = GbToBytes(gb) /\ gb <= disk.size
  BY <1>1, <1>2, Scale
<1>4. op = NoOp /\ failed = FALSE /\ e = Idle /\ m = Idle
  BY DEF Init
<1>5. QED BY <1>1, <1>2, <1>3, <1>4, Scale DEF SizeInv, Idle, NoOp

\* Steps that leave the disk, its operation and the answers alone.
LEMMA OtherSizeInv ==
  ASSUME SizeInv, UNCHANGED <<disk, op, failed, owner, e, m, capacity>>, need' \in Nat
  PROVE  SizeInv'
  BY DEF SizeInv

LEMMA FinishSizeInv == ASSUME SizeInv, Finish PROVE SizeInv'
<1>1. UNCHANGED <<owner, e, m, need, capacity>> /\ op' = NoOp /\ failed' \in BOOLEAN
  BY DEF Finish, claim
<1>2. /\ disk' = [type |-> disk'.type, size |-> disk'.size, perf |-> disk'.perf]
      /\ disk'.size \in Nat /\ disk'.size >= disk.size
      /\ ~failed' => disk'.size = IF op.size = 0 THEN disk.size ELSE op.size
  <2>1. CASE UNCHANGED disk /\ failed' = TRUE
    BY <2>1 DEF SizeInv
  <2>2. CASE disk' = [disk EXCEPT !.size = IF op.size = 0 THEN @ ELSE op.size,
                                  !.perf = IF op.perf = 0 THEN @ ELSE op.perf]
    <3>1. disk' = [type |-> disk.type, size |-> IF op.size = 0 THEN disk.size ELSE op.size,
                   perf |-> IF op.perf = 0 THEN disk.perf ELSE op.perf]
      BY <2>2 DEF SizeInv
    <3>2. disk'.size = IF op.size = 0 THEN disk.size ELSE op.size
      BY <3>1
    <3>3. QED BY <3>1, <3>2 DEF SizeInv
  <2>3. QED BY <2>1, <2>2 DEF Finish
<1>3. (e.pc = "wait" /\ ~failed') => disk'.size >= BytesToGbRoundUp(e.bytes)
  <2>1. SUFFICES ASSUME e.pc = "wait", ~failed' PROVE disk'.size >= BytesToGbRoundUp(e.bytes)
    OBVIOUS
  <2>2. op.size = BytesToGbRoundUp(e.bytes) /\ BytesToGbRoundUp(e.bytes) \in Nat
    BY <2>1, RoundUpType DEF Finish, SizeInv
  <2>3. QED BY <1>2, <2>1, <2>2 DEF SizeInv
<1>4. \E gb \in Nat : capacity = GbToBytes(gb) /\ gb <= disk'.size
  <2>1. PICK gb \in Nat : capacity = GbToBytes(gb) /\ gb <= disk.size
    BY DEF SizeInv
  <2>2. gb <= disk'.size
    BY <1>2, <2>1 DEF SizeInv
  <2>3. QED BY <2>1, <2>2
<1>5. \A gb : GbToBytes(gb)' = GbToBytes(gb) /\ BytesToGbRoundUp(e.bytes)' = BytesToGbRoundUp(e.bytes)
  BY <1>1 DEF GbToBytes, BytesToGbRoundUp
<1>6. QED BY <1>1, <1>2, <1>3, <1>4, <1>5 DEF SizeInv, NoOp

\* The steps of the handlers leave the disk alone.  One that answers an error or
\* goes on without starting an operation only has to keep the lock.
LEMMA HandlerSizeInv ==
  ASSUME SizeInv, UNCHANGED <<disk, op, failed, m, need, capacity>>,
         e'.bytes \in Nat, e' = [pc |-> e'.pc, bytes |-> e'.bytes, perf |-> e'.perf],
         e'.pc # "wait", e' # Idle => owner' = "expand", m # Idle => owner' = "modify"
  PROVE  SizeInv'
  BY DEF SizeInv

\* An answered size is one that the disk has.
LEMMA AnswerSizeInv ==
  ASSUME SizeInv, NEW gb \in Nat, gb <= disk.size, ExpandSucceeds(gb), m = Idle,
         UNCHANGED <<disk, op, failed, m>>
  PROVE  SizeInv'
<1>1. e' = Idle /\ capacity' = GbToBytes(gb) /\ UNCHANGED need
  BY DEF ExpandSucceeds
<1>2. \E size \in Nat : capacity' = GbToBytes(size) /\ size <= disk'.size
  BY <1>1
<1>3. QED BY <1>1, <1>2 DEF SizeInv, Idle

LEMMA IdleFacts == Idle.pc = "idle" /\ Idle.bytes = 0 /\ Idle = [pc |-> "idle", bytes |-> 0, perf |-> 0]
  BY DEF Idle

\* A handler that fails gives the lock back.
LEMMA FailSizeInv ==
  ASSUME SizeInv, ExpandFails, m = Idle, UNCHANGED <<disk, op, failed, m>>
  PROVE  SizeInv'
<1>1. e' = Idle /\ UNCHANGED <<need, capacity>>
  BY DEF ExpandFails, claim
<1>2. QED BY <1>1, IdleFacts, HandlerSizeInv

LEMMA ExpandSizeInv ==
  ASSUME SizeInv, ControllerExpandVolume \/ ResizeDisk \/ ReadPerformance
  PROVE  SizeInv'
<1>1. CASE ControllerExpandVolume
  <2>1. m = Idle /\ owner' = "expand" /\ UNCHANGED <<disk, op, failed, m, need, capacity>>
    BY <1>1 DEF ControllerExpandVolume, SizeInv, gce, claim
  <2>2. /\ e' = [pc |-> "size", bytes |-> getRequestCapacity(need), perf |-> 0]
        /\ getRequestCapacity(need) \in Nat
    BY <1>1, RequestType DEF ControllerExpandVolume, SizeInv
  <2>3. QED BY <2>1, <2>2, HandlerSizeInv
<1>2. CASE ResizeDisk
  <2>1. e # Idle /\ owner = "expand" /\ m = Idle /\ UNCHANGED <<disk, op, failed, m>>
    BY <1>2 DEF ResizeDisk, SizeInv, gce, Idle
  <2>2. CASE ExpandFails
    BY <2>1, <2>2, FailSizeInv
  <2>3. CASE ExpandSucceeds(disk.size)
    BY <2>1, <2>3, AnswerSizeInv DEF SizeInv
  <2>4. CASE e' = [e EXCEPT !.pc = "perf"] /\ UNCHANGED <<owner, claim>>
    <3>1. e' = [pc |-> "perf", bytes |-> e.bytes, perf |-> e.perf] /\ e.bytes \in Nat
      BY <2>4 DEF SizeInv
    <3>2. QED BY <2>1, <2>4, <3>1, HandlerSizeInv DEF claim
  <2>5. QED BY <1>2, <2>2, <2>3, <2>4 DEF ResizeDisk
<1>3. CASE ReadPerformance
  <2>1. e # Idle /\ owner = "expand" /\ m = Idle /\ UNCHANGED <<disk, op, failed, m>>
    BY <1>3 DEF ReadPerformance, SizeInv, gce, Idle
  <2>2. CASE ExpandFails
    BY <2>1, <2>2, FailSizeInv
  <2>3. CASE /\ UNCHANGED <<owner, claim>>
             /\ e' = [e EXCEPT !.pc = "send",
                               !.perf = GetMinIopsThroughput(disk, BytesToGbRoundUp(e.bytes))]
    <3>1. /\ e' = [pc |-> "send", bytes |-> e.bytes,
                   perf |-> GetMinIopsThroughput(disk, BytesToGbRoundUp(e.bytes))]
          /\ e.bytes \in Nat
      BY <2>3 DEF SizeInv
    <3>2. QED BY <2>1, <2>3, <3>1, HandlerSizeInv DEF claim
  <2>4. QED BY <1>3, <2>2, <2>3 DEF ReadPerformance
<1>4. QED BY <1>1, <1>2, <1>3

LEMMA SendSizeInv == ASSUME SizeInv, SendResize PROVE SizeInv'
<1> DEFINE o == [by |-> "expand", size |-> BytesToGbRoundUp(e.bytes), perf |-> e.perf]
<1>1. e # Idle /\ owner = "expand" /\ m = Idle /\ UNCHANGED <<disk, m>>
  BY DEF SendResize, SizeInv, Idle
<1>2. CASE ~Accepts(o) /\ ExpandFails /\ UNCHANGED <<op, failed>>
  BY <1>1, <1>2, FailSizeInv
<1>3. CASE Accepts(o) /\ op' = o /\ failed' = FALSE
  <2>1. /\ o.size = BytesToGbRoundUp(e.bytes) /\ o.size \in Nat
        /\ o.size # 0 => o.size > disk.size
    BY <1>3, RoundUpType DEF SizeInv, Accepts
  <2>2. o # NoOp
    BY DEF NoOp
  <2>3. CASE e' = [e EXCEPT !.pc = "wait"] /\ UNCHANGED <<owner, claim>>
    <3>1. e' = [pc |-> "wait", bytes |-> e.bytes, perf |-> e.perf]
      BY <2>3 DEF SizeInv
    <3>2. BytesToGbRoundUp(e.bytes)' = BytesToGbRoundUp(e.bytes)
      BY <3>1 DEF BytesToGbRoundUp
    <3> HIDE DEF o
    <3>3. QED BY <1>1, <1>3, <2>1, <2>2, <2>3, <3>1, <3>2 DEF SizeInv, claim
  <2>4. CASE ExpandFails
    <3>1. e' = Idle /\ UNCHANGED <<need, capacity>>
      BY <2>4 DEF ExpandFails, claim
    <3>2. e'.pc # "wait" /\ e'.bytes \in Nat /\ e' = [pc |-> e'.pc, bytes |-> e'.bytes, perf |-> e'.perf]
      BY <3>1, IdleFacts
    <3>3. op'.size \in Nat /\ failed' \in BOOLEAN /\ (op'.size # 0 => op'.size > disk.size)
      BY <1>3, <2>1
    <3> HIDE DEF o
    <3>4. QED BY <1>1, <3>1, <3>2, <3>3 DEF SizeInv
  <2>5. QED BY <1>3, <2>3, <2>4 DEF SendResize
<1>4. QED BY <1>2, <1>3 DEF SendResize

LEMMA WaitSizeInv == ASSUME SizeInv, WaitForResize PROVE SizeInv'
<1>1. e # Idle /\ m = Idle /\ UNCHANGED <<disk, op, failed, m>>
  BY DEF WaitForResize, SizeInv, gce, Idle
<1>2. CASE ExpandFails
  BY <1>1, <1>2, FailSizeInv
<1>3. CASE op = NoOp /\ ~failed /\ ExpandSucceeds(BytesToGbRoundUp(e.bytes))
  <2>1. BytesToGbRoundUp(e.bytes) \in Nat /\ BytesToGbRoundUp(e.bytes) <= disk.size
    BY <1>3, RoundUpType DEF WaitForResize, SizeInv
  <2>2. QED BY <1>1, <1>3, <2>1, AnswerSizeInv
<1>4. QED BY <1>2, <1>3 DEF WaitForResize

LEMMA ModifySizeInv == ASSUME SizeInv, ControllerModifyVolume \/ UpdateDisk PROVE SizeInv'
<1>1. CASE ControllerModifyVolume
  <2>1. /\ UNCHANGED <<disk, op, failed, e, need, capacity>>
        /\ owner = "no one"
        /\ (m' = m /\ owner' = owner) \/ owner' = "modify"
    BY <1>1 DEF ControllerModifyVolume, gce
  <2>2. e = Idle /\ m = Idle
    BY <2>1 DEF SizeInv
  <2>3. QED BY <2>1, <2>2, IdleFacts DEF SizeInv
<1>2. CASE UpdateDisk
  <2> DEFINE o == [by |-> "modify", size |-> 0, perf |-> m.perf]
  <2>1. /\ UNCHANGED <<disk, e, need, capacity>> /\ m' = Idle
        /\ UNCHANGED <<op, failed>> \/ (op' = o /\ failed' = FALSE)
    BY <1>2 DEF UpdateDisk, ModifyReturns
  <2>2. e = Idle
    BY <1>2 DEF UpdateDisk, SizeInv, Idle
  <2>3. op'.size \in Nat /\ failed' \in BOOLEAN /\ (op'.size # 0 => op'.size > disk.size)
    <3>1. CASE UNCHANGED <<op, failed>>
      BY <3>1 DEF SizeInv
    <3>2. CASE op' = o /\ failed' = FALSE
      <4>1. op'.size = 0
        BY <3>2
      <4>2. QED BY <3>2, <4>1
    <3>3. QED BY <2>1, <3>1, <3>2
  <2>4. QED BY <2>1, <2>2, <2>3, IdleFacts DEF SizeInv
<1>3. QED BY <1>1, <1>2

LEMMA NextSizeInv == SizeInv /\ [Next]_vars => SizeInv'
<1> SUFFICES ASSUME SizeInv, [Next]_vars PROVE SizeInv'
  OBVIOUS
<1>1. CASE ControllerExpandVolume \/ ResizeDisk \/ ReadPerformance
  BY <1>1, ExpandSizeInv
<1>2. CASE SendResize
  BY <1>2, SendSizeInv
<1>3. CASE WaitForResize
  BY <1>3, WaitSizeInv
<1>4. CASE ControllerModifyVolume \/ UpdateDisk
  BY <1>4, ModifySizeInv
<1>5. CASE Finish
  BY <1>5, FinishSizeInv
<1>6. CASE Node \/ CoolDown \/ GuestSees \/ UNCHANGED vars
  <2>1. UNCHANGED <<disk, op, failed, owner, e, m, capacity, need>>
    BY <1>6 DEF Node, NodeExpandVolume, Resize, CheckBlockSize, CoolDown, GuestSees,
                vars, gce, claim
  <2>2. QED BY <2>1, OtherSizeInv DEF SizeInv
<1>7. ASSUME NEW bytes \in Requests, AskForSize(bytes) PROVE SizeInv'
  BY <1>7, OtherSizeInv, Scale DEF AskForSize, gce
<1>8. ASSUME NEW perf \in Classes, AskForClass(perf) PROVE SizeInv'
  BY <1>8, OtherSizeInv DEF AskForClass, gce, SizeInv
<1>9. QED BY <1>1, <1>2, <1>3, <1>4, <1>5, <1>6, <1>7, <1>8 DEF Next, Controller

\* The capacity that ControllerExpandVolume answered is the size of the disk or
\* less, whichever calls failed, were lost or timed out before.
THEOREM AnsweredCapacityTheorem == Spec => []AnsweredCapacityIsThere
<1>1. SizeInv => AnsweredCapacityIsThere
  <2> SUFFICES ASSUME SizeInv PROVE AnsweredCapacityIsThere
    OBVIOUS
  <2>1. PICK gb \in Nat : capacity = GbToBytes(gb) /\ gb <= disk.size
    BY DEF SizeInv
  <2>2. disk.size \in Nat
    BY DEF SizeInv
  <2>3. QED BY <2>1, <2>2, GbToBytesMonotone DEF AnsweredCapacityIsThere
<1>2. QED BY InitSizeInv, NextSizeInv, <1>1, PTL DEF Spec
=============================================================================
