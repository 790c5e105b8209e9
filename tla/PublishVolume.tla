--------------------------- MODULE PublishVolume ----------------------------
(***************************************************************************)
(* executeControllerPublishVolume with convertDiskAndReAttach: a disk that *)
(* the machines of a node cannot use is converted first, quickly if that   *)
(* is possible, and slowly only if the workload opted in on one of four    *)
(* surfaces and opted out on none.  Publishes of the volume to different   *)
(* nodes share the volume lock and run side by side.                       *)
(*                                                                         *)
(* The status label that a publish writes is in DiskCleanup.tla.           *)
(* Disk type conversions are in DiskTypeConversion.tla; the conversion     *)
(* here only resets the machine families that support the disk.            *)
(***************************************************************************)
EXTENDS Integers, FiniteSets, TLC

CONSTANTS Nodes,
          Newer,      \* nodes whose machines need the converted disk
          ReadOnly,   \* nodes the volume is published to for reading
          Kinds,      \* kinds of disk: "ml" has an access mode that can be changed, "pd" has none
          Quick,      \* values: can the conversion be a quick one?
          Enabled,    \* values of EnablePdConversion
          Answers,    \* values of the annotations
          MaxFailures, MaxEdits

VARIABLES kind,
          conversion, \* EnablePdConversion
          quick,      \* a quick conversion is possible
          converted, converting, attached, mode,
          annotation, \* of PersistentVolume, StorageClass, Node and Pod
          pc, optIn, reply,
          saidNo,     \* surfaces that have said "false" since the call began
          saidYes,    \* has a surface said "true" since then?
          failures, edits
vars == <<kind, conversion, quick, converted, converting, attached, mode, annotation, pc, optIn, reply,
          saidNo, saidYes, failures, edits>>
config == <<kind, conversion, quick>>
disk == <<converted, converting, attached, mode>>
said == <<annotation, saidNo, saidYes, edits>>

Surfaces == {"PersistentVolume", "StorageClass", "Node", "Pod"}
Saying(answer) == {s \in Surfaces : annotation[s] = answer}

Init ==
  /\ kind \in Kinds /\ conversion \in Enabled /\ quick \in Quick
  /\ converted = FALSE /\ converting = FALSE /\ attached = {} /\ mode = "READ_WRITE_SINGLE"
  /\ annotation \in [Surfaces -> Answers]
  /\ pc = [n \in Nodes |-> "idle"] /\ optIn = [n \in Nodes |-> FALSE]
  /\ reply = [n \in Nodes |-> "none"]
  /\ saidNo = [n \in Nodes |-> {}] /\ saidYes = [n \in Nodes |-> FALSE]
  /\ failures = 0 /\ edits = 0

Goto(n, step) == pc' = [pc EXCEPT ![n] = step]
Return(n, code) == pc' = [pc EXCEPT ![n] = "idle"] /\ reply' = [reply EXCEPT ![n] = code]

\* The locks, GetDisk, GetInstance and diskIsAttachedAndCompatible.
Publish(n) ==
  /\ pc[n] = "idle"
  /\ IF n \in attached THEN Return(n, "OK") ELSE Goto(n, "mode") /\ reply' = [reply EXCEPT ![n] = "none"]
  /\ optIn' = [optIn EXCEPT ![n] = FALSE]
  /\ saidNo' = [saidNo EXCEPT ![n] = Saying("false")]
  /\ saidYes' = [saidYes EXCEPT ![n] = Saying("true") # {}]
  /\ UNCHANGED <<config, disk, annotation, failures, edits>>
\* updateAccessModeIfNecessary.  The API refuses it while a node writes.
ModeMustChange(n) == kind = "ml" /\ n \in ReadOnly /\ mode # "READ_ONLY_MANY"
UpdateAccessMode(n) ==
  /\ pc[n] = "mode"
  /\ \/ ~ModeMustChange(n) /\ Goto(n, "attach") /\ UNCHANGED <<mode, reply>>
     \/ /\ ModeMustChange(n) /\ attached \subseteq ReadOnly
        /\ mode' = "READ_ONLY_MANY" /\ Goto(n, "attach") /\ UNCHANGED reply
     \/ ModeMustChange(n) /\ ~(attached \subseteq ReadOnly) /\ Return(n, "error") /\ UNCHANGED mode
  /\ UNCHANGED <<config, converted, converting, attached, optIn, said, failures>>

\* AttachDisk as the API does it.
Busy(n) == \/ converting
           \/ n \notin ReadOnly /\ (mode = "READ_ONLY_MANY" \/ attached # {})
           \/ n \in ReadOnly /\ ~(attached \subseteq ReadOnly)
Unsupported(n) == n \in Newer /\ ~converted

Attach(n) ==
  /\ pc[n] = "attach"
  /\ \/ Busy(n) /\ Return(n, "error") /\ UNCHANGED attached
     \/ ~Busy(n) /\ ~Unsupported(n) /\ attached' = attached \cup {n} /\ Goto(n, "wait") /\ UNCHANGED reply
     \/ ~Busy(n) /\ Unsupported(n) /\ conversion /\ Goto(n, "quick") /\ UNCHANGED <<attached, reply>>
     \/ ~Busy(n) /\ Unsupported(n) /\ ~conversion /\ Goto(n, "wait") /\ UNCHANGED <<attached, reply>>
  /\ UNCHANGED <<config, converted, converting, mode, optIn, said, failures>>

\* ConvertDisk: the API refuses a disk that is attached or being converted.
Convert(n, from, ok) ==
  /\ pc[n] = from
  /\ IF attached # {} \/ converting THEN Return(n, "error") /\ UNCHANGED converting
     ELSE ok /\ converting' = TRUE /\ Goto(n, "converting") /\ UNCHANGED reply
  /\ UNCHANGED <<config, converted, attached, mode, optIn, said, failures>>
QuickConvert(n) == Convert(n, "quick", quick)
SlowRequired(n) ==
  /\ pc[n] = "quick" /\ ~quick /\ attached = {} /\ ~converting /\ Goto(n, "PersistentVolume")
  /\ UNCHANGED <<config, disk, optIn, reply, said, failures>>

\* optedInForSlowConversion, surface by surface.
NextSurface == [PersistentVolume |-> "StorageClass", StorageClass |-> "Node", Node |-> "Pod",
                Pod |-> "decide"]
\* Mutants: an opt-out is not looked at; the surface read last decides.
ReadSurfaceIgnoresNo(n) ==
  /\ pc[n] \in Surfaces
  /\ optIn' = [optIn EXCEPT ![n] = @ \/ annotation[pc[n]] = "true"]
  /\ Goto(n, NextSurface[pc[n]])
  /\ UNCHANGED <<config, disk, reply, said, failures>>
ReadSurfaceLastWins(n) ==
  /\ pc[n] \in Surfaces
  /\ LET answer == annotation[pc[n]]
     IN  IF answer = "false" THEN Return(n, "error") /\ UNCHANGED optIn
         ELSE /\ optIn' = [optIn EXCEPT ![n] = answer = "true"]
              /\ Goto(n, NextSurface[pc[n]]) /\ UNCHANGED reply
  /\ UNCHANGED <<config, disk, said, failures>>
ReadSurface(n) ==
  /\ pc[n] \in Surfaces
  /\ LET answer == annotation[pc[n]]
     IN  IF answer = "false" THEN Return(n, "error") /\ UNCHANGED optIn
         ELSE /\ optIn' = [optIn EXCEPT ![n] = @ \/ answer = "true"]
              /\ Goto(n, NextSurface[pc[n]]) /\ UNCHANGED reply
  /\ UNCHANGED <<config, disk, said, failures>>
Decide(n) ==
  /\ pc[n] = "decide"
  /\ IF optIn[n] THEN Goto(n, "slow") /\ UNCHANGED reply ELSE Return(n, "error")
  /\ UNCHANGED <<config, disk, optIn, said, failures>>
SlowConvert(n) == Convert(n, "slow", TRUE)

\* The operation is done: attach again.
Reattach(n) ==
  /\ \/ pc[n] = "reattach" /\ ~Busy(n) /\ attached' = attached \cup {n}
        /\ Goto(n, "wait") /\ UNCHANGED reply
     \/ pc[n] = "reattach" /\ Busy(n) /\ Return(n, "error") /\ UNCHANGED attached
     \/ pc[n] = "failed" /\ Return(n, "error") /\ UNCHANGED attached
  /\ UNCHANGED <<config, converted, converting, mode, optIn, said, failures>>
\* Mutant: the attachment is not looked at.
WaitForAttachSkipped(n) ==
  /\ pc[n] = "wait" /\ Return(n, "OK") /\ UNCHANGED <<config, disk, optIn, said, failures>>
\* WaitForAttach gives up in the end.
WaitForAttach(n) ==
  /\ pc[n] = "wait" /\ Return(n, IF n \in attached THEN "OK" ELSE "error")
  /\ UNCHANGED <<config, disk, optIn, said, failures>>

\* A call to an API fails, or waiting for an operation does: the locks are given
\* back while the operation goes on.
Fails(n) ==
  /\ pc[n] # "idle" /\ failures < MaxFailures /\ failures' = failures + 1
  /\ Return(n, "error") /\ UNCHANGED <<config, disk, optIn, said>>

\* The conversion ends; the call that waits for it, if it still does, sees how.
Ended(step) == pc' = [n \in Nodes |-> IF pc[n] = "converting" THEN step ELSE pc[n]]
Conversion ==
  /\ converting /\ converting' = FALSE
  /\ \/ converted' = TRUE /\ Ended("reattach") /\ UNCHANGED failures
     \/ failures < MaxFailures /\ failures' = failures + 1 /\ Ended("failed") /\ UNCHANGED converted
  /\ UNCHANGED <<config, attached, mode, optIn, reply, said>>
Unpublish(n) ==
  /\ pc[n] = "idle" /\ n \in attached /\ attached' = attached \ {n}
  /\ reply' = [reply EXCEPT ![n] = "none"]
  /\ UNCHANGED <<config, converted, converting, mode, pc, optIn, said, failures>>
Edit(s, answer) ==
  /\ edits < MaxEdits /\ edits' = edits + 1
  /\ answer # annotation[s] /\ annotation' = [annotation EXCEPT ![s] = answer]
  /\ saidNo' = [n \in Nodes |-> saidNo[n] \ {s}]
  /\ saidYes' = [n \in Nodes |-> saidYes[n] \/ answer = "true"]
  /\ UNCHANGED <<config, disk, pc, optIn, reply, failures>>

Handle(n) == \/ UpdateAccessMode(n) \/ Attach(n) \/ QuickConvert(n) \/ SlowRequired(n)
             \/ ReadSurface(n) \/ Decide(n) \/ SlowConvert(n) \/ Reattach(n) \/ WaitForAttach(n)
Next == \/ \E n \in Nodes : Publish(n) \/ Handle(n) \/ Fails(n) \/ Unpublish(n)
        \/ Conversion
        \/ \E s \in Surfaces, answer \in Answers : Edit(s, answer)
Spec == Init /\ [][Next]_vars
Fairness == /\ WF_vars(Conversion)
            /\ \A n \in Nodes : WF_vars(Publish(n)) /\ WF_vars(Handle(n))

(***************************************************************************)
(* Properties.                                                             *)
(***************************************************************************)
TypeOK ==
  /\ attached \subseteq Nodes /\ mode \in {"READ_WRITE_SINGLE", "READ_ONLY_MANY"}
  /\ \A n \in Nodes : /\ reply[n] \in {"none", "OK", "error"}
                      /\ pc[n] \in {"idle", "mode", "attach", "quick", "decide", "slow",
                                    "converting", "reattach", "failed", "wait"} \cup Surfaces
                      /\ pc[n] = "slow" => optIn[n]

\* A slow conversion starts only for a workload that opted in on some surface, and
\* never while a surface says "false" and has said so since the call began.
StartIsWanted ==
  \A n \in Nodes : pc[n] = "slow" /\ converting' /\ ~converting => saidYes[n] /\ saidNo[n] = {}
SlowConversionIsWanted == [][StartIsWanted]_vars

\* ControllerPublishVolume succeeds only with the disk attached, also when the
\* conversion is turned off and no second attach is made.
PublishedMeansAttached == \A n \in Nodes : reply[n] = "OK" => n \in attached

\* The volume of a workload that has opted in for good, and opted out nowhere, is
\* attached to its node again and again however the conversions fail and the
\* annotations move before: a retry never finds the disk in a state it cannot leave.
ConvertedInTheEnd ==
  Fairness /\ conversion /\ <>[](Saying("true") # {} /\ Saying("false") = {}) => \A n \in Nodes : []<>(n \in attached)

\* No attach is asked for while a conversion of the disk is running.
\* The code does not have this property (README, Observations): convertDiskAndReAttach
\* converts under the shared lock.
NoAttachDuringConversion ==
  [][\A n \in Nodes : pc[n] = "attach" /\ pc'[n] # "attach" /\ failures' = failures => ~converting]_vars

=============================================================================
