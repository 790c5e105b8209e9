---------------------- MODULE ConversionRequestProofs ----------------------
(***************************************************************************)
(* That the request on the PV is the one GCE works on, and that only       *)
(* requests which can never succeed are on record as failures, for every   *)
(* set of nodes, types, classes and operations.                            *)
(*                                                                         *)
(* Both depend on reads that are used later: the type a thread read from   *)
(* the disk becomes the source on the PV, and the intent it was refused    *)
(* with becomes the record.  RequestInv says which of these reads are      *)
(* still true; it rests on ConversionInv, which says that GCE converts     *)
(* nothing that the PV does not lead to.                                   *)
(***************************************************************************)
EXTENDS DiskTypeConversionProofs

\* Neither an operation nor a request that GCE may have accepted.
NoRequest(a) == a.op \notin Ops /\ a.reqID = None

\* The source on the PV is the type of the disk until GCE starts.
RequestSource ==
  pv.reqID # None => /\ pv.source # None
                     /\ accepted[pv.reqID] = None => pv.source = disk.type

\* The exclusive thread is at a step from which it may come to a request, and
\* what it read of the disk still holds if there is no request yet.
ReadSteps == {"modify", "convert", "prepare", "recover", "users", "clear", "latest"}
Reading(e) == e.step \in ReadSteps \/ (e.step \in {"check", "outcome"} /\ e.kind = "runner")
KnowsDisk ==
  Reading(th[Excl]) /\ NoRequest(pv) => th[Excl].d.type = disk.type /\ disk.type # None

\* A thread about to call GCE sends what it has written.
CallIntent ==
  th[Excl].step = "call" => th[Excl].c = [type |-> pv.target, perf |-> pv.perf]

\* What can be on record: nothing in particular, or a request that never succeeds.
Hopeless(i) == i = NoIntent \/ i \in Rejected \cup Doomed \/ Unconvertible(i)
OnlyHopeless == pv.infeasible => Hopeless(pv.intent)
RefusedIntent(e) == /\ e.step \in {"refuse", "note"} => Hopeless(e.c)
                    /\ e.step = "rejected" => e.c \in Rejected
TerminalIsDoomed == \A o \in Ops : ops[o].st = "terminal" => ops[o].i \in Doomed

RequestInv ==
  /\ RecordedRequestIsTheOneSent
  /\ RequestSource
  /\ KnowsDisk
  /\ CallIntent
  /\ OnlyHopeless
  /\ \A t \in Threads : RefusedIntent(th[t])
  /\ TerminalIsDoomed

-----------------------------------------------------------------------------
\* A step of a thread that keeps what was read, or reads it now.
ReadsKept(e, f) ==
  Reading(f) => \/ Reading(e) /\ f.d.type = e.d.type
                \/ f.d.type = disk.type /\ disk.type # None
Tame(t) == /\ Moves(t)
           /\ th'[t].step # "call"
           /\ ReadsKept(th[t], th'[t])
           /\ RefusedIntent(th'[t])

LEMMA LeaveTame ==
  ASSUME TypeOK, NEW t \in Threads, Leave(t)
  PROVE  Tame(t) /\ th'[t].step = "idle"
BY LeaveMoves DEF Tame, ReadsKept, Reading, ReadSteps, RefusedIntent

LEMMA GoShape ==
  ASSUME TypeOK, NEW t \in Threads, NEW s \in Steps, Go(t, s)
  PROVE  /\ Moves(t)
         /\ th'[t].step = s /\ th'[t].kind = th[t].kind
         /\ th'[t].c = th[t].c /\ th'[t].d = th[t].d
<1>1. th'[t] = [th[t] EXCEPT !.step = s]  BY DEF TypeOK, Go
<1>2. th'[t].d = th[t].d  BY <1>1 DEF TypeOK, Thread
<1> QED  BY <1>2, GoMoves

LEMMA GoTame ==
  ASSUME TypeOK, NEW t \in Threads, NEW s \in Steps \ {"call", "rejected"}, Go(t, s),
         s \in ReadSteps => Reading(th[t]),
         s \in {"check", "outcome"} => Reading(th[t]) \/ th[t].step = "check",
         s \in {"refuse", "note"} => Hopeless(th[t].c)
  PROVE  Tame(t) /\ th'[t].step = s
<1>1. /\ Moves(t) /\ th'[t].step = s /\ th'[t].kind = th[t].kind
      /\ th'[t].c = th[t].c /\ th'[t].d = th[t].d
  BY GoShape
<1>2. ReadsKept(th[t], th'[t])  BY <1>1 DEF ReadsKept, Reading
<1>3. RefusedIntent(th'[t])  BY <1>1 DEF RefusedIntent
<1> QED  BY <1>1, <1>2, <1>3 DEF Tame

\* A step to where nothing read before matters.
Quiet == {"idle", "queue", "record", "report", "final", "cancel", "perf", "ensure", "finish",
          "identify", "act", "attach", "wait", "detach", "hook"}
LEMMA QuietTame ==
  ASSUME NEW t \in Threads, Moves(t), th'[t].step \in Quiet
  PROVE  Tame(t)
BY DEF Quiet, Tame, ReadsKept, Reading, ReadSteps, RefusedIntent

LEMMA StepQuiet ==
  ASSUME TypeOK, NEW t \in Threads, NEW s \in Quiet, Step(t, s)
  PROVE  Tame(t) /\ th'[t].step = s
<1>1. s \in Steps  BY DEF Quiet, Steps
<1> QED  BY <1>1, StepMoves, QuietTame

-----------------------------------------------------------------------------
SameRequest == /\ pv'.op = pv.op /\ pv'.reqID = pv.reqID
               /\ pv'.target = pv.target /\ pv'.perf = pv.perf /\ pv'.source = pv.source

\* The threads after a tame step.
LEMMA TameThreads ==
  ASSUME RequestInv, NEW t \in Threads, Tame(t)
  PROVE  \A u \in Threads : RefusedIntent(th'[u])
BY DEF RequestInv, Tame, Moves

\* A tame step that leaves the request on the PV alone.
LEMMA TameKeeps ==
  ASSUME ConversionInv, RequestInv, NEW t \in Threads, t = Excl \/ th[Excl].step = "idle",
         Tame(t), SameRequest, OnlyHopeless',
         UNCHANGED <<ops, accepted>>, disk'.type = disk.type
  PROVE  RequestInv'
<1>1. RecordedRequestIsTheOneSent' /\ RequestSource' /\ TerminalIsDoomed'
  BY DEF RequestInv, SameRequest, RecordedRequestIsTheOneSent, RequestSource, TerminalIsDoomed
<1>2. CASE t = Excl
  <2>1. KnowsDisk'
    BY <1>2 DEF RequestInv, Tame, ReadsKept, KnowsDisk, NoRequest, SameRequest
  <2>2. CallIntent'  BY <1>2 DEF Tame, CallIntent
  <2> QED  BY <1>1, <2>1, <2>2, TameThreads DEF RequestInv
<1>3. CASE t # Excl
  <2>1. th'[Excl].step = "idle"  BY <1>3, ExclFacts DEF Tame, Moves
  <2>2. KnowsDisk' /\ CallIntent'  BY <2>1 DEF KnowsDisk, CallIntent, Reading, ReadSteps
  <2> QED  BY <1>1, <2>2, TameThreads DEF RequestInv
<1> QED  BY <1>2, <1>3

\* A tame step after which there is no request.
LEMMA DropKeeps ==
  ASSUME ConversionInv, RequestInv, NEW t \in Threads, t = Excl \/ th[Excl].step = "idle",
         Tame(t), NoRequest(pv'), OnlyHopeless',
         UNCHANGED <<ops, accepted>>,
         Reading(th'[Excl]) =>
           /\ disk'.type = disk.type
           /\ NoRequest(pv) \/ (th'[Excl].d.type = disk.type /\ disk.type # None)
  PROVE  RequestInv'
<1>1. RecordedRequestIsTheOneSent' /\ RequestSource' /\ TerminalIsDoomed'
  BY DEF RequestInv, NoRequest, RecordedRequestIsTheOneSent, RequestSource, TerminalIsDoomed
<1>2. CASE t = Excl
  <2>1. KnowsDisk'  BY <1>2 DEF RequestInv, Tame, ReadsKept, KnowsDisk
  <2>2. CallIntent'  BY <1>2 DEF Tame, CallIntent
  <2> QED  BY <1>1, <2>1, <2>2, TameThreads DEF RequestInv
<1>3. CASE t # Excl
  <2>1. th'[Excl].step = "idle"  BY <1>3, ExclFacts DEF Tame, Moves
  <2>2. KnowsDisk' /\ CallIntent'  BY <2>1 DEF KnowsDisk, CallIntent, Reading, ReadSteps
  <2> QED  BY <1>1, <2>2, TameThreads DEF RequestInv
<1> QED  BY <1>2, <1>3

LEMMA SameKeeps ==
  ASSUME ConversionInv, RequestInv, NEW t \in Threads, t = Excl \/ th[Excl].step = "idle",
         Tame(t), UNCHANGED <<pv, gce>>
  PROVE  RequestInv'
<1>1. SameRequest /\ OnlyHopeless' /\ UNCHANGED <<ops, accepted>> /\ disk'.type = disk.type
  BY DEF SameRequest, OnlyHopeless, RequestInv, gce
<1> QED  BY <1>1, TameKeeps

\* Nothing of the thread and the request changes.
LEMMA StillKeeps ==
  ASSUME RequestInv, UNCHANGED <<pv, ops, accepted, th>>, disk'.type = disk.type
  PROVE  RequestInv'
BY DEF RequestInv, RecordedRequestIsTheOneSent, RequestSource, KnowsDisk, CallIntent, OnlyHopeless,
       TerminalIsDoomed

LEMMA AloneOrIdle ==
  ASSUME ConversionInv, NEW t \in Threads, th[t].step # "idle"
  PROVE  t = Excl \/ th[Excl].step = "idle"
BY DEF ConversionInv, LockHeld, Threads

-----------------------------------------------------------------------------
\* What the writes do to the request and to the record.

LEMMA RequestWrites ==
  ASSUME NEW a \in Annotations, NEW i \in Intent
  PROVE  /\ \A b \in {Refused(a, i), RefusalCleared(a), [a EXCEPT !.lastErr = FALSE],
                      [a EXCEPT !.reconID = Uuid]} :
              /\ b.op = a.op /\ b.reqID = a.reqID
              /\ b.target = a.target /\ b.perf = a.perf /\ b.source = a.source
         /\ Refused(a, i).intent = i
         /\ ~RefusalCleared(a).infeasible
         /\ \A b \in {[a EXCEPT !.lastErr = FALSE], [a EXCEPT !.reconID = Uuid]} :
              b.infeasible = a.infeasible /\ b.intent = a.intent
<1>1. /\ Refused(a, i).op = a.op /\ Refused(a, i).reqID = a.reqID
      /\ Refused(a, i).target = a.target /\ Refused(a, i).perf = a.perf
      /\ Refused(a, i).source = a.source /\ Refused(a, i).intent = i
  BY DEF Annotations, Refused
<1>2. /\ RefusalCleared(a).op = a.op /\ RefusalCleared(a).reqID = a.reqID
      /\ RefusalCleared(a).target = a.target /\ RefusalCleared(a).perf = a.perf
      /\ RefusalCleared(a).source = a.source /\ ~RefusalCleared(a).infeasible
  BY DEF Annotations, RefusalCleared
<1>3. ASSUME NEW b \in {[a EXCEPT !.lastErr = FALSE], [a EXCEPT !.reconID = Uuid]}
      PROVE  /\ b.op = a.op /\ b.reqID = a.reqID
             /\ b.target = a.target /\ b.perf = a.perf /\ b.source = a.source
             /\ b.infeasible = a.infeasible /\ b.intent = a.intent
  BY DEF Annotations
<1> QED  BY <1>1, <1>2, <1>3

\* The writes after which there is no request; the record stays.
LEMMA DropWrites ==
  ASSUME NEW a \in Annotations, NEW ty \in Types \cup {None}, NEW o \in Ops
  PROVE  /\ \A b \in {Cancelled(a), Requeued(a), Completed(a, o, ty)} :
              NoRequest(b) /\ b.infeasible = a.infeasible /\ b.intent = a.intent
         /\ a.op \notin Ops =>
              /\ NoRequest(RequestForgotten(a))
              /\ RequestForgotten(a).infeasible = a.infeasible /\ RequestForgotten(a).intent = a.intent
         /\ a.reqID = None => /\ NoRequest(Queued(a, ty)) /\ NoRequest(Reconciled(a))
                              /\ Queued(a, ty).infeasible = a.infeasible /\ Queued(a, ty).intent = a.intent
                              /\ Reconciled(a).infeasible = a.infeasible /\ Reconciled(a).intent = a.intent
<1> USE ConstantsAssumption DEF NoRequest, Annotations
<1>1. NoRequest(Cancelled(a)) /\ Cancelled(a).infeasible = a.infeasible /\ Cancelled(a).intent = a.intent
  BY DEF Cancelled
<1>2. NoRequest(Requeued(a)) /\ Requeued(a).infeasible = a.infeasible /\ Requeued(a).intent = a.intent
  BY DEF Requeued
<1>3. /\ NoRequest(Completed(a, o, ty))
      /\ Completed(a, o, ty).infeasible = a.infeasible /\ Completed(a, o, ty).intent = a.intent
  BY DEF Completed
<1>4. ASSUME a.op \notin Ops
      PROVE  /\ NoRequest(RequestForgotten(a))
             /\ RequestForgotten(a).infeasible = a.infeasible /\ RequestForgotten(a).intent = a.intent
  BY <1>4 DEF RequestForgotten
<1>5. ASSUME a.reqID = None
      PROVE  /\ NoRequest(Queued(a, ty))
             /\ Queued(a, ty).infeasible = a.infeasible /\ Queued(a, ty).intent = a.intent
  BY <1>5 DEF Queued
<1>6. ASSUME a.reqID = None
      PROVE  /\ NoRequest(Reconciled(a))
             /\ Reconciled(a).infeasible = a.infeasible /\ Reconciled(a).intent = a.intent
  BY <1>6 DEF Reconciled
<1> QED  BY <1>1, <1>2, <1>3, <1>4, <1>5, <1>6

\* A failed operation leaves its request on record, if that is known.
LEMMA FailedWrite ==
  ASSUME NEW a \in Annotations
  PROVE  /\ NoRequest(Failed(a))
         /\ a.target = None => Failed(a).infeasible = a.infeasible /\ Failed(a).intent = a.intent
         /\ a.target # None => Failed(a).intent = [type |-> a.target, perf |-> a.perf]
<1>1. NoRequest(Failed(a))  BY ConstantsAssumption DEF Annotations, Failed, NoRequest
<1>2. /\ a.target = None => Failed(a).intent = a.intent
      /\ a.target # None => Failed(a).intent = [type |-> a.target, perf |-> a.perf]
  BY DEF Annotations, Failed
<1>3. a.target = None => Failed(a).infeasible = a.infeasible  BY DEF Annotations, Failed
<1> QED  BY <1>1, <1>2, <1>3

\* The writes that put a request or its operation on the PV.
LEMMA StartWrites ==
  ASSUME NEW a \in Annotations, NEW r \in Reqs, NEW i \in Intent, NEW ty \in Types \cup {None}, NEW o \in Ops
  PROVE  /\ \A b \in {Started(a, o), OperationRestored(a, o)} :
              /\ b.op = o /\ b.reqID = None
              /\ b.target = a.target /\ b.perf = a.perf /\ b.source = a.source
         /\ ~Started(a, o).infeasible
         /\ OperationRestored(a, o).infeasible = a.infeasible /\ OperationRestored(a, o).intent = a.intent
         /\ LET b == Prepared(a, r, i, ty)
            IN  /\ b.op = Pending /\ b.reqID = r
                /\ b.target = i.type /\ b.perf = i.perf /\ b.source = ty
                /\ b.infeasible = a.infeasible /\ b.intent = a.intent
<1>1. /\ Started(a, o).op = o /\ Started(a, o).reqID = None /\ Started(a, o).target = a.target
      /\ Started(a, o).perf = a.perf /\ Started(a, o).source = a.source /\ ~Started(a, o).infeasible
  BY DEF Annotations, Started
<1>2. LET b == OperationRestored(a, o)
      IN  /\ b.op = o /\ b.reqID = None /\ b.target = a.target /\ b.perf = a.perf
          /\ b.source = a.source /\ b.infeasible = a.infeasible /\ b.intent = a.intent
  BY DEF Annotations, OperationRestored
<1>3. LET b == Prepared(a, r, i, ty)
      IN  /\ b.op = Pending /\ b.reqID = r
          /\ b.target = i.type /\ b.perf = i.perf /\ b.source = ty
          /\ b.infeasible = a.infeasible /\ b.intent = a.intent
  BY DEF Annotations, Prepared
<1> QED  BY <1>1, <1>2, <1>3

-----------------------------------------------------------------------------
\* The steps that publish shares with the exclusive calls.

LEMMA RequestCheck ==
  ASSUME ConversionInv, RequestInv, NEW t \in Threads, CheckNoConversionInProgress(t)
  PROVE  RequestInv'
<1>1. TypeOK /\ th[t].step = "check" /\ UNCHANGED <<pv, gce>>
  BY DEF ConversionInv, CheckNoConversionInProgress
<1>2. Go(t, Admitted(t)) \/ Go(t, "outcome") \/ Leave(t)  BY DEF CheckNoConversionInProgress
<1>3. Admitted(t) \in Steps \ {"call", "rejected"} /\ Admitted(t) \in {"attach", "act"}
  BY AfterSteps DEF Steps
<1>4. Tame(t)
  <2>1. CASE Go(t, Admitted(t))
    BY <1>1, <1>3, <2>1, GoMoves, QuietTame DEF Quiet
  <2>2. CASE Go(t, "outcome")  BY <1>1, <2>2, GoTame DEF Steps, ReadSteps
  <2> QED  BY <1>1, <1>2, <2>1, <2>2, LeaveTame
<1> QED  BY <1>1, <1>4, AloneOrIdle, SameKeeps

\* A thread goes on with another intent.
LEMMA IntentTame ==
  ASSUME TypeOK, NEW t \in Threads, NEW s \in {"refuse", "users", "prepare"}, NEW i \in Intent,
         th' = [th EXCEPT ![t].step = s, ![t].c = i],
         s = "refuse" => Hopeless(i), s # "refuse" => Reading(th[t])
  PROVE  Tame(t)
<1>1. s \in Steps  BY DEF Steps
<1>2. Moves(t) /\ th'[t].step = s  BY <1>1, IntentMoves
<1>3. th'[t].c = i /\ th'[t].d = th[t].d  BY DEF TypeOK, Thread
<1>4. ReadsKept(th[t], th'[t])  BY <1>2, <1>3 DEF ReadsKept, Reading, ReadSteps
<1>5. RefusedIntent(th'[t])  BY <1>2, <1>3 DEF RefusedIntent
<1> QED  BY <1>2, <1>4, <1>5 DEF Tame

LEMMA RequestOutcome ==
  ASSUME ConversionInv, RequestInv, NEW t \in Threads, QueuedConversionOutcome(t)
  PROVE  RequestInv'
<1>1. TypeOK /\ th[t].step = "outcome" /\ UNCHANGED <<pv, gce>>
  BY DEF ConversionInv, QueuedConversionOutcome
<1>2. class \in Class /\ (class.type # Invalid => class \in Intent)
  BY <1>1, ConversionAssumption DEF TypeOK, Class, Intent
<1>3. \/ Go(t, "cancel") \/ Leave(t)
      \/ class.type = Invalid /\ th' = [th EXCEPT ![t].step = "refuse", ![t].c = NoIntent]
      \/ /\ class.type # Invalid /\ Unconvertible(class)
         /\ th' = [th EXCEPT ![t].step = "refuse", ![t].c = class]
      \/ /\ class.type # Invalid /\ th[t].kind = "runner"
         /\ \E st \in {"users", "prepare"} : th' = [th EXCEPT ![t].step = st, ![t].c = class]
  BY DEF QueuedConversionOutcome
<1>4. Tame(t)
  <2>1. CASE Go(t, "cancel")  BY <1>1, <2>1, GoMoves, QuietTame DEF Steps, Quiet
  <2>2. CASE Leave(t)  BY <1>1, <2>2, LeaveTame
  <2>3. CASE class.type = Invalid /\ th' = [th EXCEPT ![t].step = "refuse", ![t].c = NoIntent]
    <3>1. Hopeless(NoIntent)  BY DEF Hopeless
    <3> QED  BY <1>1, <2>3, <3>1, NoIntentType, IntentTame
  <2>4. CASE /\ class.type # Invalid /\ Unconvertible(class)
             /\ th' = [th EXCEPT ![t].step = "refuse", ![t].c = class]
    <3>1. Hopeless(class)  BY <2>4 DEF Hopeless
    <3> QED  BY <1>1, <1>2, <2>4, <3>1, IntentTame
  <2>5. ASSUME class.type # Invalid, th[t].kind = "runner", NEW st \in {"users", "prepare"},
               th' = [th EXCEPT ![t].step = st, ![t].c = class]
        PROVE  Tame(t)
    <3>1. Reading(th[t])  BY <1>1, <2>5 DEF Reading
    <3> QED  BY <1>1, <1>2, <2>5, <3>1, IntentTame
  <2> QED  BY <1>3, <2>1, <2>2, <2>3, <2>4, <2>5
<1> QED  BY <1>1, <1>4, AloneOrIdle, SameKeeps

\* A queued conversion is withdrawn.
LEMMA RequestWithdrawn ==
  ASSUME ConversionInv, RequestInv, NEW t \in Threads, th[t].step # "idle", Tame(t),
         ~Reading(th'[t]), pv' = Cancelled(pv), UNCHANGED gce
  PROVE  RequestInv'
<1>1. NoRequest(pv') /\ pv'.infeasible = pv.infeasible /\ pv'.intent = pv.intent
  <2>1. pv \in Annotations  BY DEF ConversionInv, TypeOK
  <2>2. CASE Ops = {}
    BY <2>1, <2>2, ConstantsAssumption DEF Annotations, Cancelled, NoRequest
  <2>3. CASE Ops # {}  BY <2>1, <2>3, DropWrites
  <2> QED  BY <2>2, <2>3
<1>2. OnlyHopeless'  BY <1>1 DEF RequestInv, OnlyHopeless
<1>3. t = Excl \/ th[Excl].step = "idle"  BY AloneOrIdle
<1>4. ~Reading(th'[Excl])
  BY <1>3, ExclFacts DEF Tame, Moves, Reading, ReadSteps
<1> QED  BY <1>1, <1>2, <1>3, <1>4, DropKeeps DEF gce

LEMMA QuietIsNotReading == ASSUME NEW e, e.step \in Quiet \cup {"note", "refuse"} PROVE ~Reading(e)
BY DEF Quiet, Reading, ReadSteps

LEMMA RequestCancel ==
  ASSUME ConversionInv, RequestInv, NEW t \in Threads, CancelQueuedConversion(t)
  PROVE  RequestInv'
<1>1. TypeOK /\ th[t].step = "cancel" /\ UNCHANGED gce  BY DEF ConversionInv, CancelQueuedConversion
<1>2. /\ Step(t, AfterCancel(t)) \/ Step(t, "idle") \/ Leave(t)
      /\ UNCHANGED pv \/ pv' = Cancelled(pv)
  BY DEF CancelQueuedConversion, Write
<1>3. Tame(t) /\ ~Reading(th'[t])
  <2>1. AfterCancel(t) \in Quiet /\ "idle" \in Quiet  BY AfterSteps DEF Quiet
  <2> QED  BY <1>1, <1>2, <2>1, StepQuiet, LeaveTame, QuietIsNotReading
<1> QED  BY <1>1, <1>2, <1>3, AloneOrIdle, SameKeeps, RequestWithdrawn

LEMMA RequestRecordInfeasible ==
  ASSUME ConversionInv, RequestInv, NEW t \in Threads, RecordInfeasibleConversion(t)
  PROVE  RequestInv'
<1>1. TypeOK /\ th[t].step = "refuse" /\ UNCHANGED gce  BY DEF ConversionInv, RecordInfeasibleConversion
<1>2. /\ Go(t, "note") \/ Step(t, AfterRefusal(t))
      /\ UNCHANGED pv \/ pv' = Cancelled(pv)
  BY DEF RecordInfeasibleConversion, Write, Step
<1>3. Tame(t) /\ ~Reading(th'[t])
  <2>1. AfterRefusal(t) \in Quiet  BY AfterSteps DEF Quiet
  <2>2. CASE Go(t, "note")
    <3>1. Hopeless(th[t].c)  BY <1>1 DEF RequestInv, RefusedIntent
    <3> QED  BY <1>1, <2>2, <3>1, GoTame, QuietIsNotReading DEF Steps, ReadSteps
  <2> QED  BY <1>1, <1>2, <2>1, <2>2, StepQuiet, QuietIsNotReading
<1> QED  BY <1>1, <1>2, <1>3, AloneOrIdle, SameKeeps, RequestWithdrawn

LEMMA RequestNote ==
  ASSUME ConversionInv, RequestInv, NEW t \in Threads, NoteInfeasible(t)
  PROVE  RequestInv'
<1>1. TypeOK /\ th[t].step = "note" /\ UNCHANGED gce  BY DEF ConversionInv, NoteInfeasible
<1>2. pv' = Refused(pv, th[t].c) /\ Step(t, AfterRefusal(t))  BY DEF NoteInfeasible, Write
<1>3. Tame(t)
  <2>1. AfterRefusal(t) \in Quiet  BY AfterSteps DEF Quiet
  <2> QED  BY <1>1, <1>2, <2>1, StepQuiet
<1>4. pv \in Annotations /\ th[t].c \in Intent  BY <1>1 DEF TypeOK, Thread
<1>5. Hopeless(th[t].c)  BY <1>1 DEF RequestInv, RefusedIntent
<1>6. SameRequest /\ pv'.intent = th[t].c  BY <1>2, <1>4, RequestWrites DEF SameRequest
<1>7. OnlyHopeless'  BY <1>5, <1>6 DEF OnlyHopeless
<1> QED  BY <1>1, <1>3, <1>6, <1>7, AloneOrIdle, TameKeeps DEF gce

LEMMA RequestFinal ==
  ASSUME ConversionInv, RequestInv, NEW t \in Threads, FinalCheck(t)
  PROVE  RequestInv'
<1>1. TypeOK /\ th[t].step = "final" /\ UNCHANGED <<pv, gce>>  BY DEF ConversionInv, FinalCheck
<1>2. Tame(t)
  <2>1. Admitted(t) \in Quiet /\ "idle" \in Quiet  BY AfterSteps DEF Quiet
  <2>2. Step(t, Admitted(t)) \/ Step(t, "idle")  BY DEF FinalCheck
  <2> QED  BY <1>1, <2>1, <2>2, StepQuiet
<1> QED  BY <1>1, <1>2, AloneOrIdle, SameKeeps

LEMMA RequestApiError ==
  ASSUME ConversionInv, RequestInv, NEW t \in Threads, ApiError(t)
  PROVE  RequestInv'
<1>1. TypeOK /\ th[t].step # "idle" /\ UNCHANGED <<pv, gce>>  BY DEF ConversionInv, ApiError
<1>2. Tame(t)
  <2>1. AfterRefusal(t) \in Quiet /\ "idle" \in Quiet  BY AfterSteps DEF Quiet
  <2>2. Step(t, AfterRefusal(t)) \/ Step(t, "idle")  BY DEF ApiError
  <2> QED  BY <1>1, <2>1, <2>2, StepQuiet
<1> QED  BY <1>1, <1>2, AloneOrIdle, SameKeeps

LEMMA RequestSharedStep ==
  ASSUME ConversionInv, RequestInv, NEW t \in Threads, SharedStep(t)
  PROVE  RequestInv'
BY RequestCheck, RequestOutcome, RequestCancel, RequestRecordInfeasible, RequestNote, RequestFinal
   DEF SharedStep

-----------------------------------------------------------------------------
\* The steps of the exclusive holder that write neither request nor record.

LEMMA ExclQuiet ==
  ASSUME ConversionInv, RequestInv, UNCHANGED <<pv, ops, accepted>>, disk'.type = disk.type,
         Leave(Excl) \/ \E s \in Quiet : Go(Excl, s) \/ Step(Excl, s)
  PROVE  RequestInv'
<1>1. TypeOK  BY DEF ConversionInv
<1>2. Tame(Excl)
  <2>1. ASSUME NEW s \in Quiet, Go(Excl, s) PROVE Tame(Excl)
    <3>1. s \in Steps  BY DEF Quiet, Steps
    <3> QED  BY <1>1, <2>1, <3>1, GoMoves, QuietTame, ExclFacts
  <2> QED  BY <1>1, <2>1, StepQuiet, LeaveTame, ExclFacts
<1>3. SameRequest /\ OnlyHopeless'  BY DEF SameRequest, OnlyHopeless, RequestInv
<1> QED  BY <1>2, <1>3, TameKeeps, ExclFacts

LEMMA RequestFollow == ASSUME ConversionInv, RequestInv, FollowRecorded(Excl) PROVE RequestInv'
BY ExclQuiet DEF FollowRecorded, gce

LEMMA RequestReplayed == ASSUME ConversionInv, RequestInv, ConvertReplayed(Excl) PROVE RequestInv'
<1>1. TypeOK /\ th[Excl].step = "call" /\ UNCHANGED <<pv, gce>>  BY DEF ConversionInv, ConvertReplayed
<1>2. accepted[th[Excl].r] \in Ops
  <2>1. th[Excl].r \in Reqs
    BY <1>1, ExclFacts DEF ConversionInv, Justified, RequestInFlight
  <2> QED  BY <1>1, <2>1 DEF TypeOK, ConvertReplayed
<1>3. Moves(Excl) /\ th'[Excl].step = "record"
  <2>1. "record" \in Steps  BY DEF Steps
  <2> QED  BY <1>1, <1>2, <2>1, OperationMoves, ExclFacts DEF ConvertReplayed
<1>4. Tame(Excl)  BY <1>3, QuietTame, ExclFacts DEF Quiet
<1> QED  BY <1>1, <1>4, SameKeeps, ExclFacts

LEMMA RequestRejected == ASSUME ConversionInv, RequestInv, ConvertRejected(Excl) PROVE RequestInv'
<1>1. TypeOK /\ UNCHANGED <<pv, gce>> /\ th[Excl].c \in Rejected  BY DEF ConversionInv, ConvertRejected
<1>2. Moves(Excl) /\ th'[Excl].step = "rejected" /\ th'[Excl].c = th[Excl].c
  BY <1>1, GoShape, ExclFacts DEF ConvertRejected, Steps
<1>3. Tame(Excl)  BY <1>1, <1>2 DEF Tame, ReadsKept, Reading, ReadSteps, RefusedIntent
<1> QED  BY <1>1, <1>3, SameKeeps, ExclFacts

LEMMA RequestModify ==
  ASSUME ConversionInv, RequestInv,
         \/ ModifyWithoutType(Excl) \/ ModifyToOtherType(Excl) \/ CompleteConversionIfInProgress(Excl)
         \/ AnswerFromRecord(Excl) \/ ConvertDiskType(Excl)
  PROVE  RequestInv'
<1>1. TypeOK /\ UNCHANGED <<pv, gce>>
  BY DEF ConversionInv, ModifyWithoutType, ModifyToOtherType, CompleteConversionIfInProgress,
         AnswerFromRecord, ConvertDiskType
<1>2. UNCHANGED <<pv, ops, accepted>> /\ disk'.type = disk.type  BY <1>1 DEF gce
<1>3. CASE ModifyWithoutType(Excl)
  <2>1. \E s \in {"perf", "cancel", "idle"} : Step(Excl, s)  BY <1>3 DEF ModifyWithoutType
  <2> QED  BY <1>2, <2>1, ExclQuiet DEF Quiet
<1>4. CASE CompleteConversionIfInProgress(Excl)
  <2>1. Go(Excl, "perf") \/ Go(Excl, "cancel") \/ Leave(Excl)
    BY <1>4 DEF CompleteConversionIfInProgress
  <2> QED  BY <1>2, <2>1, ExclQuiet DEF Quiet
<1>5. CASE AnswerFromRecord(Excl)  BY <1>2, <1>5, ExclQuiet DEF AnswerFromRecord
<1>6. CASE ModifyToOtherType(Excl)
  <2>1. Reading(th[Excl]) /\ Go(Excl, "convert")  BY <1>6 DEF ModifyToOtherType, Reading, ReadSteps
  <2>2. Tame(Excl)  BY <1>1, <2>1, GoTame, ExclFacts DEF Steps
  <2> QED  BY <1>1, <2>2, SameKeeps, ExclFacts
<1>7. CASE ConvertDiskType(Excl)
  <2>1. Reading(th[Excl])  BY <1>7 DEF ConvertDiskType, Reading, ReadSteps
  <2>2. \/ Unconvertible(th[Excl].c) /\ Go(Excl, "refuse")
        \/ Go(Excl, "queue") \/ Go(Excl, "prepare")
    BY <1>7 DEF ConvertDiskType
  <2>3. CASE Unconvertible(th[Excl].c) /\ Go(Excl, "refuse")
    <3>1. Hopeless(th[Excl].c)  BY <2>3 DEF Hopeless
    <3>2. Tame(Excl)  BY <1>1, <2>3, <3>1, GoTame, ExclFacts DEF Steps, ReadSteps
    <3> QED  BY <1>1, <3>2, SameKeeps, ExclFacts
  <2>4. CASE Go(Excl, "queue")  BY <1>2, <2>4, ExclQuiet DEF Quiet
  <2>5. CASE Go(Excl, "prepare")
    <3>1. Tame(Excl)  BY <1>1, <2>1, <2>5, GoTame, ExclFacts DEF Steps
    <3> QED  BY <1>1, <3>1, SameKeeps, ExclFacts
  <2> QED  BY <2>2, <2>3, <2>4, <2>5
<1> QED  BY <1>3, <1>4, <1>5, <1>6, <1>7

LEMMA RequestDisk ==
  ASSUME ConversionInv, RequestInv, UpdateDisk(Excl) \/ ActOnDisk(Excl) PROVE RequestInv'
<1>1. CASE UpdateDisk(Excl)
  <2>1. disk'.type = disk.type  BY <1>1 DEF UpdateDisk, ConversionInv, TypeOK
  <2> QED  BY <1>1, <2>1, ExclQuiet DEF UpdateDisk
<1>2. CASE ActOnDisk(Excl)  BY <1>2, ExclQuiet DEF ActOnDisk, gce
<1> QED  BY <1>1, <1>2

\* A disk is deleted only while there is no request.
LEMMA RequestDelete == ASSUME ConversionInv, RequestInv, DeleteDisk(Excl) PROVE RequestInv'
<1>1. TypeOK /\ Leave(Excl) /\ UNCHANGED <<pv, ops, accepted>>  BY DEF ConversionInv, DeleteDisk
<1>2. Tame(Excl) /\ ~Reading(th'[Excl])
  BY <1>1, LeaveTame, ExclFacts DEF Reading, ReadSteps
<1>3. pv.op = None
  <2>1. Justified(Excl) /\ th[Excl].step = "act"  BY ExclFacts DEF ConversionInv, DeleteDisk
  <2> QED  BY <2>1 DEF Justified
<1>4. NoRequest(pv')
  BY <1>1, <1>3, ConstantsAssumption DEF NoRequest, ConversionInv, RequestIsPending
<1>5. OnlyHopeless'  BY <1>1 DEF RequestInv, OnlyHopeless
<1> QED  BY <1>1, <1>2, <1>4, <1>5, DropKeeps, ExclFacts

LEMMA RequestRecover == ASSUME ConversionInv, RequestInv, RecoverRequest(Excl) PROVE RequestInv'
<1>1. TypeOK /\ UNCHANGED <<pv, gce>>  BY DEF ConversionInv, RecoverRequest
<1>2. Reading(th[Excl])  BY DEF RecoverRequest, Reading, ReadSteps
<1>3. \/ Go(Excl, "outcome") \/ Leave(Excl)
      \/ th' = [th EXCEPT ![Excl].step = "prepare", ![Excl].c = [type |-> pv.target, perf |-> None]]
  BY DEF RecoverRequest
<1>4. [type |-> pv.target, perf |-> None] \in Intent
  BY <1>1, AnnotationTypes DEF TypeOK, Intent
<1>5. Tame(Excl)
  <2>1. CASE Go(Excl, "outcome")  BY <1>1, <1>2, <2>1, GoTame, ExclFacts DEF Steps
  <2>2. CASE th' = [th EXCEPT ![Excl].step = "prepare", ![Excl].c = [type |-> pv.target, perf |-> None]]
    <3> DEFINE i == [type |-> pv.target, perf |-> None]
    <3>1. i \in Intent /\ th' = [th EXCEPT ![Excl].step = "prepare", ![Excl].c = i]  BY <1>4, <2>2
    <3> HIDE DEF i
    <3> QED  BY <1>1, <1>2, <3>1, IntentTame, ExclFacts
  <2> QED  BY <1>1, <1>3, <2>1, <2>2, LeaveTame, ExclFacts
<1> QED  BY <1>1, <1>5, SameKeeps, ExclFacts

LEMMA RequestWaitDetach == ASSUME ConversionInv, RequestInv, WaitForDetachVisible(Excl) PROVE RequestInv'
<1>1. TypeOK /\ UNCHANGED <<pv, gce>>  BY DEF ConversionInv, WaitForDetachVisible
<1>2. Reading(th[Excl])  BY DEF WaitForDetachVisible, Reading, ReadSteps
<1>3. CASE Leave(Excl)  BY <1>1, <1>3, LeaveTame, SameKeeps, ExclFacts
<1>4. CASE th' = [th EXCEPT ![Excl].step = "prepare", ![Excl].d.attached = FALSE]
  <2> DEFINE d == [th[Excl].d EXCEPT !.attached = FALSE]
  <2>1. d \in DiskRead /\ d.type = th[Excl].d.type
    BY <1>1, ExclFacts DEF TypeOK, Thread, DiskRead
  <2>2. th' = [th EXCEPT ![Excl].step = "prepare", ![Excl].d = d]  BY <1>4, Zenon
  <2>3. "prepare" \in Steps  BY DEF Steps
  <2>4. th'[Excl].d = d  BY <1>1, <2>2, ExclFacts DEF TypeOK, Thread
  <2> HIDE DEF d
  <2>5. Moves(Excl) /\ th'[Excl].step = "prepare"  BY <1>1, <2>1, <2>2, <2>3, DiskMoves, ExclFacts
  <2>6. Tame(Excl)
    BY <1>2, <2>1, <2>4, <2>5 DEF Tame, ReadsKept, RefusedIntent
  <2> QED  BY <1>1, <2>6, SameKeeps, ExclFacts
<1> QED  BY <1>3, <1>4 DEF WaitForDetachVisible

-----------------------------------------------------------------------------
\* The steps of the exclusive holder that write the request or the record.

LEMMA RequestClearRejected ==
  ASSUME ConversionInv, RequestInv, ClearRejectedConversionRequest(Excl) PROVE RequestInv'
<1>1. TypeOK /\ th[Excl].step = "rejected" /\ UNCHANGED gce
  BY DEF ConversionInv, ClearRejectedConversionRequest
<1>2. CASE ~(pv.op = Pending /\ pv.reqID = th[Excl].r)
  BY <1>1, <1>2, ExclQuiet DEF ClearRejectedConversionRequest, gce
<1>3. CASE pv.op = Pending /\ pv.reqID = th[Excl].r
  <2>1. pv' = RequestForgotten(pv) /\ (Go(Excl, "refuse") \/ Leave(Excl))
    BY <1>3 DEF ClearRejectedConversionRequest, Write, Step
  <2>2. NoRequest(pv') /\ pv'.infeasible = pv.infeasible /\ pv'.intent = pv.intent
    <3>1. pv \in Annotations  BY <1>1 DEF TypeOK
    <3> QED  BY <1>3, <2>1, <3>1, ConstantsAssumption DEF Annotations, RequestForgotten, NoRequest
  <2>3. Hopeless(th[Excl].c)  BY <1>1, ExclFacts DEF RequestInv, RefusedIntent, Hopeless
  <2>4. Tame(Excl) /\ ~Reading(th'[Excl])
    <3>1. CASE Go(Excl, "refuse")
      BY <1>1, <2>3, <3>1, GoTame, QuietIsNotReading, ExclFacts DEF Steps, ReadSteps
    <3>2. CASE Leave(Excl)  BY <1>1, <3>2, LeaveTame, QuietIsNotReading, ExclFacts DEF Quiet
    <3> QED  BY <2>1, <3>1, <3>2
  <2>5. OnlyHopeless'  BY <2>2 DEF RequestInv, OnlyHopeless
  <2> QED  BY <1>1, <2>2, <2>4, <2>5, DropKeeps, ExclFacts DEF gce
<1> QED  BY <1>2, <1>3

LEMMA RequestQueue ==
  ASSUME ConversionInv, RequestInv, MarkConversionPending(Excl) PROVE RequestInv'
<1>1. TypeOK /\ Leave(Excl) /\ UNCHANGED gce  BY DEF ConversionInv, MarkConversionPending
<1>2. CASE UNCHANGED pv  BY <1>1, <1>2, ExclQuiet DEF gce
<1>3. CASE pv.reqID = None /\ pv' = Queued(pv, th[Excl].c.type)
  <2>1. NoRequest(pv') /\ pv'.infeasible = pv.infeasible /\ pv'.intent = pv.intent
    BY <1>1, <1>3, ConstantsAssumption DEF TypeOK, Annotations, Queued, NoRequest
  <2>2. Tame(Excl) /\ ~Reading(th'[Excl])
    BY <1>1, LeaveTame, QuietIsNotReading, ExclFacts DEF Quiet
  <2>3. OnlyHopeless'  BY <2>1 DEF RequestInv, OnlyHopeless
  <2> QED  BY <1>1, <2>1, <2>2, <2>3, DropKeeps, ExclFacts DEF gce
<1> QED  BY <1>2, <1>3 DEF MarkConversionPending

LEMMA RequestClearRecord ==
  ASSUME ConversionInv, RequestInv, ClearOtherRecord(Excl) PROVE RequestInv'
<1>1. TypeOK /\ UNCHANGED gce  BY DEF ConversionInv, ClearOtherRecord
<1>2. pv' = RefusalCleared(pv) /\ (Go(Excl, "convert") \/ Leave(Excl))
  BY DEF ClearOtherRecord, Write, Step
<1>3. pv \in Annotations  BY <1>1 DEF TypeOK
<1>4. SameRequest /\ OnlyHopeless'
  BY <1>2, <1>3, RequestWrites, NoIntentType DEF SameRequest, OnlyHopeless
<1>5. Tame(Excl)
  <2>1. Reading(th[Excl])  BY DEF ClearOtherRecord, Reading, ReadSteps
  <2> QED  BY <1>1, <1>2, <2>1, GoTame, LeaveTame, ExclFacts DEF Steps
<1> QED  BY <1>1, <1>4, <1>5, TameKeeps, ExclFacts DEF gce

LEMMA RequestReport ==
  ASSUME ConversionInv, RequestInv, ReportLastError(Excl) PROVE RequestInv'
<1>1. /\ TypeOK /\ Leave(Excl) /\ UNCHANGED gce
      /\ pv' = [pv EXCEPT !.lastErr = FALSE]
  BY DEF ConversionInv, ReportLastError
<1>2. pv \in Annotations  BY <1>1 DEF TypeOK
<1>3. SameRequest /\ pv'.infeasible = pv.infeasible /\ pv'.intent = pv.intent
  BY <1>1, <1>2, RequestWrites, NoIntentType DEF SameRequest
<1>4. OnlyHopeless'  BY <1>3 DEF RequestInv, OnlyHopeless
<1> QED  BY <1>1, <1>3, <1>4, LeaveTame, TameKeeps, ExclFacts DEF gce

\* The operation replaces the request it was started for.
LEMMA OperationKeeps ==
  ASSUME ConversionInv, RequestInv, Tame(Excl), ~Reading(th'[Excl]), NEW o \in Ops,
         pv.reqID # None, accepted[pv.reqID] = o,
         pv'.op = o, pv'.reqID = None,
         pv'.target = pv.target, pv'.perf = pv.perf, pv'.source = pv.source,
         OnlyHopeless', UNCHANGED <<ops, accepted>>
  PROVE  RequestInv'
<1>1. RecordedRequestIsTheOneSent'  BY DEF RequestInv, RecordedRequestIsTheOneSent
<1>2. RequestSource' /\ TerminalIsDoomed'  BY DEF RequestInv, RequestSource, TerminalIsDoomed
<1>3. KnowsDisk' /\ CallIntent'  BY DEF KnowsDisk, CallIntent, Tame
<1> QED  BY <1>1, <1>2, <1>3, TameThreads, ExclFacts DEF RequestInv

LEMMA RequestRecordOperation ==
  ASSUME ConversionInv, RequestInv, RecordOperation(Excl) PROVE RequestInv'
<1>1. TypeOK /\ th[Excl].step = "record" /\ UNCHANGED gce  BY DEF ConversionInv, RecordOperation
<1>2. /\ pv.reqID = th[Excl].r /\ th[Excl].r \in Reqs
      /\ th[Excl].o \in Ops /\ accepted[th[Excl].r] = th[Excl].o
  BY <1>1, ExclFacts, Zenon DEF ConversionInv, Justified, RequestInFlight
<1>3. /\ Step(Excl, "report") \/ Step(Excl, "idle") \/ Leave(Excl)
      /\ UNCHANGED pv \/ pv' = Started(pv, th[Excl].o)
  BY DEF RecordOperation
<1>4. Tame(Excl) /\ ~Reading(th'[Excl])
  BY <1>1, <1>3, StepQuiet, LeaveTame, QuietIsNotReading, ExclFacts DEF Quiet
<1>5. CASE UNCHANGED pv  BY <1>1, <1>4, <1>5, SameKeeps, ExclFacts
<1>6. CASE pv' = Started(pv, th[Excl].o)
  <2>1. pv \in Annotations  BY <1>1 DEF TypeOK
  <2>2. /\ pv'.op = th[Excl].o /\ pv'.reqID = None /\ ~pv'.infeasible
        /\ pv'.target = pv.target /\ pv'.perf = pv.perf /\ pv'.source = pv.source
    BY <1>2, <1>6, <2>1 DEF Annotations, Started
  <2>3. OnlyHopeless'  BY <2>2 DEF OnlyHopeless
  <2>4. pv.reqID # None  BY <1>2, ConstantsAssumption
  <2> QED  BY <1>1, <1>2, <1>4, <2>2, <2>3, <2>4, OperationKeeps DEF gce
<1> QED  BY <1>3, <1>5, <1>6

LEMMA RequestEnsure ==
  ASSUME ConversionInv, RequestInv, EnsureWatchedOperationRecorded(Excl) PROVE RequestInv'
<1>1. TypeOK /\ th[Excl].step = "ensure" /\ UNCHANGED gce
  BY DEF ConversionInv, EnsureWatchedOperationRecorded
<1>2. /\ th[Excl].o \in Ops
      /\ th[Excl].r # None => accepted[th[Excl].r] = th[Excl].o
  BY <1>1, ExclFacts, Zenon DEF ConversionInv, Justified, FinishInFlight
<1>3. /\ Go(Excl, "finish") \/ Leave(Excl)
      /\ \/ UNCHANGED pv
         \/ /\ th[Excl].r # None /\ pv.reqID = th[Excl].r
            /\ pv' = OperationRestored(pv, th[Excl].o)
  BY DEF EnsureWatchedOperationRecorded, Write, Step
<1>4. Tame(Excl) /\ ~Reading(th'[Excl])
  <2>1. CASE Go(Excl, "finish")
    BY <1>1, <2>1, GoMoves, QuietTame, QuietIsNotReading, ExclFacts DEF Steps, Quiet
  <2>2. CASE Leave(Excl)  BY <1>1, <2>2, LeaveTame, QuietIsNotReading, ExclFacts DEF Quiet
  <2> QED  BY <1>3, <2>1, <2>2
<1>5. CASE UNCHANGED pv  BY <1>1, <1>4, <1>5, SameKeeps, ExclFacts
<1>6. CASE /\ th[Excl].r # None /\ pv.reqID = th[Excl].r
           /\ pv' = OperationRestored(pv, th[Excl].o)
  <2>1. pv \in Annotations  BY <1>1 DEF TypeOK
  <2>2. /\ pv'.op = th[Excl].o /\ pv'.reqID = None
        /\ pv'.target = pv.target /\ pv'.perf = pv.perf /\ pv'.source = pv.source
        /\ pv'.infeasible = pv.infeasible /\ pv'.intent = pv.intent
    BY <1>2, <1>6, <2>1 DEF Annotations, OperationRestored
  <2>3. OnlyHopeless'  BY <2>2 DEF RequestInv, OnlyHopeless
  <2> QED  BY <1>1, <1>2, <1>4, <1>6, <2>2, <2>3, OperationKeeps DEF gce
<1> QED  BY <1>3, <1>5, <1>6

\* A terminal failure goes on record under the request that GCE worked on.
LEMMA RequestFinishFailed ==
  ASSUME ConversionInv, RequestInv, FinishFailedWatchedConversion(Excl) PROVE RequestInv'
<1>1. TypeOK /\ th[Excl].step = "finish" /\ Leave(Excl) /\ UNCHANGED gce
  BY DEF ConversionInv, FinishFailedWatchedConversion
<1>2. th[Excl].o \in Ops /\ pv.op = th[Excl].o
  BY <1>1, ExclFacts, Zenon DEF ConversionInv, Justified, FinishInFlight
<1>3. \/ pv' = Requeued(pv)
      \/ ops[th[Excl].o].st = "terminal" /\ pv' = Failed(pv)
  BY <1>2 DEF FinishFailedWatchedConversion
<1>4. Tame(Excl) /\ ~Reading(th'[Excl])
  BY <1>1, LeaveTame, QuietIsNotReading, ExclFacts DEF Quiet
<1>5. pv \in Annotations  BY <1>1 DEF TypeOK
<1>6. NoRequest(pv') /\ OnlyHopeless'
  <2>1. CASE pv' = Requeued(pv)
    <3>1. NoRequest(pv') /\ pv'.infeasible = pv.infeasible /\ pv'.intent = pv.intent
      BY <1>2, <1>5, <2>1, DropWrites
    <3> QED  BY <3>1 DEF RequestInv, OnlyHopeless
  <2>2. CASE ops[th[Excl].o].st = "terminal" /\ pv' = Failed(pv)
    <3>1. [type |-> pv.target, perf |-> pv.perf] \in Doomed
      <4>1. ops[th[Excl].o].i \in Doomed  BY <1>2, <2>2 DEF RequestInv, TerminalIsDoomed
      <4>2. ops[th[Excl].o].i = [type |-> pv.target, perf |-> pv.perf]
        BY <1>2 DEF RequestInv, RecordedRequestIsTheOneSent
      <4> QED  BY <4>1, <4>2
    <3>2. Hopeless([type |-> pv.target, perf |-> pv.perf])  BY <3>1 DEF Hopeless
    <3>3. NoRequest(pv')  BY <1>5, <2>2, FailedWrite
    <3>4. CASE pv.target = None
      <4>1. pv'.infeasible = pv.infeasible /\ pv'.intent = pv.intent
        BY <1>5, <2>2, <3>4, FailedWrite
      <4> QED  BY <3>3, <4>1 DEF RequestInv, OnlyHopeless
    <3>5. CASE pv.target # None
      <4>1. pv'.intent = [type |-> pv.target, perf |-> pv.perf]
        BY <1>5, <2>2, <3>5, FailedWrite
      <4> QED  BY <3>2, <3>3, <4>1 DEF OnlyHopeless
    <3> QED  BY <3>4, <3>5
  <2> QED  BY <1>3, <2>1, <2>2
<1> QED  BY <1>1, <1>4, <1>6, DropKeeps, ExclFacts DEF gce

\* A completed conversion leaves no request, and the disk is read again.
LEMMA RequestFinish ==
  ASSUME ConversionInv, RequestInv, FinishWatchedConversion(Excl) PROVE RequestInv'
<1>1. TypeOK /\ th[Excl].step = "finish" /\ UNCHANGED gce /\ disk.type # None
  BY DEF ConversionInv, FinishWatchedConversion
<1>2. th[Excl].o \in Ops /\ pv.op = th[Excl].o
  BY <1>1, ExclFacts, Zenon DEF ConversionInv, Justified, FinishInFlight
<1>3. pv' = Completed(pv, th[Excl].o, disk.type)  BY <1>2 DEF FinishWatchedConversion
<1>4. disk.type \in Types \cup {None} /\ pv \in Annotations  BY <1>1, ZenonT(30) DEF TypeOK
<1>5. NoRequest(pv') /\ pv'.infeasible = pv.infeasible /\ pv'.intent = pv.intent
  BY <1>2, <1>3, <1>4, DropWrites
<1>6. OnlyHopeless'  BY <1>5 DEF RequestInv, OnlyHopeless
<1>7. Tame(Excl) /\ (Reading(th'[Excl]) => th'[Excl].d.type = disk.type)
  <2>1. CASE Leave(Excl)  BY <1>1, <2>1, LeaveTame, QuietIsNotReading, ExclFacts DEF Quiet
  <2>2. CASE th' = [th EXCEPT ![Excl].step = "clear", ![Excl].d = GetDisk]
    <3>1. "clear" \in Steps  BY DEF Steps
    <3>2. Moves(Excl) /\ th'[Excl].step = "clear"
      BY <1>1, <2>2, <3>1, DiskMoves, GetDiskType, ExclFacts
    <3>3. th'[Excl].d = GetDisk  BY <1>1, <2>2, ExclFacts DEF TypeOK, Thread
    <3>4. th'[Excl].d.type = disk.type  BY <3>3 DEF GetDisk
    <3> QED  BY <1>1, <3>2, <3>4 DEF Tame, ReadsKept, RefusedIntent
  <2> QED  BY <2>1, <2>2 DEF FinishWatchedConversion
<1> QED  BY <1>1, <1>5, <1>6, <1>7, DropKeeps, ExclFacts DEF gce

LEMMA RequestIdentify ==
  ASSUME ConversionInv, RequestInv, IdentifyReconciliation(Excl) PROVE RequestInv'
<1>1. TypeOK /\ UNCHANGED gce /\ disk.type # None  BY DEF ConversionInv, IdentifyReconciliation
<1>2. CASE pv.reconID # None
  <2> DEFINE e == [th[Excl] EXCEPT !.step = "clear", !.d = GetDisk, !.o = pv.reconID]
  <2>1. th' = [th EXCEPT ![Excl] = e] /\ UNCHANGED pv  BY <1>2, Zenon DEF IdentifyReconciliation
  <2>2. pv.reconID \in Ops \cup {None, Uuid}  BY <1>1, AnnotationTypes DEF TypeOK
  <2>3. th[Excl] \in Thread /\ "clear" \in Steps  BY <1>1, ExclFacts DEF TypeOK, Steps
  <2>4. e \in Thread  BY <1>1, <2>2, <2>3, GetDiskType, NoIntentType, ThreadUpdates, ZenonT(30)
  <2>5. e.step = "clear" /\ e.d = GetDisk  BY <2>3 DEF Thread
  <2> HIDE DEF e
  <2>6. Moves(Excl) /\ th'[Excl] = e  BY <1>1, <2>1, <2>4, ExclFacts, ReplaceMoves, Zenon
  <2>7. th'[Excl].step = "clear" /\ th'[Excl].d.type = disk.type  BY <2>5, <2>6 DEF GetDisk
  <2>8. Tame(Excl)  BY <1>1, <2>6, <2>7 DEF Tame, ReadsKept, RefusedIntent
  <2> QED  BY <1>1, <2>1, <2>8, SameKeeps, ExclFacts
<1>3. CASE pv.reconID = None /\ pv.to # None
  <2>1. pv' = [pv EXCEPT !.reconID = Uuid] /\ (Step(Excl, "identify") \/ Step(Excl, "idle"))
    BY <1>3 DEF IdentifyReconciliation, Write
  <2>2. pv \in Annotations  BY <1>1 DEF TypeOK
  <2>3. SameRequest /\ pv'.infeasible = pv.infeasible /\ pv'.intent = pv.intent
    BY <2>1, <2>2, RequestWrites, NoIntentType DEF SameRequest
  <2>4. OnlyHopeless'  BY <2>3 DEF RequestInv, OnlyHopeless
  <2>5. Tame(Excl)  BY <1>1, <2>1, StepQuiet, ExclFacts DEF Quiet
  <2> QED  BY <1>1, <2>3, <2>4, <2>5, TameKeeps, ExclFacts DEF gce
<1>4. CASE pv.reconID = None /\ pv.to = None
  <2>1. Leave(Excl) /\ UNCHANGED pv  BY <1>4 DEF IdentifyReconciliation
  <2> QED  BY <1>1, <2>1, ExclQuiet DEF gce
<1> QED  BY <1>2, <1>3, <1>4

LEMMA RequestClearReconciliation ==
  ASSUME ConversionInv, RequestInv, ClearConversionReconciliation(Excl) PROVE RequestInv'
<1>1. TypeOK /\ th[Excl].step = "clear" /\ UNCHANGED gce
  BY DEF ConversionInv, ClearConversionReconciliation
<1>2. pv.op = Reconciling /\ pv.reconID = th[Excl].o
  BY <1>1, ExclFacts DEF ConversionInv, Justified, ReconcileInFlight
<1>3. pv.reqID = None /\ NoRequest(pv)
  BY <1>2, ConstantsAssumption DEF ConversionInv, RequestIsPending, NoRequest
<1>4. \/ pv' = Reconciled(pv) /\ (Go(Excl, "latest") \/ Leave(Excl))
      \/ Leave(Excl) /\ UNCHANGED pv
  BY <1>2 DEF ClearConversionReconciliation, Write, Step
<1>5. CASE Leave(Excl) /\ UNCHANGED pv  BY <1>1, <1>5, ExclQuiet DEF gce
<1>6. CASE pv' = Reconciled(pv) /\ (Go(Excl, "latest") \/ Leave(Excl))
  <2>1. pv \in Annotations  BY <1>1 DEF TypeOK
  <2>2. NoRequest(pv') /\ pv'.infeasible = pv.infeasible /\ pv'.intent = pv.intent
    BY <1>3, <1>6, <2>1, ConstantsAssumption DEF Annotations, Reconciled, NoRequest
  <2>3. OnlyHopeless'  BY <2>2 DEF RequestInv, OnlyHopeless
  <2>4. Reading(th[Excl])  BY <1>1 DEF Reading, ReadSteps
  <2>5. Tame(Excl)  BY <1>1, <1>6, <2>4, GoTame, LeaveTame, ExclFacts DEF Steps
  <2> QED  BY <1>1, <1>3, <2>2, <2>3, <2>5, DropKeeps, ExclFacts DEF gce
<1> QED  BY <1>4, <1>5, <1>6

LEMMA RequestLatest ==
  ASSUME ConversionInv, RequestInv, ReconcileLatestVACAfterConversion(Excl) PROVE RequestInv'
<1>1. TypeOK /\ th[Excl].step = "latest" /\ UNCHANGED <<pv, gce>>
  BY DEF ConversionInv, ReconcileLatestVACAfterConversion
<1> DEFINE i == IF class.type = Invalid THEN NoIntent ELSE class
           s == LatestStep(Excl)
           e == [th[Excl] EXCEPT !.step = s, !.c = i, !.o = None, !.r = None]
<1>2. i \in Intent
  <2>1. class \in Class  BY <1>1, ConversionAssumption DEF TypeOK
  <2> QED  BY <2>1, NoIntentType DEF Class, Intent
<1>3. s \in {"refuse", "perf", "queue", "prepare"} /\ (s = "refuse" => Hopeless(i))
  <2>1. s \in {"refuse", "perf", "queue", "prepare"}  BY DEF LatestStep
  <2>2. s = "refuse" => class.type = Invalid \/ Unconvertible(class)  BY DEF LatestStep
  <2> QED  BY <2>1, <2>2 DEF Hopeless
<1>4. th' = [th EXCEPT ![Excl] = e]  BY Zenon DEF ReconcileLatestVACAfterConversion
<1>5. th[Excl] \in Thread /\ s \in Steps  BY <1>1, <1>3, ExclFacts DEF TypeOK, Steps
<1> HIDE DEF i, s
<1>6. e \in Thread  BY <1>1, <1>2, <1>5, ThreadUpdates, GetDiskType, Zenon
<1>7. e.step = s /\ e.c = i /\ e.d = th[Excl].d  BY <1>5 DEF Thread
<1> HIDE DEF e
<1>8. Moves(Excl) /\ th'[Excl] = e  BY <1>1, <1>4, <1>6, ExclFacts, ReplaceMoves, Zenon
<1>9. Reading(th[Excl])  BY <1>1 DEF Reading, ReadSteps
<1>10. Tame(Excl)  BY <1>3, <1>7, <1>8, <1>9 DEF Tame, ReadsKept, RefusedIntent
<1> QED  BY <1>1, <1>10, SameKeeps, ExclFacts

-----------------------------------------------------------------------------
\* The two steps that matter most: the request is written, and GCE takes it.

LEMMA RequestPrepare ==
  ASSUME ConversionInv, RequestInv, PrepareRequest(Excl) PROVE RequestInv'
<1>1. TypeOK /\ th[Excl].step = "prepare" /\ pv.op \notin Ops
  BY DEF ConversionInv, PrepareRequest
<1>2. UNCHANGED <<disk, ops>>  BY ZenonT(30) DEF PrepareRequest
<1> DEFINE i == SentIntent(Excl)
           src == SourceType(Excl)
<1>3. PICK id \in IF Replaying THEN {pv.reqID} ELSE FreshReqs :
        /\ pv' = Prepared(pv, id, i, src)
        /\ accepted' = IF Replaying THEN accepted ELSE [accepted EXCEPT ![id] = None]
        /\ \/ th' = [th EXCEPT ![Excl].step = "call", ![Excl].r = id, ![Excl].c = i]
           \/ Leave(Excl)
  BY ZenonT(30) DEF PrepareRequest
<1>4. id \in Reqs  BY <1>1, AnnotationTypes DEF TypeOK, Replaying, FreshReqs
<1>5. th[Excl] \in Thread /\ th[Excl].c \in Intent /\ th[Excl].d.type \in Types \cup {None}
  BY <1>1, ExclFacts DEF TypeOK, Thread
<1>6. i \in Intent /\ src \in Types \cup {None}
  <2>1. [type |-> pv.target, perf |-> pv.perf] \in Intent
    BY <1>1, AnnotationTypes, ZenonT(30) DEF TypeOK, Intent
  <2>2. pv.source \in Types \cup {None}  BY <1>1, AnnotationTypes DEF TypeOK
  <2> QED  BY <1>5, <2>1, <2>2, ZenonT(30) DEF SentIntent, SourceType
\* A replay leaves the request as it is; a new one starts from the disk's type.
<1>9. /\ src # None
      /\ Replaying => i = [type |-> pv.target, perf |-> pv.perf] /\ src = pv.source
      /\ ~Replaying => src = disk.type
  <2>1. Replaying => /\ pv.source # None
                     /\ i = [type |-> pv.target, perf |-> pv.perf] /\ src = pv.source
    BY DEF RequestInv, RequestSource, Replaying, SentIntent, SourceType
  <2>2. ~Replaying => src = disk.type /\ disk.type # None
    <3>1. ~Replaying => NoRequest(pv) /\ Reading(th[Excl])
      BY <1>1 DEF NoRequest, Replaying, Reading, ReadSteps
    <3> QED  BY <3>1 DEF SourceType, RequestInv, KnowsDisk
  <2> QED  BY <2>1, <2>2
<1> HIDE DEF i, src
<1>10. /\ pv'.op = Pending /\ pv'.reqID = id
       /\ pv'.target = i.type /\ pv'.perf = i.perf /\ pv'.source = src
       /\ pv'.infeasible = pv.infeasible /\ pv'.intent = pv.intent
  BY <1>1, <1>3, <1>4, <1>6, Zenon DEF TypeOK, Annotations, Prepared
<1>11. [type |-> pv'.target, perf |-> pv'.perf] = i  BY <1>6, <1>10 DEF Intent
<1>12. /\ Moves(Excl) /\ th'[Excl].step \in {"call", "idle"}
       /\ th'[Excl].step = "call" => th'[Excl].c = i
  <2>1. CASE th' = [th EXCEPT ![Excl].step = "call", ![Excl].r = id, ![Excl].c = i]
    <3> DEFINE e == [th[Excl] EXCEPT !.step = "call", !.r = id, !.c = i]
    <3>1. e \in Thread /\ e.step = "call" /\ e.c = i  BY <1>4, <1>5, <1>6, Zenon DEF Thread, Steps
    <3>2. th' = [th EXCEPT ![Excl] = e]  BY <2>1, Zenon
    <3> HIDE DEF e
    <3> QED  BY <1>1, <3>1, <3>2, ExclFacts, ReplaceMoves, Zenon
  <2>2. CASE Leave(Excl)  BY <1>1, <2>2, ExclFacts, LeaveMoves
  <2> QED  BY <1>3, <2>1, <2>2, ZenonT(30)
<1>13. RecordedRequestIsTheOneSent' /\ RequestSource'
  <2>1. CASE Replaying
    <3>1. /\ id = pv.reqID /\ accepted' = accepted
          /\ pv'.target = pv.target /\ pv'.perf = pv.perf /\ pv'.source = pv.source
      BY <1>3, <1>9, <1>10, <2>1
    <3> QED  BY <1>2, <1>9, <1>10, <2>1, <3>1, ConstantsAssumption
             DEF RequestInv, RecordedRequestIsTheOneSent, RequestSource, Replaying
  <2>2. CASE ~Replaying
    <3>1. accepted'[id] = None  BY <1>1, <1>3, <1>4, <2>2 DEF TypeOK
    <3> QED  BY <1>2, <1>9, <1>10, <2>2, <3>1, ConstantsAssumption
             DEF RecordedRequestIsTheOneSent, RequestSource
  <2> QED  BY <2>1, <2>2
<1>14. KnowsDisk' /\ CallIntent'
  BY <1>11, <1>12 DEF KnowsDisk, Reading, ReadSteps, CallIntent
<1>15. OnlyHopeless' /\ TerminalIsDoomed'
  BY <1>2, <1>10 DEF RequestInv, OnlyHopeless, TerminalIsDoomed
<1>16. \A t \in Threads : RefusedIntent(th'[t])
  BY <1>12, ExclFacts DEF RequestInv, Moves, RefusedIntent
<1> QED  BY <1>13, <1>14, <1>15, <1>16 DEF RequestInv

LEMMA RequestAccepted ==
  ASSUME ConversionInv, RequestInv, ConvertAccepted(Excl) PROVE RequestInv'
<1> DEFINE r == th[Excl].r
<1>1. TypeOK /\ th[Excl].step = "call"  BY DEF ConversionInv, ConvertAccepted
<1>2. pv.op = Pending /\ r \in Reqs /\ pv.reqID = r
  BY <1>1, ExclFacts DEF ConversionInv, Justified, RequestInFlight
<1>3. UNCHANGED <<pv, disk>> /\ accepted[r] = None  BY DEF ConvertAccepted
<1>4. PICK o \in FreshOps :
        /\ ops' = [p \in Ops |->
                     IF p = o THEN [st |-> "running", i |-> th[Excl].c, from |-> disk.type]
                     ELSE IF p \in FreshOps THEN NoOperation ELSE ops[p]]
        /\ accepted' = [q \in Reqs |-> IF q = r THEN o
                                       ELSE IF accepted[q] \in FreshOps THEN None ELSE accepted[q]]
        /\ \/ th' = [th EXCEPT ![Excl].step = "record", ![Excl].o = o]
           \/ Leave(Excl)
  BY DEF ConvertAccepted
<1>5. o \in Ops  BY DEF FreshOps
<1>6. Tame(Excl) /\ ~Reading(th'[Excl])
  <2>1. Moves(Excl) /\ th'[Excl].step \in {"record", "idle"}
    BY <1>1, <1>4, <1>5, ExclFacts, OperationMoves, LeaveMoves, Zenon DEF Steps
  <2> QED  BY <2>1, QuietTame, QuietIsNotReading, ExclFacts DEF Quiet
<1>7. pv.source = disk.type /\ pv.source # None
  BY <1>2, <1>3, ConstantsAssumption DEF RequestInv, RequestSource
<1>8. /\ ops'[o].st = "running"
      /\ ops'[o].i = [type |-> pv.target, perf |-> pv.perf] /\ ops'[o].from = pv.source
  <2>1. ops'[o] = [st |-> "running", i |-> th[Excl].c, from |-> disk.type]  BY <1>4, <1>5
  <2>2. th[Excl].c = [type |-> pv.target, perf |-> pv.perf]  BY <1>1 DEF RequestInv, CallIntent
  <2> QED  BY <1>7, <2>1, <2>2
<1>9. accepted'[r] = o  BY <1>2, <1>4
<1>10. RecordedRequestIsTheOneSent' /\ RequestSource'
  BY <1>2, <1>3, <1>5, <1>7, <1>8, <1>9, ConstantsAssumption
     DEF RecordedRequestIsTheOneSent, RequestSource
<1>11. KnowsDisk' /\ CallIntent'  BY <1>6 DEF KnowsDisk, CallIntent, Tame
<1>12. OnlyHopeless'  BY <1>3 DEF RequestInv, OnlyHopeless
<1>13. TerminalIsDoomed'
  <2> SUFFICES ASSUME NEW p \in Ops, ops'[p].st = "terminal" PROVE ops'[p].i \in Doomed
    BY DEF TerminalIsDoomed
  <2>1. ops'[p] = ops[p]
    <3>1. p # o  BY <1>8
    <3>2. p \notin FreshOps  BY <1>4, <3>1 DEF NoOperation
    <3> QED  BY <1>4, <3>1, <3>2
  <2> QED  BY <2>1 DEF RequestInv, TerminalIsDoomed
<1> QED  BY <1>6, <1>10, <1>11, <1>12, <1>13, TameThreads, ExclFacts DEF RequestInv

LEMMA RequestExclusiveStep ==
  ASSUME ConversionInv, RequestInv, ExclusiveStep(Excl) PROVE RequestInv'
BY RequestFollow, RequestPrepare, RequestReplayed, RequestAccepted, RequestRejected,
   RequestClearRejected, RequestRecordOperation, RequestQueue, RequestModify, RequestClearRecord,
   RequestReport, RequestDisk, RequestDelete, RequestRecover, RequestWaitDetach, RequestEnsure,
   RequestFinishFailed, RequestFinish, RequestIdentify, RequestClearReconciliation, RequestLatest
   DEF ExclusiveStep

-----------------------------------------------------------------------------
\* Publish and unpublish, and the calls that get the volume lock.

LEMMA RequestNodeStep ==
  ASSUME ConversionInv, RequestInv, NEW n \in Nodes, NodeStep(n) PROVE RequestInv'
<1>1. TypeOK /\ n \in Threads  BY NodeFacts DEF ConversionInv
<1>2. th[n].step # "idle" /\ UNCHANGED <<pv, disk, ops, accepted>>
  BY DEF NodeStep, AttachDisk, WaitForAttach, DetachDisk, StartQueuedConversionOnDetach, gce
<1>3. Go(n, "wait") \/ Go(n, "hook") \/ Leave(n)
  BY DEF NodeStep, AttachDisk, WaitForAttach, DetachDisk, StartQueuedConversionOnDetach
<1>4. Tame(n)  BY <1>1, <1>3, GoMoves, QuietTame, LeaveTame DEF Steps, Quiet
<1>5. SameRequest /\ OnlyHopeless'  BY <1>2 DEF SameRequest, OnlyHopeless, RequestInv
<1> QED  BY <1>1, <1>2, <1>4, <1>5, AloneOrIdle, TameKeeps

\* A call starts with what it reads now.
LEMMA EnterTame ==
  ASSUME TypeOK, NEW t \in Threads, NEW e \in Thread, th' = [th EXCEPT ![t] = e],
         e.step \notin {"call", "refuse", "note", "rejected"},
         Reading(e) => e.d.type = disk.type /\ disk.type # None
  PROVE  Tame(t)
<1>1. Moves(t) /\ th'[t] = e  BY ReplaceMoves, Zenon
<1> QED  BY <1>1 DEF Tame, ReadsKept, RefusedIntent

LEMMA RequestCalls == ASSUME ConversionInv, RequestInv, Calls PROVE RequestInv'
<1>1. TypeOK /\ GetDisk \in DiskRead /\ NoDisk \in DiskRead  BY GetDiskType DEF ConversionInv
<1>2. UNCHANGED <<pv, gce>>  BY DEF Calls, ModifyVolume, GatedCall, PublishVolume, UnpublishVolume
<1>3. ASSUME NEW c \in Classes, c.type # Invalid, ModifyVolume(c) PROVE RequestInv'
  <2> DEFINE e == [NoThread EXCEPT !.kind = "modify", !.step = "modify", !.c = c, !.d = GetDisk]
  <2>1. c \in Intent  BY <1>3, ConversionAssumption DEF Class, Intent
  <2>2. e \in Thread /\ e.step = "modify" /\ e.d = GetDisk
    BY <1>1, <2>1, Zenon DEF Thread, DiskRead, NoThread, Kinds, Steps
  <2>3. th' = [th EXCEPT ![Excl] = e] /\ disk.type # None  BY <1>3 DEF ModifyVolume
  <2> HIDE DEF e
  <2>4. e.d.type = disk.type  BY <2>2 DEF GetDisk
  <2>5. Tame(Excl)  BY <1>1, <2>2, <2>3, <2>4, EnterTame, ExclFacts
  <2> QED  BY <1>2, <2>5, SameKeeps, ExclFacts
<1>4. ASSUME NEW k \in {"delete", "expand", "snapshot"}, GatedCall(k) PROVE RequestInv'
  <2>1. PICK d \in DiskRead :
          th' = [th EXCEPT ![Excl] = [NoThread EXCEPT !.kind = k, !.step = "check", !.d = d]]
    BY <1>1, <1>4, Zenon DEF GatedCall
  <2> DEFINE e == [NoThread EXCEPT !.kind = k, !.step = "check", !.d = d]
  <2>2. e \in Thread /\ e.step = "check" /\ e.kind = k
    BY NoIntentType, Zenon DEF Thread, DiskRead, NoThread, Kinds, Gated, Steps
  <2>3. th' = [th EXCEPT ![Excl] = e]  BY <2>1
  <2> HIDE DEF e
  <2>4. ~Reading(e)  BY <2>2 DEF Reading, ReadSteps
  <2>5. Tame(Excl)  BY <1>1, <2>2, <2>3, <2>4, EnterTame, ExclFacts
  <2> QED  BY <1>2, <2>5, SameKeeps, ExclFacts
<1>5. ASSUME NEW n \in Nodes, PublishVolume(n) PROVE RequestInv'
  <2> DEFINE e == [NoThread EXCEPT !.kind = "publish", !.step = "check", !.d = GetDisk]
  <2>1. e \in Thread /\ e.step = "check" /\ e.kind = "publish"
    BY <1>1, NoIntentType, Zenon DEF Thread, DiskRead, NoThread, Kinds, Gated, Steps
  <2>2. th' = [th EXCEPT ![n] = e] /\ th[Excl].step = "idle"
    BY <1>5 DEF PublishVolume, TryAcquireShared
  <2> HIDE DEF e
  <2>3. ~Reading(e)  BY <2>1 DEF Reading, ReadSteps
  <2>4. Tame(n)  BY <1>1, <2>1, <2>2, <2>3, EnterTame, NodeFacts
  <2> QED  BY <1>2, <2>2, <2>4, SameKeeps, NodeFacts
<1>6. ASSUME NEW n \in Nodes, UnpublishVolume(n) PROVE RequestInv'
  <2> DEFINE e == [NoThread EXCEPT !.kind = "unpublish", !.step = "detach"]
  <2>1. e \in Thread /\ e.step = "detach"
    BY <1>1, NoIntentType, Zenon DEF Thread, DiskRead, NoThread, Kinds, Steps
  <2>2. th' = [th EXCEPT ![n] = e] /\ th[Excl].step = "idle"
    BY <1>6 DEF UnpublishVolume, TryAcquireShared
  <2> HIDE DEF e
  <2>3. ~Reading(e)  BY <2>1 DEF Reading, ReadSteps
  <2>4. Tame(n)  BY <1>1, <2>1, <2>2, <2>3, EnterTame, NodeFacts
  <2> QED  BY <1>2, <2>2, <2>4, SameKeeps, NodeFacts
<1> QED  BY <1>3, <1>4, <1>5, <1>6 DEF Calls

LEMMA RequestBackground == ASSUME ConversionInv, RequestInv, Background PROVE RequestInv'
<1>1. TypeOK /\ GetDisk \in DiskRead  BY GetDiskType DEF ConversionInv
<1>2. UNCHANGED <<pv, gce>>
  BY DEF Background, RunQueuedConversion, PollConversion, ReconciliationWorker, ReconciliationWorkerExits
<1>3. CASE UNCHANGED th  BY <1>2, <1>3, StillKeeps DEF gce
<1>4. CASE RunQueuedConversion /\ ~UNCHANGED th
  <2> DEFINE e == [NoThread EXCEPT !.kind = "runner", !.step = "recover", !.d = GetDisk]
  <2>1. e \in Thread /\ e.step = "recover" /\ e.d = GetDisk
    BY <1>1, NoIntentType, Zenon DEF Thread, DiskRead, NoThread, Kinds, Steps
  <2>2. th' = [th EXCEPT ![Excl] = e] /\ disk.type # None  BY <1>4 DEF RunQueuedConversion
  <2> HIDE DEF e
  <2>3. e.d.type = disk.type  BY <2>1 DEF GetDisk
  <2>4. Tame(Excl)  BY <1>1, <2>1, <2>2, <2>3, EnterTame, ExclFacts
  <2> QED  BY <1>2, <2>4, SameKeeps, ExclFacts
<1>5. CASE PollConversion
  <2> DEFINE e == [NoThread EXCEPT !.kind = "watcher", !.step = "ensure", !.o = watcher.o, !.r = watcher.r]
  <2>1. watcher.o \in Ops /\ watcher.r \in Reqs \cup {None}
    BY <1>1, <1>5 DEF TypeOK, PollConversion
  <2>2. e \in Thread /\ e.step = "ensure"
    BY <2>1, NoIntentType, Zenon DEF Thread, NoThread, NoDisk, Kinds, Steps
  <2>3. th' = [th EXCEPT ![Excl] = e]  BY <1>5 DEF PollConversion
  <2> HIDE DEF e
  <2>4. ~Reading(e)  BY <2>2 DEF Reading, ReadSteps
  <2>5. Tame(Excl)  BY <1>1, <2>2, <2>3, <2>4, EnterTame, ExclFacts
  <2> QED  BY <1>2, <2>5, SameKeeps, ExclFacts
<1>6. CASE ReconciliationWorker /\ ~UNCHANGED th
  <2> DEFINE e == [NoThread EXCEPT !.kind = "reconcile", !.step = "identify"]
  <2>1. e \in Thread /\ e.step = "identify"
    BY NoIntentType, Zenon DEF Thread, NoThread, NoDisk, Kinds, Steps
  <2>2. th' = [th EXCEPT ![Excl] = e]  BY <1>6 DEF ReconciliationWorker
  <2> HIDE DEF e
  <2>3. ~Reading(e)  BY <2>1 DEF Reading, ReadSteps
  <2>4. Tame(Excl)  BY <1>1, <2>1, <2>2, <2>3, EnterTame, ExclFacts
  <2> QED  BY <1>2, <2>4, SameKeeps, ExclFacts
<1> QED  BY <1>3, <1>4, <1>5, <1>6 DEF Background, ReconciliationWorkerExits

-----------------------------------------------------------------------------
\* The environment.  The type of the disk changes only under an operation that
\* the PV leads to, so no thread relies on the type it read before.

LEMMA RequestSwitch ==
  ASSUME ConversionInv, RequestInv, NEW o \in Ops, ConversionSwitchesType(o) PROVE RequestInv'
<1>1. TypeOK /\ UNCHANGED <<pv, accepted, th>>  BY DEF ConversionInv, ConversionSwitchesType
<1>2. pv.op = o \/ (pv.reqID # None /\ accepted[pv.reqID] = o)
  BY DEF ConversionInv, RunningConversionIsRecorded, InProgress, ConversionSwitchesType
<1>3. \A p \in Ops : ops'[p].i = ops[p].i /\ ops'[p].from = ops[p].from
                     /\ (ops'[p].st = "terminal" => ops[p].st = "terminal")
  <2>1. ops' = [ops EXCEPT ![o] = [ops[o] EXCEPT !.st = "switched"]]
    BY Zenon DEF ConversionSwitchesType
  <2>2. \A p \in Ops : p # o => ops'[p] = ops[p]  BY <1>1, <2>1 DEF TypeOK
  <2>3. /\ ops'[o].i = ops[o].i /\ ops'[o].from = ops[o].from /\ ops'[o].st = "switched"
    BY <1>1, <2>1 DEF TypeOK, Operation
  <2> QED  BY <2>2, <2>3
<1>4. RecordedRequestIsTheOneSent' /\ TerminalIsDoomed'
  BY <1>1, <1>3 DEF RequestInv, RecordedRequestIsTheOneSent, TerminalIsDoomed
<1>5. RequestSource'
  <2>1. pv.reqID # None => accepted[pv.reqID] # None
    BY <1>2, ConstantsAssumption DEF ConversionInv, RequestIsPending
  <2> QED  BY <1>1, <2>1 DEF RequestInv, RequestSource
<1>6. KnowsDisk' /\ CallIntent'  BY <1>1, <1>2 DEF RequestInv, KnowsDisk, NoRequest, CallIntent
<1>7. OnlyHopeless'  BY <1>1 DEF RequestInv, OnlyHopeless
<1> QED  BY <1>1, <1>4, <1>5, <1>6, <1>7 DEF RequestInv

LEMMA RequestEnds ==
  ASSUME ConversionInv, RequestInv, NEW o \in Ops, ConversionEnds(o) PROVE RequestInv'
<1>1. TypeOK /\ UNCHANGED <<pv, disk, accepted, th>>  BY DEF ConversionInv, ConversionEnds
<1>2. PICK st : /\ ops' = [ops EXCEPT ![o].st = st]
                /\ st = "terminal" => ops[o].i \in Doomed
  BY DEF ConversionEnds
<1>3. ops' = [ops EXCEPT ![o] = [ops[o] EXCEPT !.st = st]]  BY <1>2, Zenon
<1>4. \A p \in Ops : p # o => ops'[p] = ops[p]  BY <1>1, <1>3 DEF TypeOK
<1>5. ops'[o].i = ops[o].i /\ ops'[o].from = ops[o].from /\ ops'[o].st = st
  BY <1>1, <1>3 DEF TypeOK, Operation
<1>6. RecordedRequestIsTheOneSent'
  BY <1>1, <1>4, <1>5 DEF RequestInv, RecordedRequestIsTheOneSent
<1>7. TerminalIsDoomed'  BY <1>2, <1>4, <1>5 DEF RequestInv, TerminalIsDoomed
<1>8. RequestSource' /\ KnowsDisk' /\ CallIntent' /\ OnlyHopeless'
  BY <1>1 DEF RequestInv, RequestSource, KnowsDisk, CallIntent, OnlyHopeless
<1> QED  BY <1>1, <1>6, <1>7, <1>8 DEF RequestInv

LEMMA RequestCloud == ASSUME ConversionInv, RequestInv, Cloud PROVE RequestInv'
<1>1. ASSUME NEW n \in Nodes, AttachOperationEnds(n) \/ UsersCatchUp(n) PROVE RequestInv'
  <2>1. disk'.type = disk.type
    BY <1>1 DEF AttachOperationEnds, UsersCatchUp, ConversionInv, TypeOK
  <2> QED  BY <1>1, <2>1, StillKeeps DEF AttachOperationEnds, UsersCatchUp
<1> QED  BY <1>1, RequestSwitch, RequestEnds DEF Cloud

LEMMA RequestCrash == ASSUME ConversionInv, RequestInv, Crash PROVE RequestInv'
<1>1. UNCHANGED <<pv, disk, ops, accepted>>  BY DEF Crash, gce
<1>2. \A t \in Threads : th'[t].step = "idle"  BY DEF Crash, NoThread
<1>3. /\ RecordedRequestIsTheOneSent' /\ RequestSource' /\ OnlyHopeless' /\ TerminalIsDoomed'
  BY <1>1 DEF RequestInv, RecordedRequestIsTheOneSent, RequestSource, OnlyHopeless, TerminalIsDoomed
<1>4. KnowsDisk' /\ CallIntent' /\ \A t \in Threads : RefusedIntent(th'[t])
  BY <1>2, ExclFacts DEF KnowsDisk, Reading, ReadSteps, CallIntent, RefusedIntent
<1> QED  BY <1>3, <1>4 DEF RequestInv

-----------------------------------------------------------------------------
\* The invariant.

LEMMA InitRequestInv == Init => RequestInv
<1> SUFFICES ASSUME Init PROVE RequestInv  OBVIOUS
<1>1. pv.op \notin Ops /\ pv.reqID = None /\ ~pv.infeasible
  <2>1. PICK a \in {NoAnnotations, [NoAnnotations EXCEPT !.op = Reconciling, !.to = disk.type]} : pv = a
    BY DEF Init
  <2>2. CASE a = NoAnnotations  BY <2>1, <2>2, ConstantsAssumption DEF NoAnnotations
  <2>3. CASE a = [NoAnnotations EXCEPT !.op = Reconciling, !.to = disk.type]
    BY <2>1, <2>3, ConstantsAssumption DEF NoAnnotations
  <2> QED  BY <2>1, <2>2, <2>3
<1>2. \A t \in Threads : th[t].step = "idle"  BY DEF Init, NoThread
<1>3. \A o \in Ops : ops[o].st = "none"  BY DEF Init, NoOperation
<1>4. RecordedRequestIsTheOneSent /\ RequestSource /\ OnlyHopeless /\ TerminalIsDoomed
  BY <1>1, <1>3 DEF RecordedRequestIsTheOneSent, RequestSource, OnlyHopeless, TerminalIsDoomed
<1>5. KnowsDisk /\ CallIntent /\ \A t \in Threads : RefusedIntent(th[t])
  BY <1>2, ExclFacts DEF KnowsDisk, Reading, ReadSteps, CallIntent, RefusedIntent
<1> QED  BY <1>4, <1>5 DEF RequestInv

LEMMA NextRequestInv == ConversionInv /\ RequestInv /\ [Next]_vars => RequestInv'
<1> SUFFICES ASSUME ConversionInv, RequestInv, [Next]_vars PROVE RequestInv'  OBVIOUS
<1>1. CASE UNCHANGED vars  BY <1>1, StillKeeps DEF vars
<1>2. ASSUME NEW c \in Classes, SetClass(c) PROVE RequestInv'
  BY <1>2, StillKeeps DEF SetClass, gce
<1>3. CASE Next
  BY <1>2, <1>3, RequestCalls, RequestExclusiveStep, RequestSharedStep, RequestApiError,
     RequestNodeStep, RequestBackground, RequestCloud, RequestCrash DEF Next
<1> QED  BY <1>1, <1>3

LEMMA RequestInvariant == Spec => []RequestInv
<1>1. ConversionInv /\ RequestInv /\ [Next]_vars => (ConversionInv /\ RequestInv)'
  BY NextConversionInv, NextRequestInv
<1> QED  BY <1>1, InitConversionInv, InitRequestInv, PTL DEF Spec

(***************************************************************************)
(* The request on the PV is the one GCE works on: a replay after a crash   *)
(* or a lost response asks for the same conversion, and the failure and    *)
(* converted-from records name what GCE was asked for                      *)
(* (startDiskTypeConversion, recordFailedConversion).                      *)
(***************************************************************************)
THEOREM RecordedRequestTheorem == Spec => []RecordedRequestIsTheOneSent
<1>1. RequestInv => RecordedRequestIsTheOneSent  BY DEF RequestInv
<1> QED  BY <1>1, RequestInvariant, PTL

(***************************************************************************)
(* No request that could succeed is ever answered from the record of a     *)
(* failure (convertDiskType, recordInfeasibleConversion).                  *)
(***************************************************************************)
THEOREM OnlyInfeasibleTheorem == Spec => []OnlyInfeasibleRequestsAreOnRecord
<1>1. RequestInv => OnlyInfeasibleRequestsAreOnRecord
  BY DEF RequestInv, OnlyHopeless, Hopeless, OnlyInfeasibleRequestsAreOnRecord
<1> QED  BY <1>1, RequestInvariant, PTL
=============================================================================
