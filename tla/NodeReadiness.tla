--------------------------- MODULE NodeReadiness ----------------------------
(***************************************************************************)
(* The readiness condition of a node.  Each life of the node driver makes  *)
(* one attempt to reset the condition, polls the registrar until it is     *)
(* healthy, and then patches the condition to True until that works.       *)
(* An answer of the API server may be lost, and the driver and the         *)
(* registrar come and go.                                                  *)
(***************************************************************************)
EXTENDS Integers

CONSTANTS MaxCrashes, MaxFailures, MaxFlips   \* flips: changes of the registrar's health

VARIABLES condition,            \* "none", "False" or "True" on the node
          pc,                   \* "down", "reset", "wait", "patch" or "done"
          healthy,              \* the registrar answers 200
          seen, resetFailed,    \* in this life: 200 seen; the reset failed
          crashes, failures, flips
vars == <<condition, pc, healthy, seen, resetFailed, crashes, failures, flips>>

Init ==
  /\ condition = "none" /\ pc = "down" /\ healthy = FALSE /\ seen = FALSE /\ resetFailed = FALSE
  /\ crashes = 0 /\ failures = 0 /\ flips = 0

\* The patch of the condition: it works, fails, or takes effect and its answer is lost.
PatchConditionOnce(status, err) ==
  \/ ~err /\ condition' = status /\ UNCHANGED failures
  \/ /\ err /\ failures < MaxFailures /\ failures' = failures + 1
     /\ condition' \in {condition, status}

\* The driver is built with its reporter, and runs it.
NewNodeReadinessReporter ==
  /\ pc = "down" /\ pc' = "reset" /\ seen' = FALSE /\ resetFailed' = FALSE
  /\ UNCHANGED <<condition, healthy, crashes, failures, flips>>
\* Mutant: the condition is not reset.
RunWithoutReset ==
  /\ pc = "reset" /\ pc' = "wait"
  /\ UNCHANGED <<condition, healthy, seen, resetFailed, crashes, failures, flips>>
Run ==
  /\ pc = "reset" /\ pc' = "wait"
  /\ \E err \in BOOLEAN : PatchConditionOnce("False", err) /\ resetFailed' = err
  /\ UNCHANGED <<healthy, seen, crashes, flips>>
WaitForRegistrarHealthz ==
  /\ pc = "wait" /\ healthy /\ pc' = "patch" /\ seen' = TRUE
  /\ UNCHANGED <<condition, healthy, resetFailed, crashes, failures, flips>>
\* Mutant: the patch is tried once.
PatchNodeReadinessOnce ==
  /\ pc = "patch" /\ pc' = "done"
  /\ \E err \in BOOLEAN : PatchConditionOnce("True", err)
  /\ UNCHANGED <<healthy, seen, resetFailed, crashes, flips>>
PatchNodeReadinessCondition ==
  /\ pc = "patch"
  /\ \E err \in BOOLEAN : PatchConditionOnce("True", err) /\ pc' = IF err THEN "patch" ELSE "done"
  /\ UNCHANGED <<healthy, seen, resetFailed, crashes, flips>>

Crash ==
  /\ pc # "down" /\ crashes < MaxCrashes /\ crashes' = crashes + 1 /\ pc' = "down"
  /\ UNCHANGED <<condition, healthy, seen, resetFailed, failures, flips>>
Flip ==
  /\ flips < MaxFlips /\ flips' = flips + 1 /\ healthy' = ~healthy
  /\ UNCHANGED <<condition, pc, seen, resetFailed, crashes, failures>>

Steps == NewNodeReadinessReporter \/ Run \/ WaitForRegistrarHealthz \/ PatchNodeReadinessCondition
Next == Steps \/ Crash \/ Flip
Rest == pc \in {"wait", "done"} /\ UNCHANGED vars
Spec == Init /\ [][Next \/ Rest]_vars
\* Kubelet restarts the driver, and a live driver goes on polling and patching.
Fairness == WF_vars(Steps)

TypeOK ==
  /\ condition \in {"none", "False", "True"} /\ pc \in {"down", "reset", "wait", "patch", "done"}

\* While the driver runs, a node is marked ready only if this life of the driver has seen the
\* registrar healthy, or its one attempt to reset the condition failed: an earlier life's
\* True does not carry over.
TrueMeansSeen ==
  condition = "True" => seen \/ resetFailed \/ pc \in {"down", "reset"}

\* With the registrar healthy for good the node is marked ready for good, in spite of failed
\* patches and restarts.
TrueInTheEnd == Fairness /\ <>[]healthy => <>[](condition = "True")

=============================================================================
