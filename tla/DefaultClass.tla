---------------------------- MODULE DefaultClass ----------------------------
(***************************************************************************)
(* The handler that makes a StorageClass the default again.  A marker says *)
(* that the class was the default before an admission policy took over.    *)
(* A life of the handler waits for the API server and for its permissions, *)
(* looks for another default class, patches the class and then only holds  *)
(* its container until it is stopped: an error is not retried.             *)
(***************************************************************************)
EXTENDS Integers

CONSTANTS MaxFailures, MaxRestarts,
          MaxEdits       \* edits by an administrator

VARIABLES exists, default, marker,   \* the class; is it the default?  is the marker on it?
          other,                     \* is another class the default?
          api, access,               \* is the API server healthy?  are the permissions there?
          pc, err, otherDefaults,    \* the handler; its result; did it list another default?
          marked,                    \* was the marker there in the beginning?
          failures, restarts, edits
vars == <<exists, default, marker, other, api, access, pc, err, otherDefaults, marked,
          failures, restarts, edits>>
classes == <<exists, default, marker, other, marked>>
server == <<api, access>>

Init ==
  /\ exists = TRUE /\ marker \in BOOLEAN /\ marked = marker
  /\ default \in (IF marker THEN {FALSE} ELSE BOOLEAN) /\ other \in BOOLEAN
  /\ api = FALSE /\ access = FALSE /\ pc = "api" /\ err = FALSE /\ otherDefaults = FALSE
  /\ failures = 0 /\ restarts = 0 /\ edits = 0

To(next, e) == pc' = next /\ err' = e
Fault == failures < MaxFailures /\ failures' = failures + 1 /\ To("hold", TRUE)

(***************************************************************************)
(* One life of the handler.                                                *)
(***************************************************************************)
\* The poll of the health endpoint ends with 200 or its timeout.
WaitForAPIServer ==
  /\ pc = "api"
  /\ \/ api /\ To("access", FALSE)
     \/ ~api /\ To("hold", TRUE)
  /\ UNCHANGED <<classes, server, otherDefaults, failures, restarts, edits>>
\* Mutant: a class that may not be read is taken for one that does not exist.
AccessOrMissing ==
  /\ pc = "access"
  /\ IF access /\ exists THEN To("get", FALSE) ELSE To("hold", FALSE)
  /\ UNCHANGED <<classes, server, otherDefaults, failures, restarts, edits>>
\* Mutant: the poll for access has no timeout.
AccessForever ==
  /\ pc = "access" /\ access /\ To(IF exists THEN "get" ELSE "hold", FALSE)
  /\ UNCHANGED <<classes, server, otherDefaults, failures, restarts, edits>>
\* Forbidden is polled until the timeout; a missing class ends the run well, other errors badly.
WaitForStorageClassAccess ==
  /\ pc = "access"
  /\ \/ access /\ To(IF exists THEN "get" ELSE "hold", FALSE) /\ UNCHANGED failures
     \/ ~access /\ To("hold", TRUE) /\ UNCHANGED failures
     \/ Fault
  /\ UNCHANGED <<classes, server, otherDefaults, restarts, edits>>
GetClass ==
  /\ pc = "get"
  /\ \/ ~exists /\ To("hold", TRUE) /\ UNCHANGED failures
     \/ exists /\ To(IF marker THEN "list" ELSE "hold", FALSE) /\ UNCHANGED failures
     \/ Fault
  /\ UNCHANGED <<classes, server, otherDefaults, restarts, edits>>
\* Mutant: the target itself counts as another default.
ListAll ==
  /\ pc = "list" /\ otherDefaults' = TRUE /\ To("patch", FALSE)
  /\ UNCHANGED <<classes, server, failures, restarts, edits>>
ListClasses ==
  /\ pc = "list"
  /\ \/ otherDefaults' = other /\ To("patch", FALSE) /\ UNCHANGED failures
     \/ Fault /\ UNCHANGED otherDefaults
  /\ UNCHANGED <<classes, server, restarts, edits>>
Patched == marker' = FALSE /\ default' = (default \/ ~otherDefaults)
\* The patch works, fails, or works and its answer is lost.
PatchClass ==
  /\ pc = "patch"
  /\ \/ exists /\ Patched /\ To("hold", FALSE) /\ UNCHANGED failures
     \/ ~exists /\ To("hold", TRUE) /\ UNCHANGED <<marker, default, failures>>
     \/ Fault /\ UNCHANGED <<marker, default>>
     \/ exists /\ Fault /\ Patched
  /\ UNCHANGED <<exists, other, marked, server, otherDefaults, restarts, edits>>
RestoreDefaultAnnotation == WaitForStorageClassAccess \/ GetClass \/ ListClasses \/ PatchClass
Run == WaitForAPIServer \/ RestoreDefaultAnnotation
\* The container holds until it is stopped; it may also be killed on the way.
Restart ==
  /\ restarts < MaxRestarts /\ restarts' = restarts + 1 /\ To("api", FALSE)
  /\ UNCHANGED <<classes, server, otherDefaults, failures, edits>>

(***************************************************************************)
(* The cluster.                                                            *)
(***************************************************************************)
ServerComesUp ==
  /\ ~(api /\ access) /\ access' \in {access, api} /\ api' = TRUE
  /\ UNCHANGED <<classes, pc, err, otherDefaults, failures, restarts, edits>>
\* An administrator deletes the class, or makes another one the default where there is none.
Edit ==
  /\ edits < MaxEdits /\ edits' = edits + 1
  /\ \/ exists /\ exists' = FALSE /\ default' = FALSE /\ marker' = FALSE /\ UNCHANGED other
     \/ ~default /\ other' = ~other /\ UNCHANGED <<exists, default, marker>>
  /\ UNCHANGED <<marked, server, pc, err, otherDefaults, failures, restarts>>

Next == Run \/ Restart \/ ServerComesUp \/ Edit
Rest == pc = "hold" /\ UNCHANGED vars
Spec == Init /\ [][Next \/ Rest]_vars
\* Polls end; nothing makes the server come up or the container restart.
Fairness == WF_vars(Run)

TypeOK == pc \in {"api", "access", "get", "list", "patch", "hold"} /\ (default => exists)

\* A run that ends well leaves no marker: what is not done is reported as an error.
SuccessMeansUnmarked == pc = "hold" /\ ~err => ~marker

\* Undisturbed by an administrator, a run that ends well leaves a marked cluster with exactly
\* one default, whatever failed or was killed in earlier runs.
RestoredToOneDefault == edits = 0 /\ marked /\ pc = "hold" /\ ~err => (default # other)

\* Every run ends, with or without a healthy server and permissions.
EveryRunEnds == Fairness => ((pc # "hold") ~> (pc = "hold"))

\* The class does not become the default beside another one.
\* The code does not have this property (README, Observations): the others were
\* listed before the patch.
AtMostOneDefault == [][PatchClass => ~(default' /\ other' /\ ~default)]_vars

=============================================================================
