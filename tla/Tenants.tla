------------------------------ MODULE Tenants -------------------------------
(***************************************************************************)
(* The GCE clients of tenants.  An informer's handlers keep a map from     *)
(* projects to clients under a mutex; calls of the driver look their       *)
(* project up in it twice, without that mutex: is it there, and what is    *)
(* it.  Go ends a process that reads a map while it is written, or that    *)
(* uses a nil client; a new process starts with an empty map.              *)
(***************************************************************************)
EXTENDS Integers, SequencesExt

CONSTANTS Names, Projects, Project,   \* tenants and the project of each
          None, Default,              \* no client; the client of the driver's own project
          MaxCalls, MaxFailures,
          MaxMissed                   \* deletions the informer learns of by a new list only

VARIABLES present, gone,      \* tenants in the cluster, and deleted ones
          events,             \* what the informer has to deliver
          tenantServiceMap,   \* project -> the tenant its client was made for
          writing,            \* a handler is writing the map
          pc, project, service,   \* a call: "idle", "found" or "use"; its project and client
          crashed, calls, failures, missed, failed
vars == <<present, gone, events, tenantServiceMap, writing, pc, project, service,
          crashed, calls, failures, missed, failed>>
cluster == <<present, gone>>
call == <<pc, project, service>>

Init ==
  /\ present = {} /\ gone = {} /\ events = <<>> /\ tenantServiceMap = [p \in Projects |-> None]
  /\ writing = FALSE /\ pc = "idle" /\ project \in {CHOOSE p \in Projects : TRUE} /\ service = None
  /\ crashed = FALSE /\ calls = 0 /\ failures = 0 /\ missed = 0 /\ failed = {}

(***************************************************************************)
(* Tenants come and go; one project has one tenant at a time.              *)
(***************************************************************************)
CreateTenant(t) ==
  /\ t \notin present \cup gone /\ \A u \in present : Project[u] # Project[t]
  /\ present' = present \cup {t} /\ events' = Append(events, <<"add", t>>)
  /\ UNCHANGED <<gone, tenantServiceMap, writing, call, crashed, calls, failures, missed, failed>>
DeleteTenant(t) ==
  /\ t \in present /\ present' = present \ {t} /\ gone' = gone \cup {t}
  /\ \/ events' = Append(events, <<"delete", t>>) /\ UNCHANGED missed
     \/ /\ missed < MaxMissed /\ missed' = missed + 1
        /\ events' = Append(events, <<"tombstone", t>>)
  /\ UNCHANGED <<tenantServiceMap, writing, call, crashed, calls, failures, failed>>

(***************************************************************************)
(* The handlers, with the mutex held.                                      *)
(***************************************************************************)
\* A tombstone is not the object and cannot be read.
GetMetadataFromTenantCR(event) == event[1] # "tombstone"
Deliver == ~crashed /\ ~writing /\ events # <<>>
Skip == events' = Tail(events) /\ UNCHANGED <<tenantServiceMap, writing, failures, failed>>
\* Mutant: one client for all tenants.
AddFuncOne(t) ==
  \/ (\E p \in Projects : tenantServiceMap[p] # None) /\ Skip
  \/ /\ \A p \in Projects : tenantServiceMap[p] = None
     /\ events' = Tail(events) /\ writing' = TRUE
     /\ tenantServiceMap' = [tenantServiceMap EXCEPT ![Project[t]] = t] /\ UNCHANGED <<failures, failed>>
AddFunc(t) ==
  \/ tenantServiceMap[Project[t]] # None /\ Skip
  \/ /\ tenantServiceMap[Project[t]] = None /\ failures < MaxFailures
     /\ failures' = failures + 1 /\ failed' = failed \cup {t} /\ events' = Tail(events)
     /\ UNCHANGED <<tenantServiceMap, writing>>
  \/ /\ tenantServiceMap[Project[t]] = None /\ events' = Tail(events) /\ writing' = TRUE
     /\ tenantServiceMap' = [tenantServiceMap EXCEPT ![Project[t]] = t] /\ UNCHANGED <<failures, failed>>
\* Mutant: the client stays when its tenant goes.
DeleteFuncKeeps(t) == Skip
DeleteFunc(t) ==
  IF tenantServiceMap[Project[t]] = None THEN Skip
  ELSE /\ events' = Tail(events) /\ writing' = TRUE /\ UNCHANGED <<failures, failed>>
       /\ tenantServiceMap' = [tenantServiceMap EXCEPT ![Project[t]] = None]
RegisterTenantEventHandlers ==
  /\ Deliver
  /\ LET event == Head(events)
     IN \/ ~GetMetadataFromTenantCR(event) /\ Skip
        \/ event[1] = "add" /\ AddFunc(event[2])
        \/ event[1] = "delete" /\ DeleteFunc(event[2])
  /\ UNCHANGED <<cluster, call, crashed, calls, missed>>
Unlock ==
  /\ writing /\ writing' = FALSE
  /\ UNCHANGED <<cluster, events, tenantServiceMap, call, crashed, calls, failures, missed, failed>>

(***************************************************************************)
(* A call that attaches, detaches or reads an instance in a project.       *)
(***************************************************************************)
\* A read of the map while it is written ends the process, or is lucky.
RaceFree == ~writing
LookUp(p) ==
  /\ ~crashed /\ pc = "idle" /\ calls < MaxCalls /\ calls' = calls + 1 /\ project' = p
  /\ crashed' \in {FALSE, ~RaceFree}
  /\ IF tenantServiceMap[p] = None THEN pc' = "use" /\ service' = Default
                                   ELSE pc' = "found" /\ UNCHANGED service
  /\ UNCHANGED <<cluster, events, tenantServiceMap, writing, failures, missed, failed>>
Fetch ==
  /\ ~crashed /\ pc = "found" /\ pc' = "use" /\ service' = tenantServiceMap[project]
  /\ crashed' \in IF tenantServiceMap[project] = None THEN {TRUE} ELSE {FALSE, ~RaceFree}
  /\ UNCHANGED <<cluster, events, tenantServiceMap, writing, project, calls, failures, missed, failed>>
Use ==
  /\ ~crashed /\ pc = "use" /\ pc' = "idle" /\ service' = None
  /\ UNCHANGED <<cluster, events, tenantServiceMap, writing, project, crashed, calls, failures, missed, failed>>

\* The new process starts with an empty map and lists the tenants.
Restart ==
  /\ crashed /\ crashed' = FALSE /\ tenantServiceMap' = [p \in Projects |-> None] /\ writing' = FALSE
  /\ events' = SetToSeq({<<"add", t>> : t \in present}) /\ failed' = {} /\ pc' = "idle" /\ service' = None
  /\ UNCHANGED <<cluster, project, calls, failures, missed>>

Handlers == RegisterTenantEventHandlers \/ Unlock
Next ==
  \/ Handlers \/ Restart \/ Fetch \/ Use \/ \E p \in Projects : LookUp(p)
  \/ \E t \in Names : CreateTenant(t) \/ DeleteTenant(t)
Rest == events = <<>> /\ ~writing /\ ~crashed /\ pc = "idle" /\ UNCHANGED vars
Spec == Init /\ [][Next \/ Rest]_vars
\* The informer delivers, handlers return, and a crashed driver is restarted.
Fairness == WF_vars(RegisterTenantEventHandlers) /\ WF_vars(Unlock) /\ WF_vars(Restart)

(***************************************************************************)
(* Properties.                                                             *)
(***************************************************************************)
TypeOK ==
  /\ tenantServiceMap \in [Projects -> Names \cup {None}] /\ pc \in {"idle", "found", "use"}
  /\ service \in Names \cup {None, Default}

\* When every event has been handled, and none was missed, each project has the client of its
\* present tenant, and a project without one has none, also after a project changed hands.
SettledMapIsRight ==
  ~crashed /\ events = <<>> /\ missed = 0
    => \A p \in Projects : \A t \in Names :
         tenantServiceMap[p] = t <=> t \in present \ failed /\ Project[t] = p

\* A tenant that stays, and whose client could be made, has it for good in the end, in spite of
\* crashes.
ServedInTheEnd ==
  Fairness => \A t \in Names :
    <>[](t \in present \ failed /\ missed = 0) => <>[](tenantServiceMap[Project[t]] = t)

\* No call ends the process: a project that was found in the map has a client.
\* The code does not have this property (README, Observations): calls read the map
\* twice and without the mutex.
NoCallCrashes == ~crashed

=============================================================================
