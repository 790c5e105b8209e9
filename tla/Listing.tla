------------------------------ MODULE Listing -------------------------------
(***************************************************************************)
(* ListVolumes and ListSnapshots.  A call without a token lists everything *)
(* at the API, page by page and without a lock, and then replaces the list *)
(* and the tokens that all callers share; a call with a token is served    *)
(* from that list.  Disks come and go and are attached and detached        *)
(* meanwhile.  Snapshots and images are disks that are never attached.     *)
(***************************************************************************)
EXTENDS Integers, FiniteSets, Sequences, SequencesExt

CONSTANTS Clients, Disks, Nodes,
          PageOf,      \* the page of the API a disk is on
          MultiZone,   \* disks with the multi-zone label
          Kinds,       \* "volumes", "snapshots"
          Instances,   \* values of UseInstancesAPIForPublishedNodes
          MaxEntries,  \* max_entries of the requests
          MaxChanges

VARIABLES kind, instances,
          present, uses,              \* the disks, and the nodes that use each
          entries, seen,              \* volumeEntries, volumeEntriesSeen
          pc, page, listed, nodes,    \* the listing of a client so far
          token, got, own,            \* its token, what it was given, the list it started
          was, always,                \* nodes that used a disk at some time / all the time since
          changes
vars == <<kind, instances, present, uses, entries, seen, pc, page, listed, nodes, token, got, own,
          was, always, changes>>
config == <<kind, instances>>
shared == <<entries, seen>>
fetch == <<page, listed, nodes>>
reply == <<token, got, own>>
cloud == <<present, uses, was, always, changes>>

Handle == "multi-zone"
Ids == Disks \cup {Handle}
NoNodes == [d \in Ids |-> {}]

Init ==
  /\ kind \in Kinds /\ instances \in Instances
  /\ present \in SUBSET Disks /\ uses \in [Disks -> SUBSET Nodes] /\ \A d \in Disks \ present : uses[d] = {}
  /\ entries = << >> /\ seen = << >>
  /\ pc = [c \in Clients |-> "idle"] /\ page = [c \in Clients |-> 1]
  /\ listed = [c \in Clients |-> {}] /\ nodes = [c \in Clients |-> NoNodes]
  /\ token = [c \in Clients |-> 0] /\ got = [c \in Clients |-> << >>] /\ own = [c \in Clients |-> << >>]
  /\ was = [c \in Clients |-> uses] /\ always = [c \in Clients |-> uses]
  /\ changes = 0

List(c) ==
  /\ pc[c] = "idle" /\ pc' = [pc EXCEPT ![c] = "list"]
  /\ page' = [page EXCEPT ![c] = 1] /\ listed' = [listed EXCEPT ![c] = {}]
  /\ nodes' = [nodes EXCEPT ![c] = NoNodes]
  /\ token' = [token EXCEPT ![c] = 0] /\ got' = [got EXCEPT ![c] = << >>]
  /\ own' = [own EXCEPT ![c] = << >>]
  /\ was' = [was EXCEPT ![c] = uses] /\ always' = [always EXCEPT ![c] = uses]
  /\ UNCHANGED <<config, shared, present, uses, changes>>

\* One request of a listing and its answer.  The requests for disks and
\* instances have the token of the page before; those for snapshots and images do not.
OnPage(p) == {d \in present : PageOf[d] = p}
LastPage(p) == \A d \in present : PageOf[d] <= p
\* Mutant: the token of the page is not sent.
RequestedFirst(c) == 1
Requested(c) == IF kind = "volumes" THEN page[c] ELSE 1
RequestPage(c) ==
  /\ pc[c] = "list" /\ pc' = [pc EXCEPT ![c] = "requested"]
  /\ UNCHANGED <<config, shared, fetch, reply, cloud>>
ListPage(c) ==
  /\ pc[c] = "requested"
  /\ LET p == Requested(c)
     IN  /\ listed' = [listed EXCEPT ![c] = @ \cup OnPage(p)]
         /\ nodes' = [nodes EXCEPT ![c] =
                        [d \in Ids |-> IF d \in OnPage(p) /\ ~instances THEN uses[d] ELSE @[d]]]
         /\ page' = [page EXCEPT ![c] = p + 1]
         /\ pc' = [pc EXCEPT ![c] = IF ~LastPage(p) THEN "list"
                                    ELSE IF instances THEN "instances" ELSE "serve"]
  /\ UNCHANGED <<config, shared, reply, cloud>>
\* Mutant: only the last instance of a disk is kept.
ListInstancesLast(c) ==
  /\ pc[c] = "instances" /\ pc' = [pc EXCEPT ![c] = "serve"]
  /\ nodes' = [nodes EXCEPT ![c] = [d \in Ids |-> IF d = Handle \/ uses[d] = {} THEN {} ELSE {CHOOSE n \in uses[d] : TRUE}]]
  /\ listed' = [listed EXCEPT ![c] = @ \cup {d \in Disks : uses[d] # {}}]
  /\ UNCHANGED <<config, shared, page, reply, cloud>>
\* ListInstances: also disks that were not listed have entries.
ListInstances(c) ==
  /\ pc[c] = "instances" /\ pc' = [pc EXCEPT ![c] = "serve"]
  /\ nodes' = [nodes EXCEPT ![c] = [d \in Ids |-> IF d = Handle THEN {} ELSE uses[d]]]
  /\ listed' = [listed EXCEPT ![c] = @ \cup {d \in Disks : uses[d] # {}}]
  /\ UNCHANGED <<config, shared, page, reply, cloud>>

\* A request fails and with it the call.
Fails(c) ==
  /\ pc[c] \in {"requested", "instances"} /\ pc' = [pc EXCEPT ![c] = "aborted"]
  /\ UNCHANGED <<config, shared, fetch, reply, cloud>>

\* disksAndInstancesToVolumeEntries.  instanceIds is made with one blank for every
\* user and then appended to.
Entry(id, users) == [id |-> id, nodes |-> users, blanks |-> IF instances THEN 0 ELSE Cardinality(users)]
Entries(c) ==
  {Entry(d, nodes[c][d]) : d \in listed[c]}
    \cup (IF listed[c] \cap MultiZone = {} THEN {}
          ELSE {Entry(Handle, UNION {nodes[c][d] : d \in listed[c] \cap MultiZone})})

NewToken == CHOOSE t \in 1..(Cardinality(Ids) + 2 * Cardinality(Clients)) :
              t \notin DOMAIN seen /\ \A c \in Clients : token[c] # t
\* Mutant: a page begins with the last entry of the one before.
PartOverlaps(list, offset) == SubSeq(list, IF offset = 0 THEN 1 ELSE offset, Min({offset + MaxEntries, Len(list)}))
Part(list, offset) == SubSeq(list, offset + 1, Min({offset + MaxEntries, Len(list)}))
NoTokens == << >>
\* The part of the list from an offset on, and a token for the rest.
Serve(c, list, offset, tokens) ==
  LET more == offset + MaxEntries < Len(list)
  IN  /\ entries' = list
      /\ seen' = IF more THEN [t \in DOMAIN tokens \cup {NewToken} |-> IF t = NewToken THEN offset + MaxEntries ELSE tokens[t]]
                 ELSE tokens
      /\ got' = [got EXCEPT ![c] = @ \o Part(list, offset)]
      /\ token' = [token EXCEPT ![c] = IF more THEN NewToken ELSE 0]
      /\ pc' = [pc EXCEPT ![c] = IF more THEN "next" ELSE "done"]
      /\ UNCHANGED <<config, fetch, cloud>>
\* The entries come from a map, in any order.
ServeFirst(c) ==
  /\ pc[c] = "serve"
  /\ \E list \in SetToSeqs(Entries(c)) : Serve(c, list, 0, NoTokens) /\ own' = [own EXCEPT ![c] = list]
ServeNext(c) ==
  /\ pc[c] = "next"
  /\ IF token[c] \in DOMAIN seen THEN Serve(c, entries, seen[token[c]], seen)
     ELSE /\ pc' = [pc EXCEPT ![c] = "aborted"] /\ token' = [token EXCEPT ![c] = 0]
          /\ UNCHANGED <<config, shared, fetch, got, cloud>>
  /\ UNCHANGED own
Again(c) ==
  /\ pc[c] \in {"done", "aborted"} /\ pc' = [pc EXCEPT ![c] = "idle"]
  /\ UNCHANGED <<config, shared, fetch, reply, cloud>>

\* The cloud changes.
Listening(c) == pc[c] \in {"list", "requested", "instances", "serve"}
Change(disks, users) ==
  /\ changes < MaxChanges /\ changes' = changes + 1
  /\ present' = disks /\ uses' = users
  /\ was' = [c \in Clients |-> IF Listening(c) THEN [d \in Disks |-> was[c][d] \cup users[d]] ELSE was[c]]
  /\ always' = [c \in Clients |-> IF Listening(c) THEN [d \in Disks |-> always[c][d] \cap users[d]] ELSE always[c]]
  /\ UNCHANGED <<config, shared, fetch, reply, pc>>
Create(d) == d \notin present /\ Change(present \cup {d}, uses)
Delete(d) == d \in present /\ uses[d] = {} /\ Change(present \ {d}, uses)
Attach(d, n) == /\ kind = "volumes" /\ d \in present /\ n \notin uses[d]
                /\ Change(present, [uses EXCEPT ![d] = @ \cup {n}])
Detach(d, n) == n \in uses[d] /\ Change(present, [uses EXCEPT ![d] = @ \ {n}])

Answer(c) == RequestPage(c) \/ ListPage(c) \/ ListInstances(c) \/ ServeFirst(c) \/ ServeNext(c)
Next == \/ \E c \in Clients : List(c) \/ Answer(c) \/ Fails(c) \/ Again(c)
        \/ \E d \in Disks : Create(d) \/ Delete(d) \/ \E n \in Nodes : Attach(d, n) \/ Detach(d, n)
Spec == Init /\ [][Next]_vars
\* The driver answers and a client that has a token uses it.
Fairness == \A c \in Clients : WF_vars(Answer(c))

(***************************************************************************)
(* Properties.                                                             *)
(***************************************************************************)
\* The tokens point into the shared list, so a copy of the rest never panics.
TypeOK ==
  /\ present \subseteq Disks /\ \A d \in Disks : uses[d] # {} => d \in present
  /\ \A t \in DOMAIN seen : seen[t] \in 1..(Len(entries) - 1)
  /\ \A c \in Clients : pc[c] \in {"idle", "list", "requested", "instances", "serve", "next", "done", "aborted"}

\* A client that reads all pages was given exactly the list that its first call made,
\* whatever other clients list in between; otherwise its token is refused.
PagesAreOfOneListing == \A c \in Clients : pc[c] = "done" => got[c] = own[c]

DisksOf(c, id) == IF id = Handle THEN {own[c][i].id : i \in DOMAIN own[c]} \cap MultiZone ELSE {id}
\* A volume is reported as published to every node that used it all the time of the
\* listing, and only to nodes that used it at some time of it; a multi-zone handle is
\* used where one of its disks is.
PublishedNodesAreTrue ==
  \A c \in Clients : pc[c] \in {"next", "done"} =>
    \A i \in DOMAIN own[c] : LET e == own[c][i]
                                 ds == DisksOf(c, e.id)
      IN  /\ UNION {always[c][d] : d \in ds} \subseteq e.nodes
          /\ e.nodes \subseteq UNION {was[c][d] : d \in ds}

\* Every listing is answered. (Not of snapshots, whose loop asks for the first page again:
\* README, Observations.)
ListingEnds ==
  Fairness => \A c \in Clients : (pc[c] = "list") ~> (pc[c] \in {"done", "aborted"})

\* Published node ids are ids of nodes.
\* The code does not have this property (README, Observations): instanceIds is made
\* with a length and then appended to.
PublishedNodeIdsAreNodes == \A i \in DOMAIN entries : entries[i].blanks = 0

=============================================================================
