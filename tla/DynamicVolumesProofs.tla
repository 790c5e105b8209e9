------------------------ MODULE DynamicVolumesProofs ------------------------
(***************************************************************************)
(* What an answered dynamic volume promises, proved for all machines,      *)
(* parameters, sources and classes and any number of retries and moves.    *)
(***************************************************************************)
EXTENDS DynamicVolumes, TLAPS

Plain == source = "none" /\ vac = "none"

\* The disk that is about to be inserted is not there yet, so no disk of an answered
\* volume is replaced; the type of a call in progress, and of the volume it answers,
\* is the one selected for the node that is still preferred.
AnswerInv ==
  /\ DOMAIN disks = {"zone", "region"}
  /\ preference \in {HD, PD}
  /\ call = [pc |-> call.pc, type |-> call.type, keys |-> call.keys]
  /\ call # Idle => volume = NoVolume
  /\ call.pc = "insert" => disks[Place] = NoDisk
  /\ (call # Idle /\ Plain) => call.type = selectDiskTypeFromTopologies
  /\ volume # NoVolume => /\ volume.at \in {"zone", "region"}
                          /\ volume.type = disks[volume.at].type
                          /\ Plain => volume.type = selectDiskTypeFromTopologies

LEMMA InitAnswerInv == Init => AnswerInv
  BY DEF Init, AnswerInv, Idle, NoVolume

\* A place is one of two.
LEMMA PlaceType == Place \in {"zone", "region"}
  BY DEF Place

LEMMA CreateAnswerInv ==
  ASSUME AnswerInv, NEW taken, CreateVolume(taken) PROVE AnswerInv'
<1>1. CASE "type" \notin taken \/ ~Selectable
  BY <1>1 DEF CreateVolume, Return, AnswerInv, request, Idle, Place, Plain,
              selectDiskTypeFromTopologies, NoVolume
<1>2. CASE ~("type" \notin taken \/ ~Selectable)
  BY <1>2 DEF CreateVolume, AnswerInv, request, Idle, Place, Plain, SelectDisk,
              selectDiskTypeFromTopologies, NoVolume
<1>3. QED BY <1>1, <1>2

LEMMA GetDiskAnswerInv == ASSUME AnswerInv, GetDisk PROVE AnswerInv'
<1> USE DEF AnswerInv, request, Idle, Plain, selectDiskTypeFromTopologies
<1>0. call # Idle /\ UNCHANGED <<disks, source, vac, machine, preference>>
  BY DEF GetDisk
<1>1. CASE \E code : Return(code) /\ UNCHANGED volume
  BY <1>0, <1>1 DEF Return
<1>2. CASE disks[Place] = NoDisk /\ call' = [call EXCEPT !.pc = "insert"] /\ UNCHANGED volume
  <2>1. call' = [pc |-> "insert", type |-> call.type, keys |-> call.keys]
    BY <1>2
  <2>2. Place' = Place
    BY <2>1 DEF Place
  <2>3. QED BY <1>0, <1>2, <2>1, <2>2
<1>3. CASE disks[Place] # NoDisk /\ ValidateDiskParameters(disks[Place]) = "OK" /\ Answer
  <2>1. disks[Place].type = call.type
    BY <1>3 DEF ValidateDiskParameters
  <2>2. volume' = [at |-> Place, type |-> call.type] /\ call' = Idle
    BY <1>3 DEF Answer, Return
  <2>3. QED BY <1>0, <2>1, <2>2, PlaceType
<1>4. QED BY <1>1, <1>2, <1>3 DEF GetDisk

LEMMA InsertAnswerInv == ASSUME AnswerInv, InsertDisk PROVE AnswerInv'
<1> USE DEF AnswerInv, request, Idle, Plain, selectDiskTypeFromTopologies
<1>0. call # Idle /\ volume = NoVolume /\ UNCHANGED <<source, vac, machine, preference>>
  BY DEF InsertDisk
<1>1. call' = Idle /\ DOMAIN disks' = {"zone", "region"}
  BY DEF InsertDisk, Answer, Return
<1>2. CASE UNCHANGED volume
  BY <1>0, <1>1, <1>2
<1>3. CASE /\ disks' = [disks EXCEPT ![Place] = [type |-> call.type, keys |-> call.keys]]
           /\ Answer
  <2>1. volume' = [at |-> Place, type |-> call.type]
    BY <1>3 DEF Answer
  <2>2. disks'[Place].type = call.type
    BY <1>3, PlaceType
  <2>3. QED BY <1>0, <1>1, <2>1, <2>2, PlaceType
<1>4. QED BY <1>2, <1>3 DEF InsertDisk

LEMMA NextAnswerInv == AnswerInv /\ [Next]_vars => AnswerInv'
<1> SUFFICES ASSUME AnswerInv, [Next]_vars PROVE AnswerInv'
  OBVIOUS
<1>1. CASE \E taken \in Extracted : CreateVolume(taken)
  BY <1>1, CreateAnswerInv
<1>2. CASE GetDisk
  BY <1>2, GetDiskAnswerInv
<1>3. CASE InsertDisk
  BY <1>3, InsertAnswerInv
<1>4. CASE PreferAnotherNode
  BY <1>4 DEF PreferAnotherNode, AnswerInv, request, Idle, Place, Plain, NoVolume
<1>5. CASE UNCHANGED vars
  BY <1>5 DEF vars, request, AnswerInv, Place, Plain, selectDiskTypeFromTopologies
<1>6. QED BY <1>1, <1>2, <1>3, <1>4, <1>5 DEF Next

\* The type in the topology of an answered volume is that of its disk.
THEOREM TopologyTheorem == Spec => []TopologyNamesTheDisk
<1>1. AnswerInv => TopologyNamesTheDisk
  BY DEF AnswerInv, TopologyNamesTheDisk
<1>2. QED BY InitAnswerInv, NextAnswerInv, <1>1, PTL DEF Spec

\* An answered volume that is neither a clone nor of a named type has a type that
\* the preferred node supports, if it supports either of the two.
THEOREM SuitsTheNodeTheorem == Spec => []SuitsTheNode
<1>1. AnswerInv => SuitsTheNode
  BY DEF AnswerInv, SuitsTheNode, Plain, selectDiskTypeFromTopologies
<1>2. QED BY InitAnswerInv, NextAnswerInv, <1>1, PTL DEF Spec
=============================================================================
