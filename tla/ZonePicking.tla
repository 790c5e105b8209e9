---------------------------- MODULE ZonePicking ----------------------------
(***************************************************************************)
(* Where CreateVolume puts a disk: the zones it picks from the topology    *)
(* of the request, near the source of a clone, or by default; and what a   *)
(* provisioner that repeats its call meets.  The disk's key holds the zone *)
(* or region picked, so a retry finds the disk of an earlier try only if   *)
(* it picks the same place again.                                          *)
(***************************************************************************)
EXTENDS Integers, FiniteSets, SequencesExt

CONSTANTS Zones,           \* numbers, in the order of the zones' names
          RegionOf,        \* the region of each zone
          Named,           \* the regions, its own among them, whose name is part of the zone's name
          DefaultZone,
          Topologies,      \* the requests' [given, pref, req]
          Fallbacks, MaxTries

NoZone == 0
Regions == {RegionOf[z] : z \in Zones}

VARIABLES top, src, isRegional,     \* the request: topology, source, replication
          fallbackRequisiteZones,   \* a flag of the driver
          pc, zones, key,           \* one try
          disks,                    \* the disks with the volume's name
          answer,                   \* the zones the provisioner was told, if any
          tries
request == <<top, src, isRegional, fallbackRequisiteZones>>
vars == <<request, pc, zones, key, disks, answer, tries>>

(***************************************************************************)
(* The source of a clone is a volume with a zone or a region.              *)
(***************************************************************************)
NoSource == [kind |-> "none", zone |-> NoZone, region |-> ""]
Sources == {NoSource}
    \cup {[kind |-> "zonal", zone |-> z, region |-> RegionOf[z]] : z \in Zones}
    \cup {[kind |-> "regional", zone |-> NoZone, region |-> r] : r \in Regions}
UseVolumeCloning == src # NoSource

(***************************************************************************)
(* Pure helpers.  A failure is an empty set of outcomes.                   *)
(***************************************************************************)
GetRegionFromZones(zs) == {RegionOf[z] : z \in zs}
\* Mutant: all zones are kept.
PickZonesInRegionAll(region, zs) == zs
PickZonesInRegion(region, zs) == SelectSeq(zs, LAMBDA z : region \in Named[z])
\* Mutant: the zone is appended.
PrependZoneLast(zone, zs) == SelectSeq(zs, LAMBDA z : z # zone) \o <<zone>>
PrependZone(zone, zs) == <<zone>> \o SelectSeq(zs, LAMBDA z : z # zone)
Rotate(s, i) == SubSeq(s, i, Len(s)) \o SubSeq(s, 1, i - 1)
ListZones(region) == {z \in Zones : RegionOf[z] = region}

\* The topology that is left for a clone.
CloneTopology(t) ==
  LET pref == PickZonesInRegion(src.region, t.pref)
      req == {z \in t.req : src.region \in Named[z]}
      near == Range(pref) \cup req
  IN  CASE ~isRegional -> IF src.zone \in Range(t.pref) \cup t.req
                          THEN {[pref |-> <<src.zone>>, req |-> {}]} ELSE {}
        [] isRegional /\ src.kind = "regional" ->
             IF near = {} THEN {} ELSE {[pref |-> pref, req |-> req]}
        [] isRegional /\ src.kind = "zonal" ->
             IF src.zone \notin near THEN {}
             ELSE {[pref |-> PrependZone(src.zone, pref), req |-> req]}

\* Mutant: a random start although some zones are preferred.
ShiftIndexesRandom(all, pref) == 1 .. Len(all)
\* Where the sorted zones are entered: at the first preferred one, or anywhere.
ShiftIndexes(all, pref) ==
  IF pref = <<>> THEN 1 .. Len(all) ELSE {i \in 1 .. Len(all) : all[i] = pref[1]}

\* Mutant: the fallback comes first.
RemainingZonesFallback(pref, req, n) ==
  LET fallback == fallbackRequisiteZones \ Range(pref)
  IN  IF Cardinality(fallback) >= n - Len(pref) THEN fallback ELSE {}
\* The zones that fill up the preferred ones; the fallback replaces all of them.
RemainingZones(pref, req, n) ==
  LET remaining == req \ Range(pref)
      fallback == fallbackRequisiteZones \ Range(pref)
      need == n - Len(pref)
  IN  CASE Cardinality(remaining) >= need -> remaining
        [] Cardinality(remaining) < need /\ Cardinality(fallback) >= need -> fallback
        [] OTHER -> {}
FillZones(pref, req, n) ==
  LET remaining == RemainingZones(pref, req, n)
      all == SetToSortSeq(Range(pref) \cup remaining, <)
      shifted(i) == SelectSeq(Rotate(all, i), LAMBDA z : z \in remaining)
  IN  CASE n <= Len(pref) -> {SubSeq(pref, 1, n)}
        [] n > Len(pref) /\ remaining = {} -> {}
        [] OTHER -> {SubSeq(pref \o shifted(i), 1, n) : i \in ShiftIndexes(all, pref)}
PickZonesFromTopology(t, n) ==
  UNION {FillZones(c.pref, c.req, n) : c \in IF UseVolumeCloning THEN CloneTopology(t)
                                            ELSE {[pref |-> t.pref, req |-> t.req]}}

ExistingZone == IF src.kind = "zonal" THEN src.zone ELSE DefaultZone
GetNumDefaultZonesInRegion(zone, n) ==
  LET more == SetToSortSeq(ListZones(RegionOf[zone]) \ {zone}, <)
  IN  IF Len(more) < n - 1 THEN {} ELSE {<<zone>> \o SubSeq(more, 1, n - 1)}

NumZones == IF isRegional THEN 2 ELSE 1
PickZones == IF top.given THEN PickZonesFromTopology(top, NumZones)
             ELSE GetNumDefaultZonesInRegion(ExistingZone, NumZones)

(***************************************************************************)
(* One try.                                                                *)
(***************************************************************************)
Init ==
  /\ top \in Topologies /\ src \in Sources /\ isRegional \in BOOLEAN
  /\ fallbackRequisiteZones \in Fallbacks
  /\ pc = "idle" /\ zones = <<>> /\ key = <<>> /\ disks = {} /\ answer = <<>> /\ tries = 0

\* Mutant: the region of the first zone, whatever the second's.
KeyOfFirst(zs) == IF isRegional THEN {<<"region", RegionOf[zs[1]]>>} ELSE {<<"zone", zs[1]>>}
KeyOf(zs) ==
  IF isRegional THEN {<<"region", r>> : r \in {q \in Regions : GetRegionFromZones(Range(zs)) = {q}}}
                ELSE {<<"zone", zs[1]>>}
Answer(a) == answer' = a /\ pc' = "answered"

CreateSingleDeviceDisk ==
  /\ pc = "idle" /\ tries < MaxTries /\ tries' = tries + 1
  /\ \/ \E zs \in PickZones : \E k \in KeyOf(zs) :
          zones' = zs /\ key' = k /\ pc' = "picked" /\ UNCHANGED answer
     \/ /\ \A zs \in PickZones : KeyOf(zs) = {}
        /\ Answer(<<>>) /\ UNCHANGED <<zones, key>>
  /\ UNCHANGED <<request, disks>>

GetDisk ==
  /\ pc = "picked"
  /\ \/ /\ \E d \in disks : d.key = key
        /\ Answer(zones)
     \/ /\ \A d \in disks : d.key # key
        /\ pc' = "missing" /\ UNCHANGED answer
  /\ UNCHANGED <<request, zones, key, disks, tries>>

\* Both groups of location checks are made for zonal clones only.
SourceFits ==
  ~isRegional => src.kind # "regional" /\ key = <<"zone", src.zone>>
\* The source exists, has the right type, size and key, and is ready; or not.
CheckSource ==
  /\ pc = "missing"
  /\ \/ (UseVolumeCloning => SourceFits) /\ pc' = "insert" /\ UNCHANGED answer
     \/ UseVolumeCloning /\ Answer(<<>>)
  /\ UNCHANGED <<request, zones, key, disks, tries>>

\* GCE makes the disk or not, and the driver may fail to see that it did.
InsertDisk ==
  /\ pc = "insert"
  /\ \/ /\ disks' = disks \cup {[key |-> key, zones |-> zones]}
        /\ Answer(zones) \/ Answer(<<>>)
     \/ Answer(<<>>) /\ UNCHANGED disks
  /\ UNCHANGED <<request, zones, key, tries>>

\* The answer was an error, or was lost: the provisioner calls again.
Retry ==
  /\ pc = "answered" /\ pc' = "idle" /\ zones' = <<>> /\ key' = <<>>
  /\ UNCHANGED <<request, disks, answer, tries>>

Next == CreateSingleDeviceDisk \/ GetDisk \/ CheckSource \/ InsertDisk \/ Retry
Spec == Init /\ [][Next]_vars

(***************************************************************************)
(* Properties.                                                             *)
(***************************************************************************)
ZoneLists == SeqOf(Zones, 2)
TypeOK ==
  /\ pc \in {"idle", "picked", "missing", "insert", "answered"}
  /\ zones \in ZoneLists /\ answer \in ZoneLists
  /\ pc \in {"picked", "missing", "insert"} => Len(zones) = NumZones
  /\ \A d \in disks : Len(d.zones) = NumZones

\* A clone of a zonal disk is in the zone of its source, or has a replica
\* there (the prepended zone, and the source zone as the existing one).
CloneIsAtItsSource ==
  \A d \in disks : src.kind = "zonal" => src.zone \in Range(d.zones)

\* The two replicas of a regional disk are in two zones of one region, the
\* region of its key (GetRegionFromZones refuses other picks).
ReplicasDiffer ==
  \A d \in disks : isRegional => /\ d.zones[1] # d.zones[2]
                                 /\ \A i \in 1 .. 2 : d.key = <<"region", RegionOf[d.zones[i]]>>

\* Tries that have a preferred zone (left, for a clone), or no topology at
\* all, pick the same zones: they make one disk, and every answer tells its
\* zones.  Only a pick without a preferred zone is random.
HasStart ==
  top.given => IF UseVolumeCloning THEN \A c \in CloneTopology(top) : c.pref # <<>> ELSE top.pref # <<>>
RetriesMeetOneDisk ==
  HasStart => /\ Cardinality(disks) <= 1
              /\ answer # <<>> => \A d \in disks : d.zones = answer

\* A disk leaves the zones of the request for the fallback zones only when
\* the request has too few.
FallbackIsLast ==
  LET asked == Range(top.pref) \cup top.req
  IN  \A d \in disks : top.given /\ ~UseVolumeCloning /\ ~(Range(d.zones) \subseteq asked)
                         => Cardinality(asked) < NumZones

\* A regional clone that was given a topology is in the region of its source
\* (the zones of other regions are removed before the pick), where no region's name is
\* contained in the name of another region's zone (README, Observations).
PickedCloneIsInRegion ==
  \A d \in disks : isRegional /\ UseVolumeCloning /\ top.given /\ fallbackRequisiteZones = {}
                     => d.key = <<"region", src.region>>

\* A regional clone is in the region of its source ("the source disk region
\* must match the destination disk region").
\* The code does not have this property (README, Observations): without a topology the
\* region is that of the driver's default zone.
RegionalCloneIsInRegion ==
  \A d \in disks : isRegional /\ UseVolumeCloning => d.key = <<"region", src.region>>

\* A repeated call makes no second disk ("volume IDs to match for idempotent
\* CreateVolume calls").
\* The code does not have this property (README, Observations): with requisite zones
\* only, each try starts at a random one.
OneDiskPerVolume == Cardinality(disks) <= 1
=============================================================================
