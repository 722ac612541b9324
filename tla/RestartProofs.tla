--------------------------- MODULE RestartProofs ---------------------------
(***************************************************************************)
(* Proofs about what the device manager keeps over deletes, crashes and    *)
(* restarts, on top of the invariant of DeviceManagerProofs.  They assume  *)
(* that a read of a freed record still returns the record's own id.        *)
(***************************************************************************)
EXTENDS Restarts, DeviceManagerProofs

-----------------------------------------------------------------------------
(* Sections and endpoints.                                                 *)

LEMMA PublishedSections ==
  ASSUME NEW index, NEW id, NEW kind, NEW deviceType, NEW name,
         Published(index, id, kind, deviceType, name)
  PROVE  /\ values' = SetSection(values, id, SectionOf(kind, name))
         /\ file'.sections = values'
         /\ LiveIds' = LiveIds \cup {id}
<1> DEFINE new == NewRecord(index, id, deviceType, name)
<1>1. epList' = epList \cup {new} /\ new.endpointId = id
  BY NewRecordFields DEF Published, AddDeviceEndpoint, NewRecord
<1> HIDE DEF new
<1>2. LiveIds' = LiveIds \cup {id}
  BY <1>1 DEF LiveIds
<1>3. QED
  BY <1>2 DEF Published, AddDeviceEndpoint, Save, WholeFile

LEMMA DeletedSections ==
  ASSUME FreedReads = {}, NEW kind, NEW id, DelDeviceEndpoint(kind, id)
  PROVE  /\ values' = DelSection(values, id)
         /\ file'.sections = values'
         /\ LiveIds' = LiveIds \ {id}
         /\ UNCHANGED devList
<1>1. /\ epList' = {f \in epList : f.endpointId # id}
      /\ DelDevice(kind, id, {f \in epList : f.endpointId # id})
      /\ values' = DelSection(values, id)
      /\ file' = WholeFile(values')
  BY DEF DelDeviceEndpoint, DelDeviceList, FreedRead, Save
<1>2. QED
  BY <1>1 DEF LiveIds, DelDevice, WholeFile

LEMMA RunsOn ==
  ASSUME [Next]_vars, phase = "run", phase' = "run"
  PROVE  \/ \E kind \in Commands : Gen(kind)
         \/ \E kind \in Commands, id \in Ids : DelCompletes(kind, id)
         \/ UNCHANGED vars
BY DEF Next, Boot, RestoreSection, RestoreEnds, Del, DelOutOfBounds, AttributeCallback,
       Crash, CrashInWrite, PowerCycle, ProcessEnds

\* A running process never makes a section outlive its endpoint: what the
\* operator deletes is not published again by the next start.
THEOREM DeletedNeverReturns ==
  ASSUME FreedReads = {}
  PROVE  Spec => DeletedStaysDeleted
<1>1. ManagerInv /\ [Next]_vars
        => [phase = "run" /\ phase' = "run" => Orphans' \subseteq Orphans]_vars
  <2> SUFFICES ASSUME ManagerInv, [Next]_vars, phase = "run", phase' = "run"
               PROVE  Orphans' \subseteq Orphans
    OBVIOUS
  <2>1. CASE UNCHANGED <<memory, file>>
    BY <2>1 DEF memory, Orphans, LiveIds
  <2>2. ASSUME NEW kind \in Commands, Gen(kind)
        PROVE  Orphans' \subseteq Orphans
    <3>1. ASSUME NEW id \in Ids, NEW index \in Slots,
                 Published(index, id, kind, GenDeviceType[kind], NewName(kind, devIndex))
          PROVE  Orphans' \subseteq Orphans
      <4>1. /\ DOMAIN values' = DOMAIN values \cup {id}
            /\ LiveIds' = LiveIds \cup {id}
        BY <3>1, PublishedSections DEF SetSection
      <4>2. QED
        BY <4>1 DEF Orphans
    <3>2. QED
      BY <2>1, <2>2, <3>1, PublishOutcome DEF Gen, ManagerInv
  <2>3. ASSUME NEW kind \in Commands, NEW id \in Ids, DelCompletes(kind, id)
        PROVE  Orphans' \subseteq Orphans
    <3>1. DOMAIN values' = DOMAIN values \ {id} /\ LiveIds' = LiveIds \ {id}
      BY <2>3, DeletedSections DEF DelCompletes, DelSection
    <3>2. QED
      BY <3>1 DEF Orphans
  <2>4. QED
    BY <2>1, <2>2, <2>3, RunsOn DEF vars
<1>2. QED
  BY <1>1, ManagerAlways, PTL DEF Spec, DeletedStaysDeleted

-----------------------------------------------------------------------------
(* Restarts.  Sections have numbers of the dynamic range only, so that a   *)
(* section that is replayed always finds a free endpoint.                  *)

Ranged(store) ==
  /\ DOMAIN store \subseteq Ids
  /\ store = [i \in DOMAIN store |-> store[i]]

SectionsInRange ==
  /\ Ranged(values)
  /\ Ranged(file.sections)
  /\ Ranged(loaded)

LEMMA EmptyRanged == Ranged(EmptyStore) /\ DOMAIN EmptyStore = {}
BY DEF Ranged, EmptyStore

LEMMA SetSectionRanged ==
  ASSUME NEW store, DOMAIN store \subseteq Ids, NEW i \in Ids, NEW section
  PROVE  Ranged(SetSection(store, i, section))
BY DEF Ranged, SetSection

LEMMA DelSectionRanged ==
  ASSUME NEW store, DOMAIN store \subseteq Ids, NEW i
  PROVE  Ranged(DelSection(store, i))
BY DEF Ranged, DelSection

LEMMA TornFilesRanged ==
  ASSUME NEW store, DOMAIN store \subseteq Ids, NEW f \in TornFiles(store)
  PROVE  Ranged(f.sections)
<1>1. PICK c \in DOMAIN store :
        f \in {WholeFile(SectionsBefore(store, c)), UnreadableFile}
              \cup {WholeFile(SetSection(SectionsBefore(store, c), c, s)) :
                      s \in CutSections(store[c])}
  BY DEF TornFiles
<1>2. Ranged(SectionsBefore(store, c)) /\ DOMAIN SectionsBefore(store, c) \subseteq Ids
  BY DEF SectionsBefore, Ranged
<1>3. c \in Ids
  BY <1>1
<1>4. \A s : Ranged(SetSection(SectionsBefore(store, c), c, s))
  BY <1>2, <1>3, SetSectionRanged
<1>5. \A store2 : WholeFile(store2).sections = store2
  BY DEF WholeFile
<1>6. UnreadableFile.sections = EmptyStore
  BY DEF UnreadableFile
<1>7. CASE f \in {WholeFile(SectionsBefore(store, c)), UnreadableFile}
  BY <1>7, <1>2, <1>5, <1>6, EmptyRanged
<1>8. CASE f \in {WholeFile(SetSection(SectionsBefore(store, c), c, s)) :
                    s \in CutSections(store[c])}
  BY <1>8, <1>4, <1>5
<1>9. QED
  BY <1>1, <1>7, <1>8

LEMMA PendingWritesRanged ==
  ASSUME Ranged(values), NEW store \in PendingWrites
  PROVE  Ranged(store)
<1>1. ASSUME NEW kind, NEW name, store \in PublishWrites(kind, name)
      PROVE  Ranged(store)
  <2>1. PICK id \in Ids : store = SetSection(values, id, SectionOf(kind, name))
    BY <1>1 DEF PublishWrites
  <2>2. QED
    BY <2>1, SetSectionRanged DEF Ranged
<1>2. CASE store \in GenWrites
  <2>1. PICK kind \in Commands : store \in PublishWrites(kind, NewName(kind, devIndex))
    BY <1>2 DEF GenWrites
  <2>2. QED
    BY <2>1, <1>1
<1>3. CASE store \in DelWrites
  <2>1. PICK c : store = DelSection(values, c)
    BY <1>3 DEF DelWrites
  <2>2. QED
    BY <2>1, DelSectionRanged DEF Ranged
<1>4. QED
  BY <1>1, <1>2, <1>3 DEF PendingWrites

LEMMA PublishedRange ==
  ASSUME ManagerInv, SectionsInRange, NEW kind, NEW deviceType, NEW name,
         PublishDevice(kind, deviceType, name), UNCHANGED loaded
  PROVE  SectionsInRange'
<1>1. CASE UNCHANGED <<memory, file>>
  BY <1>1 DEF memory, SectionsInRange, Ranged
<1>2. ASSUME NEW id \in Ids, NEW index \in Slots,
             Published(index, id, kind, deviceType, name)
      PROVE  SectionsInRange'
  <2>1. /\ values' = SetSection(values, id, SectionOf(kind, name))
        /\ file'.sections = values'
    BY <1>2, PublishedSections
  <2>2. DOMAIN values \subseteq Ids
    BY DEF SectionsInRange, Ranged
  <2>3. Ranged(SetSection(values, id, SectionOf(kind, name)))
    BY <2>2, SetSectionRanged
  <2>4. Ranged(values') /\ Ranged(file'.sections)
    BY <2>1, <2>3
  <2>5. Ranged(loaded')
    BY DEF SectionsInRange
  <2>6. QED
    BY <2>4, <2>5 DEF SectionsInRange, Ranged
<1>3. QED
  BY <1>1, <1>2, PublishOutcome DEF ManagerInv

LEMMA RangeInvariant ==
  ASSUME FreedReads = {}
  PROVE  ManagerInv /\ SectionsInRange /\ [Next]_vars => SectionsInRange'
<1> SUFFICES ASSUME ManagerInv, SectionsInRange, [Next]_vars
             PROVE  SectionsInRange'
  OBVIOUS
<1>0. DOMAIN values \subseteq Ids
  BY DEF SectionsInRange, Ranged
<1>1. CASE Boot \/ RestoreEnds \/ UNCHANGED vars
  BY <1>1, EmptyRanged DEF Boot, RestoreEnds, vars, memory, SectionsInRange, Ranged
<1>2. CASE RestoreSection
  <2>1. CASE UNCHANGED <<memory, file>>
    BY <2>1, <1>2 DEF RestoreSection, memory, SectionsInRange, Ranged
  <2>2. QED
    BY <2>1, <1>2, PublishedRange DEF RestoreSection
<1>3. ASSUME NEW kind \in Commands, Gen(kind)
      PROVE  SectionsInRange'
  BY <1>3, PublishedRange DEF Gen
<1>4. ASSUME NEW kind \in Commands, NEW id \in Ids, DelCompletes(kind, id)
      PROVE  SectionsInRange'
  <2>1. /\ values' = DelSection(values, id)
        /\ file'.sections = values'
        /\ loaded' = loaded
    BY <1>4, DeletedSections DEF DelCompletes
  <2>2. Ranged(DelSection(values, id))
    BY <1>0, DelSectionRanged
  <2>3. QED
    BY <2>1, <2>2 DEF SectionsInRange, Ranged
<1>5. ASSUME ProcessEnds, Ranged(file'.sections)
      PROVE  SectionsInRange'
  BY <1>5, EmptyRanged DEF ProcessEnds, SectionsInRange, Ranged
<1>6. CASE ProcessEnds /\ UNCHANGED file
  BY <1>6, <1>5 DEF SectionsInRange
<1>7. CASE CrashInWrite
  <2>1. PICK store \in PendingWrites : file' \in TornFiles(store)
    BY <1>7 DEF CrashInWrite
  <2>2. DOMAIN store \subseteq Ids
    BY PendingWritesRanged DEF SectionsInRange, Ranged
  <2>3. QED
    BY <1>5, <1>7, <2>1, <2>2, TornFilesRanged DEF CrashInWrite
<1>8. CASE PowerCycle
  <2>1. file'.sections = EmptyStore
    BY <1>8 DEF PowerCycle, WholeFile
  <2>2. QED
    BY <1>5, <1>8, <2>1, EmptyRanged DEF PowerCycle
<1>9. QED
  BY <1>1, <1>2, <1>3, <1>4, <1>6, <1>7, <1>8
  DEF Next, Del, DelOutOfBounds, AttributeCallback, Crash

CursorInRange ==
  /\ phase = "down" => cursor = First
  /\ cursor >= First

LEMMA CursorInvariant == TypeOK /\ CursorInRange /\ [Next]_vars => CursorInRange'
<1> SUFFICES ASSUME TypeOK, CursorInRange, [Next]_vars
             PROVE  CursorInRange'
  OBVIOUS
<1>1. First \in Nat /\ cursor \in Nat
  BY ConstantsAssumption DEF TypeOK
<1>2. CASE RestoreSection
  BY <1>1, <1>2 DEF RestoreSection, NextSection, CursorInRange
<1>3. CASE ProcessEnds
  BY <1>1, <1>3 DEF ProcessEnds, CursorInRange
<1>4. QED
  BY <1>1, <1>2, <1>3
  DEF Next, Boot, RestoreEnds, Gen, Del, DelCompletes, DelOutOfBounds, AttributeCallback,
      Crash, CrashInWrite, PowerCycle, vars, CursorInRange

\* Storing a section again as it is changes nothing.
LEMMA SameSection ==
  ASSUME NEW store, IsStore(store), Ranged(store), NEW i \in DOMAIN store
  PROVE  SetSection(store, i, SectionOf(store[i].deviceType, store[i].name)) = store
<1>1. SectionOf(store[i].deviceType, store[i].name) = store[i]
  BY DEF IsStore, Sections, SectionOf
<1>2. QED
  BY <1>1 DEF SetSection, Ranged

ReplayInv == ManagerInv /\ SectionsInRange /\ CursorInRange /\ ReplayKeepsIdentity

\* One iteration of the loop, when the endpoints below cursor all live: the
\* section cursor gets the endpoint cursor, the lowest free one.
LEMMA NextIsCursor ==
  ASSUME ManagerInv, SectionsInRange, CursorInRange, RestoreSection,
         LiveIds = First .. (cursor - 1), values[cursor].deviceType # NoType
  PROVE  \E index \in Slots :
           Published(index, cursor, values[cursor].deviceType,
                     RestoreDeviceType[values[cursor].deviceType], values[cursor].name)
<1> DEFINE section == values[cursor]
<1>1. cursor \in DOMAIN values
  BY DEF RestoreSection, MoreSections, CheckSection
<1>2. cursor \in Ids
  BY <1>1 DEF SectionsInRange, Ranged
<1>3. First \in Nat /\ Count \in Nat /\ cursor \in Nat /\ cursor >= First
  BY ConstantsAssumption DEF ManagerInv, PoolInv, TypeOK, CursorInRange
<1>4. PublishDevice(section.deviceType, RestoreDeviceType[section.deviceType], section.name)
  BY DEF RestoreSection
<1>5. UsedIndices # Slots
  <2>1. cursor - First \in Slots /\ First + (cursor - First) = cursor
    BY <1>2, <1>3 DEF Ids, Slots
  <2>2. cursor \notin LiveIds
    BY <1>3
  <2>3. cursor - First \notin UsedIndices
    BY <2>1, <2>2, UsedIds DEF ManagerInv, PoolInv, PoolInStep
  <2>4. QED
    BY <2>1, <2>3
<1>6. PICK id \in Ids, index \in Slots :
        Published(index, id, section.deviceType,
                  RestoreDeviceType[section.deviceType], section.name)
  BY <1>4, <1>5, PublishOutcome DEF ManagerInv
<1>7. id = cursor
  <2>1. runningEP = First .. (cursor - 1)
    BY DEF ManagerInv, PoolInv, PoolInStep
  <2>2. id \in Ids \ runningEP /\ \A j \in Ids \ runningEP : id <= j
    BY <1>6 DEF Published
  <2>3. cursor \in Ids \ runningEP
    BY <2>1, <1>2, <1>3
  <2>4. id <= cursor
    BY <2>2, <2>3
  <2>5. id >= cursor
    BY <2>1, <2>2, <1>3 DEF Ids
  <2>6. QED
    BY <2>4, <2>5, <1>3, IdsAreNat
<1>8. QED
  BY <1>6, <1>7

\* The same iteration: the section is stored again as it was.
LEMMA ReplayStep ==
  ASSUME ManagerInv, SectionsInRange, CursorInRange, RestoreSection,
         LiveIds = First .. (cursor - 1), values[cursor].deviceType # NoType
  PROVE  /\ values' = values
         /\ LiveIds' = LiveIds \cup {cursor}
         /\ LiveEndpoints' = LiveEndpoints \cup {[id   |-> cursor,
                                                  kind |-> values[cursor].deviceType,
                                                  name |-> values[cursor].name]}
<1>1. PICK index \in Slots :
        Published(index, cursor, values[cursor].deviceType,
                  RestoreDeviceType[values[cursor].deviceType], values[cursor].name)
  BY NextIsCursor
<1>2. cursor \in DOMAIN values /\ Ranged(values) /\ IsStore(values)
  BY DEF RestoreSection, MoreSections, CheckSection, SectionsInRange, ManagerInv, PoolInv,
         TypeOK
<1>3. QED
  BY <1>1, <1>2, PublishedSections, PublishedEndpoints, SameSection

LEMMA ReplayInvariant ==
  ASSUME FreedReads = {}
  PROVE  ReplayInv /\ [Next]_vars => ReplayKeepsIdentity'
<1> SUFFICES ASSUME ReplayInv, [Next]_vars, (phase = "init")',
                    (\A i \in DOMAIN loaded : loaded[i].deviceType # NoType)'
             PROVE  (values = loaded /\ LiveIds = First .. (cursor - 1))'
  BY DEF ReplayKeepsIdentity
<1>1. First \in Nat /\ cursor \in Nat /\ cursor >= First
  BY ConstantsAssumption DEF ReplayInv, ManagerInv, PoolInv, TypeOK, CursorInRange
<1>2. CASE Boot
  <2>1. values' = loaded' /\ cursor' = First /\ LiveIds' = {}
    BY <1>2 DEF Boot, ReplayInv, CursorInRange, ManagerInv, DiskInStep, LiveIds
  <2>2. First .. (First - 1) = {}
    BY <1>1
  <2>3. QED
    BY <2>1, <2>2
<1>3. CASE RestoreSection
  <2>1. phase = "init" /\ loaded' = loaded /\ cursor' = cursor + 1
    BY <1>3 DEF RestoreSection, NextSection
  <2>2. values = loaded /\ LiveIds = First .. (cursor - 1)
    BY <2>1 DEF ReplayInv, ReplayKeepsIdentity
  <2>3. values' = values /\ LiveIds' = LiveIds \cup {cursor}
    <3>1. values[cursor].deviceType # NoType
      BY <1>3, <2>1, <2>2 DEF RestoreSection, MoreSections, CheckSection
    <3>2. QED
      BY <1>3, <2>2, <3>1, ReplayStep DEF ReplayInv
  <2>4. First .. ((cursor + 1) - 1) = (First .. (cursor - 1)) \cup {cursor}
    BY <1>1
  <2>5. QED
    BY <2>1, <2>2, <2>3, <2>4
<1>4. CASE UNCHANGED vars
  BY <1>4 DEF vars, memory, ReplayInv, ReplayKeepsIdentity, LiveIds
<1>5. QED
  BY <1>2, <1>3, <1>4
  DEF Next, RestoreEnds, Gen, Del, DelCompletes, DelOutOfBounds, AttributeCallback,
      Crash, CrashInWrite, PowerCycle, ProcessEnds

\* A device keeps its identity over a restart: while Init replays a file
\* whose sections all have a type, every section is published under its own
\* number and the store stays as it was read.
THEOREM ReplayAlwaysKeepsIdentity ==
  ASSUME FreedReads = {}
  PROVE  Spec => []ReplayKeepsIdentity
<1>1. Init => SectionsInRange /\ CursorInRange /\ ReplayKeepsIdentity
  BY EmptyRanged, ConstantsAssumption
  DEF Init, WholeFile, SectionsInRange, CursorInRange, ReplayKeepsIdentity
<1>2. ManagerInv /\ ManagerInv' /\ SectionsInRange /\ CursorInRange /\ ReplayKeepsIdentity
        /\ [Next]_vars => (SectionsInRange /\ CursorInRange /\ ReplayKeepsIdentity)'
  BY RangeInvariant, CursorInvariant, ReplayInvariant DEF ReplayInv, ManagerInv, PoolInv
<1>3. QED
  BY <1>1, <1>2, ManagerAlways, PTL DEF Spec

-----------------------------------------------------------------------------
(* What a restart brings back.                                             *)

\* The kept endpoints below number n have no gap.
NoGapBelow(n) == \A i \in First .. (n - 1) : \E d \in kept : d.id = i

StoreHolds(store, e) == e.id \in DOMAIN store /\ store[e.id] = SectionOf(e.kind, e.name)

\* Half way through Init: what cursor has passed lives, what it has not
\* passed is still in the store.
HalfRestored ==
  /\ \A e \in Reached : IF e.id < cursor THEN e \in LiveEndpoints ELSE StoreHolds(values, e)
  /\ NoGapBelow(cursor) => LiveIds = First .. (cursor - 1)

KeptInv ==
  /\ LiveEndpoints \subseteq Pool!Endpoints
  /\ kept \subseteq Pool!Endpoints
  /\ phase = "down" => \A e \in kept : StoreHolds(file.sections, e)
  /\ phase = "init" => HalfRestored

LEMMA EndpointFields ==
  ASSUME NEW e \in Pool!Endpoints
  PROVE  /\ e.id \in Ids /\ e.id \in Nat /\ e.id >= First
         /\ e.kind \in Kinds /\ e.kind # NoType
         /\ e = [id |-> e.id, kind |-> e.kind, name |-> e.name]
BY KindTables, IdsAreNat, ConstantsAssumption DEF Pool!Endpoints, Pool!Ids, Ids

\* The records of live endpoints are in the file.
LEMMA LiveHeld ==
  ASSUME LiveOnDisk, NEW e \in LiveEndpoints
  PROVE  StoreHolds(file.sections, e)
BY DEF LiveOnDisk, LiveEndpoints, StoreHolds, CheckSection

\* A step of the manager leaves LiveEndpoints among the pool's endpoints.
LEMMA EndpointsInPool ==
  ManagerInv /\ LiveEndpoints \subseteq Pool!Endpoints /\ [Next]_vars
    => (LiveEndpoints \subseteq Pool!Endpoints)'
BY StepRefines DEF Pool!Next, Pool!Publish, Pool!Remove, Pool!Stop, Pool!Endpoints, Pool!Ids

\* A loop that goes on has not yet come to the last reached endpoint, and one
\* that has ended is past all of them.
LEMMA NotEnded ==
  ASSUME HalfRestored, kept \subseteq Pool!Endpoints, cursor \in Nat, cursor >= First,
         NEW e \in Reached, e.id >= cursor
  PROVE  MoreSections
<1>1. e \in kept /\ e.id < Count + 3 + 1 /\ \A i \in First .. e.id : \E d \in kept : d.id = i
  BY DEF Reached
<1>2. First \in Nat /\ Count \in Nat /\ e.id \in Nat
  BY <1>1, EndpointFields, ConstantsAssumption
<1>3. PICK d \in kept : d.id = cursor
  BY <1>1, <1>2
<1>4. d \in Reached
  BY <1>1, <1>2, <1>3 DEF Reached
<1>5. cursor \in DOMAIN values
  BY <1>3, <1>4 DEF HalfRestored, StoreHolds
<1>6. QED
  BY <1>1, <1>2, <1>5 DEF MoreSections, CheckSection

\* An iteration of the loop with no gap up to cursor publishes the kept
\* endpoint of that number again.
LEMMA CursorRestored ==
  ASSUME ManagerInv, SectionsInRange, CursorInRange, KeptInv, RestoreSection,
         NoGapBelow(cursor), NEW d \in kept, d.id = cursor
  PROVE  /\ values' = values
         /\ LiveIds' = First .. cursor
         /\ LiveEndpoints' = LiveEndpoints \cup {d}
<1>1. First \in Nat /\ Count \in Nat /\ cursor \in Nat /\ cursor >= First
  BY ConstantsAssumption DEF ManagerInv, PoolInv, TypeOK, CursorInRange
<1>2. HalfRestored /\ d \in Pool!Endpoints /\ cursor < Count + 3 + 1
  BY DEF KeptInv, RestoreSection, MoreSections
<1>3. d \in Reached
  BY <1>1, <1>2 DEF Reached, NoGapBelow
<1>4. values[cursor] = SectionOf(d.kind, d.name)
  BY <1>1, <1>2, <1>3 DEF HalfRestored, StoreHolds
<1>5. /\ values[cursor].deviceType = d.kind
      /\ values[cursor].name = d.name
  BY <1>4 DEF SectionOf
<1>6. d.kind # NoType /\ d = [id |-> cursor, kind |-> d.kind, name |-> d.name]
  BY <1>2, EndpointFields
<1>7. LiveIds = First .. (cursor - 1)
  BY <1>2 DEF HalfRestored
<1>8. /\ values' = values
      /\ LiveIds' = LiveIds \cup {cursor}
      /\ LiveEndpoints' = LiveEndpoints \cup {d}
  BY <1>5, <1>6, <1>7, ReplayStep
<1>9. QED
  BY <1>1, <1>7, <1>8

\* No iteration takes an endpoint away.
LEMMA RestoreAdds ==
  ASSUME ManagerInv, RestoreSection
  PROVE  LiveEndpoints \subseteq LiveEndpoints'
<1>1. CASE UNCHANGED <<memory, file>>
  BY <1>1 DEF memory, LiveEndpoints
<1>2. CASE PublishDevice(values[cursor].deviceType,
                         RestoreDeviceType[values[cursor].deviceType], values[cursor].name)
  BY <1>1, <1>2, PublishOutcome, PublishedEndpoints DEF ManagerInv
<1>3. QED
  BY <1>1, <1>2 DEF RestoreSection

LEMMA HalfRestoredStep ==
  ASSUME ManagerInv, SectionsInRange, CursorInRange, KeptInv, RestoreSection, kept' = kept
  PROVE  HalfRestored'
<1>1. First \in Nat /\ cursor \in Nat /\ cursor >= First
  BY ConstantsAssumption DEF ManagerInv, PoolInv, TypeOK, CursorInRange
<1>2. HalfRestored /\ cursor' = cursor + 1 /\ Reached' = Reached
  BY DEF KeptInv, RestoreSection, NextSection, Reached
<1>3. \A e \in Reached : e.id \in Nat /\ e.id >= First
  BY EndpointFields DEF Reached, KeptInv
<1>4. CASE NoGapBelow(cursor + 1)
  <2>1. NoGapBelow(cursor)
    BY <1>1, <1>4 DEF NoGapBelow
  <2>2. PICK d \in kept : d.id = cursor
    BY <1>1, <1>4 DEF NoGapBelow
  <2>3. /\ values' = values
        /\ LiveIds' = First .. cursor
        /\ LiveEndpoints' = LiveEndpoints \cup {d}
    BY <2>1, <2>2, CursorRestored
  <2>4. d \in Reached
    BY <1>1, <2>1, <2>2 DEF Reached, NoGapBelow, RestoreSection, MoreSections
  <2>5. ASSUME NEW e \in Reached, e.id = cursor
        PROVE  e = d
    <3>1. SectionOf(e.kind, e.name) = SectionOf(d.kind, d.name)
      BY <1>1, <1>2, <2>2, <2>4, <2>5 DEF HalfRestored, StoreHolds
    <3>2. e.kind = d.kind /\ e.name = d.name
      BY <3>1 DEF SectionOf
    <3>3. e \in Pool!Endpoints /\ d \in Pool!Endpoints
      BY <2>4 DEF Reached, KeptInv
    <3>4. QED
      BY <2>2, <2>5, <3>2, <3>3, EndpointFields
  <2>6. \A e \in Reached : IF e.id < cursor + 1 THEN e \in LiveEndpoints'
                                                ELSE StoreHolds(values', e)
    BY <1>1, <1>2, <1>3, <2>3, <2>5 DEF HalfRestored
  <2>7. QED
    BY <1>1, <1>2, <2>3, <2>6 DEF HalfRestored, StoreHolds
<1>5. CASE ~NoGapBelow(cursor + 1)
  <2>1. \A e \in Reached : e.id < cursor
    BY <1>1, <1>3, <1>5 DEF Reached, NoGapBelow
  <2>2. \A e \in Reached : e \in LiveEndpoints'
    BY <1>2, <2>1, RestoreAdds DEF HalfRestored
  <2>3. \A e \in Reached : e.id < cursor + 1
    BY <1>1, <1>3, <2>1
  <2>4. ~NoGapBelow(cursor)'
    BY <1>2, <1>5 DEF NoGapBelow
  <2>5. QED
    BY <1>2, <2>2, <2>3, <2>4 DEF HalfRestored
<1>6. QED
  BY <1>4, <1>5

LEMMA KeptStep ==
  ASSUME ManagerInv, SectionsInRange, CursorInRange, KeptInv, [RestartNext]_restartVars
  PROVE  KeptInv'
<1>1. [Next]_vars
  BY DEF RestartNext, restartVars
<1>2. (LiveEndpoints \subseteq Pool!Endpoints)'
  BY <1>1, EndpointsInPool DEF KeptInv
<1>3. kept' \subseteq kept \/ kept' \subseteq LiveEndpoints
  BY DEF RestartNext, restartVars, Remember
<1>4. kept' \subseteq Pool!Endpoints'
  BY <1>3 DEF KeptInv, Pool!Endpoints, Pool!Ids
<1>5. ASSUME phase' = "down"
      PROVE  \A e \in kept' : StoreHolds(file'.sections, e)
  <2>1. CASE file' = file /\ phase = "down" /\ kept' = kept
    BY <2>1 DEF KeptInv, StoreHolds
  <2>2. CASE file' = file /\ phase # "down" /\ kept' = LiveEndpoints
    BY <2>2, LiveHeld DEF ManagerInv, StoreHolds
  <2>3. CASE kept' = {}
    BY <2>3
  <2>4. UNCHANGED restartVars => file' = file /\ phase' = phase /\ kept' = kept
    BY DEF restartVars, vars
  <2>5. QED
    BY <1>5, <2>1, <2>2, <2>3, <2>4 DEF RestartNext, Remember
<1>6. ASSUME phase' = "init"
      PROVE  HalfRestored'
  <2>0. kept' = kept
    BY <1>6 DEF RestartNext, restartVars, Remember
  <2>1. CASE Boot
    <3>1. /\ cursor' = First
          /\ LiveIds' = {}
          /\ values' = file.sections
          /\ \A e \in kept : StoreHolds(file.sections, e)
      BY <2>1 DEF Boot, KeptInv, CursorInRange, ManagerInv, DiskInStep, LiveIds
    <3>2. First .. (First - 1) = {}
      BY ConstantsAssumption
    <3>3. \A e \in kept : ~(e.id < First)
      BY EndpointFields, ConstantsAssumption DEF KeptInv
    <3>4. QED
      BY <2>0, <3>1, <3>2, <3>3 DEF HalfRestored, Reached, StoreHolds
  <2>2. CASE RestoreSection
    BY <2>0, <2>2, HalfRestoredStep
  <2>3. CASE UNCHANGED vars
    BY <1>6, <2>0, <2>3
    DEF vars, memory, KeptInv, HalfRestored, Reached, StoreHolds, NoGapBelow, LiveIds,
        LiveEndpoints
  <2>4. QED
    BY <1>1, <1>6, <2>1, <2>2, <2>3
    DEF Next, RestoreEnds, Gen, Del, DelCompletes, DelOutOfBounds, AttributeCallback,
        Crash, CrashInWrite, PowerCycle, ProcessEnds
<1>7. QED
  BY <1>2, <1>4, <1>5, <1>6 DEF KeptInv

\* Remembering changes nothing of the manager's: its theorems hold here too.
LEMMA RestartsAreManager == RestartSpec => Spec
<1>1. RestartInit => Init
  BY DEF RestartInit
<1>2. [RestartNext]_restartVars => [Next]_vars
  BY DEF RestartNext, restartVars
<1>3. QED
  BY <1>1, <1>2, PTL DEF RestartSpec, Spec

\* When Init leaves its loop, every endpoint that lived at the end of the
\* last life, up to the first gap in the ids, lives again with its id, its
\* kind and its name, unless the file was cut short or lost.
THEOREM RestartAlwaysBringsBack ==
  ASSUME FreedReads = {}
  PROVE  RestartSpec => []RestartBringsBack
<1>1. RestartInit => SectionsInRange /\ CursorInRange /\ KeptInv
  BY EmptyRanged, ConstantsAssumption
  DEF RestartInit, Init, WholeFile, SectionsInRange, CursorInRange, KeptInv, LiveEndpoints
<1>2. ManagerInv /\ SectionsInRange /\ CursorInRange /\ KeptInv
        /\ [Next]_vars /\ [RestartNext]_restartVars
        => (SectionsInRange /\ CursorInRange /\ KeptInv)'
  BY RangeInvariant, CursorInvariant, KeptStep DEF ManagerInv, PoolInv
<1>3. ManagerInv /\ CursorInRange /\ KeptInv => RestartBringsBack
  <2> SUFFICES ASSUME ManagerInv, CursorInRange, KeptInv, phase = "init", ~MoreSections,
                      NEW e \in Reached
               PROVE  e \in LiveEndpoints
    BY DEF RestartBringsBack
  <2>1. cursor \in Nat /\ cursor >= First /\ HalfRestored /\ kept \subseteq Pool!Endpoints
    BY DEF ManagerInv, PoolInv, TypeOK, CursorInRange, KeptInv
  <2>2. e.id \in Nat
    BY <2>1, EndpointFields DEF Reached
  <2>3. e.id < cursor
    BY <2>1, <2>2, NotEnded
  <2>4. QED
    BY <2>1, <2>3 DEF HalfRestored
<1>4. [RestartNext]_restartVars => [Next]_vars
  BY DEF RestartNext, restartVars
<1>5. QED
  BY <1>1, <1>2, <1>3, <1>4, RestartsAreManager, ManagerAlways, PTL DEF RestartSpec

-----------------------------------------------------------------------------
(* Dispatch.                                                               *)

\* The kinds for which both device types, that of the gen* command and that
\* of Init, choose the handler that searches the kind's own list.
Dispatched ==
  {kind \in Kinds : /\ HandlerKind[GenDeviceType[kind]] = kind
                    /\ HandlerKind[RestoreDeviceType[kind]] = kind}

\* A store from which Init publishes dispatched kinds only.
Dispatchable(store) == \A i \in DOMAIN store : store[i].deviceType \in Dispatched \cup {NoType}

DispatchInv ==
  /\ Dispatchable(values)
  /\ Dispatchable(file.sections)
  /\ DispatchFindsDevice

LEMMA DispatchedKinds == Dispatched = {"OnOffLight", "OnOffLightSwitch", "ContactSensor"}
BY DEF Dispatched, Kinds, HandlerKind, GenDeviceType, RestoreDeviceType

LEMMA EmptyDispatchable == Dispatchable(EmptyStore)
BY DEF Dispatchable, EmptyStore

LEMMA SetSectionDispatchable ==
  ASSUME NEW store, Dispatchable(store), NEW i, NEW section,
         section.deviceType \in Dispatched \cup {NoType}
  PROVE  Dispatchable(SetSection(store, i, section))
BY DEF Dispatchable, SetSection

LEMMA DelSectionDispatchable ==
  ASSUME NEW store, Dispatchable(store), NEW i
  PROVE  Dispatchable(DelSection(store, i))
BY DEF Dispatchable, DelSection

\* What a torn write makes of a dispatched kind is one again: a cut
\* "OnOffLightSwitch" reads "OnOffLight".
LEMMA CutSectionsDispatched ==
  ASSUME NEW section, section.deviceType \in Dispatched \cup {NoType},
         NEW s \in CutSections(section)
  PROVE  s.deviceType \in Dispatched \cup {NoType}
<1>1. "OnOffLight" \in Dispatched
  BY DispatchedKinds
<1>2. QED
  BY <1>1 DEF CutSections

LEMMA TornFilesDispatchable ==
  ASSUME NEW store, Dispatchable(store), NEW f \in TornFiles(store)
  PROVE  Dispatchable(f.sections)
<1>1. PICK c \in DOMAIN store :
        f \in {WholeFile(SectionsBefore(store, c)), UnreadableFile}
              \cup {WholeFile(SetSection(SectionsBefore(store, c), c, s)) :
                      s \in CutSections(store[c])}
  BY DEF TornFiles
<1>2. Dispatchable(SectionsBefore(store, c))
  BY DEF SectionsBefore, Dispatchable
<1>3. ASSUME NEW s \in CutSections(store[c])
      PROVE  Dispatchable(SetSection(SectionsBefore(store, c), c, s))
  <2>1. store[c].deviceType \in Dispatched \cup {NoType}
    BY <1>1 DEF Dispatchable
  <2>2. s.deviceType \in Dispatched \cup {NoType}
    BY <2>1, CutSectionsDispatched
  <2>3. QED
    BY <1>2, <2>2, SetSectionDispatchable
<1>4. \A store2 : WholeFile(store2).sections = store2
  BY DEF WholeFile
<1>5. UnreadableFile.sections = EmptyStore
  BY DEF UnreadableFile
<1>6. CASE f \in {WholeFile(SectionsBefore(store, c)), UnreadableFile}
  BY <1>6, <1>2, <1>4, <1>5, EmptyDispatchable
<1>7. CASE f \in {WholeFile(SetSection(SectionsBefore(store, c), c, s)) :
                    s \in CutSections(store[c])}
  BY <1>7, <1>3, <1>4
<1>8. QED
  BY <1>1, <1>6, <1>7

LEMMA PublishWritesDispatchable ==
  ASSUME Dispatchable(values), NEW kind \in Dispatched, NEW name,
         NEW store \in PublishWrites(kind, name)
  PROVE  Dispatchable(store)
<1>1. PICK id \in Ids : store = SetSection(values, id, SectionOf(kind, name))
  BY DEF PublishWrites
<1>2. SectionOf(kind, name).deviceType = kind
  BY DEF SectionOf
<1>3. QED
  BY <1>1, <1>2, SetSectionDispatchable

LEMMA PendingWritesDispatchable ==
  ASSUME Commands \subseteq Dispatched, Dispatchable(values), NEW store \in PendingWrites
  PROVE  Dispatchable(store)
<1>1. CASE store \in GenWrites
  <2>1. PICK kind \in Commands : store \in PublishWrites(kind, NewName(kind, devIndex))
    BY <1>1 DEF GenWrites
  <2>2. QED
    BY <2>1, PublishWritesDispatchable
<1>2. CASE store \in DelWrites
  <2>1. PICK c : store = DelSection(values, c)
    BY <1>2 DEF DelWrites
  <2>2. QED
    BY <2>1, DelSectionDispatchable
<1>3. CASE /\ MoreSections
           /\ values[cursor].deviceType \in Kinds
           /\ store \in PublishWrites(values[cursor].deviceType, values[cursor].name)
  <2>1. values[cursor].deviceType \in Dispatched
    BY <1>3, KindTables DEF MoreSections, CheckSection, Dispatchable
  <2>2. QED
    BY <1>3, <2>1, PublishWritesDispatchable
<1>4. QED
  BY <1>1, <1>2, <1>3 DEF PendingWrites

\* publishDevice appends the endpoint to the list its device type selects
\* and leaves the other lists as they are.
LEMMA PublishedDispatch ==
  ASSUME TypeOK, DispatchInv, NEW index, NEW id \in Ids, NEW kind \in Dispatched,
         NEW deviceType, HandlerKind[deviceType] = kind, NEW name,
         Published(index, id, kind, deviceType, name)
  PROVE  DispatchInv'
<1> DEFINE new == NewRecord(index, id, deviceType, name)
<1>1. /\ epList' = epList \cup {new}
      /\ devList' = [devList EXCEPT ![kind] = Append(@, id)]
  BY DEF Published, AddDeviceEndpoint, NewRecord
<1>2. new.endpointId = id /\ new.deviceType = deviceType
  BY DEF NewRecord
<1> HIDE DEF new
<1>3. kind \in Kinds /\ id \in Nat /\ devList \in [Kinds -> Seq(Nat)]
  BY IdsAreNat DEF Dispatched, TypeOK
<1>4. GetDevice(kind, id)'
  <2>1. devList'[kind] = Append(devList[kind], id)
    BY <1>1, <1>3
  <2>2. Len(devList[kind]) + 1 \in DOMAIN devList'[kind]
    BY <2>1, <1>3
  <2>3. devList'[kind][Len(devList[kind]) + 1] = id
    BY <2>1, <1>3
  <2>4. QED
    BY <2>2, <2>3 DEF GetDevice
<1>5. ASSUME NEW k \in Kinds, NEW i \in Nat, GetDevice(k, i)
      PROVE  GetDevice(k, i)'
  <2>1. PICK n \in DOMAIN devList[k] : devList[k][n] = i
    BY <1>5 DEF GetDevice
  <2>2. n \in DOMAIN devList'[k] /\ devList'[k][n] = devList[k][n]
    <3>1. CASE k = kind
      BY <3>1, <1>1, <1>3, <2>1
    <3>2. CASE k # kind
      BY <3>2, <1>1, <1>3, <2>1
    <3>3. QED
      BY <3>1, <3>2
  <2>3. QED
    BY <2>1, <2>2 DEF GetDevice
<1>6. \A e \in epList : HandlerKind[e.deviceType] \in Kinds /\ e.endpointId \in Nat
  <2>1. \A t \in DeviceTypes : HandlerKind[t] \in Kinds
    BY DEF DeviceTypes, HandlerKind, Kinds
  <2>2. QED
    BY <2>1, IdsAreNat DEF TypeOK, EndpointRecords
<1>7. DispatchFindsDevice'
  <2> SUFFICES ASSUME NEW e \in epList'
               PROVE  GetDevice(HandlerKind[e.deviceType], e.endpointId)'
    BY DEF DispatchFindsDevice
  <2>1. CASE e = new
    BY <2>1, <1>2, <1>4
  <2>2. CASE e \in epList
    BY <2>2, <1>5, <1>6 DEF DispatchInv, DispatchFindsDevice
  <2>3. QED
    BY <1>1, <2>1, <2>2
<1>8. Dispatchable(values') /\ file'.sections = values'
  <2>1. SectionOf(kind, name).deviceType = kind
    BY DEF SectionOf
  <2>2. QED
    BY <2>1, PublishedSections, SetSectionDispatchable DEF DispatchInv
<1>9. QED
  BY <1>7, <1>8 DEF DispatchInv, Dispatchable

LEMMA DispatchUnchanged ==
  ASSUME DispatchInv, UNCHANGED <<memory, file>>
  PROVE  DispatchInv'
BY DEF DispatchInv, Dispatchable, DispatchFindsDevice, GetDevice, memory

LEMMA PublishDispatch ==
  ASSUME ManagerInv, DispatchInv, NEW kind \in Dispatched, NEW deviceType,
         HandlerKind[deviceType] = kind, NEW name, PublishDevice(kind, deviceType, name)
  PROVE  DispatchInv'
<1>1. CASE UNCHANGED <<memory, file>>
  BY <1>1, DispatchUnchanged
<1>2. ASSUME NEW id \in Ids, NEW index \in Slots,
             Published(index, id, kind, deviceType, name)
      PROVE  DispatchInv'
  BY <1>2, PublishedDispatch DEF ManagerInv, PoolInv
<1>3. QED
  BY <1>1, <1>2, PublishOutcome DEF ManagerInv

LEMMA DispatchInvariant ==
  ASSUME FreedReads = {}, Commands \subseteq Dispatched
  PROVE  ManagerInv /\ DispatchInv /\ [Next]_vars => DispatchInv'
<1> SUFFICES ASSUME ManagerInv, DispatchInv, [Next]_vars
             PROVE  DispatchInv'
  OBVIOUS
<1>1. CASE Boot
  <2>1. epList' = {}
    BY <1>1 DEF Boot, ManagerInv, DiskInStep
  <2>2. Dispatchable(values') /\ Dispatchable(file'.sections)
    BY <1>1 DEF Boot, DispatchInv, Dispatchable
  <2>3. QED
    BY <2>1, <2>2 DEF DispatchInv, Dispatchable, DispatchFindsDevice
<1>2. CASE RestoreSection
  <2>1. CASE UNCHANGED <<memory, file>>
    BY <2>1, DispatchUnchanged
  <2>2. CASE /\ values[cursor].deviceType \in Kinds
             /\ PublishDevice(values[cursor].deviceType,
                              RestoreDeviceType[values[cursor].deviceType],
                              values[cursor].name)
    <3>1. values[cursor].deviceType \in Dispatched
      BY <1>2, <2>2, KindTables
      DEF RestoreSection, MoreSections, CheckSection, DispatchInv, Dispatchable
    <3>2. HandlerKind[RestoreDeviceType[values[cursor].deviceType]]
            = values[cursor].deviceType
      BY <3>1 DEF Dispatched
    <3>3. QED
      BY <2>2, <3>1, <3>2, PublishDispatch
  <2>3. QED
    BY <1>2, <2>1, <2>2 DEF RestoreSection
<1>3. CASE RestoreEnds \/ UNCHANGED vars
  BY <1>3, DispatchUnchanged DEF RestoreEnds, vars
<1>4. ASSUME NEW kind \in Commands, Gen(kind)
      PROVE  DispatchInv'
  <2>1. kind \in Dispatched /\ HandlerKind[GenDeviceType[kind]] = kind
    BY DEF Dispatched
  <2>2. QED
    BY <1>4, <2>1, PublishDispatch DEF Gen
<1>5. ASSUME NEW kind \in Commands, NEW id \in Ids, DelCompletes(kind, id)
      PROVE  DispatchInv'
  <2>1. /\ values' = DelSection(values, id)
        /\ file'.sections = values'
        /\ UNCHANGED devList
    BY <1>5, DeletedSections DEF DelCompletes
  <2>2. epList' \subseteq epList
    BY <1>5 DEF DelCompletes, DelDeviceEndpoint, DelDeviceList
  <2>3. Dispatchable(values')
    BY <2>1, DelSectionDispatchable DEF DispatchInv
  <2>4. QED
    BY <2>1, <2>2, <2>3 DEF DispatchInv, Dispatchable, DispatchFindsDevice, GetDevice
<1>6. ASSUME ProcessEnds, Dispatchable(file'.sections)
      PROVE  DispatchInv'
  BY <1>6, EmptyDispatchable
  DEF ProcessEnds, DispatchInv, Dispatchable, DispatchFindsDevice
<1>7. CASE ProcessEnds /\ UNCHANGED file
  BY <1>6, <1>7 DEF DispatchInv
<1>8. CASE CrashInWrite
  <2>1. PICK store \in PendingWrites : file' \in TornFiles(store)
    BY <1>8 DEF CrashInWrite
  <2>2. Dispatchable(file'.sections)
    BY <2>1, PendingWritesDispatchable, TornFilesDispatchable DEF DispatchInv
  <2>3. QED
    BY <1>6, <1>8, <2>2 DEF CrashInWrite
<1>9. CASE PowerCycle
  <2>1. file'.sections = EmptyStore
    BY <1>9 DEF PowerCycle, WholeFile
  <2>2. QED
    BY <1>6, <1>9, <2>1, EmptyDispatchable DEF PowerCycle
<1>10. QED
  BY <1>1, <1>2, <1>3, <1>4, <1>5, <1>7, <1>8, <1>9
  DEF Next, Del, DelOutOfBounds, AttributeCallback, Crash

\* With on/off lights, switches and contact sensors only, the attribute
\* callbacks never dereference a null device, over any number of deletes,
\* crashes in the middle of a write and restarts.
THEOREM DispatchAlwaysFindsDevice ==
  ASSUME FreedReads = {}, Commands \subseteq Dispatched
  PROVE  Spec => []DispatchFindsDevice
<1>1. Init => DispatchInv
  BY EmptyDispatchable DEF Init, WholeFile, DispatchInv, DispatchFindsDevice
<1>2. DispatchInv => DispatchFindsDevice
  BY DEF DispatchInv
<1>3. QED
  BY <1>1, <1>2, DispatchInvariant, ManagerAlways, PTL DEF Spec

=============================================================================
