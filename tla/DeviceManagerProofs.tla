------------------------ MODULE DeviceManagerProofs ------------------------
(***************************************************************************)
(* Proofs about DeviceManager for every number of endpoints, every set of  *)
(* commands and every behaviour of crashes and restarts.                   *)
(***************************************************************************)
EXTENDS DeviceManager, SequenceTheorems, TLAPS

LEMMA KindTables ==
  /\ GenDeviceType \in [Kinds -> DeviceTypes]
  /\ RestoreDeviceType \in [Kinds -> DeviceTypes]
  /\ NoType \notin Kinds
BY DEF GenDeviceType, RestoreDeviceType, Kinds, DeviceTypes, NoType

LEMMA NewNameType ==
  ASSUME NEW kind \in Kinds, NEW n \in Nat
  PROVE  NewName(kind, n) \in Names
<1>1. NamePrefix \in [Kinds -> {"light", "switch", "contact", "missing"}]
  BY DEF NamePrefix, Kinds
<1>2. QED
  BY <1>1 DEF NewName, Names

-----------------------------------------------------------------------------
(* The store.                                                              *)

LEMMA EmptyStoreType == IsStore(EmptyStore)
BY DEF IsStore, EmptyStore

LEMMA SetSectionType ==
  ASSUME NEW store, IsStore(store), NEW i \in Nat, NEW section \in Sections
  PROVE  IsStore(SetSection(store, i, section))
BY DEF IsStore, SetSection

LEMMA DelSectionType ==
  ASSUME NEW store, IsStore(store), NEW i
  PROVE  IsStore(DelSection(store, i))
BY DEF IsStore, DelSection

LEMMA SectionOfType ==
  ASSUME NEW kind \in Kinds, NEW name \in Names
  PROVE  SectionOf(kind, name) \in Sections
BY DEF SectionOf, Sections

LEMMA CutSectionsType ==
  ASSUME NEW section \in Sections
  PROVE  CutSections(section) \subseteq Sections
<1>1. NoName \in Names
  BY DEF Names, NoName
<1>2. "OnOffLight" \in Kinds
  BY DEF Kinds
<1>3. section.deviceType \in Kinds \cup {NoType}
  BY DEF Sections
<1>4. QED
  BY <1>1, <1>2, <1>3 DEF CutSections, Sections

LEMMA TornFilesType ==
  ASSUME NEW store, IsStore(store), NEW f \in TornFiles(store)
  PROVE  f.malformed \in BOOLEAN /\ IsStore(f.sections)
<1>1. PICK c \in DOMAIN store :
        f \in {WholeFile(SectionsBefore(store, c)), UnreadableFile}
              \cup {WholeFile(SetSection(SectionsBefore(store, c), c, s)) :
                      s \in CutSections(store[c])}
  BY DEF TornFiles
<1>2. IsStore(SectionsBefore(store, c))
  BY DEF IsStore, SectionsBefore
<1>3. ASSUME NEW s \in CutSections(store[c])
      PROVE  IsStore(SetSection(SectionsBefore(store, c), c, s))
  <2>1. s \in Sections /\ c \in Nat
    BY <1>1, CutSectionsType DEF IsStore
  <2>2. QED
    BY <2>1, <1>2, SetSectionType
<1>4. \A store2 : /\ WholeFile(store2).sections = store2
                   /\ WholeFile(store2).malformed = FALSE
  BY DEF WholeFile
<1>5. UnreadableFile.sections = EmptyStore /\ UnreadableFile.malformed = TRUE
  BY DEF UnreadableFile
<1>6. CASE f \in {WholeFile(SectionsBefore(store, c)), UnreadableFile}
  BY <1>6, <1>2, <1>4, <1>5, EmptyStoreType
<1>7. CASE f \in {WholeFile(SetSection(SectionsBefore(store, c), c, s)) :
                    s \in CutSections(store[c])}
  BY <1>7, <1>3, <1>4
<1>8. QED
  BY <1>1, <1>6, <1>7

-----------------------------------------------------------------------------
(* Type correctness.                                                       *)

MemoryTypeOK ==
  /\ epList \subseteq EndpointRecords
  /\ devList \in [Kinds -> Seq(Nat)]
  /\ runningEP \subseteq Ids
  /\ table \in [Slots -> [id : Ids \cup {InvalidEndpointId}, kind : Kinds \cup {NoType}]]
  /\ IsStore(values)
  /\ file.malformed \in BOOLEAN
  /\ IsStore(file.sections)

ControlTypeOK ==
  /\ phase \in {"down", "init", "run"}
  /\ cursor \in Nat
  /\ devIndex \in 0 .. MaxDevIndex
  /\ IsStore(loaded)

LEMMA TypeOKParts == TypeOK <=> MemoryTypeOK /\ ControlTypeOK
BY DEF TypeOK, MemoryTypeOK, ControlTypeOK

LEMMA SaveType ==
  ASSUME NEW store, IsStore(store), Save(store)
  PROVE  IsStore(values') /\ file'.malformed \in BOOLEAN /\ IsStore(file'.sections)
BY DEF Save, WholeFile

LEMMA IdsAreNat == Ids \subseteq Nat /\ Slots \subseteq Nat
BY ConstantsAssumption DEF Ids, Slots

LEMMA SuccessSlot ==
  ASSUME NEW index \in Nat, NEW id, SetDynamicEndpoint(index, id) = "SUCCESS"
  PROVE  /\ index \in Slots
         /\ id # InvalidEndpointId
         /\ \A i \in Slots : table[i].id # id
BY ConstantsAssumption DEF SetDynamicEndpoint, Slots

LEMMA AddDeviceEndpointType ==
  ASSUME MemoryTypeOK, NEW index \in 0 .. Count, NEW id \in Ids \cup {InvalidEndpointId},
         NEW kind \in Kinds, NEW deviceType \in DeviceTypes, NEW name \in Names,
         AddDeviceEndpoint(index, id, kind, deviceType, name)
  PROVE  MemoryTypeOK'
<1>1. index \in Slots /\ id \in Ids
  BY SuccessSlot DEF AddDeviceEndpoint
<1>2. id \in Nat
  BY <1>1, IdsAreNat
<1>3. [endpointIndex |-> index, endpointId |-> id,
       deviceType |-> deviceType, name |-> name] \in EndpointRecords
  BY <1>1 DEF EndpointRecords
<1>4. (epList \subseteq EndpointRecords)'
  BY <1>3 DEF AddDeviceEndpoint, MemoryTypeOK
<1>5. (devList \in [Kinds -> Seq(Nat)])'
  BY <1>2 DEF AddDeviceEndpoint, MemoryTypeOK
<1>6. (runningEP \subseteq Ids)'
  BY <1>1 DEF AddDeviceEndpoint, AddEndpointId, MemoryTypeOK
<1>7. (table \in [Slots -> [id : Ids \cup {InvalidEndpointId},
                            kind : Kinds \cup {NoType}]])'
  BY <1>1 DEF AddDeviceEndpoint, MemoryTypeOK
<1>8. IsStore(SetSection(values, id, SectionOf(kind, name)))
  BY <1>2, SetSectionType, SectionOfType DEF MemoryTypeOK
<1>9. IsStore(values') /\ file'.malformed \in BOOLEAN /\ IsStore(file'.sections)
  BY <1>8, SaveType DEF AddDeviceEndpoint
<1>10. QED
  BY <1>4, <1>5, <1>6, <1>7, <1>9 DEF MemoryTypeOK

LEMMA PublishDeviceType ==
  ASSUME MemoryTypeOK, NEW kind \in Kinds, NEW deviceType \in DeviceTypes,
         NEW name \in Names, PublishDevice(kind, deviceType, name)
  PROVE  MemoryTypeOK'
<1>1. PICK id \in Ids \cup {InvalidEndpointId}, index \in 0 .. Count :
        \/ AddDeviceEndpoint(index, id, kind, deviceType, name)
        \/ UNCHANGED <<memory, file>>
  BY DEF PublishDevice
<1>2. CASE UNCHANGED <<memory, file>>
  BY <1>2 DEF MemoryTypeOK, memory
<1>3. QED
  BY <1>1, <1>2, AddDeviceEndpointType

LEMMA EraseType ==
  ASSUME NEW s \in Seq(Nat), NEW i \in 1 .. Len(s)
  PROVE  RemoveAt(s, i) \in Seq(Nat)
<1>1. SubSeq(s, 1, i - 1) \in Seq(Nat) /\ SubSeq(s, i + 1, Len(s)) \in Seq(Nat)
  BY SubSeqProperties
<1>2. QED
  BY <1>1, ConcatProperties DEF RemoveAt

LEMMA DelDeviceEndpointType ==
  ASSUME MemoryTypeOK, NEW kind \in Kinds, NEW id \in Ids, DelDeviceEndpoint(kind, id)
  PROVE  MemoryTypeOK'
<1>1. PICK e \in epList, a \in FreedRead(id), b \in FreedRead(id), c \in FreedRead(id) :
        /\ e.endpointId = id
        /\ table' = [table EXCEPT ![e.endpointIndex] = EmptySlot]
        /\ DelDeviceList(id)
        /\ DelDevice(kind, a, {f \in epList : f.endpointId # id})
        /\ DelEndpointId(b)
        /\ Save(DelSection(values, c))
  BY DEF DelDeviceEndpoint
<1>2. a \in Nat
  BY IdsAreNat, ConstantsAssumption DEF FreedRead
<1>3. (epList \subseteq EndpointRecords)'
  BY <1>1 DEF DelDeviceList, MemoryTypeOK
<1>4. (devList \in [Kinds -> Seq(Nat)])'
  <2>1. CASE UNCHANGED devList
    BY <2>1 DEF MemoryTypeOK
  <2>2. CASE a < Len(devList[kind])
             /\ devList' = [devList EXCEPT ![kind] = RemoveAt(@, a + 1)]
    <3>1. devList[kind] \in Seq(Nat)
      BY DEF MemoryTypeOK
    <3>2. a + 1 \in 1 .. Len(devList[kind])
      BY <1>2, <2>2, <3>1
    <3>3. RemoveAt(devList[kind], a + 1) \in Seq(Nat)
      BY <3>1, <3>2, EraseType
    <3>4. QED
      BY <2>2, <3>3 DEF MemoryTypeOK
  <2>3. QED
    BY <1>1, <2>1, <2>2 DEF DelDevice
<1>5. (runningEP \subseteq Ids)'
  BY <1>1 DEF DelEndpointId, MemoryTypeOK
<1>6. (table \in [Slots -> [id : Ids \cup {InvalidEndpointId},
                            kind : Kinds \cup {NoType}]])'
  BY <1>1 DEF EmptySlot, MemoryTypeOK
<1>7. IsStore(values') /\ file'.malformed \in BOOLEAN /\ IsStore(file'.sections)
  BY <1>1, DelSectionType, SaveType DEF MemoryTypeOK
<1>8. QED
  BY <1>3, <1>4, <1>5, <1>6, <1>7 DEF MemoryTypeOK

LEMMA EmptyMemoryType ==
  /\ NoDevices \in [Kinds -> Seq(Nat)]
  /\ NoEndpoints \in [Slots -> [id : Ids \cup {InvalidEndpointId},
                                kind : Kinds \cup {NoType}]]
BY DEF NoDevices, NoEndpoints, EmptySlot

LEMMA ProcessEndsType ==
  ASSUME ProcessEnds, file'.malformed \in BOOLEAN, IsStore(file'.sections)
  PROVE  TypeOK'
BY EmptyMemoryType, EmptyStoreType, ConstantsAssumption DEF ProcessEnds, TypeOK

LEMMA PendingWritesType ==
  ASSUME TypeOK, NEW store \in PendingWrites
  PROVE  IsStore(store)
<1>1. ASSUME NEW kind \in Kinds, NEW name \in Names, store \in PublishWrites(kind, name)
      PROVE  IsStore(store)
  <2>1. PICK id \in Ids : store = SetSection(values, id, SectionOf(kind, name))
    BY <1>1 DEF PublishWrites
  <2>2. QED
    BY <2>1, SetSectionType, SectionOfType, IdsAreNat DEF TypeOK
<1>2. CASE phase = "run"
  <2>1. CASE store \in GenWrites
    <3>1. PICK kind \in Commands : store \in PublishWrites(kind, NewName(kind, devIndex))
      BY <2>1 DEF GenWrites
    <3>2. kind \in Kinds /\ devIndex \in Nat
      BY ConstantsAssumption DEF TypeOK
    <3>3. QED
      BY <3>1, <3>2, <1>1, NewNameType
  <2>2. CASE store \in DelWrites
    <3>1. PICK c : store = DelSection(values, c)
      BY <2>2 DEF DelWrites
    <3>2. IsStore(values)
      BY DEF TypeOK
    <3>3. QED
      BY <3>1, <3>2, DelSectionType
  <2>3. QED
    BY <1>2, <2>1, <2>2 DEF PendingWrites
<1>3. CASE phase # "run"
  <2>1. /\ MoreSections
        /\ values[cursor].deviceType \in Kinds
        /\ store \in PublishWrites(values[cursor].deviceType, values[cursor].name)
    BY <1>3 DEF PendingWrites
  <2>2. values[cursor].name \in Names
    BY <2>1 DEF TypeOK, IsStore, Sections, MoreSections, CheckSection
  <2>3. QED
    BY <2>1, <2>2, <1>1
<1>4. QED
  BY <1>2, <1>3

LEMMA CurrentSectionType ==
  ASSUME TypeOK, MoreSections
  PROVE  values[cursor] \in Sections /\ values[cursor].name \in Names
BY DEF TypeOK, IsStore, Sections, MoreSections, CheckSection

LEMMA TypeInvariant == TypeOK /\ [Next]_vars => TypeOK'
<1> SUFFICES ASSUME TypeOK, [Next]_vars
             PROVE  TypeOK'
  OBVIOUS
<1>0. MemoryTypeOK /\ ControlTypeOK
  BY TypeOKParts
<1>1. CASE Boot
  BY <1>1 DEF Boot, TypeOK
<1>2. CASE RestoreSection
  <2>1. MemoryTypeOK'
    <3>1. CASE UNCHANGED <<memory, file>>
      BY <3>1, <1>0 DEF MemoryTypeOK, memory
    <3>2. CASE /\ values[cursor].deviceType \in Kinds
               /\ PublishDevice(values[cursor].deviceType,
                                RestoreDeviceType[values[cursor].deviceType],
                                values[cursor].name)
      <4>1. RestoreDeviceType[values[cursor].deviceType] \in DeviceTypes
        BY <3>2, KindTables
      <4>2. QED
        BY <3>2, <4>1, <1>0, <1>2, CurrentSectionType, PublishDeviceType DEF RestoreSection
    <3>3. QED
      BY <1>2, <3>1, <3>2 DEF RestoreSection
  <2>2. ControlTypeOK'
    BY <1>0, <1>2 DEF RestoreSection, NextSection, ControlTypeOK
  <2>3. QED
    BY <2>1, <2>2 DEF TypeOK, MemoryTypeOK, ControlTypeOK
<1>3. CASE RestoreEnds
  BY <1>3, EmptyStoreType, ConstantsAssumption DEF RestoreEnds, memory, TypeOK
<1>4. ASSUME NEW kind \in Commands, Gen(kind)
      PROVE  TypeOK'
  <2>1. kind \in Kinds /\ GenDeviceType[kind] \in DeviceTypes
    BY KindTables, ConstantsAssumption
  <2>2. NewName(kind, devIndex) \in Names
    BY <2>1, NewNameType, ConstantsAssumption DEF TypeOK
  <2>3. MemoryTypeOK'
    BY <1>0, <1>4, <2>1, <2>2, PublishDeviceType DEF Gen
  <2>4. ControlTypeOK'
    BY <1>0, <1>4, ConstantsAssumption DEF Gen, ControlTypeOK
  <2>5. QED
    BY <2>3, <2>4 DEF TypeOK, MemoryTypeOK, ControlTypeOK
<1>5. ASSUME NEW kind \in Commands, NEW id \in Ids, DelCompletes(kind, id)
      PROVE  TypeOK'
  <2>1. MemoryTypeOK'
    BY <1>0, <1>5, DelDeviceEndpointType, ConstantsAssumption DEF DelCompletes
  <2>2. ControlTypeOK'
    BY <1>0, <1>5 DEF DelCompletes, ControlTypeOK
  <2>3. QED
    BY <2>1, <2>2 DEF TypeOK, MemoryTypeOK, ControlTypeOK
<1>6. CASE ProcessEnds /\ UNCHANGED file
  BY <1>6, ProcessEndsType DEF TypeOK
<1>7. CASE CrashInWrite
  <2>1. PICK store \in PendingWrites : file' \in TornFiles(store)
    BY <1>7 DEF CrashInWrite
  <2>2. file'.malformed \in BOOLEAN /\ IsStore(file'.sections)
    BY <2>1, PendingWritesType, TornFilesType
  <2>3. QED
    BY <1>7, <2>2, ProcessEndsType DEF CrashInWrite
<1>8. CASE PowerCycle
  BY <1>8, ProcessEndsType, EmptyStoreType DEF PowerCycle, WholeFile
<1>9. CASE UNCHANGED vars
  BY <1>9 DEF vars, memory, TypeOK
<1>10. QED
  BY <1>1, <1>2, <1>3, <1>4, <1>5, <1>6, <1>7, <1>8, <1>9
  DEF Next, Del, DelOutOfBounds, AttributeCallback, Crash

\* The manager's variables always have their types: a published endpoint has
\* an id and an index of the dynamic range and a name of its own, and every
\* file that a crash can leave is one that Init can read or reject.
THEOREM TypeCorrect == Spec => []TypeOK
<1>1. Init => TypeOK
  BY EmptyMemoryType, EmptyStoreType, ConstantsAssumption DEF Init, WholeFile, TypeOK
<1>2. QED
  BY <1>1, TypeInvariant, PTL DEF Spec

-----------------------------------------------------------------------------
(* The manager's list and the stack's table.                               *)

NewRecord(index, id, deviceType, name) ==
  [endpointIndex |-> index, endpointId |-> id, deviceType |-> deviceType, name |-> name]

LEMMA NewRecordFields ==
  ASSUME NEW index, NEW id, NEW deviceType, NEW name
  PROVE  /\ NewRecord(index, id, deviceType, name).endpointIndex = index
         /\ NewRecord(index, id, deviceType, name).endpointId = id
         /\ NewRecord(index, id, deviceType, name).name = name
BY DEF NewRecord

LEMMA AddDeviceEndpointInStep ==
  ASSUME TypeOK, StackInStep, NEW index \in 0 .. Count,
         NEW id \in Ids \cup {InvalidEndpointId},
         NEW kind \in Kinds, NEW deviceType \in DeviceTypes, NEW name \in Names,
         LastIndexTried(index, id),
         AddDeviceEndpoint(index, id, kind, deviceType, name)
  PROVE  StackInStep'
<1> DEFINE new == NewRecord(index, id, deviceType, name)
<1>1. /\ index \in Slots
      /\ id # InvalidEndpointId
      /\ \A i \in Slots : table[i].id # id
  BY SuccessSlot DEF AddDeviceEndpoint
<1>2. index \notin UsedIndices
  BY DEF LastIndexTried
<1>3. /\ epList' = epList \cup {new}
      /\ table' = [table EXCEPT ![index] = [id |-> id, kind |-> kind]]
  BY DEF AddDeviceEndpoint, NewRecord
<1>4. new.endpointIndex = index /\ new.endpointId = id
  BY NewRecordFields
<1>5. \A e \in epList : /\ e.endpointIndex \in Slots
                        /\ e.endpointIndex # index
                        /\ e.endpointId # id
  BY <1>1, <1>2 DEF UsedIndices, StackInStep, TypeOK, EndpointRecords
<1>6. /\ table'[index].id = id
      /\ \A i \in Slots \ {index} : table'[i] = table[i]
  BY <1>1, <1>3 DEF TypeOK
<1> HIDE DEF new
<1>7. \A e, f \in epList' : e.endpointId = f.endpointId \/ e.endpointIndex = f.endpointIndex
                            => e = f
  BY <1>3, <1>4, <1>5 DEF StackInStep
<1>8. \A e \in epList' : table'[e.endpointIndex].id = e.endpointId
  BY <1>3, <1>4, <1>5, <1>6 DEF StackInStep
<1>9. \A i \in Slots : table'[i] # EmptySlot => i \in UsedIndices'
  BY <1>3, <1>4, <1>6 DEF StackInStep, UsedIndices
<1>10. QED
  BY <1>7, <1>8, <1>9 DEF StackInStep

LEMMA DelDeviceEndpointInStep ==
  ASSUME TypeOK, StackInStep, NEW kind, NEW id, DelDeviceEndpoint(kind, id)
  PROVE  StackInStep'
<1>1. PICK e \in epList :
        /\ e.endpointId = id
        /\ table' = [table EXCEPT ![e.endpointIndex] = EmptySlot]
        /\ epList' = {f \in epList : f.endpointId # id}
  BY DEF DelDeviceEndpoint, DelDeviceList
<1>2. \A f \in epList : f.endpointIndex \in Slots
  BY DEF TypeOK, EndpointRecords
<1>3. /\ table'[e.endpointIndex] = EmptySlot
      /\ \A i \in Slots \ {e.endpointIndex} : table'[i] = table[i]
  BY <1>1, <1>2 DEF TypeOK
<1>4. \A f \in epList' : f \in epList /\ f.endpointIndex # e.endpointIndex
  BY <1>1 DEF StackInStep
<1>5. \A i \in UsedIndices \ {e.endpointIndex} : i \in UsedIndices'
  <2>1. \A f \in epList : f.endpointIndex # e.endpointIndex => f \in epList'
    BY <1>1 DEF StackInStep
  <2>2. QED
    BY <2>1 DEF UsedIndices
<1>6. QED
  BY <1>2, <1>3, <1>4, <1>5 DEF StackInStep

LEMMA ProcessEndsInStep ==
  ASSUME ProcessEnds
  PROVE  StackInStep'
BY DEF ProcessEnds, StackInStep, NoEndpoints

LEMMA StackInStepUnchanged ==
  ASSUME StackInStep, UNCHANGED <<epList, table>>
  PROVE  StackInStep'
BY DEF StackInStep, UsedIndices

LEMMA StackInvariant == TypeOK /\ StackInStep /\ [Next]_vars => StackInStep'
<1> SUFFICES ASSUME TypeOK, StackInStep, [Next]_vars
             PROVE  StackInStep'
  OBVIOUS
<1>1. ASSUME NEW kind \in Kinds, NEW deviceType \in DeviceTypes, NEW name \in Names,
             PublishDevice(kind, deviceType, name)
      PROVE  StackInStep'
  BY <1>1, AddDeviceEndpointInStep, StackInStepUnchanged DEF PublishDevice, memory
<1>2. CASE Boot \/ RestoreEnds \/ UNCHANGED vars
  BY <1>2, StackInStepUnchanged DEF Boot, RestoreEnds, vars, memory
<1>3. CASE RestoreSection
  <2>1. CASE UNCHANGED <<memory, file>>
    BY <2>1, StackInStepUnchanged DEF memory
  <2>2. CASE /\ values[cursor].deviceType \in Kinds
             /\ PublishDevice(values[cursor].deviceType,
                              RestoreDeviceType[values[cursor].deviceType],
                              values[cursor].name)
    BY <2>2, <1>1, <1>3, KindTables, CurrentSectionType DEF RestoreSection
  <2>3. QED
    BY <1>3, <2>1, <2>2 DEF RestoreSection
<1>4. ASSUME NEW kind \in Commands, Gen(kind)
      PROVE  StackInStep'
  <2>1. /\ kind \in Kinds
        /\ GenDeviceType[kind] \in DeviceTypes
        /\ NewName(kind, devIndex) \in Names
    BY KindTables, NewNameType, ConstantsAssumption DEF TypeOK
  <2>2. QED
    BY <1>4, <2>1, <1>1 DEF Gen
<1>5. ASSUME NEW kind \in Commands, NEW id \in Ids, DelCompletes(kind, id)
      PROVE  StackInStep'
  BY <1>5, DelDeviceEndpointInStep DEF DelCompletes
<1>6. CASE ProcessEnds
  BY <1>6, ProcessEndsInStep
<1>7. QED
  BY <1>2, <1>3, <1>4, <1>5, <1>6
  DEF Next, Del, DelOutOfBounds, AttributeCallback, Crash, CrashInWrite, PowerCycle

\* Ids and indices are unique and the stack's table holds exactly the
\* endpoints of epList, whatever the reads of freed records return and
\* however often the process dies.
THEOREM StackStaysInStep == Spec => []StackInStep
<1>1. Init => StackInStep
  BY DEF Init, StackInStep, NoEndpoints
<1>2. QED
  BY <1>1, StackInvariant, TypeCorrect, PTL DEF Spec

-----------------------------------------------------------------------------
(* The id pool and the file, when a read of the freed record still returns *)
(* the record's own id.                                                    *)

\* The file is up to date between handlers; a stopped process has no memory.
DiskInStep ==
  /\ phase = "down" => epList = {}
  /\ phase # "down" => file.sections = values

\* Every live endpoint has a section of its number in the file, with its kind
\* and its name.  Whether the next start gets as far as that section is
\* Restarts!RestartBringsBack.
LiveOnDisk ==
  \A e \in epList :
    /\ CheckSection(file.sections, e.endpointId)
    /\ file.sections[e.endpointId] = SectionOf(table[e.endpointIndex].kind, e.name)

PoolInv == TypeOK /\ StackInStep /\ PoolInStep

LEMMA UsedIds ==
  ASSUME TypeOK, PoolInStep, NEW i \in Slots
  PROVE  First + i \in runningEP <=> i \in UsedIndices
<1>1. \A e \in epList : e.endpointIndex \in Slots /\ e.endpointId = First + e.endpointIndex
  BY DEF TypeOK, EndpointRecords, PoolInStep
<1>2. \A j \in Slots : First + i = First + j => i = j
  BY ConstantsAssumption DEF Slots
<1>3. QED
  BY <1>1, <1>2 DEF PoolInStep, LiveIds, UsedIndices

\* The id and the index that publishDevice settles on belong together, and
\* it finds them whenever a slot is free.
LEMMA IdMatchesIndex ==
  ASSUME PoolInv, NEW index \in 0 .. Count, NEW id \in Ids \cup {InvalidEndpointId},
         GetEndpointId(id), LastIndexTried(index, id)
  PROVE  IF UsedIndices = Slots
         THEN SetDynamicEndpoint(index, id) # "SUCCESS"
         ELSE /\ SetDynamicEndpoint(index, id) = "SUCCESS"
              /\ index \in Slots \ UsedIndices
              /\ id = First + index
              /\ id \in Ids \ runningEP
              /\ \A j \in Ids \ runningEP : id <= j
<1> USE ConstantsAssumption
<1>1. UsedIndices \subseteq Slots
  BY DEF PoolInv, TypeOK, EndpointRecords, UsedIndices
<1>2. \A i \in Slots : i \in Nat /\ i < Count /\ i \in 0 .. Count /\ First + i \in Ids
  BY DEF Slots, Ids
<1>3. \A j \in Ids : j - First \in Slots /\ First + (j - First) = j /\ j # InvalidEndpointId
  BY DEF Slots, Ids, InvalidEndpointId
<1>4. CASE UsedIndices = Slots
  <2>1. index \notin Slots
    BY <1>4 DEF LastIndexTried
  <2>2. QED
    BY <1>4, <2>1, SuccessSlot
<1>5. CASE UsedIndices # Slots
  <2>1. PICK i \in Slots : i \notin UsedIndices
    BY <1>1, <1>5
  <2>2. First + i \in Ids \ runningEP
    BY <1>2, <2>1, UsedIds DEF PoolInv
  <2>3. id \in Ids \ runningEP /\ \A j \in Ids \ runningEP : id <= j
    BY <2>2 DEF GetEndpointId
  <2>4. \A k \in Slots : table[k].id # id
    <3>1. id \notin LiveIds /\ id # InvalidEndpointId
      BY <2>3, <1>3 DEF PoolInv, PoolInStep
    <3>2. ASSUME NEW k \in Slots, table[k].id = id
          PROVE  FALSE
      <4>1. k \in UsedIndices
        BY <3>1, <3>2 DEF PoolInv, StackInStep, EmptySlot
      <4>2. QED
        BY <3>1, <3>2, <4>1 DEF PoolInv, StackInStep, UsedIndices, LiveIds
    <3>3. QED
      BY <3>2
  <2>5. \A k \in Slots : SetDynamicEndpoint(k, id) = "SUCCESS"
    BY <2>3, <2>4, <1>2, <1>3 DEF SetDynamicEndpoint
  <2>6. \A k \in Slots \ UsedIndices : index <= k
    BY <2>5, <1>2 DEF LastIndexTried
  <2>7. index \in Slots \ UsedIndices
    <3>1. index \in Nat /\ index < Count
      BY <2>1, <2>6, <1>2
    <3>2. QED
      BY <3>1 DEF LastIndexTried, Slots
  <2>8. id <= First + index
    BY <2>3, <2>7, <1>2, UsedIds DEF PoolInv
  <2>9. First + index <= id
    <3>1. id - First \in Slots \ UsedIndices
      BY <2>3, <1>3, UsedIds DEF PoolInv
    <3>2. index <= id - First
      BY <3>1, <2>6
    <3>3. QED
      BY <3>1, <3>2, <1>2, <2>7 DEF Ids
  <2>10. id = First + index
    BY <2>8, <2>9, <2>3, <2>7, <1>2 DEF Ids
  <2>11. QED
    BY <1>5, <2>3, <2>5, <2>7, <2>10
<1>6. QED
  BY <1>4, <1>5

\* What publishDevice does to a pool in step.
Published(index, id, kind, deviceType, name) ==
  /\ index \in Slots \ UsedIndices
  /\ id = First + index
  /\ id \in Ids \ runningEP
  /\ \A j \in Ids \ runningEP : id <= j
  /\ AddDeviceEndpoint(index, id, kind, deviceType, name)

LEMMA PublishOutcome ==
  ASSUME PoolInv, NEW kind, NEW deviceType, NEW name,
         PublishDevice(kind, deviceType, name)
  PROVE  \/ UsedIndices = Slots /\ UNCHANGED <<memory, file>>
         \/ \E id \in Ids, index \in Slots : Published(index, id, kind, deviceType, name)
<1>1. PICK id \in Ids \cup {InvalidEndpointId}, index \in 0 .. Count :
        /\ GetEndpointId(id)
        /\ LastIndexTried(index, id)
        /\ \/ AddDeviceEndpoint(index, id, kind, deviceType, name)
           \/ /\ SetDynamicEndpoint(index, id) # "SUCCESS"
              /\ UNCHANGED <<memory, file>>
  BY DEF PublishDevice
<1>2. QED
  BY <1>1, IdMatchesIndex DEF Published, AddDeviceEndpoint

LEMMA PublishedPool ==
  ASSUME PoolInv, NEW index, NEW id, NEW kind, NEW deviceType, NEW name,
         Published(index, id, kind, deviceType, name)
  PROVE  PoolInStep'
<1> DEFINE new == NewRecord(index, id, deviceType, name)
<1>1. /\ epList' = epList \cup {new}
      /\ runningEP' = runningEP \cup {id}
      /\ id = First + index
  BY DEF Published, AddDeviceEndpoint, AddEndpointId, NewRecord
<1>2. new.endpointIndex = index /\ new.endpointId = id
  BY NewRecordFields
<1> HIDE DEF new
<1>3. LiveIds' = LiveIds \cup {id}
  BY <1>1, <1>2 DEF LiveIds
<1>4. QED
  BY <1>1, <1>2, <1>3 DEF PoolInv, PoolInStep

LEMMA DeletedPool ==
  ASSUME FreedReads = {}, PoolInv, NEW kind, NEW id, DelDeviceEndpoint(kind, id)
  PROVE  PoolInStep'
<1>1. /\ epList' = {f \in epList : f.endpointId # id}
      /\ runningEP' = runningEP \ {id}
  BY DEF DelDeviceEndpoint, DelDeviceList, DelEndpointId, FreedRead
<1>2. LiveIds' = LiveIds \ {id}
  BY <1>1 DEF LiveIds
<1>3. QED
  BY <1>1, <1>2 DEF PoolInv, PoolInStep

LEMMA PublishedOnDisk ==
  ASSUME PoolInv, DiskInStep, LiveOnDisk, phase # "down", phase' # "down",
         NEW index, NEW id, NEW kind, NEW deviceType, NEW name,
         Published(index, id, kind, deviceType, name)
  PROVE  DiskInStep' /\ LiveOnDisk'
<1> DEFINE new == NewRecord(index, id, deviceType, name)
<1>1. /\ epList' = epList \cup {new}
      /\ table' = [table EXCEPT ![index] = [id |-> id, kind |-> kind]]
      /\ values' = SetSection(values, id, SectionOf(kind, name))
      /\ file' = WholeFile(values')
      /\ index \in Slots \ UsedIndices
      /\ id \in Ids \ runningEP
  BY DEF Published, AddDeviceEndpoint, NewRecord, Save
<1>2. new.endpointIndex = index /\ new.endpointId = id /\ new.name = name
  BY NewRecordFields
<1> HIDE DEF new
<1>3. file'.sections = values'
  BY <1>1 DEF WholeFile
<1>4. /\ DOMAIN values' = DOMAIN values \cup {id}
      /\ values'[id] = SectionOf(kind, name)
      /\ \A i \in DOMAIN values \ {id} : values'[i] = values[i]
  BY <1>1 DEF SetSection
<1>5. \A e \in epList : /\ e.endpointIndex \in Slots \ {index}
                        /\ e.endpointId # id
  BY <1>1 DEF PoolInv, PoolInStep, LiveIds, UsedIndices, TypeOK, EndpointRecords
<1>6. /\ table'[index].kind = kind
      /\ \A i \in Slots \ {index} : table'[i] = table[i]
  BY <1>1 DEF PoolInv, TypeOK
<1>7. file.sections = values
  BY DEF DiskInStep
<1>8. LiveOnDisk'
  <2> SUFFICES ASSUME NEW e \in epList'
               PROVE  /\ e.endpointId \in DOMAIN values'
                      /\ values'[e.endpointId]
                           = SectionOf(table'[e.endpointIndex].kind, e.name)
    BY <1>3 DEF LiveOnDisk, CheckSection, SectionOf
  <2>1. CASE e = new
    BY <2>1, <1>2, <1>4, <1>6
  <2>2. CASE e \in epList
    <3>1. /\ e.endpointId \in DOMAIN values
          /\ values[e.endpointId] = SectionOf(table[e.endpointIndex].kind, e.name)
      BY <2>2, <1>7 DEF LiveOnDisk, CheckSection
    <3>2. QED
      BY <3>1, <2>2, <1>4, <1>5, <1>6
  <2>3. QED
    BY <1>1, <2>1, <2>2
<1>9. QED
  BY <1>3, <1>8 DEF DiskInStep

LEMMA DeletedOnDisk ==
  ASSUME FreedReads = {}, PoolInv, DiskInStep, LiveOnDisk,
         phase # "down", phase' # "down",
         NEW kind, NEW id, DelDeviceEndpoint(kind, id)
  PROVE  DiskInStep' /\ LiveOnDisk'
<1>1. PICK e \in epList :
        /\ e.endpointId = id
        /\ table' = [table EXCEPT ![e.endpointIndex] = EmptySlot]
        /\ epList' = {f \in epList : f.endpointId # id}
        /\ values' = DelSection(values, id)
        /\ file' = WholeFile(values')
  BY DEF DelDeviceEndpoint, DelDeviceList, FreedRead, Save
<1>2. file'.sections = values'
  BY <1>1 DEF WholeFile
<1>3. /\ DOMAIN values' = DOMAIN values \ {id}
      /\ \A i \in DOMAIN values' : values'[i] = values[i]
  BY <1>1 DEF DelSection
<1>4. \A f \in epList' : /\ f \in epList
                         /\ f.endpointId # id
                         /\ table'[f.endpointIndex] = table[f.endpointIndex]
  BY <1>1 DEF PoolInv, StackInStep, TypeOK, EndpointRecords
<1>5. LiveOnDisk'
  <2> SUFFICES ASSUME NEW f \in epList'
               PROVE  /\ f.endpointId \in DOMAIN values'
                      /\ values'[f.endpointId]
                           = SectionOf(table'[f.endpointIndex].kind, f.name)
    BY <1>2 DEF LiveOnDisk, CheckSection, SectionOf
  <2>1. /\ f.endpointId \in DOMAIN values
        /\ values[f.endpointId] = SectionOf(table[f.endpointIndex].kind, f.name)
    BY <1>4 DEF LiveOnDisk, CheckSection, DiskInStep
  <2>2. QED
    BY <2>1, <1>3, <1>4
<1>6. QED
  BY <1>2, <1>5 DEF DiskInStep

-----------------------------------------------------------------------------
(* The inductive invariant.                                                *)

ManagerInv == PoolInv /\ DiskInStep /\ LiveOnDisk

LEMMA ManagerInvInit == Init => PoolInStep /\ DiskInStep /\ LiveOnDisk
BY DEF Init, PoolInStep, LiveIds, DiskInStep, LiveOnDisk, WholeFile

LEMMA ManagerInvUnchanged ==
  ASSUME PoolInStep, DiskInStep, LiveOnDisk,
         UNCHANGED <<memory, file>>, phase' = "down" <=> phase = "down"
  PROVE  PoolInStep' /\ DiskInStep' /\ LiveOnDisk'
BY DEF PoolInStep, LiveIds, DiskInStep, LiveOnDisk, memory

LEMMA ProcessEndsManager ==
  ASSUME ProcessEnds
  PROVE  PoolInStep' /\ DiskInStep' /\ LiveOnDisk'
BY DEF ProcessEnds, PoolInStep, LiveIds, DiskInStep, LiveOnDisk

LEMMA PublishManager ==
  ASSUME ManagerInv, NEW kind, NEW deviceType, NEW name,
         PublishDevice(kind, deviceType, name),
         phase # "down", phase' = phase
  PROVE  PoolInStep' /\ DiskInStep' /\ LiveOnDisk'
<1>1. CASE UNCHANGED <<memory, file>>
  BY <1>1, ManagerInvUnchanged DEF ManagerInv, PoolInv
<1>2. ASSUME NEW id \in Ids, NEW index \in Slots,
             Published(index, id, kind, deviceType, name)
      PROVE  PoolInStep' /\ DiskInStep' /\ LiveOnDisk'
  BY <1>2, PublishedPool, PublishedOnDisk DEF ManagerInv
<1>3. QED
  BY <1>1, <1>2, PublishOutcome DEF ManagerInv

LEMMA ManagerInvariant ==
  ASSUME FreedReads = {}
  PROVE  ManagerInv /\ [Next]_vars => PoolInStep' /\ DiskInStep' /\ LiveOnDisk'
<1> SUFFICES ASSUME ManagerInv, [Next]_vars
             PROVE  PoolInStep' /\ DiskInStep' /\ LiveOnDisk'
  OBVIOUS
<1>0. PoolInStep /\ DiskInStep /\ LiveOnDisk
  BY DEF ManagerInv, PoolInv
<1>1. CASE Boot
  <2>1. epList = {} /\ UNCHANGED <<epList, runningEP>>
    BY <1>0, <1>1 DEF Boot, DiskInStep
  <2>2. QED
    BY <1>0, <1>1, <2>1 DEF Boot, PoolInStep, LiveIds, DiskInStep, LiveOnDisk
<1>2. CASE RestoreSection
  <2>1. CASE UNCHANGED <<memory, file>>
    BY <2>1, <1>0, <1>2, ManagerInvUnchanged DEF RestoreSection
  <2>2. CASE PublishDevice(values[cursor].deviceType,
                           RestoreDeviceType[values[cursor].deviceType],
                           values[cursor].name)
    BY <2>2, <1>2, PublishManager DEF RestoreSection
  <2>3. QED
    BY <1>2, <2>1, <2>2 DEF RestoreSection
<1>3. CASE RestoreEnds
  BY <1>0, <1>3, ManagerInvUnchanged DEF RestoreEnds
<1>4. ASSUME NEW kind \in Commands, Gen(kind)
      PROVE  PoolInStep' /\ DiskInStep' /\ LiveOnDisk'
  BY <1>4, PublishManager DEF Gen
<1>5. ASSUME NEW kind \in Commands, NEW id \in Ids, phase = "run", DelCompletes(kind, id)
      PROVE  PoolInStep' /\ DiskInStep' /\ LiveOnDisk'
  BY <1>5, DeletedPool, DeletedOnDisk DEF DelCompletes, ManagerInv
<1>6. CASE ProcessEnds
  BY <1>6, ProcessEndsManager
<1>7. CASE UNCHANGED vars
  BY <1>0, <1>7, ManagerInvUnchanged DEF vars
<1>8. QED
  BY <1>1, <1>2, <1>3, <1>4, <1>5, <1>6, <1>7
  DEF Next, Del, DelOutOfBounds, AttributeCallback, Crash, CrashInWrite, PowerCycle

LEMMA ManagerAlways ==
  ASSUME FreedReads = {}
  PROVE  Spec => []ManagerInv
<1>1. Init => TypeOK /\ StackInStep
  BY EmptyMemoryType, EmptyStoreType, ConstantsAssumption
  DEF Init, WholeFile, TypeOK, StackInStep, NoEndpoints
<1>2. Init => ManagerInv
  BY <1>1, ManagerInvInit DEF ManagerInv, PoolInv
<1>3. ManagerInv /\ [Next]_vars => ManagerInv'
  BY TypeInvariant, StackInvariant, ManagerInvariant DEF ManagerInv, PoolInv
<1>4. QED
  BY <1>2, <1>3, PTL DEF Spec

\* The ids in use are those of the live endpoints, and an endpoint's id is
\* always its index plus the first dynamic id.
THEOREM PoolStaysInStep ==
  ASSUME FreedReads = {}
  PROVE  Spec => []PoolInStep
<1>1. ManagerInv => PoolInStep
  BY DEF ManagerInv, PoolInv
<1>2. QED
  BY <1>1, ManagerAlways, PTL

-----------------------------------------------------------------------------
(* Progress of the gen* commands.                                          *)

LEMMA PublishAddsRecord ==
  ASSUME PoolInv, UsedIndices # Slots, NEW kind, NEW deviceType, NEW name,
         PublishDevice(kind, deviceType, name)
  PROVE  epList' # epList
<1>1. PICK id \in Ids, index \in Slots : Published(index, id, kind, deviceType, name)
  BY PublishOutcome
<1>2. /\ NewRecord(index, id, deviceType, name) \in epList'
      /\ index \notin UsedIndices
  BY <1>1 DEF Published, AddDeviceEndpoint, NewRecord
<1>3. NewRecord(index, id, deviceType, name) \notin epList
  BY <1>2, NewRecordFields DEF UsedIndices
<1>4. QED
  BY <1>2, <1>3

LEMMA OnlyGenCounts ==
  ASSUME TypeOK, [Next]_vars, devIndex' > devIndex
  PROVE  \E kind \in Commands : Gen(kind)
<1>1. devIndex \in Nat
  BY ConstantsAssumption DEF TypeOK
<1>2. ProcessEnds => FALSE
  BY <1>1 DEF ProcessEnds
<1>3. UNCHANGED devIndex => FALSE
  BY <1>1
<1>4. QED
  BY <1>2, <1>3
  DEF Next, Boot, RestoreSection, RestoreEnds, Del, DelCompletes, DelOutOfBounds, AttributeCallback,
      Crash, CrashInWrite, PowerCycle, vars, memory

\* A gen* command that finds a free endpoint publishes a device.
THEOREM PublishAlwaysSucceeds ==
  ASSUME FreedReads = {}
  PROVE  Spec => PublishSucceeds
<1>1. ManagerInv /\ [Next]_vars
        => [devIndex' > devIndex /\ UsedIndices # Slots => epList' # epList]_vars
  <2> SUFFICES ASSUME ManagerInv, [Next]_vars, devIndex' > devIndex, UsedIndices # Slots
               PROVE  epList' # epList
    OBVIOUS
  <2>1. PICK kind \in Commands : Gen(kind)
    BY OnlyGenCounts DEF ManagerInv, PoolInv
  <2>2. QED
    BY <2>1, PublishAddsRecord DEF Gen, ManagerInv
<1>2. QED
  BY <1>1, ManagerAlways, PTL DEF Spec, PublishSucceeds

-----------------------------------------------------------------------------
(* Refinement of the endpoint pool.                                        *)

LEMMA PoolUsedIds == Pool!UsedIds = LiveIds
<1>1. \A e \in epList :
        [id |-> e.endpointId, kind |-> table[e.endpointIndex].kind, name |-> e.name].id
          = e.endpointId
  OBVIOUS
<1>2. QED
  BY <1>1 DEF Pool!UsedIds, LiveEndpoints, LiveIds

LEMMA PublishedEndpoints ==
  ASSUME ManagerInv, NEW index, NEW id, NEW kind, NEW deviceType, NEW name,
         Published(index, id, kind, deviceType, name)
  PROVE  LiveEndpoints' = LiveEndpoints \cup {[id |-> id, kind |-> kind, name |-> name]}
<1> DEFINE new == NewRecord(index, id, deviceType, name)
           d == [id |-> id, kind |-> kind, name |-> name]
<1>1. /\ epList' = epList \cup {new}
      /\ table' = [table EXCEPT ![index] = [id |-> id, kind |-> kind]]
      /\ index \in Slots \ UsedIndices
      /\ id \in Ids \ runningEP
      /\ \A j \in Ids \ runningEP : id <= j
  BY DEF Published, AddDeviceEndpoint, NewRecord
<1>2. new.endpointIndex = index /\ new.endpointId = id /\ new.name = name
  BY NewRecordFields
<1> HIDE DEF new
<1>3. \A e \in epList : table'[e.endpointIndex] = table[e.endpointIndex]
  BY <1>1 DEF UsedIndices, ManagerInv, PoolInv, TypeOK, EndpointRecords
<1>4. table'[index].kind = kind
  BY <1>1 DEF ManagerInv, PoolInv, TypeOK
<1>5. QED
  BY <1>1, <1>2, <1>3, <1>4 DEF LiveEndpoints

LEMMA PublishedRefines ==
  ASSUME ManagerInv, NEW index, NEW id, NEW kind \in Kinds, NEW deviceType,
         NEW name \in Names, Published(index, id, kind, deviceType, name)
  PROVE  Pool!Publish
<1> DEFINE d == [id |-> id, kind |-> kind, name |-> name]
<1>1. id \in Ids \ runningEP /\ \A j \in Ids \ runningEP : id <= j
  BY DEF Published
<1>2. LiveEndpoints' = LiveEndpoints \cup {d}
  BY PublishedEndpoints
<1>3. d \in Pool!Endpoints
  BY <1>1 DEF Pool!Endpoints, Pool!Ids, Ids
<1>4. Pool!FreeIds = Ids \ runningEP
  BY PoolUsedIds DEF Pool!FreeIds, Pool!Ids, Ids, ManagerInv, PoolInv, PoolInStep
<1>5. d.id = id
  OBVIOUS
<1>6. QED
  BY <1>1, <1>2, <1>3, <1>4, <1>5 DEF Pool!Publish

LEMMA DeletedRefines ==
  ASSUME ManagerInv, NEW kind, NEW id \in Ids, DelDeviceEndpoint(kind, id)
  PROVE  Pool!Remove(id)
<1>1. PICK e \in epList :
        /\ e.endpointId = id
        /\ table' = [table EXCEPT ![e.endpointIndex] = EmptySlot]
        /\ epList' = {f \in epList : f.endpointId # id}
  BY DEF DelDeviceEndpoint, DelDeviceList
<1>2. \A f \in epList' : table'[f.endpointIndex] = table[f.endpointIndex]
  BY <1>1 DEF ManagerInv, PoolInv, StackInStep, TypeOK, EndpointRecords
<1>3. LiveEndpoints' = {d \in LiveEndpoints : d.id # id}
  BY <1>1, <1>2 DEF LiveEndpoints
<1>4. id \in Pool!UsedIds
  BY <1>1, PoolUsedIds DEF LiveIds
<1>5. QED
  BY <1>3, <1>4 DEF Pool!Remove

LEMMA PublishRefines ==
  ASSUME ManagerInv, NEW kind \in Kinds, NEW deviceType, NEW name \in Names,
         PublishDevice(kind, deviceType, name)
  PROVE  Pool!Publish \/ UNCHANGED LiveEndpoints
<1>1. CASE UNCHANGED <<memory, file>>
  BY <1>1 DEF memory, LiveEndpoints
<1>2. QED
  BY <1>1, PublishOutcome, PublishedRefines DEF ManagerInv

LEMMA StepRefines ==
  ManagerInv /\ [Next]_vars => [Pool!Next]_LiveEndpoints
<1> SUFFICES ASSUME ManagerInv, [Next]_vars
             PROVE  Pool!Next \/ UNCHANGED LiveEndpoints
  OBVIOUS
<1>1. CASE UNCHANGED <<epList, table>>
  BY <1>1 DEF LiveEndpoints
<1>2. CASE RestoreSection
  <2>1. CASE UNCHANGED <<memory, file>>
    BY <2>1 DEF memory, LiveEndpoints
  <2>2. CASE /\ values[cursor].deviceType \in Kinds
             /\ PublishDevice(values[cursor].deviceType,
                              RestoreDeviceType[values[cursor].deviceType],
                              values[cursor].name)
    BY <2>2, <1>2, CurrentSectionType, PublishRefines
    DEF RestoreSection, ManagerInv, PoolInv, Pool!Next
  <2>3. QED
    BY <1>2, <2>1, <2>2 DEF RestoreSection
<1>3. ASSUME NEW kind \in Commands, Gen(kind)
      PROVE  Pool!Next \/ UNCHANGED LiveEndpoints
  <2>1. kind \in Kinds /\ NewName(kind, devIndex) \in Names
    BY NewNameType, ConstantsAssumption DEF ManagerInv, PoolInv, TypeOK
  <2>2. QED
    BY <1>3, <2>1, PublishRefines DEF Gen, Pool!Next
<1>4. ASSUME NEW kind \in Commands, NEW id \in Ids, DelCompletes(kind, id)
      PROVE  Pool!Next
  BY <1>4, DeletedRefines DEF DelCompletes, Pool!Next, Pool!Ids, Ids
<1>5. CASE ProcessEnds
  BY <1>5 DEF ProcessEnds, LiveEndpoints, Pool!Next, Pool!Stop
<1>6. QED
  BY <1>1, <1>2, <1>3, <1>4, <1>5
  DEF Next, Boot, RestoreEnds, Del, DelOutOfBounds, AttributeCallback, Crash, CrashInWrite,
      PowerCycle, vars, memory

\* The device manager implements the endpoint pool.
THEOREM ManagerImplementsPool ==
  ASSUME FreedReads = {}
  PROVE  Spec => PoolSpec
<1>1. Init => Pool!Init
  BY DEF Init, Pool!Init, LiveEndpoints
<1>2. QED
  BY <1>1, StepRefines, ManagerAlways, PTL DEF Spec, PoolSpec, Pool!Spec

=============================================================================
