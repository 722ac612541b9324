--------------------------- MODULE DeviceManager ---------------------------
(***************************************************************************)
(* DeviceManager and what it keeps in step: its own lists, the dynamic     *)
(* endpoint table of the Matter stack, and the INI file from which Init    *)
(* publishes the devices again after a restart.                            *)
(*                                                                         *)
(* Every handler is one action.  Init runs before any other thread exists; *)
(* afterwards only the command-line thread changes the lists, and it holds *)
(* the Matter stack lock (StackLock) from before the first change to the   *)
(* end of write(), while the attribute callbacks run under the same lock.  *)
(* The process can die at any time, inside write() too.                    *)
(***************************************************************************)
EXTENDS IniFile, Sequences, SequencesExt

CONSTANTS
  First,        \* gFirstDynamicEndpointId
  Count,        \* CHIP_DEVICE_CONFIG_DYNAMIC_ENDPOINT_COUNT
  Commands,     \* the kinds the operator generates and deletes
  FreedReads,   \* ids a read of a freed deviceEP_t may return besides its own
  MaxDevIndex   \* bound on gen* commands in one life of the process

InvalidEndpointId == 65535      \* (EndpointId) -1, kInvalidEndpointId

ASSUME ConstantsAssumption ==
  /\ First \in Nat
  /\ Count \in Nat
  /\ First + Count <= InvalidEndpointId
  /\ Commands \subseteq Kinds
  /\ FreedReads \subseteq Nat
  /\ MaxDevIndex \in Nat

VARIABLES
  phase,       \* "down", "init" (DeviceManager::Init) or "run"
  epList,      \* epList, the set of deviceEP_t records
  devList,     \* devList<T, M> by kind: the endpoint ids of its entries
  runningEP,   \* runningEP, the ids in use
  table,       \* the dynamic endpoints of the Matter stack, by index
  values,      \* INIConfig::_values
  file,        \* the file on disk
  cursor,      \* the loop variable of Init
  devIndex,    \* dev_index of the command line
  loaded       \* history: the sections Init found, while it runs

memory == <<epList, devList, runningEP, table, values>>
vars == <<phase, memory, file, cursor, devIndex, loaded>>

Ids == First .. (First + Count - 1)
Slots == 0 .. (Count - 1)

EndpointRecords ==
  [endpointIndex : Slots, endpointId : Ids, deviceType : DeviceTypes, name : Names]

EmptySlot == [id |-> InvalidEndpointId, kind |-> NoType]
NoDevices == [kind \in Kinds |-> << >>]
NoEndpoints == [i \in Slots |-> EmptySlot]

LiveIds == {e.endpointId : e \in epList}
UsedIndices == {e.endpointIndex : e \in epList}

-----------------------------------------------------------------------------
(* Lookups and the stack's endpoint table.                                 *)

\* Fault: the search stops one id early.
GetEndpointId_Short(id) ==
  LET free == (First .. (First + Count - 2)) \ runningEP
  IN  \/ id \in free /\ \A j \in free : id <= j
      \/ free = {} /\ id = InvalidEndpointId

\* GetEndpointId returns id: the lowest id not in runningEP, or -1.
GetEndpointId(id) ==
  LET free == Ids \ runningEP
  IN  \/ id \in free /\ \A j \in free : id <= j
      \/ free = {} /\ id = InvalidEndpointId

\* emberAfSetDynamicEndpoint: what it answers.
SetDynamicEndpoint(index, id) ==
  IF index >= Count \/ id = InvalidEndpointId THEN "FAILURE"
  ELSE IF \E i \in Slots : table[i].id = id THEN "DUPLICATE_EXISTS"
  ELSE "SUCCESS"

\* The loop of AddDeviceEndpoint ends at index: the first one without an
\* epList entry for which the stack does not answer DUPLICATE_EXISTS.
LastIndexTried(index, id) ==
  LET ending == {i \in (0 .. Count) \ UsedIndices :
                   SetDynamicEndpoint(i, id) # "DUPLICATE_EXISTS"}
  IN  index \in ending /\ \A i \in ending : index <= i

\* GetDevice<T, M>(id) finds an entry.
GetDevice(kind, id) == \E i \in DOMAIN devList[kind] : devList[kind][i] = id

\* Fault: the Matter type is stored instead of deviceTypeName.
SectionOf_MatterType(kind, name) == [deviceType |-> GenDeviceType[kind], name |-> name]

SectionOf(kind, name) == [deviceType |-> kind, name |-> name]

Save(store) ==
  /\ values' = store
  /\ file' = WholeFile(store)

\* Faults: an id never marked as used, an id never given back, a record
\* that stays in epList.
AddEndpointId_Forgotten(id) == UNCHANGED runningEP
DelEndpointId_Forgotten(id) == UNCHANGED runningEP
DelDeviceList_NotErased(id) == UNCHANGED epList

AddEndpointId(id) == runningEP' = runningEP \cup {id}

DelEndpointId(id) == runningEP' = runningEP \ {id}

DelDeviceList(id) == epList' = {e \in epList : e.endpointId # id}

-----------------------------------------------------------------------------
(* publishDevice and DelDeviceEndpoint.                                    *)

AddDeviceEndpoint(index, id, kind, deviceType, name) ==
  /\ SetDynamicEndpoint(index, id) = "SUCCESS"
  /\ table' = [table EXCEPT ![index] = [id |-> id, kind |-> kind]]
  /\ devList' = [devList EXCEPT ![kind] = Append(@, id)]
  /\ epList' = epList \cup {[endpointIndex |-> index, endpointId |-> id,
                             deviceType |-> deviceType, name |-> name]}
  /\ Save(SetSection(values, id, SectionOf(kind, name)))
  /\ AddEndpointId(id)

PublishDevice(kind, deviceType, name) ==
  \E id \in Ids \cup {InvalidEndpointId}, index \in 0 .. Count :
    /\ GetEndpointId(id)
    /\ LastIndexTried(index, id)
    /\ \/ AddDeviceEndpoint(index, id, kind, deviceType, name)
       \/ /\ SetDynamicEndpoint(index, id) # "SUCCESS"
          /\ UNCHANGED <<memory, file>>

\* The values a field of a freed deviceEP_t can be read as.
FreedRead(id) == {id} \cup FreedReads

\* DelDevice<T, M>(a) after DelDeviceList left the records in remaining:
\* if one has id a, the a-th entry of the kind's devList is erased.
DelDevice(kind, a, remaining) ==
  \/ /\ \A e \in remaining : e.endpointId # a
     /\ UNCHANGED devList
  \/ /\ \E e \in remaining : e.endpointId = a
     /\ a < Len(devList[kind])
     /\ devList' = [devList EXCEPT ![kind] = RemoveAt(@, a + 1)]

\* The record of id is deleted first; its endpointId is then read three
\* times more, for DelDevice, DelEndpointId and the section's name.
DelDeviceEndpoint(kind, id) ==
  \E e \in epList, a, b, c \in FreedRead(id) :
    /\ e.endpointId = id
    /\ table' = [table EXCEPT ![e.endpointIndex] = EmptySlot]
    /\ DelDeviceList(id)
    /\ DelDevice(kind, a, {f \in epList : f.endpointId # id})
    /\ DelEndpointId(b)
    /\ Save(DelSection(values, c))

-----------------------------------------------------------------------------
(* The life of the process.                                                *)

\* All memory goes with the process, the stack's table included.
ProcessEnds ==
  /\ phase' = "down"
  /\ epList' = {}
  /\ devList' = NoDevices
  /\ runningEP' = {}
  /\ table' = NoEndpoints
  /\ values' = EmptyStore
  /\ cursor' = First
  /\ devIndex' = 0
  /\ loaded' = EmptyStore

Init ==
  /\ phase = "down"
  /\ epList = {}
  /\ devList = NoDevices
  /\ runningEP = {}
  /\ table = NoEndpoints
  /\ values = EmptyStore
  /\ file = WholeFile(EmptyStore)
  /\ cursor = First
  /\ devIndex = 0
  /\ loaded = EmptyStore

\* INIConfig::Init; a malformed file throws and the process never starts.
Boot ==
  /\ phase = "down"
  /\ ~file.malformed
  /\ phase' = "init"
  /\ values' = file.sections
  /\ loaded' = file.sections
  /\ UNCHANGED <<epList, devList, runningEP, table, file, cursor, devIndex>>

\* Faults: the loop variable is advanced twice, or not at all.
NextSection_Twice == cursor' = cursor + 2
NextSection_Stuck == UNCHANGED cursor

NextSection == cursor' = cursor + 1

\* Fault: the loop takes the number of endpoints for the last endpoint's id.
MoreSections_Count == cursor < Count /\ CheckSection(values, cursor)

\* The condition under which the loop of Init goes on.
MoreSections == cursor < Count + 3 + 1 /\ CheckSection(values, cursor)

\* One iteration: the section is published under the lowest free id, or
\* ignored when its type is none of the five names.
RestoreSection ==
  /\ phase = "init"
  /\ MoreSections
  /\ LET section == values[cursor]
     IN  \/ /\ section.deviceType \in Kinds
            /\ PublishDevice(section.deviceType,
                             RestoreDeviceType[section.deviceType], section.name)
         \/ /\ section.deviceType = NoType
            /\ UNCHANGED <<memory, file>>
  /\ NextSection
  /\ UNCHANGED <<phase, devIndex, loaded>>

\* Init returns and the command-line thread is created.
RestoreEnds ==
  /\ phase = "init"
  /\ ~MoreSections
  /\ phase' = "run"
  /\ cursor' = First
  /\ loaded' = EmptyStore
  /\ UNCHANGED <<memory, file, devIndex>>

Gen(kind) ==
  /\ phase = "run"
  /\ devIndex < MaxDevIndex
  /\ PublishDevice(kind, GenDeviceType[kind], NewName(kind, devIndex))
  /\ devIndex' = devIndex + 1
  /\ UNCHANGED <<phase, cursor, loaded>>

\* The delete goes through.
DelCompletes(kind, id) ==
  /\ DelDeviceEndpoint(kind, id)
  /\ UNCHANGED <<phase, cursor, devIndex, loaded>>

\* DelDevice indexes devList past its end.
DelOutOfBounds(kind, id) ==
  /\ id \in LiveIds
  /\ \E a \in FreedRead(id) :
       /\ a \in LiveIds \ {id}
       /\ a >= Len(devList[kind])
  /\ ProcessEnds
  /\ UNCHANGED file

Del(kind, id) ==
  /\ phase = "run"
  /\ DelCompletes(kind, id) \/ DelOutOfBounds(kind, id)

\* An attribute read or write whose handler gets nullptr from GetDevice and
\* dereferences it.  (One that finds a device changes nothing here.)
AttributeCallback(id) ==
  /\ phase = "run"
  /\ \E i \in Slots : table[i].id = id
  /\ \E e \in epList : e.endpointId = id /\ ~GetDevice(HandlerKind[e.deviceType], id)
  /\ ProcessEnds
  /\ UNCHANGED file

Crash ==
  /\ phase # "down"
  /\ ProcessEnds
  /\ UNCHANGED file

\* The stores that publishDevice, or the next handler, could be writing.
PublishWrites(kind, name) ==
  {SetSection(values, id, SectionOf(kind, name)) :
     id \in {i \in Ids : GetEndpointId(i) /\ \E index \in Slots : LastIndexTried(index, i)}}

GenWrites == UNION {PublishWrites(kind, NewName(kind, devIndex)) : kind \in Commands}

DelWrites == {DelSection(values, c) : c \in UNION {FreedRead(id) : id \in LiveIds}}

PendingWrites ==
  IF phase = "run" THEN GenWrites \cup DelWrites
  ELSE IF phase = "init" /\ MoreSections /\ values[cursor].deviceType \in Kinds
  THEN PublishWrites(values[cursor].deviceType, values[cursor].name)
  ELSE {}

CrashInWrite ==
  /\ phase # "down"
  /\ file' \in UNION {TornFiles(store) : store \in PendingWrites}
  /\ ProcessEnds

\* The file lies in /tmp, which a power cycle empties.
PowerCycle ==
  /\ file' = WholeFile(EmptyStore)
  /\ ProcessEnds

Next ==
  \/ Boot
  \/ RestoreSection
  \/ RestoreEnds
  \/ \E kind \in Commands : Gen(kind)
  \/ \E kind \in Commands, id \in Ids : Del(kind, id)
  \/ \E id \in Ids : AttributeCallback(id)
  \/ Crash
  \/ CrashInWrite
  \/ PowerCycle

Spec == Init /\ [][Next]_vars

-----------------------------------------------------------------------------
(* Properties.                                                             *)

TypeOK ==
  /\ phase \in {"down", "init", "run"}
  /\ epList \subseteq EndpointRecords
  /\ devList \in [Kinds -> Seq(Nat)]
  /\ runningEP \subseteq Ids
  /\ table \in [Slots -> [id : Ids \cup {InvalidEndpointId}, kind : Kinds \cup {NoType}]]
  /\ IsStore(values)
  /\ file.malformed \in BOOLEAN
  /\ IsStore(file.sections)
  /\ cursor \in Nat
  /\ devIndex \in 0 .. MaxDevIndex
  /\ IsStore(loaded)

\* No two live endpoints share an id or an index, and the Matter stack's
\* table holds exactly the endpoints of epList, each at its index, whatever
\* the reads of the freed record in DelDeviceEndpoint return.
StackInStep ==
  /\ \A e, f \in epList : e.endpointId = f.endpointId \/ e.endpointIndex = f.endpointIndex
                          => e = f
  /\ \A e \in epList : table[e.endpointIndex].id = e.endpointId
  /\ \A i \in Slots : table[i] # EmptySlot => i \in UsedIndices

\* The allocator's set of used ids is exactly the ids of the live endpoints,
\* and ids and indices stay in lockstep, so that the lowest free id and the
\* lowest free index always belong together.
PoolInStep ==
  /\ runningEP = LiveIds
  /\ \A e \in epList : e.endpointId = First + e.endpointIndex

\* While Init replays a file whose sections all have a type, it gives every
\* section its own number as endpoint id and leaves the store as it was: a
\* device keeps its identity over a restart.
ReplayKeepsIdentity ==
  phase = "init" /\ (\A i \in DOMAIN loaded : loaded[i].deviceType # NoType) =>
    /\ values = loaded
    /\ LiveIds = First .. (cursor - 1)

\* The attribute callbacks never dereference a null device: for every live
\* endpoint the handler its device type selects finds an entry.
DispatchFindsDevice ==
  \A e \in epList : GetDevice(HandlerKind[e.deviceType], e.endpointId)

\* The per-kind device lists are bounded by the number of endpoints.
DevListBounded == \A kind \in Kinds : Len(devList[kind]) <= Count + 1

\* A gen* command given while an endpoint is free publishes one.
PublishSucceeds ==
  [][devIndex' > devIndex /\ UsedIndices # Slots => epList' # epList]_vars

\* Sections of endpoints that are not live.
Orphans == DOMAIN values \ LiveIds

\* A running process never makes a section outlive its endpoint: what the
\* operator deletes is not published again by the next start.
DeletedStaysDeleted ==
  [][phase = "run" /\ phase' = "run" => Orphans' \subseteq Orphans]_vars

\* A start with a readable file gets through Init to the command line.
InitEnds == phase = "init" ~> phase \in {"run", "down"}

\* What a user sees of the manager: its endpoints, each with the kind the
\* stack was given and the name the manager recorded.
LiveEndpoints ==
  {[id |-> e.endpointId, kind |-> table[e.endpointIndex].kind, name |-> e.name] :
     e \in epList}

Pool == INSTANCE EndpointPool WITH live <- LiveEndpoints

\* The manager implements the endpoint pool: a gen* command or a restored
\* section takes the lowest free id and leaves the other endpoints alone, a
\* Del* command takes away one endpoint, and nothing else changes them.
PoolSpec == Pool!Spec

=============================================================================
