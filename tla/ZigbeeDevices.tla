--------------------------- MODULE ZigbeeDevices ---------------------------
(***************************************************************************)
(* How main_backup.cpp turns the coordinator's end-device file into bridged *)
(* endpoints, and how a contact sensor's notification reaches its endpoint. *)
(*                                                                         *)
(* Three tables are indexed as if they were one: bridge_device, the arrays *)
(* Light, TempSensor and ContactSensor, and the dynamic endpoints of the   *)
(* stack.  Notifications pass from the thread that processes the received  *)
(* messages to the event loop as a pointer to a variable on the former's   *)
(* stack, which the next notification overwrites.                          *)
(*                                                                         *)
(* External: emberAfSetDynamicEndpoint, which takes an id that the stack   *)
(* does not know yet and may refuse for reasons of its own.                *)
(***************************************************************************)
EXTENDS Integers, Sequences, SequencesExt

CONSTANTS
  EndDevices,    \* the end-device file: a sequence of devices with their clusters
  First,         \* gFirstDynamicEndpointId
  Count,         \* CHIP_DEVICE_CONFIG_DYNAMIC_ENDPOINT_COUNT
  EndDeviceMax,  \* length of ED and of the arrays of objects
  Leftovers,     \* what other uses of resp's stack slot leave in it
  MaxNotices     \* bound on the notifications of a behaviour

Clusters == {"OnOff", "Temperature", "IasZone", "Other"}
Unknown == 0
IdValues == 65536  \* of an EndpointId

ASSUME DevicesAssumption ==
  /\ EndDevices \in Seq([addr : Nat \ {Unknown}, active : BOOLEAN, clusters : Seq(Clusters)])
  /\ Count \in Nat /\ First \in Nat \ {0} /\ First + Count < IdValues
  /\ EndDeviceMax \in Nat
  /\ MaxNotices \in Nat

VARIABLES
  adding,     \* how many entries add_device_thread has gone through
  slot,       \* the slot it has taken for the next one, or None
  arrays,     \* index -> cluster whose array holds an object there
  gDevices,   \* slot -> the index of the object in it, or None
  table,      \* slot -> the endpoint id the stack has there, or None
  currentId,  \* gCurrentEndpointId
  rx,         \* the notification being processed, or NoNotice
  resp,       \* the variable resp of rx_queue_process_handler
  work,       \* scheduled and not yet finished UpdateClusterStateInternal calls
  update,     \* what the call that the event loop runs has read of resp
  contact,    \* slot -> DeviceContactSensor state, Unset before the first
  notices,    \* how many notifications were received
  latest,     \* history: the latest notification of a known device, if it has a
              \* sensor and resp was not overwritten since
  alive       \* the process has not crashed

tables == <<adding, slot, arrays, gDevices, table, currentId>>
notifying == <<rx, resp, work, update, contact, notices, latest>>
vars == <<tables, notifying, alive>>

None == -1
Unset == "unset"
NoNotice == [addr |-> None]
Slots == 0 .. (Count - 1)

\* Where notifications come from: devices with an IAS zone, those that ED has
\* no room for among them, and one that joined after the file was read.
Notifiers ==
  {Unknown} \cup {EndDevices[k].addr : k \in
     {j \in DOMAIN EndDevices : "IasZone" \in ToSet(EndDevices[j].clusters)}}

-----------------------------------------------------------------------------
(* Read_EndDevice_File and Check_Dev_Info.                                 *)

IsBridged(cluster) == cluster \in {"OnOff", "Temperature", "IasZone"}

\* One entry for each bridged cluster of an active device, in file order.
Entries(device) ==
  IF device.active
  THEN FlattenSeq([c \in DOMAIN device.clusters |->
         IF IsBridged(device.clusters[c])
         THEN << [addr |-> device.addr, cluster |-> device.clusters[c]] >> ELSE << >>])
  ELSE << >>

\* Check_Dev_Info looks at the devices that ED has room for.
Bridged ==
  FlattenSeq([k \in {j \in DOMAIN EndDevices : j <= EndDeviceMax} |-> Entries(EndDevices[k])])

\* Fault: inactive devices take a device_index too.
EndpointOf_Inactive(i) ==
  First + i - 1 + Len(SelectSeq(EndDevices, LAMBDA d : ~d.active))

\* device_index + gFirstDynamicEndpointId.
EndpointOf(i) == First + i - 1

\* bridge_device, its first entry at 1.
bridge_device ==
  [i \in DOMAIN Bridged |->
     [addr |-> Bridged[i].addr, cluster |-> Bridged[i].cluster, endpoint |-> EndpointOf(i)]]

\* A response: an endpoint of bridge_device, or what the stack slot held.
Resp == [endpoint : 0 .. (First + Len(Bridged)), status : BOOLEAN]

ASSUME LeftoversAssumption == Leftovers \subseteq Resp

\* Nothing is read of resp yet.
Idle == [unread |-> {"endpoint", "status"}, endpoint |-> 0, status |-> FALSE]

\* A file longer than ED has overwritten what follows ED: the process ends, or
\* goes on with what this module keeps of its state.
Init ==
  /\ alive \in IF Len(EndDevices) > EndDeviceMax THEN BOOLEAN ELSE {TRUE}
  /\ adding = 0 /\ slot = None
  /\ arrays = << >>
  /\ gDevices = [s \in Slots |-> None] /\ table = [s \in Slots |-> None]
  /\ currentId = First
  /\ rx = NoNotice /\ resp \in Resp /\ work = 0 /\ update = Idle
  /\ contact = [s \in Slots |-> Unset]
  /\ notices = 0 /\ latest = NoNotice

-----------------------------------------------------------------------------
(* add_device_thread_handler.                                              *)

\* Fault: slots are not looked at, only the stack's answer.
FreeSlots_Any == Slots

FreeSlots == {s \in Slots : gDevices[s] = None}
UsedIds == {table[s] : s \in Slots}

\* A new object for the next entry, and its pointer in the first free slot:
\* gDevices[index] = dev, before the stack is locked.  Without a free slot
\* the object has no endpoint.
AddDevice ==
  /\ alive /\ adding < Len(bridge_device) /\ slot = None
  /\ LET dev == bridge_device[adding + 1]
         index == dev.endpoint - First
     IN  /\ index < EndDeviceMax
         /\ arrays' = [i \in DOMAIN arrays \cup {index} |->
                         IF i = index THEN dev.cluster ELSE arrays[i]]
         /\ \/ /\ FreeSlots = {}
               /\ adding' = adding + 1
               /\ UNCHANGED <<slot, gDevices>>
            \/ \E s \in FreeSlots :
                 /\ \A t \in FreeSlots : s <= t
                 /\ slot' = s
                 /\ gDevices' = [gDevices EXCEPT ![s] = index]
                 /\ UNCHANGED adding
  /\ UNCHANGED <<table, currentId, notifying, alive>>

\* The event loop has the stack's lock while it runs UpdateClusterStateInternal.
StackLocked == update.unread # Idle.unread

\* EMBER_ZCL_STATUS_SUCCESS: the endpoint is gCurrentEndpointId.
SetDynamicEndpoint ==
  /\ alive /\ slot # None /\ ~StackLocked
  /\ currentId \notin UsedIds
  /\ table' = [table EXCEPT ![slot] = currentId]
  /\ adding' = adding + 1 /\ slot' = None
  /\ UNCHANGED <<arrays, gDevices, currentId, notifying, alive>>

\* ++gCurrentEndpointId with its wrap condition.
NextId ==
  LET id == IF currentId + 1 = IdValues THEN 0 ELSE currentId + 1
  IN  IF id < First THEN First ELSE id

\* EMBER_ZCL_STATUS_DUPLICATE_EXISTS: the next id is tried.
DuplicateExists ==
  /\ alive /\ slot # None /\ ~StackLocked
  /\ currentId \in UsedIds
  /\ currentId' = NextId
  /\ UNCHANGED <<adding, slot, arrays, gDevices, table, notifying, alive>>

\* Any other status: return -1, and gDevices[index] stays.
RefuseEndpoint ==
  /\ alive /\ slot # None /\ ~StackLocked
  /\ adding' = adding + 1 /\ slot' = None
  /\ UNCHANGED <<arrays, gDevices, table, currentId, notifying, alive>>

\* Light[index] = new ... past the end of the array.
AddPastEnd ==
  /\ alive /\ adding < Len(bridge_device) /\ slot = None
  /\ bridge_device[adding + 1].endpoint - First >= EndDeviceMax
  /\ alive' = FALSE
  /\ UNCHANGED <<tables, notifying>>

-----------------------------------------------------------------------------
(* Contact sensors.                                                        *)

\* The entry whose endpoint a notification from addr ends up with.
LastEntry(addr) ==
  {i \in DOMAIN bridge_device :
     /\ bridge_device[i].addr = addr
     /\ \A j \in DOMAIN bridge_device : bridge_device[j].addr = addr => j <= i}

\* Slots up to the first whose endpoint is not there: one that the stack
\* refused shifts the ids of those after it.
Registered(s) == \A t \in 0 .. s : table[t] # None

\* Slots of the registered contact sensors that a notification from addr reaches.
SensorSlots(addr) ==
  {s \in Slots : Registered(s) /\ \E i \in LastEntry(addr) :
     bridge_device[i].cluster = "IasZone" /\ table[s] = bridge_device[i].endpoint}

\* A message 0x00230000 from addr: the search of bridge_device begins.
Notice(addr, status) ==
  /\ alive /\ rx = NoNotice /\ notices < MaxNotices
  /\ notices' = notices + 1
  /\ rx' = [addr |-> addr, status |-> status, next |-> 1, field |-> "endpoint"]
  /\ latest' = IF \A i \in DOMAIN bridge_device : bridge_device[i].addr # addr THEN latest
               ELSE IF SensorSlots(addr) = {} THEN NoNotice
               ELSE [addr |-> addr, status |-> status]
  /\ UNCHANGED <<tables, resp, work, update, contact, alive>>

Matches(i) == i >= rx.next /\ bridge_device[i].addr = rx.addr

\* resp.endpoint = dev.endpoint for the next entry with this address.
SetEndpoint ==
  /\ alive /\ rx # NoNotice /\ rx.field = "endpoint"
  /\ \E i \in DOMAIN bridge_device :
       /\ Matches(i)
       /\ \A j \in DOMAIN bridge_device : Matches(j) => i <= j
       /\ resp' = [resp EXCEPT !.endpoint = bridge_device[i].endpoint]
       /\ rx' = [rx EXCEPT !.next = i + 1, !.field = "status"]
  /\ UNCHANGED <<tables, work, update, contact, notices, latest, alive>>

\* resp.status = ...
SetStatus ==
  /\ alive /\ rx # NoNotice /\ rx.field = "status"
  /\ resp' = [resp EXCEPT !.status = rx.status]
  /\ rx' = [rx EXCEPT !.field = "endpoint"]
  /\ UNCHANGED <<tables, work, update, contact, notices, latest, alive>>

\* No entry is left: ScheduleWork(UpdateClusterStateInternal, &resp).
Schedule ==
  /\ alive /\ rx # NoNotice /\ rx.field = "endpoint"
  /\ \A i \in DOMAIN bridge_device : ~Matches(i)
  /\ work' = work + 1
  /\ rx' = NoNotice
  /\ UNCHANGED <<tables, resp, update, contact, notices, latest, alive>>

\* The block that declares resp is left: its stack slot may be used again.
Reuse ==
  /\ alive /\ rx = NoNotice
  /\ resp' \in Leftovers
  /\ latest' = NoNotice
  /\ UNCHANGED <<tables, rx, work, update, contact, notices, alive>>

Shown(value) == IF value THEN "true" ELSE "false"

\* UpdateClusterStateInternal on the event loop reads the two arguments of
\* StateValue::Set from resp, in an order C++ leaves open.
ReadResp(f) ==
  /\ alive /\ work > 0 /\ f \in update.unread
  /\ update' = [update EXCEPT ![f] = resp[f], !.unread = @ \ {f}]
  /\ UNCHANGED <<tables, rx, resp, work, contact, notices, latest, alive>>

\* Fault: the status is not inverted.
StateValue_Status == Shown(update.status)

StateValue == Shown(~update.status)

\* The value reaches the sensor whose endpoint was read, if that endpoint has
\* the BooleanState cluster.
UpdateClusterState ==
  /\ alive /\ update.unread = {}
  /\ contact' = [s \in Slots |->
       IF table[s] = update.endpoint /\ arrays[gDevices[s]] = "IasZone"
       THEN StateValue ELSE contact[s]]
  /\ work' = work - 1 /\ update' = Idle
  /\ UNCHANGED <<tables, rx, resp, notices, latest, alive>>

Next ==
  \/ AddDevice
  \/ AddPastEnd
  \/ SetDynamicEndpoint
  \/ DuplicateExists
  \/ RefuseEndpoint
  \/ \E addr \in Notifiers, status \in BOOLEAN : Notice(addr, status)
  \/ SetEndpoint
  \/ SetStatus
  \/ Schedule
  \/ Reuse
  \/ \E f \in {"endpoint", "status"} : ReadResp(f)
  \/ UpdateClusterState

Spec == Init /\ [][Next]_vars

-----------------------------------------------------------------------------
(* Properties.                                                             *)

\* Every variable keeps to its type.
TypeOK ==
  /\ adding \in 0 .. Len(bridge_device) /\ slot \in {None} \cup Slots
  /\ DOMAIN arrays \subseteq 0 .. (EndDeviceMax - 1)
  /\ \A i \in DOMAIN arrays : arrays[i] \in Clusters \ {"Other"}
  /\ gDevices \in [Slots -> {None} \cup DOMAIN arrays]
  /\ table \in [Slots -> {None} \cup (First .. (First + Count - 1))]
  /\ currentId \in First .. (First + Count)
  /\ resp \in Resp /\ work \in 0 .. notices /\ notices \in 0 .. MaxNotices
  /\ update \in [unread : SUBSET {"endpoint", "status"},
                 endpoint : 0 .. (First + Len(Bridged)), status : BOOLEAN]
  /\ contact \in [Slots -> {Unset, "true", "false"}]

\* The callbacks and gw_cmd_* look up bridge_device, Light, TempSensor and
\* ContactSensor with the index of a dynamic endpoint: the entry there has
\* that endpoint, and the object there is the endpoint's own.  This holds up
\* to the first endpoint that the stack has refused.
TablesAligned ==
  \A s \in Slots : Registered(s) =>
    /\ s + 1 \in DOMAIN bridge_device
    /\ bridge_device[s + 1].endpoint = table[s]
    /\ gDevices[s] = s
    /\ arrays[s] = bridge_device[s + 1].cluster

\* Once no notification is under way, the registered sensor that the latest
\* one came from shows it, although the event loop reads resp while the next
\* notification is written there: what was torn is repaired, unless other
\* code has used resp's stack slot since.
LatestNoticeLands ==
  rx = NoNotice /\ work = 0 /\ latest # NoNotice =>
    \A s \in SensorSlots(latest.addr) : contact[s] = Shown(~latest.status)
=============================================================================
