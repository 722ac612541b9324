------------------------ MODULE ZigbeeDevicesProofs ------------------------
(***************************************************************************)
(* Proofs about the tables of bridged endpoints and about notifications,   *)
(* for any end-device file, any order of the two threads' steps and any    *)
(* use of the stack slot of resp.                                          *)
(***************************************************************************)
EXTENDS ZigbeeDevices, Iteration, SequenceTheorems

LEMMA ElementType ==
  ASSUME NEW S, NEW s \in Seq(S), NEW i \in 1 .. Len(s)
  PROVE  s[i] \in S
OBVIOUS

-----------------------------------------------------------------------------
(* bridge_device, for a file of any length.                                *)

\* FlattenSeq is a loop over the sequences: what it has appended so far is a
\* sequence of their elements.
LEMMA FlattenedType ==
  ASSUME NEW S, NEW seqs \in Seq(Seq(S))
  PROVE  FlattenSeq(seqs) \in Seq(S)
<1> DEFINE m == Len(seqs)
           Body(f) == [i \in 1 .. m |-> IF i = 1 THEN seqs[i] ELSE f[i - 1] \o seqs[i]]
           flatten == CHOOSE f : f = Body(f)
           F == [x \in Seq(S) \X (0 .. (m - 1) - 1) |-> x[1] \o seqs[x[2] + 2]]
<1>1. m \in Nat /\ \A i \in 1 .. m : seqs[i] \in Seq(S)
  BY ElementType
<1>2. CASE m = 0
  BY <1>2 DEF FlattenSeq
<1>3. CASE m # 0
  <2>1. m - 1 \in Nat /\ 1 \in 1 .. m /\ m \in 1 .. m
    BY <1>1, <1>3
  <2>2. FlattenSeq(seqs) = flatten[m]
    BY <1>3 DEF FlattenSeq
  <2> HIDE DEF m
  <2>3. F \in Steps(Seq(S), m - 1)
    <3>1. ASSUME NEW x \in Seq(S) \X (0 .. (m - 1) - 1)
          PROVE  x[1] \o seqs[x[2] + 2] \in Seq(S)
      <4>1. x[1] \in Seq(S) /\ x[2] + 2 \in 1 .. m
        BY <1>1
      <4>2. QED
        BY <4>1, <1>1
    <3>2. QED
      BY <3>1 DEF Steps
  <2>4. PICK h : Values(Seq(S), F, seqs[1], m - 1, h)
    <3> HIDE DEF F
    <3>1. QED
      BY <1>1, <2>1, <2>3, ValuesExist
  <2>5. /\ h \in [0 .. m - 1 -> Seq(S)] /\ h[0] = seqs[1]
        /\ \A i \in 0 .. (m - 1) - 1 : h[i + 1] = h[i] \o seqs[i + 2]
    <3>1. /\ h \in [0 .. m - 1 -> Seq(S)] /\ h[0] = seqs[1]
          /\ \A i \in 0 .. (m - 1) - 1 : h[i + 1] = F[<<h[i], i>>]
      BY <2>4 DEF Values
    <3>2. ASSUME NEW i \in 0 .. (m - 1) - 1 PROVE F[<<h[i], i>>] = h[i] \o seqs[i + 2]
      <4>1. h[i] \in Seq(S)
        BY <1>1, <3>1
      <4>2. QED
        BY <4>1
    <3> HIDE DEF F
    <3>3. QED
      BY <3>1, <3>2
  <2> DEFINE f == [i \in 1 .. m |-> h[i - 1]]
  <2>6. f = Body(f)
    <3>1. ASSUME NEW i \in 1 .. m
          PROVE  f[i] = IF i = 1 THEN seqs[i] ELSE f[i - 1] \o seqs[i]
      <4>1. CASE i = 1
        BY <4>1, <2>5
      <4>2. CASE i # 1
        <5>1. i - 2 \in 0 .. (m - 1) - 1 /\ (i - 2) + 1 = i - 1 /\ (i - 2) + 2 = i
              /\ i - 1 \in 1 .. m /\ (i - 1) - 1 = i - 2
          BY <1>1, <4>2
        <5>2. h[i - 1] = h[i - 2] \o seqs[i]
          BY <2>5, <5>1
        <5>3. f[i] = h[i - 1] /\ f[i - 1] = h[i - 2]
          BY <5>1
        <5>4. QED
          BY <4>2, <5>2, <5>3
      <4>3. QED
        BY <4>1, <4>2
    <3>2. f = [i \in 1 .. m |-> f[i]]
      OBVIOUS
    <3> HIDE DEF f
    <3>3. QED
      BY <3>1, <3>2
  <2> HIDE DEF f
  <2>7. flatten = Body(flatten)
    <3>1. \E g : g = Body(g)
      BY <2>6
    <3> HIDE DEF Body
    <3>2. QED
      BY <3>1
  <2>8. /\ flatten[1] = seqs[1]
        /\ \A i \in 1 .. m - 1 : flatten[i + 1] = flatten[i] \o seqs[i + 1]
    <3> HIDE DEF flatten
    <3>1. flatten[1] = seqs[1]
      BY <2>1, <2>7
    <3>2. ASSUME NEW i \in 1 .. m - 1 PROVE flatten[i + 1] = flatten[i] \o seqs[i + 1]
      <4>1. i + 1 \in 1 .. m /\ i + 1 # 1 /\ (i + 1) - 1 = i
        BY <1>1
      <4>2. QED
        BY <2>7, <4>1
    <3>3. QED
      BY <3>1, <3>2
  <2> HIDE DEF flatten, Body
  <2> DEFINE N == {n \in Nat : n + 1 <= m => flatten[n + 1] \in Seq(S)}
  <2>9. 0 \in N
    BY <1>1, <2>1, <2>8
  <2>10. ASSUME NEW n \in Nat, n \in N PROVE n + 1 \in N
    <3> SUFFICES ASSUME (n + 1) + 1 <= m PROVE flatten[(n + 1) + 1] \in Seq(S)
      OBVIOUS
    <3>1. n + 1 \in 1 .. m - 1 /\ (n + 1) + 1 \in 1 .. m /\ n + 1 <= m
      BY <1>1
    <3>2. flatten[n + 1] \in Seq(S) /\ seqs[(n + 1) + 1] \in Seq(S)
      BY <1>1, <2>10, <3>1
    <3>3. flatten[(n + 1) + 1] = flatten[n + 1] \o seqs[(n + 1) + 1]
      BY <2>8, <3>1
    <3>4. flatten[n + 1] \o seqs[(n + 1) + 1] \in Seq(S)
      BY <3>2
    <3>5. QED
      BY <3>3, <3>4
  <2>11. \A n \in Nat : n \in N
    <3> HIDE DEF N
    <3>1. QED
      BY <2>9, <2>10, Induction
  <2>12. flatten[m] \in Seq(S)
    <3>1. m - 1 \in Nat /\ (m - 1) + 1 = m /\ (m - 1) + 1 <= m
      BY <1>1, <2>1
    <3>2. m - 1 \in N
      <4> HIDE DEF N
      <4>1. QED
        BY <2>11, <3>1
    <3>3. QED
      BY <3>1, <3>2
  <2>13. QED
    BY <2>2, <2>12
<1>4. QED
  BY <1>2, <1>3

FileEntry == [addr : Nat \ {Unknown}, cluster : Clusters \ {"Other"}]

LEMMA EntriesType ==
  ASSUME NEW device \in [addr : Nat \ {Unknown}, active : BOOLEAN, clusters : Seq(Clusters)]
  PROVE  Entries(device) \in Seq(FileEntry)
<1> DEFINE Of(c) == IF IsBridged(device.clusters[c])
                    THEN << [addr |-> device.addr, cluster |-> device.clusters[c]] >>
                    ELSE << >>
           seqs == [c \in DOMAIN device.clusters |-> Of(c)]
<1>1. CASE device.active
  <2>1. /\ device.clusters \in Seq(Clusters) /\ device.addr \in Nat \ {Unknown}
        /\ DOMAIN device.clusters = 1 .. Len(device.clusters)
        /\ Len(device.clusters) \in Nat
    OBVIOUS
  <2>2. ASSUME NEW c \in 1 .. Len(device.clusters) PROVE Of(c) \in Seq(FileEntry)
    <3>1. device.clusters[c] \in Clusters
      BY <2>1, ElementType
    <3>2. CASE IsBridged(device.clusters[c])
      <4>1. [addr |-> device.addr, cluster |-> device.clusters[c]] \in FileEntry
        BY <2>1, <3>1, <3>2 DEF FileEntry, IsBridged
      <4>2. QED
        BY <3>2, <4>1
    <3>3. CASE ~IsBridged(device.clusters[c])
      BY <3>3
    <3>4. QED
      BY <3>2, <3>3
  <2>3. Entries(device) = FlattenSeq(seqs)
    BY <1>1 DEF Entries
  <2> HIDE DEF Of
  <2>4. seqs \in Seq(Seq(FileEntry))
    BY <2>1, <2>2
  <2> HIDE DEF seqs
  <2>5. QED
    BY <2>3, <2>4, FlattenedType
<1>2. CASE ~device.active
  BY <1>2 DEF Entries
<1>3. QED
  BY <1>1, <1>2

LEMMA BridgedEntries ==
  Bridged \in Seq([addr : Nat \ {Unknown}, cluster : Clusters \ {"Other"}])
<1> DEFINE Device == [addr : Nat \ {Unknown}, active : BOOLEAN, clusters : Seq(Clusters)]
           room == {j \in DOMAIN EndDevices : j <= EndDeviceMax}
           seqs == [k \in room |-> Entries(EndDevices[k])]
<1>1. EndDevices \in Seq(Device)
  BY DevicesAssumption
<1> HIDE DEF Device
<1>2. DOMAIN EndDevices = 1 .. Len(EndDevices) /\ Len(EndDevices) \in Nat
  BY <1>1
<1>3. ASSUME NEW k \in 1 .. Len(EndDevices) PROVE Entries(EndDevices[k]) \in Seq(FileEntry)
  <2>1. EndDevices[k] \in Device
    BY <1>1, ElementType
  <2>2. QED
    BY <2>1, EntriesType DEF Device
<1>4. seqs \in Seq(Seq(FileEntry))
  <2>1. PICK n \in Nat : room = 1 .. n /\ n <= Len(EndDevices)
    <3>1. CASE Len(EndDevices) <= EndDeviceMax
      <4>1. room = 1 .. Len(EndDevices)
        BY <1>2, <3>1, DevicesAssumption
      <4>2. QED
        BY <1>2, <4>1
    <3>2. CASE EndDeviceMax < Len(EndDevices)
      <4>1. room = 1 .. EndDeviceMax /\ EndDeviceMax \in Nat
        BY <1>2, <3>2, DevicesAssumption
      <4>2. QED
        BY <1>2, <3>2, <4>1
    <3>3. EndDeviceMax \in Nat /\ Len(EndDevices) \in Nat
      BY <1>2, DevicesAssumption
    <3>4. Len(EndDevices) <= EndDeviceMax \/ EndDeviceMax < Len(EndDevices)
      BY <3>3
    <3>5. QED
      BY <3>1, <3>2, <3>4
  <2>2. \A k \in 1 .. n : Entries(EndDevices[k]) \in Seq(FileEntry)
    BY <1>2, <1>3, <2>1
  <2>3. seqs = [k \in 1 .. n |-> Entries(EndDevices[k])]
    BY <2>1
  <2> HIDE DEF seqs
  <2>4. QED
    BY <2>2, <2>3
<1>5. Bridged = FlattenSeq(seqs)
  BY DEF Bridged
<1> HIDE DEF seqs
<1>6. Bridged \in Seq(FileEntry)
  BY <1>4, <1>5, FlattenedType
<1>7. QED
  BY <1>6 DEF FileEntry

LEMMA BridgeDevice ==
  /\ Len(bridge_device) = Len(Bridged)
  /\ Len(bridge_device) \in Nat
  /\ DOMAIN bridge_device = 1 .. Len(bridge_device)
  /\ \A i \in 1 .. Len(bridge_device) :
       /\ bridge_device[i].endpoint = First + i - 1
       /\ bridge_device[i].cluster \in Clusters \ {"Other"}
<1>1. DOMAIN bridge_device = 1 .. Len(Bridged) /\ Len(Bridged) \in Nat
  BY BridgedEntries DEF bridge_device
<1> DEFINE Entry(i) == [addr |-> Bridged[i].addr, cluster |-> Bridged[i].cluster,
                        endpoint |-> EndpointOf(i)]
<1>2. bridge_device = [i \in 1 .. Len(Bridged) |-> Entry(i)]
  BY BridgedEntries DEF bridge_device
<1> HIDE DEF Entry
<1>3. Len(bridge_device) = Len(Bridged)
  BY <1>1, <1>2
<1>4. \A i \in 1 .. Len(Bridged) :
        /\ bridge_device[i].endpoint = First + i - 1
        /\ bridge_device[i].cluster = Bridged[i].cluster
  BY <1>1 DEF bridge_device, EndpointOf
<1>5. \A i \in 1 .. Len(Bridged) : Bridged[i].cluster \in Clusters \ {"Other"}
  <2>1. \A i \in 1 .. Len(Bridged) :
          Bridged[i] \in [addr : Nat \ {Unknown}, cluster : Clusters \ {"Other"}]
    BY ElementType, BridgedEntries
  <2>2. QED
    BY <2>1
<1>6. QED
  BY <1>1, <1>3, <1>4, <1>5

\* Entries with an object: those gone through, and the one being registered.
Objects == IF slot = None THEN adding ELSE adding + 1

\* Each entry has the object and, as long as there are any, the slot of its
\* number; an id is never ahead of its slot, and falls behind only when an
\* earlier endpoint was refused.
AlignInv ==
  /\ adding \in 0 .. Len(bridge_device)
  /\ slot # None => slot = adding /\ slot \in Slots /\ adding < Len(bridge_device)
  /\ gDevices = [s \in Slots |-> IF s < Objects THEN s ELSE None]
  /\ table \in [Slots -> {None} \cup Nat]
  /\ \A s \in Slots : table[s] # None => s < adding /\ table[s] \in First .. (First + s)
  /\ \A s \in Slots : Registered(s) => table[s] = First + s
  /\ currentId \in First .. (First + adding) /\ currentId <= First + Count
  /\ DOMAIN arrays = 0 .. (Objects - 1)
  /\ \A i \in 0 .. (Objects - 1) :
       i < EndDeviceMax /\ arrays[i] = bridge_device[i + 1].cluster

\* AddDevice takes the element and the slot of the entry's number.
LEMMA AddedDevice ==
  ASSUME AlignInv, AddDevice
  PROVE  AlignInv'
<1> DEFINE dev == bridge_device[adding + 1]
           index == dev.endpoint - First
<1>1. /\ adding \in Nat /\ adding < Len(bridge_device) /\ First \in Nat /\ Count \in Nat
      /\ Len(bridge_device) \in Nat /\ Slots \subseteq Nat /\ slot = None
  BY DevicesAssumption, BridgeDevice DEF AddDevice, AlignInv, Slots
<1>2. index = adding
  BY <1>1, BridgeDevice
<1>3. /\ index < EndDeviceMax
      /\ arrays' = [i \in DOMAIN arrays \cup {index} |->
                      IF i = index THEN dev.cluster ELSE arrays[i]]
      /\ UNCHANGED <<table, currentId>>
      /\ \/ /\ FreeSlots = {}
            /\ adding' = adding + 1
            /\ UNCHANGED <<slot, gDevices>>
         \/ \E s \in FreeSlots :
              /\ \A t \in FreeSlots : s <= t
              /\ slot' = s
              /\ gDevices' = [gDevices EXCEPT ![s] = index]
              /\ UNCHANGED adding
  BY <1>1 DEF AddDevice
<1> HIDE DEF dev, index
<1>4. FreeSlots = {s \in Slots : ~(s < adding)} /\ Objects = adding
  BY <1>1 DEF FreeSlots, AlignInv, Objects, None
<1>5. /\ DOMAIN arrays' = 0 .. ((adding + 1) - 1)
      /\ \A i \in 0 .. ((adding + 1) - 1) :
           i < EndDeviceMax /\ arrays'[i] = bridge_device[i + 1].cluster
  <2>1. DOMAIN arrays = 0 .. (adding - 1)
    BY <1>4 DEF AlignInv
  <2>2. \A i \in 0 .. (adding - 1) :
          i < EndDeviceMax /\ arrays[i] = bridge_device[i + 1].cluster
    BY <1>4 DEF AlignInv
  <2>3. QED
    BY <1>1, <1>2, <1>3, <2>1, <2>2 DEF dev
<1>6. CASE FreeSlots = {}
  <2>1. /\ adding' = adding + 1 /\ UNCHANGED <<slot, gDevices>> /\ Objects' = adding + 1
    BY <1>1, <1>3, <1>6 DEF Objects
  <2>2. \A s \in Slots : s < adding /\ s < adding + 1
    BY <1>1, <1>4, <1>6
  <2>3. gDevices' = [s \in Slots |-> IF s < Objects' THEN s ELSE None]
    BY <1>4, <2>1, <2>2 DEF AlignInv
  <2>4. /\ adding' \in 0 .. Len(bridge_device)
        /\ currentId' \in First .. (First + adding') /\ currentId' <= First + Count
        /\ \A s \in Slots : table'[s] # None => s < adding' /\ table'[s] \in First .. (First + s)
        /\ \A s \in Slots : Registered(s)' => table'[s] = First + s
    BY <1>1, <1>3, <2>1, <2>2 DEF AlignInv, Registered
  <2>5. QED
    BY <1>1, <1>3, <1>5, <2>1, <2>3, <2>4 DEF AlignInv
<1>7. CASE FreeSlots # {}
  <2>1. PICK s \in FreeSlots :
          /\ \A t \in FreeSlots : s <= t
          /\ slot' = s
          /\ gDevices' = [gDevices EXCEPT ![s] = index]
          /\ UNCHANGED adding
    BY <1>3, <1>7
  <2>2. s = adding /\ adding \in Slots
    <3>1. s \in Slots /\ s \in Nat /\ ~(s < adding)
      BY <1>1, <1>4
    <3>2. adding \in FreeSlots
      BY <1>1, <1>4, <3>1 DEF Slots
    <3>3. QED
      BY <1>1, <1>4, <2>1, <3>1, <3>2
  <2>3. Objects' = adding + 1
    BY <1>1, <2>1, <2>2 DEF Objects, None
  <2>4. gDevices' = [t \in Slots |-> IF t < Objects' THEN t ELSE None]
    <3>1. \A t \in Slots : t < adding + 1 <=> t < adding \/ t = adding
      BY <1>1
    <3>2. QED
      BY <1>2, <1>4, <2>1, <2>2, <2>3, <3>1 DEF AlignInv
  <2>5. \A t \in Slots : Registered(t)' <=> Registered(t)
    BY <1>3 DEF Registered
  <2>6. QED
    BY <1>1, <1>3, <1>5, <2>1, <2>2, <2>3, <2>4, <2>5 DEF AlignInv
<1>8. QED
  BY <1>6, <1>7

\* When every earlier endpoint is there, the id that is new is the slot's.
LEMMA NewEndpoint ==
  ASSUME AlignInv, SetDynamicEndpoint
  PROVE  AlignInv'
<1>1. /\ adding \in Nat /\ slot = adding /\ adding \in Slots /\ First \in Nat /\ Count \in Nat
      /\ adding < Len(bridge_device) /\ Len(bridge_device) \in Nat /\ Slots \subseteq Nat
      /\ slot # None /\ currentId \in Nat
  BY DevicesAssumption, BridgeDevice DEF SetDynamicEndpoint, AlignInv, Slots
<1>2. /\ currentId \notin UsedIds
      /\ table' = [table EXCEPT ![adding] = currentId]
      /\ adding' = adding + 1 /\ slot' = None
      /\ UNCHANGED <<arrays, gDevices, currentId>>
  BY <1>1 DEF SetDynamicEndpoint
<1>3. Objects' = Objects /\ Objects = adding + 1
  BY <1>1, <1>2 DEF Objects
<1>4. \A s \in Slots : table'[s] = IF s = adding THEN currentId ELSE table[s]
  BY <1>1, <1>2 DEF AlignInv
<1>5. \A s \in Slots : table'[s] # None => s < adding' /\ table'[s] \in First .. (First + s)
  BY <1>1, <1>2, <1>4 DEF AlignInv
<1>6. ASSUME NEW s \in Slots, Registered(s)'
      PROVE  table'[s] = First + s
  <2>1. \A t \in 0 .. s : t \in Slots /\ table'[t] # None
    BY <1>1, <1>6 DEF Registered, Slots
  <2>2. s < adding + 1
    BY <1>2, <1>5, <2>1, <1>1
  <2>3. ASSUME NEW t \in Slots, t <= s, t < adding PROVE table[t] = First + t
    <3>1. Registered(t)
      <4>1. \A u \in 0 .. t : u \in 0 .. s /\ u # adding
        BY <1>1, <2>3
      <4>2. QED
        BY <1>4, <2>1, <4>1 DEF Registered
    <3>2. QED
      BY <3>1 DEF AlignInv
  <2>4. CASE s < adding
    BY <1>1, <1>4, <2>3, <2>4
  <2>5. CASE s = adding
    <3>1. currentId >= First /\ currentId <= First + adding
      BY DEF AlignInv
    <3>2. ~(currentId < First + adding)
      <4>1. SUFFICES ASSUME currentId < First + adding PROVE FALSE
        OBVIOUS
      <4>2. currentId - First \in Slots /\ currentId - First < adding
        BY <1>1, <3>1, <4>1 DEF Slots
      <4>3. table[currentId - First] = First + (currentId - First)
        BY <1>1, <2>3, <2>5, <4>2
      <4>4. table[currentId - First] = currentId
        BY <1>1, <4>3
      <4>5. QED
        BY <1>2, <4>2, <4>4 DEF UsedIds
    <3>3. QED
      BY <1>1, <1>4, <2>5, <3>1, <3>2
  <2>6. QED
    BY <1>1, <2>2, <2>4, <2>5
<1>7. /\ adding' \in 0 .. Len(bridge_device)
      /\ currentId' \in First .. (First + adding') /\ currentId' <= First + Count
  BY <1>1, <1>2 DEF AlignInv
<1>8. table' \in [Slots -> {None} \cup Nat]
  BY <1>1, <1>2 DEF AlignInv
<1>9. QED
  BY <1>2, <1>3, <1>5, <1>6, <1>7, <1>8 DEF AlignInv

\* An id that is taken belongs to an earlier slot: the next one does not wrap.
LEMMA NextIdTried ==
  ASSUME AlignInv, DuplicateExists
  PROVE  AlignInv'
<1>1. /\ adding \in Nat /\ slot = adding /\ adding \in Slots /\ First \in Nat /\ Count \in Nat
      /\ First > 0 /\ Slots \subseteq Nat /\ currentId \in Nat /\ First + Count < IdValues
  BY DevicesAssumption, BridgeDevice DEF DuplicateExists, AlignInv, Slots
<1>2. currentId \in UsedIds /\ currentId' = NextId
      /\ UNCHANGED <<adding, slot, arrays, gDevices, table>>
  BY DEF DuplicateExists
<1>3. PICK s \in Slots : table[s] = currentId
  BY <1>2 DEF UsedIds
<1>4. s < adding /\ currentId <= First + s
  BY <1>1, <1>3 DEF AlignInv, None
<1>5. currentId + 1 <= First + adding /\ adding < Count
  BY <1>1, <1>4 DEF Slots
<1>6. currentId + 1 # IdValues /\ ~(currentId + 1 < First)
  <2>1. currentId >= First
    BY <1>1 DEF AlignInv
  <2>2. IdValues \in Nat
    BY DEF IdValues
  <2>3. QED
    BY <1>1, <1>5, <2>1, <2>2
<1>7. NextId = currentId + 1
  BY <1>6 DEF NextId
<1>8. currentId' \in First .. (First + adding) /\ currentId' <= First + Count
  BY <1>1, <1>2, <1>5, <1>7 DEF AlignInv
<1>9. Objects' = Objects /\ \A t \in Slots : Registered(t)' <=> Registered(t)
  BY <1>2 DEF Objects, Registered
<1>10. QED
  BY <1>2, <1>8, <1>9 DEF AlignInv

\* What a refused endpoint leaves.
LEMMA RefusedEndpoint ==
  ASSUME AlignInv, RefuseEndpoint
  PROVE  AlignInv'
<1>1. /\ adding \in Nat /\ slot = adding /\ slot # None /\ First \in Nat /\ Slots \subseteq Nat
      /\ adding < Len(bridge_device) /\ Len(bridge_device) \in Nat /\ currentId \in Nat
  BY DevicesAssumption, BridgeDevice DEF RefuseEndpoint, AlignInv, Slots
<1>2. /\ adding' = adding + 1 /\ slot' = None
      /\ UNCHANGED <<arrays, gDevices, table, currentId>>
  BY DEF RefuseEndpoint
<1>3. Objects' = Objects /\ \A t \in Slots : Registered(t)' <=> Registered(t)
  BY <1>1, <1>2 DEF Objects, Registered
<1>4. /\ adding' \in 0 .. Len(bridge_device)
      /\ currentId' \in First .. (First + adding')
      /\ \A s \in Slots : table'[s] # None => s < adding' /\ table'[s] \in First .. (First + s)
  BY <1>1, <1>2 DEF AlignInv
<1>5. QED
  BY <1>2, <1>3, <1>4 DEF AlignInv

LEMMA AlignStep ==
  AlignInv /\ [Next]_vars => AlignInv'
<1> SUFFICES ASSUME AlignInv, [Next]_vars
             PROVE  AlignInv'
  OBVIOUS
<1>1. CASE UNCHANGED tables
  BY <1>1 DEF tables, AlignInv, Objects, Registered
<1>2. CASE AddDevice
  BY <1>2, AddedDevice
<1>3. CASE SetDynamicEndpoint
  BY <1>3, NewEndpoint
<1>4. CASE DuplicateExists
  BY <1>4, NextIdTried
<1>5. CASE RefuseEndpoint
  BY <1>5, RefusedEndpoint
<1>6. QED
  BY <1>1, <1>2, <1>3, <1>4, <1>5
  DEF Next, AddPastEnd, Notice, SetEndpoint, SetStatus, Schedule, Reuse,
      ReadResp, UpdateClusterState, vars

LEMMA AlignInit ==
  Init => AlignInv
<1> SUFFICES ASSUME Init
             PROVE  AlignInv
  OBVIOUS
<1>1. /\ First \in Nat /\ Count \in Nat /\ Slots \subseteq Nat
      /\ 0 \in 0 .. Len(bridge_device)
      /\ \A s \in Slots : ~(s < 0)
  BY DevicesAssumption, BridgeDevice DEF Slots
<1>2. 0 .. (0 - 1) = {} /\ DOMAIN << >> = {}
  OBVIOUS
<1>3. Objects = 0 /\ \A s \in Slots : table[s] = None /\ ~Registered(s)
  <2>1. \A s \in Slots : s \in 0 .. s /\ table[s] = None
    BY <1>1 DEF Init
  <2>2. QED
    BY <2>1 DEF Init, Objects, Registered
<1>4. QED
  BY <1>1, <1>2, <1>3 DEF Init, AlignInv

\* Whatever the end-device file holds, up to the first endpoint that the stack
\* has refused, index, slot and endpoint id of a bridged device belong
\* together: a callback for an endpoint finds that endpoint's entry in
\* bridge_device and its object in the arrays.
THEOREM TablesAlwaysAligned ==
  Spec => []TablesAligned
<1>1. AlignInv => TablesAligned
  <2> SUFFICES ASSUME AlignInv, NEW s \in Slots, Registered(s)
               PROVE  /\ s + 1 \in DOMAIN bridge_device
                      /\ bridge_device[s + 1].endpoint = table[s]
                      /\ gDevices[s] = s
                      /\ arrays[s] = bridge_device[s + 1].cluster
    BY DEF TablesAligned
  <2>1. /\ s \in Nat /\ First \in Nat /\ adding \in Nat /\ adding <= Len(bridge_device)
        /\ Objects \in Nat /\ adding <= Objects
    BY DevicesAssumption, BridgeDevice DEF Slots, AlignInv, Objects
  <2>2. s < adding /\ table[s] = First + s /\ gDevices[s] = s
    <3>1. table[s] # None
      BY <2>1 DEF Registered
    <3>2. s < adding /\ table[s] = First + s
      BY <3>1 DEF AlignInv
    <3>3. s < Objects
      BY <2>1, <3>2
    <3>4. QED
      BY <3>2, <3>3 DEF AlignInv
  <2>3. s + 1 \in 1 .. Len(bridge_device) /\ s \in 0 .. (Objects - 1)
    BY <2>1, <2>2, BridgeDevice
  <2>4. bridge_device[s + 1].endpoint = First + s
    BY <2>1, <2>3, BridgeDevice
  <2>5. QED
    BY <2>2, <2>3, <2>4, BridgeDevice DEF AlignInv
<1>2. QED
  BY <1>1, AlignInit, AlignStep, PTL DEF Spec

-----------------------------------------------------------------------------
(* Type correctness.                                                       *)

Notification == [addr : Nat, status : BOOLEAN, next : Nat, field : {"endpoint", "status"}]

NoticeOK ==
  /\ rx # NoNotice => rx \in Notification
  /\ work + (IF rx = NoNotice THEN 0 ELSE 1) <= notices
  /\ work \in Nat /\ notices \in 0 .. MaxNotices
  /\ resp \in Resp
  /\ update \in [unread : SUBSET {"endpoint", "status"},
                 endpoint : 0 .. (First + Len(Bridged)), status : BOOLEAN]
  /\ work = 0 => update.unread = {"endpoint", "status"}
  /\ contact \in [Slots -> {Unset, "true", "false"}]

LEMMA NotifiersType == Notifiers \subseteq Nat
<1>1. \A k \in DOMAIN EndDevices : EndDevices[k].addr \in Nat
  <2>1. \A k \in 1 .. Len(EndDevices) :
          EndDevices[k] \in [addr : Nat \ {Unknown}, active : BOOLEAN, clusters : Seq(Clusters)]
    BY ElementType, DevicesAssumption
  <2>2. DOMAIN EndDevices = 1 .. Len(EndDevices)
    BY DevicesAssumption
  <2>3. QED
    BY <2>1, <2>2
<1>2. QED
  BY <1>1 DEF Notifiers, Unknown

LEMMA NoticeStep ==
  AlignInv /\ NoticeOK /\ [Next]_vars => NoticeOK'
<1> SUFFICES ASSUME AlignInv, NoticeOK, [Next]_vars
             PROVE  NoticeOK'
  OBVIOUS
<1>0. /\ First \in Nat /\ adding \in Nat /\ Len(Bridged) \in Nat /\ EndDeviceMax \in Nat
      /\ MaxNotices \in Nat
  BY DevicesAssumption, BridgeDevice DEF AlignInv
<1> USE <1>0 DEF NoticeOK
<1>1. CASE AddDevice \/ SetDynamicEndpoint \/ DuplicateExists \/ RefuseEndpoint
  BY <1>1 DEF AddDevice, SetDynamicEndpoint, DuplicateExists, RefuseEndpoint, notifying
<1>2. CASE AddPastEnd \/ UNCHANGED vars
  BY <1>2 DEF AddPastEnd, notifying, vars
<1>3. ASSUME NEW addr \in Notifiers, NEW status \in BOOLEAN, Notice(addr, status)
      PROVE  NoticeOK'
  <2>1. rx' \in Notification
    BY <1>3, NotifiersType DEF Notice, Notification
  <2>2. QED
    BY <1>3, <2>1 DEF Notice, tables
<1>4. CASE SetEndpoint
  <2>1. PICK i \in DOMAIN bridge_device :
          /\ resp' = [resp EXCEPT !.endpoint = bridge_device[i].endpoint]
          /\ rx' = [rx EXCEPT !.next = i + 1, !.field = "status"]
    BY <1>4 DEF SetEndpoint
  <2>2. i \in 1 .. Len(Bridged) /\ bridge_device[i].endpoint = First + i - 1
    BY BridgeDevice
  <2>3. resp' \in Resp
    <3>1. bridge_device[i].endpoint \in 0 .. (First + Len(Bridged))
      BY <2>2
    <3>2. QED
      BY <2>1, <3>1 DEF Resp
  <2>4. rx' \in Notification /\ rx # NoNotice
    <3>1. rx \in Notification /\ rx # NoNotice
      BY <1>4 DEF SetEndpoint
    <3>2. i + 1 \in Nat
      BY <2>2
    <3>3. QED
      BY <2>1, <3>1, <3>2 DEF Notification
  <2>5. QED
    BY <1>4, <2>3, <2>4 DEF SetEndpoint, tables
<1>5. CASE SetStatus
  <2>1. rx \in Notification /\ rx # NoNotice
    BY <1>5 DEF SetStatus
  <2>2. rx' \in Notification /\ resp' \in Resp
    BY <1>5, <2>1 DEF SetStatus, Notification, Resp
  <2>3. QED
    BY <1>5, <2>1, <2>2 DEF SetStatus, tables
<1>6. CASE Schedule
  BY <1>6 DEF Schedule, tables
<1>7. CASE Reuse
  BY <1>7, LeftoversAssumption DEF Reuse, tables
<1>8. ASSUME NEW f \in {"endpoint", "status"}, ReadResp(f)
      PROVE  NoticeOK'
  <2>0. work # 0
    <3>1. work > 0
      BY <1>8, Zenon DEF ReadResp
    <3>2. QED
      BY <3>1
  <2>1. update' = [update EXCEPT ![f] = resp[f], !.unread = @ \ {f}]
    BY <1>8, Zenon DEF ReadResp
  <2>2. update' \in [unread : SUBSET {"endpoint", "status"},
                    endpoint : 0 .. (First + Len(Bridged)), status : BOOLEAN]
    <3>1. CASE f = "endpoint"
      BY <2>1, <3>1 DEF Resp
    <3>2. CASE f = "status"
      BY <2>1, <3>2 DEF Resp
    <3>3. QED
      BY <3>1, <3>2
  <2>3. QED
    BY <1>8, <2>0, <2>2 DEF ReadResp
<1>9. CASE UpdateClusterState
  <2>1. contact' \in [Slots -> {Unset, "true", "false"}]
    BY <1>9 DEF UpdateClusterState, StateValue, Shown
  <2>2. work # 0
    BY <1>9 DEF UpdateClusterState
  <2>3. update' = Idle /\ Idle \in [unread : SUBSET {"endpoint", "status"},
                                   endpoint : 0 .. (First + Len(Bridged)), status : BOOLEAN]
    BY <1>9 DEF UpdateClusterState, Idle
  <2>4. update'.unread = {"endpoint", "status"}
    BY <2>3 DEF Idle
  <2>5. work' = work - 1 /\ UNCHANGED <<rx, resp, notices>>
    BY <1>9 DEF UpdateClusterState
  <2>6. QED
    BY <2>1, <2>2, <2>3, <2>4, <2>5
<1> HIDE DEF NoticeOK
<1>10. QED
  BY <1>1, <1>2, <1>3, <1>4, <1>5, <1>6, <1>7, <1>8, <1>9 DEF Next

LEMMA DevicesAlways ==
  Spec => [](AlignInv /\ NoticeOK)
<1>1. Init => NoticeOK
  BY DevicesAssumption, BridgeDevice DEF Init, NoticeOK, Idle
<1>2. QED
  BY <1>1, AlignInit, AlignStep, NoticeStep, PTL DEF Spec

\* The tables stay within the arrays and the dynamic range, and a response
\* always names an endpoint that exists or could.
THEOREM DevicesTypeCorrect ==
  Spec => []TypeOK
<1>1. AlignInv /\ NoticeOK => TypeOK
  <2> SUFFICES ASSUME AlignInv, NoticeOK
               PROVE  TypeOK
    OBVIOUS
  <2>0. /\ First \in Nat /\ Count \in Nat /\ adding \in Nat /\ Slots \subseteq Nat
        /\ EndDeviceMax \in Nat
    BY DevicesAssumption, BridgeDevice DEF AlignInv, Slots
  <2>1. Objects \in 0 .. Len(bridge_device) /\ Objects \in Nat /\ adding <= Objects
    BY <2>0, BridgeDevice DEF AlignInv, Objects
  <2>2. /\ DOMAIN arrays \subseteq 0 .. (EndDeviceMax - 1)
        /\ \A i \in DOMAIN arrays : arrays[i] \in Clusters \ {"Other"}
    <3>1. ASSUME NEW i \in 0 .. (Objects - 1)
          PROVE  i \in 0 .. (EndDeviceMax - 1) /\ arrays[i] \in Clusters \ {"Other"}
      <4>1. i + 1 \in 1 .. Len(bridge_device)
        BY <2>1, BridgeDevice
      <4>2. QED
        BY <2>0, <4>1, BridgeDevice DEF AlignInv
    <3>2. QED
      BY <3>1 DEF AlignInv
  <2>3. gDevices \in [Slots -> {None} \cup DOMAIN arrays]
    <3>1. \A s \in Slots : s < Objects => s \in DOMAIN arrays
      BY <2>0, <2>1 DEF AlignInv
    <3>2. QED
      BY <3>1 DEF AlignInv
  <2>4. table \in [Slots -> {None} \cup (First .. (First + Count - 1))]
    <3>1. \A s \in Slots : First .. (First + s) \subseteq First .. (First + Count - 1)
      BY <2>0 DEF Slots
    <3>2. QED
      BY <3>1 DEF AlignInv
  <2>5. currentId \in First .. (First + Count)
    BY <2>0 DEF AlignInv
  <2>6. QED
    BY <2>0, <2>2, <2>3, <2>4, <2>5 DEF TypeOK, AlignInv, NoticeOK
<1>2. QED
  BY <1>1, DevicesAlways, PTL

-----------------------------------------------------------------------------
(* The latest notification.  The entry i of the sensor that it came from   *)
(* is the last one with its address: the search for it either has still to *)
(* reach i, or has left the sensor's endpoint and state in resp, which the *)
(* event loop reads when it comes to the scheduled work; of the call it    *)
(* runs, only the last one needs to have read them.                        *)

Target(i) ==
  /\ i \in DOMAIN bridge_device /\ i - 1 \in Slots /\ Registered(i - 1)
  /\ bridge_device[i].cluster = "IasZone"
  /\ bridge_device[i].addr = latest.addr
  /\ \A j \in DOMAIN bridge_device : bridge_device[j].addr = latest.addr => j <= i

Searching(i) ==
  /\ rx # NoNotice /\ rx.addr = latest.addr /\ rx.status = latest.status
  /\ \/ rx.next <= i
     \/ /\ rx.next = i + 1
        /\ resp.endpoint = First + i - 1
        /\ rx.field = "status" \/ resp.status = latest.status

UnknownSender(addr) == \A j \in DOMAIN bridge_device : bridge_device[j].addr # addr

Landed(i) ==
  /\ rx = NoNotice \/ (rx.field = "endpoint" /\ UnknownSender(rx.addr))
  /\ resp.endpoint = First + i - 1 /\ resp.status = latest.status
  /\ work = 0 => contact[i - 1] = Shown(~latest.status)
  /\ work = 1 => /\ "endpoint" \in update.unread \/ update.endpoint = First + i - 1
                 /\ "status" \in update.unread \/ update.status = latest.status

LatestInv == latest # NoNotice => \E i : Target(i) /\ (Searching(i) \/ Landed(i))

\* A slot that notifications from addr reach belongs to the last entry.
LEMMA SensorSlot ==
  ASSUME AlignInv, NEW addr, NEW s \in SensorSlots(addr)
  PROVE  /\ s + 1 \in DOMAIN bridge_device /\ Registered(s) /\ s \in Slots /\ s \in Nat
         /\ bridge_device[s + 1].cluster = "IasZone"
         /\ bridge_device[s + 1].addr = addr
         /\ \A j \in DOMAIN bridge_device : bridge_device[j].addr = addr => j <= s + 1
<1>1. PICK i \in LastEntry(addr) :
        bridge_device[i].cluster = "IasZone" /\ table[s] = bridge_device[i].endpoint
  BY DEF SensorSlots
<1>2. /\ i \in DOMAIN bridge_device
      /\ bridge_device[i].addr = addr
      /\ \A j \in DOMAIN bridge_device : bridge_device[j].addr = addr => j <= i
  BY DEF LastEntry
<1>3. s \in Slots /\ Registered(s)
  BY DEF SensorSlots
<1>4. table[s] = First + s
  BY <1>3 DEF AlignInv
<1>5. /\ bridge_device[i].endpoint = First + i - 1 /\ i \in Nat /\ First \in Nat
      /\ s \in Nat /\ adding \in Nat
  BY <1>2, <1>3, BridgeDevice, DevicesAssumption DEF Slots, AlignInv
<1>6. i = s + 1
  <2>1. First + s = First + i - 1
    BY <1>1, <1>4, <1>5
  <2>2. \A f, a, b \in Nat : f + a = f + b - 1 => b = a + 1
    OBVIOUS
  <2>3. QED
    BY <1>5, <2>1, <2>2
<1>7. QED
  BY <1>1, <1>2, <1>3, <1>4, <1>5, <1>6

LEMMA LatestStep ==
  AlignInv /\ NoticeOK /\ LatestInv /\ [Next]_vars => LatestInv'
<1> SUFFICES ASSUME AlignInv, NoticeOK, LatestInv, [Next]_vars, (latest # NoNotice)'
             PROVE  (\E i : Target(i) /\ (Searching(i) \/ Landed(i)))'
  BY DEF LatestInv
<1>0. /\ First \in Nat /\ work \in Nat /\ Slots \subseteq Nat
      /\ \A i \in DOMAIN bridge_device : i \in Nat /\ i >= 1
      /\ \A i \in DOMAIN bridge_device : bridge_device[i].endpoint = First + i - 1
  BY DevicesAssumption, BridgeDevice DEF Slots, NoticeOK
<1>a. ASSUME UNCHANGED latest
      PROVE  \E i : Target(i) /\ (Searching(i) \/ Landed(i))
  BY <1>a DEF LatestInv
<1>1. CASE UNCHANGED notifying
  <2>1. PICK i : Target(i) /\ (Searching(i) \/ Landed(i))
    BY <1>1, <1>a DEF notifying
  <2>2. \A s \in Slots : table[s] # None => table'[s] # None
    <3>1. CASE SetDynamicEndpoint
      <4>1. /\ currentId # None /\ table \in [Slots -> {None} \cup Nat]
            /\ slot \in Slots /\ table' = [table EXCEPT ![slot] = currentId]
        BY <1>0, <3>1 DEF SetDynamicEndpoint, AlignInv, None
      <4>2. QED
        BY <4>1
    <3>2. CASE ~SetDynamicEndpoint
      <4>1. table' = table
        BY <3>2 DEF Next, AddDevice, AddPastEnd, DuplicateExists, RefuseEndpoint, Notice,
                    SetEndpoint, SetStatus, Schedule, Reuse, ReadResp, UpdateClusterState,
                    tables, vars
      <4>2. QED
        BY <4>1
    <3>3. QED
      BY <3>1, <3>2
  <2>3. Target(i)'
    <3>1. i - 1 \in Slots /\ \A t \in 0 .. (i - 1) : t \in Slots /\ table[t] # None
      BY <2>1, DevicesAssumption DEF Target, Registered, Slots
    <3>2. Registered(i - 1)'
      BY <2>2, <3>1 DEF Registered
    <3>3. QED
      BY <1>1, <2>1, <3>2 DEF Target, notifying
  <2>4. (Searching(i) \/ Landed(i))'
    BY <1>1, <2>1 DEF Searching, Landed, notifying
  <2>5. QED
    BY <2>3, <2>4
<1>2. ASSUME NEW addr \in Notifiers, NEW status \in BOOLEAN, Notice(addr, status)
      PROVE  (\E i : Target(i) /\ (Searching(i) \/ Landed(i)))'
  <2>1. /\ rx = NoNotice /\ UNCHANGED <<table, resp, work, update, contact>>
        /\ rx' = [addr |-> addr, status |-> status, next |-> 1, field |-> "endpoint"]
    BY <1>2 DEF Notice, tables
  <2>2. CASE UnknownSender(addr)
    <3>1. UNCHANGED latest
      BY <1>2, <2>2 DEF Notice, UnknownSender
    <3>2. PICK i : Target(i) /\ (Searching(i) \/ Landed(i))
      BY <3>1, <1>a
    <3>3. Landed(i)
      BY <2>1, <3>2 DEF Searching
    <3>4. rx'.field = "endpoint" /\ rx'.addr = addr
      BY <2>1
    <3>5. Landed(i)'
      BY <2>1, <2>2, <3>1, <3>3, <3>4 DEF Landed, UnknownSender
    <3>6. Target(i)'
      BY <2>1, <3>1, <3>2 DEF Target, Registered
    <3>7. QED
      BY <3>5, <3>6
  <2>3. CASE ~UnknownSender(addr)
    <3>1. SensorSlots(addr) # {} /\ latest' = [addr |-> addr, status |-> status]
      BY <1>2, <2>3 DEF Notice, UnknownSender
    <3>2. PICK s : s \in SensorSlots(addr)
      BY <3>1
    <3>3. latest'.addr = addr /\ latest'.status = status
      BY <3>1
    <3>4. Target(s + 1)'
      <4>1. (s + 1) - 1 = s
        BY <3>2, SensorSlot
      <4>2. QED
        BY <4>1, <2>1, <3>2, <3>3, SensorSlot DEF Target, Registered
    <3>5. rx' # NoNotice /\ rx'.addr = addr /\ rx'.status = status /\ rx'.next = 1
      <4>1. rx'.addr = addr /\ rx'.status = status /\ rx'.next = 1
        BY <2>1
      <4>2. addr # None
        BY NotifiersType DEF None
      <4>3. NoNotice.addr = None
        BY DEF NoNotice
      <4>4. QED
        BY <4>1, <4>2, <4>3
    <3>6. Searching(s + 1)'
      <4>1. 1 <= s + 1
        BY <3>2, SensorSlot
      <4>2. QED
        BY <4>1, <3>3, <3>5 DEF Searching
    <3>7. QED
      BY <3>4, <3>6
  <2>4. QED
    BY <2>2, <2>3
<1>3. CASE SetEndpoint
  <2>1. PICK k \in DOMAIN bridge_device :
          /\ Matches(k)
          /\ \A j \in DOMAIN bridge_device : Matches(j) => k <= j
          /\ resp' = [resp EXCEPT !.endpoint = bridge_device[k].endpoint]
          /\ rx' = [rx EXCEPT !.next = k + 1, !.field = "status"]
    BY <1>3 DEF SetEndpoint
  <2>2. UNCHANGED <<table, work, update, contact, latest>> /\ rx # NoNotice
    BY <1>3 DEF SetEndpoint, tables
  <2>3. PICK i : Target(i) /\ (Searching(i) \/ Landed(i))
    BY <2>2, <1>a
  <2>4. Target(i)'
    BY <2>2, <2>3 DEF Target, Registered
  <2>5. rx \in Notification /\ resp \in Resp
    BY <2>2 DEF NoticeOK
  <2>6. /\ rx'.addr = rx.addr /\ rx'.status = rx.status
        /\ rx'.next = k + 1 /\ rx'.field = "status"
        /\ resp'.endpoint = First + k - 1
    BY <1>0, <2>1, <2>5 DEF Notification, Resp
  <2>7. rx' # NoNotice
    <3>1. rx.addr # None
      BY <2>5 DEF Notification, None
    <3>2. QED
      BY <2>6, <3>1 DEF NoNotice
  <2>8. Searching(i)
    BY <2>1, <2>2, <2>3 DEF Matches, Landed, UnknownSender
  <2>9. i \in DOMAIN bridge_device /\ bridge_device[i].addr = rx.addr /\ k <= i
        /\ rx.next <= k
    BY <2>1, <2>3, <2>8 DEF Target, Searching, Matches
  <2>10. rx.next \in Nat /\ i \in Nat /\ k \in Nat
    BY <1>0, <2>5, <2>9 DEF Notification
  <2>11. k + 1 <= i \/ k = i
    BY <2>9, <2>10
  <2>12. Searching(i)'
    BY <2>2, <2>6, <2>7, <2>8, <2>11 DEF Searching
  <2>13. QED
    BY <2>4, <2>12
<1>4. CASE SetStatus
  <2>1. /\ UNCHANGED <<table, work, update, contact, latest>> /\ rx # NoNotice
        /\ rx.field = "status"
        /\ resp' = [resp EXCEPT !.status = rx.status]
        /\ rx' = [rx EXCEPT !.field = "endpoint"]
    BY <1>4 DEF SetStatus, tables
  <2>2. PICK i : Target(i) /\ (Searching(i) \/ Landed(i))
    BY <2>1, <1>a
  <2>3. Target(i)'
    BY <2>1, <2>2 DEF Target, Registered
  <2>4. rx \in Notification /\ resp \in Resp
    BY <2>1 DEF NoticeOK
  <2>5. /\ rx'.addr = rx.addr /\ rx'.status = rx.status /\ rx'.next = rx.next
        /\ resp'.endpoint = resp.endpoint /\ resp'.status = rx.status
    BY <2>1, <2>4 DEF Notification, Resp
  <2>6. rx' # NoNotice
    <3>1. rx.addr # None
      BY <2>4 DEF Notification, None
    <3>2. QED
      BY <2>5, <3>1 DEF NoNotice
  <2>7. Searching(i)
    BY <2>1, <2>2 DEF Landed
  <2>8. Searching(i)'
    BY <2>1, <2>5, <2>6, <2>7 DEF Searching
  <2>9. QED
    BY <2>3, <2>8
<1>5. CASE Schedule
  <2>1. /\ UNCHANGED <<table, resp, update, contact, latest>> /\ rx # NoNotice
        /\ rx.field = "endpoint" /\ work' = work + 1 /\ rx' = NoNotice
        /\ \A j \in DOMAIN bridge_device : ~Matches(j)
    BY <1>5 DEF Schedule, tables
  <2>2. PICK i : Target(i) /\ (Searching(i) \/ Landed(i))
    BY <2>1, <1>a
  <2>3. Target(i)'
    BY <2>1, <2>2 DEF Target, Registered
  <2>4. resp.endpoint = First + i - 1 /\ resp.status = latest.status
    <3>1. CASE Searching(i)
      <4>1. ~(rx.next <= i)
        <5>1. ~(i >= rx.next)
          BY <2>1, <2>2, <3>1 DEF Target, Searching, Matches
        <5>2. rx.next \in Nat /\ i \in Nat
          BY <1>0, <2>1, <2>2 DEF NoticeOK, Notification, Target
        <5>3. QED
          BY <5>1, <5>2
      <4>2. QED
        BY <2>1, <3>1, <4>1 DEF Searching
    <3>2. CASE Landed(i)
      BY <3>2 DEF Landed
    <3>3. QED
      BY <2>2, <3>1, <3>2
  <2>5. Landed(i)'
    <3>1. work = 0 => update.unread = {"endpoint", "status"}
      BY DEF NoticeOK
    <3>2. work' # 0 /\ (work' = 1 => work = 0)
      BY <1>0, <2>1
    <3>3. QED
      BY <2>1, <2>4, <3>1, <3>2 DEF Landed
  <2>6. QED
    BY <2>3, <2>5
<1>6. CASE Reuse
  BY <1>6 DEF Reuse
<1>7. ASSUME NEW f \in {"endpoint", "status"}, ReadResp(f)
      PROVE  (\E i : Target(i) /\ (Searching(i) \/ Landed(i)))'
  <2>0. update' = [update EXCEPT ![f] = resp[f], !.unread = @ \ {f}]
    BY <1>7, Zenon DEF ReadResp
  <2>1. UNCHANGED <<table, rx, resp, work, contact, latest>> /\ work # 0
    <3>1. UNCHANGED <<tables, rx, resp, work, contact, latest>> /\ work > 0
      BY <1>7, Zenon DEF ReadResp
    <3>2. QED
      BY <1>0, <3>1 DEF tables
  <2>2. PICK i : Target(i) /\ (Searching(i) \/ Landed(i))
    BY <2>1, <1>a
  <2>3. Target(i)'
    BY <2>1, <2>2 DEF Target, Registered
  <2>4. CASE Searching(i)
    <3>1. Searching(i)'
      BY <2>1, <2>4 DEF Searching
    <3>2. QED
      BY <2>3, <3>1
  <2>5. CASE Landed(i)
    <3>1. /\ update'.unread = update.unread \ {f}
          /\ f = "endpoint" => /\ update'.endpoint = resp.endpoint
                               /\ update'.status = update.status
          /\ f = "status" => /\ update'.status = resp.status
                             /\ update'.endpoint = update.endpoint
      <4>1. CASE f = "endpoint"
        BY <2>0, <4>1 DEF NoticeOK
      <4>2. CASE f = "status"
        BY <2>0, <4>2 DEF NoticeOK
      <4>3. QED
        BY <4>1, <4>2
    <3>2. Landed(i)'
      BY <2>1, <2>5, <3>1 DEF Landed
    <3>3. QED
      BY <2>3, <3>2
  <2>6. QED
    BY <2>2, <2>4, <2>5
<1>8. CASE UpdateClusterState
  <2>1. /\ UNCHANGED <<table, gDevices, arrays, resp, rx, latest>>
        /\ work' = work - 1 /\ update' = Idle /\ update.unread = {}
        /\ contact' = [s \in Slots |->
             IF table[s] = update.endpoint /\ arrays[gDevices[s]] = "IasZone"
             THEN StateValue ELSE contact[s]]
    BY <1>8 DEF UpdateClusterState, tables
  <2>2. PICK i : Target(i) /\ (Searching(i) \/ Landed(i))
    BY <2>1, <1>a
  <2>3. Target(i)'
    BY <2>1, <2>2 DEF Target, Registered
  <2>4. CASE Searching(i)
    <3>1. Searching(i)'
      BY <2>1, <2>4 DEF Searching
    <3>2. QED
      BY <2>3, <3>1
  <2>5. CASE Landed(i)
    <3>1. work # 0
      BY <2>1 DEF NoticeOK
    <3>2. work' = 0 => contact'[i - 1] = Shown(~latest.status)
      <4>1. SUFFICES ASSUME work' = 0 PROVE contact'[i - 1] = Shown(~latest.status)
        OBVIOUS
      <4>2. work = 1
        BY <1>0, <2>1, <4>1
      <4>3. update.endpoint = First + i - 1 /\ update.status = latest.status
        BY <2>1, <2>5, <4>2 DEF Landed
      <4>4. /\ i - 1 \in Slots /\ i - 1 \in Nat /\ Registered(i - 1) /\ i \in Nat
            /\ bridge_device[i].cluster = "IasZone"
        BY <1>0, <2>2 DEF Target
      <4>5. table[i - 1] = First + (i - 1) /\ table[i - 1] # None
        BY <4>4 DEF AlignInv, Registered
      <4>6. i - 1 < adding /\ adding \in Nat /\ Objects \in Nat /\ adding <= Objects
        BY <4>4, <4>5, BridgeDevice DEF AlignInv, Objects
      <4>7. i - 1 < Objects /\ i - 1 \in 0 .. (Objects - 1) /\ (i - 1) + 1 = i
        BY <4>4, <4>6
      <4>8. gDevices[i - 1] = i - 1 /\ arrays[i - 1] = "IasZone"
        BY <4>4, <4>7 DEF AlignInv
      <4>9. table[i - 1] = update.endpoint
        BY <1>0, <4>3, <4>4, <4>5
      <4>10. contact'[i - 1] = StateValue
        BY <2>1, <4>4, <4>8, <4>9
      <4>11. QED
        BY <4>3, <4>10 DEF StateValue
    <3>3. update'.unread = {"endpoint", "status"}
      BY <2>1 DEF Idle
    <3>4. Landed(i)'
      BY <2>1, <2>5, <3>2, <3>3 DEF Landed
    <3>5. QED
      BY <2>3, <3>4
  <2>6. QED
    BY <2>2, <2>4, <2>5
<1>9. QED
  BY <1>1, <1>2, <1>3, <1>4, <1>5, <1>6, <1>7, <1>8
  DEF Next, AddDevice, SetDynamicEndpoint, DuplicateExists, RefuseEndpoint, AddPastEnd, vars

\* Once no notification is under way, the sensor that the latest one came
\* from shows it, although the event loop may have read resp between the two
\* assignments of a notification: the work it scheduled itself reads it again.
THEOREM LatestNoticeAlwaysLands ==
  Spec => []LatestNoticeLands
<1>1. Init => LatestInv
  BY DEF Init, LatestInv
<1>2. AlignInv /\ LatestInv => LatestNoticeLands
  <2> SUFFICES ASSUME AlignInv, LatestInv, rx = NoNotice, work = 0, latest # NoNotice,
                      NEW s \in SensorSlots(latest.addr)
               PROVE  contact[s] = Shown(~latest.status)
    BY DEF LatestNoticeLands
  <2>1. PICK i : Target(i) /\ Landed(i)
    BY DEF LatestInv, Searching
  <2>2. i = s + 1
    <3>1. i \in Nat /\ s \in Nat
      BY <2>1, BridgeDevice, SensorSlot DEF Target
    <3>2. i <= s + 1 /\ s + 1 <= i
      BY <2>1, SensorSlot DEF Target
    <3>3. QED
      BY <3>1, <3>2
  <2>3. i - 1 = s
    BY <2>2, SensorSlot
  <2>4. QED
    BY <2>1, <2>3 DEF Landed
<1>3. QED
  BY <1>1, <1>2, LatestStep, DevicesAlways, PTL DEF Spec

=============================================================================
