----------------------- MODULE AttributeAccessProofs -----------------------
(***************************************************************************)
(* Proofs about AttributeAccess: the reads leave the manager to itself, so  *)
(* that what is proved of it holds of the composition, and the two          *)
(* descriptions of the attributes agree where the properties say so.        *)
(***************************************************************************)
EXTENDS AttributeAccess, DeviceManagerProofs

-----------------------------------------------------------------------------
(* The manager within the composition.                                     *)

\* Whatever is read, and whenever: the composition behaves as the manager
\* alone, and the theorems about Spec are theorems about AccessSpec.
THEOREM AccessImplementsManager == AccessSpec => Spec
<1>1. AccessInit => Init
  BY DEF AccessInit
<1>2. [AccessNext]_accessVars => [Next]_vars
  BY DEF AccessNext, ManagerStep, Read, StackRead, accessVars
<1>3. QED
  BY <1>1, <1>2, PTL DEF AccessSpec, Spec

\* Among attribute reads too, the stack's table and epList agree, whatever
\* the reads of a freed record return.
THEOREM ReadsKeepStackInStep == AccessSpec => []StackInStep
BY AccessImplementsManager, StackStaysInStep, PTL

-----------------------------------------------------------------------------
(* The tables, cluster by cluster.                                         *)

\* What an endpoint declares and its handler answers, apart from StartUpOnOff.
Served(cluster) ==
  \A name \in DOMAIN Declared[cluster] \ {"StartUpOnOff"} : name \in DOMAIN Handled[cluster]

LEMMA ServedClusters == \A cluster \in Clusters : Served(cluster)
<1>1. Served("ColorControl")
  BY DEF Served, Declared, Handled, ColorControlAttrs, ReadColorControl, ZapTable, Copied, ByWidth
<1>2. Served("LevelControl")
  BY DEF Served, Declared, Handled, LevelAttrs, ReadLevelControl, ZapTable, Copied, ByWidth
<1>3. Served("OnOff")
  BY DEF Served, Declared, Handled, OnOffAttrs, ReadOnOff, ZapTable, Copied, ByWidth
<1>4. Served("BridgedDeviceBasic")
  BY DEF Served, Declared, Handled, BasicAttrs, ReadBridgedDeviceBasic, ZapTable, ByWidth
<1>5. Served("Descriptor")
  BY DEF Served, Declared, Handled, NoAttributes
<1>6. Served("Identify") /\ Served("Groups") /\ Served("Scenes") /\ Served("BooleanState")
  BY DEF Served, Declared, Handled, IdentifyAttrs, ReadIdentify, GroupsAttrs, ReadGroups,
         ScenesAttrs, ReadScenes, BooleanStateAttrs, ReadBooleanState, ZapTable, Copied, ByWidth
<1>7. QED
  BY <1>1, <1>2, <1>3, <1>4, <1>5, <1>6 DEF Clusters

\* A read fills what the stack sends of a declared attribute.
Fills(cluster) ==
  \A name \in DOMAIN Declared[cluster] \cap DOMAIN Handled[cluster] :
    ~Silent(cluster, name) =>
      /\ Handled[cluster][name] \in 0 .. BufferSize
      /\ Declared[cluster][name] \in 0 .. Handled[cluster][name]

LEMMA FilledClusters == \A cluster \in Clusters : Fills(cluster)
<1>1. Fills("ColorControl")
  BY DEF Fills, Silent, BufferSize, Declared, Handled, ColorControlAttrs, ReadColorControl,
         ZapTable, Copied, ByWidth
<1>2. Fills("LevelControl")
  BY DEF Fills, Silent, BufferSize, Declared, Handled, LevelAttrs, ReadLevelControl,
         ZapTable, Copied, ByWidth
<1>3. Fills("OnOff")
  BY DEF Fills, Silent, BufferSize, Declared, Handled, OnOffAttrs, ReadOnOff,
         ZapTable, Copied, ByWidth
<1>4. Fills("BridgedDeviceBasic")
  BY DEF Fills, Silent, BufferSize, Declared, Handled, BasicAttrs, ReadBridgedDeviceBasic,
         ZapTable, ByWidth
<1>5. Fills("Descriptor")
  BY DEF Fills, Declared, Handled, NoAttributes, ByWidth
<1>6. Fills("Identify") /\ Fills("Groups") /\ Fills("Scenes") /\ Fills("BooleanState")
  BY DEF Fills, Silent, BufferSize, Declared, Handled, IdentifyAttrs, ReadIdentify,
         GroupsAttrs, ReadGroups, ScenesAttrs, ReadScenes, BooleanStateAttrs,
         ReadBooleanState, ZapTable, Copied, ByWidth
<1>7. QED
  BY <1>1, <1>2, <1>3, <1>4, <1>5, <1>6 DEF Clusters

\* The handler that a device type selects, against the clusters of the kind
\* that handler is for.
LEMMA HandlerClustersCover ==
  ASSUME NEW deviceType \in DeviceTypes,
         NEW cluster \in ServerClusters[HandlerKind[deviceType]]
  PROVE  /\ cluster \in Clusters
         /\ cluster = "Descriptor" \/ cluster \in HandlerClusters[deviceType]
BY DEF DeviceTypes, HandlerKind, ServerClusters, HandlerClusters, Clusters

-----------------------------------------------------------------------------
(* The properties.                                                         *)

LEMMA AccessTypeCorrect == AccessSpec => []TypeOK
BY AccessImplementsManager, TypeCorrect, PTL

\* In every state and for every endpoint with the handler of its own kind,
\* each attribute it declares to the stack is answered.
THEOREM DeclaredAlwaysServed == AccessSpec => []DeclaredIsServed
<1>1. TypeOK => DeclaredIsServed
  <2> SUFFICES ASSUME TypeOK,
                      NEW e \in {f \in epList : OwnHandler(f)},
                      NEW cluster \in ServerClusters[table[e.endpointIndex].kind],
                      NEW name \in DOMAIN Declared[cluster] \ {"StartUpOnOff"}
               PROVE  Answers(e.deviceType, cluster, name)
    BY DEF DeclaredIsServed
  <2>1. /\ e.deviceType \in DeviceTypes
        /\ table[e.endpointIndex].kind = HandlerKind[e.deviceType]
    BY DEF TypeOK, EndpointRecords, OwnHandler
  <2>2. cluster \in Clusters
    BY <2>1, HandlerClustersCover
  <2>3. name \in DOMAIN Handled[cluster]
    BY <2>2, ServedClusters DEF Served
  <2>4. cluster # "Descriptor"
    BY DEF Declared, NoAttributes, ByWidth
  <2>5. QED
    BY <2>1, <2>3, <2>4, HandlerClustersCover DEF Answers
<1>2. QED
  BY <1>1, AccessTypeCorrect, PTL

\* Whatever was read, published, deleted or restored before, an answer that
\* is not one of the silent attributes holds only bytes of its own read.
THEOREM AnswersOwnBytes == AccessSpec => OwnBytes
<1>1. ASSUME NEW id, NEW cluster \in Clusters, NEW name \in DOMAIN Handled[cluster],
             Read(id, cluster, name), ~Silent(cluster, name),
             NEW b \in 1 .. Declared[cluster][name]
      PROVE  buffer'[b] = id
  <2>1. name \in DOMAIN Declared[cluster] /\ Copy(id, Handled[cluster][name])
    BY <1>1 DEF Read
  <2>2. b \in Bytes /\ b <= Handled[cluster][name]
    BY <1>1, <2>1, FilledClusters DEF Fills, Bytes, BufferSize
  <2>3. QED
    BY <2>1, <2>2 DEF Copy
<1>2. [UNCHANGED vars =>
         \A e \in epList, cluster \in Clusters :
           cluster \in ServerClusters[table[e.endpointIndex].kind] =>
             \A name \in DOMAIN Handled[cluster] :
               Read(e.endpointId, cluster, name) /\ ~Silent(cluster, name)
                 => \A b \in 1 .. Declared[cluster][name] :
                      buffer'[b] = e.endpointId]_accessVars
  BY <1>1
<1>3. QED
  BY <1>2, PTL DEF OwnBytes

=============================================================================
