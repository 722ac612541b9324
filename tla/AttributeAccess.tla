-------------------------- MODULE AttributeAccess --------------------------
(***************************************************************************)
(* The controllers' reads of bridged attributes, together with the manager *)
(* that publishes and deletes the endpoints they name.                     *)
(*                                                                         *)
(* The stack reads every attribute, of its own endpoints and of the        *)
(* bridged ones, into one buffer that it does not clear, and sends as many *)
(* bytes of it as the attribute's declared type has.  The handlers copy    *)
(* what their own switch statements say.  The model keeps of the buffer    *)
(* whose read wrote each byte.                                             *)
(*                                                                         *)
(* Writes have no action.  They change only the device object, of which    *)
(* publishDevice keeps a pointer into its own returned stack frame, so     *)
(* that no value of it is defined.                                         *)
(***************************************************************************)
EXTENDS DeviceManager, AttributeTables

VARIABLE buffer     \* the endpoint whose read wrote each byte of the buffer

RootEndpoint == 0   \* the bridge's own endpoints, which the stack answers

\* The dynamic endpoints come behind the fixed ones.
ASSUME EndpointAssumption == First > RootEndpoint

accessVars == <<vars, buffer>>

Bytes == 1 .. BufferSize

StackBuffer == [b \in Bytes |-> RootEndpoint]

-----------------------------------------------------------------------------
(* The read path.                                                          *)

\* BridgedHandleReadEvent answers with success.
Answers(deviceType, cluster, name) ==
  /\ cluster \in HandlerClusters[deviceType]
  /\ name \in DOMAIN Handled[cluster]

\* The first width bytes of the buffer are overwritten on behalf of id.
Copy(id, width) ==
  buffer' = [b \in Bytes |-> IF b <= width THEN id ELSE buffer[b]]

\* A read that fails changes nothing; neither does one of an endpoint whose
\* handler finds no device, which is AttributeCallback.
Read(id, cluster, name) ==
  /\ phase = "run"
  /\ \E e \in epList :
       /\ e.endpointId = id
       /\ cluster \in ServerClusters[table[e.endpointIndex].kind]
       /\ name \in DOMAIN Declared[cluster]
       /\ GetDevice(HandlerKind[e.deviceType], id)
       /\ Answers(e.deviceType, cluster, name)
  /\ Copy(id, Handled[cluster][name])
  /\ UNCHANGED vars

\* The stack answers a read of an attribute of its own, a text for example.
StackRead ==
  /\ phase = "run"
  /\ buffer' = StackBuffer
  /\ UNCHANGED vars

-----------------------------------------------------------------------------
AccessInit == Init /\ buffer = StackBuffer

\* The buffer goes with the process.
ManagerStep ==
  /\ Next
  /\ buffer' = IF phase' = "down" THEN StackBuffer ELSE buffer

AccessNext ==
  \/ ManagerStep
  \/ \E id \in LiveIds, cluster \in Clusters :
       \E name \in DOMAIN Handled[cluster] : Read(id, cluster, name)
  \/ StackRead

AccessSpec == AccessInit /\ [][AccessNext]_accessVars

-----------------------------------------------------------------------------
(* Properties.                                                             *)

\* The attributes a read of which succeeds without filling what is sent:
\* two texts and an array whose cases copy nothing, and the 32-bit feature
\* maps that are copied from a uint16_t.
Silent(cluster, name) ==
  \/ cluster = "BridgedDeviceBasic" /\ name = "NodeLabel"
  \/ cluster = "ColorControl" /\ name \in {"CompensationText", "Options"}
  \/ cluster # "BridgedDeviceBasic" /\ name = "FeatureMap"

\* Except for the silent attributes, an answer holds no byte that a read of
\* another endpoint left in the buffer, whatever was read, published, deleted
\* or restored before (the switch statements of the read handlers, against
\* the declared types of the attribute tables).
OwnBytes ==
  [][UNCHANGED vars =>
       \A e \in epList, cluster \in Clusters :
         cluster \in ServerClusters[table[e.endpointIndex].kind] =>
           \A name \in DOMAIN Handled[cluster] :
             Read(e.endpointId, cluster, name) /\ ~Silent(cluster, name)
               => \A b \in 1 .. Declared[cluster][name] :
                    buffer'[b] = e.endpointId]_accessVars

\* The endpoints whose device type selects the handler of their own kind.
OwnHandler(e) == HandlerKind[e.deviceType] = table[e.endpointIndex].kind

\* Every attribute an endpoint declares is one its handler answers, for each
\* cluster the stack does not answer itself; StartUpOnOff has no case.
DeclaredIsServed ==
  \A e \in {f \in epList : OwnHandler(f)} :
    \A cluster \in ServerClusters[table[e.endpointIndex].kind] :
      \A name \in DOMAIN Declared[cluster] \ {"StartUpOnOff"} :
        Answers(e.deviceType, cluster, name)

=============================================================================
