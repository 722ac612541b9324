---------------------------- MODULE EndpointPool ----------------------------
(***************************************************************************)
(* What the device manager promises its users, the operator at the command *)
(* line and the Matter controllers: a pool of at most Count endpoints,     *)
(* each with an id, a kind and a name.  A new device gets the lowest free  *)
(* id and disturbs no other; a deletion removes exactly one endpoint; when *)
(* the process stops, all of them go.                                      *)
(***************************************************************************)
EXTENDS Naturals, FiniteSets

CONSTANTS First,   \* the first dynamic endpoint id
          Count,   \* how many dynamic endpoints there are
          Kinds,   \* kinds of device
          Names    \* names of devices

VARIABLE live      \* the set of published endpoints

Ids == First .. (First + Count - 1)

Endpoints == [id : Ids, kind : Kinds, name : Names]

UsedIds == {d.id : d \in live}

FreeIds == Ids \ UsedIds

Init == live = {}

\* The new endpoint is the one element that live' has more.
Publish ==
  \E d \in live' :
    /\ d \in Endpoints
    /\ d.id \in FreeIds
    /\ \A j \in FreeIds : d.id <= j
    /\ live' = live \cup {d}

Remove(id) ==
  /\ id \in UsedIds
  /\ live' = {d \in live : d.id # id}

Stop == live' = {}

Next ==
  \/ Publish
  \/ \E id \in Ids : Remove(id)
  \/ Stop

Spec == Init /\ [][Next]_live

=============================================================================
