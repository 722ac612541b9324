--------------------------- MODULE MCZigbeeDevices --------------------------
(* Instances of ZigbeeDevices for TLC.                                      *)
EXTENDS ZigbeeDevices

Device(addr, active, clusters) == [addr |-> addr, active |-> active, clusters |-> clusters]

\* A light, a device that left, sensors with their zone last, alone and
\* first: one entry more than endpoints, and another past the arrays.  ED has
\* no room for the last device.
File == << Device(1, TRUE, <<"OnOff", "Other">>),
           Device(2, FALSE, <<"OnOff">>),
           Device(3, TRUE, <<"Temperature", "IasZone">>),
           Device(4, TRUE, <<"IasZone">>),
           Device(5, TRUE, <<"IasZone", "Temperature">>),
           Device(6, TRUE, <<"IasZone">>) >>

Garbage == {[endpoint |-> 0, status |-> FALSE], [endpoint |-> 5, status |-> TRUE]}
=============================================================================
