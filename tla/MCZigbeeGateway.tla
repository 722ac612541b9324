--------------------------- MODULE MCZigbeeGateway --------------------------
(* Instances of ZigbeeGateway for TLC: two lights, interchangeable.         *)
EXTENDS ZigbeeGateway, TLC

CONSTANTS l1, l2

TwoLights == {l1, l2}
OneLight == {l1}
LightSymmetry == Permutations(TwoLights)
=============================================================================
