----------------------------- MODULE MCRestarts -----------------------------
(* An instance of Restarts for TLC.                                         *)
EXTENDS Restarts

ThreeKinds == {"OnOffLight", "OnOffLightSwitch", "ContactSensor"}
=============================================================================
