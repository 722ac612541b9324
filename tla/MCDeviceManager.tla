--------------------------- MODULE MCDeviceManager --------------------------
(* Instances of DeviceManager for TLC.                                      *)
EXTENDS DeviceManager

OneKind == {"OnOffLight"}
Dimmable == {"DimmableLight"}
ColorTemperature == {"ColorTemperatureLight"}
=============================================================================
