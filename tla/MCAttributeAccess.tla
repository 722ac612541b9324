------------------------- MODULE MCAttributeAccess -------------------------
(* Instances of AttributeAccess for TLC.                                    *)
EXTENDS AttributeAccess

ServedKinds == {"OnOffLight", "ColorTemperatureLight", "ContactSensor"}
=============================================================================
