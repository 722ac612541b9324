-------------------------- MODULE AttributeTables --------------------------
(***************************************************************************)
(* Two descriptions of the same attributes, written apart in the source:   *)
(* the tables with which an endpoint declares its clusters and attributes  *)
(* to the Matter stack, and the switch statements of the handlers that     *)
(* answer a read of them.                                                  *)
(*                                                                         *)
(* Both are given as the number of bytes by attribute: what the declared   *)
(* type makes the stack send, and what the handler copies into the buffer. *)
(* Values are left out.  PrimaryX stands for Primary1X to Primary6X and    *)
(* ColorPointX for ColorPointRX, ...GX and ...BX; so do their companions.  *)
(* The four global lists are left out: the stack answers them itself.      *)
(***************************************************************************)
EXTENDS DeviceKinds

Clusters == {"Descriptor", "BridgedDeviceBasic", "Identify", "Groups", "Scenes",
             "OnOff", "LevelControl", "BooleanState", "ColorControl"}

BufferSize == 4     \* bytes of the stack's buffer that are told apart

\* The table of attributes of no, one, two and all four bytes.
ByWidth(none, one, two, four) ==
  [name \in none \cup one \cup two \cup four |->
     IF name \in none THEN 0
     ELSE IF name \in one THEN 1
     ELSE IF name \in two THEN 2 ELSE BufferSize]

NoAttributes == ByWidth({}, {}, {}, {})

-----------------------------------------------------------------------------
(* Declared: the attribute tables, and the clusters of each kind.          *)

\* With what ZAP_BASIC and ZAP_END_ELEMENT add to a cluster's attributes.
ZapTable(one, two, four) ==
  ByWidth({}, one, two \cup {"ClusterRevision"}, four \cup {"FeatureMap"})

OnOffAttrs ==
  ZapTable({"OnOff", "GlobalSceneControl"}, {"OnTime", "OffWaitTime", "StartUpOnOff"}, {})

LevelAttrs ==
  ZapTable({"CurrentLevel", "MinLevel", "MaxLevel", "OnLevel", "DefaultMoveRate", "Options"},
           {"RemainingTime", "CurrentFrequency", "MinFrequency", "MaxFrequency",
            "OnOffTransitionTime", "OnTransitionTime", "OffTransitionTime",
            "StartUpCurrentLevel"},
           {})

\* A text, and the array Options is declared to be, may take the whole buffer.
ColorControlAttrs ==
  ZapTable({"CurrentHue", "CurrentSaturation", "DriftCompensation", "ColorMode",
            "EnhancedColorMode", "ColorLoopActive", "ColorLoopDirection",
            "NumberOfPrimaries", "PrimaryIntensity", "ColorPointIntensity"},
           {"RemainingTime", "CurrentX", "CurrentY", "ColorTemperatureMireds",
            "EnhancedCurrentHue", "ColorLoopTime", "ColorLoopStartEnhancedHue",
            "ColorLoopStoredEnhancedHue", "ColorCapabilities",
            "ColorTempPhysicalMinMireds", "ColorTempPhysicalMaxMireds",
            "CoupleColorTempToLevelMinMireds", "StartUpColorTemperatureMireds",
            "PrimaryX", "PrimaryY", "WhitePointX", "WhitePointY",
            "ColorPointX", "ColorPointY"},
           {"CompensationText", "Options"})

\* Its feature map is its own, its ClusterRevision that of ZAP_END_ELEMENT.
BasicAttrs == ZapTable({"Reachable"}, {}, {"NodeLabel"})

IdentifyAttrs == ZapTable({"IdentifyType"}, {"IdentifyTime"}, {})

GroupsAttrs == ZapTable({"NameSupport"}, {}, {})

ScenesAttrs == ZapTable({"NameSupport"}, {}, {})

BooleanStateAttrs == ZapTable({"StateValue"}, {}, {})

\* The Descriptor cluster is answered by the stack.
Declared ==
  [Descriptor         |-> NoAttributes,
   BridgedDeviceBasic |-> BasicAttrs,
   Identify           |-> IdentifyAttrs,
   Groups             |-> GroupsAttrs,
   Scenes             |-> ScenesAttrs,
   OnOff              |-> OnOffAttrs,
   LevelControl       |-> LevelAttrs,
   BooleanState       |-> BooleanStateAttrs,
   ColorControl       |-> ColorControlAttrs]

\* The clusters of which an endpoint of the kind is a server.
ServerClusters ==
  LET Light == {"Descriptor", "BridgedDeviceBasic", "Scenes", "OnOff", "LevelControl"}
  IN  [OnOffLight            |-> Light,
       DimmableLight         |-> Light,
       ColorTemperatureLight |-> Light \cup {"ColorControl"},
       OnOffLightSwitch      |-> {"Descriptor", "BridgedDeviceBasic"},
       ContactSensor         |-> {"Descriptor", "BridgedDeviceBasic", "BooleanState"}]

-----------------------------------------------------------------------------
(* Handled: what the read handlers copy, and the clusters of each handler. *)

\* With the two revisions: the feature map is copied from a uint16_t.
Copied(none, one, two) ==
  ByWidth(none, one, two \cup {"FeatureMap", "ClusterRevision"}, {})

\* Fault: the two times are stored with *buffer, as the flags are.
ReadOnOff_OneByte == Copied({}, {"OnOff", "GlobalSceneControl", "OnTime", "OffWaitTime"}, {})

ReadOnOff == Copied({}, {"OnOff", "GlobalSceneControl"}, {"OnTime", "OffWaitTime"})

ReadLevelControl ==
  Copied({}, {"CurrentLevel", "MinLevel", "MaxLevel", "OnLevel"},
         {"RemainingTime", "CurrentFrequency", "MinFrequency", "MaxFrequency",
          "OnOffTransitionTime", "OnTransitionTime", "OffTransitionTime",
          "DefaultMoveRate", "Options", "StartUpCurrentLevel"})

\* CompensationText and Options have a case that copies nothing.
ReadColorControl ==
  Copied({"CompensationText", "Options"},
         {"CurrentHue", "CurrentSaturation", "DriftCompensation", "ColorMode",
          "EnhancedColorMode", "ColorLoopActive", "ColorLoopDirection",
          "NumberOfPrimaries", "PrimaryIntensity", "ColorPointIntensity"},
         {"RemainingTime", "CurrentX", "CurrentY", "ColorTemperatureMireds",
          "EnhancedCurrentHue", "ColorLoopTime", "ColorLoopStartEnhancedHue",
          "ColorLoopStoredEnhancedHue", "ColorCapabilities",
          "ColorTempPhysicalMinMireds", "ColorTempPhysicalMaxMireds",
          "CoupleColorTempToLevelMinMireds", "StartUpColorTemperatureMireds",
          "PrimaryX", "PrimaryY", "WhitePointX", "WhitePointY",
          "ColorPointX", "ColorPointY"})

ReadScenes == Copied({}, {"NameSupport"}, {})

ReadGroups == Copied({}, {"NameSupport"}, {})

ReadIdentify == Copied({}, {"IdentifyType"}, {"IdentifyTime"})

ReadBooleanState == Copied({}, {"StateValue"}, {})

\* NodeLabel has a case whose two lines are commented out.
ReadBridgedDeviceBasic ==
  ByWidth({"NodeLabel"}, {"Reachable"}, {"ClusterRevision"}, {"FeatureMap"})

\* What a successful read of an attribute copies; others fail.
Handled ==
  [Descriptor         |-> NoAttributes,
   BridgedDeviceBasic |-> ReadBridgedDeviceBasic,
   Identify           |-> ReadIdentify,
   Groups             |-> ReadGroups,
   Scenes             |-> ReadScenes,
   OnOff              |-> ReadOnOff,
   LevelControl       |-> ReadLevelControl,
   BooleanState       |-> ReadBooleanState,
   ColorControl       |-> ReadColorControl]

\* Fault: a light's handler without the case of the level control cluster.
HandlerClusters_NoLevel ==
  LET Light == {"BridgedDeviceBasic", "OnOff", "Scenes", "Groups", "Identify"}
  IN  [ON_OFF_LIGHT            |-> Light,
       COLOR_TEMPERATURE_LIGHT |-> Light \cup {"LevelControl", "ColorControl"},
       ON_OFF_LIGHT_SWITCH     |-> {"BridgedDeviceBasic", "OnOff"},
       CONTACT_SENSOR          |-> {"BridgedDeviceBasic", "BooleanState"}]

\* The clusters for which the handler of a device type has a case.
HandlerClusters ==
  LET Light == {"BridgedDeviceBasic", "OnOff", "LevelControl", "Scenes", "Groups", "Identify"}
  IN  [ON_OFF_LIGHT            |-> Light,
       COLOR_TEMPERATURE_LIGHT |-> Light \cup {"ColorControl"},
       ON_OFF_LIGHT_SWITCH     |-> {"BridgedDeviceBasic", "OnOff"},
       CONTACT_SENSOR          |-> {"BridgedDeviceBasic", "BooleanState"}]

=============================================================================
