---------------------------- MODULE DeviceKinds ----------------------------
(***************************************************************************)
(* The kinds of bridged device and the tables the bridge keeps about them. *)
(*                                                                         *)
(* A kind is the pair of template arguments <T, M> of publishDevice, for   *)
(* example <DeviceOnOffLight, DeviceAttOnOffLight>; it is named by the     *)
(* deviceTypeName of M, which is also what the INI file stores.  A device  *)
(* type is the Matter type recorded in deviceEP_t::deviceType, from which  *)
(* the attribute callbacks choose a handler.                               *)
(***************************************************************************)
EXTENDS Naturals

Kinds == {"OnOffLight", "DimmableLight", "ColorTemperatureLight",
          "OnOffLightSwitch", "ContactSensor"}

DeviceTypes == {"ON_OFF_LIGHT", "COLOR_TEMPERATURE_LIGHT",
                "ON_OFF_LIGHT_SWITCH", "CONTACT_SENSOR"}

\* The device type each gen* command passes to publishDevice.
GenDeviceType ==
  [OnOffLight            |-> "ON_OFF_LIGHT",
   DimmableLight         |-> "COLOR_TEMPERATURE_LIGHT",
   ColorTemperatureLight |-> "COLOR_TEMPERATURE_LIGHT",
   OnOffLightSwitch      |-> "ON_OFF_LIGHT_SWITCH",
   ContactSensor         |-> "CONTACT_SENSOR"]

\* Fault: the branch of the switch is copied from that of the light.
RestoreDeviceType_SwitchAsLight ==
  [kind \in Kinds |-> IF kind = "ContactSensor" THEN "CONTACT_SENSOR" ELSE "ON_OFF_LIGHT"]

\* The device type Init passes to publishDevice for a section of each kind.
RestoreDeviceType ==
  [OnOffLight            |-> "ON_OFF_LIGHT",
   DimmableLight         |-> "ON_OFF_LIGHT_SWITCH",
   ColorTemperatureLight |-> "ON_OFF_LIGHT_SWITCH",
   OnOffLightSwitch      |-> "ON_OFF_LIGHT_SWITCH",
   ContactSensor         |-> "CONTACT_SENSOR"]

\* The kind whose devList the handler chosen by a device type searches.
HandlerKind ==
  [ON_OFF_LIGHT            |-> "OnOffLight",
   COLOR_TEMPERATURE_LIGHT |-> "ColorTemperatureLight",
   ON_OFF_LIGHT_SWITCH     |-> "OnOffLightSwitch",
   CONTACT_SENSOR          |-> "ContactSensor"]

\* Device names: a default prefix and the value of dev_index.  Three of the
\* five commands use DEFAULT_CONTACT_SENSOR_NAME.
NamePrefix ==
  [OnOffLight            |-> "light",
   DimmableLight         |-> "contact",
   ColorTemperatureLight |-> "contact",
   OnOffLightSwitch      |-> "switch",
   ContactSensor         |-> "contact"]

Names == [prefix : {"light", "switch", "contact", "missing"}, number : Nat]

NewName(kind, n) == [prefix |-> NamePrefix[kind], number |-> n]

\* What a missing or cut-off value of the INI file is read back as.
NoType == "missing"
NoName == [prefix |-> "missing", number |-> 0]

=============================================================================
