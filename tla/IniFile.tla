------------------------------ MODULE IniFile ------------------------------
(***************************************************************************)
(* The persistent store of the bridge: INIConfig, one section per endpoint *)
(* id, rewritten as a whole by every write().                              *)
(*                                                                         *)
(* A store is a function from section numbers to sections.  Of the four    *)
(* attributes AddDeviceEndpoint saves, the two that Init acts upon are     *)
(* kept: deviceType and name.  (location is the same default string for    *)
(* every device; endpointIndex is written and never read.)                 *)
(*                                                                         *)
(* write() truncates the file, then emits the sections in the order of     *)
(* their names and the keys of a section in the order deviceType,          *)
(* endpointIndex, location, name (both std::set<std::string>).  A process  *)
(* that dies before close() leaves a proper prefix of that text.           *)
(***************************************************************************)
EXTENDS DeviceKinds

CONSTANT Radix   \* of std::to_string: 10, or less to have two-digit names early

ASSUME RadixAssumption == Radix \in Nat \ {0, 1}

Sections == [deviceType : Kinds \cup {NoType}, name : Names]

EmptyStore == [i \in {} |-> [deviceType |-> NoType, name |-> NoName]]

IsStore(store) ==
  /\ DOMAIN store \subseteq Nat
  /\ \A i \in DOMAIN store : store[i] \in Sections

CheckSection(store, i) == i \in DOMAIN store

SetSection(store, i, section) ==
  [j \in DOMAIN store \cup {i} |-> IF j = i THEN section ELSE store[j]]

\* Fault: the section is not erased.
DelSection_Kept(store, i) == store

DelSection(store, i) == [j \in DOMAIN store \ {i} |-> store[j]]

\* Rank of to_string(n) among numbers of at most two digits, in the
\* lexicographic order of the strings ("10" comes before "3").
NameOrder(n) ==
  IF n < Radix THEN (n + 1) * (Radix + 1)
               ELSE ((n \div Radix) + 1) * (Radix + 1) + (n % Radix) + 1

\* The content of the file: what ini_parse makes of it.
WholeFile(store) == [sections |-> store, malformed |-> FALSE]
UnreadableFile   == [sections |-> EmptyStore, malformed |-> TRUE]

\* The sections a prefix of the text can hold in place of one that was cut:
\* the type is missing or cut (cut, "OnOffLightSwitch" can read "OnOffLight"),
\* or the type is whole and the name missing or cut.
CutSections(section) ==
  {[deviceType |-> NoType, name |-> NoName],
   [deviceType |-> section.deviceType, name |-> NoName]}
  \cup (IF section.deviceType = "OnOffLightSwitch"
        THEN {[deviceType |-> "OnOffLight", name |-> NoName]} ELSE {})

SectionsBefore(store, c) ==
  [i \in {j \in DOMAIN store : NameOrder(j) < NameOrder(c)} |-> store[i]]

\* Every file a write of store can leave behind when it is interrupted in
\* section c.  A section header without keys makes no section; a header
\* without ']' or a key without '=' makes the whole file unreadable.
TornFiles(store) ==
  UNION {{WholeFile(SectionsBefore(store, c)), UnreadableFile}
         \cup {WholeFile(SetSection(SectionsBefore(store, c), c, s)) :
                 s \in CutSections(store[c])} : c \in DOMAIN store}

=============================================================================
