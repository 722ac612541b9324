# A verification project for SuperGateway

SuperGateway is a Matter bridge for OpenWrt gateways. Its own code is
`package/project-chip/chip/chip-bridge/src` (abbreviated `…/` below); the rest of
the repository is packaging and configuration for OpenWrt. This directory holds
TLA+ models of that code, the TLC configurations that check them on small
instances, and proofs that TLAPS checks.

`…/BUILD.gn` lists the program that is built: the bridge with virtual devices and
a command line. `…/main_backup.cpp` is not in that list. It is an earlier gateway
for real Zigbee devices, and it holds the only multi-threaded request handling of
the repository. Both are modelled, in separate modules. Connectedhomeip, the
Matter stack, is a submodule and not part of the repository: what the bridge uses
of it is modelled from the calls and marked external.

## The system

| part | code | state | operations |
|---|---|---|---|
| device manager | `…/bridge/DeviceLibrary.cpp`, `include/DeviceLibrary.h` | `epList` (one record per endpoint), `devList<T, M>` (one list per kind), `runningEP` (ids in use) | `publishDevice`, `DelDeviceEndpoint`, `Init` |
| INI store | `…/utlity/config` | `_values` in memory, the file in `/tmp` | `Init` (parse), `SetValue`, `DelSection`, `write` |
| Matter stack (external) | — | the table of dynamic endpoints | `emberAfSetDynamicEndpoint`, `emberAfClearDynamicEndpoint`, callbacks |
| attribute handlers | `…/bridged_platfrom/virtual_device/ExampleBridgedImp.cpp` | none of their own; they read and write device objects | `BridgedHandleReadEvent`, `BridgedHandleWriteEvent` |
| device and cluster objects | `…/bridge/ClusterBase.cpp`, `include/DeviceBase.h`, `platfrom/Device.cpp` | attribute values | getters, setters, change masks |
| command line | `…/platfrom/cli.c`, `cli_interface.cpp`, `bridge_cli_thread` | one line buffer, one `CLI_Token_t`, `dev_index` | read a line, parse it, run the command |
| start-up | `…/main.cpp`, `…/bridge/Bridged.cpp` | — | stack, `DeviceManager::Init`, command-line thread, event loop |
| Zigbee gateway (legacy) | `…/main_backup.cpp` | two semaphores, three queues, a timer per read, device tables | attribute callbacks, four threads, a signal handler |

**How the parts interact.** The command-line thread calls the device manager,
which changes its lists, the stack's endpoint table and the file, under the stack
lock. Attribute accesses of Matter controllers arrive on the stack's thread, under
the same lock; the callback finds the endpoint's record in `epList`, the record's
Matter device type selects a handler, and the handler searches the `devList` of
*its* kind. After a restart `DeviceManager::Init` reads the file and publishes the
devices again, before the command-line thread exists.

In the Zigbee gateway the event loop handles attribute accesses synchronously: it
queues a command, waits on semaphores for the answer, and a per-read timer's
signal handler posts these semaphores when no answer comes. One thread sends,
one receives, one processes what was received; a fourth registers the devices
of the coordinator's end-device file.

**Where it is hard.**
- One step of the manager changes six things (stack table, `epList`, `devList`,
  `runningEP`, store, file) that other code assumes to agree, and a crash can fall
  between and inside them.
- Identity over restarts: ids are not stored as ids; they come out right only if
  replaying the file allocates them in the same order.
- Deletion reads a record that has just been freed.
- The kind of a device is kept in four tables that are written out by hand in four places.
- The command line keeps pointers into a buffer that is overwritten.
- The gateway: one answer and one timeout per read, matched by nothing but their
  order; signals on a blocked thread; messages lost, late or merged.

The complete list, each at its line and with the property meant to catch it, is
under `hazards` in `PROJECT.json`. Where no property does, or only part of the harm is
covered, a note says so: much of what can go wrong here does go wrong, or is undefined.

**What makes each part correct.**
- *Device manager*: ids and indices are unique and agree with the stack
  (`StackInStep`); the id pool is the live ids (`PoolInStep`); what was deleted does not
  come back (`DeletedStaysDeleted`), what was alive does, up to the first gap in the ids
  (`RestartBringsBack`), and keeps its identity (`ReplayKeepsIdentity`); a handler finds
  the device it is called for (`DispatchFindsDevice`); as a whole it is a pool of
  endpoints (`PoolSpec`).
- *Attributes*: what a kind declares its handler answers (`DeclaredIsServed`), and an
  answer holds the bytes of the endpoint that was asked (`OwnBytes`).
- *Command line*: what runs is what was typed (`RunsWhatWasTyped`), and nothing is
  deleted that was not named (`DeletesOnlyNamed`).
- *Gateway requests*: a read gets its own answer (`OwnAnswer`), the event loop is
  never stuck (`ReaderCanWake`, `SenderCanSend`, `LoopReturns`), the cached state
  follows the light (`MirrorsLight`).
- *Gateway devices*: three tables with one index agree (`TablesAligned`) and the
  last notification wins (`LatestNoticeLands`), both as long as the stack refuses no endpoint.

## The modules

| module | models | extends |
|---|---|---|
| `DeviceKinds` | kinds of device, the Matter type each is generated and restored with, the handler each type selects, names | — |
| `IniFile` | sections, the file as text order and prefixes, torn files | `DeviceKinds` |
| `EndpointPool` | abstract: what the manager promises | — |
| `DeviceManager` | the manager, the stack's table, the life of the process | `IniFile`; instantiates `EndpointPool` |
| `DeviceManagerProofs` | its invariant and the refinement, proved | `DeviceManager`, `TLAPS` |
| `Restarts` | the manager with a history variable: what the next start has to bring back | `DeviceManager` |
| `RestartProofs` | what survives deletes, crashes and restarts, proved | `Restarts`, `DeviceManagerProofs` |
| `AttributeTables` | attributes by width: declared and read, per cluster; clusters per kind and per handler | `DeviceKinds` |
| `AttributeAccess` | controllers' reads through the stack's one buffer, composed with the manager | `DeviceManager`, `AttributeTables` |
| `AttributeAccessProofs` | the theorems about it | `AttributeAccess`, `DeviceManagerProofs` |
| `CommandLine` | `fgets`, `command_parser`, `cli_interpreter`, arguments | — |
| `CommandLineProofs` | the theorems about it | `CommandLine`, `Iteration` |
| `Iteration` | least numbers, induction and loops: the lemmas the proofs about recursive functions need | — |
| `ZigbeeGateway` | on/off reads and writes of `main_backup.cpp` | — |
| `ZigbeeGatewayProofs`, `MirrorProofs` | the theorems about it | `ZigbeeGateway`, `TLAPS` |
| `ZigbeeDevices` | end-device file, registration, contact notifications | — |
| `ZigbeeDevicesProofs` | the theorems about it | `ZigbeeDevices`, `Iteration` |
| `MC…` | the instances for TLC | the module of that name |

### DeviceManager

The variables carry the names of the code where it has them. `devList` holds, per
kind, the endpoint ids of the entries, which is all `GetDevice` looks at.
`table` is the stack's dynamic endpoint table; its `kind` stands for the endpoint
type and cluster tables the stack was handed. `loaded` is a history variable.

`PublishDevice` is `publishDevice` with everything it calls: `GetEndpointId` (the
lowest free id or −1), the loop of `AddDeviceEndpoint` over the indices, the
stack's answer, the appended records, the section and the rewritten file. `Gen`
wraps it in a `gen*` command, `RestoreSection` in one iteration of
`DeviceManager::Init`. `DelDeviceEndpoint` follows the code's order: `DelDeviceList`
frees the record, and its `endpointId` is then read three more times. Each of those
reads returns the old value or any of `FreedReads`; most proofs and runs take
`FreedReads = {}` — the allocator has not overwritten the field yet — and the run
`attribute_access` takes the opposite case. `DelDevice` also uses the value as an index
into `devList`; past its end (`DelOutOfBounds`) the process ends.

Every handler is one action: `Init` runs alone, and later changes and the attribute
callbacks hold the stack lock from before the first change to the end of `write()`.
What does fall between the steps of a handler is the death of the process:
`Crash` between handlers, `CrashInWrite` inside `write()`, which has truncated the
file and leaves any prefix of the new text, `PowerCycle`, which empties `/tmp`.
A crash after the stack changed and before `write()` opens the file has the same
effect as `Crash`, since memory goes and the file does not change.

Prefixes are modelled by what `ini_parse` makes of them: the sections are written
in the order of their *names* (`NameOrder`; "10" before "3"), the one that is cut
has lost its type, or its name, or has a type whose text was cut into that of
another kind, or makes the file unreadable (`ParseError` throws, the bridge does
not start). `Radix` lets a small instance have two-digit names.

`AttributeCallback` is an access whose handler gets no device and dereferences
`nullptr`; accesses that find one change nothing of the manager's and are in
`AttributeAccess`.

### Restarts

After a restart `DeviceManager::Init` goes through the numbers from the first id on
and leaves its loop at the first one without a section. Of three devices whose first was
deleted, none comes back, although both live ones are in the file; their sections stay
there and the next devices that are generated overwrite them. `Restarts` states the
boundary: `kept` remembers the endpoints that lived when the process ended,
and `RestartBringsBack` says that those without a gap below them live again when `Init`
leaves its loop, with id, kind and name. Of a file that the crash cut short, or a
power cycle removed, nothing is asked.

### AttributeTables and AttributeAccess

The same attributes are described twice in the source: by the tables of
`DeviceBase.h` and `ApplicationCluster.cpp` with which `publishDevice` declares an
endpoint to the stack, and by the switch statements of `ExampleBridgedImp.cpp` that
answer it. `AttributeTables` holds both as functions from attributes to bytes:
what the declared type makes the stack send, and what a handler's `memcpy` or assignment
copies (0 for a case that succeeds and copies nothing). Values and writes are not modelled,
since the device object they belong to is undefined (see below).

In `AttributeAccess` the stack reads every attribute into one buffer that it does not
clear. The model remembers, per byte, for which endpoint it was written. Reads, the
stack's own reads (`StackRead`) and all steps of `DeviceManager` interleave. The
exceptions in the properties are what the code gets wrong, by name, so
that a further one would be found:
- `Silent`: `NodeLabel`, `CompensationText` and `Options` have a case that copies
  nothing, and a feature map outside the basic cluster is declared with 32 bits and
  copied from a `uint16_t`. Their answers hold bytes of whatever was read before.
- `StartUpOnOff` is declared and has no case, so that reading it fails.
- An endpoint whose device type selects another kind's handler (`OwnHandler`) is the
  subject of `DispatchFindsDevice`.

### CommandLine

The buffer is a function from positions to characters, a token a position and a
length in it. `fgets` replaces only the beginning of the buffer, which is why
characters are kept one by one here and nowhere else: the properties are about what is
left behind a shorter line. `Round` is one round of the parser's loop, `Filled`
what `fgets` leaves, `Interpret` a whole round of the thread. A line longer than the
buffer is read in pieces. At the end of input `fgets` returns NULL, the code does not
look, and the text is interpreted again (`ReadEnd`). Uninitialised token
pointers are nondeterministic. The buffer is taken to be empty before the first line, although
`malloc` leaves anything in it, and of what `atoi` reads the signs are left out. What a
command does to the endpoints is `DeviceManager`'s.

The properties do not look at tokens. They say what the words of a text are (`WordStarts`,
`WordAt`) and which number a word begins with (`NumberOf`), and compare what ran with them.

### ZigbeeGateway

`pc` is where the event loop is in a callback: the two `sem_wait` calls and the
steps between which other threads interfere are actions of their own. `Timeout` is
the signal handler `ReleaseSemaphoreHandler`. It runs on any thread; if that is the event
loop's own, blocked in `sem_wait`, the wait returns EINTR (the handler is
installed without `SA_RESTART`), the code does not look at the result, and the
callback goes on while the handler's post stays in the semaphore. `DeleteTimer` is
`timer_delete(*tid)` of the processing thread: `tid` names the *latest* read's timer,
it may have been freed, or not be filled in yet; then (`Dangling`) any timer or none
is deleted, or the process dies.

Each queue operation is atomic in the model; two threads in the same `std::queue`,
which the code does not prevent, may end the process (`Crash`). What a torn queue
would hold instead is undefined and not explored. Commands and responses carry the
number of their request so that properties can speak of it; no action looks at it.
`Faults` names what may go wrong outside the code; `"notimer"` covers `sigaction`,
`timer_create` and `timer_settime`, the last of which leaves a timer that does not run
(`stopped`).

The class `DeviceOnOff` is not in the repository. `Set` is taken to change the value
and tell nobody; `SetOnOff` to change it and call `HandleDeviceOnOffStatusChanged`, always or
only when the value is a new one: the model allows both. Were the callback left out for a
new value, or called by `Set`, the models of reads and writes would not hold. `IsReachable`,
which the handlers ask, is left out: the registering thread sets it for good.

### ZigbeeDevices

`bridge_device` is computed from the end-device file as `Check_Dev_Info` does, from the
devices that `ED` has room for. `Read_EndDevice_File` goes on reading behind `ED`: then the
process ends at once, or goes on and hears from the other devices too.

The registering thread takes two or more steps per entry. `AddDevice` creates the object
and writes it to the first free slot of `gDevices`, without a lock. Each round of the locked
loop is an action: the stack takes the id (`SetDynamicEndpoint`), has it already
(`DuplicateExists`), or refuses for another reason (`RefuseEndpoint`). After a
refusal the slot stays taken and the id is not used up, so that the next device gets the
id of this one's row of `bridge_device` and every later callback looks into the wrong row.
The stack's reasons are not in the repository; `TablesAligned` and
`LatestNoticeLands` speak of the slots up to the first refused one (`Registered`).

A notification is written to the variable `resp` field by field for each matching entry of
the table, and the event loop reads its two fields in two steps (`ReadResp`), in either
order, before it sets the sensor's state. Once the block that
declares `resp` is left its slot may hold anything of `Leftovers` (`Reuse`).

## What the runs check

| run | instance | question |
|---|---|---|
| `device_manager` | 3 endpoints, dimmable lights, 4 `gen*` per life, `Radix` 4, any number of deletes, crashes, restarts | do lists, table, pool and file stay in step; does generate work while there is room; does a deleted device stay deleted |
| `restart` | 3 endpoints, the three kinds of `Dispatched`, 1 `gen*` per life over any number of lives, fairness | replay keeps ids, the next start brings back every endpoint below the first gap, dispatch finds the device, refinement of `EndpointPool`, `Init` ends |
| `attribute_access` | 2 endpoints with low ids, 3 kinds, one `gen*` per life, every attribute, freed reads return another id | does the stack stay in step when the freed record is overwritten; is what is declared answered; whose bytes does an answer hold |
| `command_line` | all pairs of lines of up to 4 of {d, s, 3, blank}, buffer of 5, 3 tokens, 3-bit ids | parser against a reference (the words of the text) |
| `gateway_faults` | 2 lights, 3 accesses, all four faults | own answer, waiting reads can wake |
| `gateway_reads` | 1 light, 3 reads, lost, late and merged answers, fairness | the event loop always returns |
| `gateway_writes` | 1 light, 3 accesses, late answers, fairness | the same with writes; the cached value mirrors the light |
| `zigbee_devices` | 6 devices for a table of 5, 6 entries, 4 endpoints, arrays of 5, refusals, 3 notifications | aligned tables, the last notification wins |

Four runs expect a violation. Each is listed under `findings` with the lines
that disagree:
- `dimmable`: `genDimmableLight` publishes with the colour temperature light's Matter
  type, so that the first access crashes the bridge.
- `color_temperature`: `Init` restores colour temperature lights with the switch's type;
  they work until the first restart.
- `device_lists`: `DelDevice` looks for a record that is already gone, so `devList` only grows.
- `stale_argument`: `DelOnOffLightSwitch 4` followed by `DelOnOffLight` deletes 4 again.

**Bounds, and why they suffice.** Three endpoints are enough for a gap below and
above a live one and for a pool that fills; four generate commands per life
refill it once after deletes. Lives are unbounded, so that in `restart` one command per life fills
the pool over three lives, with whatever is deleted between them. `Radix` 4 with `First` 3 puts the
boundary between one and two digits inside three endpoints. Two lines suffice for the
command line because only the previous contents of buffer and tokens carry over;
the buffer of five is shorter than some lines. For attributes two endpoints are enough, one that
leaves bytes behind and one that sends them, with restored ones among them, and the tables are gone
through completely. Dimmable lights in `device_manager` bring in the accesses that crash
the bridge. Three accesses let a read's answer,
its timer and its late answer meet the next read and the one after. `MaxDevIndex`,
`MaxLines`, `MaxRequests`, `MaxNotices` cap the counters. They disable only the
environment, not the code.

**Fairness.** `Restarts!FairRestartSpec` assumes only that `Init`, straight-line code
on the main thread, goes on. `ZigbeeGateway!FairSpec` assumes weak fairness of each
thread's loop, of expiring timers, and of the coordinator answering what is not
lost; nothing obliges the controller, and no fault has to happen. With lost
messages a *write* can block the event loop for ever, since only reads have timers;
`gateway_writes` therefore has late answers and no lost ones, and `gateway_reads` has
all.

**Deadlock** is checked in `DeviceManager`, `Restarts` and `AttributeAccess`, where a power cycle is always possible.
The other configurations switch it off, because the system may stop there: the number
of lines, accesses or notifications is bounded, and the process may die.

Every property has a mutant: an operator named `Of_Fault` beside the original,
with which TLC finds the property violated under the same configuration.

## What is proved

The theorems hold for every value of the constants that satisfies the `ASSUME`s of the
modules (ids fit into 16 bits, sets and sequences have their types) and for behaviours of any
length. Further assumptions are part of the theorem.

| theorem | property | assumption |
|---|---|---|
| `TypeCorrect` | `DeviceManager!TypeOK` | none |
| `StackStaysInStep` | `StackInStep` | none |
| `PoolStaysInStep` | `PoolInStep` | `FreedReads = {}` |
| `PublishAlwaysSucceeds` | `PublishSucceeds` | `FreedReads = {}` |
| `ManagerImplementsPool` | `PoolSpec` | `FreedReads = {}` |
| `DeletedNeverReturns` | `DeletedStaysDeleted` | `FreedReads = {}` |
| `ReplayAlwaysKeepsIdentity` | `ReplayKeepsIdentity` | `FreedReads = {}` |
| `DispatchAlwaysFindsDevice` | `DispatchFindsDevice` | `FreedReads = {}`, `Commands ⊆ Dispatched` |
| `RestartAlwaysBringsBack` | `RestartBringsBack` | `FreedReads = {}` |
| `GatewayTypeCorrect` | `ZigbeeGateway!TypeOK` | none |
| `ReaderCanAlwaysWake` | `ReaderCanWake` | none |
| `SenderCanAlwaysSend` | `SenderCanSend` | `SemaphoreSafe` |
| `AlwaysOwnAnswer` | `OwnAnswer` | none |
| `CacheMirrorsLight` | `MirrorsLight` | `"lost" ∉ Faults` |
| `TablesAlwaysAligned` | `TablesAligned` | none |
| `DevicesTypeCorrect` | `ZigbeeDevices!TypeOK` | none |
| `LatestNoticeAlwaysLands` | `LatestNoticeLands` | none |
| `AccessImplementsManager` | `DeviceManager!Spec` | none |
| `ReadsKeepStackInStep` | `StackInStep`, among attribute reads | none |
| `DeclaredAlwaysServed` | `DeclaredIsServed` | none |
| `AnswersOwnBytes` | `OwnBytes` | none |
| `CommandLineTypeCorrect` | `CommandLine!TypeOK` | none |
| `AlwaysRunsWhatWasTyped` | `RunsWhatWasTyped` | none |

**The device manager.** `TypeOK` is inductive. So is `StackInStep` with it: a new index has no
record in `epList`, and the stack refuses an id it has. The others need `FreedReads = {}`:
with a freed record overwritten, another id is given back and another section
erased, and they are false.

They rest on one inductive invariant, `ManagerInv`: `TypeOK`, `StackInStep`,
`PoolInStep`, `LiveOnDisk` (every live endpoint has its section in the file) and
`DiskInStep`, which says that while the process lives the file is what `_values` holds. `LiveOnDisk` alone is not inductive: the next
`write()` puts the store there, not the old file. `PoolInStep` is what makes generate
succeed: the lowest free id is the first id plus the lowest free index
(`IdMatchesIndex`), so that the stack never answers `DUPLICATE_EXISTS` and the index loop
ends where it should. The refinement maps `live` to the records of `epList` with
the kind that the stack's table has; `PublishedRefines` and `DeletedRefines` give the two
kinds of step, everything else stutters or stops.

**Restarts.** `DeletedNeverReturns` follows from `ManagerInv`: a step that removes an id from
`LiveIds` removes the section of the same number from store and file. For
`ReplayKeepsIdentity`, `ManagerInv` is strengthened by `SectionsInRange` (every section of
the store, of the file and of a torn file has the number of a possible endpoint) and
`CursorInRange`. The ids replayed so far are `First .. cursor - 1`, therefore the lowest free
id is `cursor` itself, and `SetSection` writes what was there (`ReplayStep`). `RestartBringsBack` adds `KeptInv`: while the process is down and while `Init` goes on, the store
it reads holds the section of every kept endpoint up to the first gap, unless it is below
`cursor` and lives again (`HalfRestored`). If `Init` stops at a number, no kept endpoint has it, and
those above are behind a gap. For
`DispatchFindsDevice` the invariant `DispatchInv` says that only kinds of `Dispatched`
— those whose two device types both select their own handler — are ever in the store or in a
file, torn ones included; `DispatchedKinds` computes that these are on/off lights, switches
and contact sensors. The findings `dimmable` and `color_temperature` are the other two.

**The gateway's semaphores** are proved by counting. `WakeCredit`: `readSem` plus the number
of armed timers is at least one for a reader that waits plus one for an answer
whose timer is still to be deleted; since the second summand pays for `timer_delete`, it does not
matter whose timer it hits. `SendCredit` does the same for `waitTx`, with the write commands
and default responses under way (`Owed`) on the left. `SemaphoreSafe` says what it needs: timers can
be created, and, if the controller writes at all, no message of a write is lost or merged away.

**Answers.** While no timer has expired or failed, `AnswerInv` allows at most one message of a
read in command queue, radio, socket and received queue together; it carries the number of the
read being handled, and the response queue has at most one entry. A received entry that is being
worked on no longer counts (`Unread`), for it is popped only at the end.

**The cached state.** `MirrorInv` sharpens this to one message of any sort: `wait_tx_sem` is
1 exactly if nothing is under way (`QuietStage`), otherwise a command (`SentStage`) or its
answer (`AnsweredStage`) is. For each light that was read or switched, `mOn` agrees with the
light, or a write of it has still to be queued (`Pending`), or the command under way is about
to make it agree. With lost messages it is false: a lost command leaves the light
as it was.

**The devices.** `AlignInv` says that every entry has the object and, while there are any, the
slot of its own number, and that an id is never ahead of its slot. When all the earlier slots are
registered their ids are all the ids below, so that the first one the stack does not know is
the slot's (`NewEndpoint`). `LatestInv` follows a notification:
the search of `bridge_device` has still to come to the sensor's entry (`Searching`), or has left
it in `resp` (`Landed`); then of the scheduled calls the last one counts, which has read
either field right or not yet, and with no call left the sensor shows the status. What is in
`bridge_device` is proved for a file of any length: `FlattenedType` goes through the loops
that append its entries, `BridgedEntries` says that each is a bridged cluster of a device.

**Attribute accesses.** A step of `AccessSpec` is one of the manager's or leaves the manager as it
is (`AccessImplementsManager`), so that the manager's theorems hold among reads too.
`DeclaredIsServed` needs of a state only that a live endpoint has one of
the five kinds. The rest is a comparison of the tables, cluster by cluster
(`ServedClusters`) and kind by kind (`HandlerClustersCover`). `OwnBytes` is an action property: a read copies at least as many
bytes as the declared type makes the stack send (`FilledClusters`).

**The command line.** The invariant is `RunsWhatWasTyped` with `TypeOK` and `TextOK`: the text ends
with a NUL inside the buffer, and a newline can only be its last character. `FilledText` shows
that `fgets` leaves such a text of any line, cut or whole. What `command_parser` leaves is
proved by induction over its rounds. `ScanOK` says, after `m` rounds, that a token that is
being cut reaches one position beyond the round's, and that no token is complete
before the first word is (`FirstToken`); then the first token is that word, and the second
begins at the white space behind it. `ScanStep` takes it through a round,
`RoundOverflows` through one that has no token left. The second word is compared on the side of
the text: the first character behind the first word that is not white space begins it
(`SecondWordIs`), and `atoi` at that white space reads the number it begins with
(`AtoiIsNumber`). `DeletesOnlyNamed` is false, and no theorem: where the text has no second word, the
second token is an earlier line's.

**Induction.** The theorems of the library that take a predicate cannot be instantiated by this
prover. `Iteration` states induction with the *set* of the numbers for which something
holds, from the least-number principle, which follows from the well-foundedness of `<`. A
recursive function of the models is a `CHOOSE`, so its equation needs a function
that satisfies it: `ValuesExist` builds one from the steps.

**Only model-checked**: liveness (`InitEnds`, `LoopReturns`), which the prover does not do.

## What is not modelled

- Device and cluster objects, and with them the values of attributes and the writes. `publishDevice` stores the
  address of a local object (`DeviceLibrary.h:155`), so in the built program every
  value read through it is undefined, and no property of it holds.
- Of the attribute tables: command and event lists, and the six clusters of
  `ApplicationCluster.cpp` that no kind uses. `Identify` and `Groups` have handlers and are
  in no kind's list of clusters; they are in the tables and never accessed.
- `ZAP_RECORD(id, val, type)` puts its value in the metadata's size field. How the stack
  uses that field is not in the repository; the width of the declared type is used instead.
- The registered-callback path of `DeviceLibrary.cpp`, which nothing registers with.
- The bridged actions: `gRooms` and `gActions` are never filled, so that all the answers are empty.
- Temperature reports of the gateway, which are only printed, `RemoveDeviceEndpoint`, which has no
  caller, and its power source, whose slot of `gDevices` is never set.
- OpenWrt recipes, configuration and first-boot scripts.
- The class `DeviceOnOff` of the gateway, beyond what is assumed of its two methods.
- What a file longer than `ED`, a freed record's neighbours or an array overrun do to other
  variables: the process ends or does not.
- Races on `std::queue` beyond ending the process.

## Plan

Done: device manager, gateway requests, gateway devices, command line, attributes, and proofs of
all the safety properties that hold.

Left, in this order:
1. A composition of `CommandLine` with `DeviceManager`: the id that a stale or cut line
   yields reaches `DelDeviceEndpoint`.
2. `LatestNoticeLands` for sensors that are registered while their notification is under way.
