--------------------------- MODULE ZigbeeGateway ---------------------------
(***************************************************************************)
(* On/off reads and writes of the Zigbee gateway in main_backup.cpp.       *)
(*                                                                         *)
(* The Matter event loop runs the attribute callbacks: it waits for        *)
(* wait_tx_sem, pushes a command and, for a read, blocks on                *)
(* read_attribute_sem until the response is in or a timer's signal handler *)
(* posts the semaphore.  A thread sends the queued commands to the         *)
(* coordinator, another receives what it answers, a third processes it.    *)
(* A command or response stands for its bytes: the light its short address *)
(* names, what it does, and the number of the request it belongs to, which *)
(* the real messages do not carry and no action looks at.                  *)
(*                                                                         *)
(* The class DeviceOnOff is not in the repository.  Set and SetOnOff are   *)
(* what main_backup.cpp expects of its methods.                            *)
(***************************************************************************)
EXTENDS Integers, FiniteSets, Sequences, SequencesExt

CONSTANTS
  Lights,       \* bridged on/off endpoints
  Writes,       \* values the controller writes, {} for a controller that only reads
  MaxRequests,  \* bound on the reads and writes of a behaviour
  Faults        \* what may go wrong outside the gateway's code, see FaultKinds

\* "lost": the radio loses a command or its answer; "late": an answer takes
\* longer than its timer; "merged": one recv returns several messages;
\* "notimer": sigaction, timer_create or timer_settime fails.
FaultKinds == {"lost", "late", "merged", "notimer"}

ASSUME GatewayAssumption ==
  /\ Writes \subseteq BOOLEAN
  /\ MaxRequests \in Nat
  /\ Faults \subseteq FaultKinds

VARIABLES
  pc,          \* where the event loop is in a callback, "idle" outside
  request,     \* the attribute access it handles
  requests,    \* how many it has handled or begun
  waitTx,      \* value of wait_tx_sem
  readSem,     \* value of read_attribute_sem
  txQueue,     \* gw_tx_command_queue
  responses,   \* gw_tx_response_queue
  rxQueue,     \* gw_rx_command_queue, each entry one recv
  rx,          \* where the processing thread is in a read response
  tid,         \* the timer *tid names, by its read; NoTimer while tid is NULL
  tidFreed,    \* the signal handler has freed tid
  armed,       \* the timers that run, by their read
  stopped,     \* the timers that were created and not set, by their read
  air,         \* commands the coordinator has and has not answered
  tcp,         \* answers in the socket
  mOn,         \* DeviceOnOff::mOn of each Light
  lightOn,     \* what the light itself is
  known,       \* history: the lights read or switched so far
  disturbed,   \* history: a timer has expired or could not be set
  alive        \* the process has not crashed

loop == <<pc, request, requests>>
sems == <<waitTx, readSem>>
timers == <<tid, tidFreed, armed, stopped>>
network == <<air, tcp, lightOn>>
vars == <<loop, sems, txQueue, responses, rxQueue, rx, timers, network,
          mOn, known, disturbed, alive>>

NoTimer == 0
Numbers == 1 .. MaxRequests
NoRequest == [op |-> "none"]
Accesses ==
  [op : {"read"}, light : Lights, n : Numbers]
    \cup [op : {"write"}, light : Lights, on : Writes, n : Numbers]
Command == [op : {"read", "on", "off"}, light : Lights, n : Numbers]
Response == [of : {"read", "default"}, light : Lights, on : BOOLEAN, n : Numbers]

OfRequest(n) == {m \in air \cup ToSet(txQueue) \cup ToSet(tcp) \cup ToSet(rxQueue) : m.n = n}

Init ==
  /\ pc = "idle" /\ request = NoRequest /\ requests = 0
  /\ waitTx = 1 /\ readSem = 0
  /\ txQueue = << >> /\ responses = << >> /\ rxQueue = << >>
  /\ rx = "take"
  /\ tid = NoTimer /\ tidFreed = FALSE /\ armed = {} /\ stopped = {}
  /\ air = {} /\ tcp = << >>
  /\ lightOn \in [Lights -> BOOLEAN] /\ mOn = [l \in Lights |-> FALSE]
  /\ known = {} /\ disturbed = FALSE /\ alive = TRUE

-----------------------------------------------------------------------------
(* The event loop.                                                         *)

\* HandleReadOnOffAttribute, up to sem_wait(&wait_tx_sem).
ReadOnOff(l) ==
  /\ alive
  /\ pc = "idle" /\ requests < MaxRequests
  /\ requests' = requests + 1
  /\ request' = [op |-> "read", light |-> l, n |-> requests + 1]
  /\ pc' = "read_tx"
  /\ UNCHANGED <<sems, txQueue, responses, rxQueue, rx, timers, network,
                 mOn, known, disturbed, alive>>

\* DeviceOnOff::Set, external: the value changes and nobody is told.
Set(l, on) == mOn' = [mOn EXCEPT ![l] = on]

\* DeviceOnOff::SetOnOff, external: the value changes and, at least when it is
\* a new one, HandleDeviceOnOffStatusChanged is called.
SetOnOff(l, on, notified) ==
  /\ on # mOn[l] => notified
  /\ mOn' = [mOn EXCEPT ![l] = on]

\* HandleWriteOnOffAttribute, up to the sem_wait of the change callback.  (Both
\* handlers ask IsReachable, which AddDevice has set for good.)
WriteOnOff(l, on) ==
  /\ alive
  /\ pc = "idle" /\ requests < MaxRequests
  /\ requests' = requests + 1
  /\ request' = [op |-> "write", light |-> l, on |-> on, n |-> requests + 1]
  /\ \E notified \in BOOLEAN :
       /\ SetOnOff(l, on, notified)
       /\ pc' = IF notified THEN "write_tx" ELSE "idle"
       /\ known' = IF notified THEN known \cup {l} ELSE known
  /\ UNCHANGED <<sems, txQueue, responses, rxQueue, rx, timers, network,
                 disturbed, alive>>

\* What follows each sem_wait.
AfterWait == [read_tx |-> "read_push", read_wait |-> "read_take", write_tx |-> "write_push"]

\* Fault: sem_wait does not wait.
IsUp_Always(sem) == TRUE

\* sem_wait goes on.
IsUp(sem) == sem > 0

\* sem_wait(&wait_tx_sem).
WaitTx ==
  /\ alive
  /\ pc \in {"read_tx", "write_tx"} /\ IsUp(waitTx)
  /\ waitTx' = waitTx - 1
  /\ pc' = AfterWait[pc]
  /\ UNCHANGED <<request, requests, readSem, txQueue, responses, rxQueue, rx,
                 timers, network, mOn, known, disturbed, alive>>

\* sem_wait(&read_attribute_sem).
WaitRead ==
  /\ alive
  /\ pc = "read_wait" /\ IsUp(readSem)
  /\ readSem' = readSem - 1
  /\ pc' = "read_take"
  /\ UNCHANGED <<request, requests, waitTx, txQueue, responses, rxQueue, rx,
                 timers, network, mOn, known, disturbed, alive>>

\* Fault: the on and off requests swapped.
OnOffRequest_Swapped(l) == IF mOn[l] THEN "off" ELSE "on"

\* The choice of HandleDeviceOnOffStatusChanged.
OnOffRequest(l) == IF mOn[l] THEN "on" ELSE "off"

\* gw_cmd_read_attr_req, gw_cmd_onoff_on_req, gw_cmd_onoff_off_req.
Push ==
  /\ alive
  /\ pc \in {"read_push", "write_push"}
  /\ txQueue' = Append(txQueue,
        [op |-> IF pc = "read_push" THEN "read" ELSE OnOffRequest(request.light),
         light |-> request.light, n |-> request.n])
  /\ pc' = IF pc = "read_push" THEN "read_arm" ELSE "idle"
  /\ UNCHANGED <<request, requests, sems, responses, rxQueue, rx, timers, network,
                 mOn, known, disturbed, alive>>

\* malloc, timer_create and timer_settime.
ArmTimer ==
  /\ alive
  /\ pc = "read_arm"
  /\ tid' = request.n /\ tidFreed' = FALSE
  /\ armed' = armed \cup {request.n}
  /\ pc' = "read_wait"
  /\ UNCHANGED <<request, requests, sems, txQueue, responses, rxQueue, rx, stopped,
                 network, mOn, known, disturbed, alive>>

\* The read returns FAILURE, its command already queued.  Where sigaction or
\* timer_create fails, *tid is memory that nobody has filled; where
\* timer_settime fails, it names a timer that does not run.
ArmFails ==
  /\ alive
  /\ "notimer" \in Faults
  /\ pc = "read_arm"
  /\ tid' = request.n /\ tidFreed' = FALSE
  /\ stopped' \in {stopped, stopped \cup {request.n}}
  /\ pc' = "idle"
  /\ disturbed' = TRUE
  /\ UNCHANGED <<request, requests, sems, txQueue, responses, rxQueue, rx, armed,
                 network, mOn, known, alive>>

\* Fault: the response stays in the queue.
PopResponse_Kept == responses

\* gw_tx_response_queue.pop().
PopResponse == Tail(responses)

\* The end of HandleReadOnOffAttribute: the first response is this read's
\* value, whoever it came from; with none the read fails.
TakeResponse ==
  /\ alive
  /\ pc = "read_take"
  /\ pc' = "idle"
  /\ \/ /\ responses # << >>
        /\ Set(request.light, Head(responses).on)
        /\ known' = known \cup {request.light}
        /\ responses' = PopResponse
     \/ /\ responses = << >>
        /\ UNCHANGED <<mOn, known, responses>>
  /\ UNCHANGED <<request, requests, sems, txQueue, rxQueue, rx, timers, network,
                 disturbed, alive>>

-----------------------------------------------------------------------------
(* The timer's signal.                                                     *)

Blocked ==
  \/ pc \in {"read_tx", "write_tx"} /\ waitTx = 0
  \/ pc = "read_wait" /\ readSem = 0

\* Fault: the handler only frees the transmitter.
HandlerPosts_TxOnly == waitTx' = waitTx + 1 /\ UNCHANGED readSem

\* Fault: the handler only wakes the reader.
HandlerPosts_ReadOnly == readSem' = readSem + 1 /\ UNCHANGED waitTx

HandlerPosts == waitTx' = waitTx + 1 /\ readSem' = readSem + 1

\* ReleaseSemaphoreHandler for the timer of read t.  It may run on the event
\* loop's own thread, blocked in a sem_wait: SA_RESTART is not set, so that
\* sem_wait returns EINTR and the callback goes on without the semaphore.
Timeout(t) ==
  /\ alive
  /\ t \in armed
  /\ "late" \in Faults \/ OfRequest(t) = {}
  /\ HandlerPosts
  /\ armed' = armed \ {t}
  /\ tidFreed' = (tidFreed \/ t = tid)
  /\ disturbed' = TRUE
  /\ pc' \in {pc} \cup (IF Blocked THEN {AfterWait[pc]} ELSE {})
  /\ UNCHANGED <<request, requests, txQueue, responses, rxQueue, rx, tid, stopped,
                 network, mOn, known, alive>>

-----------------------------------------------------------------------------
(* The gateway's other threads.                                            *)

\* tx_queue_process_handler.
Send ==
  /\ alive
  /\ txQueue # << >>
  /\ air' = air \cup {Head(txQueue)}
  /\ txQueue' = Tail(txQueue)
  /\ UNCHANGED <<loop, sems, responses, rxQueue, rx, timers, tcp, lightOn,
                 mOn, known, disturbed, alive>>

\* tcp_rx_thread_hanlder: what one recv returns is one queue entry, of which
\* only the first message is ever looked at.
Receive ==
  /\ alive
  /\ tcp # << >>
  /\ \E n \in 1 .. Len(tcp) :
       /\ n = 1 \/ "merged" \in Faults
       /\ rxQueue' = Append(rxQueue, Head(tcp))
       /\ tcp' = SubSeq(tcp, n + 1, Len(tcp))
  /\ UNCHANGED <<loop, sems, txQueue, responses, rx, timers, air, lightOn,
                 mOn, known, disturbed, alive>>

\* Fault: a default response is dropped.
DefaultPosts_Dropped == UNCHANGED waitTx

DefaultPosts == waitTx' = waitTx + 1

\* rx_queue_process_handler, default response.
DefaultResponse ==
  /\ alive
  /\ rx = "take" /\ rxQueue # << >> /\ Head(rxQueue).of = "default"
  /\ DefaultPosts
  /\ rxQueue' = Tail(rxQueue)
  /\ UNCHANGED <<loop, readSem, txQueue, responses, rx, timers, network,
                 mOn, known, disturbed, alive>>

\* rx_queue_process_handler, read response: push and sem_post(&wait_tx_sem).
ReadResponse ==
  /\ alive
  /\ rx = "take" /\ rxQueue # << >> /\ Head(rxQueue).of = "read"
  /\ responses' = Append(responses, Head(rxQueue))
  /\ waitTx' = waitTx + 1
  /\ rx' = "post"
  /\ UNCHANGED <<loop, readSem, txQueue, rxQueue, timers, network,
                 mOn, known, disturbed, alive>>

\* sem_post(&read_attribute_sem).
PostRead ==
  /\ alive
  /\ rx = "post"
  /\ readSem' = readSem + 1
  /\ rx' = "delete"
  /\ UNCHANGED <<loop, waitTx, txQueue, responses, rxQueue, timers, network,
                 mOn, known, disturbed, alive>>

Timers == armed \cup stopped

\* *tid names no timer for sure: tid is freed, or its timer is gone, was never
\* created, or is only being created.
Dangling == tidFreed \/ tid \notin Timers \/ pc = "read_arm"

\* Fault: every timer is deleted.
TimersLeft_None == {{}}

\* timer_delete(*tid): the timer of the latest read, whichever read was
\* answered; any timer or none if it dangles.
TimersLeft ==
  IF Dangling THEN {Timers} \cup {Timers \ {t} : t \in Timers}
  ELSE {Timers \ {tid}}

DeleteTimer ==
  /\ alive
  /\ rx = "delete" /\ (tid # NoTimer \/ pc = "read_arm")
  /\ \E left \in TimersLeft :
       /\ armed' = armed \cap left
       /\ stopped' = stopped \cap left
  /\ rxQueue' = Tail(rxQueue)
  /\ rx' = "take"
  /\ UNCHANGED <<loop, sems, txQueue, responses, tid, tidFreed, network,
                 mOn, known, disturbed, alive>>

\* The process dies: timer_delete(*tid) with tid NULL or dangling, or two
\* threads in the same unsynchronised queue.
Crash ==
  /\ alive
  /\ \/ rx = "delete" /\ Dangling
     \/ pc \in {"read_push", "write_push"} /\ txQueue # << >>
     \/ tcp # << >> /\ rxQueue # << >>
     \/ pc = "read_take" /\ rx = "take" /\ rxQueue # << >> /\ responses # << >>
  /\ alive' = FALSE
  /\ UNCHANGED <<loop, sems, txQueue, responses, rxQueue, rx, timers, network,
                 mOn, known, disturbed>>

-----------------------------------------------------------------------------
(* The coordinator and the lights.                                         *)

Obeyed(c) == IF c.op = "read" THEN lightOn ELSE [lightOn EXCEPT ![c.light] = (c.op = "on")]

Answer(c) ==
  /\ alive
  /\ c \in air
  /\ air' = air \ {c}
  /\ lightOn' = Obeyed(c)
  /\ tcp' = Append(tcp, [of |-> IF c.op = "read" THEN "read" ELSE "default",
                         light |-> c.light, on |-> lightOn[c.light], n |-> c.n])
  /\ UNCHANGED <<loop, sems, txQueue, responses, rxQueue, rx, timers,
                 mOn, known, disturbed, alive>>

Lose(c) ==
  /\ alive
  /\ "lost" \in Faults
  /\ c \in air
  /\ air' = air \ {c}
  /\ lightOn' \in {lightOn, Obeyed(c)}
  /\ UNCHANGED <<loop, sems, txQueue, responses, rxQueue, rx, timers, tcp,
                 mOn, known, disturbed, alive>>

Controller ==
  \/ \E l \in Lights : ReadOnOff(l)
  \/ \E l \in Lights, on \in Writes : WriteOnOff(l, on)

EventLoop ==
  \/ WaitTx
  \/ WaitRead
  \/ Push
  \/ ArmTimer
  \/ ArmFails
  \/ TakeResponse

Process ==
  \/ DefaultResponse
  \/ ReadResponse
  \/ PostRead
  \/ DeleteTimer

Next ==
  \/ Controller
  \/ EventLoop
  \/ Send
  \/ Receive
  \/ Process
  \/ \E t \in Numbers : Timeout(t)
  \/ \E c \in air : Answer(c)
  \/ \E c \in air : Lose(c)
  \/ Crash

Spec == Init /\ [][Next]_vars

\* Threads are scheduled, timers expire, and the coordinator answers what is
\* not lost.
FairSpec ==
  /\ Spec
  /\ WF_vars(EventLoop) /\ WF_vars(Send) /\ WF_vars(Receive) /\ WF_vars(Process)
  /\ WF_vars(\E t \in Numbers : Timeout(t))
  /\ WF_vars(\E c \in air : Answer(c))

-----------------------------------------------------------------------------
(* Properties.                                                             *)

\* Every variable keeps to its type: the semaphores never go below zero, and
\* the queues hold commands and responses.
TypeOK ==
  /\ pc \in {"idle", "read_tx", "read_push", "read_arm", "read_wait", "read_take",
             "write_tx", "write_push"}
  /\ request \in {NoRequest} \cup Accesses /\ requests \in 0 .. MaxRequests
  /\ waitTx \in Nat /\ readSem \in Nat
  /\ txQueue \in Seq(Command) /\ responses \in Seq(Response)
  /\ rxQueue \in Seq(Response) /\ tcp \in Seq(Response)
  /\ rx \in {"take", "post", "delete"}
  /\ tid \in {NoTimer} \cup Numbers /\ tidFreed \in BOOLEAN
  /\ armed \subseteq Numbers /\ stopped \subseteq Numbers /\ air \subseteq Command
  /\ mOn \in [Lights -> BOOLEAN] /\ lightOn \in [Lights -> BOOLEAN]
  /\ known \subseteq Lights /\ disturbed \in BOOLEAN /\ alive \in BOOLEAN

\* Until a timer has expired or failed, what is in gw_tx_response_queue
\* answers the very read that HandleReadOnOffAttribute is waiting for, so
\* that no read returns the state of another light.
OwnAnswer ==
  ~disturbed => \A i \in DOMAIN responses :
    pc \in {"read_arm", "read_wait", "read_take"} /\ responses[i].n = request.n

\* A read that waits in sem_wait(&read_attribute_sem) is never forgotten: the
\* semaphore is up or some timer is there to post it, although the response
\* of one read may delete the timer of the next.
ReaderCanWake == alive /\ pc = "read_wait" => readSem > 0 \/ armed # {}

\* The event loop never waits for a wait_tx_sem that nobody will post: the
\* semaphore is up, a timer will post it, or a default response is to come.
SenderCanSend ==
  alive /\ pc \in {"read_tx", "write_tx"} =>
    \/ waitTx > 0
    \/ armed # {}
    \/ \E m \in air \cup ToSet(txQueue) : m.op # "read"
    \/ \E m \in ToSet(tcp) \cup ToSet(rxQueue) : m.of = "default"

\* Until a timer has expired or failed, once nothing is under way the
\* gateway's idea of a light it has read or switched is what the light is,
\* whether or not DeviceOnOff calls back for a write that changes nothing.
MirrorsLight ==
  ~disturbed /\ pc = "idle" /\ rx = "take"
    /\ air = {} /\ txQueue = << >> /\ tcp = << >> /\ rxQueue = << >> =>
      \A l \in known : mOn[l] = lightOn[l]

\* The event loop comes back from every attribute access.
LoopReturns == pc # "idle" ~> (pc = "idle" \/ ~alive)
=============================================================================
