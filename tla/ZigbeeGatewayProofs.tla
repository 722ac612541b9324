------------------------ MODULE ZigbeeGatewayProofs ------------------------
(***************************************************************************)
(* Proofs about the gateway's semaphores and queues for any lights, any    *)
(* number of requests and any choice of faults.                            *)
(***************************************************************************)
EXTENDS ZigbeeGateway, FiniteSetTheorems, TLAPS

-----------------------------------------------------------------------------
(* Type correctness.                                                       *)

\* Outside "idle" the event loop handles the latest request; the processing
\* thread keeps the message it works on at the head of its queue.
RequestOK ==
  /\ pc # "idle" => request \in Accesses /\ request.n = requests
  /\ rx # "take" => rxQueue # << >>

LEMMA AccessFields ==
  ASSUME NEW a \in Accesses
  PROVE  a.light \in Lights /\ a.n \in Numbers
BY DEF Accesses

LEMMA TailType ==
  ASSUME NEW S, NEW s \in Seq(S), s # << >>
  PROVE  Head(s) \in S /\ Tail(s) \in Seq(S)
OBVIOUS

LEMMA SubSeqType ==
  ASSUME NEW S, NEW s \in Seq(S), NEW n \in 1 .. Len(s)
  PROVE  SubSeq(s, n + 1, Len(s)) \in Seq(S)
OBVIOUS

LEMMA ObeyedType ==
  ASSUME lightOn \in [Lights -> BOOLEAN], NEW c \in Command
  PROVE  Obeyed(c) \in [Lights -> BOOLEAN]
BY DEF Obeyed, Command

\* A deleted timer is one, at most, of those there are.
LEMMA DeletedTimer ==
  ASSUME DeleteTimer
  PROVE  /\ armed' = armed \/ \E t \in armed : armed' = armed \ {t}
         /\ stopped' \subseteq stopped
<1>1. PICK left \in TimersLeft : armed' = armed \cap left /\ stopped' = stopped \cap left
  BY DEF DeleteTimer
<1>2. left = Timers \/ \E t : left = Timers \ {t}
  BY DEF TimersLeft
<1>3. CASE left = Timers
  BY <1>1, <1>3 DEF Timers
<1>4. ASSUME NEW t, left = Timers \ {t}
      PROVE  armed' = armed \/ (t \in armed /\ armed' = armed \ {t})
  <2>1. armed' = armed \ {t}
    BY <1>1, <1>4 DEF Timers
  <2>2. QED
    BY <2>1
<1>5. QED
  BY <1>1, <1>2, <1>3, <1>4

LEMMA TypeStep == TypeOK /\ RequestOK /\ [Next]_vars => TypeOK' /\ RequestOK'
<1> SUFFICES ASSUME TypeOK, RequestOK, [Next]_vars
             PROVE  TypeOK' /\ RequestOK'
  OBVIOUS
<1> USE GatewayAssumption DEF TypeOK, RequestOK, loop, sems, timers, network
<1>1. ASSUME NEW l \in Lights, ReadOnOff(l)
      PROVE  TypeOK' /\ RequestOK'
  <2>1. request' \in Accesses /\ request'.n = requests'
    BY <1>1 DEF ReadOnOff, Accesses, Numbers
  <2>2. QED
    BY <1>1, <2>1 DEF ReadOnOff
<1>2. ASSUME NEW l \in Lights, NEW on \in Writes, WriteOnOff(l, on)
      PROVE  TypeOK' /\ RequestOK'
  <2>1. request' \in Accesses /\ request'.n = requests'
    BY <1>2 DEF WriteOnOff, Accesses, Numbers
  <2>2. PICK notified \in BOOLEAN :
          /\ SetOnOff(l, on, notified)
          /\ pc' = IF notified THEN "write_tx" ELSE "idle"
          /\ known' = IF notified THEN known \cup {l} ELSE known
    BY <1>2 DEF WriteOnOff
  <2>3. mOn' \in [Lights -> BOOLEAN] /\ known' \subseteq Lights
    BY <2>2 DEF SetOnOff
  <2>4. pc' \in {"idle", "write_tx"}
    BY <2>2
  <2>5. QED
    BY <1>2, <2>1, <2>3, <2>4 DEF WriteOnOff
<1>3. CASE WaitTx
  BY <1>3 DEF WaitTx, IsUp, AfterWait
<1>4. CASE WaitRead
  BY <1>4 DEF WaitRead, IsUp, AfterWait
<1>5. CASE Push
  <2>1. request.light \in Lights /\ request.n \in Numbers
    BY <1>5, AccessFields DEF Push
  <2>2. [op |-> IF pc = "read_push" THEN "read" ELSE OnOffRequest(request.light),
         light |-> request.light, n |-> request.n] \in Command
    BY <2>1 DEF Command, OnOffRequest
  <2>3. txQueue' \in Seq(Command)
    BY <1>5, <2>2 DEF Push
  <2>4. QED
    BY <1>5, <2>3 DEF Push
<1>6. CASE ArmTimer
  <2>1. request.n \in Numbers
    BY <1>6, AccessFields DEF ArmTimer
  <2>2. QED
    BY <1>6, <2>1 DEF ArmTimer
<1>7. CASE ArmFails
  <2>1. request.n \in Numbers
    BY <1>7, AccessFields DEF ArmFails
  <2>2. QED
    BY <1>7, <2>1 DEF ArmFails
<1>8. CASE TakeResponse
  <2>1. request.light \in Lights
    BY <1>8, AccessFields DEF TakeResponse
  <2>2. /\ mOn' \in [Lights -> BOOLEAN]
        /\ known' \subseteq Lights
        /\ responses' \in Seq(Response)
    <3>1. CASE responses = << >>
      BY <1>8, <3>1 DEF TakeResponse
    <3>2. CASE responses # << >>
      <4>1. Head(responses) \in Response /\ Tail(responses) \in Seq(Response)
        BY <3>2, TailType
      <4>2. Head(responses).on \in BOOLEAN
        BY <4>1 DEF Response
      <4>3. QED
        BY <1>8, <3>2, <2>1, <4>1, <4>2 DEF TakeResponse, Set, PopResponse
    <3>3. QED
      BY <3>1, <3>2
  <2>3. QED
    BY <1>8, <2>2 DEF TakeResponse
<1>9. CASE Send
  <2>1. Head(txQueue) \in Command /\ Tail(txQueue) \in Seq(Command)
    BY <1>9, TailType DEF Send
  <2>2. QED
    BY <1>9, <2>1 DEF Send
<1>10. CASE Receive
  <2>1. PICK n \in 1 .. Len(tcp) :
          /\ rxQueue' = Append(rxQueue, Head(tcp))
          /\ tcp' = SubSeq(tcp, n + 1, Len(tcp))
    BY <1>10 DEF Receive
  <2>2. Head(tcp) \in Response /\ tcp' \in Seq(Response)
    BY <1>10, <2>1, TailType, SubSeqType DEF Receive
  <2>3. rxQueue' \in Seq(Response) /\ rxQueue' # << >>
    BY <2>1, <2>2
  <2>4. QED
    BY <1>10, <2>2, <2>3 DEF Receive
<1>11. CASE DefaultResponse
  <2>1. Tail(rxQueue) \in Seq(Response)
    BY <1>11, TailType DEF DefaultResponse
  <2>2. QED
    BY <1>11, <2>1 DEF DefaultResponse, DefaultPosts
<1>12. CASE ReadResponse
  <2>1. Head(rxQueue) \in Response
    BY <1>12, TailType DEF ReadResponse
  <2>2. QED
    BY <1>12, <2>1 DEF ReadResponse
<1>13. CASE PostRead
  BY <1>13 DEF PostRead
<1>14. CASE DeleteTimer
  <2>1. Tail(rxQueue) \in Seq(Response)
    BY <1>14, TailType DEF DeleteTimer
  <2>2. armed' \subseteq armed /\ stopped' \subseteq stopped
    BY <1>14, DeletedTimer
  <2>3. QED
    BY <1>14, <2>1, <2>2 DEF DeleteTimer
<1>15. ASSUME NEW t \in Numbers, Timeout(t)
       PROVE  TypeOK' /\ RequestOK'
  <2>1. pc' \in {pc} \cup (IF Blocked THEN {AfterWait[pc]} ELSE {})
    BY <1>15 DEF Timeout
  <2>2. /\ pc' \in {"idle", "read_tx", "read_push", "read_arm", "read_wait", "read_take",
                    "write_tx", "write_push"}
        /\ pc = "idle" => pc' = "idle"
    BY <2>1 DEF Blocked, AfterWait
  <2>3. tidFreed' \in BOOLEAN
    BY <1>15 DEF Timeout
  <2>4. QED
    BY <1>15, <2>2, <2>3 DEF Timeout, HandlerPosts
<1>16. ASSUME NEW c \in air, Answer(c)
       PROVE  TypeOK' /\ RequestOK'
  <2>1. c \in Command
    OBVIOUS
  <2>2. [of |-> IF c.op = "read" THEN "read" ELSE "default",
         light |-> c.light, on |-> lightOn[c.light], n |-> c.n] \in Response
    BY <2>1 DEF Command, Response
  <2>3. tcp' \in Seq(Response)
    BY <1>16, <2>2 DEF Answer
  <2>4. lightOn' \in [Lights -> BOOLEAN]
    BY <1>16, <2>1, ObeyedType DEF Answer
  <2>5. QED
    BY <1>16, <2>3, <2>4 DEF Answer
<1>17. ASSUME NEW c \in air, Lose(c)
       PROVE  TypeOK' /\ RequestOK'
  <2>1. lightOn' \in [Lights -> BOOLEAN]
    BY <1>17, ObeyedType DEF Lose
  <2>2. QED
    BY <1>17, <2>1 DEF Lose
<1>18. CASE Crash
  BY <1>18 DEF Crash
<1>19. CASE UNCHANGED vars
  BY <1>19 DEF vars
<1> HIDE DEF TypeOK, RequestOK, loop, sems, timers, network
<1>20. QED
  BY <1>1, <1>2, <1>3, <1>4, <1>5, <1>6, <1>7, <1>8, <1>9, <1>10, <1>11, <1>12,
     <1>13, <1>14, <1>15, <1>16, <1>17, <1>18, <1>19
  DEF Next, Controller, EventLoop, Process

LEMMA TypeInit == Init => TypeOK /\ RequestOK
<1> SUFFICES ASSUME Init
             PROVE  TypeOK /\ RequestOK
  OBVIOUS
<1>1. /\ << >> \in Seq(Command) /\ << >> \in Seq(Response)
      /\ [l \in Lights |-> FALSE] \in [Lights -> BOOLEAN]
  OBVIOUS
<1>2. 0 \in 0 .. MaxRequests
  BY GatewayAssumption
<1>3. QED
  BY <1>1, <1>2 DEF Init, TypeOK, RequestOK

LEMMA TypeAlways == Spec => [](TypeOK /\ RequestOK)
BY TypeInit, TypeStep, PTL DEF Spec

\* The semaphores never go below zero, the queues hold whole messages, and
\* the processing thread never pops an empty queue, whatever the timers and
\* the radio do.
THEOREM GatewayTypeCorrect == Spec => []TypeOK
BY TypeAlways, PTL

-----------------------------------------------------------------------------
(* Timers.                                                                 *)

\* A timer is set once for each read, after the read was counted.
TimersOK ==
  /\ armed \subseteq 1 .. requests
  /\ pc \in {"read_tx", "read_push", "read_arm"} => requests \notin armed

GatewayInv == TypeOK /\ RequestOK /\ TimersOK

LEMMA ArmedFinite ==
  ASSUME TypeOK
  PROVE  IsFiniteSet(armed) /\ Cardinality(armed) \in Nat
<1>1. IsFiniteSet(Numbers)
  BY FS_Interval, GatewayAssumption DEF Numbers
<1>2. QED
  BY <1>1, FS_Subset, FS_CardinalityType DEF TypeOK

LEMMA TimersStep == GatewayInv /\ [Next]_vars => TimersOK'
<1> SUFFICES ASSUME GatewayInv, [Next]_vars
             PROVE  TimersOK'
  OBVIOUS
<1>0. requests \in Nat /\ (pc # "idle" => request.n = requests)
  BY GatewayAssumption DEF GatewayInv, TypeOK, RequestOK
<1> USE <1>0 DEF GatewayInv, TimersOK, loop, timers
<1>1. ASSUME NEW l, ReadOnOff(l)
      PROVE  TimersOK'
  BY <1>1 DEF ReadOnOff
<1>2. ASSUME NEW l, NEW on, WriteOnOff(l, on)
      PROVE  TimersOK'
  BY <1>2 DEF WriteOnOff
<1>3. CASE WaitTx
  BY <1>3 DEF WaitTx, AfterWait
<1>4. CASE WaitRead \/ Push \/ ArmFails \/ TakeResponse
  BY <1>4 DEF WaitRead, Push, ArmFails, TakeResponse, AfterWait
<1>5. CASE ArmTimer
  <2>1. requests \in 1 .. requests
    BY <1>5, GatewayAssumption DEF ArmTimer, RequestOK, TypeOK, Accesses, Numbers
  <2>2. QED
    BY <1>5, <2>1 DEF ArmTimer
<1>6. CASE Send \/ Receive \/ DefaultResponse \/ ReadResponse \/ PostRead \/ Crash
             \/ UNCHANGED vars
  BY <1>6 DEF Send, Receive, DefaultResponse, ReadResponse, PostRead, Crash, vars
<1>7. CASE DeleteTimer
  BY <1>7, DeletedTimer DEF DeleteTimer
<1>8. ASSUME NEW t, Timeout(t)
      PROVE  TimersOK'
  <2>1. pc' \in {"read_tx", "read_push", "read_arm"}
          => pc \in {"read_tx", "read_push", "read_arm"}
    BY <1>8 DEF Timeout, Blocked, AfterWait
  <2>2. QED
    BY <1>8, <2>1 DEF Timeout
<1>9. ASSUME NEW c, Answer(c) \/ Lose(c)
      PROVE  TimersOK'
  BY <1>9 DEF Answer, Lose
<1> HIDE DEF GatewayInv, TimersOK, loop, timers
<1>10. QED
  BY <1>1, <1>2, <1>3, <1>4, <1>5, <1>6, <1>7, <1>8, <1>9
  DEF Next, Controller, EventLoop, Process

LEMMA GatewayAlways == Spec => []GatewayInv
<1>1. Init => TimersOK
  BY DEF Init, TimersOK
<1>2. TypeOK /\ RequestOK /\ TimersOK /\ [Next]_vars => TimersOK'
  BY TimersStep DEF GatewayInv
<1>3. QED
  BY <1>1, <1>2, TypeAlways, PTL DEF Spec, GatewayInv

\* What a step does to the timers.
LEMMA ArmedAdd ==
  ASSUME GatewayInv, ArmTimer
  PROVE  Cardinality(armed') = Cardinality(armed) + 1
<1>1. armed' = armed \cup {requests} /\ requests \notin armed
  BY DEF ArmTimer, GatewayInv, RequestOK, TimersOK
<1>2. QED
  BY <1>1, ArmedFinite, FS_AddElement DEF GatewayInv

LEMMA ArmedRemove ==
  ASSUME TypeOK, NEW t \in armed, armed' = armed \ {t}
  PROVE  Cardinality(armed') = Cardinality(armed) - 1
BY ArmedFinite, FS_RemoveElement

LEMMA ArmedDelete ==
  ASSUME TypeOK, DeleteTimer
  PROVE  Cardinality(armed') >= Cardinality(armed) - 1 /\ Cardinality(armed') \in Nat
<1>1. Cardinality(armed) \in Nat
  BY ArmedFinite
<1>2. CASE armed' = armed
  BY <1>1, <1>2
<1>3. ASSUME NEW t \in armed, armed' = armed \ {t}
      PROVE  Cardinality(armed') = Cardinality(armed) - 1 /\ Cardinality(armed') \in Nat
  <2>1. IsFiniteSet(armed')
    BY <1>3, ArmedFinite, FS_Subset
  <2>2. QED
    BY <1>3, <2>1, ArmedRemove, FS_CardinalityType
<1>4. \/ armed' = armed
      \/ \E t \in armed : armed' = armed \ {t}
  BY DeletedTimer
<1>5. QED
  BY <1>1, <1>2, <1>3, <1>4

-----------------------------------------------------------------------------
(* The reader.  Every post that a waiting read may need is there already   *)
(* or is a timer's, beyond the one timer that the processing thread is     *)
(* about to delete: it has posted the semaphore before.                    *)

Count(condition) == IF condition THEN 1 ELSE 0

WakeCredit ==
  readSem + Cardinality(armed) >= Count(rx = "delete") + Count(pc = "read_wait")

LEMMA WakeStep == GatewayInv /\ WakeCredit /\ [Next]_vars => WakeCredit'
<1> SUFFICES ASSUME GatewayInv, WakeCredit, [Next]_vars
             PROVE  WakeCredit'
  OBVIOUS
<1>0. readSem \in Nat /\ Cardinality(armed) \in Nat /\ TypeOK
  BY ArmedFinite DEF GatewayInv, TypeOK
<1> USE <1>0 DEF WakeCredit, Count, loop, sems, timers
<1>1. CASE \/ \E l \in Lights : ReadOnOff(l)
           \/ \E l \in Lights, on \in Writes : WriteOnOff(l, on)
  BY <1>1 DEF ReadOnOff, WriteOnOff
<1>2. CASE WaitTx \/ Push \/ ArmFails \/ TakeResponse
  BY <1>2 DEF WaitTx, Push, ArmFails, TakeResponse, AfterWait
<1>3. CASE WaitRead
  BY <1>3 DEF WaitRead, IsUp
<1>4. CASE ArmTimer
  <2>1. Cardinality(armed') = Cardinality(armed) + 1
    BY <1>4, ArmedAdd
  <2>2. QED
    BY <1>4, <2>1 DEF ArmTimer
<1>5. CASE Send \/ Receive \/ DefaultResponse \/ ReadResponse \/ Crash \/ UNCHANGED vars
  BY <1>5 DEF Send, Receive, DefaultResponse, ReadResponse, Crash, vars
<1>6. CASE PostRead
  BY <1>6 DEF PostRead
<1>7. CASE DeleteTimer
  <2>1. Cardinality(armed') >= Cardinality(armed) - 1 /\ Cardinality(armed') \in Nat
    BY <1>7, ArmedDelete
  <2>2. QED
    BY <1>7, <2>1 DEF DeleteTimer
<1>8. ASSUME NEW t \in Numbers, Timeout(t)
      PROVE  WakeCredit'
  <2>1. Cardinality(armed') = Cardinality(armed) - 1
    BY <1>8, ArmedRemove DEF Timeout
  <2>2. pc' = "read_wait" => pc = "read_wait"
    BY <1>8 DEF Timeout, Blocked, AfterWait
  <2>3. QED
    BY <1>8, <2>1, <2>2 DEF Timeout, HandlerPosts
<1>9. ASSUME NEW c \in air, Answer(c) \/ Lose(c)
      PROVE  WakeCredit'
  BY <1>9 DEF Answer, Lose
<1> HIDE DEF WakeCredit, Count, loop, sems, timers
<1>10. QED
  BY <1>1, <1>2, <1>3, <1>4, <1>5, <1>6, <1>7, <1>8, <1>9
  DEF Next, Controller, EventLoop, Process

\* A read that waits in sem_wait(&read_attribute_sem) is never forgotten,
\* whatever is lost, late or merged, and although timer_delete may hit the
\* timer of another read.
THEOREM ReaderCanAlwaysWake == Spec => []ReaderCanWake
<1>1. Init => WakeCredit
  BY FS_EmptySet DEF Init, WakeCredit, Count
<1>2. GatewayInv /\ WakeCredit => ReaderCanWake
  <2> SUFFICES ASSUME GatewayInv, WakeCredit, pc = "read_wait", armed = {}
               PROVE  readSem > 0
    BY DEF ReaderCanWake
  <2>1. Cardinality(armed) = 0
    BY FS_EmptySet
  <2>2. readSem \in Nat
    BY DEF GatewayInv, TypeOK
  <2>3. QED
    BY <2>1, <2>2 DEF WakeCredit, Count
<1>3. QED
  BY <1>1, <1>2, WakeStep, GatewayAlways, PTL DEF Spec

-----------------------------------------------------------------------------
(* Elements of the queues.                                                 *)

LEMMA ElementsOfAppend ==
  ASSUME NEW S, NEW s \in Seq(S), NEW e \in S
  PROVE  ToSet(Append(s, e)) = ToSet(s) \cup {e}
<1>1. DOMAIN Append(s, e) = DOMAIN s \cup {Len(s) + 1}
  OBVIOUS
<1>2. /\ Append(s, e)[Len(s) + 1] = e
      /\ \A i \in DOMAIN s : Append(s, e)[i] = s[i]
  OBVIOUS
<1>3. QED
  BY <1>1, <1>2 DEF ToSet

LEMMA ElementsOfTail ==
  ASSUME NEW S, NEW s \in Seq(S), s # << >>
  PROVE  ToSet(s) = {Head(s)} \cup ToSet(Tail(s))
<1>1. /\ 1 \in DOMAIN s /\ Head(s) = s[1]
      /\ \A i \in DOMAIN Tail(s) : i + 1 \in DOMAIN s /\ Tail(s)[i] = s[i + 1]
      /\ \A i \in DOMAIN s : i # 1 => i - 1 \in DOMAIN Tail(s) /\ Tail(s)[i - 1] = s[i]
  OBVIOUS
<1>2. ToSet(s) \subseteq {Head(s)} \cup ToSet(Tail(s))
  BY <1>1 DEF ToSet
<1>3. {Head(s)} \cup ToSet(Tail(s)) \subseteq ToSet(s)
  BY <1>1 DEF ToSet
<1>4. QED
  BY <1>2, <1>3

LEMMA ElementsOfSubSeq ==
  ASSUME NEW S, NEW s \in Seq(S), NEW n \in 1 .. Len(s)
  PROVE  /\ ToSet(SubSeq(s, n + 1, Len(s))) \subseteq ToSet(s)
         /\ n = 1 => SubSeq(s, n + 1, Len(s)) = Tail(s)
<1>1. \A i \in DOMAIN SubSeq(s, n + 1, Len(s)) :
        i + n \in DOMAIN s /\ SubSeq(s, n + 1, Len(s))[i] = s[i + n]
  OBVIOUS
<1>2. n = 1 => SubSeq(s, n + 1, Len(s)) = Tail(s)
  OBVIOUS
<1>3. QED
  BY <1>1, <1>2 DEF ToSet

-----------------------------------------------------------------------------
(* The sender.  A write sets no timer: its semaphore comes back with the   *)
(* default response, so that the commands and responses of writes that are *)
(* under way count as posts to come.                                       *)

WriteCommands == {m.n : m \in {c \in air \cup ToSet(txQueue) : c.op # "read"}}
DefaultResponses == {m.n : m \in {r \in ToSet(tcp) \cup ToSet(rxQueue) : r.of = "default"}}
Owed == WriteCommands \cup DefaultResponses

OwedOK ==
  /\ Owed \subseteq 1 .. requests
  /\ pc \in {"write_tx", "write_push"} => requests \notin Owed /\ Writes # {}
  /\ Writes = {} => Owed = {}
  /\ rx # "take" => Head(rxQueue).of = "read"

OwedInv == GatewayInv /\ OwedOK

\* How a step changes what is owed.
OwedKeeps == Owed' = Owed
OwedAdds == Owed' = Owed \cup {requests}

LEMMA OwedUnchanged ==
  ASSUME UNCHANGED <<air, txQueue, tcp, rxQueue>>
  PROVE  OwedKeeps
BY DEF OwedKeeps, Owed, WriteCommands, DefaultResponses

LEMMA OwedSend ==
  ASSUME TypeOK, Send
  PROVE  OwedKeeps
<1>1. ToSet(txQueue) = {Head(txQueue)} \cup ToSet(txQueue')
  BY ElementsOfTail DEF Send, TypeOK
<1>2. air' \cup ToSet(txQueue') = air \cup ToSet(txQueue)
  BY <1>1 DEF Send
<1>3. UNCHANGED <<tcp, rxQueue>>
  BY DEF Send
<1>4. QED
  BY <1>2, <1>3 DEF OwedKeeps, Owed, WriteCommands, DefaultResponses

LEMMA OwedReceive ==
  ASSUME TypeOK, Receive
  PROVE  Owed' \subseteq Owed /\ ("merged" \notin Faults => OwedKeeps)
<1>1. PICK n \in 1 .. Len(tcp) :
        /\ n = 1 \/ "merged" \in Faults
        /\ rxQueue' = Append(rxQueue, Head(tcp))
        /\ tcp' = SubSeq(tcp, n + 1, Len(tcp))
  BY DEF Receive
<1>2. tcp \in Seq(Response) /\ tcp # << >> /\ rxQueue \in Seq(Response)
      /\ Head(tcp) \in Response
  BY TailType DEF Receive, TypeOK
<1>3. ToSet(rxQueue') = ToSet(rxQueue) \cup {Head(tcp)}
  BY <1>1, <1>2, ElementsOfAppend
<1>4. ToSet(tcp) = {Head(tcp)} \cup ToSet(Tail(tcp))
  BY <1>2, ElementsOfTail
<1>5. ToSet(tcp') \subseteq ToSet(tcp) /\ (n = 1 => tcp' = Tail(tcp))
  BY <1>1, <1>2, ElementsOfSubSeq
<1>6. UNCHANGED <<air, txQueue>>
  BY DEF Receive
<1>7. ToSet(tcp') \cup ToSet(rxQueue') \subseteq ToSet(tcp) \cup ToSet(rxQueue)
  BY <1>3, <1>4, <1>5
<1>8. "merged" \notin Faults
        => ToSet(tcp') \cup ToSet(rxQueue') = ToSet(tcp) \cup ToSet(rxQueue)
  BY <1>1, <1>3, <1>4, <1>5
<1>9. QED
  BY <1>6, <1>7, <1>8 DEF OwedKeeps, Owed, WriteCommands, DefaultResponses

LEMMA OwedAnswer ==
  ASSUME TypeOK, NEW c \in air, Answer(c)
  PROVE  OwedKeeps
<1> DEFINE r == [of |-> IF c.op = "read" THEN "read" ELSE "default",
                 light |-> c.light, on |-> lightOn[c.light], n |-> c.n]
<1>1. r \in Response /\ r.n = c.n /\ (r.of = "default" <=> c.op # "read")
  BY DEF TypeOK, Command, Response
<1>2. air' = air \ {c} /\ tcp' = Append(tcp, r) /\ UNCHANGED <<txQueue, rxQueue>>
  BY DEF Answer
<1> HIDE DEF r
<1>3. ToSet(tcp') = ToSet(tcp) \cup {r}
  BY <1>1, <1>2, ElementsOfAppend DEF TypeOK
<1>4. DefaultResponses' = DefaultResponses \cup (IF c.op # "read" THEN {c.n} ELSE {})
  BY <1>1, <1>2, <1>3 DEF DefaultResponses
<1>5. /\ WriteCommands' \subseteq WriteCommands
      /\ WriteCommands \subseteq WriteCommands' \cup (IF c.op # "read" THEN {c.n} ELSE {})
      /\ c.op # "read" => c.n \in WriteCommands
  BY <1>2 DEF WriteCommands
<1>6. QED
  BY <1>4, <1>5 DEF OwedKeeps, Owed

LEMMA OwedLose ==
  ASSUME NEW c \in air, Lose(c)
  PROVE  Owed' \subseteq Owed
BY DEF Lose, Owed, WriteCommands, DefaultResponses

LEMMA OwedPop ==
  ASSUME TypeOK, rxQueue # << >>, rxQueue' = Tail(rxQueue), UNCHANGED <<air, txQueue, tcp>>
  PROVE  /\ Owed' \subseteq Owed
         /\ IF Head(rxQueue).of = "default"
            THEN Head(rxQueue).n \in Owed /\ Owed \subseteq Owed' \cup {Head(rxQueue).n}
            ELSE OwedKeeps
<1>1. ToSet(rxQueue) = {Head(rxQueue)} \cup ToSet(rxQueue')
  BY ElementsOfTail DEF TypeOK
<1>2. WriteCommands' = WriteCommands
  BY DEF WriteCommands
<1>3. DefaultResponses
        = DefaultResponses'
          \cup (IF Head(rxQueue).of = "default" THEN {Head(rxQueue).n} ELSE {})
  BY <1>1 DEF DefaultResponses
<1>4. QED
  BY <1>2, <1>3 DEF Owed, OwedKeeps

LEMMA OwedPush ==
  ASSUME TypeOK, RequestOK, Push
  PROVE  IF pc = "write_push" THEN OwedAdds ELSE OwedKeeps
<1> DEFINE m == [op |-> IF pc = "read_push" THEN "read" ELSE OnOffRequest(request.light),
                 light |-> request.light, n |-> request.n]
<1>1. request \in Accesses /\ request.n = requests /\ request.light \in Lights
      /\ request.n \in Numbers
  BY AccessFields DEF Push, RequestOK
<1>2. m \in Command /\ m.n = requests /\ (m.op # "read" <=> pc = "write_push")
  BY <1>1 DEF Push, OnOffRequest, Command
<1>3. txQueue' = Append(txQueue, m) /\ UNCHANGED <<air, tcp, rxQueue>>
  BY DEF Push, network
<1> HIDE DEF m
<1>4. ToSet(txQueue') = ToSet(txQueue) \cup {m}
  BY <1>2, <1>3, ElementsOfAppend DEF TypeOK
<1>5. DefaultResponses' = DefaultResponses
  BY <1>3 DEF DefaultResponses
<1>6. WriteCommands' = WriteCommands \cup (IF pc = "write_push" THEN {requests} ELSE {})
  BY <1>2, <1>3, <1>4 DEF WriteCommands
<1>7. QED
  BY <1>5, <1>6 DEF Owed, OwedAdds, OwedKeeps

LEMMA OwedStep == OwedInv /\ [Next]_vars => OwedOK'
<1> SUFFICES ASSUME OwedInv, [Next]_vars
             PROVE  OwedOK'
  OBVIOUS
<1>0. /\ requests \in Nat
      /\ TypeOK /\ RequestOK
  BY GatewayAssumption DEF OwedInv, GatewayInv, TypeOK
<1> USE <1>0 DEF OwedInv, OwedOK, loop
<1>1. CASE \/ \E l \in Lights : ReadOnOff(l)
           \/ \E l \in Lights, on \in Writes : WriteOnOff(l, on)
  <2>1. /\ UNCHANGED <<air, txQueue, tcp, rxQueue, rx>>
        /\ requests' = requests + 1
        /\ pc' \in {"write_tx", "write_push"} => Writes # {}
    BY <1>1 DEF ReadOnOff, WriteOnOff, network
  <2>2. Owed' = Owed
    BY <2>1, OwedUnchanged DEF OwedKeeps
  <2>3. requests + 1 \notin 1 .. requests /\ 1 .. requests \subseteq 1 .. (requests + 1)
    BY <1>0
  <2>4. QED
    BY <2>1, <2>2, <2>3
<1>2. CASE WaitTx
  <2>1. /\ UNCHANGED <<air, txQueue, tcp, rxQueue, rx, requests>>
        /\ pc' \in {"write_tx", "write_push"} => pc \in {"write_tx", "write_push"}
    BY <1>2 DEF WaitTx, AfterWait, network
  <2>2. QED
    BY <2>1, OwedUnchanged DEF OwedKeeps
<1>3. CASE WaitRead \/ ArmTimer \/ ArmFails \/ TakeResponse \/ Crash \/ UNCHANGED vars
  BY <1>3, OwedUnchanged
  DEF WaitRead, ArmTimer, ArmFails, TakeResponse, Crash, vars, OwedKeeps, network, AfterWait
<1>4. CASE Push
  <2>1. UNCHANGED <<requests, rx, rxQueue>> /\ pc' \in {"read_arm", "idle"}
    BY <1>4 DEF Push
  <2>2. requests \in 1 .. requests
    BY <1>4 DEF Push, RequestOK, TypeOK, Accesses, Numbers
  <2>3. /\ Owed' \subseteq Owed \cup {requests}
        /\ Writes = {} => Owed' = Owed
    BY <1>4, OwedPush DEF OwedAdds, OwedKeeps
  <2>4. QED
    BY <2>1, <2>2, <2>3
<1>5. CASE Send
  BY <1>5, OwedSend DEF Send, OwedKeeps
<1>6. CASE Receive
  <2>1. Owed' \subseteq Owed /\ UNCHANGED <<requests, pc, rx>>
    BY <1>6, OwedReceive DEF Receive
  <2>2. rxQueue # << >> => Head(rxQueue') = Head(rxQueue)
    <3>1. rxQueue' = Append(rxQueue, Head(tcp)) /\ rxQueue \in Seq(Response)
      BY <1>6 DEF Receive, TypeOK
    <3>2. QED
      BY <3>1
  <2>3. QED
    BY <2>1, <2>2 DEF RequestOK
<1>7. CASE DefaultResponse
  <2>1. Owed' \subseteq Owed
    BY <1>7, OwedPop DEF DefaultResponse, network
  <2>2. QED
    BY <1>7, <2>1 DEF DefaultResponse
<1>8. CASE ReadResponse \/ PostRead
  BY <1>8, OwedUnchanged DEF ReadResponse, PostRead, OwedKeeps, network
<1>9. CASE DeleteTimer
  <2>1. Owed' \subseteq Owed
    BY <1>9, OwedPop DEF DeleteTimer, network, RequestOK
  <2>2. QED
    BY <1>9, <2>1 DEF DeleteTimer
<1>10. ASSUME NEW t, Timeout(t)
       PROVE  OwedOK'
  <2>1. /\ UNCHANGED <<requests, rx, rxQueue, air, txQueue, tcp>>
        /\ pc' \in {"write_tx", "write_push"} => pc \in {"write_tx", "write_push"}
    BY <1>10 DEF Timeout, Blocked, AfterWait, network
  <2>2. QED
    BY <2>1, OwedUnchanged DEF OwedKeeps
<1>11. ASSUME NEW c \in air, Answer(c)
       PROVE  OwedOK'
  BY <1>11, OwedAnswer DEF Answer, OwedKeeps
<1>12. ASSUME NEW c \in air, Lose(c)
       PROVE  OwedOK'
  BY <1>12, OwedLose DEF Lose
<1> HIDE DEF OwedInv, OwedOK, loop
<1>13. QED
  BY <1>1, <1>2, <1>3, <1>4, <1>5, <1>6, <1>7, <1>8, <1>9, <1>10, <1>11, <1>12
  DEF Next, Controller, EventLoop, Process

LEMMA OwedAlways == Spec => []OwedInv
<1>1. Init => OwedOK
  BY DEF Init, OwedOK, Owed, WriteCommands, DefaultResponses, ToSet
<1>2. GatewayInv /\ OwedOK /\ [Next]_vars => OwedOK'
  BY OwedStep DEF OwedInv
<1>3. QED
  BY <1>1, <1>2, GatewayAlways, PTL DEF Spec, OwedInv

LEMMA OwedFinite ==
  ASSUME OwedInv
  PROVE  IsFiniteSet(Owed) /\ Cardinality(Owed) \in Nat
<1>1. IsFiniteSet(1 .. requests)
  BY FS_Interval, GatewayAssumption DEF OwedInv, GatewayInv, TypeOK
<1>2. QED
  BY <1>1, FS_Subset, FS_CardinalityType DEF OwedInv, OwedOK

LEMMA OwedOneLess ==
  ASSUME OwedInv, Owed' \subseteq Owed, NEW n \in Owed, Owed \subseteq Owed' \cup {n}
  PROVE  Cardinality(Owed') >= Cardinality(Owed) - 1 /\ Cardinality(Owed') \in Nat
<1>1. CASE Owed' = Owed
  BY <1>1, OwedFinite
<1>2. CASE Owed' = Owed \ {n}
  <2>1. Cardinality(Owed') = Cardinality(Owed) - 1
    BY <1>2, OwedFinite, FS_RemoveElement
  <2>2. IsFiniteSet(Owed')
    BY OwedFinite, FS_Subset
  <2>3. QED
    BY <2>1, <2>2, OwedFinite, FS_CardinalityType
<1>3. QED
  BY <1>1, <1>2

\* The faults that cost a semaphore for good: a timer that cannot be created,
\* and a write's response that is lost or dropped with what came before it.
SemaphoreSafe ==
  /\ "notimer" \notin Faults
  /\ Writes = {} \/ ("lost" \notin Faults /\ "merged" \notin Faults)

SendCredit ==
  waitTx + Cardinality(armed) + Cardinality(Owed)
      + Count(pc \in {"read_push", "read_arm", "write_push"})
    >= 1 + Count(rx # "take")

LEMMA SendStep ==
  ASSUME SemaphoreSafe
  PROVE  OwedInv /\ SendCredit /\ [Next]_vars => SendCredit'
<1> SUFFICES ASSUME OwedInv, SendCredit, [Next]_vars
             PROVE  SendCredit'
  OBVIOUS
<1>0. /\ waitTx \in Nat /\ Cardinality(armed) \in Nat /\ Cardinality(Owed) \in Nat
      /\ TypeOK /\ RequestOK /\ GatewayInv
  BY ArmedFinite, OwedFinite DEF OwedInv, GatewayInv, TypeOK
<1> USE <1>0 DEF SendCredit, Count, OwedKeeps
<1>1. ASSUME UNCHANGED <<air, txQueue, tcp, rxQueue>>
      PROVE  Owed' = Owed
  BY <1>1, OwedUnchanged
<1>2. CASE \/ \E l \in Lights : ReadOnOff(l)
           \/ \E l \in Lights, on \in Writes : WriteOnOff(l, on)
  BY <1>1, <1>2 DEF ReadOnOff, WriteOnOff, network, sems, timers
<1>3. CASE WaitTx
  <2>1. /\ waitTx' = waitTx - 1 /\ UNCHANGED <<armed, rx>> /\ Owed' = Owed
        /\ pc' \in {"read_push", "write_push"} /\ pc \in {"read_tx", "write_tx"}
    BY <1>1, <1>3 DEF WaitTx, AfterWait, network, timers
  <2>2. QED
    BY <2>1
<1>4. CASE WaitRead \/ TakeResponse \/ Crash \/ UNCHANGED vars
  <2>1. UNCHANGED <<waitTx, armed, rx>> /\ Owed' = Owed
    BY <1>1, <1>4 DEF WaitRead, TakeResponse, Crash, vars, network, timers, sems
  <2>2. pc \in {"read_push", "read_arm", "write_push"}
          => pc' \in {"read_push", "read_arm", "write_push"}
    BY <1>4 DEF WaitRead, TakeResponse, Crash, vars, loop
  <2>3. QED
    BY <2>1, <2>2
<1>5. CASE ArmTimer
  <2>1. Cardinality(armed') = Cardinality(armed) + 1
    BY <1>5, ArmedAdd
  <2>2. UNCHANGED <<waitTx, rx>> /\ Owed' = Owed /\ pc = "read_arm" /\ pc' = "read_wait"
    BY <1>1, <1>5 DEF ArmTimer, network, sems
  <2>3. QED
    BY <2>1, <2>2
<1>6. CASE ArmFails
  BY <1>6 DEF ArmFails, SemaphoreSafe
<1>7. CASE Push
  <2>1. UNCHANGED <<waitTx, armed, rx>>
    BY <1>7 DEF Push, sems, timers
  <2>2. CASE pc = "read_push"
    <3>1. Owed' = Owed /\ pc' = "read_arm"
      BY <1>7, <2>2, OwedPush DEF Push
    <3>2. QED
      BY <2>1, <2>2, <3>1
  <2>3. CASE pc = "write_push"
    <3>1. Owed' = Owed \cup {requests} /\ pc' = "idle" /\ requests \notin Owed
      BY <1>7, <2>3, OwedPush DEF Push, OwedAdds, OwedInv, OwedOK
    <3>2. Cardinality(Owed') = Cardinality(Owed) + 1
      BY <3>1, OwedFinite, FS_AddElement
    <3>3. QED
      BY <2>1, <2>3, <3>1, <3>2
  <2>4. QED
    BY <1>7, <2>2, <2>3 DEF Push
<1>8. CASE Send
  <2>1. UNCHANGED <<waitTx, armed, rx, pc>> /\ Owed' = Owed
    BY <1>8, OwedSend DEF Send, loop, sems, timers
  <2>2. QED
    BY <2>1
<1>9. CASE Receive
  <2>1. Owed' = Owed
    BY <1>9, OwedReceive DEF SemaphoreSafe, OwedInv, OwedOK
  <2>2. UNCHANGED <<waitTx, armed, rx, pc>>
    BY <1>9 DEF Receive, loop, sems, timers
  <2>3. QED
    BY <2>1, <2>2
<1>10. CASE DefaultResponse
  <2>1. waitTx' = waitTx + 1 /\ UNCHANGED <<armed, rx, pc>>
    BY <1>10 DEF DefaultResponse, DefaultPosts, loop, timers
  <2>2. /\ Owed' \subseteq Owed
        /\ Head(rxQueue).n \in Owed
        /\ Owed \subseteq Owed' \cup {Head(rxQueue).n}
    BY <1>10, OwedPop DEF DefaultResponse, network
  <2>3. Cardinality(Owed') >= Cardinality(Owed) - 1 /\ Cardinality(Owed') \in Nat
    BY <2>2, OwedOneLess
  <2>4. QED
    BY <2>1, <2>3
<1>11. CASE ReadResponse
  <2>1. /\ waitTx' = waitTx + 1 /\ rx = "take" /\ rx' = "post"
        /\ UNCHANGED <<armed, pc>> /\ Owed' = Owed
    BY <1>1, <1>11 DEF ReadResponse, loop, timers, network
  <2>2. QED
    BY <2>1
<1>12. CASE PostRead
  <2>1. /\ rx = "post" /\ rx' = "delete"
        /\ UNCHANGED <<waitTx, armed, pc>> /\ Owed' = Owed
    BY <1>1, <1>12 DEF PostRead, loop, timers, network
  <2>2. QED
    BY <2>1
<1>13. CASE DeleteTimer
  <2>1. Cardinality(armed') >= Cardinality(armed) - 1 /\ Cardinality(armed') \in Nat
    BY <1>13, ArmedDelete
  <2>2. Owed' = Owed
    BY <1>13, OwedPop DEF DeleteTimer, network, OwedInv, OwedOK, RequestOK
  <2>3. rx = "delete" /\ rx' = "take" /\ UNCHANGED <<waitTx, pc>>
    BY <1>13 DEF DeleteTimer, loop, sems
  <2>4. QED
    BY <2>1, <2>2, <2>3
<1>14. ASSUME NEW t \in Numbers, Timeout(t)
       PROVE  SendCredit'
  <2>1. Cardinality(armed') = Cardinality(armed) - 1
    BY <1>14, ArmedRemove DEF Timeout
  <2>2. waitTx' = waitTx + 1 /\ UNCHANGED rx /\ Owed' = Owed
    BY <1>1, <1>14 DEF Timeout, HandlerPosts, network
  <2>3. pc \in {"read_push", "read_arm", "write_push"}
          => pc' \in {"read_push", "read_arm", "write_push"}
    BY <1>14 DEF Timeout, Blocked
  <2>4. QED
    BY <2>1, <2>2, <2>3
<1>15. ASSUME NEW c \in air, Answer(c)
       PROVE  SendCredit'
  <2>1. UNCHANGED <<waitTx, armed, rx, pc>> /\ Owed' = Owed
    BY <1>15, OwedAnswer DEF Answer, loop, sems, timers
  <2>2. QED
    BY <2>1
<1>16. ASSUME NEW c \in air, Lose(c)
       PROVE  SendCredit'
  <2>1. Owed' = Owed
    BY <1>16, OwedLose DEF Lose, SemaphoreSafe, OwedInv, OwedOK
  <2>2. UNCHANGED <<waitTx, armed, rx, pc>>
    BY <1>16 DEF Lose, loop, sems, timers
  <2>3. QED
    BY <2>1, <2>2
<1> HIDE DEF SendCredit, Count, OwedKeeps
<1>17. QED
  BY <1>2, <1>3, <1>4, <1>5, <1>6, <1>7, <1>8, <1>9, <1>10, <1>11, <1>12, <1>13,
     <1>14, <1>15, <1>16
  DEF Next, Controller, EventLoop, Process

\* The event loop never waits for a wait_tx_sem that nobody will post, as
\* long as timers can be created and, if the controller writes, no response
\* of a write is lost: a late answer costs nothing, and neither does a timer
\* deleted in place of another.
THEOREM SenderCanAlwaysSend ==
  ASSUME SemaphoreSafe
  PROVE  Spec => []SenderCanSend
<1>1. Init => SendCredit
  <2> SUFFICES ASSUME Init
               PROVE  SendCredit
    OBVIOUS
  <2>1. waitTx = 1 /\ Cardinality(armed) = 0 /\ rx = "take" /\ pc = "idle"
    BY FS_EmptySet DEF Init
  <2>2. Owed = {}
    BY DEF Init, Owed, WriteCommands, DefaultResponses, ToSet
  <2>3. Cardinality(Owed) = 0
    BY <2>2, FS_EmptySet
  <2>4. QED
    BY <2>1, <2>3 DEF SendCredit, Count
<1>2. OwedInv /\ SendCredit => SenderCanSend
  <2> SUFFICES ASSUME OwedInv, SendCredit, pc \in {"read_tx", "write_tx"},
                      armed = {}, Owed = {}
               PROVE  waitTx > 0
    BY DEF SenderCanSend, Owed, WriteCommands, DefaultResponses
  <2>1. Cardinality(armed) = 0 /\ Cardinality(Owed) = 0
    BY FS_EmptySet
  <2>2. waitTx \in Nat
    BY DEF OwedInv, GatewayInv, TypeOK
  <2>3. QED
    BY <2>1, <2>2 DEF SendCredit, Count
<1>3. QED
  BY <1>1, <1>2, SendStep, OwedAlways, PTL DEF Spec

-----------------------------------------------------------------------------
(* Whose answer a read takes.  While no timer has expired, at most one     *)
(* message of a read is anywhere in the gateway, and it belongs to the     *)
(* read that the event loop is handling.                                   *)

ReadCommands == {c \in Command : c.op = "read"}
ReadAnswers == {r \in Response : r.of = "read"}

None(s, R) == \A i \in DOMAIN s : s[i] \notin R

Single(s, R, n) ==
  \E i \in DOMAIN s : /\ s[i] \in R
                      /\ s[i].n = n
                      /\ \A j \in DOMAIN s : s[j] \in R => j = i

LEMMA NoneTail ==
  ASSUME NEW S, NEW s \in Seq(S), NEW R, s # << >>, None(s, R)
  PROVE  None(Tail(s), R) /\ Head(s) \notin R
<1>1. /\ 1 \in DOMAIN s /\ Head(s) = s[1]
      /\ \A i \in DOMAIN Tail(s) : i + 1 \in DOMAIN s /\ Tail(s)[i] = s[i + 1]
  OBVIOUS
<1>2. QED
  BY <1>1 DEF None

LEMMA NoneAppend ==
  ASSUME NEW S, NEW s \in Seq(S), NEW e \in S, NEW R, None(s, R)
  PROVE  /\ e \notin R => None(Append(s, e), R)
         /\ e \in R => Single(Append(s, e), R, e.n)
<1>1. /\ DOMAIN Append(s, e) = DOMAIN s \cup {Len(s) + 1}
      /\ Append(s, e)[Len(s) + 1] = e
      /\ \A i \in DOMAIN s : Append(s, e)[i] = s[i]
  OBVIOUS
<1>2. e \notin R => None(Append(s, e), R)
  BY <1>1 DEF None
<1>3. e \in R => Single(Append(s, e), R, e.n)
  BY <1>1 DEF None, Single
<1>4. QED
  BY <1>2, <1>3

LEMMA SingleAppend ==
  ASSUME NEW S, NEW s \in Seq(S), NEW e \in S, NEW R, NEW n, Single(s, R, n), e \notin R
  PROVE  Single(Append(s, e), R, n)
<1>1. /\ DOMAIN Append(s, e) = DOMAIN s \cup {Len(s) + 1}
      /\ Append(s, e)[Len(s) + 1] = e
      /\ \A i \in DOMAIN s : Append(s, e)[i] = s[i]
  OBVIOUS
<1>2. PICK i \in DOMAIN s : /\ s[i] \in R
                            /\ s[i].n = n
                            /\ \A j \in DOMAIN s : s[j] \in R => j = i
  BY DEF Single
<1>3. \A j \in DOMAIN Append(s, e) : Append(s, e)[j] \in R => j = i
  BY <1>1, <1>2
<1>4. i \in DOMAIN Append(s, e) /\ Append(s, e)[i] = s[i]
  BY <1>1, <1>2
<1>5. QED
  BY <1>2, <1>3, <1>4 DEF Single

\* What is left of a queue without its first k messages.
LEMMA NoneRest ==
  ASSUME NEW S, NEW s \in Seq(S), NEW R, NEW k \in 1 .. Len(s), None(s, R)
  PROVE  None(SubSeq(s, k + 1, Len(s)), R)
<1>1. \A i \in DOMAIN SubSeq(s, k + 1, Len(s)) :
        i + k \in DOMAIN s /\ SubSeq(s, k + 1, Len(s))[i] = s[i + k]
  OBVIOUS
<1>2. QED
  BY <1>1 DEF None

LEMMA SingleRest ==
  ASSUME NEW S, NEW s \in Seq(S), NEW R, NEW n, NEW k \in 1 .. Len(s), Single(s, R, n)
  PROVE  IF Head(s) \in R
         THEN Head(s).n = n /\ None(SubSeq(s, k + 1, Len(s)), R)
         ELSE \/ None(SubSeq(s, k + 1, Len(s)), R)
              \/ Single(SubSeq(s, k + 1, Len(s)), R, n)
<1> DEFINE rest == SubSeq(s, k + 1, Len(s))
<1>1. \A i \in DOMAIN rest : i \in Nat /\ i + k \in DOMAIN s /\ rest[i] = s[i + k]
  OBVIOUS
<1>2. \A i \in DOMAIN s : i > k => i - k \in DOMAIN rest /\ rest[i - k] = s[i]
  OBVIOUS
<1>3. 1 \in DOMAIN s /\ Head(s) = s[1]
  OBVIOUS
<1>4. PICK i \in DOMAIN s : /\ s[i] \in R
                            /\ s[i].n = n
                            /\ \A j \in DOMAIN s : s[j] \in R => j = i
  BY DEF Single
<1> HIDE DEF rest
<1>5. i \in Nat /\ k \in Nat /\ k >= 1 /\ i >= 1
  OBVIOUS
<1>6. \A j \in DOMAIN rest : rest[j] \in R => j + k = i
  BY <1>1, <1>4
<1>7. CASE i <= k
  <2>1. \A j \in DOMAIN rest : j >= 1
    BY DEF rest
  <2>2. None(rest, R)
    BY <1>1, <1>5, <1>6, <1>7, <2>1 DEF None
  <2>3. QED
    BY <2>2, <1>3, <1>4 DEF rest
<1>8. CASE i > k
  <2>1. i - k \in DOMAIN rest /\ rest[i - k] = s[i]
    BY <1>2, <1>8
  <2>2. \A j \in DOMAIN rest : rest[j] \in R => j = i - k
    BY <1>1, <1>5, <1>6
  <2>3. Single(rest, R, n)
    BY <1>4, <2>1, <2>2 DEF Single
  <2>4. Head(s) \notin R
    BY <1>3, <1>4, <1>5, <1>8
  <2>5. QED
    BY <2>3, <2>4 DEF rest
<1>9. QED
  BY <1>5, <1>7, <1>8

LEMMA SingleTail ==
  ASSUME NEW S, NEW s \in Seq(S), s # << >>, NEW R, NEW n, Single(s, R, n)
  PROVE  IF Head(s) \in R THEN Head(s).n = n /\ None(Tail(s), R)
                          ELSE Single(Tail(s), R, n)
<1>1. /\ 1 \in DOMAIN s /\ Head(s) = s[1]
      /\ \A i \in DOMAIN Tail(s) : i + 1 \in DOMAIN s /\ i \in Nat /\ Tail(s)[i] = s[i + 1]
      /\ \A i \in DOMAIN s : i # 1 => i - 1 \in DOMAIN Tail(s) /\ Tail(s)[i - 1] = s[i]
  OBVIOUS
<1>2. PICK i \in DOMAIN s : /\ s[i] \in R
                            /\ s[i].n = n
                            /\ \A j \in DOMAIN s : s[j] \in R => j = i
  BY DEF Single
<1>3. \A j \in DOMAIN Tail(s) : j >= 1
  OBVIOUS
<1>4. \A j \in DOMAIN Tail(s) : Tail(s)[j] \in R => j + 1 = i
  BY <1>1, <1>2
<1>5. CASE i = 1
  <2>1. None(Tail(s), R)
    BY <1>1, <1>3, <1>4, <1>5 DEF None
  <2>2. QED
    BY <2>1, <1>1, <1>2, <1>5
<1>6. CASE i # 1
  <2>1. i \in Nat
    OBVIOUS
  <2>2. i - 1 \in DOMAIN Tail(s) /\ Tail(s)[i - 1] = s[i]
    BY <1>1, <1>6
  <2>3. \A j \in DOMAIN Tail(s) : Tail(s)[j] \in R => j = i - 1
    BY <1>1, <1>4, <2>1
  <2>4. Single(Tail(s), R, n)
    BY <1>2, <2>2, <2>3 DEF Single
  <2>5. Head(s) \notin R
    BY <1>1, <1>2, <1>6
  <2>6. QED
    BY <2>4, <2>5
<1>7. QED
  BY <1>5, <1>6

\* The received messages that the processing thread has not looked at.
Unread == IF rx = "take" THEN rxQueue ELSE Tail(rxQueue)

NoneInTx == None(txQueue, ReadCommands)
NoneInAir == air \cap ReadCommands = {}
NoneInTcp == None(tcp, ReadAnswers)
NoneInRx == None(Unread, ReadAnswers)

NoRead == NoneInTx /\ NoneInAir /\ NoneInTcp /\ NoneInRx

\* One message of read n is under way.
OneRead(n) ==
  \/ Single(txQueue, ReadCommands, n) /\ NoneInAir /\ NoneInTcp /\ NoneInRx
  \/ /\ NoneInTx /\ NoneInTcp /\ NoneInRx
     /\ \E c \in air : c.n = n /\ air \cap ReadCommands = {c}
  \/ NoneInTx /\ NoneInAir /\ Single(tcp, ReadAnswers, n) /\ NoneInRx
  \/ NoneInTx /\ NoneInAir /\ NoneInTcp /\ Single(Unread, ReadAnswers, n)

\* The reader waits and nothing has been done for it yet.
Waiting ==
  pc \in {"read_arm", "read_wait"} /\ responses = << >> /\ readSem = 0 /\ rx # "post"

MessageOK == NoRead \/ (OneRead(request.n) /\ Waiting)

ResponseOK ==
  /\ \/ responses = << >>
     \/ /\ pc \in {"read_arm", "read_wait", "read_take"}
        /\ \E r \in Response : responses = <<r>> /\ r.n = request.n
  /\ rx = "post" => /\ responses # << >> /\ readSem = 0
                    /\ pc \in {"read_arm", "read_wait"}
  /\ readSem > 0 => /\ readSem = 1 /\ responses # << >> /\ rx # "post"
                    /\ pc \in {"read_arm", "read_wait"}

AnswerInv == ~disturbed => MessageOK /\ ResponseOK

LEMMA MessagesUnchanged ==
  ASSUME UNCHANGED <<txQueue, air, tcp>>, Unread' = Unread
  PROVE  /\ NoRead' <=> NoRead
         /\ UNCHANGED request => (OneRead(request.n)' <=> OneRead(request.n))
BY DEF NoRead, OneRead, NoneInTx, NoneInAir, NoneInTcp, NoneInRx

LEMMA UnreadType ==
  ASSUME TypeOK, RequestOK
  PROVE  Unread \in Seq(Response)
BY TailType DEF Unread, TypeOK, RequestOK

\* What the messages do when one moves on; the reader's state does not change.
LEMMA SendMessages ==
  ASSUME TypeOK, Send, NEW n
  PROVE  /\ NoRead => NoRead'
         /\ OneRead(n) => OneRead(n)'
<1> DEFINE m == Head(txQueue)
<1>1. /\ txQueue \in Seq(Command) /\ txQueue # << >>
      /\ m \in Command /\ txQueue' = Tail(txQueue)
      /\ air' = air \cup {m} /\ UNCHANGED <<tcp, rx, rxQueue>>
  BY TailType DEF Send, TypeOK
<1>2. UNCHANGED <<tcp, Unread>>
  BY <1>1 DEF Unread
<1>3. /\ NoneInTx => NoneInTx' /\ m \notin ReadCommands
      /\ Single(txQueue, ReadCommands, n)
           => IF m \in ReadCommands THEN m.n = n /\ NoneInTx'
                                    ELSE Single(txQueue', ReadCommands, n)
  BY <1>1, NoneTail, SingleTail DEF NoneInTx
<1> HIDE DEF m
<1>4. /\ m \notin ReadCommands => air' \cap ReadCommands = air \cap ReadCommands
      /\ m \in ReadCommands /\ NoneInAir => air' \cap ReadCommands = {m}
      /\ m \in air' /\ air \subseteq air'
  BY <1>1 DEF NoneInAir
<1>5. QED
  BY <1>2, <1>3, <1>4 DEF NoRead, OneRead, NoneInAir, NoneInTcp, NoneInRx

LEMMA AnswerMessages ==
  ASSUME TypeOK, NEW c \in air, Answer(c), NEW n
  PROVE  /\ NoRead => NoRead'
         /\ OneRead(n) => OneRead(n)'
<1> DEFINE r == [of |-> IF c.op = "read" THEN "read" ELSE "default",
                 light |-> c.light, on |-> lightOn[c.light], n |-> c.n]
<1>1. c \in Command /\ r \in Response /\ r.n = c.n
  BY DEF TypeOK, Command, Response
<1>2. r \in ReadAnswers <=> c \in ReadCommands
  BY <1>1 DEF ReadAnswers, ReadCommands
<1>3. /\ tcp' = Append(tcp, r) /\ air' = air \ {c} /\ tcp \in Seq(Response)
      /\ UNCHANGED <<txQueue, rx, rxQueue>>
  BY DEF Answer, TypeOK
<1> HIDE DEF r
<1>4. UNCHANGED <<txQueue, Unread>>
  BY <1>3 DEF Unread
<1>5. /\ NoneInTcp => IF c \in ReadCommands THEN Single(tcp', ReadAnswers, c.n)
                                            ELSE NoneInTcp'
      /\ Single(tcp, ReadAnswers, n) /\ c \notin ReadCommands
           => Single(tcp', ReadAnswers, n)
  BY <1>1, <1>2, <1>3, NoneAppend, SingleAppend DEF NoneInTcp
<1>6. /\ NoneInAir => NoneInAir' /\ c \notin ReadCommands
      /\ \A d \in air : air \cap ReadCommands = {d}
           => IF c \in ReadCommands THEN c = d /\ NoneInAir'
                                    ELSE d \in air' /\ air' \cap ReadCommands = {d}
  BY <1>3 DEF NoneInAir
<1>7. QED
  BY <1>4, <1>5, <1>6 DEF NoRead, OneRead, NoneInTx, NoneInRx

LEMMA LoseMessages ==
  ASSUME NEW c \in air, Lose(c), NEW n
  PROVE  /\ NoRead => NoRead'
         /\ OneRead(n) => NoRead' \/ OneRead(n)'
<1>1. air' = air \ {c} /\ UNCHANGED <<txQueue, tcp, rx, rxQueue>>
  BY DEF Lose
<1>2. UNCHANGED <<txQueue, tcp, Unread>>
  BY <1>1 DEF Unread
<1>3. /\ NoneInAir => NoneInAir'
      /\ \A d \in air : air \cap ReadCommands = {d}
           => NoneInAir' \/ (d \in air' /\ air' \cap ReadCommands = {d})
  BY <1>1 DEF NoneInAir
<1>4. QED
  BY <1>2, <1>3 DEF NoRead, OneRead, NoneInTx, NoneInTcp, NoneInRx

LEMMA ReceiveMessages ==
  ASSUME TypeOK, RequestOK, Receive, NEW n
  PROVE  /\ NoRead => NoRead'
         /\ OneRead(n) => NoRead' \/ OneRead(n)'
<1> DEFINE m == Head(tcp)
<1>1. PICK k \in 1 .. Len(tcp) : /\ rxQueue' = Append(rxQueue, m)
                                 /\ tcp' = SubSeq(tcp, k + 1, Len(tcp))
  BY DEF Receive
<1>2. /\ tcp \in Seq(Response) /\ tcp # << >> /\ m \in Response
      /\ rxQueue \in Seq(Response) /\ Unread \in Seq(Response)
      /\ UNCHANGED <<txQueue, air, rx>>
  BY TailType, UnreadType DEF Receive, TypeOK
<1>3. Unread' = Append(Unread, m)
  <2>1. rxQueue # << >> => Tail(Append(rxQueue, m)) = Append(Tail(rxQueue), m)
    BY <1>2
  <2>2. QED
    BY <1>1, <1>2, <2>1 DEF Unread, RequestOK
<1>4. NoneInTcp => NoneInTcp' /\ m \notin ReadAnswers
  BY <1>1, <1>2, NoneRest, NoneTail DEF NoneInTcp
<1>5. Single(tcp, ReadAnswers, n)
        => IF m \in ReadAnswers THEN m.n = n /\ NoneInTcp'
           ELSE NoneInTcp' \/ Single(tcp', ReadAnswers, n)
  BY <1>1, <1>2, SingleRest DEF NoneInTcp
<1> HIDE DEF m
<1>6. NoneInRx => IF m \in ReadAnswers THEN Single(Unread', ReadAnswers, m.n)
                                       ELSE NoneInRx'
  BY <1>2, <1>3, NoneAppend DEF NoneInRx
<1>7. Single(Unread, ReadAnswers, n) /\ m \notin ReadAnswers
        => Single(Unread', ReadAnswers, n)
  BY <1>2, <1>3, SingleAppend
<1>8. NoneInTx' = NoneInTx /\ NoneInAir' = NoneInAir
      /\ (Single(txQueue, ReadCommands, n) => Single(txQueue', ReadCommands, n))
  BY <1>2 DEF NoneInTx, NoneInAir
<1>9. UNCHANGED air
  BY <1>2
<1>10. QED
  BY <1>4, <1>5, <1>6, <1>7, <1>8, <1>9 DEF NoRead, OneRead

LEMMA PushMessages ==
  ASSUME TypeOK, RequestOK, Push, NoRead
  PROVE  IF pc = "read_push" THEN OneRead(request.n)' ELSE NoRead'
<1> DEFINE m == [op |-> IF pc = "read_push" THEN "read" ELSE OnOffRequest(request.light),
                 light |-> request.light, n |-> request.n]
<1>1. request.light \in Lights /\ request.n \in Numbers
  BY AccessFields DEF Push, RequestOK
<1>2. m \in Command /\ m.n = request.n /\ (m \in ReadCommands <=> pc = "read_push")
  BY <1>1 DEF Push, OnOffRequest, Command, ReadCommands
<1>3. /\ txQueue' = Append(txQueue, m) /\ txQueue \in Seq(Command)
      /\ UNCHANGED <<air, tcp, rx, rxQueue, request>>
  BY DEF Push, network, TypeOK
<1> HIDE DEF m
<1>4. UNCHANGED <<air, tcp, Unread, request>>
  BY <1>3 DEF Unread
<1>5. IF pc = "read_push" THEN Single(txQueue', ReadCommands, request.n) ELSE NoneInTx'
  BY <1>2, <1>3, NoneAppend DEF NoRead, NoneInTx
<1>6. QED
  BY <1>4, <1>5 DEF NoRead, OneRead, NoneInAir, NoneInTcp, NoneInRx

\* A message is taken off the received ones.
LEMMA PopMessages ==
  ASSUME TypeOK, rx = "take", rxQueue # << >>, UNCHANGED <<txQueue, air, tcp>>,
         Unread' = Tail(rxQueue), NEW n
  PROVE  IF Head(rxQueue) \in ReadAnswers
         THEN ~NoRead /\ (OneRead(n) => NoRead' /\ Head(rxQueue).n = n)
         ELSE (NoRead => NoRead') /\ (OneRead(n) => OneRead(n)')
<1>1. Unread = rxQueue /\ rxQueue \in Seq(Response)
  BY DEF Unread, TypeOK
<1>2. NoneInRx => NoneInRx' /\ Head(rxQueue) \notin ReadAnswers
  BY <1>1, NoneTail DEF NoneInRx
<1>3. Single(Unread, ReadAnswers, n)
        => IF Head(rxQueue) \in ReadAnswers THEN Head(rxQueue).n = n /\ NoneInRx'
           ELSE Single(Unread', ReadAnswers, n)
  BY <1>1, SingleTail DEF NoneInRx
<1>4. QED
  BY <1>2, <1>3 DEF NoRead, OneRead, NoneInTx, NoneInAir, NoneInTcp

LEMMA AnswerStep == GatewayInv /\ AnswerInv /\ [Next]_vars => AnswerInv'
<1> SUFFICES ASSUME GatewayInv, AnswerInv, [Next]_vars, ~disturbed'
             PROVE  MessageOK' /\ ResponseOK'
  BY DEF AnswerInv
<1>0. TypeOK /\ RequestOK /\ readSem \in Nat
  BY DEF GatewayInv, TypeOK
<1>1. ~disturbed => MessageOK /\ ResponseOK
  BY DEF AnswerInv
<1> USE <1>0 DEF MessageOK, ResponseOK, Waiting
<1>2. CASE \/ \E l \in Lights : ReadOnOff(l)
           \/ \E l \in Lights, on \in Writes : WriteOnOff(l, on)
  <2>1. /\ pc = "idle" /\ ~disturbed
        /\ UNCHANGED <<readSem, responses, rx, rxQueue, txQueue, air, tcp>>
    BY <1>2 DEF ReadOnOff, WriteOnOff, sems, network
  <2>2. NoRead'
    BY <1>1, <2>1, MessagesUnchanged DEF Unread
  <2>3. QED
    BY <1>1, <2>1, <2>2
<1>3. CASE WaitTx
  <2>1. /\ ~disturbed /\ pc \notin {"read_arm", "read_wait", "read_take"}
        /\ UNCHANGED <<readSem, responses, rx, rxQueue, txQueue, air, tcp>>
    BY <1>3 DEF WaitTx, network
  <2>2. NoRead'
    BY <1>1, <2>1, MessagesUnchanged DEF Unread
  <2>3. QED
    BY <1>1, <2>1, <2>2
<1>4. CASE WaitRead
  <2>1. /\ ~disturbed /\ pc = "read_wait" /\ pc' = "read_take"
        /\ readSem > 0 /\ readSem' = readSem - 1
        /\ UNCHANGED <<request, responses, rx, rxQueue, txQueue, air, tcp>>
    BY <1>4 DEF WaitRead, IsUp, AfterWait, network
  <2>2. NoRead'
    BY <1>1, <2>1, MessagesUnchanged DEF Unread
  <2>3. QED
    BY <1>1, <2>1, <2>2
<1>5. CASE Push
  <2>1. /\ ~disturbed /\ pc \in {"read_push", "write_push"}
        /\ pc' = IF pc = "read_push" THEN "read_arm" ELSE "idle"
        /\ UNCHANGED <<readSem, responses, rx>>
    BY <1>5 DEF Push, sems
  <2>2. NoRead
    BY <1>1, <2>1
  <2>3. IF pc = "read_push" THEN OneRead(request.n)' ELSE NoRead'
    BY <1>5, <2>2, PushMessages
  <2>4. QED
    BY <1>1, <2>1, <2>3
<1>6. CASE ArmTimer
  <2>1. /\ ~disturbed /\ pc = "read_arm" /\ pc' = "read_wait"
        /\ UNCHANGED <<request, readSem, responses, rx, rxQueue, txQueue, air, tcp>>
    BY <1>6 DEF ArmTimer, sems, network
  <2>2. (NoRead' <=> NoRead) /\ (OneRead(request.n)' <=> OneRead(request.n))
    BY <2>1, MessagesUnchanged DEF Unread
  <2>3. QED
    BY <1>1, <2>1, <2>2
<1>7. CASE TakeResponse
  <2>1. /\ ~disturbed /\ pc = "read_take" /\ pc' = "idle"
        /\ UNCHANGED <<readSem, rx, rxQueue, txQueue, air, tcp>>
        /\ responses' = IF responses = << >> THEN responses ELSE Tail(responses)
    BY <1>7 DEF TakeResponse, PopResponse, sems, network
  <2>2. NoRead'
    BY <1>1, <2>1, MessagesUnchanged DEF Unread
  <2>3. responses' = << >>
    <3>1. responses = << >> \/ \E r \in Response : responses = <<r>>
      BY <1>1, <2>1
    <3>2. \A r : Tail(<<r>>) = << >>
      OBVIOUS
    <3>3. QED
      BY <2>1, <3>1, <3>2
  <2>4. rx' # "post" /\ readSem' = 0
    BY <1>1, <2>1
  <2>5. ResponseOK'
    BY <2>3, <2>4
  <2>6. QED
    BY <2>2, <2>5
<1>8. CASE Send
  <2>1. ~disturbed /\ UNCHANGED <<pc, request, readSem, responses, rx>>
    BY <1>8 DEF Send, loop, sems
  <2>2. (NoRead => NoRead') /\ (OneRead(request.n) => OneRead(request.n)')
    <3>1. \A n : (NoRead => NoRead') /\ (OneRead(n) => OneRead(n)')
      BY <1>8, SendMessages
    <3>2. QED
      BY <2>1, <3>1
  <2>3. QED
    BY <1>1, <2>1, <2>2
<1>9. CASE Receive
  <2>1. ~disturbed /\ UNCHANGED <<pc, request, readSem, responses, rx>>
    BY <1>9 DEF Receive, loop, sems
  <2>2. (NoRead => NoRead') /\ (OneRead(request.n) => NoRead' \/ OneRead(request.n)')
    <3>1. \A n : (NoRead => NoRead') /\ (OneRead(n) => NoRead' \/ OneRead(n)')
      BY <1>9, ReceiveMessages
    <3>2. QED
      BY <2>1, <3>1
  <2>3. QED
    BY <1>1, <2>1, <2>2
<1>10. CASE DefaultResponse
  <2>1. /\ ~disturbed /\ UNCHANGED <<pc, request, readSem, responses, rx, txQueue, air, tcp>>
        /\ rx = "take" /\ rxQueue # << >> /\ rxQueue' = Tail(rxQueue)
        /\ Head(rxQueue) \notin ReadAnswers
    BY <1>10 DEF DefaultResponse, loop, network, ReadAnswers
  <2>2. Unread' = Tail(rxQueue)
    BY <2>1 DEF Unread
  <2>3. (NoRead => NoRead') /\ (OneRead(request.n) => OneRead(request.n)')
    <3>1. \A n : (NoRead => NoRead') /\ (OneRead(n) => OneRead(n)')
      BY <2>1, <2>2, PopMessages
    <3>2. QED
      BY <2>1, <3>1
  <2>4. QED
    BY <1>1, <2>1, <2>3
<1>11. CASE ReadResponse
  <2>1. /\ ~disturbed /\ UNCHANGED <<pc, request, readSem, rxQueue, txQueue, air, tcp>>
        /\ rx = "take" /\ rxQueue # << >> /\ rx' = "post"
        /\ responses' = Append(responses, Head(rxQueue))
        /\ Head(rxQueue).of = "read"
    BY <1>11 DEF ReadResponse, loop, network
  <2>2. Unread' = Tail(rxQueue) /\ Head(rxQueue) \in Response
    BY <2>1, TailType DEF Unread, TypeOK
  <2>3. Head(rxQueue) \in ReadAnswers
    BY <2>1, <2>2 DEF ReadAnswers
  <2>4. ~NoRead /\ (OneRead(request.n) => NoRead' /\ Head(rxQueue).n = request.n)
    BY <2>1, <2>2, <2>3, PopMessages
  <2>5. NoRead' /\ Head(rxQueue).n = request.n /\ Waiting
    BY <1>1, <2>1, <2>4
  <2>6. responses' = <<Head(rxQueue)>>
    BY <2>1, <2>5
  <2>7. /\ readSem' = 0 /\ pc' \in {"read_arm", "read_wait"}
        /\ Head(rxQueue).n = request'.n
    BY <2>1, <2>5
  <2>8. responses' # << >>
    BY <2>6
  <2>9. ResponseOK'
    BY <2>2, <2>6, <2>7, <2>8
  <2>10. QED
    BY <2>5, <2>9
<1>12. CASE PostRead
  <2>1. /\ ~disturbed /\ rx = "post" /\ rx' = "delete" /\ readSem' = readSem + 1
        /\ UNCHANGED <<pc, request, responses, rxQueue, txQueue, air, tcp>>
    BY <1>12 DEF PostRead, loop, network
  <2>2. Unread' = Unread
    BY <2>1 DEF Unread
  <2>3. NoRead'
    BY <1>1, <2>1, <2>2, MessagesUnchanged
  <2>4. QED
    BY <1>1, <2>1, <2>3
<1>13. CASE DeleteTimer
  <2>1. /\ ~disturbed /\ rx = "delete" /\ rx' = "take" /\ rxQueue' = Tail(rxQueue)
        /\ UNCHANGED <<pc, request, readSem, responses, txQueue, air, tcp>>
    BY <1>13 DEF DeleteTimer, loop, sems, network
  <2>2. Unread' = Unread
    BY <2>1 DEF Unread
  <2>3. (NoRead' <=> NoRead) /\ (OneRead(request.n)' <=> OneRead(request.n))
    BY <2>1, <2>2, MessagesUnchanged
  <2>4. QED
    BY <1>1, <2>1, <2>3
<1>14. CASE ArmFails \/ \E t \in Numbers : Timeout(t)
  BY <1>14 DEF ArmFails, Timeout
<1>15. ASSUME NEW c \in air, Answer(c)
       PROVE  MessageOK' /\ ResponseOK'
  <2>1. ~disturbed /\ UNCHANGED <<pc, request, readSem, responses, rx>>
    BY <1>15 DEF Answer, loop, sems
  <2>2. (NoRead => NoRead') /\ (OneRead(request.n) => OneRead(request.n)')
    <3>1. \A n : (NoRead => NoRead') /\ (OneRead(n) => OneRead(n)')
      BY <1>15, AnswerMessages
    <3>2. QED
      BY <2>1, <3>1
  <2>3. QED
    BY <1>1, <2>1, <2>2
<1>16. ASSUME NEW c \in air, Lose(c)
       PROVE  MessageOK' /\ ResponseOK'
  <2>1. ~disturbed /\ UNCHANGED <<pc, request, readSem, responses, rx>>
    BY <1>16 DEF Lose, loop, sems
  <2>2. (NoRead => NoRead') /\ (OneRead(request.n) => NoRead' \/ OneRead(request.n)')
    <3>1. \A n : (NoRead => NoRead') /\ (OneRead(n) => NoRead' \/ OneRead(n)')
      BY <1>16, LoseMessages
    <3>2. QED
      BY <2>1, <3>1
  <2>3. QED
    BY <1>1, <2>1, <2>2
<1>17. CASE Crash \/ UNCHANGED vars
  <2>1. /\ ~disturbed
        /\ UNCHANGED <<pc, request, readSem, responses, rx, rxQueue, txQueue, air, tcp>>
    BY <1>17 DEF Crash, vars, loop, sems, network
  <2>2. (NoRead' <=> NoRead) /\ (OneRead(request.n)' <=> OneRead(request.n))
    BY <2>1, MessagesUnchanged DEF Unread
  <2>3. QED
    BY <1>1, <2>1, <2>2
<1> HIDE DEF MessageOK, ResponseOK, Waiting
<1>18. QED
  BY <1>2, <1>3, <1>4, <1>5, <1>6, <1>7, <1>8, <1>9, <1>10, <1>11, <1>12, <1>13,
     <1>14, <1>15, <1>16, <1>17
  DEF Next, Controller, EventLoop, Process

LEMMA AnswerInit == Init => AnswerInv
<1> SUFFICES ASSUME Init
             PROVE  MessageOK /\ ResponseOK
  BY DEF AnswerInv
<1>1. NoRead
  BY DEF Init, NoRead, NoneInTx, NoneInAir, NoneInTcp, NoneInRx, Unread, None
<1>2. ResponseOK
  BY DEF Init, ResponseOK
<1>3. QED
  BY <1>1, <1>2 DEF MessageOK

\* Until a timer has expired or failed, no read takes the answer to another:
\* what is in gw_tx_response_queue belongs to the read being handled, also
\* when messages are lost or dropped.
THEOREM AlwaysOwnAnswer == Spec => []OwnAnswer
<1>1. AnswerInv => OwnAnswer
  BY DEF AnswerInv, ResponseOK, OwnAnswer
<1>2. QED
  BY <1>1, AnswerInit, AnswerStep, GatewayAlways, PTL DEF Spec

=============================================================================
