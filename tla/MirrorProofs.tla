---------------------------- MODULE MirrorProofs ----------------------------
(***************************************************************************)
(* The gateway's idea of its lights.  As long as no timer has expired, a   *)
(* post of wait_tx_sem lets through one access at a time, so that at most  *)
(* one message is under way; the proof follows it from the command queue   *)
(* to the thread that processes its answer.                                *)
(***************************************************************************)
EXTENDS ZigbeeGatewayProofs

Pushing == {"read_push", "write_push"}
Reading == {"read_arm", "read_wait"}

\* Nothing is under way.
Quiet == txQueue = << >> /\ air = {} /\ tcp = << >> /\ Unread = << >>

\* The command c is, and it has not been answered.
Sent(c) ==
  /\ tcp = << >> /\ Unread = << >>
  /\ (txQueue = <<c>> /\ air = {}) \/ (txQueue = << >> /\ air = {c})

\* The answer a is, and it has not been processed.
Answered(a) ==
  /\ txQueue = << >> /\ air = {}
  /\ (tcp = <<a>> /\ Unread = << >>) \/ (tcp = << >> /\ Unread = <<a>>)

\* mOn is ahead of the light, by a command that has still to be queued.
Pending(l) == pc \in {"write_tx", "write_push"} /\ request.light = l

Right(l) == Pending(l) \/ mOn[l] = lightOn[l]

QuietStage ==
  /\ Quiet
  /\ waitTx = IF pc \in Pushing THEN 0 ELSE 1
  /\ \A l \in known : Right(l)
  /\ \A i \in DOMAIN responses :
       responses[i].light = request.light /\ responses[i].on = lightOn[request.light]

Busy == waitTx = 0 /\ pc \notin Pushing /\ responses = << >>

\* The light that a command under way switches is about to be right.
SentStage == \E c \in Command :
  /\ Sent(c) /\ Busy
  /\ c.op = "read" => pc \in Reading /\ c.light = request.light
  /\ \A l \in known : IF c.op # "read" /\ l = c.light
                      THEN Pending(l) \/ c.op = OnOffRequest(l)
                      ELSE Right(l)

\* The answer to a read holds what the light is.
AnsweredStage == \E a \in Response :
  /\ Answered(a) /\ Busy
  /\ a.of = "read" => pc \in Reading /\ a.light = request.light /\ a.on = lightOn[a.light]
  /\ \A l \in known : Right(l)

MirrorInv == ~disturbed => QuietStage \/ SentStage \/ AnsweredStage

LEMMA QueueOfOne ==
  ASSUME NEW e
  PROVE  /\ <<e>> # << >> /\ Head(<<e>>) = e /\ Tail(<<e>>) = << >>
         /\ Append(<< >>, e) = <<e>>
         /\ DOMAIN <<e>> = {1} /\ <<e>>[1] = e
OBVIOUS

\* Messages stay where they are and the lights as they are.
MessagesStay == UNCHANGED <<txQueue, air, tcp, lightOn>> /\ Unread' = Unread

LEMMA StayQuiet ==
  ASSUME MessagesStay
  PROVE  /\ Quiet' <=> Quiet
         /\ \A c : Sent(c)' <=> Sent(c)
         /\ \A a : Answered(a)' <=> Answered(a)
BY DEF MessagesStay, Quiet, Sent, Answered

\* A step of the event loop that leaves the messages, mOn, the request and the
\* semaphore, and neither leaves a wait nor enters or leaves a write.
LEMMA LoopKeepsStage ==
  ASSUME MessagesStay, UNCHANGED <<request, waitTx, mOn, known, responses>>,
         pc' \notin Pushing, pc \notin Pushing,
         pc \in {"write_tx", "write_push"} => pc' = pc,
         pc \in Reading => pc' \in Reading \/ responses # << >>
  PROVE  QuietStage \/ SentStage \/ AnsweredStage
           => (QuietStage \/ SentStage \/ AnsweredStage)'
<1>1. \A l : Right(l) => Right(l)'
  BY DEF MessagesStay, Right, Pending
<1>2. QuietStage => QuietStage'
  BY <1>1, StayQuiet DEF QuietStage, MessagesStay
<1>3. SentStage => SentStage'
  <2> SUFFICES ASSUME NEW c \in Command, Sent(c), Busy,
                      c.op = "read" => pc \in Reading /\ c.light = request.light,
                      \A l \in known : IF c.op # "read" /\ l = c.light
                                       THEN Pending(l) \/ c.op = OnOffRequest(l)
                                       ELSE Right(l)
               PROVE  SentStage'
    BY DEF SentStage
  <2>1. Sent(c)' /\ Busy'
    BY StayQuiet DEF Busy
  <2>2. c.op = "read" => pc' \in Reading /\ c.light = request'.light
    BY DEF Busy
  <2>3. \A l \in known' : IF c.op # "read" /\ l = c.light
                          THEN Pending(l)' \/ c.op = OnOffRequest(l)'
                          ELSE Right(l)'
    BY <1>1 DEF Pending, OnOffRequest
  <2>4. QED
    BY <2>1, <2>2, <2>3 DEF SentStage
<1>4. AnsweredStage => AnsweredStage'
  <2> SUFFICES ASSUME NEW a \in Response, Answered(a), Busy,
                      a.of = "read" => /\ pc \in Reading /\ a.light = request.light
                                       /\ a.on = lightOn[a.light],
                      \A l \in known : Right(l)
               PROVE  AnsweredStage'
    BY DEF AnsweredStage
  <2>1. Answered(a)' /\ Busy'
    BY StayQuiet DEF Busy
  <2>2. a.of = "read" => /\ pc' \in Reading /\ a.light = request'.light
                         /\ a.on = lightOn'[a.light]
    BY DEF Busy, MessagesStay
  <2>3. QED
    BY <1>1, <2>1, <2>2 DEF AnsweredStage
<1>5. QED
  BY <1>2, <1>3, <1>4

-----------------------------------------------------------------------------
(* The steps that move a message, or let one in or out.                    *)

Stage == QuietStage \/ SentStage \/ AnsweredStage

LEMMA StayStage ==
  ASSUME MessagesStay, UNCHANGED <<pc, request, waitTx, mOn, known, responses>>, Stage
  PROVE  Stage'
<1>1. \A l : Right(l)' = Right(l) /\ Pending(l)' = Pending(l)
             /\ OnOffRequest(l)' = OnOffRequest(l)
  BY DEF MessagesStay, Right, Pending, OnOffRequest
<1>2. Busy' = Busy /\ lightOn' = lightOn
  BY DEF Busy, MessagesStay
<1>3. QuietStage => QuietStage'
  BY <1>1, <1>2, StayQuiet DEF QuietStage
<1>4. SentStage => SentStage'
  BY <1>1, <1>2, StayQuiet DEF SentStage
<1>5. AnsweredStage => AnsweredStage'
  BY <1>1, <1>2, StayQuiet DEF AnsweredStage
<1>6. QED
  BY <1>3, <1>4, <1>5 DEF Stage

\* Outside a read there is no response, and nothing is under way that reads.
LEMMA BeginRead ==
  ASSUME NEW l \in Lights, ReadOnOff(l), ResponseOK, Stage
  PROVE  Stage'
<1>1. /\ pc = "idle" /\ pc' = "read_tx" /\ responses = << >> /\ responses' = << >>
      /\ UNCHANGED <<waitTx, mOn, known>> /\ MessagesStay
  BY DEF ReadOnOff, ResponseOK, sems, network, MessagesStay, Unread
<1>2. \A m : Right(m) => Right(m)'
  BY <1>1 DEF MessagesStay, Right, Pending
<1>3. CASE QuietStage
  BY <1>1, <1>2, <1>3, StayQuiet DEF Stage, QuietStage, Pushing
<1>4. CASE SentStage
  <2>1. PICK c \in Command :
          /\ Sent(c) /\ Busy
          /\ c.op = "read" => pc \in Reading
          /\ \A m \in known : IF c.op # "read" /\ m = c.light
                              THEN Pending(m) \/ c.op = OnOffRequest(m)
                              ELSE Right(m)
    BY <1>4 DEF SentStage
  <2>2. c.op # "read" /\ Sent(c)' /\ Busy'
    BY <1>1, <2>1, StayQuiet DEF Busy, Reading, Pushing
  <2>3. \A m \in known' : IF m = c.light THEN c.op = OnOffRequest(m)' ELSE Right(m)'
    BY <1>1, <1>2, <2>1, <2>2 DEF Pending, OnOffRequest
  <2>4. QED
    BY <2>2, <2>3 DEF Stage, SentStage
<1>5. CASE AnsweredStage
  <2>1. PICK a \in Response : /\ Answered(a) /\ Busy
                              /\ a.of = "read" => pc \in Reading
                              /\ \A m \in known : Right(m)
    BY <1>5 DEF AnsweredStage
  <2>2. a.of # "read" /\ Answered(a)' /\ Busy'
    BY <1>1, <2>1, StayQuiet DEF Busy, Reading, Pushing
  <2>3. \A m \in known' : Right(m)'
    BY <1>1, <1>2, <2>1
  <2>4. QED
    BY <2>2, <2>3 DEF Stage, AnsweredStage
<1>6. QED
  BY <1>3, <1>4, <1>5 DEF Stage

\* A write makes mOn differ from the light only while it is pending.
LEMMA BeginWrite ==
  ASSUME TypeOK, NEW l \in Lights, NEW on \in Writes, WriteOnOff(l, on), ResponseOK, Stage
  PROVE  Stage'
<1>0. PICK notified \in BOOLEAN :
        /\ SetOnOff(l, on, notified)
        /\ pc' = IF notified THEN "write_tx" ELSE "idle"
        /\ known' = IF notified THEN known \cup {l} ELSE known
  BY DEF WriteOnOff
<1>1. /\ pc = "idle" /\ pc' = (IF notified THEN "write_tx" ELSE "idle")
      /\ responses = << >> /\ responses' = << >> /\ request'.light = l
      /\ on # mOn[l] => notified
      /\ mOn' = [mOn EXCEPT ![l] = on]
      /\ known' = IF notified THEN known \cup {l} ELSE known
      /\ UNCHANGED waitTx /\ MessagesStay
  BY <1>0 DEF WriteOnOff, SetOnOff, ResponseOK, sems, network, MessagesStay, Unread
<1>2. mOn \in [Lights -> BOOLEAN] /\ known \subseteq Lights
  BY DEF TypeOK
<1>3. \A m \in known' : Right(m)' \/ (m \in known /\ m # l /\ mOn'[m] = mOn[m])
                                  \/ (m \in known /\ pc' = "idle" /\ mOn'[m] = mOn[m])
  BY <1>1, <1>2 DEF Right, Pending
<1>4. \A m : Pending(m) = FALSE
  BY <1>1 DEF Pending
<1>5. \A m \in known' : (m \in known => Right(m)) => Right(m)'
  BY <1>1, <1>2, <1>3, <1>4 DEF Right, MessagesStay
<1>6. CASE QuietStage
  BY <1>1, <1>5, <1>6, StayQuiet DEF Stage, QuietStage, Pushing
<1>7. CASE SentStage
  <2>1. PICK c \in Command :
          /\ Sent(c) /\ Busy
          /\ c.op = "read" => pc \in Reading
          /\ \A m \in known : IF c.op # "read" /\ m = c.light
                              THEN Pending(m) \/ c.op = OnOffRequest(m)
                              ELSE Right(m)
    BY <1>7 DEF SentStage
  <2>2. c.op # "read" /\ Sent(c)' /\ Busy'
    BY <1>1, <2>1, StayQuiet DEF Busy, Reading, Pushing
  <2>3. ASSUME NEW m \in known'
        PROVE  IF m = c.light THEN Pending(m)' \/ c.op = OnOffRequest(m)' ELSE Right(m)'
    <3>1. CASE m # c.light
      BY <1>5, <2>1, <3>1
    <3>2. CASE m = c.light /\ pc' = "write_tx" /\ m = l
      BY <1>1, <3>2 DEF Pending
    <3>3. CASE m = c.light /\ m \in known /\ mOn'[m] = mOn[m]
      BY <1>4, <2>1, <2>2, <3>3 DEF OnOffRequest
    <3>4. QED
      BY <1>1, <1>2, <3>1, <3>2, <3>3
  <2>4. QED
    BY <2>2, <2>3 DEF Stage, SentStage
<1>8. CASE AnsweredStage
  <2>1. PICK a \in Response : /\ Answered(a) /\ Busy
                              /\ a.of = "read" => pc \in Reading
                              /\ \A m \in known : Right(m)
    BY <1>8 DEF AnsweredStage
  <2>2. a.of # "read" /\ Answered(a)' /\ Busy'
    BY <1>1, <2>1, StayQuiet DEF Busy, Reading, Pushing
  <2>3. \A m \in known' : Right(m)'
    BY <1>5, <2>1
  <2>4. QED
    BY <2>2, <2>3 DEF Stage, AnsweredStage
<1>9. QED
  BY <1>6, <1>7, <1>8 DEF Stage

\* wait_tx_sem is up only when nothing is under way, and it is 1 then.
LEMMA TakeTx ==
  ASSUME WaitTx, ResponseOK, Stage
  PROVE  Stage'
<1>1. /\ pc \in {"read_tx", "write_tx"} /\ waitTx > 0 /\ waitTx' = waitTx - 1
      /\ pc' = (IF pc = "read_tx" THEN "read_push" ELSE "write_push")
      /\ responses = << >>
      /\ UNCHANGED <<responses, request, mOn, known>> /\ MessagesStay
  BY DEF WaitTx, IsUp, AfterWait, ResponseOK, network, MessagesStay, Unread
<1>2. QuietStage /\ waitTx = 1
  BY <1>1 DEF Stage, QuietStage, SentStage, AnsweredStage, Busy, Pushing
<1>3. \A m : Right(m) => Right(m)'
  BY <1>1 DEF MessagesStay, Right, Pending
<1>4. Quiet'
  BY <1>1, <1>2, StayQuiet DEF QuietStage
<1>5. waitTx' = 0 /\ pc' \in Pushing /\ responses' = << >>
  BY <1>1, <1>2 DEF Pushing
<1>6. QED
  BY <1>1, <1>2, <1>3, <1>4, <1>5 DEF Stage, QuietStage

\* The access that took wait_tx_sem queues the one message.
LEMMA QueueCommand ==
  ASSUME TypeOK, RequestOK, Push, ResponseOK, Stage
  PROVE  Stage'
<1>1. /\ pc \in Pushing /\ pc' = (IF pc = "read_push" THEN "read_arm" ELSE "idle")
      /\ responses = << >>
      /\ UNCHANGED <<responses, request, waitTx, mOn, known, air, tcp, lightOn, rx, rxQueue>>
  BY DEF Push, ResponseOK, sems, network, Pushing
<1>2. request.light \in Lights /\ request.n \in Numbers
  BY AccessFields DEF Push, RequestOK
<1>3. PICK c \in Command :
        /\ txQueue' = Append(txQueue, c) /\ c.light = request.light
        /\ c.op = IF pc = "read_push" THEN "read" ELSE OnOffRequest(request.light)
  <2> DEFINE m == [op |-> IF pc = "read_push" THEN "read" ELSE OnOffRequest(request.light),
                   light |-> request.light, n |-> request.n]
  <2>1. m \in Command
    BY <1>2 DEF OnOffRequest, Command
  <2>2. QED
    BY <2>1 DEF Push
<1>4. QuietStage /\ waitTx = 0
  BY <1>1 DEF Stage, QuietStage, SentStage, AnsweredStage, Busy
<1>5. txQueue' = <<c>>
  BY <1>3, <1>4, QueueOfOne DEF QuietStage, Quiet
<1>6. Sent(c)' /\ Busy'
  BY <1>1, <1>4, <1>5 DEF Sent, QuietStage, Quiet, Unread, Busy, Pushing
<1>7. c.op = "read" => pc' \in Reading /\ c.light = request'.light
  BY <1>1, <1>3 DEF Reading, OnOffRequest, Pushing
<1>8. ASSUME NEW m \in known'
      PROVE  IF c.op # "read" /\ m = c.light THEN c.op = OnOffRequest(m)' ELSE Right(m)'
  <2>1. Right(m)
    BY <1>1, <1>4 DEF QuietStage
  <2>2. CASE pc = "read_push"
    BY <1>1, <1>3, <2>1, <2>2 DEF Right, Pending
  <2>3. CASE pc # "read_push"
    BY <1>1, <1>3, <2>1, <2>3 DEF Right, Pending, OnOffRequest
  <2>4. QED
    BY <2>2, <2>3
<1>9. QED
  BY <1>3, <1>6, <1>7, <1>8 DEF Stage, SentStage

LEMMA SendCommand ==
  ASSUME Send, Stage
  PROVE  Stage'
<1>1. /\ txQueue # << >> /\ txQueue' = Tail(txQueue) /\ air' = air \cup {Head(txQueue)}
      /\ UNCHANGED <<pc, request, waitTx, responses, mOn, known, tcp, lightOn, rx, rxQueue>>
  BY DEF Send, loop, sems
<1>2. PICK c \in Command :
        /\ Sent(c) /\ Busy
        /\ c.op = "read" => pc \in Reading /\ c.light = request.light
        /\ \A l \in known : IF c.op # "read" /\ l = c.light
                            THEN Pending(l) \/ c.op = OnOffRequest(l)
                            ELSE Right(l)
  BY <1>1 DEF Stage, QuietStage, SentStage, AnsweredStage, Quiet, Answered
<1>3. txQueue = <<c>> /\ air = {}
  BY <1>1, <1>2 DEF Sent
<1>4. txQueue' = << >> /\ air' = {c}
  BY <1>1, <1>3, QueueOfOne
<1>5. Sent(c)' /\ Busy'
  BY <1>1, <1>2, <1>4 DEF Sent, Unread, Busy
<1>6. \A l : /\ Pending(l)' = Pending(l) /\ OnOffRequest(l)' = OnOffRequest(l)
             /\ Right(l)' = Right(l)
  BY <1>1 DEF Pending, OnOffRequest, Right
<1>7. QED
  BY <1>1, <1>2, <1>5, <1>6 DEF Stage, SentStage

\* The light obeys the command before it answers.
LEMMA CommandAnswered ==
  ASSUME TypeOK, NEW d \in air, Answer(d), Stage
  PROVE  Stage'
<1>1. /\ air' = air \ {d} /\ lightOn' = Obeyed(d)
      /\ UNCHANGED <<pc, request, waitTx, responses, mOn, known, txQueue, rx, rxQueue>>
  BY DEF Answer, loop, sems
<1>2. PICK c \in Command :
        /\ Sent(c) /\ Busy
        /\ c.op = "read" => pc \in Reading /\ c.light = request.light
        /\ \A l \in known : IF c.op # "read" /\ l = c.light
                            THEN Pending(l) \/ c.op = OnOffRequest(l)
                            ELSE Right(l)
  BY DEF Stage, QuietStage, SentStage, AnsweredStage, Quiet, Answered
<1>3. d = c /\ air' = {} /\ txQueue = << >> /\ tcp = << >> /\ Unread = << >>
  BY <1>1, <1>2 DEF Sent
<1>4. PICK a \in Response : /\ tcp' = Append(tcp, a)
                            /\ a.of = "read" <=> c.op = "read"
                            /\ a.light = c.light /\ a.on = lightOn[c.light]
  <2> DEFINE r == [of |-> IF d.op = "read" THEN "read" ELSE "default",
                   light |-> d.light, on |-> lightOn[d.light], n |-> d.n]
  <2>1. r \in Response
    BY <1>3 DEF TypeOK, Command, Response
  <2>2. QED
    BY <1>3, <2>1 DEF Answer
<1>5. tcp' = <<a>>
  BY <1>3, <1>4, QueueOfOne
<1>6. Answered(a)' /\ Busy'
  BY <1>1, <1>2, <1>3, <1>5 DEF Answered, Unread, Busy
<1>7. /\ lightOn \in [Lights -> BOOLEAN] /\ mOn \in [Lights -> BOOLEAN]
      /\ known \subseteq Lights /\ c.light \in Lights /\ c.op \in {"read", "on", "off"}
  BY DEF TypeOK, Command
<1>8. lightOn' = IF c.op = "read" THEN lightOn
                 ELSE [lightOn EXCEPT ![c.light] = (c.op = "on")]
  BY <1>1, <1>3 DEF Obeyed
<1>9. ASSUME NEW l \in known'
      PROVE  Right(l)'
  <2>1. l \in known /\ l \in Lights /\ (Pending(l) => Pending(l)')
    BY <1>1, <1>7 DEF Pending
  <2>2. CASE c.op # "read" /\ l = c.light
    <3>1. Pending(l) \/ c.op = OnOffRequest(l)
      BY <1>2, <2>1, <2>2
    <3>2. lightOn'[l] = (c.op = "on")
      BY <1>7, <1>8, <2>1, <2>2
    <3>3. c.op = OnOffRequest(l) => mOn'[l] = (c.op = "on")
      <4>1. CASE mOn[l] = TRUE
        BY <1>1, <4>1 DEF OnOffRequest
      <4>2. CASE mOn[l] = FALSE
        BY <1>1, <4>2 DEF OnOffRequest
      <4>3. mOn[l] \in BOOLEAN
        BY <1>7, <2>1
      <4>4. QED
        BY <4>1, <4>2, <4>3
    <3>4. QED
      BY <2>1, <3>1, <3>2, <3>3 DEF Right
  <2>3. CASE ~(c.op # "read" /\ l = c.light)
    <3>1. Right(l)
      BY <1>2, <2>1, <2>3
    <3>2. lightOn'[l] = lightOn[l]
      BY <1>7, <1>8, <2>1, <2>3
    <3>3. QED
      BY <1>1, <2>1, <3>1, <3>2 DEF Right
  <2>4. QED
    BY <2>2, <2>3
<1>10. a.of = "read" => /\ pc' \in Reading /\ a.light = request'.light
                        /\ a.on = lightOn'[a.light]
  BY <1>1, <1>2, <1>4, <1>8
<1>11. QED
  BY <1>6, <1>9, <1>10 DEF Stage, AnsweredStage

\* One recv can only return the one answer that is in the socket.
LEMMA ReceiveAnswer ==
  ASSUME TypeOK, RequestOK, Receive, Stage
  PROVE  Stage'
<1>1. PICK k \in 1 .. Len(tcp) : /\ rxQueue' = Append(rxQueue, Head(tcp))
                                 /\ tcp' = SubSeq(tcp, k + 1, Len(tcp))
  BY DEF Receive
<1>2. /\ tcp # << >>
      /\ UNCHANGED <<pc, request, waitTx, responses, mOn, known, txQueue, air, lightOn, rx>>
  BY DEF Receive, loop, sems
<1>3. PICK a \in Response :
        /\ Answered(a) /\ Busy
        /\ a.of = "read" => pc \in Reading /\ a.light = request.light /\ a.on = lightOn[a.light]
        /\ \A l \in known : Right(l)
  BY <1>2 DEF Stage, QuietStage, SentStage, AnsweredStage, Quiet, Sent
<1>4. tcp = <<a>> /\ Unread = << >>
  BY <1>2, <1>3 DEF Answered
<1>5. tcp' = << >> /\ rxQueue' = Append(rxQueue, a)
  BY <1>1, <1>4
<1>6. Unread' = <<a>>
  <2>1. CASE rx = "take"
    BY <1>2, <1>4, <1>5, <2>1, QueueOfOne DEF Unread
  <2>2. CASE rx # "take"
    <3>1. rxQueue # << >> /\ Tail(rxQueue) = << >> /\ Unread' = Tail(Append(rxQueue, a))
      BY <1>2, <1>4, <1>5, <2>2 DEF Unread, RequestOK
    <3>2. rxQueue \in Seq(Response)
      BY DEF TypeOK
    <3>3. Tail(Append(rxQueue, a)) = Append(Tail(rxQueue), a)
      BY <3>1, <3>2
    <3>4. QED
      BY <3>1, <3>3, QueueOfOne
  <2>3. QED
    BY <2>1, <2>2
<1>7. Answered(a)' /\ Busy'
  BY <1>2, <1>3, <1>5, <1>6 DEF Answered, Busy
<1>8. \A l : Right(l)' = Right(l)
  BY <1>2 DEF Right, Pending
<1>9. QED
  BY <1>2, <1>3, <1>7, <1>8 DEF Stage, AnsweredStage

\* The answer that posts wait_tx_sem was the only message.
LEMMA ProcessAnswer ==
  ASSUME DefaultResponse \/ ReadResponse, Stage
  PROVE  Stage'
<1>1. /\ rx = "take" /\ rxQueue # << >> /\ waitTx' = waitTx + 1
      /\ Unread' = Tail(rxQueue)
      /\ UNCHANGED <<pc, request, mOn, known, txQueue, air, tcp, lightOn>>
  BY DEF DefaultResponse, ReadResponse, DefaultPosts, loop, network, Unread
<1>2. PICK a \in Response :
        /\ Answered(a) /\ Busy
        /\ a.of = "read" => pc \in Reading /\ a.light = request.light /\ a.on = lightOn[a.light]
        /\ \A l \in known : Right(l)
  BY <1>1 DEF Stage, QuietStage, SentStage, AnsweredStage, Quiet, Sent, Unread
<1>3. rxQueue = <<a>> /\ txQueue = << >> /\ air = {} /\ tcp = << >>
  BY <1>1, <1>2 DEF Answered, Unread
<1>4. Unread' = << >> /\ Head(rxQueue) = a
  BY <1>1, <1>3, QueueOfOne
<1>5. Quiet'
  BY <1>1, <1>3, <1>4 DEF Quiet
<1>6. waitTx' = 1 /\ pc' \notin Pushing
  BY <1>1, <1>2 DEF Busy
<1>7. responses' = << >> \/ (responses' = <<a>> /\ a.of = "read")
  BY <1>2, <1>4, QueueOfOne DEF DefaultResponse, ReadResponse, Busy
<1>8. \A i \in DOMAIN responses' : /\ responses'[i].light = request'.light
                                   /\ responses'[i].on = lightOn'[request'.light]
  <2>1. CASE responses' = << >>
    BY <2>1
  <2>2. CASE responses' = <<a>> /\ a.of = "read"
    BY <1>1, <1>2, <2>2, QueueOfOne
  <2>3. QED
    BY <1>7, <2>1, <2>2
<1>9. \A l : Right(l)' = Right(l)
  BY <1>1 DEF Right, Pending
<1>10. QED
  BY <1>1, <1>2, <1>5, <1>6, <1>8, <1>9 DEF Stage, QuietStage

\* What a read takes is what the light is.
LEMMA EndRead ==
  ASSUME TypeOK, RequestOK, TakeResponse, ResponseOK, Stage
  PROVE  Stage'
<1>1. /\ pc = "read_take" /\ pc' = "idle" /\ MessagesStay
      /\ UNCHANGED <<request, waitTx>>
  BY DEF TakeResponse, sems, network, MessagesStay, Unread
<1>2. CASE responses = << >>
  <2>1. UNCHANGED <<mOn, known, responses>>
    BY <1>2 DEF TakeResponse
  <2>2. QED
    BY <1>1, <2>1, LoopKeepsStage DEF Stage, Pushing, Reading
<1>3. CASE responses # << >>
  <2>1. PICK r \in Response : responses = <<r>>
    BY <1>3 DEF ResponseOK
  <2>2. QuietStage
    BY <1>3 DEF Stage, SentStage, AnsweredStage, Busy
  <2>3. r.light = request.light /\ r.on = lightOn[request.light]
    BY <2>1, <2>2, QueueOfOne DEF QuietStage
  <2>4. /\ responses' = << >> /\ mOn' = [mOn EXCEPT ![request.light] = lightOn[request.light]]
        /\ known' = known \cup {request.light}
    BY <1>3, <2>1, <2>3, QueueOfOne DEF TakeResponse, PopResponse, Set
  <2>5. request.light \in Lights /\ mOn \in [Lights -> BOOLEAN] /\ known \subseteq Lights
    BY <1>1, AccessFields DEF RequestOK, TypeOK
  <2>6. \A l \in known' : Right(l)'
    <3>1. \A l \in known : mOn[l] = lightOn[l]
      BY <1>1, <2>2 DEF QuietStage, Right, Pending
    <3>2. QED
      BY <1>1, <2>4, <2>5, <3>1 DEF Right, MessagesStay
  <2>7. Quiet' /\ waitTx' = 1 /\ pc' \notin Pushing
    BY <1>1, <2>2, StayQuiet DEF QuietStage, Pushing
  <2>8. QED
    BY <2>4, <2>6, <2>7 DEF Stage, QuietStage
<1>4. QED
  BY <1>2, <1>3

-----------------------------------------------------------------------------
LEMMA MirrorStep ==
  ASSUME "lost" \notin Faults
  PROVE  GatewayInv /\ AnswerInv /\ MirrorInv /\ [Next]_vars => MirrorInv'
<1> SUFFICES ASSUME GatewayInv, AnswerInv, MirrorInv, [Next]_vars, ~disturbed'
             PROVE  Stage'
  BY DEF MirrorInv, Stage
<1>1. TypeOK /\ RequestOK
  BY DEF GatewayInv
<1>2. CASE ArmFails \/ \E t \in Numbers : Timeout(t)
  BY <1>2 DEF ArmFails, Timeout
<1>3. ~disturbed => ResponseOK /\ Stage
  BY DEF AnswerInv, MirrorInv, Stage
<1>4. CASE Controller
  BY <1>1, <1>3, <1>4, BeginRead, BeginWrite DEF Controller, ReadOnOff, WriteOnOff
<1>5. CASE WaitTx \/ Push \/ TakeResponse
  BY <1>1, <1>3, <1>5, TakeTx, QueueCommand, EndRead DEF WaitTx, Push, TakeResponse
<1>6. CASE Send \/ Receive \/ DefaultResponse \/ ReadResponse
  BY <1>1, <1>3, <1>6, SendCommand, ReceiveAnswer, ProcessAnswer
  DEF Send, Receive, DefaultResponse, ReadResponse
<1>7. CASE \E c \in air : Answer(c)
  BY <1>1, <1>3, <1>7, CommandAnswered DEF Answer
<1>8. CASE WaitRead \/ ArmTimer
  <2>1. /\ ~disturbed /\ MessagesStay /\ pc \notin Pushing /\ pc' \notin Pushing
        /\ UNCHANGED <<request, waitTx, mOn, known, responses>>
        /\ pc \notin {"write_tx", "write_push"}
    BY <1>8 DEF WaitRead, ArmTimer, AfterWait, Pushing, MessagesStay, Unread, sems, network
  <2>2. pc' \in Reading \/ responses # << >>
    BY <1>1, <1>3, <1>8, <2>1 DEF WaitRead, ArmTimer, IsUp, ResponseOK, Reading, TypeOK
  <2>3. QED
    BY <1>3, <2>1, <2>2, LoopKeepsStage DEF Stage
<1>9. CASE PostRead \/ DeleteTimer \/ Crash \/ UNCHANGED vars
  <2>1. /\ ~disturbed /\ MessagesStay
        /\ UNCHANGED <<pc, request, waitTx, mOn, known, responses>>
    <3>1. CASE PostRead
      BY <1>3, <3>1 DEF PostRead, loop, network, MessagesStay, Unread
    <3>2. CASE DeleteTimer
      BY <3>2 DEF DeleteTimer, loop, sems, network, MessagesStay, Unread
    <3>3. CASE Crash \/ UNCHANGED vars
      BY <3>3 DEF Crash, vars, loop, sems, network, MessagesStay, Unread
    <3>4. QED
      BY <1>9, <3>1, <3>2, <3>3
  <2>2. QED
    BY <1>3, <2>1, StayStage
<1>10. ~\E c \in air : Lose(c)
  BY DEF Lose
<1> HIDE DEF GatewayInv, AnswerInv, MirrorInv, Stage
<1>11. QED
  BY <1>2, <1>4, <1>5, <1>6, <1>7, <1>8, <1>9, <1>10
  DEF Next, EventLoop, Process

\* Until a timer has expired or failed, once nothing is under way the cached
\* state of every light that was read or switched is what the light is, for
\* a radio that loses nothing: no write overtakes a read or another write.
THEOREM CacheMirrorsLight ==
  ASSUME "lost" \notin Faults
  PROVE  Spec => []MirrorsLight
<1>1. Init => MirrorInv
  <2> SUFFICES ASSUME Init
               PROVE  QuietStage
    BY DEF MirrorInv
  <2>1. QED
    BY DEF Init, QuietStage, Quiet, Unread, Pushing
<1>2. Init => AnswerInv
  BY AnswerInit
<1>3. MirrorInv => MirrorsLight
  <2> SUFFICES ASSUME MirrorInv, ~disturbed, pc = "idle", rx = "take",
                      air = {}, txQueue = << >>, tcp = << >>, rxQueue = << >>,
                      NEW l \in known
               PROVE  mOn[l] = lightOn[l]
    BY DEF MirrorsLight
  <2>1. \A m : /\ <<m>> # << >> /\ {m} # {}
    OBVIOUS
  <2>2. QuietStage
    BY <2>1 DEF MirrorInv, SentStage, AnsweredStage, Sent, Answered, Unread
  <2>3. QED
    BY <2>2 DEF QuietStage, Right, Pending
<1>4. QED
  BY <1>1, <1>2, <1>3, MirrorStep, AnswerStep, GatewayAlways, PTL DEF Spec

=============================================================================
