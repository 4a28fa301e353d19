--------------------------- MODULE ChannelDriver ----------------------------
(***************************************************************************)
(* IPC for any number of clients on one CPU: every step of the driver, of  *)
(* its input thread and of its death keeps what a client, its channel and  *)
(* the driver know of a call.  So every step of the system keeps it, and   *)
(* it follows that nobody sleeps for nothing and that a call that is over  *)
(* leaves nothing behind.                                                  *)
(***************************************************************************)
EXTENDS ChannelClients

(* The driver does nothing about the client d. *)
Apart(d) ==
  /\ sendList'[d] = sendList[d] /\ recvList'[d] = recvList[d]
  /\ InQueue(d)' <=> InQueue(d)
  /\ feeding'.chan = d <=> feeding.chan = d
  /\ Holds(d)' <=> Holds(d)
  /\ Holds(d) => dpc' = dpc /\ dmsg' = dmsg

(* A step of the driver that concerns c, if that is a client. *)
LEMMA DriverTalk ==
  ASSUME BaseInv, TalkInv, NEW c, Running, Running',
         UNCHANGED <<node, refs, devAlive, rmw, closed, driverFds, cpc, cur, cancelId>>,
         \A d \in Clients \ {c} : Apart(d),
         Queue', c \in Clients => ClientInv(c)',
         \A d \in Clients : d \in waiting' => d \in waiting /\ recvList'[d] = recvList[d],
         Driver \in waiting' =>
           dpc' = "sleep" /\ \A d \in Clients : isAlive(d) => sendList'[d] = <<>>,
         c \in waiting' => c \in Clients \cup {Driver}, c # Driver
  PROVE  TalkInv'
<1>1. \A d \in Clients \ {c} : Same(d) BY Zenon DEF Apart, Same
<1>2. \A d : isAlive(d)' <=> isAlive(d) BY Zenon DEF isAlive
<1>3. dpc' \notin {"closefds", "dead", "wakeup", "destroy"} /\ dpc \notin {"closefds", "dead"}
  BY Zenon DEF Running
<1>4. DeviceNamed' BY <1>2, <1>3, Zenon DEF TalkInv, DeviceNamed
<1>5. Distinct' BY Zenon DEF TalkInv, Distinct
<1>6. Dying' BY <1>3, Zenon DEF Dying
<1>7. c \in waiting' => cpc'[c] = "sleep" /\ isAlive(c)' /\ Nothing(c)' /\ Running'
  <2> SUFFICES ASSUME c \in waiting' PROVE cpc[c] = "sleep" /\ isAlive(c) /\ Nothing(c)'
    BY <1>2, Zenon
  <2>1. c \in Clients /\ c \in waiting /\ recvList'[c] = recvList[c] BY Zenon
  <2>2. cpc[c] = "sleep" /\ isAlive(c) /\ Nothing(c) BY <2>1, Zenon DEF TalkInv, Sleepers
  <2>3. Expected(c)' = Expected(c) BY Zenon DEF Expected
  <2> QED BY <2>1, <2>2, <2>3, Zenon DEF Nothing, Matches
<1>8. Driver \in waiting' =>
        dpc' = "sleep" /\ \A d \in Clients : isAlive(d)' => sendList'[d] = <<>>
  BY <1>2, Zenon
<1> QED BY <1>1, <1>4, <1>5, <1>6, <1>7, <1>8, StepTalk, Zenon

(* The flags of a request whose place changes. *)
LEMMA FlagsMove ==
  ASSUME NEW c, NEW o, NEW k, NEW o2, NEW k2, Flags(c, o, k), UNCHANGED <<cpc, cur>>,
         k2 = "none" <=> k = "none",
         k = "none" => \/ o2 = o
                       \/ o = "sent" /\ cpc[c] = "sleep"
                       \/ o \notin {"sent", "answered"}
  PROVE  Flags(c, o2, k2)'
BY Zenon DEF Flags

(* The request of c and its cancel message get to other places. *)
LEMMA Moves ==
  ASSUME NEW c, NEW o, NEW k, NEW o2 \in Places, NEW k2 \in CancelPlaces,
         Talking(c), At(c, o, k),
         UNCHANGED <<node, refs, rmw, closed, driverFds, cpc, cur, cancelId>>,
         Lists(c, o2, k2)', InHand(c, o2, k2)', Legal(c, o2, k2),
         InQueue(c)' <=> o2 = "queue", feeding'.chan = c <=> o2 = "feed",
         k2 = "none" <=> k = "none",
         k = "none" => \/ o2 = o
                       \/ o = "sent" /\ cpc[c] = "sleep"
                       \/ o \notin {"sent", "answered"}
  PROVE  ClientInv(c)'
<1>1. Flags(c, o2, k2)'
  <2>1. Flags(c, o, k) BY Zenon DEF At
  <2> QED BY <2>1, FlagsMove, Zenon
<1>2. Legal(c, o2, k2)' BY Zenon DEF Legal
<1>3. InPlace(c, o2, k2)' BY Zenon DEF At, InPlace
<1>4. At(c, o2, k2)' BY <1>1, <1>2, <1>3, Zenon DEF At
<1>5. HasFile(c, 2)' BY Zenon DEF Talking, HasFile, isAlive
<1>6. Talking(c)' BY <1>4, <1>5, Zenon DEF Talking
<1> QED BY <1>6, Zenon DEF ClientInv

(* What the driver has in hand. *)
LEMMA HoldsFacts ==
  ASSUME BaseInv, TalkInv, dpc \in {"handle", "data", "reply"}, NEW c, c = dmsg.chan
  PROVE  /\ c \in Clients /\ Holds(c) /\ Running /\ Driver \notin waiting
         /\ \/ /\ Talking(c) /\ dmsg.id = cur[c].id
               /\ \E k \in {"none", "sent"} : At(c, dpc, k)
            \/ /\ Talking(c) /\ dmsg.id.op = "CANCEL" /\ dpc # "data"
               /\ \E o \in Places : At(c, o, dpc)
            \/ Closing(c) /\ dmsg.id.op = "CLOSE" /\ dpc = "handle" /\ sendList[c] = <<>>
<1>1. c \in Clients /\ Holds(c) /\ Running /\ Driver \notin waiting
  <2>1. c \in Clients BY MsgTypes, Zenon
  <2>2. Holds(c) BY Zenon DEF Holds
  <2>3. Running BY Zenon DEF Running
  <2>4. Driver \notin waiting BY Zenon DEF TalkInv, Sleepers
  <2> QED BY <2>1, <2>2, <2>3, <2>4, Zenon
<1>2. ClientInv(c) BY <1>1, Zenon DEF TalkInv, InTouch
<1>3. Talking(c) \/ Closing(c)
  BY <1>1, <1>2, Zenon DEF ClientInv, Absent, Open, Sending, Failed, Silent
<1>4. CASE Talking(c)
  <2>1. PICK o \in Places, k \in CancelPlaces : At(c, o, k) BY <1>4, Zenon DEF Talking
  <2>2. CASE o \in {"handle", "reply", "data"}
    <3>1. dpc = o /\ dmsg.id = cur[c].id BY <2>1, <2>2, Zenon DEF At, InHand
    <3>2. k \in {"none", "sent"} BY <2>1, <2>2, Zenon DEF At, Legal
    <3>3. At(c, dpc, k) BY <2>1, <3>1, Zenon
    <3> QED BY <1>1, <1>4, <3>1, <3>2, <3>3, Zenon
  <2>3. CASE k \in {"handle", "reply"}
    <3>1. dpc = k /\ dmsg.id = [op |-> "CANCEL", rid |-> cancelId[c]]
      BY <2>1, <2>3, Zenon DEF At, InHand
    <3>2. dmsg.id.op = "CANCEL"
      <4> DEFINE e == [op |-> "CANCEL", rid |-> cancelId[c]]
      <4>1. e.op = "CANCEL" BY Zenon
      <4> HIDE DEF e
      <4> QED BY <3>1, <4>1, Zenon DEF e
    <3>3. At(c, o, dpc) BY <2>1, <3>1, Zenon
    <3> QED BY <1>1, <1>4, <2>3, <3>1, <3>2, <3>3, Zenon
  <2> QED BY <1>1, <2>1, <2>2, <2>3, Zenon DEF At, InHand
<1>5. CASE Closing(c) BY <1>1, <1>5, Zenon DEF Closing
<1> QED BY <1>3, <1>4, <1>5, Zenon

(* A response has been sent. *)
LEMMA ResponseFacts ==
  ASSUME BaseInv, NEW a, NEW c \in Clients, NEW id, NEW res, sendResponse(a, c, id, res)
  PROVE  /\ recvList'[c] = Append(recvList[c], [id |-> id, res |-> res])
         /\ \A d \in Clients \ {c} : recvList'[d] = recvList[d]
         /\ waiting' = waiting \ {c}
         /\ UNCHANGED <<node, refs, devAlive, rmw, closed, driverFds, cpc, cur, cancelId, sendList>>
BY Zenon DEF sendResponse, nodeVars, clientVars, BaseInv, Shapes, ListTypes

-----------------------------------------------------------------------------
(* The driver that is back in its loop has no message. *)
LEMMA Looping ==
  ASSUME BackToLoop
  PROVE  Running' /\ \A d \in Clients : ~Holds(d)'
<1>1. dpc' = "loop" /\ dmsg' = NoMsg BY Zenon DEF BackToLoop
<1>2. NoMsg.chan \notin Clients BY Names, Nothings, Zenon
<1> QED BY <1>1, <1>2, Zenon DEF Running, Holds

(* The queue stays correct if no request and no input is added. *)
LEMMA QueueSame ==
  ASSUME TalkInv, UNCHANGED <<pending, feeding, cur>>, input' => input
  PROVE  /\ Queue' /\ \A d : InQueue(d)' <=> InQueue(d)
BY Zenon DEF TalkInv, Queue, InQueue

(* A thread of the driver sends a response to c. *)
LEMMA ResponseTalk ==
  ASSUME BaseInv, TalkInv, NEW a, NEW c \in Clients, NEW id, NEW res, sendResponse(a, c, id, res),
         Running, Running', Driver \in waiting => dpc' = dpc, Queue',
         \A d \in Clients \ {c} : /\ InQueue(d)' <=> InQueue(d)
                                  /\ feeding'.chan = d <=> feeding.chan = d
                                  /\ Holds(d)' <=> Holds(d)
                                  /\ Holds(d) => dpc' = dpc /\ dmsg' = dmsg,
         ClientInv(c)'
  PROVE  TalkInv'
<1>1. /\ recvList'[c] = Append(recvList[c], [id |-> id, res |-> res])
      /\ \A d \in Clients \ {c} : recvList'[d] = recvList[d]
      /\ waiting' = waiting \ {c}
      /\ UNCHANGED <<node, refs, devAlive, rmw, closed, driverFds, cpc, cur, cancelId, sendList>>
  BY ResponseFacts, Zenon
<1>2. \A d \in Clients \ {c} : Apart(d) BY <1>1, Zenon DEF Apart
<1>3. \A d \in Clients : d \in waiting' => d \in waiting /\ recvList'[d] = recvList[d] BY <1>1, Zenon
<1>4. Driver \in waiting' =>
        dpc' = "sleep" /\ \A d \in Clients : isAlive(d) => sendList'[d] = <<>>
  BY <1>1, Zenon DEF TalkInv, Sleepers
<1>5. c # Driver BY Names, Zenon
<1> QED BY <1>1, <1>2, <1>3, <1>4, <1>5, DriverTalk, Zenon

(* The lists of c when its request gets from o to o2 by a response. *)
LEMMA RespondedLists ==
  ASSUME NEW c, NEW o, NEW k, NEW o2, At(c, o, k), k # "answered", UNCHANGED <<cur, cancelId, sendList>>,
         Msgs(cur[c], o2) = Msgs(cur[c], o), recvList'[c] \in Answers(cur[c], o2)
  PROVE  Lists(c, o2, k)'
<1>1. sendList[c] = IF k = "sent" THEN Append(Msgs(cur[c], o2), CancelMsg(cur[c], cancelId[c]))
                                  ELSE Msgs(cur[c], o2)
  BY Zenon DEF At, Lists
<1> QED BY <1>1, Zenon DEF Lists

(* A call waits for its first or for its second response. *)
LEMMA PartFacts ==
  ASSUME BaseInv, NEW c \in Clients
  PROVE  /\ cur[c].part # 2 <=> cur[c].part = 1
         /\ cur[c] \in Calls /\ cur[c].id \in Ids
<1>1. cur[c] \in Calls BY Zenon DEF BaseInv, Shapes, ClientTypes
<1>2. cur[c].part \in 1 .. 2 /\ cur[c].id \in Ids BY <1>1, Zenon DEF Calls
<1> QED BY <1>1, <1>2

(* The responses by the place of the request. *)
LEMMA RespondedFacts ==
  ASSUME BaseInv, NEW c \in Clients, NEW o, NEW k, At(c, o, k)
  PROVE  /\ k # "answered" => recvList[c] \in Answers(cur[c], o)
         /\ k # "answered" /\ o \notin {"data", "feed", "answered"} =>
              /\ recvList[c] = <<>>
              /\ \A x : Append(recvList[c], Ans(cur[c], x)) = <<Ans(cur[c], x)>>
         /\ k # "answered" /\ o \in {"data", "feed"} =>
              Append(recvList[c], Ans(cur[c], 2)) \in Answers(cur[c], "answered")
<1> DEFINE q == cur[c]
<1>1. k # "answered" => recvList[c] \in Answers(q, o) BY Zenon DEF At, Lists
<1>2. ASSUME k # "answered", o \notin {"data", "feed", "answered"}
      PROVE  recvList[c] = <<>> /\ \A x : Append(recvList[c], Ans(q, x)) = <<Ans(q, x)>>
  <2>1. Answers(q, o) = {<<>>} BY <1>2, Zenon DEF Answers
  <2>2. recvList[c] = <<>> BY <1>1, <1>2, <2>1, Zenon
  <2> QED BY <2>2, Ends, Zenon
<1>3. ASSUME k # "answered", o \in {"data", "feed"}
      PROVE  Append(recvList[c], Ans(q, 2)) \in Answers(q, "answered")
  <2>1. q.id.op = "READ" BY <1>3, Zenon DEF At, Legal
  <2>2. CASE q.part = 1
    <3>1. q.part # 2 BY <2>2, PartFacts, Zenon
    <3>2. recvList[c] = <<Ans(q, 1)>> BY <1>1, <1>3, <2>2, AnswersFacts, Zenon
    <3>3. Append(recvList[c], Ans(q, 2)) = <<Ans(q, 1), Ans(q, 2)>> BY <3>2, Pair, Zenon
    <3> QED BY <2>1, <3>1, <3>3, AnswersFacts, Zenon
  <2>3. CASE q.part # 1
    <3>1. q.part = 2 BY <2>3, PartFacts, Zenon
    <3>2. recvList[c] = <<>> BY <1>1, <1>3, <2>3, AnswersFacts, Zenon
    <3>3. Append(recvList[c], Ans(q, 2)) = <<Ans(q, 2)>> BY <3>2, Ends, Zenon
    <3> QED BY <3>1, <3>3, AnswersFacts, Zenon
  <2> QED BY <2>2, <2>3, Zenon
<1> QED BY <1>1, <1>2, <1>3, Zenon

-----------------------------------------------------------------------------
(* The request in hand is answered: nothing of it is left. *)
LEMMA AnsweredTalk ==
  ASSUME BaseInv, TalkInv, dpc \in {"handle", "data", "reply"}, NEW c, c = dmsg.chan,
         NEW res, sendResponse(Driver, c, dmsg.id, res), BackToLoop,
         UNCHANGED <<pending, feeding>>, input' => input,
         Talking(c), dmsg.id = cur[c].id, NEW k \in {"none", "sent"}, At(c, dpc, k),
         Msgs(cur[c], dpc) = <<>>,
         Append(recvList[c], Ans(cur[c], res)) \in Answers(cur[c], "answered")
  PROVE  TalkInv'
<1>1. c \in Clients /\ Holds(c) /\ Running /\ Driver \notin waiting BY HoldsFacts, Zenon
<1>2. /\ recvList'[c] = Append(recvList[c], Ans(cur[c], res))
      /\ UNCHANGED <<node, refs, devAlive, rmw, closed, driverFds, cpc, cur, cancelId, sendList>>
  <2>1. /\ recvList'[c] = Append(recvList[c], [id |-> dmsg.id, res |-> res])
        /\ UNCHANGED <<node, refs, devAlive, rmw, closed, driverFds, cpc, cur, cancelId, sendList>>
    BY <1>1, Zenon DEF sendResponse, nodeVars, clientVars, BaseInv, Shapes, ListTypes
  <2>2. [id |-> dmsg.id, res |-> res] = Ans(cur[c], res) BY Zenon DEF Ans
  <2> QED BY <2>1, <2>2, Zenon
<1>3. Running' /\ \A d \in Clients : ~Holds(d)' BY Looping, Zenon
<1>4. Queue' /\ \A d : InQueue(d)' <=> InQueue(d) BY <1>2, QueueSame, Zenon
<1>5. ClientInv(c)'
  <2>1. Msgs(cur[c], "answered") = <<>> BY MsgsFacts, Zenon
  <2>2. Lists(c, "answered", k)' BY <1>2, <2>1, RespondedLists, Zenon
  <2>3. InHand(c, "answered", k)' BY <1>1, <1>3, Zenon DEF InHand
  <2>4. Legal(c, "answered", k) BY Zenon DEF At, Legal
  <2>5. ~InQueue(c)' /\ feeding'.chan # c BY <1>4, Zenon DEF At, InPlace
  <2>6. "answered" \in Places /\ k \in CancelPlaces BY Zenon DEF Places, CancelPlaces
  <2> QED BY <1>2, <2>2, <2>3, <2>4, <2>5, <2>6, Moves, Zenon
<1>6. \A d \in Clients \ {c} : ~Holds(d) BY Zenon DEF Holds
<1> QED BY <1>1, <1>3, <1>4, <1>5, <1>6, ResponseTalk, Zenon

(* The driver answers an open. *)
LEMMA HandleOpenTalk ==
  ASSUME BaseInv, TalkInv, handleOpen
  PROVE  TalkInv'
<1>c. PICK c : c = dmsg.chan BY Zenon
<1>1. /\ dpc = "handle" /\ dmsg.id.op = "OPEN" /\ BackToLoop /\ UNCHANGED <<pending, input, feeding>>
      /\ \E res \in {-1, 0} : sendResponse(Driver, c, dmsg.id, res)
  BY <1>c, Zenon DEF handleOpen
<1>2. PICK res \in {-1, 0} : sendResponse(Driver, c, dmsg.id, res) BY <1>1, Zenon
<1>3. /\ c \in Clients /\ Talking(c) /\ dmsg.id = cur[c].id
      /\ \E k \in {"none", "sent"} : At(c, "handle", k)
  BY <1>c, <1>1, HoldsFacts, Zenon
<1>4. PICK k \in {"none", "sent"} : At(c, "handle", k) BY <1>3, Zenon
<1>5. Msgs(cur[c], "handle") = <<>> BY <1>1, <1>3, MsgsFacts, Zenon
<1>6. Append(recvList[c], Ans(cur[c], res)) \in Answers(cur[c], "answered")
  <2>1. cur[c].part # 2 BY <1>4, Zenon DEF At, Legal
  <2>2. k # "answered" /\ "handle" \notin {"data", "feed", "answered"} BY Zenon
  <2>3. Append(recvList[c], Ans(cur[c], res)) = <<Ans(cur[c], res)>>
    BY <1>3, <1>4, <2>2, RespondedFacts, Zenon
  <2> QED BY <2>1, <2>3, AnswersFacts, Zenon
<1> QED BY <1>c, <1>1, <1>2, <1>3, <1>4, <1>5, <1>6, AnsweredTalk, Zenon

(* The driver sends the data of a read. *)
LEMMA SendDataTalk ==
  ASSUME BaseInv, TalkInv, sendData
  PROVE  TalkInv'
<1>c. PICK c : c = dmsg.chan BY Zenon
<1>1. /\ dpc = "data" /\ sendResponse(Driver, c, dmsg.id, 2)
      /\ BackToLoop /\ UNCHANGED <<pending, input, feeding>>
  BY <1>c, Zenon DEF sendData
<1>3. /\ c \in Clients /\ Talking(c) /\ dmsg.id = cur[c].id
      /\ \E k \in {"none", "sent"} : At(c, "data", k)
  BY <1>c, <1>1, HoldsFacts, Zenon
<1>4. PICK k \in {"none", "sent"} : At(c, "data", k) BY <1>3, Zenon
<1>5. Msgs(cur[c], "data") = <<>> BY MsgsFacts, Zenon
<1>6. Append(recvList[c], Ans(cur[c], 2)) \in Answers(cur[c], "answered")
  <2>1. k # "answered" BY Zenon
  <2> QED BY <1>3, <1>4, <2>1, RespondedFacts, Zenon
<1> QED BY <1>c, <1>1, <1>3, <1>4, <1>5, <1>6, AnsweredTalk, Zenon

(* The driver sends the result. *)
LEMMA ReplyTalk ==
  ASSUME BaseInv, TalkInv, reply
  PROVE  TalkInv'
<1>c. PICK c : c = dmsg.chan BY Zenon
<1>1. /\ dpc = "reply" /\ sendResponse(Driver, c, dmsg.id, dmsg.res)
      /\ BackToLoop /\ UNCHANGED <<pending, input, feeding>>
  BY <1>c, Zenon DEF reply
<1>2. /\ c \in Clients /\ Holds(c) /\ Running /\ Driver \notin waiting
      /\ Talking(c)
      /\ \/ dmsg.id = cur[c].id /\ \E k \in {"none", "sent"} : At(c, "reply", k)
         \/ dmsg.id.op = "CANCEL" /\ \E o \in Places : At(c, o, "reply")
  BY <1>c, <1>1, HoldsFacts, Zenon
<1>3. CASE dmsg.id = cur[c].id /\ \E k \in {"none", "sent"} : At(c, "reply", k)
  <2>1. PICK k \in {"none", "sent"} : At(c, "reply", k) BY <1>3, Zenon
  <2>2. Msgs(cur[c], "reply") = <<>> BY MsgsFacts, Zenon
  <2>3. Append(recvList[c], Ans(cur[c], dmsg.res)) \in Answers(cur[c], "answered")
    <3>1. cur[c].part # 2 BY <2>1, Zenon DEF At, Legal
    <3>2. k # "answered" /\ "reply" \notin {"data", "feed", "answered"} BY Zenon
    <3>3. Append(recvList[c], Ans(cur[c], 0)) = <<Ans(cur[c], 0)>>
      BY <1>2, <2>1, <3>2, RespondedFacts, Zenon
    <3>4. dmsg.res = 0 BY <2>1, Zenon DEF At, InHand
    <3> QED BY <3>1, <3>3, <3>4, AnswersFacts, Zenon
  <2> QED BY <1>c, <1>1, <1>2, <1>3, <2>1, <2>2, <2>3, AnsweredTalk, Zenon
<1>4. CASE dmsg.id.op = "CANCEL" /\ \E o \in Places : At(c, o, "reply")
  <2>1. PICK o \in Places : At(c, o, "reply") BY <1>4, Zenon
  <2>2. /\ o \in {"answered", "gone"} /\ dmsg.res = CancelRes(o)
        /\ dmsg.id = [op |-> "CANCEL", rid |-> cancelId[c]]
    BY <2>1, Zenon DEF At, Legal, InHand
  <2>o. o \notin {"handle", "reply", "data"} /\ o # "queue" /\ o # "feed" BY <2>2, Zenon
  <2>3. /\ recvList'[c] = Append(recvList[c], CancelAns(cancelId[c], o))
        /\ UNCHANGED <<node, refs, devAlive, rmw, closed, driverFds, cpc, cur, cancelId, sendList>>
    <3>1. /\ recvList'[c] = Append(recvList[c], [id |-> dmsg.id, res |-> dmsg.res])
          /\ UNCHANGED <<node, refs, devAlive, rmw, closed, driverFds, cpc, cur, cancelId, sendList>>
      BY <1>1, <1>2, Zenon DEF sendResponse, nodeVars, clientVars, BaseInv, Shapes, ListTypes
    <3>2. [id |-> dmsg.id, res |-> dmsg.res] = CancelAns(cancelId[c], o) BY <2>2, Zenon DEF CancelAns
    <3> QED BY <3>1, <3>2, Zenon
  <2>4. Running' /\ \A d \in Clients : ~Holds(d)' BY <1>1, Looping, Zenon
  <2>5. Queue' /\ \A d : InQueue(d)' <=> InQueue(d) BY <1>1, <2>3, QueueSame, Zenon
  <2>6. ClientInv(c)'
    <3>1. Lists(c, o, "answered")'
      <4>1. sendList[c] = Msgs(cur[c], o) /\ recvList[c] \in Answers(cur[c], o)
        BY <2>1, Zenon DEF At, Lists
      <4> DEFINE s == recvList[c]
      <4>2. /\ sendList'[c] = Msgs(cur'[c], o) /\ s \in Answers(cur'[c], o)
            /\ recvList'[c] = Append(s, CancelAns(cancelId'[c], o))
        BY <2>3, <4>1, Zenon
      <4> HIDE DEF s
      <4> QED BY ONLY <4>2, Zenon DEF Lists
    <3>2. InHand(c, o, "answered")' BY <1>2, <2>o, <2>4, Zenon DEF InHand
    <3>3. Legal(c, o, "answered") BY <2>1, <2>2, Zenon DEF At, Legal
    <3>4. ~InQueue(c)' /\ feeding'.chan # c BY <1>1, <2>1, <2>o, <2>5, Zenon DEF At, InPlace
    <3>5. "answered" \in CancelPlaces BY Zenon DEF CancelPlaces
    <3> QED BY <1>2, <2>o, <2>1, <2>3, <3>1, <3>2, <3>3, <3>4, <3>5, Moves, Zenon
  <2>7. \A d \in Clients \ {c} : ~Holds(d) BY <1>c, Zenon DEF Holds
  <2> QED BY <1>1, <1>2, <2>4, <2>5, <2>6, <2>7, ResponseTalk, Zenon
<1> QED BY <1>2, <1>3, <1>4, Zenon

-----------------------------------------------------------------------------
(* A request is queued. *)
LEMMA QueueAppend ==
  ASSUME BaseInv, TalkInv, NEW c \in Clients, ~InQueue(c), ~input,
         pending' = Append(pending, [chan |-> c, id |-> cur[c].id]), UNCHANGED <<input, feeding, cur>>
  PROVE  /\ Queue' /\ InQueue(c)'
         /\ \A d \in Clients \ {c} : InQueue(d)' <=> InQueue(d)
<1> DEFINE Q == [chan : Clients, id : Ids]
           r == [chan |-> c, id |-> cur[c].id]
           n == Len(pending)
<1>1. r \in Q
  <2>1. cur[c].id \in Ids BY PartFacts, Zenon
  <2> QED BY ONLY <2>1, c \in Clients
<1>2. r.chan = c /\ r.id = cur[c].id BY Zenon
<1>3. pending \in Seq(Q) BY PendingTypes, Zenon
<1>4. pending' = Append(pending, r) BY Zenon
<1> HIDE DEF Q, r
<1>5. /\ n \in Nat /\ Len(pending') = n + 1 /\ pending'[n + 1] = r
      /\ \A j \in 1 .. n : pending'[j] = pending[j]
  <2>1. n \in Nat BY ONLY <1>3
  <2>2. /\ Len(Append(pending, r)) = n + 1 /\ Append(pending, r)[n + 1] = r
        /\ \A j \in 1 .. n : Append(pending, r)[j] = pending[j]
    BY ONLY <1>1, <1>3
  <2> QED BY <1>4, <2>1, <2>2, Zenon
<1> HIDE DEF n
<1>6. /\ \A j \in 1 .. n + 1 : j \in 1 .. n \/ j = n + 1
      /\ \A j \in 1 .. n : j \in 1 .. n + 1
      /\ n + 1 \in 1 .. n + 1
  BY ONLY <1>5
<1>7. \A j \in 1 .. n : pending[j].chan # c BY Zenon DEF InQueue, n
<1>8. /\ \A i, j \in 1 .. n : pending[i].chan = pending[j].chan => i = j
      /\ \A i \in 1 .. n : pending[i].id = cur[pending[i].chan].id
      /\ feeding.chan # Null => feeding.id = cur[feeding.chan].id
  BY Zenon DEF TalkInv, Queue, n
<1>9. \A i, j \in 1 .. n + 1 : pending'[i].chan = pending'[j].chan => i = j
  <2> SUFFICES ASSUME NEW i \in 1 .. n + 1, NEW j \in 1 .. n + 1, pending'[i].chan = pending'[j].chan
               PROVE  i = j
    BY Zenon
  <2>1. i \in 1 .. n => pending'[i] = pending[i] /\ pending[i].chan # c BY <1>5, <1>7, Zenon
  <2>2. j \in 1 .. n => pending'[j] = pending[j] /\ pending[j].chan # c BY <1>5, <1>7, Zenon
  <2>3. pending'[n + 1].chan = c BY <1>2, <1>5, Zenon
  <2>4. CASE i \in 1 .. n /\ j \in 1 .. n BY <1>8, <2>1, <2>2, <2>4, Zenon
  <2>5. CASE i = n + 1 /\ j \in 1 .. n BY <2>2, <2>3, <2>5, Zenon
  <2>6. CASE i \in 1 .. n /\ j = n + 1 BY <2>1, <2>3, <2>6, Zenon
  <2> QED BY <1>6, <2>4, <2>5, <2>6, Zenon
<1>10. \A i \in 1 .. n + 1 : pending'[i].id = cur'[pending'[i].chan].id
  BY <1>2, <1>5, <1>6, <1>8, Zenon
<1>11. Queue' BY <1>5, <1>8, <1>9, <1>10, Zenon DEF Queue
<1>12. InQueue(c)' BY <1>2, <1>5, <1>6, Zenon DEF InQueue
<1>13. \A d \in Clients \ {c} : InQueue(d)' <=> InQueue(d)
  BY <1>2, <1>5, <1>6, Zenon DEF InQueue, n
<1> QED BY <1>11, <1>12, <1>13, Zenon

(* A request is taken out of the queue. *)
LEMMA QueueRemove ==
  ASSUME BaseInv, TalkInv, NEW i \in 1 .. Len(pending), NEW c, c = pending[i].chan,
         pending' = RemoveAt(pending, i), UNCHANGED <<input, cur>>,
         feeding'.chan # Null => feeding'.id = cur[feeding'.chan].id
  PROVE  /\ Queue' /\ ~InQueue(c)'
         /\ \A d \in Clients \ {c} : InQueue(d)' <=> InQueue(d)
<1> DEFINE Q == [chan : Clients, id : Ids]
           n == Len(pending)
           f(j) == IF j < i THEN j ELSE j + 1
<1>1. pending \in Seq(Q) BY PendingTypes, Zenon
<1> HIDE DEF Q
<1>2. n \in Nat /\ i \in 1 .. n BY ONLY <1>1, i \in 1 .. Len(pending)
<1>3. /\ Len(pending') = n - 1
      /\ \A j \in 1 .. n - 1 : pending'[j] = pending[f(j)]
  <2>1. /\ Len(RemoveAt(pending, i)) = n - 1
        /\ \A j \in 1 .. n - 1 :
             RemoveAt(pending, i)[j] = IF j < i THEN pending[j] ELSE pending[j + 1]
    BY <1>1, RemoveAtFacts, Zenon
  <2> QED BY <2>1, Zenon
<1> HIDE DEF n
<1>4. \A j \in 1 .. n - 1 : f(j) \in 1 .. n /\ f(j) # i BY ONLY <1>2
<1>5. \A j, k \in 1 .. n - 1 : f(j) = f(k) => j = k BY ONLY <1>2
<1>6. ASSUME NEW x \in 1 .. n, x # i PROVE \E j \in 1 .. n - 1 : f(j) = x
  <2>1. CASE x < i
    <3>1. x \in 1 .. n - 1 /\ f(x) = x BY ONLY <1>2, <2>1, x \in 1 .. n
    <3> QED BY <3>1, Zenon
  <2>2. CASE ~(x < i)
    <3>1. x - 1 \in 1 .. n - 1 /\ f(x - 1) = x BY ONLY <1>2, <2>2, <1>6, x \in 1 .. n
    <3> QED BY <3>1, Zenon
  <2> QED BY <2>1, <2>2, Zenon
<1> HIDE DEF f
<1>7. /\ \A j, k \in 1 .. n : pending[j].chan = pending[k].chan => j = k
      /\ \A j \in 1 .. n : pending[j].id = cur[pending[j].chan].id
      /\ input => pending = <<>>
  BY Zenon DEF TalkInv, Queue, n
<1>8. ~input
  <2>1. pending # <<>>
    <3>1. Len(<<>>) = 0 BY Ends, Zenon
    <3>2. n # 0 BY ONLY <1>2
    <3> QED BY <3>1, <3>2, Zenon DEF n
  <2> QED BY <1>7, <2>1, Zenon
<1>9. \A j, k \in 1 .. n - 1 : pending'[j].chan = pending'[k].chan => j = k
  <2> SUFFICES ASSUME NEW j \in 1 .. n - 1, NEW k \in 1 .. n - 1, pending'[j].chan = pending'[k].chan
               PROVE  j = k
    BY Zenon
  <2>1. pending'[j] = pending[f(j)] /\ pending'[k] = pending[f(k)] BY <1>3, Zenon
  <2>2. pending[f(j)].chan = pending[f(k)].chan BY <2>1, Zenon
  <2>3. f(j) = f(k) BY <1>4, <1>7, <2>2, Zenon
  <2> QED BY <1>5, <2>3, Zenon
<1>10. \A j \in 1 .. n - 1 : pending'[j].id = cur'[pending'[j].chan].id
  BY <1>3, <1>4, <1>7, Zenon
<1>11. Queue' BY <1>3, <1>8, <1>9, <1>10, Zenon DEF Queue
<1>12. \A j \in 1 .. n - 1 : pending'[j].chan # c
  <2> SUFFICES ASSUME NEW j \in 1 .. n - 1, pending'[j].chan = c PROVE FALSE BY Zenon
  <2>1. pending[f(j)].chan = pending[i].chan BY <1>3, Zenon
  <2> QED BY <1>2, <1>4, <1>7, <2>1, Zenon
<1>13. ~InQueue(c)' BY <1>3, <1>12, Zenon DEF InQueue
<1>14. ASSUME NEW d \in Clients \ {c} PROVE InQueue(d)' <=> InQueue(d)
  <2>1. ASSUME NEW j \in 1 .. n - 1, pending'[j].chan = d PROVE InQueue(d)
    <3>1. pending[f(j)].chan = d /\ f(j) \in 1 .. n BY <1>3, <1>4, <2>1, Zenon
    <3> QED BY <3>1, Zenon DEF InQueue, n
  <2>2. ASSUME NEW x \in 1 .. n, pending[x].chan = d PROVE InQueue(d)'
    <3>1. x # i BY <2>2, <1>14, Zenon
    <3>2. PICK j \in 1 .. n - 1 : f(j) = x BY <1>6, <3>1, Zenon
    <3>3. pending'[j].chan = d BY <1>3, <2>2, <3>2, Zenon
    <3> QED BY <1>3, <3>3, Zenon DEF InQueue
  <2> QED BY <1>3, <2>1, <2>2, Zenon DEF InQueue, n
<1> QED BY <1>11, <1>13, <1>14, Zenon

-----------------------------------------------------------------------------
(* The driver answers a read or puts it into the queue. *)
LEMMA HandleReadTalk ==
  ASSUME BaseInv, TalkInv, handleRead
  PROVE  TalkInv'
<1>c. PICK c : c = dmsg.chan BY Zenon
<1>1. dpc = "handle" /\ dmsg.id.op = "READ" /\ feeding = NoFeed BY Zenon DEF handleRead, mutexFree
<1>2. /\ c \in Clients /\ Holds(c) /\ Running /\ Driver \notin waiting
      /\ Talking(c) /\ dmsg.id = cur[c].id
      /\ \E k \in {"none", "sent"} : At(c, "handle", k)
  BY <1>c, <1>1, HoldsFacts, Zenon
<1>3. PICK k \in {"none", "sent"} : At(c, "handle", k) BY <1>2, Zenon
<1>4. k # "answered" /\ k \in CancelPlaces /\ k \notin {"handle", "reply"} BY Zenon DEF CancelPlaces
<1>5. /\ Msgs(cur[c], "handle") = <<>> /\ Msgs(cur[c], "data") = <<>> /\ Msgs(cur[c], "queue") = <<>>
  BY <1>1, <1>2, MsgsFacts, Zenon
<1>6. cur[c].part # 2 /\ cur[c].part = 1
  <2>1. cur[c].part # 2 BY <1>3, Zenon DEF At, Legal
  <2> QED BY <1>2, <2>1, PartFacts, Zenon
<1>7. recvList[c] = <<>> /\ \A x : Append(recvList[c], Ans(cur[c], x)) = <<Ans(cur[c], x)>>
  <2>1. "handle" \notin {"data", "feed", "answered"} BY Zenon
  <2> QED BY <1>2, <1>3, <1>4, <2>1, RespondedFacts, Zenon
<1>8. \A d \in Clients \ {c} : ~Holds(d) BY <1>c, Zenon DEF Holds
<1>9. ASSUME input' = FALSE, UNCHANGED <<pending, feeding>>,
             sendResponse(Driver, c, dmsg.id, 0), BackToLoop
      PROVE  TalkInv'
  <2>1. Append(recvList[c], Ans(cur[c], 0)) \in Answers(cur[c], "answered")
    <3>1. Append(recvList[c], Ans(cur[c], 0)) = <<Ans(cur[c], 0)>> BY <1>7, Zenon
    <3> QED BY <1>6, <3>1, AnswersFacts, Zenon
  <2> QED BY <1>c, <1>1, <1>2, <1>3, <1>5, <1>9, <2>1, AnsweredTalk, Zenon
<1>10. ASSUME input' = FALSE, UNCHANGED <<pending, feeding>>,
              sendResponse(Driver, c, dmsg.id, 1), dpc' = "data", dmsg' = dmsg
       PROVE  TalkInv'
  <2>1. /\ recvList'[c] = Append(recvList[c], Ans(cur[c], 1))
        /\ UNCHANGED <<node, refs, devAlive, rmw, closed, driverFds, cpc, cur, cancelId, sendList>>
    <3>1. /\ recvList'[c] = Append(recvList[c], [id |-> dmsg.id, res |-> 1])
          /\ UNCHANGED <<node, refs, devAlive, rmw, closed, driverFds, cpc, cur, cancelId, sendList>>
      BY <1>2, <1>10, Zenon DEF sendResponse, nodeVars, clientVars, BaseInv, Shapes, ListTypes
    <3>2. [id |-> dmsg.id, res |-> 1] = Ans(cur[c], 1) BY <1>2, Zenon DEF Ans
    <3> QED BY <3>1, <3>2, Zenon
  <2>2. Running' BY <1>10, Zenon DEF Running
  <2>3. Queue' /\ \A d : InQueue(d)' <=> InQueue(d) BY <1>10, <2>1, QueueSame, Zenon
  <2>4. Holds(c)' /\ \A d \in Clients \ {c} : ~Holds(d)' BY <1>c, <1>10, Zenon DEF Holds
  <2>5. ClientInv(c)'
    <3>1. recvList'[c] \in Answers(cur[c], "data") BY <1>6, <1>7, <2>1, AnswersFacts, Zenon
    <3>2. Lists(c, "data", k)' BY <1>3, <1>4, <1>5, <2>1, <3>1, RespondedLists, Zenon
    <3>3. InHand(c, "data", k)' BY <1>2, <1>4, <1>10, <2>1, <2>4, Zenon DEF InHand
    <3>4. Legal(c, "data", k) BY <1>1, <1>2, <1>3, <1>6, Zenon DEF At, Legal
    <3>5. ~InQueue(c)' /\ feeding'.chan # c BY <1>3, <1>10, <2>3, Zenon DEF At, InPlace
    <3>6. "data" \in Places BY Zenon DEF Places
    <3> QED BY <1>2, <1>3, <1>4, <2>1, <3>2, <3>3, <3>4, <3>5, <3>6, Moves, Zenon
  <2> QED BY <1>2, <1>8, <1>10, <2>2, <2>3, <2>4, <2>5, ResponseTalk, Zenon
<1>11. ASSUME pending # <<>> \/ ~input, BackToLoop,
              pending' = Append(pending, [chan |-> c, id |-> dmsg.id]),
              UNCHANGED <<nodeVars, listVars, closed, driverFds, clientVars, input, feeding, waiting>>
       PROVE  TalkInv'
  <2>1. UNCHANGED <<node, refs, devAlive, rmw, closed, driverFds, cpc, cur, cancelId, sendList, recvList>>
    BY <1>11, Zenon DEF nodeVars, listVars, clientVars
  <2>2. ~input BY <1>11, Zenon DEF TalkInv, Queue
  <2>3. ~InQueue(c) /\ feeding.chan # c BY <1>3, Zenon DEF At, InPlace
  <2>4. [chan |-> c, id |-> dmsg.id] = [chan |-> c, id |-> cur[c].id] BY <1>2, Zenon
  <2>5. Queue' /\ InQueue(c)' /\ \A d \in Clients \ {c} : InQueue(d)' <=> InQueue(d)
    BY <1>2, <1>11, <2>1, <2>2, <2>3, <2>4, QueueAppend, Zenon
  <2>6. Running' /\ \A d \in Clients : ~Holds(d)' BY <1>11, Looping, Zenon
  <2>7. \A d \in Clients \ {c} : Apart(d) BY <1>8, <1>11, <2>1, <2>5, <2>6, Zenon DEF Apart
  <2>8. ClientInv(c)'
    <3>1. recvList'[c] \in Answers(cur[c], "queue") BY <1>7, <2>1, AnswersFacts, Zenon
    <3>2. Lists(c, "queue", k)' BY <1>3, <1>4, <1>5, <2>1, <3>1, RespondedLists, Zenon
    <3>3. InHand(c, "queue", k)' BY <1>2, <1>4, <2>6, Zenon DEF InHand
    <3>4. Legal(c, "queue", k) BY <1>1, <1>2, <1>3, <1>6, Zenon DEF At, Legal
    <3>5. feeding'.chan # c BY <1>11, <2>3, Zenon
    <3>6. "queue" \in Places BY Zenon DEF Places
    <3> QED BY <1>2, <1>3, <1>4, <2>1, <2>5, <3>2, <3>3, <3>4, <3>5, <3>6, Moves, Zenon
  <2>9. c # Driver BY <1>2, Names, Zenon
  <2> QED BY <1>2, <1>11, <2>1, <2>5, <2>6, <2>7, <2>8, <2>9, DriverTalk, Zenon
<1> QED BY <1>c, <1>9, <1>10, <1>11, Zenon DEF handleRead

-----------------------------------------------------------------------------
(* A new result does not change the rest of the message. *)
LEMMA ResultFacts ==
  ASSUME BaseInv, NEW x, dmsg' = [dmsg EXCEPT !.res = x]
  PROVE  dmsg'.chan = dmsg.chan /\ dmsg'.id = dmsg.id /\ dmsg'.of = dmsg.of /\ dmsg'.res = x
<1>1. dmsg \in Taken BY MsgTypes, Zenon
<1>2. dmsg \in [chan : Clients \cup {Null}, id : Ids, of : Ids, res : -1 .. 2] BY <1>1, Zenon DEF Taken
<1> QED BY ONLY <1>2, dmsg' = [dmsg EXCEPT !.res = x]

(* The driver takes the first message of a channel. *)
LEMMA TakenFacts ==
  ASSUME BaseInv, NEW c \in Clients, TakeFirst(c)
  PROVE  sendList'[c] = Tail(sendList[c]) /\ \A d \in Clients \ {c} : sendList'[d] = sendList[d]
BY Zenon DEF TakeFirst, BaseInv, Shapes, ListTypes

(* The driver takes the data of a write. *)
LEMMA HandleWriteTalk ==
  ASSUME BaseInv, TalkInv, handleWrite
  PROVE  TalkInv'
<1>c. PICK c : c = dmsg.chan BY Zenon
<1>1. /\ dpc = "handle" /\ dmsg.id.op = "WRITE" /\ TakeFirst(c)
      /\ dpc' = "reply" /\ dmsg' = [dmsg EXCEPT !.res = 0]
      /\ UNCHANGED <<node, refs, devAlive, rmw, closed, driverFds, cpc, cur, cancelId, recvList,
                     pending, input, feeding, waiting>>
  BY <1>c, Zenon DEF handleWrite, nodeVars, clientVars
<1>2. /\ c \in Clients /\ Holds(c) /\ Running /\ Driver \notin waiting
      /\ Talking(c) /\ dmsg.id = cur[c].id
      /\ \E k \in {"none", "sent"} : At(c, "handle", k)
  BY <1>c, <1>1, HoldsFacts, Zenon
<1>3. PICK k \in {"none", "sent"} : At(c, "handle", k) BY <1>2, Zenon
<1>4. k # "answered" /\ k \in CancelPlaces /\ k \notin {"handle", "reply"} BY Zenon DEF CancelPlaces
<1>5. dmsg'.chan = dmsg.chan /\ dmsg'.id = dmsg.id /\ dmsg'.res = 0 BY <1>1, ResultFacts, Zenon
<1>6. sendList'[c] = Tail(sendList[c]) /\ \A d \in Clients \ {c} : sendList'[d] = sendList[d]
  BY <1>1, <1>2, TakenFacts, Zenon
<1>7. Holds(c)' /\ \A d \in Clients \ {c} : ~Holds(d) /\ ~Holds(d)'
  BY <1>c, <1>1, <1>5, Zenon DEF Holds
<1>8. Running' BY <1>1, Zenon DEF Running
<1>9. Queue' /\ \A d : InQueue(d)' <=> InQueue(d) BY <1>1, QueueSame, Zenon
<1>10. \A d \in Clients \ {c} : Apart(d) BY <1>1, <1>6, <1>7, <1>9, Zenon DEF Apart
<1>11. ClientInv(c)'
  <2>1. Msgs(cur[c], "handle") = <<Msg(cur[c])>> /\ Msgs(cur[c], "reply") = <<>>
    BY <1>1, <1>2, MsgsFacts, Zenon
  <2>2. sendList'[c] = IF k = "sent" THEN Append(Msgs(cur[c], "reply"), CancelMsg(cur[c], cancelId[c]))
                                     ELSE Msgs(cur[c], "reply")
    <3>1. CASE k = "sent"
      <4> DEFINE m == Msg(cur[c])
                 a == CancelMsg(cur[c], cancelId[c])
      <4>1. sendList[c] = Append(<<m>>, a) BY <1>3, <2>1, <3>1, Zenon DEF At, Lists
      <4> HIDE DEF m, a
      <4>2. sendList[c] = <<m, a>> BY <4>1, Pair, Zenon
      <4>3. Tail(<<m, a>>) = <<a>> BY Ends, Zenon
      <4>4. Append(<<>>, a) = <<a>> BY Ends, Zenon
      <4>5. sendList'[c] = Append(<<>>, a) BY <1>6, <4>2, <4>3, <4>4, Zenon
      <4> QED BY <2>1, <3>1, <4>5, Zenon DEF a
    <3>2. CASE k # "sent"
      <4>1. sendList[c] = <<Msg(cur[c])>> BY <1>3, <2>1, <3>2, Zenon DEF At, Lists
      <4>2. sendList'[c] = <<>> BY <1>6, <4>1, Ends, Zenon
      <4> QED BY <2>1, <3>2, <4>2, Zenon
    <3> QED BY <3>1, <3>2, Zenon
  <2>3. recvList'[c] \in Answers(cur[c], "reply")
    <3>1. "handle" \notin {"data", "feed", "answered"} BY Zenon
    <3>2. recvList[c] = <<>> BY <1>2, <1>3, <1>4, <3>1, RespondedFacts, Zenon
    <3> QED BY <1>1, <3>2, AnswersFacts, Zenon
  <2>4. Lists(c, "reply", k)'
    <3>1. /\ sendList'[c] = IF k = "sent"
                              THEN Append(Msgs(cur'[c], "reply"), CancelMsg(cur'[c], cancelId'[c]))
                              ELSE Msgs(cur'[c], "reply")
          /\ recvList'[c] \in Answers(cur'[c], "reply") /\ k # "answered"
      BY <1>1, <1>4, <2>2, <2>3, Zenon
    <3> QED BY ONLY <3>1, Zenon DEF Lists
  <2>5. InHand(c, "reply", k)' BY <1>1, <1>2, <1>4, <1>5, <1>7, Zenon DEF InHand
  <2>6. Legal(c, "reply", k) BY <1>1, <1>2, <1>3, Zenon DEF At, Legal
  <2>7. ~InQueue(c)' /\ feeding'.chan # c BY <1>1, <1>3, <1>9, Zenon DEF At, InPlace
  <2>8. "reply" \in Places BY Zenon DEF Places
  <2> QED BY <1>1, <1>2, <1>3, <1>4, <2>4, <2>5, <2>6, <2>7, <2>8, Moves, Zenon
<1>12. c # Driver BY <1>2, Names, Zenon
<1> QED BY <1>1, <1>2, <1>8, <1>9, <1>10, <1>11, <1>12, DriverTalk, Zenon

-----------------------------------------------------------------------------
(* The driver takes a request out of its queue, or it is too late. *)
LEMMA HandleCancelTalk ==
  ASSUME NCPU = 1, Library, BaseInv, TalkInv, handleCancel
  PROVE  TalkInv'
<1>c. PICK c : c = dmsg.chan BY Zenon
<1>1. /\ dpc = "handle" /\ dpc' = "reply" /\ dmsg.id.op = "CANCEL" /\ feeding = NoFeed
      /\ UNCHANGED <<node, refs, devAlive, rmw, closed, driverFds, cpc, cur, cancelId, sendList, recvList,
                     input, feeding, waiting>>
  BY HandleCancelParts, Zenon DEF nodeVars, listVars, clientVars
<1>2. /\ c \in Clients /\ Holds(c) /\ Running /\ Driver \notin waiting
      /\ Talking(c) /\ \E o \in Places : At(c, o, "handle")
  <2>1. dmsg.id.op # "CLOSE" BY <1>1, Zenon
  <2>2. Talking(c) => cur[c].id.op # "CANCEL" BY Zenon DEF Talking
  <2> QED BY <1>c, <1>1, <2>1, <2>2, HoldsFacts, Zenon
<1>3. PICK o \in Places : At(c, o, "handle") BY <1>2, Zenon
<1>4. o \in {"queue", "answered"}
  <2>1. o \notin {"sent", "handle", "reply", "data", "gone"} BY <1>3, Zenon DEF At, Legal
  <2>2. feeding.chan # c BY <1>1, <1>2, Names, Nothings, Zenon
  <2>3. o # "feed" BY <1>3, <2>2, Zenon DEF At, InPlace
  <2> QED BY <2>1, <2>3, Zenon DEF Places
<1>5. /\ dmsg.id = [op |-> "CANCEL", rid |-> cancelId[c]] /\ dmsg.of = cur[c].id
      /\ InQueue(c) <=> o = "queue"
  BY <1>3, Zenon DEF At, InHand, InPlace
<1>6. Running' BY <1>1, Zenon DEF Running
<1>7. c # Driver BY <1>2, Names, Zenon
<1>8. ASSUME NEW x, dmsg' = [dmsg EXCEPT !.res = x], NEW o2 \in {"answered", "gone"}, x = CancelRes(o2),
             o2 = "answered" => o = "answered", o2 = "gone" => o = "queue",
             Queue', ~InQueue(c)', \A d \in Clients \ {c} : InQueue(d)' <=> InQueue(d)
      PROVE  TalkInv'
  <2>1. dmsg'.chan = dmsg.chan /\ dmsg'.id = dmsg.id /\ dmsg'.of = dmsg.of /\ dmsg'.res = x
    BY <1>8, ResultFacts, Zenon
  <2>2. Holds(c)' /\ \A d \in Clients \ {c} : ~Holds(d) /\ ~Holds(d)'
    BY <1>c, <1>1, <2>1, Zenon DEF Holds
  <2>3. \A d \in Clients \ {c} : Apart(d) BY <1>1, <1>8, <2>2, Zenon DEF Apart
  <2>4. ClientInv(c)'
    <3>1. Msgs(cur[c], o) = Msgs(cur[c], o2) /\ Answers(cur[c], o) = Answers(cur[c], o2)
      BY <1>8, Zenon DEF Msgs, Answers
    <3>2. sendList[c] = Msgs(cur[c], o) /\ recvList[c] \in Answers(cur[c], o)
      BY <1>3, Zenon DEF At, Lists
    <3>3. sendList'[c] = Msgs(cur'[c], o2) /\ recvList'[c] \in Answers(cur'[c], o2)
      BY <1>1, <3>1, <3>2, Zenon
    <3>4. Lists(c, o2, "reply")' BY ONLY <3>3, Zenon DEF Lists
    <3>5. InHand(c, o2, "reply")' BY <1>1, <1>5, <1>8, <2>1, <2>2, Zenon DEF InHand
    <3>6. Legal(c, o2, "reply") BY <1>3, <1>8, Zenon DEF At, Legal
    <3>7. o2 # "queue" /\ o2 # "feed" /\ feeding'.chan # c BY <1>1, <1>2, <1>8, Names, Nothings, Zenon
    <3>8. o2 \in Places /\ "reply" \in CancelPlaces BY <1>8, Zenon DEF Places, CancelPlaces
    <3> QED BY <1>1, <1>2, <1>3, <1>8, <3>4, <3>5, <3>6, <3>7, <3>8, Moves, Zenon
  <2> QED BY <1>1, <1>2, <1>6, <1>7, <1>8, <2>3, <2>4, DriverTalk, Zenon
<1>9. ASSUME dmsg' = [dmsg EXCEPT !.res = 1], UNCHANGED pending, o # "queue" PROVE TalkInv'
  <2>1. Queue' /\ \A d : InQueue(d)' <=> InQueue(d) BY <1>1, <1>9, QueueSame, Zenon
  <2>2. o = "answered" /\ CancelRes("answered") = 1 BY <1>4, <1>9, Zenon DEF CancelRes
  <2> QED BY <1>5, <1>8, <1>9, <2>1, <2>2, Zenon
<1>10. CASE (dmsg.of.op = "WRITE" \/ input) /\ dmsg' = [dmsg EXCEPT !.res = 1] /\ UNCHANGED pending
  <2>1. CASE dmsg.of.op = "WRITE"
    <3>1. o # "queue" BY <1>3, <1>5, <2>1, Zenon DEF At, Legal
    <3> QED BY <1>9, <1>10, <3>1, Zenon
  <2>2. CASE input
    <3>1. pending = <<>> BY <2>2, Zenon DEF TalkInv, Queue
    <3>2. ~InQueue(c)
      <4>1. Len(<<>>) = 0 BY Ends, Zenon
      <4>2. 1 .. 0 = {} BY ONLY TRUE
      <4> QED BY <3>1, <4>1, <4>2, Zenon DEF InQueue
    <3> QED BY <1>5, <1>9, <1>10, <3>2, Zenon
  <2> QED BY <1>10, <2>1, <2>2, Zenon
<1>11. CASE /\ dmsg' = [dmsg EXCEPT !.res = 1] /\ UNCHANGED pending
            /\ \A i \in 1 .. Len(pending) : pending[i].id # dmsg.of
  <2>1. ~InQueue(c) BY <1>5, <1>11, Zenon DEF InQueue, TalkInv, Queue
  <2> QED BY <1>5, <1>9, <1>11, <2>1, Zenon
<1>12. ASSUME dmsg' = [dmsg EXCEPT !.res = 0], NEW i \in 1 .. Len(pending),
              pending' = RemoveAt(pending, i), pending[i].id = dmsg.of
       PROVE  TalkInv'
  <2>1. pending[i].chan = c
    <3>1. pending[i].chan \in Clients
      <4> DEFINE Q == [chan : Clients, id : Ids]
      <4>1. pending \in Seq(Q) BY PendingTypes, Zenon
      <4> HIDE DEF Q
      <4>2. pending[i] \in Q BY ONLY <4>1, i \in 1 .. Len(pending)
      <4> QED BY <4>2, Zenon DEF Q
    <3>2. cur[pending[i].chan].id = cur[c].id BY <1>5, <1>12, Zenon DEF TalkInv, Queue
    <3>3. cur[c].id.rid # 0 BY <1>2, Zenon DEF Talking
    <3> QED BY <1>2, <3>1, <3>2, <3>3, Zenon DEF TalkInv, Distinct
  <2>2. o = "queue" BY <1>5, <2>1, Zenon DEF InQueue
  <2>3. feeding'.chan = Null BY <1>1, Nothings, Zenon
  <2>4. Queue' /\ ~InQueue(c)' /\ \A d \in Clients \ {c} : InQueue(d)' <=> InQueue(d)
    BY <1>1, <1>12, <2>1, <2>3, QueueRemove, Zenon
  <2>5. CancelRes("gone") = 0 BY Zenon DEF CancelRes
  <2> QED BY <1>8, <1>12, <2>2, <2>4, <2>5, Zenon
<1> QED BY <1>10, <1>11, <1>12, HandleCancelParts, Zenon

-----------------------------------------------------------------------------
(* Input arrives while nobody waits for it. *)
LEMMA InputArrivesTalk ==
  ASSUME BaseInv, TalkInv, inputArrives
  PROVE  TalkInv'
<1>1. /\ dpc \in {"loop", "sleep", "recv", "handle", "reply"} /\ pending = <<>>
      /\ UNCHANGED <<node, refs, devAlive, rmw, closed, driverFds, cpc, cur, cancelId, sendList, recvList,
                     dpc, dmsg, pending, feeding, waiting>>
  BY Zenon DEF inputArrives, nodeVars, listVars, clientVars
<1>2. Running /\ Running' BY <1>1, Zenon DEF Running
<1>3. Queue' BY <1>1, Zenon DEF TalkInv, Queue
<1>4. \A d \in Clients \ {Null} : Apart(d) BY <1>1, Zenon DEF Apart, InQueue, Holds
<1>5. Driver \in waiting' =>
        dpc' = "sleep" /\ \A d \in Clients : isAlive(d) => sendList'[d] = <<>>
  BY <1>1, Zenon DEF TalkInv, Sleepers
<1>6. Null \notin Clients /\ Null # Driver BY Names, Zenon
<1>7. Null \notin waiting' BY <1>1, <1>6, Zenon DEF BaseInv, Shapes, OtherTypes
<1> QED BY <1>1, <1>2, <1>3, <1>4, <1>5, <1>6, <1>7, DriverTalk, Zenon

(* What the driver has in hand stays there. *)
LEMMA HandKept ==
  ASSUME NEW c, NEW o, NEW k, NEW o2, At(c, o, k), o \notin {"handle", "reply", "data"},
         o2 \notin {"handle", "reply", "data"}, k # "reply", UNCHANGED <<dpc, dmsg, cur, cancelId>>
  PROVE  InHand(c, o2, k)'
BY Zenon DEF At, InHand, Holds

(* The input thread answers the request of c, which gets from o to o2.     *)
LEMMA InputTalk ==
  ASSUME BaseInv, TalkInv, NEW c \in Clients, Talking(c), NEW id, id = cur[c].id,
         NEW res, sendResponse(Input, c, id, res),
         NEW o \in {"queue", "feed"}, NEW k \in CancelPlaces, At(c, o, k),
         NEW o2 \in {"feed", "answered"}, Append(recvList[c], Ans(cur[c], res)) \in Answers(cur[c], o2),
         Running, UNCHANGED <<dpc, dmsg>>, Queue', ~InQueue(c)', feeding'.chan = c <=> o2 = "feed",
         \A d \in Clients \ {c} : /\ InQueue(d)' <=> InQueue(d)
                                  /\ feeding'.chan = d <=> feeding.chan = d
  PROVE  TalkInv'
<1>1. /\ recvList'[c] = Append(recvList[c], Ans(cur[c], res))
      /\ UNCHANGED <<node, refs, devAlive, rmw, closed, driverFds, cpc, cur, cancelId, sendList>>
  <2>1. /\ recvList'[c] = Append(recvList[c], [id |-> id, res |-> res])
        /\ UNCHANGED <<node, refs, devAlive, rmw, closed, driverFds, cpc, cur, cancelId, sendList>>
    BY Zenon DEF sendResponse, nodeVars, clientVars, BaseInv, Shapes, ListTypes
  <2>2. [id |-> id, res |-> res] = Ans(cur[c], res) BY Zenon DEF Ans
  <2> QED BY <2>1, <2>2, Zenon
<1>2. k \notin {"reply", "answered"} BY Zenon DEF At, Legal
<1>3. ClientInv(c)'
  <2>1. Msgs(cur[c], o2) = Msgs(cur[c], o)
    <3>1. o \notin {"sent", "handle"} /\ o2 \notin {"sent", "handle"} BY Zenon
    <3> QED BY <3>1, MsgsFacts, Zenon
  <2>2. Lists(c, o2, k)' BY <1>1, <1>2, <2>1, RespondedLists, Zenon
  <2>3. InHand(c, o2, k)' BY <1>1, <1>2, HandKept, Zenon
  <2>4. Legal(c, o2, k) BY <1>2, Zenon DEF At, Legal
  <2>5. o2 # "queue" /\ o2 \in Places /\ o \notin {"sent", "answered"} BY Zenon DEF Places
  <2> QED BY <1>1, <2>2, <2>3, <2>4, <2>5, Moves, Zenon
<1>4. Running' BY Zenon DEF Running
<1>5. \A d \in Clients : Holds(d)' <=> Holds(d) BY Zenon DEF Holds
<1> QED BY <1>3, <1>4, <1>5, ResponseTalk, Zenon

-----------------------------------------------------------------------------
(* Input arrives for the first request in the queue. *)
LEMMA AnswerPendingTalk ==
  ASSUME BaseInv, TalkInv, answerPending
  PROVE  TalkInv'
<1>c. PICK c : c = Head(pending).chan BY Zenon
<1>i. PICK id : id = Head(pending).id BY Zenon
<1>1. /\ feeding = NoFeed /\ pending # <<>> /\ pending' = Tail(pending) /\ UNCHANGED <<dpc, dmsg, input>>
      /\ \/ sendResponse(Input, c, id, 1) /\ feeding' = Head(pending)
         \/ sendResponse(Input, c, id, 0) /\ feeding' = feeding
  BY <1>c, <1>i, Zenon DEF answerPending, mutexFree
<1>2. Running BY <1>1, Zenon DEF TalkInv, Dying
<1>3. pending \in Seq([chan : Clients, id : Ids]) BY PendingTypes, Zenon
<1>4. c \in Clients BY <1>c, <1>1, <1>3, HeadFacts, Zenon
<1>5. 1 \in 1 .. Len(pending) /\ pending[1] = Head(pending) /\ pending' = RemoveAt(pending, 1)
  <2> DEFINE Q == [chan : Clients, id : Ids]
  <2>1. pending \in Seq(Q) BY <1>3, Zenon
  <2> HIDE DEF Q
  <2>2. 1 \in 1 .. Len(pending) /\ pending[1] = Head(pending) /\ Head(pending) \in Q
    BY ONLY <2>1, <1>1
  <2>3. RemoveAt(pending, 1) = Tail(pending) BY <1>1, <2>1, <2>2, RemoveEnds, Zenon
  <2> QED BY <1>1, <2>2, <2>3, Zenon
<1>6. InQueue(c) /\ id = cur[c].id BY <1>c, <1>i, <1>5, Zenon DEF InQueue, TalkInv, Queue
<1>7. Talking(c)
  BY <1>2, <1>4, <1>6, Zenon
  DEF TalkInv, InTouch, ClientInv, Absent, Open, Sending, Closing, Failed, Silent
<1>8. PICK o \in Places, k \in CancelPlaces : At(c, o, k) BY <1>7, Zenon DEF Talking
<1>9. At(c, "queue", k) BY <1>6, <1>8, Zenon DEF At, InPlace
<1>10. /\ cur[c].part # 2 /\ cur[c].part = 1 /\ k # "answered"
       /\ \A x : Append(recvList[c], Ans(cur[c], x)) = <<Ans(cur[c], x)>>
  <2>1. cur[c].part # 2 /\ k # "answered" BY <1>9, Zenon DEF At, Legal
  <2>2. "queue" \notin {"data", "feed", "answered"} BY Zenon
  <2> QED BY <1>4, <1>9, <2>1, <2>2, PartFacts, RespondedFacts, Zenon
<1>11. feeding.chan = Null /\ Null \notin Clients BY <1>1, Names, Nothings, Zenon
<1>12. UNCHANGED cur BY <1>1, Zenon DEF sendResponse, clientVars
<1>13. ASSUME feeding'.chan # Null => feeding'.id = cur[feeding'.chan].id
       PROVE  Queue' /\ ~InQueue(c)' /\ \A d \in Clients \ {c} : InQueue(d)' <=> InQueue(d)
  BY <1>c, <1>1, <1>5, <1>12, <1>13, QueueRemove, Zenon
<1>14. CASE sendResponse(Input, c, id, 1) /\ feeding' = Head(pending)
  <2>1. feeding'.chan = c /\ feeding'.id = cur[c].id BY <1>c, <1>i, <1>6, <1>14, Zenon
  <2>2. Queue' /\ ~InQueue(c)' /\ \A d \in Clients \ {c} : InQueue(d)' <=> InQueue(d)
    BY <1>13, <2>1, Zenon
  <2>3. Append(recvList[c], Ans(cur[c], 1)) \in Answers(cur[c], "feed")
    <3>1. Append(recvList[c], Ans(cur[c], 1)) = <<Ans(cur[c], 1)>> BY <1>10, Zenon
    <3> QED BY <1>10, <3>1, AnswersFacts, Zenon
  <2>4. \A d \in Clients \ {c} : feeding'.chan = d <=> feeding.chan = d BY <1>11, <2>1, Zenon
  <2> QED BY <1>1, <1>2, <1>4, <1>6, <1>7, <1>9, <1>14, <2>1, <2>2, <2>3, <2>4, InputTalk, Zenon
<1>15. CASE sendResponse(Input, c, id, 0) /\ feeding' = feeding
  <2>1. feeding'.chan = Null BY <1>11, <1>15, Zenon
  <2>2. Queue' /\ ~InQueue(c)' /\ \A d \in Clients \ {c} : InQueue(d)' <=> InQueue(d)
    BY <1>13, <2>1, Zenon
  <2>3. Append(recvList[c], Ans(cur[c], 0)) \in Answers(cur[c], "answered")
    <3>1. Append(recvList[c], Ans(cur[c], 0)) = <<Ans(cur[c], 0)>> BY <1>10, Zenon
    <3> QED BY <1>10, <3>1, AnswersFacts, Zenon
  <2>4. feeding'.chan # c BY <1>4, <1>11, <2>1, Zenon
  <2> QED BY <1>1, <1>2, <1>4, <1>6, <1>7, <1>9, <1>15, <2>2, <2>3, <2>4, InputTalk, Zenon
<1> QED BY <1>1, <1>14, <1>15, Zenon

(* The input thread sends the data. *)
LEMMA FeedDataTalk ==
  ASSUME BaseInv, TalkInv, feedData
  PROVE  TalkInv'
<1>c. PICK c : c = feeding.chan BY Zenon
<1>i. PICK id : id = feeding.id BY Zenon
<1>1. /\ feeding # NoFeed /\ feeding' = NoFeed /\ UNCHANGED <<dpc, dmsg, pending, input>>
      /\ sendResponse(Input, c, id, 2)
  BY <1>c, <1>i, Zenon DEF feedData, mutexFree
<1>2. Running BY <1>1, Zenon DEF TalkInv, Dying
<1>3. c # Null BY <1>c, <1>1, Zenon DEF BaseInv, Hands
<1>4. c \in Clients
  <2>1. feeding \in [chan : Clients \cup {Null}, id : Ids] BY PendingTypes, Zenon
  <2>2. feeding.chan \in Clients \cup {Null} BY <2>1, Zenon
  <2> QED BY <1>c, <1>3, <2>2, Zenon
<1>5. id = cur[c].id BY <1>c, <1>i, <1>3, Zenon DEF TalkInv, Queue
<1>6. Talking(c)
  BY <1>c, <1>2, <1>4, Zenon
  DEF TalkInv, InTouch, ClientInv, Absent, Open, Sending, Closing, Failed, Silent
<1>7. PICK o \in Places, k \in CancelPlaces : At(c, o, k) BY <1>6, Zenon DEF Talking
<1>8. At(c, "feed", k) /\ ~InQueue(c) BY <1>c, <1>7, Zenon DEF At, InPlace
<1>9. k # "answered" /\ "feed" \in {"data", "feed"} BY <1>8, Zenon DEF At, Legal
<1>10. Append(recvList[c], Ans(cur[c], 2)) \in Answers(cur[c], "answered")
  BY <1>4, <1>8, <1>9, RespondedFacts, Zenon
<1>11. UNCHANGED cur BY <1>1, Zenon DEF sendResponse, clientVars
<1>12. NoFeed.chan = Null /\ Null \notin Clients BY Names, Nothings, Zenon
<1>13. Queue' /\ \A d : InQueue(d)' <=> InQueue(d)
  <2>1. feeding'.chan = Null BY <1>1, <1>12, Zenon
  <2> QED BY <1>1, <1>11, <2>1, Zenon DEF TalkInv, Queue, InQueue
<1>14. feeding'.chan # c /\ \A d \in Clients \ {c} : feeding'.chan # d /\ feeding.chan # d
  BY <1>c, <1>1, <1>4, <1>12, Zenon
<1> QED BY <1>1, <1>2, <1>4, <1>5, <1>6, <1>8, <1>10, <1>13, <1>14, InputTalk, Zenon

-----------------------------------------------------------------------------
(* If no message is counted, there is none. *)
LEMMA NothingSent ==
  ASSUME Library, BaseInv, msgCount = 0, NEW d \in Clients
  PROVE  sendList[d] = <<>>
<1>1. Unreceived = {} BY Zenon DEF Library, Counts, BaseInv, Counted
<1>2. sendList[d] \in Seq(Requests) BY Zenon DEF BaseInv, Shapes, ListTypes
<1>3. ASSUME NEW i \in DOMAIN sendList[d] PROVE FALSE
  <2>1. <<d, i>> \in {d} \X DOMAIN sendList[d] BY <1>3, Zenon
  <2>2. <<d, i>> \in Unreceived BY <2>1, Zenon DEF Unreceived
  <2> QED BY <1>1, <2>2, Zenon
<1>4. DOMAIN sendList[d] = {} BY <1>3, Zenon
<1>5. ASSUME NEW S, NEW s \in Seq(S), DOMAIN s = {} PROVE s = <<>>
  <2>1. DOMAIN s = 1 .. Len(s) /\ Len(s) \in Nat BY ONLY s \in Seq(S)
  <2>2. Len(s) = 0 BY ONLY <1>5, <2>1
  <2> QED BY ONLY <2>2, s \in Seq(S)
<1> QED BY <1>2, <1>4, <1>5, Zenon

(* Getwork finds a message if there is one, or sleeps. *)
LEMMA GetworkTalk ==
  ASSUME NCPU = 1, Library, BaseInv, TalkInv, getwork
  PROVE  TalkInv'
<1>1. /\ dpc \in {"loop", "sleep"} /\ (dpc = "sleep" => Driver \notin waiting)
      /\ \/ dpc' = "recv" /\ UNCHANGED waiting
         \/ /\ getWork.chan = Null /\ dpc' = "sleep" /\ waiting' = waiting \cup {Driver}
            /\ UNCHANGED dmsg
      /\ UNCHANGED <<node, refs, devAlive, rmw, closed, driverFds, cpc, cur, cancelId, sendList, recvList,
                     pending, input, feeding>>
  BY Zenon DEF getwork, nodeVars, listVars, clientVars
<1>2. Running /\ Running' BY <1>1, Zenon DEF Running
<1>3. Queue' /\ \A d : InQueue(d)' <=> InQueue(d) BY <1>1, QueueSame, Zenon
<1>4. Driver \notin waiting BY <1>1, Zenon DEF TalkInv, Sleepers
<1>5. \A d \in Clients : ~Holds(d) /\ ~Holds(d)'
  <2>1. dmsg = NoMsg BY <1>1, Zenon DEF BaseInv, Hands
  <2>2. dmsg.chan \notin Clients BY <2>1, Names, Nothings, Zenon
  <2> QED BY <1>1, <2>2, Zenon DEF Holds
<1>6. \A d \in Clients \ {Null} : Apart(d) BY <1>1, <1>3, <1>5, Zenon DEF Apart
<1>7. ASSUME Driver \in waiting'
      PROVE  dpc' = "sleep" /\ \A d \in Clients : isAlive(d) => sendList'[d] = <<>>
  <2>1. getWork.chan = Null /\ dpc' = "sleep" BY <1>1, <1>4, <1>7, Zenon
  <2>2. devAlive BY <1>1, Zenon DEF TalkInv, DeviceNamed
  <2>3. /\ children \in Seq(Clients) /\ lastClient \in Clients \cup {Null}
        /\ \A d \in Clients : isAlive(d) => Contains(children, d)
    BY Zenon DEF BaseInv, Shapes, NodeTypes, OtherTypes, Children
  <2>4. Null \notin Clients BY Names, Zenon
  <2>5. msgCount # 0 => \A i \in 1 .. Len(children) : sendList[children[i]] = <<>>
    BY <2>1, <2>2, <2>3, <2>4, GetWorkFacts, Zenon
  <2>6. CASE msgCount = 0 BY <1>1, <2>1, <2>6, NothingSent, Zenon
  <2>7. CASE msgCount # 0
    <3>1. \A d \in Clients : isAlive(d) => sendList[d] = <<>>
      BY <2>3, <2>5, <2>7, Zenon DEF Contains
    <3> QED BY <1>1, <2>1, <3>1, Zenon
  <2> QED BY <2>6, <2>7, Zenon
<1>8. \A d \in Clients : d \in waiting' => d \in waiting BY <1>1, Names, Zenon
<1>9. Null \notin Clients /\ Null # Driver BY Names, Zenon
<1>10. Null \notin waiting' BY <1>1, <1>9, Zenon DEF BaseInv, Shapes, OtherTypes
<1> QED BY <1>1, <1>2, <1>3, <1>6, <1>7, <1>8, <1>9, <1>10, DriverTalk, Zenon

-----------------------------------------------------------------------------
(* The first message of a channel, and the messages behind it. *)
LEMMA FirstFacts ==
  ASSUME BaseInv, NEW c \in Clients, NEW k \in {"none", "sent"}, At(c, "sent", k)
  PROVE  /\ Head(sendList[c]) = Msg(cur[c])
         /\ Tail(sendList[c]) = IF k = "sent"
                                  THEN Append(Msgs(cur[c], "handle"), CancelMsg(cur[c], cancelId[c]))
                                  ELSE Msgs(cur[c], "handle")
<1> DEFINE m == Msg(cur[c])
           a == CancelMsg(cur[c], cancelId[c])
           s == Msgs(cur[c], "sent")
           t == Msgs(cur[c], "handle")
<1>1. \/ s = <<m>> /\ t = <<>>
      \/ s = <<m, m>> /\ t = <<m>>
  BY MsgsFacts, Zenon
<1>2. sendList[c] = IF k = "sent" THEN Append(s, a) ELSE s BY Zenon DEF At, Lists
<1> HIDE DEF m, a, s, t
<1>3. s # <<>> /\ Head(s) = m /\ Tail(s) = t
  <2>1. /\ <<m>> # <<>> /\ Head(<<m>>) = m /\ Tail(<<m>>) = <<>>
        /\ <<m, m>> # <<>> /\ Head(<<m, m>>) = m /\ Tail(<<m, m>>) = <<m>>
    BY Ends, Zenon
  <2> QED BY <1>1, <2>1, Zenon
<1>4. s \in Seq({m, a}) /\ a \in {m, a}
  <2>1. <<m>> \in Seq({m, a}) /\ <<m, m>> \in Seq({m, a}) BY ONLY TRUE
  <2> QED BY <1>1, <2>1, Zenon
<1>5. Head(Append(s, a)) = m /\ Tail(Append(s, a)) = Append(t, a)
  <2>1. Head(Append(s, a)) = Head(s) /\ Tail(Append(s, a)) = Append(Tail(s), a)
    BY <1>3, <1>4, LastFacts, Zenon
  <2> QED BY <1>3, <2>1, Zenon
<1>6. Head(sendList[c]) = m /\ Tail(sendList[c]) = IF k = "sent" THEN Append(t, a) ELSE t
  BY <1>2, <1>3, <1>5, Zenon
<1> QED BY <1>6, Zenon DEF m, a, t

(* The driver receives the message that getwork has found. *)
LEMMA DrvReceiveTalk ==
  ASSUME NCPU = 1, Library, BaseInv, TalkInv, drvReceive
  PROVE  TalkInv'
<1>c. PICK c : c = dmsg.chan BY Zenon
<1>h. PICK h : h = Head(sendList[c]) BY Zenon
<1>1. /\ MayRun(Driver) /\ dpc = "recv" /\ TakeFirst(c) /\ sendList[c] # <<>> /\ dpc' = "handle"
      /\ dmsg' = [dmsg EXCEPT !.id = h.id, !.of = h.of]
      /\ UNCHANGED <<node, refs, devAlive, rmw, closed, driverFds, cpc, cur, cancelId, recvList,
                     pending, input, feeding, waiting>>
  BY <1>c, <1>h, Zenon DEF drvReceive, TakeFirst, nodeVars, clientVars
<1>2. c \in Clients BY <1>c, <1>1, MsgTypes, Zenon
<1>3. dmsg'.chan = c /\ dmsg'.id = h.id /\ dmsg'.of = h.of
  <2>1. dmsg \in [chan : Clients \cup {Null}, id : Ids, of : Ids, res : -1 .. 2]
    BY MsgTypes, Zenon DEF Taken
  <2>2. dmsg' = [dmsg EXCEPT !.id = h.id, !.of = h.of] BY <1>1, Zenon
  <2>3. dmsg'.chan = dmsg.chan /\ dmsg'.id = h.id /\ dmsg'.of = h.of BY ONLY <2>1, <2>2
  <2> QED BY <1>c, <2>3, Zenon
<1>4. sendList'[c] = Tail(sendList[c]) /\ \A d \in Clients \ {c} : sendList'[d] = sendList[d]
  BY <1>1, <1>2, TakenFacts, Zenon
<1>5. Running /\ Running' /\ Driver \notin waiting
  BY <1>1, Zenon DEF Running, TalkInv, Sleepers
<1>6. Queue' /\ \A d : InQueue(d)' <=> InQueue(d) BY <1>1, QueueSame, Zenon
<1>7. /\ Holds(c)' /\ \A d \in Clients : ~Holds(d)
      /\ \A d \in Clients \ {c} : ~Holds(d)'
  BY <1>1, <1>3, Zenon DEF Holds
<1>8. \A d \in Clients \ {c} : Apart(d) BY <1>1, <1>4, <1>6, <1>7, Zenon DEF Apart
<1>9. cpc[c] \in UserPCs /\ c # Driver
  <2>1. c # Driver BY <1>2, Names, Zenon
  <2> QED BY <1>1, <1>2, <2>1, Alone, Zenon DEF BaseInv, Shapes
<1>10. Talking(c) \/ Closing(c)
  BY <1>1, <1>2, <1>5, Zenon
  DEF TalkInv, InTouch, ClientInv, Absent, Open, Sending, Failed, Silent
<1>11. ASSUME Talking(c) PROVE ClientInv(c)'
  <2>1. PICK o \in Places, k \in CancelPlaces : At(c, o, k) BY <1>11, Zenon DEF Talking
  <2>2. cpc[c] = "sleep" BY <1>9, <1>11, Zenon DEF Talking, UserPCs
  <2>3. o \notin {"handle", "reply", "data"} /\ k \notin {"handle", "reply"}
    BY <1>2, <1>7, <2>1, Zenon DEF At, InHand
  <2>4. (InQueue(c)' <=> o = "queue") /\ (feeding'.chan = c <=> o = "feed")
    BY <1>1, <1>6, <2>1, Zenon DEF At, InPlace
  <2>5. CASE o = "sent"
    <3>1. k \in {"none", "sent"} /\ cur[c].part # 2 BY <2>1, <2>5, Zenon DEF At, Legal
    <3>2. At(c, "sent", k) BY <2>1, <2>5, Zenon
    <3>3. /\ Head(sendList[c]) = Msg(cur[c])
          /\ Tail(sendList[c]) = IF k = "sent"
                                   THEN Append(Msgs(cur[c], "handle"), CancelMsg(cur[c], cancelId[c]))
                                   ELSE Msgs(cur[c], "handle")
      BY <1>2, <3>1, <3>2, FirstFacts, Zenon
    <3>4. k # "answered" /\ "sent" \notin {"data", "feed", "answered"} BY <3>1, Zenon
    <3>5. recvList[c] = <<>> BY <1>2, <3>2, <3>4, RespondedFacts, Zenon
    <3>6. recvList[c] \in Answers(cur[c], "handle") BY <3>5, AnswersFacts, Zenon
    <3>7. /\ sendList'[c] = IF k = "sent"
                              THEN Append(Msgs(cur'[c], "handle"), CancelMsg(cur'[c], cancelId'[c]))
                              ELSE Msgs(cur'[c], "handle")
          /\ recvList'[c] \in Answers(cur'[c], "handle") /\ k # "answered"
      BY <1>1, <1>4, <3>3, <3>4, <3>6, Zenon
    <3>8. Lists(c, "handle", k)' BY ONLY <3>7, Zenon DEF Lists
    <3>9. dmsg'.id = cur[c].id
      <4>1. Msg(cur[c]).id = cur[c].id BY Zenon DEF Msg
      <4> QED BY <1>h, <1>3, <3>3, <4>1, Zenon
    <3>10. InHand(c, "handle", k)' BY <1>1, <1>7, <2>3, <3>9, Zenon DEF InHand
    <3>11. Legal(c, "handle", k) BY <3>1, Zenon DEF Legal
    <3>12. "handle" \in Places /\ o # "queue" /\ o # "feed" BY <2>5, Zenon DEF Places
    <3> QED BY <1>1, <1>11, <2>1, <2>2, <2>4, <2>5, <3>8, <3>10, <3>11, <3>12, Moves, Zenon
  <2>6. CASE o # "sent"
    <3>1. Msgs(cur[c], o) = <<>> BY <2>3, <2>6, MsgsFacts, Zenon
    <3>2. k = "sent" BY <1>1, <2>1, <3>1, Zenon DEF At, Lists
    <3>3. cur[c].part # 2 /\ o # "gone" BY <2>1, <3>2, Zenon DEF At, Legal
    <3>4. sendList[c] = <<CancelMsg(cur[c], cancelId[c])>>
      <4>1. sendList[c] = Append(<<>>, CancelMsg(cur[c], cancelId[c]))
        BY <2>1, <3>1, <3>2, Zenon DEF At, Lists
      <4> QED BY <4>1, Ends, Zenon
    <3>5. sendList'[c] = <<>> /\ h = CancelMsg(cur[c], cancelId[c]) BY <1>h, <1>4, <3>4, Ends, Zenon
    <3>6. /\ dmsg'.id = [op |-> "CANCEL", rid |-> cancelId[c]] /\ dmsg'.of = cur[c].id
      <4>1. /\ CancelMsg(cur[c], cancelId[c]).id = [op |-> "CANCEL", rid |-> cancelId[c]]
            /\ CancelMsg(cur[c], cancelId[c]).of = cur[c].id
        BY Zenon DEF CancelMsg
      <4> QED BY <1>3, <3>5, <4>1, Zenon
    <3>7. recvList[c] \in Answers(cur[c], o) BY <2>1, <3>2, Zenon DEF At, Lists
    <3>8. sendList'[c] = Msgs(cur'[c], o) /\ recvList'[c] \in Answers(cur'[c], o)
      BY <1>1, <3>1, <3>5, <3>7, Zenon
    <3>9. Lists(c, o, "handle")' BY ONLY <3>8, Zenon DEF Lists
    <3>10. InHand(c, o, "handle")' BY <1>1, <1>7, <2>3, <3>6, Zenon DEF InHand
    <3>11. Legal(c, o, "handle") BY <2>1, <2>3, <2>6, <3>3, Zenon DEF At, Legal
    <3>12. "handle" \in CancelPlaces BY Zenon DEF CancelPlaces
    <3> QED BY <1>1, <1>11, <2>1, <2>4, <3>2, <3>9, <3>10, <3>11, <3>12, Moves, Zenon
  <2> QED BY <2>5, <2>6, Zenon
<1>12. ASSUME Closing(c) PROVE ClientInv(c)'
  <2>1. PICK m \in Requests : sendList[c] = <<m>> /\ m.id.op = "CLOSE"
    BY <1>1, <1>12, Zenon DEF Closing
  <2>2. sendList'[c] = <<>> /\ h = m BY <1>h, <1>4, <2>1, Ends, Zenon
  <2>3. HasFile(c, 1)' BY <1>1, <1>12, Zenon DEF Closing, HasFile, isAlive
  <2>4. dmsg'.id.op = "CLOSE" BY <1>3, <2>1, <2>2, Zenon
  <2>5. Closing(c)' BY <1>1, <1>6, <1>7, <1>12, <2>2, <2>3, <2>4, Zenon DEF Closing
  <2> QED BY <2>5, Zenon DEF ClientInv
<1> QED BY <1>1, <1>2, <1>5, <1>6, <1>8, <1>9, <1>10, <1>11, <1>12, DriverTalk, Zenon

-----------------------------------------------------------------------------
(* The driver closes its file, which is the last. *)
LEMMA HandleCloseTalk ==
  ASSUME NCPU = 1, Library, BaseInv, TalkInv, handleClose
  PROVE  TalkInv'
<1>c. PICK c : c = dmsg.chan BY Zenon
<1>1. /\ MayRun(Driver) /\ dpc = "handle" /\ dmsg.id.op = "CLOSE" /\ driverFds' = driverFds \ {c}
      /\ IF isAlive(c) THEN doUnref(c, TRUE, Driver) ELSE doUnref(c, FALSE, Driver)
      /\ BackToLoop
      /\ UNCHANGED <<sendList, recvList, closed, cpc, cur, cancelId, pending, input, feeding>>
  BY <1>c, Zenon DEF handleClose, destroy, unref, listVars, clientVars
<1>2. c \in Clients /\ Holds(c) /\ Running /\ Driver \notin waiting /\ Closing(c) /\ sendList[c] = <<>>
  <2>1. Talking(c) => dmsg.id # cur[c].id BY <1>1, Zenon DEF Talking
  <2>2. dmsg.id.op # "CANCEL" BY <1>1, Zenon
  <2> QED BY <1>c, <1>1, <2>1, <2>2, HoldsFacts, Zenon
<1>3. isAlive(c) /\ refs[c] = 1 BY <1>2, Zenon DEF Closing, HasFile
<1>4. cpc[c] = "out" /\ rmw = NoRmw
  <2>1. c # Driver BY <1>2, Names, Zenon
  <2>2. cpc[c] \in UserPCs /\ rmw = NoRmw BY <1>1, <1>2, <2>1, Alone, Zenon DEF BaseInv, Shapes
  <2> QED BY <1>2, <2>2, Zenon DEF Closing, UserPCs
<1>5. doUnref(c, TRUE, Driver) BY <1>1, <1>3, Zenon
<1>6. NodeTypes /\ TRUE \in BOOLEAN BY Zenon DEF BaseInv, Shapes
<1>7. /\ waiting' \subseteq waiting /\ c \notin waiting'
      /\ \A d \in Clients \ {c} : node'[d] = node[d] /\ refs'[d] = refs[d]
      /\ refs'[c] = 0 /\ node'[c] = node[c] /\ rmw'.chan = c
  BY <1>2, <1>3, <1>5, <1>6, UnrefSteps, Zenon
<1>8. UNCHANGED devAlive BY <1>5, Zenon DEF doUnref
<1>9. Running' /\ \A d \in Clients : ~Holds(d)' BY <1>1, Looping, Zenon
<1>10. Queue' /\ \A d : InQueue(d)' <=> InQueue(d) BY <1>1, QueueSame, Zenon
<1>11. \A d \in Clients \ {c} : Same(d)
  <2> SUFFICES ASSUME NEW d \in Clients \ {c} PROVE Same(d) BY Zenon
  <2>1. ~Holds(d) /\ ~Holds(d)' BY <1>c, <1>9, Zenon DEF Holds
  <2>2. rmw'.chan # d /\ rmw.chan # d BY <1>4, <1>7, Names, Nothings, Zenon
  <2> QED BY <1>1, <1>7, <1>10, <2>1, <2>2, Zenon DEF Same
<1>12. ClientInv(c)'
  <2>1. Silent(c)' BY <1>1, <1>2, <1>9, <1>10, Zenon DEF Closing, Silent
  <2>2. node'[c] # "none" BY <1>3, <1>7, Zenon DEF isAlive
  <2>3. Absent(c)' BY <1>1, <1>2, <1>4, <1>7, <2>1, <2>2, Zenon DEF Closing, Absent
  <2> QED BY <2>3, Zenon DEF ClientInv
<1>13. DeviceNamed' BY <1>1, <1>8, Zenon DEF TalkInv, DeviceNamed, BackToLoop
<1>14. Distinct' BY <1>1, Zenon DEF TalkInv, Distinct
<1>15. Dying' BY <1>1, <1>9, Zenon DEF Dying, BackToLoop
<1>16. Driver \notin waiting' BY <1>2, <1>7, Zenon
<1> QED BY <1>2, <1>7, <1>9, <1>10, <1>11, <1>12, <1>13, <1>14, <1>15, <1>16, StepTalk, Zenon

-----------------------------------------------------------------------------
(* An empty sequence has no positions. *)
LEMMA Empty ==
  ASSUME NEW s, s = <<>>
  PROVE  1 .. Len(s) = {}
<1>1. Len(<<>>) = 0 BY Ends, Zenon
<1>2. 1 .. 0 = {} BY ONLY TRUE
<1> QED BY <1>1, <1>2, Zenon

(* A step while the driver dies. *)
LEMMA DeadTalk ==
  ASSUME TalkInv, ~Running', pending' = <<>>, feeding' = NoFeed, UNCHANGED <<cpc, cur, cancelId>>,
         DeviceNamed', Driver \notin waiting',
         dpc' \in {"wakeup", "destroy"} =>
           \A d \in Clients : cpc[d] = "idle" => sendList'[d] = <<>> /\ recvList'[d] = <<>>,
         \A d \in waiting' \cap Clients : /\ d \in waiting /\ recvList'[d] = recvList[d]
                                          /\ isAlive(d)' /\ dpc' = "wakeup"
  PROVE  TalkInv'
<1>1. Queue'
  <2>1. 1 .. Len(pending') = {} BY Empty, Zenon
  <2>2. feeding'.chan = Null BY Nothings, Zenon
  <2> QED BY <2>1, <2>2, Zenon DEF Queue
<1>2. Distinct' BY Zenon DEF TalkInv, Distinct
<1>3. InTouch' BY Zenon DEF InTouch
<1>4. Dying' BY Zenon DEF Dying
<1>5. Sleepers'
  <2> SUFFICES ASSUME NEW d \in Clients, d \in waiting'
               PROVE  cpc'[d] = "sleep" /\ Nothing(d)'
    BY Zenon DEF Sleepers
  <2>1. d \in waiting /\ recvList'[d] = recvList[d] BY Zenon
  <2>2. cpc[d] = "sleep" /\ Nothing(d) BY <2>1, Zenon DEF TalkInv, Sleepers
  <2>3. Expected(d)' = Expected(d) BY Zenon DEF Expected
  <2> QED BY <2>1, <2>2, <2>3, Zenon DEF Nothing, Matches
<1> QED BY <1>1, <1>2, <1>3, <1>4, <1>5, Zenon DEF TalkInv

(* The driver drops everything that it has in hand. *)
LEMMA DieTalk ==
  ASSUME BaseInv, TalkInv, die
  PROVE  TalkInv'
<1>1. /\ dpc \in {"loop", "sleep", "handle", "data", "reply"} /\ dpc' = "wakeup"
      /\ pending' = <<>> /\ feeding' = NoFeed /\ waiting' = waiting \ {Driver}
      /\ UNCHANGED <<node, devAlive, sendList, recvList, cpc, cur, cancelId>>
  BY Zenon DEF die, nodeVars, listVars, clientVars
<1>2. Running /\ ~Running' BY <1>1, Zenon DEF Running
<1>3. DeviceNamed' BY <1>1, Zenon DEF TalkInv, DeviceNamed, isAlive
<1>4. \A d \in Clients : cpc[d] = "idle" => sendList[d] = <<>> /\ recvList[d] = <<>>
  BY <1>2, AtPC, Zenon DEF TalkInv, InTouch, Open, Silent
<1>5. \A d \in waiting' \cap Clients : isAlive(d)' /\ d \in waiting
  BY <1>1, Zenon DEF TalkInv, Sleepers, isAlive
<1> QED BY <1>1, <1>2, <1>3, <1>4, <1>5, DeadTalk, Zenon

(* The dying driver wakes up all clients. *)
LEMMA WakeupClientsTalk ==
  ASSUME BaseInv, TalkInv, wakeupClients
  PROVE  TalkInv'
<1>1. /\ dpc = "wakeup" /\ dpc' = "destroy" /\ waiting' = waiting \ ToSet(children)
      /\ UNCHANGED <<node, devAlive, sendList, recvList, cpc, cur, cancelId, pending, feeding>>
  BY Zenon DEF wakeupClients, nodeVars, listVars, clientVars
<1>2. ~Running /\ ~Running' BY <1>1, Zenon DEF Running
<1>3. DeviceNamed' BY <1>1, Zenon DEF TalkInv, DeviceNamed, isAlive
<1>4. Driver \notin waiting' BY <1>1, Zenon DEF TalkInv, Sleepers
<1>5. ASSUME NEW d \in waiting' \cap Clients PROVE FALSE
  <2>1. d \in waiting /\ d \notin ToSet(children) /\ isAlive(d) BY <1>1, <1>5, Zenon DEF TalkInv, Sleepers
  <2>2. Contains(children, d) BY <1>5, <2>1, Zenon DEF BaseInv, Children
  <2>3. children \in Seq(Clients) BY Zenon DEF BaseInv, Shapes, NodeTypes
  <2>4. DOMAIN children = 1 .. Len(children) BY ONLY <2>3
  <2> QED BY <2>1, <2>2, <2>4, Zenon DEF Contains, ToSet
<1>6. /\ pending = <<>> /\ feeding = NoFeed
      /\ \A d \in Clients : cpc[d] = "idle" => sendList[d] = <<>> /\ recvList[d] = <<>>
  BY <1>1, <1>2, Zenon DEF TalkInv, Dying
<1> QED BY <1>1, <1>2, <1>3, <1>4, <1>5, <1>6, DeadTalk, Zenon

(* The driver that has woken up the clients goes on dying. *)
LEMMA DeadStep ==
  ASSUME BaseInv, TalkInv, dpc \in {"destroy", "closefds"}, dpc' \in {"destroy", "closefds", "dead"},
         dpc = "closefds" => dpc' # "destroy",
         waiting' \subseteq waiting, UNCHANGED <<sendList, recvList, cpc, cur, cancelId, pending, feeding>>,
         DeviceNamed'
  PROVE  TalkInv'
<1>1. ~Running /\ ~Running' BY Zenon DEF Running
<1>2. waiting \cap Clients = {} /\ Driver \notin waiting BY <1>1, Zenon DEF TalkInv, Sleepers
<1>3. /\ pending = <<>> /\ feeding = NoFeed
      /\ dpc = "destroy" => \A d \in Clients : cpc[d] = "idle" => sendList[d] = <<>> /\ recvList[d] = <<>>
  BY <1>1, Zenon DEF TalkInv, Dying
<1> QED BY <1>1, <1>2, <1>3, DeadTalk, Zenon

(* The device and the names of its channels are gone. *)
LEMMA DestroyDeviceTalk ==
  ASSUME BaseInv, TalkInv, destroyDevice
  PROVE  TalkInv'
<1>1. /\ dpc = "destroy"
      /\ UNCHANGED <<sendList, recvList, cpc, cur, cancelId, pending, feeding>>
  BY Zenon DEF destroyDevice, listVars, clientVars
<1>2. CASE children # <<>> /\ destroy(Head(children), Driver) /\ UNCHANGED dpc
  <2>1. UNCHANGED devAlive /\ waiting' \subseteq waiting BY <1>2, Zenon DEF destroy, doUnref
  <2>2. DeviceNamed' BY <1>1, <1>2, <2>1, Zenon DEF TalkInv, DeviceNamed
  <2> QED BY <1>1, <1>2, <2>1, <2>2, DeadStep, Zenon
<1>3. CASE children = <<>> /\ devAlive' = FALSE /\ dpc' = "closefds" /\ UNCHANGED <<node, waiting>>
  <2>1. \A d : ~Contains(children, d)
    <3>1. 1 .. Len(children) = {} BY <1>3, Empty, Zenon
    <3> QED BY <3>1, Zenon DEF Contains
  <2>2. \A d \in Clients : ~isAlive(d) BY <2>1, Zenon DEF BaseInv, Children
  <2>3. DeviceNamed' BY <1>3, <2>2, Zenon DEF DeviceNamed, isAlive
  <2> QED BY <1>1, <1>3, <2>3, DeadStep, Zenon
<1> QED BY <1>2, <1>3, Zenon DEF destroyDevice

(* The dead driver closes its files of channels. *)
LEMMA CloseFilesTalk ==
  ASSUME BaseInv, TalkInv, closeFiles
  PROVE  TalkInv'
<1>1. /\ dpc = "closefds" /\ dpc' \in {"closefds", "dead"}
      /\ UNCHANGED <<sendList, recvList, cpc, cur, cancelId, pending, feeding>>
  BY Zenon DEF closeFiles, listVars, clientVars
<1>2. UNCHANGED <<node, devAlive>> /\ waiting' \subseteq waiting
  BY Zenon DEF closeFiles, unref, doUnref, nodeVars
<1>3. DeviceNamed' BY <1>1, <1>2, Zenon DEF TalkInv, DeviceNamed, isAlive
<1> QED BY <1>1, <1>2, <1>3, DeadStep, Zenon

-----------------------------------------------------------------------------
(* The messages of a freed channel are thrown away. *)
LEMMA InvalidateTalk ==
  ASSUME BaseInv, TalkInv, invalidate
  PROVE  TalkInv'
<1>c. PICK c : c = rmw.chan BY Zenon
<1>1. /\ rmw # NoRmw /\ c \in Clients /\ rmw' = NoRmw
      /\ sendList' = [sendList EXCEPT ![c] = <<>>] /\ recvList' = [recvList EXCEPT ![c] = <<>>]
      /\ node' = [node EXCEPT ![c] = "none"] /\ closed' = [closed EXCEPT ![c] = FALSE]
      /\ UNCHANGED <<refs, devAlive, driverFds, cpc, cur, cancelId, dpc, dmsg, pending, input, feeding,
                     waiting>>
  BY <1>c, InvalidateParts, Zenon DEF clientVars, driverVars
<1>2. /\ sendList'[c] = <<>> /\ recvList'[c] = <<>> /\ node'[c] = "none"
      /\ \A d \in Clients \ {c} : /\ sendList'[d] = sendList[d] /\ recvList'[d] = recvList[d]
                                  /\ node'[d] = node[d] /\ closed'[d] = closed[d]
  BY <1>1, Zenon DEF BaseInv, Shapes, NodeTypes, ListTypes, OtherTypes
<1>3. \A d \in Clients : isAlive(d)' => isAlive(d) BY <1>2, Zenon DEF isAlive
<1>4. DeviceNamed' BY <1>1, <1>3, Zenon DEF TalkInv, DeviceNamed
<1>5. dpc # "wakeup" BY <1>1, Zenon DEF BaseInv, Hands
<1>6. Running' <=> Running BY <1>1, Zenon DEF Running
<1>7. CASE ~Running
  <2>1. Driver \notin waiting /\ waiting \cap Clients = {}
    BY <1>5, <1>7, Zenon DEF TalkInv, Sleepers, Running
  <2>2. /\ pending = <<>> /\ feeding = NoFeed
        /\ dpc \in {"wakeup", "destroy"} =>
             \A d \in Clients : cpc[d] = "idle" => sendList[d] = <<>> /\ recvList[d] = <<>>
    BY <1>7, Zenon DEF TalkInv, Dying
  <2>3. dpc \in {"wakeup", "destroy"} =>
          \A d \in Clients : cpc[d] = "idle" => sendList'[d] = <<>> /\ recvList'[d] = <<>>
    BY <1>2, <2>2, Zenon
  <2> QED BY <1>1, <1>4, <1>6, <1>7, <2>1, <2>2, <2>3, DeadTalk, Zenon
<1>8. CASE Running
  <2>1. Absent(c)
    <3>1. ClientInv(c) BY <1>1, <1>8, Zenon DEF TalkInv, InTouch
    <3> QED BY <1>c, <3>1, Zenon DEF ClientInv, Open, Sending, Talking, Closing, Failed, HasFile
  <2>2. \A d : (InQueue(d)' <=> InQueue(d)) /\ (Holds(d)' <=> Holds(d))
    BY <1>1, Zenon DEF InQueue, Holds
  <2>3. rmw'.chan \notin Clients BY <1>1, Names, Nothings, Zenon
  <2>4. Absent(c)' BY <1>1, <1>2, <2>1, <2>2, <2>3, Zenon DEF Absent, Silent
  <2>5. \A d \in Clients \ {c} : Same(d) BY <1>c, <1>1, <1>2, <2>2, <2>3, Zenon DEF Same
  <2>6. ClientInv(c)' BY <2>4, Zenon DEF ClientInv
  <2>7. Queue' BY <1>1, QueueSame, Zenon
  <2>8. Distinct' BY <1>1, Zenon DEF TalkInv, Distinct
  <2>9. Dying' BY <1>1, <1>6, <1>8, Zenon DEF Dying, Running
  <2>10. c \notin waiting' BY <1>1, <2>1, Zenon DEF TalkInv, Sleepers, Absent
  <2>11. Driver \in waiting' =>
           dpc' = "sleep" /\ \A d \in Clients : isAlive(d)' => sendList'[d] = <<>>
    <3>1. \A d \in Clients : sendList[d] = <<>> => sendList'[d] = <<>> BY <1>2, Zenon
    <3> QED BY <1>1, <1>3, <3>1, Zenon DEF TalkInv, Sleepers
  <2> QED BY <1>1, <1>4, <1>6, <1>8, <2>5, <2>6, <2>7, <2>8, <2>9, <2>10, <2>11, StepTalk, Zenon
<1> QED BY <1>7, <1>8, Zenon

-----------------------------------------------------------------------------
(* At the beginning nobody talks. *)
LEMMA TalkInit ==
  ASSUME Init
  PROVE  TalkInv
<1>1. /\ devAlive = TRUE /\ driverFds = {} /\ dpc = "loop" /\ rmw = NoRmw
      /\ dmsg = NoMsg /\ pending = <<>> /\ input = FALSE /\ feeding = NoFeed /\ waiting = {}
      /\ \A c \in Clients : /\ node[c] = "none" /\ refs[c] = 0 /\ cpc[c] = "out" /\ cur[c] = NoReq
                            /\ cancelId[c] = 0 /\ sendList[c] = <<>> /\ recvList[c] = <<>>
  BY Zenon DEF Init
<1>2. 1 .. Len(pending) = {} BY <1>1, Empty, Zenon
<1>3. \A c \in Clients : feeding.chan # c /\ dmsg.chan # c /\ rmw.chan # c
  BY <1>1, Names, Nothings, Zenon
<1>4. feeding.chan = Null BY <1>1, Nothings, Zenon
<1>5. DeviceNamed BY <1>1, Zenon DEF DeviceNamed
<1>6. Queue BY <1>1, <1>2, <1>4, Zenon DEF Queue
<1>7. Distinct BY <1>1, NoReqFacts, Zenon DEF Distinct
<1>8. InTouch
  <2> SUFFICES ASSUME NEW c \in Clients PROVE ClientInv(c) BY Zenon DEF InTouch
  <2>1. Silent(c) BY <1>1, <1>2, <1>3, Zenon DEF Silent, Holds, InQueue
  <2>2. Absent(c) BY <1>1, <1>3, <2>1, Zenon DEF Absent
  <2> QED BY <2>2, Zenon DEF ClientInv
<1>9. Dying BY <1>1, Zenon DEF Dying
<1>10. Sleepers BY <1>1, Zenon DEF Sleepers
<1> QED BY <1>5, <1>6, <1>7, <1>8, <1>9, <1>10, Zenon DEF TalkInv

(* Every step keeps it. *)
LEMMA TalkStep ==
  ASSUME NCPU = 1, Library, Cancellable, BaseInv, TalkInv, [Next]_vars
  PROVE  TalkInv'
<1>1. ASSUME NEW c \in Clients, ClientStep(c) PROVE TalkInv'
  <2>1. ASSUME NEW op \in ClientOps, send(c, op) PROVE TalkInv' BY <2>1, SendTalk, Zenon
  <2>2. CASE receive(c) BY <2>2, ReceiveTalk, Zenon
  <2>3. CASE closeForDriver(c) BY <2>3, CloseForDriverTalk, Zenon
  <2>4. CASE release(c) BY <2>4, ReleaseTalk, Zenon
  <2>5. CASE setClosed(c) BY <2>5, SetClosedTalk, Zenon
  <2> QED BY <1>1, <2>1, <2>2, <2>3, <2>4, <2>5, Zenon DEF ClientStep
<1>2. ASSUME NEW c \in Clients, ClientCall(c) PROVE TalkInv'
  <2>1. CASE open(c) BY <2>1, OpenTalk, Zenon
  <2>2. ASSUME NEW op \in {"READ", "WRITE"}, request(c, op) PROVE TalkInv' BY <2>2, RequestTalk, Zenon
  <2>3. CASE close(c) BY <2>3, CloseTalk, Zenon
  <2> QED BY <1>2, <2>1, <2>2, <2>3, Zenon DEF ClientCall
<1>3. ASSUME NEW c \in Clients, resume(c) PROVE TalkInv' BY <1>3, ResumeTalk, Zenon
<1>4. ASSUME NEW c \in Clients, addSignalFor(c) PROVE TalkInv' BY <1>4, AddSignalForTalk, Zenon
<1>5. CASE DriverStep
  <2>1. CASE getwork BY <2>1, GetworkTalk, Zenon
  <2>2. CASE drvReceive BY <2>2, DrvReceiveTalk, Zenon
  <2>3. CASE handleOpen BY <2>3, HandleOpenTalk, Zenon
  <2>4. CASE handleRead BY <2>4, HandleReadTalk, Zenon
  <2>5. CASE sendData BY <2>5, SendDataTalk, Zenon
  <2>6. CASE handleWrite BY <2>6, HandleWriteTalk, Zenon
  <2>7. CASE handleCancel BY <2>7, HandleCancelTalk, Zenon
  <2>8. CASE reply BY <2>8, ReplyTalk, Zenon
  <2>9. CASE handleClose BY <2>9, HandleCloseTalk, Zenon
  <2>10. CASE wakeupClients BY <2>10, WakeupClientsTalk, Zenon
  <2>11. CASE destroyDevice BY <2>11, DestroyDeviceTalk, Zenon
  <2>12. CASE closeFiles BY <2>12, CloseFilesTalk, Zenon
  <2> QED BY <1>5, <2>1, <2>2, <2>3, <2>4, <2>5, <2>6, <2>7, <2>8, <2>9, <2>10, <2>11, <2>12, Zenon
          DEF DriverStep
<1>6. CASE die BY <1>6, DieTalk, Zenon
<1>7. CASE inputArrives BY <1>7, InputArrivesTalk, Zenon
<1>8. CASE answerPending BY <1>8, AnswerPendingTalk, Zenon
<1>9. CASE feedData BY <1>9, FeedDataTalk, Zenon
<1>10. CASE invalidate BY <1>10, InvalidateTalk, Zenon
<1>11. CASE UNCHANGED vars
  <2>1. UNCHANGED <<node, refs, devAlive, rmw, sendList, recvList, closed, driverFds>>
    BY <1>11, Zenon DEF vars, nodeVars, listVars
  <2>2. UNCHANGED <<cpc, cur, cancelId, dpc, dmsg, pending, input, feeding, waiting>>
    BY <1>11, Zenon DEF vars, clientVars, driverVars
  <2> QED BY <2>1, <2>2, QuietTalk, Zenon
<1> QED BY <1>1, <1>2, <1>3, <1>4, <1>5, <1>6, <1>7, <1>8, <1>9, <1>10, <1>11, Zenon DEF Next

-----------------------------------------------------------------------------
(* A client that waits has sent what it waits for, and the driver has not  *)
(* answered it.                                                            *)
LEMMA WaitsForDriver ==
  ASSUME BaseInv, TalkInv, NEW c \in Clients, Talking(c), Nothing(c)
  PROVE  OnItsWay(c, Expected(c))
<1>e. PICK e : e = Expected(c) BY Zenon
<1> SUFFICES OnItsWay(c, e) BY <1>e, Zenon
<1> DEFINE n == cancelId[c]
           q == cur[c]
           r == [chan |-> c, id |-> e]
<1>1. PICK o \in Places, k \in CancelPlaces : At(c, o, k) BY Zenon DEF Talking
<1>2. Lists(c, o, k) /\ InHand(c, o, k) /\ InPlace(c, o, k) /\ Legal(c, o, k) BY <1>1, Zenon DEF At
<1>3. IF k = "none" THEN e = q.id ELSE e = [op |-> "CANCEL", rid |-> n]
  BY <1>e, <1>2, Zenon DEF InPlace, Expected
<1>4. q \in Calls /\ n \in Rids BY PartFacts, Zenon DEF BaseInv, Shapes, ClientTypes
<1>5. /\ Msg(q) \in Requests /\ CancelMsg(q, n) \in Requests /\ CancelAns(n, o) \in Responses
      /\ Msgs(q, o) \in Seq(Requests)
  BY <1>4, MessageTypes, Zenon
<1>6. Msg(q).id = q.id /\ CancelMsg(q, n).id = [op |-> "CANCEL", rid |-> n]
      /\ CancelAns(n, o).id = [op |-> "CANCEL", rid |-> n]
  BY Zenon DEF Msg, CancelMsg, CancelAns
<1>7. ASSUME NEW S, NEW s \in Seq(S), NEW i \in 1 .. Len(s) PROVE s[i] \in ToSet(s)
  <2>1. DOMAIN s = 1 .. Len(s) BY ONLY s \in Seq(S)
  <2> QED BY <2>1, Zenon DEF ToSet
<1>8. ASSUME NEW m \in ToSet(sendList[c]), m.id = e PROVE OnItsWay(c, e)
  BY <1>8, Zenon DEF OnItsWay
<1>9. ASSUME Holds(c), dmsg.id = e PROVE OnItsWay(c, e)
  <2>1. r = [chan |-> dmsg.chan, id |-> dmsg.id] BY <1>9, Zenon DEF Holds
  <2> QED BY <2>1, Zenon DEF OnItsWay
<1>10. ASSUME NEW j \in 1 .. Len(recvList[c]), recvList[c][j].id = e PROVE FALSE
  BY <1>e, <1>10, Zenon DEF Nothing, Matches
<1>11. CASE k = "none"
  <2>1. e = q.id BY <1>3, <1>11, Zenon
  <2>2. CASE o = "sent"
    <3>1. sendList[c] = Msgs(q, "sent") BY <1>2, <1>11, <2>2, Zenon DEF Lists
    <3>2. sendList[c] = <<Msg(q)>> \/ sendList[c] = <<Msg(q), Msg(q)>> BY <3>1, MsgsFacts, Zenon
    <3>3. Msg(q) \in ToSet(sendList[c])
      <4> DEFINE m == Msg(q)
      <4>1. m \in Requests BY <1>5, Zenon
      <4> HIDE DEF m
      <4>2. <<m>> \in Seq(Requests) /\ <<m, m>> \in Seq(Requests) BY <4>1, Shorts, Zenon
      <4>3. /\ 1 \in 1 .. Len(<<m>>) /\ 1 \in 1 .. Len(<<m, m>>)
            /\ <<m>>[1] = m /\ <<m, m>>[1] = m
        BY ONLY TRUE
      <4>4. m \in ToSet(<<m>>) /\ m \in ToSet(<<m, m>>) BY <1>7, <4>2, <4>3, Zenon
      <4> QED BY <3>2, <4>4, Zenon DEF m
    <3> QED BY <1>6, <1>8, <2>1, <3>3, Zenon
  <2>3. CASE o \in {"handle", "reply", "data"} BY <1>2, <1>9, <2>1, <2>3, Zenon DEF InHand
  <2>4. CASE o = "queue"
    <3>1. PICK i \in 1 .. Len(pending) : pending[i].chan = c BY <1>2, <2>4, Zenon DEF InPlace, InQueue
    <3>2. pending[i].id = e BY <2>1, <3>1, Zenon DEF TalkInv, Queue
    <3>3. pending \in Seq([chan : Clients, id : Ids]) BY PendingTypes, Zenon
    <3>4. pending[i] \in ToSet(pending) BY <1>7, <3>3, Zenon
    <3>5. pending[i] = r
      <4> DEFINE Q == [chan : Clients, id : Ids]
      <4>1. pending[i] \in Q
        <5>1. pending \in Seq(Q) BY <3>3, Zenon
        <5> HIDE DEF Q
        <5> QED BY ONLY <5>1, i \in 1 .. Len(pending)
      <4>2. pending[i] = [chan |-> pending[i].chan, id |-> pending[i].id] BY ONLY <4>1
      <4> QED BY <3>1, <3>2, <4>2, Zenon
    <3> QED BY <3>4, <3>5, Zenon DEF OnItsWay
  <2>5. CASE o = "feed"
    <3>1. feeding.chan = c BY <1>2, <2>5, Zenon DEF InPlace
    <3>2. c # Null BY Names, Zenon
    <3>3. feeding.id = e BY <2>1, <3>1, <3>2, Zenon DEF TalkInv, Queue
    <3>4. feeding \in [chan : Clients \cup {Null}, id : Ids] BY PendingTypes, Zenon
    <3>5. feeding = [chan |-> feeding.chan, id |-> feeding.id] BY ONLY <3>4
    <3>6. feeding = r BY <3>1, <3>3, <3>5, Zenon
    <3> QED BY <3>6, Zenon DEF OnItsWay
  <2>6. CASE o = "answered"
    <3>1. recvList[c] \in Answers(q, o) BY <1>2, <1>11, Zenon DEF Lists
    <3>2. /\ recvList[c] \in Seq(Responses) /\ Len(recvList[c]) # 0
          /\ \A j \in 1 .. Len(recvList[c]) : recvList[c][j].id = q.id
      BY <1>4, <2>6, <3>1, AnswersIds, Zenon
    <3>3. 1 \in 1 .. Len(recvList[c])
      <4>1. Len(recvList[c]) \in Nat BY ONLY <3>2
      <4> QED BY ONLY <3>2, <4>1
    <3> QED BY <1>10, <2>1, <3>2, <3>3, Zenon
  <2>7. o # "gone" BY <1>2, <1>11, Zenon DEF Legal
  <2> QED BY <2>2, <2>3, <2>4, <2>5, <2>6, <2>7, Zenon DEF Places
<1>12. CASE k # "none"
  <2>1. e = [op |-> "CANCEL", rid |-> n] BY <1>3, <1>12, Zenon
  <2>2. CASE k = "sent"
    <3> DEFINE s == Msgs(q, o)
               a == CancelMsg(q, n)
    <3>1. sendList[c] = Append(s, a) BY <1>2, <2>2, Zenon DEF Lists
    <3>2. s \in Seq(Requests) /\ a \in Requests BY <1>5, Zenon
    <3> HIDE DEF s, a
    <3>3. /\ Append(s, a) \in Seq(Requests) /\ Len(Append(s, a)) = Len(s) + 1
          /\ Append(s, a)[Len(s) + 1] = a
      BY <3>2, LastFacts, Zenon
    <3>4. Len(s) + 1 \in 1 .. Len(s) + 1
      <4>1. Len(s) \in Nat BY ONLY <3>2
      <4> QED BY ONLY <4>1
    <3>5. a \in ToSet(Append(s, a)) BY <1>7, <3>3, <3>4, Zenon
    <3>6. a.id = e BY <1>6, <2>1, Zenon DEF a
    <3> QED BY <1>8, <3>1, <3>5, <3>6, Zenon
  <2>3. CASE k \in {"handle", "reply"} BY <1>2, <1>9, <2>1, <2>3, Zenon DEF InHand
  <2>4. CASE k = "answered"
    <3> DEFINE a == CancelAns(n, o)
    <3>1. PICK s \in Answers(q, o) : recvList[c] = Append(s, a) BY <1>2, <2>4, Zenon DEF Lists
    <3>2. s \in Seq(Responses) /\ a \in Responses BY <1>4, <1>5, AnswersIds, Zenon
    <3> HIDE DEF a
    <3>3. Len(Append(s, a)) = Len(s) + 1 /\ Append(s, a)[Len(s) + 1] = a
      BY <3>2, LastFacts, Zenon
    <3>4. Len(s) + 1 \in 1 .. Len(s) + 1
      <4>1. Len(s) \in Nat BY ONLY <3>2
      <4> QED BY ONLY <4>1
    <3>5. a.id = e BY <1>6, <2>1, Zenon DEF a
    <3> QED BY <1>10, <3>1, <3>3, <3>4, <3>5, Zenon
  <2> QED BY <1>12, <2>2, <2>3, <2>4, Zenon DEF CancelPlaces
<1> QED BY <1>11, <1>12, Zenon

(* The invariant implies that nobody sleeps for nothing. *)
LEMMA WakeupInv ==
  ASSUME NCPU = 1, Library, BaseInv, TalkInv
  PROVE  NoLostWakeup
<1>1. ASSUME Driver \in waiting, NEW c \in ToSet(children) PROVE sendList[c] = <<>>
  <2>1. children \in Seq(Clients) BY Zenon DEF BaseInv, Shapes, NodeTypes
  <2>2. DOMAIN children = 1 .. Len(children) /\ \A i \in 1 .. Len(children) : children[i] \in Clients
    BY ONLY <2>1
  <2>3. c \in Clients /\ Contains(children, c) BY <2>2, Zenon DEF ToSet, Contains
  <2>4. isAlive(c) BY <2>3, Zenon DEF BaseInv, Children
  <2> QED BY <1>1, <2>3, <2>4, Zenon DEF TalkInv, Sleepers
<1>2. ASSUME NEW c \in waiting \cap Clients
      PROVE  getMsg(c) = 0 /\ isAlive(c) /\ (OnItsWay(c, Expected(c)) \/ dpc = "wakeup")
  <2>1. /\ c \in Clients /\ cpc[c] = "sleep" /\ isAlive(c) /\ Nothing(c)
        /\ Running \/ dpc = "wakeup"
    BY <1>2, Zenon DEF TalkInv, Sleepers
  <2>2. getMsg(c) = 0
    <3>1. recvList[c] \in Seq(Responses) BY <2>1, Zenon DEF BaseInv, Shapes, ListTypes
    <3> QED BY <2>1, <3>1, GetMsgFacts, Zenon DEF Nothing
  <2>3. ASSUME Running PROVE OnItsWay(c, Expected(c))
    <3>1. ClientInv(c) BY <2>1, <2>3, Zenon DEF TalkInv, InTouch
    <3>2. Talking(c) BY <2>1, <3>1, AtPC, Zenon
    <3> QED BY <2>1, <3>2, WaitsForDriver, Zenon
  <2> QED BY <2>1, <2>2, <2>3, Zenon
<1> QED BY <1>1, <1>2, Zenon DEF NoLostWakeup

(* The invariant implies that a finished call has left nothing behind. *)
LEMMA ConsistentInv ==
  ASSUME BaseInv, TalkInv
  PROVE  ChannelConsistent
<1> SUFFICES ASSUME NEW c \in Clients, cpc[c] = "idle", isAlive(c)
             PROVE  /\ recvList[c] = <<>> /\ sendList[c] = <<>>
                    /\ c \notin {r.chan : r \in ToSet(pending)} /\ c # dmsg.chan /\ c # feeding.chan
  BY Zenon DEF ChannelConsistent
<1>1. ~InQueue(c) => c \notin {r.chan : r \in ToSet(pending)}
  <2> DEFINE Q == [chan : Clients, id : Ids]
  <2>1. pending \in Seq(Q) BY PendingTypes, Zenon
  <2> HIDE DEF Q
  <2>2. DOMAIN pending = 1 .. Len(pending) BY ONLY <2>1
  <2> QED BY <2>2, Zenon DEF ToSet, InQueue
<1>2. CASE Running
  <2>1. ClientInv(c) BY <1>2, Zenon DEF TalkInv, InTouch
  <2>2. Silent(c) BY <2>1, AtPC, Zenon DEF Open
  <2>3. c # dmsg.chan
    <3>1. dpc = "recv" => sendList[dmsg.chan] # <<>> BY Zenon DEF BaseInv, Hands
    <3> QED BY <2>2, <3>1, Zenon DEF Silent, Holds
  <2> QED BY <1>1, <2>2, <2>3, Zenon DEF Silent
<1>3. CASE ~Running
  <2>1. dpc \notin {"closefds", "dead"} BY Zenon DEF TalkInv, DeviceNamed
  <2>2. dpc \in DriverPCs BY Zenon DEF BaseInv, Shapes, DriverTypes
  <2>3. dpc \in {"wakeup", "destroy"} BY <1>3, <2>1, <2>2, Zenon DEF Running, DriverPCs
  <2>4. pending = <<>> /\ feeding = NoFeed /\ sendList[c] = <<>> /\ recvList[c] = <<>>
    BY <1>3, <2>3, Zenon DEF TalkInv, Dying
  <2>5. dmsg = NoMsg BY <2>3, Zenon DEF BaseInv, Hands
  <2>6. c # dmsg.chan /\ c # feeding.chan BY <2>4, <2>5, Names, Nothings, Zenon
  <2>7. ~InQueue(c)
    <3>1. 1 .. Len(pending) = {} BY <2>4, Empty, Zenon
    <3> QED BY <3>1, Zenon DEF InQueue
  <2> QED BY <1>1, <2>4, <2>6, <2>7, Zenon
<1> QED BY <1>2, <1>3, Zenon
=============================================================================
