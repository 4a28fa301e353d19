--------------------------- MODULE ChannelClients ---------------------------
(***************************************************************************)
(* IPC for any number of clients on one CPU: the inductive invariant       *)
(* BaseInv /\ TalkInv, and that every step of a client keeps it. BaseInv is*)
(* about the types, the children of the device and the number of messages, *)
(* TalkInv about what a client, its channel and the driver know of a call. *)
(***************************************************************************)
EXTENDS Channel, TLAPS

(* The types, of the tree, the messages, the clients and the driver, but   *)
(* for the sign of the number of messages.                                 *)
NodeTypes ==
  /\ node \in [Clients -> {"none", "alive", "dead"}]
  /\ refs \in [Clients -> 0 .. 2^16 - 1]
  /\ devAlive \in BOOLEAN
  /\ children \in Seq(Clients)
  /\ rmw \in [by : Clients \cup {Driver, Null}, chan : Clients \cup {Null}, count : Int]

ListTypes ==
  /\ sendList \in [Clients -> Seq(Requests)]
  /\ recvList \in [Clients -> Seq(Responses)]
  /\ msgCount \in Int

Calls == [id : Ids, sigs : BOOLEAN, block : BOOLEAN, part : 1 .. 2]

ClientTypes ==
  /\ cpc \in [Clients -> ClientPCs]
  /\ cur \in [Clients -> Calls]
  /\ cancelId \in [Clients -> Rids]

DriverTypes ==
  /\ dpc \in DriverPCs
  /\ dmsg \in [chan : Clients \cup {Null}, id : Ids, of : Ids, res : -1 .. 2]
  /\ pending \in Seq([chan : Clients, id : Ids])
  /\ input \in BOOLEAN
  /\ feeding \in [chan : Clients \cup {Null}, id : Ids]

OtherTypes ==
  /\ closed \in [Clients -> BOOLEAN]
  /\ lastClient \in Clients \cup {Null}
  /\ driverFds \subseteq Clients
  /\ sig \subseteq Clients
  /\ waiting \subseteq Clients \cup {Driver}

Shapes == NodeTypes /\ ListTypes /\ ClientTypes /\ DriverTypes /\ OtherTypes

(* One thread is in the kernel, and nothing is sent or received during an  *)
(* invalidate().                                                           *)
Kernel ==
  /\ \A x, y \in InKernel : x = y
  /\ rmw # NoRmw => rmw.by # Null /\ rmw.chan # Null /\ rmw.count = msgCount

(* The driver has a message, and its input thread a request, exactly when  *)
(* their positions say so.                                                 *)
Hands ==
  /\ IF dpc \in {"recv", "handle", "data", "reply"} THEN dmsg.chan # Null ELSE dmsg = NoMsg
  /\ feeding # NoFeed => feeding.chan # Null
  /\ dpc = "recv" => sendList[dmsg.chan] # <<>>
  /\ dpc \in {"recv", "wakeup"} => rmw = NoRmw

Counted == IsFiniteSet(Unreceived) /\ msgCount = Cardinality(Unreceived)

(* Nothing is in the sequence s twice. *)
Once(s) == \A i, j \in 1 .. Len(s) : s[i] = s[j] => i = j

(* The channels with a name are the children of the device. *)
Children ==
  /\ \A c \in Clients : isAlive(c) <=> Contains(children, c)
  /\ Once(children)

BaseInv == Shapes /\ Kernel /\ Hands /\ Counted /\ Children

(* The message m is what the client c waits for. *)
Matches(c, m) == m.id = Expected(c) \/ m.id.rid = 0

-----------------------------------------------------------------------------
(* What the proofs need of the theory of natural numbers and of finite     *)
(* sets.  ChannelProofs proves it.                                         *)
Minima == \A T \in SUBSET Nat : T # {} => \E x \in T : \A y \in T : x =< y

Counts ==
  /\ \A S \in SUBSET (Clients \cup {Driver}) : Cardinality(S) < 1 => S = {}
  /\ \A S : IsFiniteSet(S) => Cardinality(S) \in Nat /\ (Cardinality(S) = 0 <=> S = {})

Sizes ==
  /\ IsFiniteSet({})
  /\ \A x : \A n \in Nat : /\ IsFiniteSet({x} \X (1 .. n))
                           /\ Cardinality({x} \X (1 .. n)) = n
  /\ \A S, T : IsFiniteSet(S) /\ T \subseteq S =>
                 IsFiniteSet(S \ T) /\ Cardinality(S \ T) = Cardinality(S) - Cardinality(T)
  /\ \A S, T : IsFiniteSet(S) /\ IsFiniteSet(T) /\ S \cap T = {} =>
                 IsFiniteSet(S \cup T) /\ Cardinality(S \cup T) = Cardinality(S) + Cardinality(T)

Library == Minima /\ Counts /\ Sizes

(* The least of some natural numbers. *)
LEMMA LeastFacts ==
  ASSUME Library, NEW T, T \subseteq Nat, T # {}
  PROVE  Min(T) \in T /\ \A y \in T : Min(T) <= y
<1>1. \E x \in T : \A y \in T : x =< y BY Zenon DEF Library, Minima
<1> QED BY <1>1, Zenon DEF Min

(* An element is taken out of a sequence. *)
LEMMA RemoveAtFacts ==
  ASSUME NEW S, NEW s \in Seq(S), NEW i \in 1 .. Len(s)
  PROVE  /\ RemoveAt(s, i) \in Seq(S) /\ Len(RemoveAt(s, i)) = Len(s) - 1
         /\ \A j \in 1 .. Len(s) - 1 : RemoveAt(s, i)[j] = IF j < i THEN s[j] ELSE s[j + 1]
<1>1. /\ SubSeq(s, 1, i - 1) \in Seq(S) /\ Len(SubSeq(s, 1, i - 1)) = i - 1
      /\ \A j \in 1 .. i - 1 : SubSeq(s, 1, i - 1)[j] = s[j]
  OBVIOUS
<1>2. /\ SubSeq(s, i + 1, Len(s)) \in Seq(S) /\ Len(SubSeq(s, i + 1, Len(s))) = Len(s) - i
      /\ \A j \in 1 .. Len(s) - i : SubSeq(s, i + 1, Len(s))[j] = s[i + j]
  OBVIOUS
<1> DEFINE u == SubSeq(s, 1, i - 1)
           v == SubSeq(s, i + 1, Len(s))
<1>3. RemoveAt(s, i) = u \o v BY Zenon DEF RemoveAt
<1> HIDE DEF u, v
<1>4. /\ u \in Seq(S) /\ Len(u) = i - 1 /\ \A j \in 1 .. i - 1 : u[j] = s[j]
      /\ v \in Seq(S) /\ Len(v) = Len(s) - i /\ \A j \in 1 .. Len(s) - i : v[j] = s[i + j]
  BY <1>1, <1>2, Zenon DEF u, v
<1>5. /\ u \o v \in Seq(S) /\ Len(u \o v) = Len(s) - 1
      /\ \A j \in 1 .. Len(s) - 1 : (u \o v)[j] = IF j <= i - 1 THEN u[j] ELSE v[j - (i - 1)]
  BY <1>4
<1>6. ASSUME NEW j \in 1 .. Len(s) - 1
      PROVE  (u \o v)[j] = IF j < i THEN s[j] ELSE s[j + 1]
  <2>1. CASE j < i BY <1>4, <1>5, <2>1
  <2>2. CASE ~(j < i)
    <3>1. j - (i - 1) \in 1 .. Len(s) - i /\ i + (j - (i - 1)) = j + 1 /\ ~(j <= i - 1) BY <2>2
    <3>2. (u \o v)[j] = v[j - (i - 1)] BY <1>5, <3>1, Zenon
    <3>3. v[j - (i - 1)] = s[j + 1] BY <1>4, <3>1, Zenon
    <3> QED BY <2>2, <3>2, <3>3, Zenon
  <2> QED BY <2>1, <2>2, Zenon
<1> QED BY <1>3, <1>5, <1>6

(* getMsg finds the first message that matches. *)
LEMMA GetMsgFacts ==
  ASSUME Library, NEW c \in Clients, recvList[c] \in Seq(Responses)
  PROVE  \/ /\ getMsg(c) = 0
            /\ \A j \in 1 .. Len(recvList[c]) : ~Matches(c, recvList[c][j])
         \/ /\ getMsg(c) \in 1 .. Len(recvList[c]) /\ Matches(c, recvList[c][getMsg(c)])
            /\ \A j \in 1 .. Len(recvList[c]) : Matches(c, recvList[c][j]) => getMsg(c) <= j
<1> DEFINE I == {i \in 1 .. Len(recvList[c]) : Matches(c, recvList[c][i])}
<1>1. getMsg(c) = IF I # {} THEN Min(I) ELSE 0
  BY Zenon DEF getMsg, SelectInSeq, SelectInSubSeq, Matches
<1>2. I \subseteq Nat OBVIOUS
<1>3. I # {} => Min(I) \in I /\ \A y \in I : Min(I) <= y
  <2> HIDE DEF I
  <2> QED BY <1>2, LeastFacts, Zenon
<1>4. CASE I = {} BY <1>1, <1>4, Zenon
<1>5. CASE I # {}
  <2>1. getMsg(c) = Min(I) BY <1>1, <1>5, Zenon
  <2>2. getMsg(c) \in I BY <1>3, <1>5, <2>1, Zenon
  <2>3. \A j \in I : getMsg(c) <= j BY <1>3, <1>5, <2>1, Zenon
  <2> QED BY <2>2, <2>3, Zenon
<1> QED BY <1>4, <1>5, Zenon

(* getWork finds a channel with a message if there is one. *)
LEMMA GetWorkFacts ==
  ASSUME Library, children \in Seq(Clients), lastClient \in Clients \cup {Null}, Null \notin Clients
  PROVE  /\ getWork.last \in Clients \cup {Null}
         /\ \/ getWork.chan \in Clients /\ sendList[getWork.chan] # <<>>
            \/ /\ getWork.chan = Null
               /\ devAlive /\ msgCount # 0 =>
                    \A i \in 1 .. Len(children) : sendList[children[i]] = <<>>
<1> DEFINE L == {i \in 1 .. Len(children) : children[i] = lastClient}
           first == IF L # {} THEN Min(L) ELSE 0
           A == {i \in first + 1 .. Len(children) : sendList[children[i]] # <<>>}
           B == {i \in 1 .. first : sendList[children[i]] # <<>>}
           a == IF A # {} THEN Min(A) ELSE 0
           b == IF B # {} THEN Min(B) ELSE 0
           i == IF a # 0 THEN a ELSE b
<1>1. getWork = IF ~devAlive \/ msgCount = 0 THEN [chan |-> Null, last |-> lastClient]
                ELSE IF i = 0 THEN [chan |-> Null, last |-> Null]
                ELSE [chan |-> children[i], last |-> children[i]]
  BY Zenon DEF getWork, SelectInSeq, SelectInSubSeq, hasWork
<1>2. first \in 0 .. Len(children)
  <2>1. L \subseteq Nat OBVIOUS
  <2>2. L # {} => Min(L) \in L
    <3> HIDE DEF L
    <3> QED BY <2>1, LeastFacts, Zenon
  <2> QED BY <2>2
<1> HIDE DEF first
<1>3. \/ a = 0 /\ \A j \in first + 1 .. Len(children) : sendList[children[j]] = <<>>
      \/ a \in 1 .. Len(children) /\ sendList[children[a]] # <<>>
  <2>1. A \subseteq Nat BY <1>2
  <2>2. A # {} => Min(A) \in A
    <3> HIDE DEF A
    <3> QED BY <2>1, LeastFacts, Zenon
  <2>3. CASE A = {} BY <2>3, Zenon
  <2>4. CASE A # {}
    <3>1. a \in A BY <2>2, <2>4, Zenon
    <3> QED BY <1>2, <3>1
  <2> QED BY <2>3, <2>4, Zenon
<1>4. \/ b = 0 /\ \A j \in 1 .. first : sendList[children[j]] = <<>>
      \/ b \in 1 .. Len(children) /\ sendList[children[b]] # <<>>
  <2>1. B \subseteq Nat BY <1>2
  <2>2. B # {} => Min(B) \in B
    <3> HIDE DEF B
    <3> QED BY <2>1, LeastFacts, Zenon
  <2>3. CASE B = {} BY <2>3, Zenon
  <2>4. CASE B # {}
    <3>1. b \in B BY <2>2, <2>4, Zenon
    <3> QED BY <1>2, <3>1
  <2> QED BY <2>3, <2>4, Zenon
<1> HIDE DEF a, b
<1>5. \/ i \in 1 .. Len(children) /\ i # 0 /\ sendList[children[i]] # <<>>
      \/ i = 0 /\ \A j \in 1 .. Len(children) : sendList[children[j]] = <<>>
  BY <1>2, <1>3, <1>4
<1> HIDE DEF i
<1>6. CASE ~devAlive \/ msgCount = 0
  <2>1. getWork.chan = Null /\ getWork.last = lastClient BY <1>1, <1>6, Zenon
  <2> QED BY <1>6, <2>1, Zenon
<1>7. CASE i = 0 /\ ~(~devAlive \/ msgCount = 0)
  <2>1. getWork.chan = Null /\ getWork.last = Null BY <1>1, <1>7, Zenon
  <2> QED BY <1>5, <1>7, <2>1, Zenon
<1>8. CASE i # 0 /\ ~(~devAlive \/ msgCount = 0)
  <2>1. getWork.chan = children[i] /\ getWork.last = children[i] BY <1>1, <1>8, Zenon
  <2>2. i \in 1 .. Len(children) /\ sendList[children[i]] # <<>> BY <1>5, <1>8, Zenon
  <2>3. children[i] \in Clients BY <2>2
  <2> QED BY <2>1, <2>2, <2>3, Zenon
<1> QED BY <1>6, <1>7, <1>8, Zenon

-----------------------------------------------------------------------------
(* One CPU. *)
LEMMA Names ==
  /\ Null \notin Clients /\ Driver \notin Clients /\ Input \notin Clients
  /\ Driver # Input /\ Null # Driver /\ Null # Input /\ IsFiniteSet(Clients)
BY ChannelAssumption, Zenon

KernelPCs == {"recv", "wakeup", "destroy", "closefds"}
UserPCs == {"out", "idle", "sleep"}

(* The thread that runs is alone in the kernel. *)
LEMMA Alone ==
  ASSUME NCPU = 1, Library, NodeTypes, Kernel, NEW a, MayRun(a)
  PROVE  /\ rmw = NoRmw
         /\ \A d \in Clients \ {a} : cpc[d] \in UserPCs
         /\ a # Driver => dpc \notin KernelPCs
<1>1. InKernel \subseteq Clients \cup {Driver}
  BY Zenon DEF InKernel, NodeTypes
<1>3. \A x \in InKernel : x = a
  <2>1. CASE a \in InKernel BY <2>1, Zenon DEF Kernel
  <2>2. CASE Cardinality(InKernel) < 1
    <3>1. InKernel = {} BY <1>1, <2>2, Zenon DEF Library, Counts
    <3> QED BY <3>1, Zenon
  <2> QED BY <2>1, <2>2, Zenon DEF MayRun
<1>4. rmw.by = Null BY <1>3, Zenon DEF InKernel, MayRun
<1>5. rmw = NoRmw BY <1>4, Zenon DEF Kernel
<1>6. ASSUME NEW d \in Clients \ {a}, cpc[d] \notin UserPCs PROVE FALSE
  <2>1. d \in InKernel BY <1>6, Zenon DEF InKernel, UserPCs
  <2> QED BY <1>3, <2>1, Zenon
<1>7. ASSUME a # Driver, dpc \in KernelPCs PROVE FALSE
  <2>1. Driver \in InKernel BY <1>7, Zenon DEF InKernel, KernelPCs
  <2> QED BY <1>3, <1>7, <2>1, Zenon
<1> QED BY <1>5, <1>6, <1>7, Zenon

-----------------------------------------------------------------------------
(* Nothing in hand means no channel. *)
LEMMA Nothings ==
  NoRmw.by = Null /\ NoRmw.chan = Null /\ NoFeed.chan = Null /\ NoMsg.chan = Null
BY DEF NoRmw, NoFeed, NoMsg

-----------------------------------------------------------------------------
(* The pieces of the actions. *)
LEMMA GotoFacts ==
  ASSUME cpc \in [Clients -> ClientPCs], NEW c \in Clients, NEW p \in ClientPCs, Goto(c, p)
  PROVE  /\ cpc' \in [Clients -> ClientPCs] /\ cpc'[c] = p
         /\ \A d \in Clients \ {c} : cpc'[d] = cpc[d]
BY Zenon DEF Goto

(* A client leaves its call. *)
LEMMA ReturnFacts ==
  ASSUME ClientTypes, sig \subseteq Clients, NEW c \in Clients, NEW p \in ClientPCs, Return(c, p)
  PROVE  /\ ClientTypes' /\ sig' \subseteq Clients
         /\ cpc'[c] = p /\ cancelId'[c] = 0 /\ cur'[c] = NoReq
         /\ \A d \in Clients \ {c} : /\ cpc'[d] = cpc[d] /\ cur'[d] = cur[d]
                                     /\ cancelId'[d] = cancelId[d]
<1>1. NoReq \in Calls /\ 0 \in Rids
  BY ChannelAssumption DEF NoReq, NoId, Calls, Ids, Rids, ClientOps
<1>2. /\ Goto(c, p) /\ sig' \subseteq sig
      /\ cur' = [cur EXCEPT ![c] = NoReq] /\ cancelId' = [cancelId EXCEPT ![c] = 0]
  BY Zenon DEF Return, Leave
<1> QED BY <1>1, <1>2, GotoFacts, Zenon DEF ClientTypes

(* The size of the reference counter. *)
LEMMA Power == 2^16 \in Nat \ {0}
<1>1. 2^16 = 65536 OBVIOUS
<1> QED BY <1>1

(* A counter that is not 0 is decremented without overflow. *)
LEMMA Modulo ==
  ASSUME NEW N \in Nat \ {0}, NEW x \in 0 .. N - 1
  PROVE  (x - 1) % N \in 0 .. N - 1 /\ (x # 0 => (x - 1) % N = x - 1)
OBVIOUS

(* What messages, responses and calls consist of. *)
LEMMA IdFacts ==
  /\ \A op \in ClientOps, n \in Rids : [op |-> op, rid |-> n] \in Ids
  /\ NoId \in Ids /\ 0 \in Rids /\ 1 \in 1 .. 2 /\ 2 \in 1 .. 2
  /\ \A i \in Ids, s, b \in BOOLEAN, p \in 1 .. 2 :
       /\ [id |-> i, sigs |-> s, block |-> b, part |-> p] \in Calls
       /\ [id |-> i, part |-> p, sigs |-> s, block |-> b] \in Calls
  /\ \A i, o \in Ids : [id |-> i, of |-> o] \in Requests
  /\ \A i \in Ids, r \in -1 .. 2 : [id |-> i, res |-> r] \in Responses
  /\ \A i \in Ids, x \in Calls : [x EXCEPT !.id = i] \in Calls
<1>1. RidCount \in Nat /\ RidCount > 1 BY ChannelAssumption
<1>2. 0 \in Rids BY <1>1 DEF Rids
<1>3. NoId \in Ids BY <1>2 DEF NoId, Ids, ClientOps
<1>4. \A op \in ClientOps, n \in Rids : [op |-> op, rid |-> n] \in Ids BY DEF Ids
<1>5. \A i \in Ids, s, b \in BOOLEAN, p \in 1 .. 2 :
        /\ [id |-> i, sigs |-> s, block |-> b, part |-> p] \in Calls
        /\ [id |-> i, part |-> p, sigs |-> s, block |-> b] \in Calls
  BY DEF Calls
<1>6. \A i, o \in Ids : [id |-> i, of |-> o] \in Requests BY DEF Requests
<1>7. \A i \in Ids, r \in -1 .. 2 : [id |-> i, res |-> r] \in Responses BY DEF Responses
<1>8. \A i \in Ids, x \in Calls : [x EXCEPT !.id = i] \in Calls BY DEF Calls
<1>9. 1 \in 1 .. 2 /\ 2 \in 1 .. 2 OBVIOUS
<1> QED BY <1>2, <1>3, <1>4, <1>5, <1>6, <1>7, <1>8, <1>9, Zenon

-----------------------------------------------------------------------------
(* What happens to the call of a client. *)
LEMMA CallUpdates ==
  ASSUME NEW q \in Calls
  PROVE  /\ \A i \in Ids : [q EXCEPT !.id = i] \in Calls
         /\ \A s \in BOOLEAN : [q EXCEPT !.sigs = s] \in Calls
         /\ \A b \in BOOLEAN : [q EXCEPT !.block = b] \in Calls
         /\ \A p \in 1 .. 2 : [q EXCEPT !.part = p] \in Calls
BY DEF Calls

(* Only the fields of a call that are assigned change. *)
LEMMA CallFields ==
  ASSUME NEW q \in Calls, NEW i
  PROVE  /\ LET x == [q EXCEPT !.id = i]
            IN  x.id = i /\ x.sigs = q.sigs /\ x.block = q.block /\ x.part = q.part
         /\ LET x == [q EXCEPT !.sigs = FALSE, !.block = TRUE]
            IN  x.id = q.id /\ x.sigs = FALSE /\ x.block = TRUE /\ x.part = q.part
         /\ LET x == [q EXCEPT !.sigs = FALSE, !.block = FALSE, !.part = 2]
            IN  x.id = q.id /\ x.sigs = FALSE /\ x.block = FALSE /\ x.part = 2
BY Zenon DEF Calls

(* A new request-id is not 0 and not in use. *)
LEMMA NewRidFacts ==
  ASSUME NEW c, NEW op, FreeRids(c, op) # {}
  PROVE  /\ newRid(c, op) \in Rids /\ newRid(c, op) # 0
         /\ [op |-> op, rid |-> newRid(c, op)] \notin IdsInUse
<1>1. newRid(c, op) \in FreeRids(c, op) BY Zenon DEF newRid
<1>2. /\ newRid(c, op) \in 1 .. RidCount - 1
      /\ [op |-> op, rid |-> newRid(c, op)] \notin IdsInUse
  BY <1>1, Zenon DEF FreeRids
<1>3. RidCount \in Nat BY ChannelAssumption, Zenon
<1>4. \A n \in 1 .. RidCount - 1 : n \in 0 .. RidCount - 1 /\ n # 0 BY <1>3
<1> QED BY <1>2, <1>4, Zenon DEF Rids

(* The message sent by the client c. *)
Sent(c, op) ==
  LET m == [id |-> [op |-> op, rid |-> newRid(c, op)],
            of |-> IF op = "CANCEL" THEN cur[c].id ELSE NoId]
  IN  IF op = "WRITE" THEN <<m, m>> ELSE <<m>>

(* The parts of send. *)
LEMMA SendParts ==
  ASSUME NEW c, NEW op, send(c, op)
  PROVE  /\ MayRun(c) /\ FreeRids(c, op) # {}
         /\ \/ cpc[c] = "send" /\ op = cur[c].id.op
            \/ cpc[c] = "cancel" /\ op = "CANCEL"
         /\ sendList' = [sendList EXCEPT ![c] = sendList[c] \o Sent(c, op)]
         /\ msgCount' = msgCount + Len(Sent(c, op))
         /\ waiting' = waiting \ {Driver}
         /\ \/ /\ op = "CANCEL" /\ UNCHANGED cur
               /\ cancelId' = [cancelId EXCEPT ![c] = newRid(c, op)]
            \/ /\ op # "CANCEL" /\ UNCHANGED cancelId
               /\ cur' = [cur EXCEPT ![c] = [cur[c] EXCEPT !.id = [op |-> op, rid |-> newRid(c, op)]]]
         /\ Goto(c, IF op = "CLOSE" THEN "closed" ELSE "recv")
         /\ UNCHANGED <<nodeVars, recvList, closed, lastClient, driverFds, sig, driverVars>>
BY Zenon DEF send, Sent

(* A client goes on. *)
OthersSame(c) ==
  \A d \in Clients \ {c} : cpc'[d] = cpc[d] /\ cur'[d] = cur[d] /\ cancelId'[d] = cancelId[d]

(* What a client does with a response: go on with its request after a      *)
(* cancel that came too late, wait for the data of a read, or return.      *)
LEMMA HandleResponseParts ==
  ASSUME NEW c, NEW m, handleResponse(c, m)
  PROVE  \/ /\ cancelId[c] # 0 /\ m.res = 1
            /\ cancelId' = [cancelId EXCEPT ![c] = 0]
            /\ cur' = [cur EXCEPT ![c] = [cur[c] EXCEPT !.sigs = FALSE, !.block = TRUE]]
            /\ Goto(c, "recv") /\ UNCHANGED sig
         \/ /\ cancelId[c] = 0 /\ cur[c].id.op = "READ" /\ cur[c].part = 1 /\ m.res > 0
            /\ cur' = [cur EXCEPT ![c] = [cur[c] EXCEPT !.sigs = FALSE, !.block = FALSE, !.part = 2]]
            /\ Goto(c, "recv") /\ UNCHANGED <<cancelId, sig>>
         \/ /\ ~(cancelId[c] # 0 /\ m.res = 1)
            /\ ~(cancelId[c] = 0 /\ cur[c].id.op = "READ" /\ cur[c].part = 1 /\ m.res > 0)
            /\ Return(c, IF cur[c].id.op = "OPEN" /\ m.res < 0 THEN "fail" ELSE "idle")
BY Zenon DEF handleResponse

(* The driver takes a message. *)
Taken == [chan : Clients \cup {Null}, id : Ids, of : Ids, res : -1 .. 2]

(* Empty hands are well-typed. *)
LEMMA NoMsgFacts == NoMsg \in Taken /\ NoFeed \in [chan : Clients \cup {Null}, id : Ids]
<1>1. NoId \in Ids BY IdFacts, Zenon
<1>2. NoMsg \in Taken BY <1>1 DEF Taken, NoMsg
<1>3. NoFeed \in [chan : Clients \cup {Null}, id : Ids] BY <1>1 DEF NoFeed
<1> QED BY <1>2, <1>3, Zenon

(* The driver notes the channel of a message. *)
LEMMA ChanSet ==
  ASSUME NEW m \in Taken, NEW c \in Clients
  PROVE  [m EXCEPT !.chan = c] \in Taken /\ [m EXCEPT !.chan = c].chan = c
BY DEF Taken

(* The driver notes the result of a message. *)
LEMMA ResSet ==
  ASSUME NEW m \in Taken, NEW r \in -1 .. 2
  PROVE  /\ [m EXCEPT !.res = r] \in Taken
         /\ [m EXCEPT !.res = r].res = r /\ [m EXCEPT !.res = r].chan = m.chan
         /\ [m EXCEPT !.res = r].id = m.id /\ [m EXCEPT !.res = r].of = m.of
BY DEF Taken

(* The driver notes the id of a message. *)
LEMMA IdSet ==
  ASSUME NEW m \in Taken, NEW i \in Ids
  PROVE  /\ [m EXCEPT !.id = i] \in Taken /\ [m EXCEPT !.id = i].id = i
         /\ [m EXCEPT !.id = i].chan = m.chan
BY DEF Taken

(* The driver notes the request that a message is to cancel. *)
LEMMA OfSet ==
  ASSUME NEW m \in Taken, NEW o \in Ids
  PROVE  /\ [m EXCEPT !.of = o] \in Taken /\ [m EXCEPT !.of = o].of = o
         /\ [m EXCEPT !.of = o].chan = m.chan /\ [m EXCEPT !.of = o].id = m.id
BY DEF Taken

(* The message of the driver is well-typed, and it has a channel. *)
LEMMA MsgTypes ==
  ASSUME BaseInv
  PROVE  /\ dmsg \in Taken /\ dmsg.chan \in Clients \cup {Null}
         /\ dmsg.id \in Ids /\ dmsg.of \in Ids /\ dmsg.res \in -1 .. 2
         /\ dpc \in {"recv", "handle", "data", "reply"} => dmsg.chan \in Clients
<1>1. dmsg \in Taken BY Zenon DEF BaseInv, Shapes, DriverTypes, Taken
<1>2. /\ dmsg.chan \in Clients \cup {Null} /\ dmsg.id \in Ids /\ dmsg.of \in Ids
      /\ dmsg.res \in -1 .. 2
  BY <1>1 DEF Taken
<1>3. dpc \in {"recv", "handle", "data", "reply"} => dmsg.chan # Null
  BY Zenon DEF BaseInv, Hands
<1> QED BY <1>1, <1>2, <1>3, Zenon

(* The driver is done with its message. *)
LEMMA LoopFacts ==
  ASSUME BaseInv, BackToLoop, pending' \in Seq([chan : Clients, id : Ids]), input' \in BOOLEAN,
         UNCHANGED feeding
  PROVE  DriverTypes' /\ Hands' /\ dpc' \notin KernelPCs
<1>1. dpc' = "loop" /\ dmsg' = NoMsg BY Zenon DEF BackToLoop
<1>2. dpc' \in DriverPCs /\ dpc' \notin KernelPCs BY <1>1, Zenon DEF DriverPCs, KernelPCs
<1>3. DriverTypes'
  BY <1>1, <1>2, NoMsgFacts, Zenon DEF BaseInv, Shapes, DriverTypes, Taken
<1>4. Hands' BY <1>1, Zenon DEF BaseInv, Hands
<1> QED BY <1>2, <1>3, <1>4, Zenon

(* The results of responses. *)
LEMMA Results == -1 \in -1 .. 2 /\ 0 \in -1 .. 2 /\ 1 \in -1 .. 2 /\ 2 \in -1 .. 2
OBVIOUS

(* The types of the queue and of the input thread. *)
LEMMA PendingTypes ==
  ASSUME BaseInv
  PROVE  /\ pending \in Seq([chan : Clients, id : Ids]) /\ input \in BOOLEAN
         /\ feeding \in [chan : Clients \cup {Null}, id : Ids]
BY Zenon DEF BaseInv, Shapes, DriverTypes

(* RequestQueue::cancel. *)
LEMMA CancelRequestFacts ==
  ASSUME Library, NEW q, NEW id, NEW r, r = cancelRequest(q, id)
  PROVE  \/ /\ r = [res |-> 1, queue |-> q]
            /\ \A i \in 1 .. Len(q) : q[i].id # id
         \/ \E i \in 1 .. Len(q) : r = [res |-> 0, queue |-> RemoveAt(q, i)] /\ q[i].id = id
<1> DEFINE I == {i \in 1 .. Len(q) : q[i].id = id}
           k == IF I # {} THEN Min(I) ELSE 0
<1>1. r = IF k = 0 THEN [res |-> 1, queue |-> q] ELSE [res |-> 0, queue |-> RemoveAt(q, k)]
  BY Zenon DEF cancelRequest, SelectInSeq, SelectInSubSeq
<1>2. I \subseteq Nat /\ 0 \notin I OBVIOUS
<1>3. I # {} => Min(I) \in I
  <2> HIDE DEF I
  <2> QED BY <1>2, LeastFacts, Zenon
<1>4. CASE I = {} BY <1>1, <1>4, Zenon
<1>5. CASE I # {}
  <2>1. k \in I BY <1>3, <1>5, Zenon
  <2>2. k # 0 BY <1>2, <2>1, Zenon
  <2>3. k \in 1 .. Len(q) /\ q[k].id = id BY <2>1, Zenon
  <2> HIDE DEF k
  <2> QED BY <1>1, <2>2, <2>3, Zenon
<1> QED BY <1>4, <1>5, Zenon

(* The parts of handleCancel: it is too late to cancel, the request is in  *)
(* the queue and taken out, or it is not.                                  *)
LEMMA HandleCancelParts ==
  ASSUME Library, BaseInv, handleCancel
  PROVE  /\ dpc = "handle" /\ dpc' = "reply" /\ dmsg.id.op = "CANCEL" /\ feeding = NoFeed
         /\ UNCHANGED <<nodeVars, listVars, closed, lastClient, driverFds, clientVars, sig,
                        input, feeding, waiting>>
         /\ \/ /\ dmsg.of.op = "WRITE" \/ input
               /\ dmsg' = [dmsg EXCEPT !.res = 1] /\ UNCHANGED pending
            \/ /\ dmsg' = [dmsg EXCEPT !.res = 1] /\ UNCHANGED pending
               /\ \A i \in 1 .. Len(pending) : pending[i].id # dmsg.of
            \/ /\ dmsg.of.op # "WRITE" /\ ~input /\ dmsg' = [dmsg EXCEPT !.res = 0]
               /\ \E i \in 1 .. Len(pending) : /\ pending' = RemoveAt(pending, i)
                                               /\ pending[i].id = dmsg.of
<1> DEFINE r == cancelRequest(pending, dmsg.of)
<1>1. /\ dpc = "handle" /\ dpc' = "reply" /\ dmsg.id.op = "CANCEL" /\ feeding = NoFeed
      /\ UNCHANGED <<nodeVars, listVars, closed, lastClient, driverFds, clientVars, sig,
                     input, feeding, waiting>>
      /\ \/ /\ dmsg.of.op = "WRITE" \/ input
            /\ dmsg' = [dmsg EXCEPT !.res = 1] /\ UNCHANGED pending
         \/ /\ ~(dmsg.of.op = "WRITE" \/ input)
            /\ dmsg' = [dmsg EXCEPT !.res = r.res] /\ pending' = r.queue
  BY Zenon DEF handleCancel, mutexFree
<1>2. r = cancelRequest(pending, dmsg.of) BY Zenon
<1> HIDE DEF r
<1>3. \/ /\ r = [res |-> 1, queue |-> pending]
         /\ \A i \in 1 .. Len(pending) : pending[i].id # dmsg.of
      \/ \E i \in 1 .. Len(pending) : /\ r = [res |-> 0, queue |-> RemoveAt(pending, i)]
                                      /\ pending[i].id = dmsg.of
  BY ONLY Library, <1>2, CancelRequestFacts
<1>4. CASE ~(dmsg.of.op = "WRITE" \/ input) /\ dmsg' = [dmsg EXCEPT !.res = r.res] /\ pending' = r.queue
  <2>1. CASE /\ r = [res |-> 1, queue |-> pending]
             /\ \A i \in 1 .. Len(pending) : pending[i].id # dmsg.of
    <3>1. r.res = 1 /\ r.queue = pending BY <2>1, Zenon
    <3> QED BY <1>1, <1>4, <2>1, <3>1, Zenon
  <2>2. CASE \E i \in 1 .. Len(pending) : /\ r = [res |-> 0, queue |-> RemoveAt(pending, i)]
                                          /\ pending[i].id = dmsg.of
    <3>1. PICK i \in 1 .. Len(pending) : /\ r = [res |-> 0, queue |-> RemoveAt(pending, i)]
                                         /\ pending[i].id = dmsg.of
      BY <2>2, Zenon
    <3>2. r.res = 0 /\ r.queue = RemoveAt(pending, i) BY <3>1, Zenon
    <3> QED BY <1>1, <1>4, <3>1, <3>2, Zenon
  <2> QED BY <1>3, <2>1, <2>2, Zenon
<1> QED BY <1>1, <1>4, Zenon

(* The first request of the queue. *)
LEMMA HeadFacts ==
  ASSUME NEW q \in Seq([chan : Clients, id : Ids]), q # <<>>
  PROVE  /\ Head(q).chan \in Clients /\ Head(q).id \in Ids
         /\ Head(q) \in [chan : Clients \cup {Null}, id : Ids]
         /\ Tail(q) \in Seq([chan : Clients, id : Ids])
<1> DEFINE Q == [chan : Clients, id : Ids]
<1>1. q \in Seq(Q) BY Zenon
<1> HIDE DEF Q
<1>2. Head(q) \in Q /\ Tail(q) \in Seq(Q) BY <1>1
<1>3. Head(q) \in [chan : Clients, id : Ids] BY <1>2, Zenon DEF Q
<1>4. /\ Head(q).chan \in Clients /\ Head(q).id \in Ids
      /\ Head(q) \in [chan : Clients \cup {Null}, id : Ids]
  BY ONLY <1>3
<1> QED BY <1>2, <1>4, Zenon DEF Q

(* Nothing has been sent or received since msgCount was read. *)
LEMMA InvalidateParts ==
  ASSUME BaseInv, invalidate
  PROVE  /\ rmw # NoRmw /\ rmw.chan \in Clients /\ rmw' = NoRmw
         /\ sendList' = [sendList EXCEPT ![rmw.chan] = <<>>]
         /\ recvList' = [recvList EXCEPT ![rmw.chan] = <<>>]
         /\ children' = RemoveFirst(children, rmw.chan)
         /\ node' = [node EXCEPT ![rmw.chan] = "none"]
         /\ closed' = [closed EXCEPT ![rmw.chan] = FALSE]
         /\ lastClient' \in Clients \cup {Null}
         /\ msgCount' = msgCount - Len(sendList[rmw.chan])
         /\ UNCHANGED <<refs, devAlive, driverFds, clientVars, sig, driverVars, waiting>>
<1> DEFINE c == rmw.chan
           n == Len(sendList[c])
<1>1. /\ rmw # NoRmw /\ rmw' = NoRmw /\ clientRemoved(c)
      /\ msgCount' \in {rmw.count - n, msgCount - n} \cup ({msgCount} \ {rmw.count})
      /\ sendList' = [sendList EXCEPT ![c] = <<>>] /\ recvList' = [recvList EXCEPT ![c] = <<>>]
      /\ children' = RemoveFirst(children, c) /\ node' = [node EXCEPT ![c] = "none"]
      /\ closed' = [closed EXCEPT ![c] = FALSE]
      /\ UNCHANGED <<refs, devAlive, driverFds, clientVars, sig, driverVars, waiting>>
  BY Zenon DEF invalidate
<1>2. rmw.chan # Null /\ rmw.count = msgCount BY <1>1, Zenon DEF BaseInv, Kernel
<1>3. c \in Clients
  <2>1. rmw \in [by : Clients \cup {Driver, Null}, chan : Clients \cup {Null}, count : Int]
    BY Zenon DEF BaseInv, Shapes, NodeTypes
  <2>2. rmw.chan \in Clients \cup {Null} BY ONLY <2>1
  <2> QED BY <1>2, <2>2, Zenon
<1> HIDE DEF n
<1>4. msgCount' = msgCount - n BY <1>1, <1>2, Zenon
<1>5. lastClient' \in Clients \cup {Null}
  <2>1. lastClient \in Clients \cup {Null} /\ children \in Seq(Clients)
    BY Zenon DEF BaseInv, Shapes, NodeTypes, OtherTypes
  <2>2. \A i \in 1 .. Len(children) - 1 : children[i + 1] \in Clients BY ONLY <2>1
  <2> HIDE DEF c
  <2> QED BY <1>1, <2>1, <2>2, Zenon DEF clientRemoved
<1> QED BY <1>1, <1>3, <1>4, <1>5, Zenon DEF n

-----------------------------------------------------------------------------
(* A client that does not want to block can cancel its requests.           *)
Cancellable == "CANCEL" \in DevOps \/ Noblock = {}

(* The device has a name until the driver that dies has destroyed it.      *)
DeviceNamed ==
  /\ devAlive <=> dpc \notin {"closefds", "dead"}
  /\ ~devAlive => \A c \in Clients : ~isAlive(c)

Running == dpc \in {"loop", "sleep", "recv", "handle", "data", "reply"}

InQueue(c) == \E i \in 1 .. Len(pending) : pending[i].chan = c

(* The queue of the driver: one request of a client, which is the current  *)
(* one, and no input is left while somebody waits for it.                  *)
Queue ==
  /\ \A i, j \in 1 .. Len(pending) : pending[i].chan = pending[j].chan => i = j
  /\ \A i \in 1 .. Len(pending) : pending[i].id = cur[pending[i].chan].id
  /\ input => pending = <<>>
  /\ feeding.chan # Null => feeding.id = cur[feeding.chan].id

(* The ids of two requests differ. *)
Distinct ==
  \A c, d \in Clients : c # d /\ cur[c].id.rid # 0 => cur[c].id # cur[d].id

(* The driver has a message of c; nobody has anything of c. *)
Holds(c) == dpc # "recv" /\ dmsg.chan = c

Silent(c) ==
  /\ sendList[c] = <<>> /\ recvList[c] = <<>>
  /\ ~Holds(c) /\ feeding.chan # c /\ ~InQueue(c)

(* The places of the request of a client and of its cancel message.        *)
Places == {"sent", "handle", "reply", "queue", "data", "feed", "answered", "gone"}
CancelPlaces == {"none", "sent", "handle", "reply", "answered"}

(* The messages of the call q and of its cancel message with the id n. *)
Msg(q) == [id |-> q.id, of |-> NoId]
CancelMsg(q, n) == [id |-> [op |-> "CANCEL", rid |-> n], of |-> q.id]
Ans(q, res) == [id |-> q.id, res |-> res]
CancelRes(o) == IF o = "answered" THEN 1 ELSE 0
CancelAns(n, o) == [id |-> [op |-> "CANCEL", rid |-> n], res |-> CancelRes(o)]

(* The messages and the responses that are in the lists. *)
Msgs(q, o) ==
  IF o = "sent" THEN IF q.id.op = "WRITE" THEN <<Msg(q), Msg(q)>> ELSE <<Msg(q)>>
  ELSE IF o = "handle" /\ q.id.op = "WRITE" THEN <<Msg(q)>> ELSE <<>>

Answers(q, o) ==
  IF o \in {"data", "feed"} /\ q.part = 1 THEN {<<Ans(q, 1)>>}
  ELSE IF o = "answered" THEN
    IF q.part = 2 THEN {<<Ans(q, 2)>>}
    ELSE {<<Ans(q, -1)>>, <<Ans(q, 0)>>}
         \cup (IF q.id.op = "READ" THEN {<<Ans(q, 1), Ans(q, 2)>>} ELSE {})
  ELSE {<<>>}

(* The request is at o and the cancel message at k: what is in the lists,  *)
(* what the driver has in hand and in its queue, and which places go       *)
(* together.                                                               *)
Lists(c, o, k) ==
  /\ sendList[c] = IF k = "sent" THEN Append(Msgs(cur[c], o), CancelMsg(cur[c], cancelId[c]))
                                 ELSE Msgs(cur[c], o)
  /\ \E s \in Answers(cur[c], o) :
       recvList[c] = IF k = "answered" THEN Append(s, CancelAns(cancelId[c], o)) ELSE s

InHand(c, o, k) ==
  /\ o \in {"handle", "reply", "data"} => Holds(c) /\ dpc = o /\ dmsg.id = cur[c].id
  /\ k \in {"handle", "reply"} =>
       Holds(c) /\ dpc = k /\ dmsg.id = [op |-> "CANCEL", rid |-> cancelId[c]] /\ dmsg.of = cur[c].id
  /\ Holds(c) => o \in {"handle", "reply", "data"} \/ k \in {"handle", "reply"}
  /\ o = "reply" => dmsg.res = 0
  /\ k = "reply" => dmsg.res = CancelRes(o)

InPlace(c, o, k) ==
  /\ InQueue(c) <=> o = "queue"
  /\ feeding.chan = c <=> o = "feed"
  /\ cancelId[c] = 0 <=> k = "none"

Legal(c, o, k) ==
  /\ o \in {"sent", "handle", "reply", "data"} => k \in {"none", "sent"}
  /\ k \in {"reply", "answered"} => o \in {"answered", "gone"}
  /\ o = "gone" => k \in {"reply", "answered"}
  /\ o \in {"data", "feed", "queue"} => cur[c].id.op = "READ"
  /\ o = "reply" => cur[c].id.op = "WRITE"
  /\ cur[c].part = 2 => /\ cur[c].id.op = "READ" /\ ~cur[c].sigs
                        /\ k = "none" /\ o \in {"data", "feed", "answered"}

(* The flags of receive(): only a request that can be cancelled may be     *)
(* interrupted, and the data of a read is there if receive() may not wait. *)
Flags(c, o, k) ==
  /\ cur[c].sigs => "CANCEL" \in DevOps /\ cur[c].part = 1
  /\ cpc[c] = "cancel" => k = "none" /\ "CANCEL" \in DevOps /\ cur[c].part = 1
  /\ c \in Noblock /\ k = "none" /\ cur[c].id.op = "READ" =>
       IF cur[c].block \/ cur[c].part = 2 THEN o = "answered"
       ELSE cpc[c] \in {"recv", "cancel"} /\ o = "sent"
  /\ ~cur[c].block => cur[c].part = 2 \/ "CANCEL" \in DevOps

At(c, o, k) == Lists(c, o, k) /\ InHand(c, o, k) /\ InPlace(c, o, k) /\ Legal(c, o, k) /\ Flags(c, o, k)

-----------------------------------------------------------------------------
(* A channel and its client while the driver runs: without a file (the     *)
(* node may be about to be freed), open, about to send, in a call, closing *)
(* and after a failed open.                                                *)
HasFile(c, n) ==
  isAlive(c) /\ refs[c] = n /\ c \in driverFds /\ rmw.chan # c

Absent(c) ==
  /\ cpc[c] = "out" /\ Silent(c) /\ cancelId[c] = 0
  /\ refs[c] = 0 /\ c \notin driverFds /\ (rmw.chan = c <=> node[c] # "none")

Open(c) ==
  /\ cpc[c] \in {"idle", "fail"} /\ Silent(c) /\ cancelId[c] = 0
  /\ HasFile(c, 2) /\ ~closed[c]

Sending(c) ==
  /\ cpc[c] = "send" /\ Silent(c) /\ cancelId[c] = 0 /\ ~closed[c]
  /\ \/ cur[c].id.op = "CLOSE" /\ HasFile(c, 1)
     \/ /\ cur[c].id.op \in {"OPEN", "READ", "WRITE"} /\ HasFile(c, 2)
        /\ cur[c].part = 1
        /\ cur[c].sigs => "CANCEL" \in DevOps
        /\ cur[c].id.op = "READ" /\ c \in Noblock => ~cur[c].block
        /\ ~cur[c].block => "CANCEL" \in DevOps

Talking(c) ==
  /\ cpc[c] \in {"cancel", "recv", "sleep"} /\ HasFile(c, 2) /\ ~closed[c]
  /\ cur[c].id.op \in {"OPEN", "READ", "WRITE"} /\ cur[c].id.rid # 0
  /\ \E o \in Places, k \in CancelPlaces : At(c, o, k)

Closing(c) ==
  /\ cpc[c] \in {"closed", "out"} /\ HasFile(c, 1) /\ cancelId[c] = 0
  /\ recvList[c] = <<>> /\ feeding.chan # c /\ ~InQueue(c)
  /\ \/ /\ ~Holds(c)
        /\ \E m \in Requests : sendList[c] = <<m>> /\ m.id.op = "CLOSE"
     \/ sendList[c] = <<>> /\ Holds(c) /\ dpc = "handle" /\ dmsg.id.op = "CLOSE"

Failed(c) ==
  /\ cpc[c] = "release" /\ Silent(c) /\ cancelId[c] = 0
  /\ node[c] = "dead" /\ refs[c] = 1 /\ c \notin driverFds /\ rmw.chan # c

ClientInv(c) ==
  Absent(c) \/ Open(c) \/ Sending(c) \/ Talking(c) \/ Closing(c) \/ Failed(c)

InTouch == Running => \A c \in Clients : ClientInv(c)

(* A driver that dies has nothing in hand. *)
Dying ==
  /\ ~Running => pending = <<>> /\ feeding = NoFeed
  /\ dpc \in {"wakeup", "destroy"} =>
       \A c \in Clients : cpc[c] = "idle" => sendList[c] = <<>> /\ recvList[c] = <<>>

(* Nothing in its channel is what c waits for. *)
Nothing(c) == \A j \in 1 .. Len(recvList[c]) : ~Matches(c, recvList[c][j])

(* The driver only waits for work if there is none, and a client for a     *)
(* message that is not there yet.                                          *)
Sleepers ==
  /\ Driver \in waiting => dpc = "sleep" /\ \A c \in Clients : isAlive(c) => sendList[c] = <<>>
  /\ \A c \in waiting \cap Clients : /\ cpc[c] = "sleep" /\ isAlive(c) /\ Nothing(c)
                                     /\ Running \/ dpc = "wakeup"

TalkInv == DeviceNamed /\ Queue /\ Distinct /\ InTouch /\ Dying /\ Sleepers

-----------------------------------------------------------------------------
(* Short sequences. *)
LEMMA Pair ==
  ASSUME NEW a, NEW b
  PROVE  Append(<<a>>, b) = <<a, b>>
<1>1. <<a>> \in Seq({a, b}) /\ <<a, b>> \in Seq({a, b}) BY ONLY TRUE
<1>2. Append(<<a>>, b) \in Seq({a, b}) BY ONLY <1>1
<1>3. Len(Append(<<a>>, b)) = 2 /\ Len(<<a, b>>) = 2 BY ONLY <1>1
<1>4. \A i \in 1 .. 2 : Append(<<a>>, b)[i] = <<a, b>>[i] BY ONLY <1>1
<1>5. ASSUME NEW S, NEW s \in Seq(S), NEW t \in Seq(S), Len(s) = 2, Len(t) = 2,
             \A i \in 1 .. 2 : s[i] = t[i]
      PROVE  s = t
  BY ONLY <1>5
<1> QED BY <1>1, <1>2, <1>3, <1>4, <1>5, Zenon

(* Sequences with up to two elements. *)
LEMMA Ends ==
  ASSUME NEW a, NEW b
  PROVE  /\ Append(<<>>, a) = <<a>> /\ <<>> \o <<a>> = <<a>> /\ <<>> \o <<a, b>> = <<a, b>>
         /\ Head(<<a>>) = a /\ Tail(<<a>>) = <<>> /\ Head(<<a, b>>) = a /\ Tail(<<a, b>>) = <<b>>
         /\ <<a>> # <<>> /\ <<a, b>> # <<>>
         /\ <<a>> \in Seq({a, b}) /\ <<a, b>> \in Seq({a, b}) /\ <<>> \in Seq({a, b})
         /\ Len(<<>>) = 0 /\ Len(<<a>>) = 1 /\ Len(<<a, b>>) = 2
         /\ <<a>>[1] = a /\ <<a, b>>[1] = a /\ <<a, b>>[2] = b
BY ONLY TRUE

(* A sequence to which an element is appended. *)
LEMMA LastFacts ==
  ASSUME NEW S, NEW s \in Seq(S), NEW x \in S
  PROVE  /\ s \o <<x>> = Append(s, x) /\ Append(s, x) \in Seq(S) /\ Append(s, x) # <<>>
         /\ Len(Append(s, x)) = Len(s) + 1 /\ Append(s, x)[Len(s) + 1] = x
         /\ \A j \in 1 .. Len(s) : Append(s, x)[j] = s[j]
         /\ s # <<>> => Head(Append(s, x)) = Head(s) /\ Tail(Append(s, x)) = Append(Tail(s), x)
<1>1. s \o <<x>> = Append(s, x) BY ONLY TRUE
<1>2. Append(s, x) \in Seq(S) BY ONLY TRUE
<1>3. /\ Len(Append(s, x)) = Len(s) + 1 /\ Append(s, x)[Len(s) + 1] = x
      /\ \A j \in 1 .. Len(s) : Append(s, x)[j] = s[j]
  BY ONLY TRUE
<1>4. s # <<>> => Head(Append(s, x)) = Head(s) /\ Tail(Append(s, x)) = Append(Tail(s), x)
  BY ONLY TRUE
<1>5. Append(s, x) # <<>>
  <2>1. Len(s) \in Nat /\ Len(Append(s, x)) = Len(s) + 1 BY ONLY TRUE
  <2> QED BY ONLY <2>1
<1> QED BY <1>1, <1>2, <1>3, <1>4, <1>5, Zenon

(* The first and the last element of a sequence are taken out. *)
LEMMA RemoveEnds ==
  ASSUME NEW S, NEW s \in Seq(S), NEW x \in S
  PROVE  /\ RemoveAt(Append(s, x), Len(s) + 1) = s
         /\ s # <<>> => RemoveAt(s, 1) = Tail(s)
BY ONLY TRUE DEF RemoveAt

-----------------------------------------------------------------------------
(* What ClientInv(d) is about does not change. *)
Same(d) ==
  /\ node'[d] = node[d] /\ refs'[d] = refs[d] /\ closed'[d] = closed[d]
  /\ sendList'[d] = sendList[d] /\ recvList'[d] = recvList[d]
  /\ cpc'[d] = cpc[d] /\ cur'[d] = cur[d] /\ cancelId'[d] = cancelId[d]
  /\ d \in driverFds' <=> d \in driverFds
  /\ rmw'.chan = d <=> rmw.chan = d
  /\ InQueue(d)' <=> InQueue(d)
  /\ feeding'.chan = d <=> feeding.chan = d
  /\ Holds(d)' <=> Holds(d)
  /\ Holds(d) => dpc' = dpc /\ dmsg' = dmsg

(* A call stays in its place if nothing of it changes. *)
LEMMA SameAt ==
  ASSUME NEW d, NEW o, NEW k, Same(d), At(d, o, k)
  PROVE  At(d, o, k)'
<1>1. Lists(d, o, k)' BY Zenon DEF Same, At, Lists
<1>2. InHand(d, o, k)'
  <2>1. cancelId'[d] = cancelId[d] /\ cur'[d] = cur[d] BY Zenon DEF Same
  <2>2. CASE Holds(d)
    <3>1. Holds(d)' /\ dpc' = dpc /\ dmsg' = dmsg BY <2>2, Zenon DEF Same
    <3>2. InHand(d, o, k) BY Zenon DEF At
    <3> QED BY ONLY <2>1, <2>2, <3>1, <3>2, Zenon DEF InHand
  <2>3. CASE ~Holds(d)
    <3>1. ~Holds(d)' BY <2>3, Zenon DEF Same
    <3>2. o \notin {"handle", "reply", "data"} /\ k \notin {"handle", "reply"}
      BY <2>3, Zenon DEF At, InHand
    <3> QED BY <3>1, <3>2, Zenon DEF InHand
  <2> QED BY <2>2, <2>3, Zenon
<1>3. InPlace(d, o, k)' BY Zenon DEF Same, At, InPlace
<1>4. Legal(d, o, k)' BY Zenon DEF Same, At, Legal
<1>5. Flags(d, o, k)' BY Zenon DEF Same, At, Flags
<1> QED BY <1>1, <1>2, <1>3, <1>4, <1>5, Zenon DEF At

(* A step that changes nothing of a client keeps its part of the invariant. *)
LEMMA SameClient ==
  ASSUME NEW d, Same(d), ClientInv(d)
  PROVE  ClientInv(d)'
<1>1. \A n : HasFile(d, n)' <=> HasFile(d, n) BY Zenon DEF Same, HasFile, isAlive
<1>2. Silent(d)' <=> Silent(d) BY Zenon DEF Same, Silent
<1>3. CASE Absent(d) BY <1>2, <1>3, Zenon DEF Same, ClientInv, Absent
<1>4. CASE Open(d) BY <1>1, <1>2, <1>4, Zenon DEF Same, ClientInv, Open
<1>5. CASE Sending(d) BY <1>1, <1>2, <1>5, Zenon DEF Same, ClientInv, Sending
<1>6. CASE Talking(d)
  <2>1. PICK o \in Places, k \in CancelPlaces : At(d, o, k) BY <1>6, Zenon DEF Talking
  <2>2. At(d, o, k)' BY <2>1, SameAt, Zenon
  <2>3. \E p \in Places, q \in CancelPlaces : At(d, p, q)' BY <2>2, Zenon
  <2> QED BY <1>1, <1>6, <2>3, Zenon DEF Same, ClientInv, Talking
<1>7. CASE Closing(d)
  <2>1. CASE Holds(d)
    <3>1. Holds(d)' /\ dpc' = dpc /\ dmsg' = dmsg BY <2>1, Zenon DEF Same
    <3> QED BY <1>1, <1>7, <2>1, <3>1, Zenon DEF Same, ClientInv, Closing
  <2>2. CASE ~Holds(d)
    <3>1. ~Holds(d)' BY <2>2, Zenon DEF Same
    <3> QED BY <1>1, <1>7, <2>2, <3>1, Zenon DEF Same, ClientInv, Closing
  <2> QED BY <2>1, <2>2, Zenon
<1>8. CASE Failed(d) BY <1>2, <1>8, Zenon DEF Same, ClientInv, Failed
<1> QED BY <1>3, <1>4, <1>5, <1>6, <1>7, <1>8, Zenon DEF ClientInv

-----------------------------------------------------------------------------
(* The types of the requests in the queue. *)
LEMMA PendingFacts ==
  ASSUME BaseInv, NEW i \in 1 .. Len(pending)
  PROVE  pending[i].chan \in Clients /\ pending[i].id \in Ids
<1> DEFINE Q == [chan : Clients, id : Ids]
<1>1. pending \in Seq(Q) BY PendingTypes, Zenon
<1>2. pending[i] \in Q
  <2> HIDE DEF Q
  <2> QED BY ONLY <1>1, i \in 1 .. Len(pending)
<1> QED BY ONLY <1>2

(* A step that concerns the driver and c, if that is a client. *)
LEMMA StepTalk ==
  ASSUME TalkInv, NEW c, \A d \in Clients \ {c} : Same(d),
         DeviceNamed', Queue', Distinct', Dying',
         Running' => Running /\ (c \in Clients => ClientInv(c)'),
         Running \/ dpc = "wakeup" => Running' \/ dpc' = "wakeup",
         \A d \in Clients \ {c} : d \in waiting' => d \in waiting,
         c \in waiting' => cpc'[c] = "sleep" /\ isAlive(c)' /\ Nothing(c)' /\ Running',
         Driver \in waiting' =>
           dpc' = "sleep" /\ \A d \in Clients : isAlive(d)' => sendList'[d] = <<>>
  PROVE  TalkInv'
<1>1. InTouch'
  <2> SUFFICES ASSUME Running', NEW d \in Clients PROVE ClientInv(d)' BY Zenon DEF InTouch
  <2>1. CASE d = c BY <2>1, Zenon
  <2>2. CASE d # c
    <3>1. Same(d) /\ ClientInv(d) BY <2>2, Zenon DEF TalkInv, InTouch
    <3> QED BY <3>1, SameClient, Zenon
  <2> QED BY <2>1, <2>2, Zenon
<1>2. Sleepers'
  <2> SUFFICES ASSUME NEW d \in Clients, d \in waiting', d # c
               PROVE  /\ cpc'[d] = "sleep" /\ isAlive(d)' /\ Nothing(d)'
                      /\ Running' \/ dpc' = "wakeup"
    BY Zenon DEF Sleepers
  <2>1. Same(d) /\ d \in waiting BY Zenon
  <2>2. cpc[d] = "sleep" /\ isAlive(d) /\ Nothing(d) /\ (Running \/ dpc = "wakeup")
    BY <2>1, Zenon DEF TalkInv, Sleepers
  <2>3. Nothing(d)'
    <3>1. Expected(d)' = Expected(d) /\ recvList'[d] = recvList[d]
      BY <2>1, Zenon DEF Same, Expected
    <3> QED BY <2>2, <3>1, Zenon DEF Nothing, Matches
  <2> QED BY <2>1, <2>2, <2>3, Zenon DEF Same, isAlive
<1> QED BY <1>1, <1>2, Zenon DEF TalkInv

(* The other clients and their channels do not change. *)
Untouched(c) ==
  \A d \in Clients \ {c} :
    /\ node'[d] = node[d] /\ refs'[d] = refs[d] /\ closed'[d] = closed[d]
    /\ sendList'[d] = sendList[d] /\ recvList'[d] = recvList[d]
    /\ cpc'[d] = cpc[d] /\ cur'[d] = cur[d] /\ cancelId'[d] = cancelId[d]
    /\ d \in driverFds' <=> d \in driverFds

(* A step of the client c. *)
LEMMA ClientTalk ==
  ASSUME NCPU = 1, Library, BaseInv, TalkInv, NEW c \in Clients, MayRun(c),
         UNCHANGED <<driverVars, devAlive>>, Untouched(c), Distinct',
         rmw' = NoRmw \/ rmw'.chan = c,
         waiting' \subseteq waiting \cup {c},
         c \in waiting' => cpc'[c] = "sleep" /\ isAlive(c)' /\ Nothing(c)',
         isAlive(c)' => devAlive,
         Driver \in waiting' /\ isAlive(c)' => sendList'[c] = <<>>,
         Running => /\ ClientInv(c)'
                    /\ cur'[c].id = cur[c].id \/ (~InQueue(c) /\ feeding.chan # c)
  PROVE  TalkInv'
<1>1. UNCHANGED <<dpc, dmsg, pending, input, feeding, devAlive>> BY Zenon DEF driverVars
<1>2. rmw = NoRmw /\ dpc \notin KernelPCs /\ c # Driver
  <2>1. c # Driver BY Names, Zenon
  <2> QED BY <2>1, Alone, Zenon DEF BaseInv, Shapes
<1>3. \A d \in Clients \ {c} : Same(d)
  <2> SUFFICES ASSUME NEW d \in Clients \ {c} PROVE Same(d) OBVIOUS
  <2>1. rmw'.chan # d /\ rmw.chan # d BY <1>2, Names, Nothings, Zenon
  <2>2. (InQueue(d)' <=> InQueue(d)) /\ (Holds(d)' <=> Holds(d)) BY <1>1, Zenon DEF InQueue, Holds
  <2> QED BY <1>1, <2>1, <2>2, Zenon DEF Same, Untouched
<1>4. DeviceNamed'
  <2>1. \A d \in Clients : isAlive(d)' => devAlive
    BY Zenon DEF TalkInv, DeviceNamed, Untouched, isAlive
  <2>2. ~devAlive => \A d \in Clients : ~isAlive(d)' BY <2>1, Zenon
  <2>3. devAlive <=> dpc \notin {"closefds", "dead"} BY Zenon DEF TalkInv, DeviceNamed
  <2> QED BY <1>1, <2>2, <2>3, Zenon DEF DeviceNamed
<1>5. Dying'
  <2>1. dpc \notin {"wakeup", "destroy"} BY <1>2, Zenon DEF KernelPCs
  <2> QED BY <1>1, <2>1, Zenon DEF TalkInv, Dying, Running
<1>6. Queue'
  <2>1. cur'[c].id = cur[c].id \/ (~InQueue(c) /\ feeding.chan # c)
    <3>1. CASE ~Running
      <4>1. pending = <<>> /\ feeding = NoFeed BY <3>1, Zenon DEF TalkInv, Dying
      <4>2. 1 .. Len(pending) = {} BY ONLY <4>1
      <4>3. c # Null BY Names, Zenon
      <4> QED BY <4>1, <4>2, <4>3, Nothings, Zenon DEF InQueue
    <3> QED BY <3>1, Zenon
  <2>2. \A i \in 1 .. Len(pending) : pending[i].chan \in Clients BY PendingFacts, Zenon
  <2>3. \A d \in Clients : d # c => cur'[d] = cur[d] BY Zenon DEF Untouched
  <2>4. \A i \in 1 .. Len(pending) : pending[i].id = cur'[pending[i].chan].id
    <3> SUFFICES ASSUME NEW i \in 1 .. Len(pending)
                 PROVE  pending[i].id = cur'[pending[i].chan].id
      BY Zenon
    <3>1. pending[i].id = cur[pending[i].chan].id BY Zenon DEF TalkInv, Queue
    <3>2. CASE pending[i].chan = c BY <2>1, <3>1, <3>2, Zenon DEF InQueue
    <3>3. CASE pending[i].chan # c BY <2>2, <2>3, <3>1, <3>3, Zenon
    <3> QED BY <3>2, <3>3, Zenon
  <2>5. feeding.chan # Null => feeding.id = cur'[feeding.chan].id
    <3>1. feeding.chan # Null => feeding.chan \in Clients
      <4>1. feeding \in [chan : Clients \cup {Null}, id : Ids] BY PendingTypes, Zenon
      <4>2. feeding.chan \in Clients \cup {Null} BY ONLY <4>1
      <4> QED BY <4>2, Zenon
    <3>2. feeding.chan # Null => feeding.id = cur[feeding.chan].id BY Zenon DEF TalkInv, Queue
    <3> QED BY <2>1, <2>3, <3>1, <3>2, Zenon
  <2> QED BY <1>1, <2>4, <2>5, Zenon DEF TalkInv, Queue
<1>7. Running' <=> Running BY <1>1, Zenon DEF Running
<1>8. c \in waiting' => Running'
  <2>1. c \in waiting' => dpc \notin {"closefds", "dead"}
    BY <1>1, Zenon DEF TalkInv, DeviceNamed
  <2>2. dpc \in DriverPCs BY Zenon DEF BaseInv, Shapes, DriverTypes
  <2> QED BY <1>2, <1>7, <2>1, <2>2, Zenon DEF Running, DriverPCs, KernelPCs
<1>9. Driver \in waiting' =>
        dpc' = "sleep" /\ \A d \in Clients : isAlive(d)' => sendList'[d] = <<>>
  <2>1. Driver \in waiting' => Driver \in waiting BY <1>2, Zenon
  <2> QED BY <1>1, <2>1, Zenon DEF TalkInv, Sleepers, Untouched, isAlive
<1> QED BY <1>1, <1>3, <1>4, <1>5, <1>6, <1>7, <1>8, <1>9, StepTalk, Zenon

(* The ids stay different if one client gets a new one. *)
LEMMA DistinctStep ==
  ASSUME Distinct, NEW c \in Clients, \A d \in Clients \ {c} : cur'[d] = cur[d],
         \/ cur'[c].id = cur[c].id
         \/ cur'[c].id.rid = 0
         \/ \A d \in Clients : cur'[c].id # cur[d].id
  PROVE  Distinct'
<1> SUFFICES ASSUME NEW x \in Clients, NEW y \in Clients, x # y, cur'[x].id.rid # 0,
                    cur'[x].id = cur'[y].id
             PROVE  FALSE
  BY Zenon DEF Distinct
<1>1. CASE x # c /\ y # c BY <1>1, Zenon DEF Distinct
<1>2. CASE x = c BY <1>2, Zenon DEF Distinct
<1>3. CASE y = c BY <1>3, Zenon DEF Distinct
<1> QED BY <1>1, <1>2, <1>3, Zenon

-----------------------------------------------------------------------------
(* What the position of a client says. *)
LEMMA AtPC ==
  ASSUME NEW c, ClientInv(c)
  PROVE  /\ cpc[c] \in {"idle", "fail"} => Open(c)
         /\ cpc[c] = "send" => Sending(c)
         /\ cpc[c] \in {"cancel", "recv", "sleep"} => Talking(c)
         /\ cpc[c] = "closed" => Closing(c)
         /\ cpc[c] = "release" => Failed(c)
         /\ cpc[c] = "out" => Absent(c) \/ Closing(c)
BY Zenon DEF ClientInv, Absent, Open, Sending, Talking, Closing, Failed

(* What a client that runs may rely on: the driver is not in the kernel,   *)
(* and not dying if the channel is alive.                                  *)
LEMMA ClientRuns ==
  ASSUME NCPU = 1, Library, BaseInv, TalkInv, NEW c \in Clients, MayRun(c)
  PROVE  /\ Running <=> devAlive
         /\ isAlive(c) => Running
         /\ Running => ClientInv(c)
         /\ rmw = NoRmw
         /\ cpc[c] # "sleep" => c \notin waiting
<1>1. dpc \notin KernelPCs /\ rmw = NoRmw
  <2>1. c # Driver BY Names, Zenon
  <2> QED BY <2>1, Alone, Zenon DEF BaseInv, Shapes
<1>2. dpc \in DriverPCs BY Zenon DEF BaseInv, Shapes, DriverTypes
<1>3. Running <=> dpc \notin {"closefds", "dead"}
  BY <1>1, <1>2, Zenon DEF KernelPCs, DriverPCs, Running
<1>4. devAlive <=> dpc \notin {"closefds", "dead"} BY Zenon DEF TalkInv, DeviceNamed
<1>5. isAlive(c) => devAlive BY Zenon DEF TalkInv, DeviceNamed
<1>6. Running => ClientInv(c) BY Zenon DEF TalkInv, InTouch
<1>7. cpc[c] # "sleep" => c \notin waiting BY Zenon DEF TalkInv, Sleepers
<1> QED BY <1>1, <1>3, <1>4, <1>5, <1>6, <1>7, Zenon

(* What the driver has of c does not change. *)
LEMMA SilentSame ==
  ASSUME NEW c, Silent(c), UNCHANGED driverVars,
         sendList'[c] = sendList[c], recvList'[c] = recvList[c]
  PROVE  Silent(c)'
<1>1. UNCHANGED <<dpc, dmsg, pending, input, feeding>> BY Zenon DEF driverVars
<1>2. (InQueue(c)' <=> InQueue(c)) /\ (Holds(c)' <=> Holds(c)) BY <1>1, Zenon DEF InQueue, Holds
<1> QED BY <1>1, <1>2, Zenon DEF Silent

(* Open creates the channel and its node, and its request. *)
LEMMA OpenTalk ==
  ASSUME NCPU = 1, Library, BaseInv, TalkInv, NEW c \in Clients, open(c)
  PROVE  TalkInv'
<1> DEFINE q == [id |-> [op |-> "OPEN", rid |-> 0], sigs |-> FALSE, block |-> TRUE, part |-> 1]
<1>1. /\ MayRun(c) /\ cpc[c] = "out" /\ devAlive /\ node[c] = "none"
      /\ node' = [node EXCEPT ![c] = "alive"] /\ refs' = [refs EXCEPT ![c] = 2]
      /\ driverFds' = driverFds \cup {c} /\ closed' = [closed EXCEPT ![c] = FALSE]
      /\ cur' = [cur EXCEPT ![c] = q]
      /\ cpc' = [cpc EXCEPT ![c] = IF "OPEN" \in DevOps THEN "send" ELSE "idle"]
      /\ UNCHANGED <<devAlive, rmw, sendList, recvList, cancelId, driverVars, waiting>>
  BY Zenon DEF open, Leave, Goto, listVars
<1>2. q.id.op = "OPEN" /\ q.id.rid = 0 /\ q.sigs = FALSE /\ q.block = TRUE /\ q.part = 1
  BY Zenon
<1> HIDE DEF q
<1>3. /\ node'[c] = "alive" /\ refs'[c] = 2 /\ c \in driverFds' /\ closed'[c] = FALSE
      /\ cur'[c] = q /\ cpc'[c] = IF "OPEN" \in DevOps THEN "send" ELSE "idle"
  BY <1>1, Zenon DEF BaseInv, Shapes, NodeTypes, ClientTypes, OtherTypes
<1>4. Untouched(c)
  BY <1>1, Zenon DEF Untouched, BaseInv, Shapes, NodeTypes, ClientTypes, OtherTypes
<1>5. Running /\ rmw = NoRmw /\ c \notin waiting /\ ClientInv(c) BY <1>1, ClientRuns, Zenon
<1>6. Absent(c) BY <1>1, <1>5, AtPC, Zenon DEF Closing, HasFile, isAlive
<1>7. Silent(c)' /\ cancelId'[c] = 0 BY <1>1, <1>6, SilentSame, Zenon DEF Absent
<1>8. HasFile(c, 2)'
  <2>1. rmw'.chan # c BY <1>1, <1>5, Names, Nothings, Zenon
  <2> QED BY <1>3, <2>1, Zenon DEF HasFile, isAlive
<1>9. ClientInv(c)'
  <2>1. CASE "OPEN" \in DevOps
    <3>1. Sending(c)' BY <1>2, <1>3, <1>7, <1>8, <2>1, Zenon DEF Sending
    <3> QED BY <3>1, Zenon DEF ClientInv
  <2>2. CASE "OPEN" \notin DevOps
    <3>1. Open(c)' BY <1>3, <1>7, <1>8, <2>2, Zenon DEF Open
    <3> QED BY <3>1, Zenon DEF ClientInv
  <2> QED BY <2>1, <2>2, Zenon
<1>10. ~InQueue(c) /\ feeding.chan # c BY <1>6, Zenon DEF Absent, Silent
<1>11. Distinct'
  <2>1. \A d \in Clients \ {c} : cur'[d] = cur[d] BY <1>4, Zenon DEF Untouched
  <2> QED BY <1>2, <1>3, <2>1, DistinctStep, Zenon DEF TalkInv
<1>12. sendList'[c] = <<>> BY <1>7, Zenon DEF Silent
<1> QED BY <1>1, <1>4, <1>5, <1>9, <1>10, <1>11, <1>12, ClientTalk, Zenon

(* Read and write begin a call that has no message yet. *)
LEMMA RequestTalk ==
  ASSUME NCPU = 1, Library, Cancellable, BaseInv, TalkInv, NEW c \in Clients, NEW op \in {"READ", "WRITE"},
         request(c, op)
  PROVE  TalkInv'
<1> DEFINE q == [id |-> [op |-> op, rid |-> 0], part |-> 1,
                 sigs |-> "CANCEL" \in DevOps, block |-> "CANCEL" \notin DevOps]
<1>1. /\ MayRun(c) /\ cpc[c] = "idle" /\ isAlive(c)
      /\ cur' = [cur EXCEPT ![c] = q] /\ cpc' = [cpc EXCEPT ![c] = "send"]
      /\ UNCHANGED <<node, refs, devAlive, rmw, sendList, recvList, closed, driverFds, cancelId>>
      /\ UNCHANGED <<driverVars, waiting>>
  BY Zenon DEF request, isSupported, Goto, nodeVars, listVars
<1>2. /\ q.id.op = op /\ q.id.rid = 0 /\ q.part = 1
      /\ q.sigs <=> "CANCEL" \in DevOps
      /\ q.block <=> "CANCEL" \notin DevOps
  BY Zenon
<1> HIDE DEF q
<1>3. cur'[c] = q /\ cpc'[c] = "send" BY <1>1, Zenon DEF BaseInv, Shapes, ClientTypes
<1>4. Untouched(c) BY <1>1, Zenon DEF Untouched, BaseInv, Shapes, ClientTypes
<1>5. Running /\ devAlive /\ rmw = NoRmw /\ c \notin waiting /\ ClientInv(c)
  BY <1>1, ClientRuns, Zenon
<1>6. Open(c) BY <1>1, <1>5, AtPC, Zenon
<1>7. Silent(c)' /\ cancelId'[c] = 0 BY <1>1, <1>6, SilentSame, Zenon DEF Open
<1>8. HasFile(c, 2)' /\ ~closed'[c] BY <1>1, <1>6, Zenon DEF Open, HasFile, isAlive
<1>9. ClientInv(c)'
  <2>1. c \in Noblock => ~q.block BY <1>2, Zenon DEF Cancellable
  <2>2. q.id.op # "CLOSE" /\ q.id.op \in {"OPEN", "READ", "WRITE"} BY <1>2, Zenon
  <2>3. Sending(c)' BY <1>2, <1>3, <1>7, <1>8, <2>1, <2>2, Zenon DEF Sending
  <2> QED BY <2>3, Zenon DEF ClientInv
<1>10. ~InQueue(c) /\ feeding.chan # c BY <1>6, Zenon DEF Open, Silent
<1>11. Distinct'
  <2>1. \A d \in Clients \ {c} : cur'[d] = cur[d] BY <1>4, Zenon DEF Untouched
  <2> QED BY <1>2, <1>3, <2>1, DistinctStep, Zenon DEF TalkInv
<1>12. sendList'[c] = <<>> BY <1>7, Zenon DEF Silent
<1> QED BY <1>1, <1>4, <1>5, <1>9, <1>10, <1>11, <1>12, ClientTalk, Zenon

-----------------------------------------------------------------------------
(* The lists by the place of the request. *)
LEMMA MsgsFacts ==
  ASSUME NEW q
  PROVE  /\ \A o : o \notin {"sent", "handle"} => Msgs(q, o) = <<>>
         /\ q.id.op # "WRITE" => Msgs(q, "sent") = <<Msg(q)>> /\ Msgs(q, "handle") = <<>>
         /\ q.id.op = "WRITE" =>
              Msgs(q, "sent") = <<Msg(q), Msg(q)>> /\ Msgs(q, "handle") = <<Msg(q)>>
BY Zenon DEF Msgs

(* The responses that a call has got, case by case. *)
LEMMA AnswersFacts ==
  ASSUME NEW q, NEW o, NEW s
  PROVE  s \in Answers(q, o) <=>
           \/ o \in {"data", "feed"} /\ q.part = 1 /\ s = <<Ans(q, 1)>>
           \/ o = "answered" /\ q.part = 2 /\ s = <<Ans(q, 2)>>
           \/ /\ o = "answered" /\ q.part # 2
              /\ \/ s = <<Ans(q, -1)>> \/ s = <<Ans(q, 0)>>
                 \/ q.id.op = "READ" /\ s = <<Ans(q, 1), Ans(q, 2)>>
           \/ o \in {"data", "feed"} /\ q.part # 1 /\ s = <<>>
           \/ o \notin {"data", "feed", "answered"} /\ s = <<>>
BY Zenon DEF Answers

(* The types of the messages and responses of a call. *)
LEMMA MessageTypes ==
  ASSUME NEW q \in Calls, NEW n \in Rids
  PROVE  /\ q.id \in Ids /\ Msg(q) \in Requests /\ CancelMsg(q, n) \in Requests
         /\ \A r \in -1 .. 2 : Ans(q, r) \in Responses
         /\ \A o : CancelAns(n, o) \in Responses
         /\ \A o : Msgs(q, o) \in Seq(Requests)
<1>1. q.id \in Ids /\ NoId \in Ids /\ [op |-> "CANCEL", rid |-> n] \in Ids
  <2>1. q.id \in Ids BY Zenon DEF Calls
  <2>2. "CANCEL" \in ClientOps BY Zenon DEF ClientOps
  <2> QED BY <2>1, <2>2, IdFacts, Zenon
<1>2. Msg(q) \in Requests BY <1>1, IdFacts, Zenon DEF Msg
<1>3. CancelMsg(q, n) \in Requests BY <1>1, IdFacts, Zenon DEF CancelMsg
<1>4. \A r \in -1 .. 2 : Ans(q, r) \in Responses BY <1>1, IdFacts, Zenon DEF Ans
<1>5. \A o : CancelAns(n, o) \in Responses
  <2>1. \A o : CancelRes(o) \in -1 .. 2 BY Results, Zenon DEF CancelRes
  <2> QED BY <1>1, <2>1, IdFacts, Zenon DEF CancelAns
<1>6. ASSUME NEW o PROVE Msgs(q, o) \in Seq(Requests)
  <2>1. \A m \in Requests : <<m>> \in Seq(Requests) /\ <<m, m>> \in Seq(Requests) BY ONLY TRUE
  <2>2. <<>> \in Seq(Requests) BY ONLY TRUE
  <2> QED BY <1>2, <2>1, <2>2, Zenon DEF Msgs
<1> QED BY <1>1, <1>2, <1>3, <1>4, <1>5, <1>6, Zenon

-----------------------------------------------------------------------------
(* A client that goes on with its call: the driver does nothing. *)
LEMMA Continues ==
  ASSUME NEW c, NEW o \in Places, NEW k \in CancelPlaces, NEW k2 \in CancelPlaces,
         Talking(c), At(c, o, k), k2 = k \/ {k, k2} \cap {"handle", "reply"} = {},
         k2 = k => cancelId'[c] = cancelId[c],
         UNCHANGED <<node, refs, rmw, closed, driverFds, driverVars>>,
         cur'[c].id = cur[c].id, cpc'[c] \in {"cancel", "recv", "sleep"},
         Lists(c, o, k2)', cancelId'[c] = 0 <=> k2 = "none", Legal(c, o, k2)', Flags(c, o, k2)'
  PROVE  ClientInv(c)'
<1>1. UNCHANGED <<dpc, dmsg, pending, input, feeding>> BY Zenon DEF driverVars
<1>2. Holds(c)' <=> Holds(c) BY <1>1, Zenon DEF Holds
<1>3. InQueue(c)' <=> InQueue(c) BY <1>1, Zenon DEF InQueue
<1>4. InPlace(c, o, k2)' BY <1>1, <1>3, Zenon DEF At, InPlace
<1>5. InHand(c, o, k2)'
  <2>1. CASE k2 = k BY <1>1, <1>2, <2>1, Zenon DEF At, InHand
  <2>2. CASE k2 # k
    <3>1. k \notin {"handle", "reply"} /\ k2 \notin {"handle", "reply"} BY <2>2, Zenon
    <3> QED BY <1>1, <1>2, <3>1, Zenon DEF At, InHand
  <2> QED BY <2>1, <2>2, Zenon
<1>6. At(c, o, k2)' BY <1>4, <1>5, Zenon DEF At
<1>7. HasFile(c, 2)' BY Zenon DEF Talking, HasFile, isAlive
<1>8. Talking(c)' BY <1>6, <1>7, Zenon DEF Talking
<1> QED BY <1>8, Zenon DEF ClientInv

(* ... and neither do the lists nor the request change. *)
LEMMA Goes ==
  ASSUME NEW c, NEW o \in Places, NEW k \in CancelPlaces, Talking(c), At(c, o, k),
         UNCHANGED <<node, refs, rmw, closed, driverFds, driverVars>>,
         cur'[c] = cur[c], cancelId'[c] = cancelId[c],
         sendList'[c] = sendList[c], recvList'[c] = recvList[c],
         cpc'[c] \in {"cancel", "recv", "sleep"}, Flags(c, o, k)'
  PROVE  ClientInv(c)'
<1>1. Lists(c, o, k)' BY Zenon DEF At, Lists
<1>2. Legal(c, o, k)' BY Zenon DEF At, Legal
<1>3. cancelId'[c] = 0 <=> k = "none" BY Zenon DEF At, InPlace
<1> QED BY <1>1, <1>2, <1>3, Continues, Zenon

(* The id of a call is in use. *)
LEMMA CurInUse ==
  ASSUME NEW c \in Clients
  PROVE  cur[c].id \in IdsInUse
BY Zenon DEF IdsInUse

(* Send puts the messages of a call or of its cancel into the list and     *)
(* wakes the driver up.                                                    *)
LEMMA SendTalk ==
  ASSUME NCPU = 1, Library, BaseInv, TalkInv, NEW c \in Clients, NEW op \in ClientOps, send(c, op)
  PROVE  TalkInv'
<1>1. /\ MayRun(c) /\ FreeRids(c, op) # {}
      /\ \/ cpc[c] = "send" /\ op = cur[c].id.op
         \/ cpc[c] = "cancel" /\ op = "CANCEL"
      /\ sendList' = [sendList EXCEPT ![c] = sendList[c] \o Sent(c, op)]
      /\ waiting' = waiting \ {Driver}
      /\ \/ /\ op = "CANCEL" /\ UNCHANGED cur
            /\ cancelId' = [cancelId EXCEPT ![c] = newRid(c, op)]
         \/ /\ op # "CANCEL" /\ UNCHANGED cancelId
            /\ cur' = [cur EXCEPT ![c] = [cur[c] EXCEPT !.id = [op |-> op, rid |-> newRid(c, op)]]]
      /\ cpc' = [cpc EXCEPT ![c] = IF op = "CLOSE" THEN "closed" ELSE "recv"]
      /\ UNCHANGED <<node, refs, devAlive, rmw, recvList, closed, driverFds, driverVars>>
  BY SendParts, Zenon DEF Goto, nodeVars
<1> DEFINE n == newRid(c, op)
           q == [cur[c] EXCEPT !.id = [op |-> op, rid |-> n]]
<1>2. cur[c] \in Calls BY Zenon DEF BaseInv, Shapes, ClientTypes
<1>3. n \in Rids /\ n # 0 /\ [op |-> op, rid |-> n] \notin IdsInUse BY <1>1, NewRidFacts, Zenon
<1>4. [op |-> op, rid |-> n].op = op /\ [op |-> op, rid |-> n].rid = n BY Zenon
<1>5. q.id = [op |-> op, rid |-> n] /\ q.sigs = cur[c].sigs /\ q.block = cur[c].block
      /\ q.part = cur[c].part
  BY <1>2, CallFields
<1>6. /\ sendList'[c] = sendList[c] \o Sent(c, op)
      /\ cpc'[c] = IF op = "CLOSE" THEN "closed" ELSE "recv"
      /\ op = "CANCEL" => cur'[c] = cur[c] /\ cancelId'[c] = n
      /\ op # "CANCEL" => cur'[c] = q /\ cancelId'[c] = cancelId[c]
  BY <1>1, Zenon DEF BaseInv, Shapes, ClientTypes, ListTypes
<1>7. Untouched(c)
  BY <1>1, Zenon DEF Untouched, BaseInv, Shapes, ClientTypes, ListTypes
<1> HIDE DEF n, q
<1>8. c \notin waiting /\ rmw = NoRmw /\ (Running => ClientInv(c))
  <2>1. cpc[c] # "sleep" BY <1>1, Zenon
  <2> QED BY <1>1, <2>1, ClientRuns, Zenon
<1>9. Distinct'
  <2>1. \A d \in Clients \ {c} : cur'[d] = cur[d] BY <1>7, Zenon DEF Untouched
  <2>2. cur'[c].id = cur[c].id \/ \A d \in Clients : cur'[c].id # cur[d].id
    BY <1>3, <1>5, <1>6, CurInUse, Zenon
  <2> QED BY <2>1, <2>2, DistinctStep, Zenon DEF TalkInv
<1>10. isAlive(c)' => devAlive BY <1>1, Zenon DEF isAlive, TalkInv, DeviceNamed
<1>11. ASSUME Running
       PROVE  ClientInv(c)' /\ (cur'[c].id = cur[c].id \/ (~InQueue(c) /\ feeding.chan # c))
  <2>1. ClientInv(c) BY <1>8, <1>11, Zenon
  <2>2. CASE cpc[c] = "send"
    <3>1. Sending(c) /\ op = cur[c].id.op BY <1>1, <2>1, <2>2, AtPC, Zenon
    <3>2. op # "CANCEL" BY <3>1, Zenon DEF Sending
    <3>3. /\ sendList[c] = <<>> /\ recvList[c] = <<>> /\ ~Holds(c) /\ feeding.chan # c
          /\ ~InQueue(c) /\ cancelId[c] = 0 /\ ~closed[c]
      BY <3>1, Zenon DEF Sending, Silent
    <3>4. sendList'[c] = Msgs(q, "sent")
      <4>1. Msg(q) = [id |-> [op |-> op, rid |-> n], of |-> NoId] BY <1>5, Zenon DEF Msg
      <4>2. Sent(c, op) = Msgs(q, "sent")
        BY <1>4, <1>5, <3>2, <4>1, Zenon DEF Sent, Msgs, n
      <4>3. <<>> \o Msgs(q, "sent") = Msgs(q, "sent") BY Ends, Zenon DEF Msgs
      <4> QED BY <1>6, <3>3, <4>2, <4>3, Zenon
    <3>5. Holds(c)' <=> Holds(c) BY <1>1, Zenon DEF Holds, driverVars
    <3>6. InQueue(c)' <=> InQueue(c) BY <1>1, Zenon DEF InQueue, driverVars
    <3>7. feeding' = feeding BY <1>1, Zenon DEF driverVars
    <3>8. CASE op = "CLOSE"
      <4>1. HasFile(c, 1)' BY <1>1, <3>1, <3>8, Zenon DEF Sending, HasFile, isAlive
      <4>2. sendList'[c] = <<Msg(q)>> BY <1>4, <1>5, <3>4, <3>8, MsgsFacts, Zenon
      <4>3. Msg(q) \in Requests /\ Msg(q).id.op = "CLOSE"
        <5>1. q \in Calls
          <6>1. [op |-> op, rid |-> n] \in Ids BY <1>3, IdFacts, Zenon
          <6> QED BY <1>2, <6>1, CallUpdates, Zenon DEF q, n
        <5> QED BY <1>3, <1>4, <1>5, <3>8, <5>1, MessageTypes, Zenon DEF Msg
      <4>4. Closing(c)'
        BY <1>1, <1>6, <3>2, <3>3, <3>5, <3>6, <3>7, <3>8, <4>1, <4>2, <4>3, Zenon DEF Closing
      <4> QED BY <3>3, <4>4, Zenon DEF ClientInv
    <3>9. CASE op # "CLOSE"
      <4>1. /\ op \in {"OPEN", "READ", "WRITE"} /\ HasFile(c, 2)
            /\ cur[c].part = 1
            /\ cur[c].sigs => "CANCEL" \in DevOps
            /\ op = "READ" /\ c \in Noblock => ~cur[c].block
            /\ ~cur[c].block => "CANCEL" \in DevOps
        BY <3>1, <3>9, Zenon DEF Sending
      <4>2. HasFile(c, 2)' BY <1>1, <4>1, Zenon DEF HasFile, isAlive
      <4>3. cur'[c] = q /\ cancelId'[c] = 0 BY <1>6, <3>2, <3>3, Zenon
      <4>4. recvList'[c] \in Answers(q, "sent") BY <1>1, <3>3, AnswersFacts, Zenon
      <4>5. Lists(c, "sent", "none")' BY <3>4, <4>3, <4>4, Zenon DEF Lists
      <4>6. InHand(c, "sent", "none")' BY <3>3, <3>5, Zenon DEF InHand
      <4>7. InPlace(c, "sent", "none")' BY <3>3, <3>6, <3>7, <4>3, Zenon DEF InPlace
      <4>8. q.part = 1 /\ q.part # 2 BY <1>5, <4>1
      <4>9. Legal(c, "sent", "none")' BY <4>3, <4>8, Zenon DEF Legal
      <4>10. Flags(c, "sent", "none")'
        BY <1>4, <1>5, <1>6, <3>9, <4>1, <4>3, <4>8, Zenon DEF Flags
      <4>11. At(c, "sent", "none")' BY <4>5, <4>6, <4>7, <4>9, <4>10, Zenon DEF At
      <4>12. q.id.op \in {"OPEN", "READ", "WRITE"} /\ q.id.rid # 0
        BY <1>3, <1>4, <1>5, <4>1, Zenon
      <4>13. Talking(c)'
        BY <1>1, <1>6, <3>3, <3>9, <4>2, <4>3, <4>11, <4>12, Zenon
        DEF Talking, Places, CancelPlaces
      <4> QED BY <3>3, <4>13, Zenon DEF ClientInv
    <3> QED BY <3>8, <3>9, Zenon
  <2>3. CASE cpc[c] = "cancel"
    <3>1. Talking(c) /\ op = "CANCEL" BY <1>1, <2>1, <2>3, AtPC, Zenon
    <3>2. PICK o \in Places, k \in CancelPlaces : At(c, o, k) BY <3>1, Zenon DEF Talking
    <3>3. k = "none" /\ "CANCEL" \in DevOps /\ cur[c].part = 1
      BY <2>3, <3>2, Zenon DEF At, Flags
    <3>4. cur'[c] = cur[c] /\ cancelId'[c] = n /\ cpc'[c] = "recv" BY <1>6, <3>1, Zenon
    <3>5. PICK s \in Answers(cur[c], o) : recvList[c] = s
      BY <3>2, <3>3, Zenon DEF At, Lists
    <3>6. sendList[c] = Msgs(cur[c], o) BY <3>2, <3>3, Zenon DEF At, Lists
    <3>7. sendList'[c] = Append(Msgs(cur[c], o), CancelMsg(cur[c], n))
      <4>1. Sent(c, op) = <<CancelMsg(cur[c], n)>> BY <3>1, Zenon DEF Sent, CancelMsg, n
      <4>2. Msgs(cur[c], o) \in Seq(Requests) /\ CancelMsg(cur[c], n) \in Requests
        BY <1>2, <1>3, MessageTypes, Zenon
      <4>3. Msgs(cur[c], o) \o <<CancelMsg(cur[c], n)>>
              = Append(Msgs(cur[c], o), CancelMsg(cur[c], n))
        BY <4>2, LastFacts, Zenon
      <4> QED BY <1>6, <3>6, <4>1, <4>3, Zenon
    <3>8. Lists(c, o, "sent")' BY <1>1, <3>4, <3>5, <3>7, Zenon DEF Lists
    <3>9. cur[c].part # 2 BY <3>3
    <3>10. Legal(c, o, "sent")' BY <3>2, <3>3, <3>4, <3>9, Zenon DEF At, Legal
    <3>11. Flags(c, o, "sent")' BY <3>2, <3>3, <3>4, Zenon DEF At, Flags
    <3>12. ClientInv(c)'
      BY <1>1, <1>3, <3>1, <3>2, <3>3, <3>4, <3>8, <3>10, <3>11, Continues, Zenon DEF CancelPlaces
    <3> QED BY <3>4, <3>12, Zenon
  <2> QED BY <1>1, <2>2, <2>3, Zenon
<1> QED
  <2>1. Driver \notin waiting' /\ c \notin waiting' /\ waiting' \subseteq waiting \cup {c}
    BY <1>1, <1>8, Zenon
  <2> QED BY <1>1, <1>7, <1>8, <1>9, <1>10, <1>11, <2>1, ClientTalk, Zenon

-----------------------------------------------------------------------------
(* The reference count, when a file is closed and when the node is removed. *)
LEMMA UnrefSteps ==
  ASSUME NodeTypes, NEW c \in Clients, NEW remove \in BOOLEAN, NEW by,
         doUnref(c, remove, by), remove => isAlive(c)
  PROVE  /\ rmw' = NoRmw \/ rmw'.chan = c
         /\ isAlive(c)' => isAlive(c)
         /\ waiting' \subseteq waiting
         /\ \A d \in Clients \ {c} : node'[d] = node[d] /\ refs'[d] = refs[d]
         /\ refs[c] = 1 => /\ refs'[c] = 0 /\ node'[c] = node[c] /\ rmw'.chan = c
                           /\ c \notin waiting'
         /\ refs[c] = 2 => /\ refs'[c] = 1 /\ rmw' = NoRmw /\ waiting' = waiting
                           /\ node'[c] = IF remove THEN "dead" ELSE node[c]
<1> DEFINE n == (refs[c] - 1) % 2^16
           r == [by |-> by, chan |-> c, count |-> msgCount]
<1>r. r.chan = c BY Zenon
<1> HIDE DEF r
<1>1. refs[c] \in 0 .. 2^16 - 1 /\ refs \in [Clients -> 0 .. 2^16 - 1]
      /\ node \in [Clients -> {"none", "alive", "dead"}]
  BY Zenon DEF NodeTypes
<1>2. (refs[c] = 1 => n = 0) /\ (refs[c] = 2 => n = 1 /\ n # 0)
  <2>1. refs[c] # 0 => n = refs[c] - 1 BY <1>1, Power, Modulo, Zenon
  <2> QED BY ONLY <2>1
<1>3. /\ rmw = NoRmw /\ refs' = [refs EXCEPT ![c] = n]
      /\ \/ /\ n = 0 /\ rmw' = r
            /\ waiting' = waiting \ {c} /\ UNCHANGED node
         \/ /\ n # 0 /\ UNCHANGED <<rmw, waiting>>
            /\ IF remove THEN node' = [node EXCEPT ![c] = "dead"] ELSE UNCHANGED node
  <2>1. (~remove \/ isAlive(c)) <=> TRUE BY Zenon
  <2> HIDE DEF n
  <2> QED BY <2>1, Zenon DEF doUnref, treeUnlocked, unlink, n, r
<1> HIDE DEF n
<1>4. refs'[c] = n /\ \A d \in Clients \ {c} : refs'[d] = refs[d] BY <1>1, <1>3, Zenon
<1>5. CASE n = 0
  <2>1. rmw'.chan = c /\ waiting' = waiting \ {c} /\ node' = node BY <1>r, <1>3, <1>5, Zenon
  <2> QED BY <1>2, <1>3, <1>4, <1>5, <2>1, Zenon DEF isAlive
<1>6. CASE n # 0
  <2>1. /\ rmw' = rmw /\ waiting' = waiting
        /\ node' = IF remove THEN [node EXCEPT ![c] = "dead"] ELSE node
    BY <1>3, <1>6, Zenon
  <2>2. node'[c] = IF remove THEN "dead" ELSE node[c] BY <1>1, <2>1, Zenon
  <2>3. \A d \in Clients \ {c} : node'[d] = node[d] BY <1>1, <2>1, Zenon
  <2>4. isAlive(c)' => isAlive(c) BY <2>2, Zenon DEF isAlive
  <2> QED BY <1>2, <1>3, <1>4, <1>6, <2>1, <2>2, <2>3, <2>4, Zenon
<1> QED BY <1>5, <1>6, Zenon

(* A step of a client that sends nothing and does not create its node. *)
LEMMA QuietClient ==
  ASSUME NCPU = 1, Library, BaseInv, TalkInv, NEW c \in Clients, MayRun(c),
         UNCHANGED <<driverVars, devAlive, sendList>>, Untouched(c),
         isAlive(c)' => isAlive(c), cur'[c].id = cur[c].id \/ cur'[c].id.rid = 0,
         rmw' = NoRmw \/ rmw'.chan = c,
         waiting' \subseteq waiting \cup {c},
         c \in waiting' => cpc'[c] = "sleep" /\ isAlive(c)' /\ Nothing(c)',
         Running => /\ ClientInv(c)'
                    /\ cur'[c].id = cur[c].id \/ (~InQueue(c) /\ feeding.chan # c)
  PROVE  TalkInv'
<1>1. Distinct'
  <2>1. \A d \in Clients \ {c} : cur'[d] = cur[d] BY Zenon DEF Untouched
  <2> QED BY <2>1, DistinctStep, Zenon DEF TalkInv
<1>2. isAlive(c)' => devAlive BY Zenon DEF TalkInv, DeviceNamed
<1>3. Driver \in waiting' /\ isAlive(c)' => sendList'[c] = <<>>
  <2>1. Driver # c BY Names, Zenon
  <2> QED BY <2>1, Zenon DEF TalkInv, Sleepers
<1> QED BY <1>1, <1>2, <1>3, ClientTalk, Zenon

(* A failed open takes the file of the driver away. *)
LEMMA CloseForDriverTalk ==
  ASSUME NCPU = 1, Library, BaseInv, TalkInv, NEW c \in Clients, closeForDriver(c)
  PROVE  TalkInv'
<1>1. /\ MayRun(c) /\ cpc[c] = "fail" /\ cpc' = [cpc EXCEPT ![c] = "release"]
      /\ UNCHANGED <<sendList, recvList, closed, cur, cancelId, driverVars>>
      /\ \/ /\ dpc # "dead" /\ c \in driverFds /\ driverFds' = driverFds \ {c}
            /\ doUnref(c, isAlive(c), c) /\ UNCHANGED devAlive
         \/ /\ dpc = "dead" \/ c \notin driverFds
            /\ UNCHANGED <<node, refs, rmw, devAlive, waiting, driverFds>>
  BY Zenon DEF closeForDriver, destroy, unref, doUnref, Goto, nodeVars, listVars, isAlive
<1>2. c \notin waiting /\ rmw = NoRmw /\ (Running => ClientInv(c)) /\ (isAlive(c) => Running)
  BY <1>1, ClientRuns, Zenon
<1>3. cpc'[c] = "release" /\ isAlive(c) \in BOOLEAN
  BY <1>1, Zenon DEF BaseInv, Shapes, ClientTypes, isAlive
<1>4. \A d \in Clients \ {c} : cpc'[d] = cpc[d]
  BY <1>1, Zenon DEF BaseInv, Shapes, ClientTypes
<1>5. NodeTypes BY Zenon DEF BaseInv, Shapes
<1>6. CASE dpc # "dead" /\ c \in driverFds
  <2>1. doUnref(c, isAlive(c), c) /\ UNCHANGED devAlive /\ driverFds' = driverFds \ {c}
    BY <1>1, <1>6, Zenon
  <2>2. /\ isAlive(c)' => isAlive(c)
        /\ rmw' = NoRmw \/ rmw'.chan = c
        /\ waiting' \subseteq waiting
        /\ \A d \in Clients \ {c} : node'[d] = node[d] /\ refs'[d] = refs[d]
        /\ refs[c] = 2 => /\ refs'[c] = 1 /\ rmw' = NoRmw
                          /\ isAlive(c) => node'[c] = "dead"
    BY <1>3, <1>5, <2>1, UnrefSteps, Zenon
  <2>3. Untouched(c) BY <1>1, <1>4, <2>1, <2>2, Zenon DEF Untouched
  <2>4. ASSUME Running PROVE ClientInv(c)'
    <3>1. Open(c) BY <1>1, <1>2, <2>4, AtPC, Zenon
    <3>2. Silent(c)' /\ cancelId'[c] = 0 BY <1>1, <3>1, SilentSame, Zenon DEF Open
    <3>3. refs'[c] = 1 /\ rmw' = NoRmw /\ node'[c] = "dead"
      BY <2>2, <3>1, Zenon DEF Open, HasFile
    <3>4. rmw'.chan # c BY <3>3, Names, Nothings, Zenon
    <3>5. Failed(c)' BY <1>3, <2>1, <3>2, <3>3, <3>4, Zenon DEF Failed
    <3> QED BY <3>5, Zenon DEF ClientInv
  <2> QED BY <1>1, <1>2, <2>1, <2>2, <2>3, <2>4, QuietClient, Zenon
<1>7. CASE dpc = "dead" \/ c \notin driverFds
  <2>1. UNCHANGED <<node, refs, rmw, devAlive, waiting, driverFds>> BY <1>1, <1>7, Zenon
  <2>2. ~Running
    <3>1. Running => c \in driverFds BY <1>1, <1>2, AtPC, Zenon DEF Open, HasFile
    <3>2. dpc = "dead" => ~Running BY Zenon DEF Running
    <3> QED BY <1>7, <3>1, <3>2, Zenon
  <2>3. Untouched(c) BY <1>1, <1>4, <2>1, Zenon DEF Untouched
  <2>4. isAlive(c)' => isAlive(c) BY <2>1, Zenon DEF isAlive
  <2> QED BY <1>1, <1>2, <2>1, <2>2, <2>3, <2>4, QuietClient, Zenon
<1> QED BY <1>6, <1>7, Zenon

(* The client drops its reference after a failed open. *)
LEMMA ReleaseTalk ==
  ASSUME NCPU = 1, Library, BaseInv, TalkInv, NEW c \in Clients, release(c)
  PROVE  TalkInv'
<1>1. /\ MayRun(c) /\ cpc[c] = "release" /\ cpc' = [cpc EXCEPT ![c] = "out"]
      /\ UNCHANGED <<sendList, recvList, closed, driverFds, cur, cancelId, driverVars, devAlive>>
      /\ doUnref(c, FALSE, c)
  BY Zenon DEF release, unref, doUnref, Leave, Goto, listVars
<1>2. c \notin waiting /\ rmw = NoRmw /\ (Running => ClientInv(c)) BY <1>1, ClientRuns, Zenon
<1>3. cpc'[c] = "out" /\ \A d \in Clients \ {c} : cpc'[d] = cpc[d]
  BY <1>1, Zenon DEF BaseInv, Shapes, ClientTypes
<1>4. NodeTypes /\ FALSE \in BOOLEAN BY Zenon DEF BaseInv, Shapes
<1>5. /\ isAlive(c)' => isAlive(c)
      /\ rmw' = NoRmw \/ rmw'.chan = c
      /\ waiting' \subseteq waiting
      /\ \A d \in Clients \ {c} : node'[d] = node[d] /\ refs'[d] = refs[d]
      /\ refs[c] = 1 => refs'[c] = 0 /\ rmw'.chan = c /\ node'[c] = node[c]
  BY <1>1, <1>4, UnrefSteps, Zenon
<1>6. Untouched(c) BY <1>1, <1>3, <1>5, Zenon DEF Untouched
<1>7. ASSUME Running PROVE ClientInv(c)'
  <2>1. Failed(c) BY <1>1, <1>2, <1>7, AtPC, Zenon
  <2>2. Silent(c)' /\ cancelId'[c] = 0 BY <1>1, <2>1, SilentSame, Zenon DEF Failed
  <2>3. Absent(c)' BY <1>1, <1>3, <1>5, <2>1, <2>2, Zenon DEF Failed, Absent
  <2> QED BY <2>3, Zenon DEF ClientInv
<1> QED BY <1>1, <1>2, <1>5, <1>6, <1>7, QuietClient, Zenon

(* The client drops its reference and is about to tell the driver. *)
LEMMA CloseTalk ==
  ASSUME NCPU = 1, Library, BaseInv, TalkInv, NEW c \in Clients, close(c)
  PROVE  TalkInv'
<1> DEFINE q == [NoReq EXCEPT !.id.op = "CLOSE"]
<1>1. /\ MayRun(c) /\ cpc[c] = "idle" /\ doUnref(c, FALSE, c)
      /\ \/ /\ isAlive(c) /\ refs'[c] = 1
            /\ cur' = [cur EXCEPT ![c] = q] /\ cpc' = [cpc EXCEPT ![c] = "send"]
         \/ /\ ~(isAlive(c) /\ refs'[c] = 1) /\ UNCHANGED cur /\ cpc' = [cpc EXCEPT ![c] = "out"]
      /\ UNCHANGED <<sendList, recvList, closed, driverFds, cancelId, driverVars, devAlive>>
  BY Zenon DEF close, unref, doUnref, Leave, Goto, listVars
<1>q. q.id.op = "CLOSE" /\ q.id.rid = 0 BY DEF NoReq, NoId
<1> HIDE DEF q
<1>2. c \notin waiting /\ rmw = NoRmw /\ (Running => ClientInv(c)) /\ (isAlive(c) => Running)
  BY <1>1, ClientRuns, Zenon
<1>3. /\ isAlive(c) /\ refs'[c] = 1 => cur'[c] = q /\ cpc'[c] = "send"
      /\ ~(isAlive(c) /\ refs'[c] = 1) => cur'[c] = cur[c] /\ cpc'[c] = "out"
      /\ \A d \in Clients \ {c} : cpc'[d] = cpc[d] /\ cur'[d] = cur[d]
  BY <1>1, Zenon DEF BaseInv, Shapes, ClientTypes
<1>4. NodeTypes /\ FALSE \in BOOLEAN BY Zenon DEF BaseInv, Shapes
<1>5. /\ isAlive(c)' => isAlive(c)
      /\ rmw' = NoRmw \/ rmw'.chan = c
      /\ waiting' \subseteq waiting
      /\ \A d \in Clients \ {c} : node'[d] = node[d] /\ refs'[d] = refs[d]
      /\ refs[c] = 2 => refs'[c] = 1 /\ rmw' = NoRmw /\ node'[c] = node[c]
  BY <1>1, <1>4, UnrefSteps, Zenon
<1>6. Untouched(c) BY <1>1, <1>3, <1>5, Zenon DEF Untouched
<1>7. ASSUME Running PROVE ClientInv(c)' /\ ~InQueue(c) /\ feeding.chan # c
  <2>1. Open(c) BY <1>1, <1>2, <1>7, AtPC, Zenon
  <2>2. Silent(c)' /\ cancelId'[c] = 0 BY <1>1, <2>1, SilentSame, Zenon DEF Open
  <2>3. isAlive(c) /\ refs'[c] = 1 /\ rmw' = NoRmw /\ node'[c] = node[c] /\ c \in driverFds
    BY <1>5, <2>1, Zenon DEF Open, HasFile
  <2>4. HasFile(c, 1)'
    <3>1. rmw'.chan # c BY <2>3, Names, Nothings, Zenon
    <3> QED BY <1>1, <2>3, <3>1, Zenon DEF HasFile, isAlive
  <2>5. Sending(c)' BY <1>1, <1>q, <1>3, <2>1, <2>2, <2>3, <2>4, Zenon DEF Open, Sending
  <2> QED BY <2>1, <2>5, Zenon DEF ClientInv, Open, Silent
<1>8. cur'[c].id = cur[c].id \/ cur'[c].id.rid = 0 BY <1>q, <1>3, Zenon
<1> QED BY <1>1, <1>2, <1>5, <1>6, <1>7, <1>8, QuietClient, Zenon

(* Without a call there is no id. *)
LEMMA NoReqFacts == NoReq.id.rid = 0 BY DEF NoReq, NoId

(* The channel is closed once the message is sent. *)
LEMMA SetClosedTalk ==
  ASSUME NCPU = 1, Library, BaseInv, TalkInv, NEW c \in Clients, setClosed(c)
  PROVE  TalkInv'
<1>1. /\ MayRun(c) /\ cpc[c] = "closed" /\ Return(c, "out")
      /\ closed' = [closed EXCEPT ![c] = TRUE]
      /\ UNCHANGED <<node, refs, devAlive, rmw, sendList, recvList, driverFds, driverVars, waiting>>
  BY Zenon DEF setClosed, nodeVars, listVars
<1>2. c \notin waiting /\ rmw = NoRmw /\ (Running => ClientInv(c)) BY <1>1, ClientRuns, Zenon
<1>3. /\ cpc'[c] = "out" /\ cancelId'[c] = 0 /\ cur'[c] = NoReq
      /\ \A d \in Clients \ {c} : /\ cpc'[d] = cpc[d] /\ cur'[d] = cur[d]
                                  /\ cancelId'[d] = cancelId[d]
  <2>1. "out" \in ClientPCs BY Zenon DEF ClientPCs
  <2> QED BY <1>1, <2>1, ReturnFacts, Zenon DEF BaseInv, Shapes, OtherTypes
<1>4. \A d \in Clients \ {c} : closed'[d] = closed[d]
  BY <1>1, Zenon DEF BaseInv, Shapes, OtherTypes
<1>5. Untouched(c) BY <1>1, <1>3, <1>4, Zenon DEF Untouched
<1>6. ASSUME Running PROVE ClientInv(c)' /\ ~InQueue(c) /\ feeding.chan # c
  <2>1. Closing(c) BY <1>1, <1>2, <1>6, AtPC, Zenon
  <2>2. HasFile(c, 1)' BY <1>1, <2>1, Zenon DEF Closing, HasFile, isAlive
  <2>3. UNCHANGED <<dpc, dmsg, pending, feeding>> BY <1>1, Zenon DEF driverVars
  <2>4. (Holds(c)' <=> Holds(c)) /\ (InQueue(c)' <=> InQueue(c)) BY <2>3, Zenon DEF Holds, InQueue
  <2>5. Closing(c)' BY <1>1, <1>3, <2>1, <2>2, <2>3, <2>4, Zenon DEF Closing
  <2> QED BY <2>1, <2>5, Zenon DEF ClientInv, Closing
<1>7. isAlive(c)' => isAlive(c) BY <1>1, Zenon DEF isAlive
<1>8. cur'[c].id.rid = 0 BY <1>3, NoReqFacts, Zenon
<1> QED BY <1>1, <1>2, <1>5, <1>6, <1>7, <1>8, QuietClient, Zenon

(* A step that changes none of this. *)
LEMMA QuietTalk ==
  ASSUME TalkInv, UNCHANGED <<node, refs, devAlive, rmw, sendList, recvList, closed, driverFds>>,
         UNCHANGED <<cpc, cur, cancelId, dpc, dmsg, pending, input, feeding, waiting>>
  PROVE  TalkInv'
<1>1. \A d : (isAlive(d)' <=> isAlive(d)) /\ (InQueue(d)' <=> InQueue(d))
             /\ (Holds(d)' <=> Holds(d)) /\ (Nothing(d)' <=> Nothing(d))
  BY Zenon DEF isAlive, InQueue, Holds, Nothing, Matches, Expected
<1>2. Running' <=> Running BY Zenon DEF Running
<1>3. DeviceNamed' BY <1>1, Zenon DEF TalkInv, DeviceNamed
<1>4. Queue' BY Zenon DEF TalkInv, Queue
<1>5. Distinct' BY Zenon DEF TalkInv, Distinct
<1>6. InTouch'
  <2> SUFFICES ASSUME Running', NEW d \in Clients PROVE ClientInv(d)' BY Zenon DEF InTouch
  <2>1. Same(d) BY <1>1, Zenon DEF Same
  <2>2. ClientInv(d) BY <1>2, Zenon DEF TalkInv, InTouch
  <2> QED BY <2>1, <2>2, SameClient, Zenon
<1>7. Dying' BY <1>2, Zenon DEF TalkInv, Dying
<1>8. Sleepers' BY <1>1, <1>2, Zenon DEF TalkInv, Sleepers
<1> QED BY <1>3, <1>4, <1>5, <1>6, <1>7, <1>8, Zenon DEF TalkInv

(* A signal wakes a client up, it decides for itself. *)
LEMMA AddSignalForTalk ==
  ASSUME TalkInv, NEW c \in Clients, addSignalFor(c)
  PROVE  TalkInv'
<1>1. UNCHANGED <<node, refs, devAlive, rmw, sendList, recvList, closed, driverFds>>
  BY Zenon DEF addSignalFor, nodeVars, listVars
<1>2. UNCHANGED <<cpc, cur, cancelId, dpc, dmsg, pending, input, feeding, waiting>>
  BY Zenon DEF addSignalFor, clientVars, driverVars
<1> QED BY <1>1, <1>2, QuietTalk, Zenon

-----------------------------------------------------------------------------
(* Sequences with up to two elements. *)
LEMMA Shorts ==
  ASSUME NEW S, NEW x \in S, NEW y \in S
  PROVE  /\ <<x>> \in Seq(S) /\ <<x, y>> \in Seq(S) /\ <<>> \in Seq(S)
         /\ \A j \in 1 .. Len(<<x>>) : <<x>>[j] = x
         /\ \A j \in 1 .. Len(<<x, y>>) : <<x, y>>[j] \in {x, y}
         /\ \A j \in 1 .. Len(<<>>) : FALSE
BY ONLY TRUE

(* The responses of a call have its id. *)
LEMMA AnswersIds ==
  ASSUME NEW q \in Calls, NEW o, NEW s \in Answers(q, o)
  PROVE  /\ s \in Seq(Responses)
         /\ \A j \in 1 .. Len(s) : s[j].id = q.id
         /\ o = "answered" => Len(s) # 0
<1>1. \A r \in -1 .. 2 : Ans(q, r) \in Responses
  <2>1. 0 \in Rids BY IdFacts, Zenon
  <2> QED BY <2>1, MessageTypes, Zenon
<1>2. \A r : Ans(q, r).id = q.id BY Zenon DEF Ans
<1>3. Ans(q, 1) \in Responses /\ Ans(q, 2) \in Responses BY <1>1, Results, Zenon
<1>4. 1 # 0 /\ 2 # 0 BY ONLY TRUE
<1>5. CASE s = <<>>
  <2>1. o # "answered"
    <3>1. \A x, y : <<x>> # <<>> /\ <<x, y>> # <<>> BY Ends, Zenon
    <3> QED BY <1>5, <3>1, AnswersFacts, Zenon
  <2>2. <<>> \in Seq(Responses) /\ \A j \in 1 .. Len(<<>>) : FALSE BY <1>3, Shorts, Zenon
  <2> QED BY <1>5, <2>1, <2>2, Zenon
<1>6. CASE \E r \in -1 .. 2 : s = <<Ans(q, r)>>
  <2>1. PICK x \in Responses : s = <<x>> /\ x.id = q.id BY <1>1, <1>2, <1>6, Zenon
  <2>2. s \in Seq(Responses) /\ \A j \in 1 .. Len(s) : s[j] = x BY <2>1, Shorts, Zenon
  <2>3. Len(s) # 0 BY <1>4, <2>1, Ends, Zenon
  <2> QED BY <2>1, <2>2, <2>3, Zenon
<1>7. CASE s = <<Ans(q, 1), Ans(q, 2)>>
  <2>1. s \in Seq(Responses) /\ Len(s) # 0 BY <1>3, <1>4, <1>7, Shorts, Ends, Zenon
  <2>2. \A j \in 1 .. Len(s) : s[j] \in {Ans(q, 1), Ans(q, 2)} BY <1>3, <1>7, Shorts, Zenon
  <2> QED BY <1>2, <2>1, <2>2, Zenon
<1> QED BY <1>5, <1>6, <1>7, AnswersFacts, Results, Zenon

(* The first of up to two elements is taken out. *)
LEMMA RemoveOnly ==
  ASSUME NEW x, NEW y
  PROVE  RemoveAt(<<x>>, 1) = <<>> /\ RemoveAt(<<x, y>>, 1) = <<y>>
<1>1. <<x>> \in Seq({x, y}) /\ <<x, y>> \in Seq({x, y}) /\ x \in {x, y} BY Ends, Zenon
<1>2. RemoveAt(<<x>>, 1) = Tail(<<x>>) /\ RemoveAt(<<x, y>>, 1) = Tail(<<x, y>>)
  BY <1>1, RemoveEnds, Ends, Zenon
<1> QED BY <1>2, Ends, Zenon

(* What a client that receives gets, the message m, and the responses r    *)
(* that are left, by the places of its request and its cancel message.     *)
Got(c, o, k, m, r) ==
  \/ k = "none" /\ o \in {"data", "feed"} /\ cur[c].part = 1 /\ m.res = 1 /\ r = <<>>
  \/ k = "none" /\ o = "answered" /\ cur[c].part = 2 /\ m.res = 2 /\ r = <<>>
  \/ k = "none" /\ o = "answered" /\ m.res \in {-1, 0} /\ r = <<>>
  \/ /\ k = "none" /\ o = "answered" /\ cur[c].part = 1 /\ cur[c].id.op = "READ"
     /\ m.res = 1 /\ r = <<Ans(cur[c], 2)>>
  \/ k = "answered" /\ o = "answered" /\ m.res = 1 /\ r \in Answers(cur[c], o)
  \/ k = "answered" /\ o = "gone" /\ m.res = 0 /\ r = <<>>

(* What a client can receive, by the places of its request and of its      *)
(* cancel message.                                                         *)
LEMMA Received ==
  ASSUME Library, BaseInv, NEW c \in Clients, Talking(c), NEW o, NEW k, At(c, o, k), getMsg(c) # 0,
         NEW m, m = recvList[c][getMsg(c)], NEW r, r = RemoveAt(recvList[c], getMsg(c))
  PROVE  Got(c, o, k, m, r)
<1> DEFINE q == cur[c]
           i == getMsg(c)
<1>1. q \in Calls /\ q.part \in 1 .. 2 /\ cancelId[c] \in Rids /\ recvList[c] \in Seq(Responses)
  BY Zenon DEF BaseInv, Shapes, ClientTypes, ListTypes, Calls
<1>2. /\ i \in 1 .. Len(recvList[c]) /\ Matches(c, recvList[c][i])
      /\ \A j \in 1 .. Len(recvList[c]) : Matches(c, recvList[c][j]) => i <= j
  BY <1>1, GetMsgFacts, Zenon
<1>3. PICK s \in Answers(q, o) :
        recvList[c] = IF k = "answered" THEN Append(s, CancelAns(cancelId[c], o)) ELSE s
  BY Zenon DEF At, Lists
<1>4. s \in Seq(Responses) /\ \A j \in 1 .. Len(s) : s[j].id = q.id BY <1>1, <1>3, AnswersIds, Zenon
<1>5. cancelId[c] = 0 <=> k = "none" BY Zenon DEF At, InPlace
<1> HIDE DEF i, q
<1> USE DEF Got
<1>6. CASE k = "none"
  <2>1. recvList[c] = s /\ i \in 1 .. Len(s) BY <1>2, <1>3, <1>6, Zenon
  <2>2. \A j \in 1 .. Len(s) : Matches(c, recvList[c][j])
    BY <1>4, <1>5, <1>6, <2>1, Zenon DEF Matches, Expected, q
  <2>3. i = 1
    <3>1. 1 \in 1 .. Len(s) BY ONLY <2>1, <1>4
    <3>2. i <= 1 BY <1>2, <2>1, <2>2, <3>1, Zenon
    <3> QED BY ONLY <2>1, <3>1, <3>2, <1>4
  <2>4. \A x : Ans(q, x).res = x BY Zenon DEF Ans
  <2>5. s # <<>>
    <3>1. Len(<<>>) = 0 BY Ends, Zenon
    <3>2. \A j \in 1 .. 0 : FALSE BY ONLY TRUE
    <3> QED BY <2>1, <3>1, <3>2, Zenon
  <2>6. m = s[1] /\ r = RemoveAt(s, 1) BY <2>1, <2>3, Zenon DEF i
  <2>7. \/ o \in {"data", "feed"} /\ q.part = 1 /\ s = <<Ans(q, 1)>>
        \/ o = "answered" /\ q.part = 2 /\ s = <<Ans(q, 2)>>
        \/ o = "answered" /\ (s = <<Ans(q, -1)>> \/ s = <<Ans(q, 0)>>)
        \/ o = "answered" /\ q.part # 2 /\ q.id.op = "READ" /\ s = <<Ans(q, 1), Ans(q, 2)>>
    BY <1>3, <2>5, AnswersFacts, Zenon
  <2>8. q.part # 2 => q.part = 1 BY ONLY <1>1, q.part \in 1 .. 2
  <2>9. ASSUME NEW x, s = <<x>> PROVE m = x /\ r = <<>> BY <2>6, <2>9, Ends, RemoveOnly, Zenon
  <2>10. ASSUME NEW x, NEW y, s = <<x, y>> PROVE m = x /\ r = <<y>>
    <3>1. <<x, y>>[1] = x BY Ends, Zenon
    <3>2. RemoveAt(<<x, y>>, 1) = <<y>> BY RemoveOnly, Zenon
    <3> QED BY <2>6, <2>10, <3>1, <3>2, Zenon
  <2>11. CASE o \in {"data", "feed"} /\ q.part = 1 /\ s = <<Ans(q, 1)>>
    BY <1>6, <2>4, <2>9, <2>11, Zenon DEF q
  <2>12. CASE o = "answered" /\ q.part = 2 /\ s = <<Ans(q, 2)>>
    BY <1>6, <2>4, <2>9, <2>12, Zenon DEF q
  <2>13. CASE o = "answered" /\ (s = <<Ans(q, -1)>> \/ s = <<Ans(q, 0)>>)
    BY <1>6, <2>4, <2>9, <2>13, Zenon DEF q
  <2>14. CASE o = "answered" /\ q.part # 2 /\ q.id.op = "READ" /\ s = <<Ans(q, 1), Ans(q, 2)>>
    BY <1>6, <2>4, <2>8, <2>10, <2>14, Zenon DEF q
  <2> QED BY <2>7, <2>11, <2>12, <2>13, <2>14, Zenon
<1>7. CASE k # "none"
  <2>1. Expected(c) = [op |-> "CANCEL", rid |-> cancelId[c]] BY <1>5, <1>7, Zenon DEF Expected
  <2>2. Expected(c).op = "CANCEL"
    <3> DEFINE e == [op |-> "CANCEL", rid |-> cancelId[c]]
    <3>1. e.op = "CANCEL" BY Zenon
    <3> HIDE DEF e
    <3> QED BY <2>1, <3>1, Zenon DEF e
  <2>3. q.id.op # "CANCEL" /\ q.id.rid # 0 BY Zenon DEF Talking, q
  <2>4. \A j \in 1 .. Len(s) : ~Matches(c, s[j]) BY <1>4, <2>2, <2>3, Zenon DEF Matches
  <2>5. k = "answered"
    <3>1. k # "answered" => recvList[c] = s BY <1>3, Zenon
    <3> QED BY <1>2, <2>4, <3>1, Zenon
  <2>6. recvList[c] = Append(s, CancelAns(cancelId[c], o)) BY <1>3, <2>5, Zenon
  <2>7. CancelAns(cancelId[c], o) \in Responses BY <1>1, MessageTypes, Zenon
  <2>8. /\ Len(recvList[c]) = Len(s) + 1 /\ recvList[c][Len(s) + 1] = CancelAns(cancelId[c], o)
        /\ \A j \in 1 .. Len(s) : recvList[c][j] = s[j]
        /\ RemoveAt(recvList[c], Len(s) + 1) = s
    <3> DEFINE a == CancelAns(cancelId[c], o)
    <3>1. a \in Responses /\ recvList[c] = Append(s, a) BY <2>6, <2>7, Zenon
    <3> HIDE DEF a
    <3>2. /\ Len(Append(s, a)) = Len(s) + 1 /\ Append(s, a)[Len(s) + 1] = a
          /\ \A j \in 1 .. Len(s) : Append(s, a)[j] = s[j]
      BY ONLY <1>4, <3>1
    <3>3. RemoveAt(Append(s, a), Len(s) + 1) = s BY <1>4, <3>1, RemoveEnds, Zenon
    <3> QED BY <3>1, <3>2, <3>3, Zenon DEF a
  <2>9. i = Len(s) + 1
    <3>1. i \in 1 .. Len(s) \/ i = Len(s) + 1
      BY ONLY <1>2, <2>8, <1>4
    <3> QED BY <1>2, <2>4, <2>8, <3>1, Zenon
  <2>10. m = CancelAns(cancelId[c], o) /\ r = s BY <2>8, <2>9, Zenon DEF i
  <2>11. m.res = CancelRes(o)
    <3>1. CancelAns(cancelId[c], o).res = CancelRes(o) BY Zenon DEF CancelAns
    <3> QED BY <2>10, <3>1, Zenon
  <2>12. o \in {"answered", "gone"} BY <2>5, Zenon DEF At, Legal
  <2>13. o = "gone" => s = <<>>
    <3>1. Answers(q, "gone") = {<<>>} BY Zenon DEF Answers
    <3> QED BY <1>3, <3>1, Zenon
  <2> QED BY <1>3, <2>5, <2>10, <2>11, <2>12, <2>13, Zenon DEF CancelRes, q
<1> QED BY <1>6, <1>7, Zenon

(* The call of a client is over. *)
LEMMA ReturnTalk ==
  ASSUME NCPU = 1, Library, BaseInv, TalkInv, NEW c \in Clients, MayRun(c),
         NEW p \in {"idle", "fail"}, Return(c, p),
         UNCHANGED <<node, refs, devAlive, rmw, sendList, closed, driverFds, driverVars>>,
         \A d \in Clients \ {c} : recvList'[d] = recvList[d],
         waiting' \subseteq waiting, c \notin waiting',
         Running => Silent(c)' /\ HasFile(c, 2) /\ ~closed[c]
  PROVE  TalkInv'
<1>1. /\ cpc'[c] = p /\ cancelId'[c] = 0 /\ cur'[c] = NoReq
      /\ \A d \in Clients \ {c} : /\ cpc'[d] = cpc[d] /\ cur'[d] = cur[d]
                                  /\ cancelId'[d] = cancelId[d]
  <2>1. p \in ClientPCs BY Zenon DEF ClientPCs
  <2> QED BY <2>1, ReturnFacts, Zenon DEF BaseInv, Shapes, OtherTypes
<1>2. Untouched(c) BY <1>1, Zenon DEF Untouched
<1>3. rmw = NoRmw BY ClientRuns, Zenon
<1>4. ASSUME Running PROVE ClientInv(c)' /\ ~InQueue(c) /\ feeding.chan # c
  <2>1. HasFile(c, 2)' BY <1>4, Zenon DEF HasFile, isAlive
  <2>2. Open(c)' BY <1>1, <1>4, <2>1, Zenon DEF Open
  <2>3. InQueue(c)' <=> InQueue(c) BY Zenon DEF InQueue, driverVars
  <2>4. feeding' = feeding BY Zenon DEF driverVars
  <2> QED BY <2>2, <2>3, <2>4, Zenon DEF ClientInv, Open, Silent
<1>5. isAlive(c)' => isAlive(c) BY Zenon DEF isAlive
<1>6. cur'[c].id.rid = 0 BY <1>1, NoReqFacts, Zenon
<1> QED BY <1>2, <1>3, <1>4, <1>5, <1>6, QuietClient, Zenon

(* A client waits, wakes up or gives up waiting. *)
LEMMA GotoTalk ==
  ASSUME NCPU = 1, Library, BaseInv, TalkInv, NEW c \in Clients, MayRun(c),
         NEW p \in {"cancel", "recv", "sleep"}, Goto(c, p),
         UNCHANGED <<node, refs, devAlive, rmw, sendList, recvList, closed, driverFds, driverVars>>,
         UNCHANGED <<cur, cancelId>>,
         waiting' \subseteq waiting \cup {c},
         c \in waiting' => p = "sleep" /\ isAlive(c) /\ Nothing(c),
         Running => /\ Talking(c)
                    /\ \A o \in Places, k \in CancelPlaces : At(c, o, k) => Flags(c, o, k)'
  PROVE  TalkInv'
<1>1. cpc'[c] = p /\ \A d \in Clients \ {c} : cpc'[d] = cpc[d]
  BY Zenon DEF Goto, BaseInv, Shapes, ClientTypes
<1>2. Untouched(c) BY <1>1, Zenon DEF Untouched
<1>3. rmw = NoRmw BY ClientRuns, Zenon
<1>4. ASSUME Running PROVE ClientInv(c)'
  <2>1. PICK o \in Places, k \in CancelPlaces : At(c, o, k) BY <1>4, Zenon DEF Talking
  <2> QED BY <1>1, <1>4, <2>1, Goes, Zenon
<1>5. (isAlive(c)' <=> isAlive(c)) /\ (Nothing(c)' <=> Nothing(c))
  BY Zenon DEF isAlive, Nothing, Matches, Expected
<1> QED BY <1>1, <1>2, <1>3, <1>4, <1>5, QuietClient, Zenon

(* A woken client looks for its response again. *)
LEMMA ResumeTalk ==
  ASSUME NCPU = 1, Library, BaseInv, TalkInv, NEW c \in Clients, resume(c)
  PROVE  TalkInv'
<1>1. /\ MayRun(c) /\ cpc[c] = "sleep" /\ waiting' = waiting \ {c}
      /\ UNCHANGED <<node, refs, devAlive, rmw, sendList, recvList, closed, driverFds, driverVars>>
  BY Zenon DEF resume, nodeVars, listVars
<1>2. \/ /\ cur[c].sigs /\ cancelId[c] = 0 /\ interrupted(c)
      \/ /\ ~isAlive(c) /\ destroyed(c)
      \/ /\ isAlive(c) /\ Goto(c, "recv") /\ UNCHANGED <<cur, cancelId>>
  BY Zenon DEF resume
<1>3. (Running => ClientInv(c)) /\ (isAlive(c) => Running) BY <1>1, ClientRuns, Zenon
<1>4. Running => Talking(c) /\ isAlive(c) BY <1>1, <1>3, AtPC, Zenon DEF Talking, HasFile
<1>5. waiting' \subseteq waiting /\ c \notin waiting' /\ waiting' \subseteq waiting \cup {c}
  BY <1>1, Zenon
<1>6. ASSUME NEW p \in {"idle", "fail"}, Return(c, p), ~isAlive(c) PROVE TalkInv'
  <2>1. ~Running BY <1>4, <1>6, Zenon
  <2> QED BY <1>1, <1>5, <1>6, <2>1, ReturnTalk, Zenon
<1>7. cpc' = [cpc EXCEPT ![c] = "cancel"] => cpc'[c] = "cancel"
  BY Zenon DEF BaseInv, Shapes, ClientTypes
<1>8. cpc' = [cpc EXCEPT ![c] = "recv"] => cpc'[c] = "recv"
  BY Zenon DEF BaseInv, Shapes, ClientTypes
<1>9. CASE cur[c].sigs /\ cancelId[c] = 0 /\ interrupted(c)
  <2>1. CASE isAlive(c)
    <3>1. PICK o \in Places, k \in CancelPlaces : At(c, o, k)
      BY <1>3, <1>4, <2>1, Zenon DEF Talking
    <3>2. "CANCEL" \in DevOps /\ cur[c].part = 1 BY <1>9, <3>1, Zenon DEF At, Flags
    <3>3. Goto(c, "cancel") /\ UNCHANGED <<cur, cancelId>>
      BY <1>9, <2>1, <3>2, Zenon DEF interrupted, isSupported
    <3>4. ASSUME NEW x \in Places, NEW y \in CancelPlaces, At(c, x, y) PROVE Flags(c, x, y)'
      <4>1. y = "none" BY <1>9, <3>4, Zenon DEF At, InPlace
      <4>2. cpc'[c] = "cancel" BY <1>7, <3>3, Zenon DEF Goto
      <4> QED BY <1>1, <3>2, <3>3, <3>4, <4>1, <4>2, Zenon DEF At, Flags
    <3> QED BY <1>1, <1>4, <1>5, <3>3, <3>4, GotoTalk, Zenon
  <2>2. CASE ~isAlive(c)
    <3>1. Return(c, "idle") BY <1>9, <2>2, Zenon DEF interrupted, isSupported
    <3> QED BY <1>6, <2>2, <3>1, Zenon
  <2> QED BY <2>1, <2>2, Zenon
<1>10. CASE ~isAlive(c) /\ destroyed(c) BY <1>6, <1>10, Zenon DEF destroyed
<1>11. CASE isAlive(c) /\ Goto(c, "recv") /\ UNCHANGED <<cur, cancelId>>
  <2>1. ASSUME NEW x \in Places, NEW y \in CancelPlaces, At(c, x, y) PROVE Flags(c, x, y)'
    <3>1. cpc'[c] = "recv" BY <1>8, <1>11, Zenon DEF Goto
    <3> QED BY <1>1, <1>11, <2>1, <3>1, Zenon DEF At, Flags
  <2> QED BY <1>1, <1>4, <1>5, <1>11, <2>1, GotoTalk, Zenon
<1> QED BY <1>2, <1>9, <1>10, <1>11, Zenon

(* The responses of a call depend on its id and on the part that is received. *)
LEMMA AnswersSame ==
  ASSUME NEW q, NEW p, NEW o, p.id = q.id
  PROVE  /\ p.part = q.part => Answers(p, o) = Answers(q, o)
         /\ \A x : Ans(p, x) = Ans(q, x)
<1>1. \A x : Ans(p, x) = Ans(q, x) BY Zenon DEF Ans
<1>2. ASSUME p.part = q.part, NEW s PROVE s \in Answers(p, o) <=> s \in Answers(q, o)
  <2>1. /\ Ans(p, 1) = Ans(q, 1) /\ Ans(p, 2) = Ans(q, 2)
        /\ Ans(p, 0) = Ans(q, 0) /\ Ans(p, -1) = Ans(q, -1)
    BY <1>1, Zenon
  <2>2. p.part = q.part /\ p.id = q.id BY <1>2, Zenon
  <2> QED BY ONLY <2>1, <2>2 DEF Answers
<1> QED BY <1>1, <1>2, Zenon

(* A client goes on after a response. *)
LEMMA ContinueTalk ==
  ASSUME NCPU = 1, Library, BaseInv, TalkInv, NEW c \in Clients, MayRun(c), Goto(c, "recv"), cpc[c] = "recv",
         UNCHANGED <<node, refs, devAlive, rmw, sendList, closed, driverFds, driverVars, waiting>>,
         \A d \in Clients \ {c} : /\ recvList'[d] = recvList[d] /\ cur'[d] = cur[d]
                                  /\ cancelId'[d] = cancelId[d],
         cur'[c].id = cur[c].id,
         Running => ClientInv(c)'
  PROVE  TalkInv'
<1>1. cpc'[c] = "recv" /\ \A d \in Clients \ {c} : cpc'[d] = cpc[d]
  BY Zenon DEF Goto, BaseInv, Shapes, ClientTypes
<1>2. Untouched(c) BY <1>1, Zenon DEF Untouched
<1>3. rmw = NoRmw /\ c \notin waiting BY ClientRuns, Zenon
<1>4. isAlive(c)' => isAlive(c) BY Zenon DEF isAlive
<1> QED BY <1>1, <1>2, <1>3, <1>4, QuietClient, Zenon

(* receive() has got a response. *)
LEMMA GotTalk ==
  ASSUME NCPU = 1, Library, BaseInv, TalkInv, NEW c \in Clients, MayRun(c), cpc[c] = "recv", getMsg(c) # 0,
         recvList' = [recvList EXCEPT ![c] = RemoveAt(recvList[c], getMsg(c))],
         handleResponse(c, recvList[c][getMsg(c)]),
         UNCHANGED <<node, refs, devAlive, rmw, sendList, closed, driverFds, driverVars, waiting>>
  PROVE  TalkInv'
<1> DEFINE m == recvList[c][getMsg(c)]
           r == RemoveAt(recvList[c], getMsg(c))
           q == cur[c]
<1>1. Running => Talking(c) BY ClientRuns, AtPC, Zenon
<1>2. c \notin waiting BY ClientRuns, Zenon
<1>3. recvList'[c] = r /\ \A d \in Clients \ {c} : recvList'[d] = recvList[d]
  BY Zenon DEF BaseInv, Shapes, ListTypes
<1>4. q \in Calls /\ cur \in [Clients -> Calls] /\ cancelId \in [Clients -> Rids]
  BY Zenon DEF BaseInv, Shapes, ClientTypes
<1>5. handleResponse(c, m) /\ m = recvList[c][getMsg(c)] /\ r = RemoveAt(recvList[c], getMsg(c))
  BY Zenon
<1> HIDE DEF m, r
<1>6. ASSUME NEW o, NEW k, At(c, o, k), Running
      PROVE  Got(c, o, k, m, r)
  BY <1>1, <1>5, <1>6, Received, Zenon
<1>7. \A x : (x \in {-1, 0} => ~(x > 0)) /\ (x = 1 => x > 0 /\ x # 0 /\ x # 2) BY ONLY TRUE
<1>8. CASE /\ cancelId[c] # 0 /\ m.res = 1
           /\ cancelId' = [cancelId EXCEPT ![c] = 0]
           /\ cur' = [cur EXCEPT ![c] = [cur[c] EXCEPT !.sigs = FALSE, !.block = TRUE]]
           /\ Goto(c, "recv")
  <2> DEFINE p == [q EXCEPT !.sigs = FALSE, !.block = TRUE]
  <2>1. p.id = q.id /\ p.sigs = FALSE /\ p.block = TRUE /\ p.part = q.part
    BY <1>4, CallFields
  <2>2. /\ cur'[c] = p /\ cancelId'[c] = 0
        /\ \A d \in Clients \ {c} : cur'[d] = cur[d] /\ cancelId'[d] = cancelId[d]
    BY <1>4, <1>8, Zenon
  <2> HIDE DEF p
  <2>3. ASSUME Running PROVE ClientInv(c)'
    <3>1. PICK o \in Places, k \in CancelPlaces : At(c, o, k) BY <1>1, <2>3, Zenon DEF Talking
    <3>2. k # "none" BY <1>8, <3>1, Zenon DEF At, InPlace
    <3>3. k = "answered" /\ o = "answered" /\ r \in Answers(q, o)
      BY <1>6, <1>7, <1>8, <2>3, <3>1, <3>2, Zenon DEF Got
    <3>4. Msgs(q, o) = <<>> /\ Msgs(p, o) = <<>> BY <3>3, MsgsFacts, Zenon
    <3>5. sendList'[c] = Msgs(p, o) BY <3>1, <3>3, <3>4, Zenon DEF At, Lists
    <3>6. r \in Answers(p, o) BY <2>1, <3>3, AnswersSame, Zenon
    <3>7. Lists(c, o, "none")'
      <4>1. sendList'[c] = Msgs(cur'[c], o) /\ recvList'[c] \in Answers(cur'[c], o)
        BY <1>3, <2>2, <3>5, <3>6, Zenon
      <4> QED BY ONLY <4>1, Zenon DEF Lists
    <3>8. p.part # 2 BY <2>1, <3>1, <3>3, Zenon DEF At, Legal
    <3>9. Legal(c, o, "none")' BY <2>2, <3>3, <3>8, Zenon DEF Legal
    <3>10. cpc'[c] = "recv" BY <1>8, Zenon DEF Goto, BaseInv, Shapes, ClientTypes
    <3>11. Flags(c, o, "none")' BY <2>1, <2>2, <3>3, <3>10, Zenon DEF Flags
    <3>12. "none" \in CancelPlaces /\ {k, "none"} \cap {"handle", "reply"} = {}
      BY <3>3, Zenon DEF CancelPlaces
    <3> QED
      BY <1>1, <2>1, <2>2, <2>3, <3>1, <3>2, <3>7, <3>9, <3>10, <3>11, <3>12, Continues, Zenon
  <2> QED BY <1>3, <1>8, <2>1, <2>2, <2>3, ContinueTalk, Zenon
<1>9. CASE /\ cancelId[c] = 0 /\ cur[c].id.op = "READ" /\ cur[c].part = 1 /\ m.res > 0
           /\ cur' = [cur EXCEPT ![c] = [cur[c] EXCEPT !.sigs = FALSE, !.block = FALSE, !.part = 2]]
           /\ Goto(c, "recv") /\ UNCHANGED cancelId
  <2> DEFINE p == [q EXCEPT !.sigs = FALSE, !.block = FALSE, !.part = 2]
  <2>1. p.id = q.id /\ p.sigs = FALSE /\ p.block = FALSE /\ p.part = 2
    BY <1>4, CallFields
  <2>2. cur'[c] = p /\ \A d \in Clients \ {c} : cur'[d] = cur[d]
    BY <1>4, <1>9, Zenon
  <2> HIDE DEF p
  <2>3. ASSUME Running PROVE ClientInv(c)'
    <3>1. PICK o \in Places, k \in CancelPlaces : At(c, o, k) BY <1>1, <2>3, Zenon DEF Talking
    <3>2. k = "none" BY <1>9, <3>1, Zenon DEF At, InPlace
    <3>3. q.part # 2 /\ p.part # 1 BY ONLY <1>9, <2>1
    <3>4. \/ o \in {"data", "feed"} /\ r = <<>>
          \/ o = "answered" /\ r = <<Ans(q, 2)>>
      BY <1>6, <1>7, <1>9, <2>3, <3>1, <3>2, <3>3, Zenon DEF Got
    <3>5. Msgs(q, o) = <<>> /\ Msgs(p, o) = <<>> BY <3>4, MsgsFacts, Zenon
    <3>6. sendList'[c] = Msgs(p, o) BY <3>1, <3>2, <3>5, Zenon DEF At, Lists
    <3>7. Ans(p, 2) = Ans(q, 2) BY <2>1, AnswersSame, Zenon
    <3>8. r \in Answers(p, o) BY <2>1, <3>3, <3>4, <3>7, AnswersFacts, Zenon
    <3>9. Lists(c, o, "none")'
      <4>1. sendList'[c] = Msgs(cur'[c], o) /\ recvList'[c] \in Answers(cur'[c], o)
        BY <1>3, <2>2, <3>6, <3>8, Zenon
      <4> QED BY ONLY <4>1, Zenon DEF Lists
    <3>10. Legal(c, o, "none")' BY <1>9, <2>1, <2>2, <3>4, Zenon DEF Legal
    <3>11. cpc'[c] = "recv" BY <1>9, Zenon DEF Goto, BaseInv, Shapes, ClientTypes
    <3>12. c \in Noblock => o = "answered"
      BY <1>9, <3>1, <3>2, <3>4, Zenon DEF At, Flags
    <3>13. Flags(c, o, "none")' BY <2>1, <2>2, <3>11, <3>12, Zenon DEF Flags
    <3> QED
      BY <1>1, <1>9, <2>1, <2>2, <2>3, <3>1, <3>2, <3>9, <3>10, <3>11, <3>13, Continues, Zenon
  <2> QED BY <1>3, <1>9, <2>1, <2>2, <2>3, ContinueTalk, Zenon
<1>10. CASE /\ ~(cancelId[c] # 0 /\ m.res = 1)
            /\ ~(cancelId[c] = 0 /\ cur[c].id.op = "READ" /\ cur[c].part = 1 /\ m.res > 0)
            /\ Return(c, IF cur[c].id.op = "OPEN" /\ m.res < 0 THEN "fail" ELSE "idle")
  <2>1. PICK p \in {"idle", "fail"} : Return(c, p) BY <1>10, Zenon
  <2>2. ASSUME Running PROVE Silent(c)' /\ HasFile(c, 2) /\ ~closed[c]
    <3>1. PICK o \in Places, k \in CancelPlaces : At(c, o, k) BY <1>1, <2>2, Zenon DEF Talking
    <3>2. cancelId[c] = 0 <=> k = "none" BY <3>1, Zenon DEF At, InPlace
    <3>3. o \in {"data", "feed"} => q.id.op = "READ" BY <3>1, Zenon DEF At, Legal
    <3>4. o \in {"answered", "gone"} /\ k \in {"none", "answered"} /\ r = <<>>
      BY <1>6, <1>7, <1>10, <2>2, <3>1, <3>2, <3>3, Zenon DEF Got
    <3>5. sendList[c] = <<>>
      <4>1. Msgs(q, o) = <<>> BY <3>4, MsgsFacts, Zenon
      <4> QED BY <3>1, <3>4, <4>1, Zenon DEF At, Lists
    <3>6. ~Holds(c) BY <3>1, <3>4, Zenon DEF At, InHand
    <3>7. ~InQueue(c) /\ feeding.chan # c BY <3>1, <3>4, Zenon DEF At, InPlace
    <3>8. ~Holds(c)' /\ ~InQueue(c)' /\ feeding'.chan # c
      BY <3>6, <3>7, Zenon DEF Holds, InQueue, driverVars
    <3>9. Silent(c)' BY <1>3, <3>4, <3>5, <3>8, Zenon DEF Silent
    <3> QED BY <1>1, <2>2, <3>9, Zenon DEF Talking
  <2> QED BY <1>2, <1>3, <2>1, <2>2, ReturnTalk, Zenon
<1> QED BY <1>5, <1>8, <1>9, <1>10, HandleResponseParts, Zenon

(* Receive takes the first response that matches, sleeps or gives up. *)
LEMMA ReceiveTalk ==
  ASSUME NCPU = 1, Library, BaseInv, TalkInv, NEW c \in Clients, receive(c)
  PROVE  TalkInv'
<1> DEFINE mayBlock == c \notin Noblock \/ cur[c].block \/ cancelId[c] # 0
<1>1. /\ MayRun(c) /\ cpc[c] = "recv"
      /\ UNCHANGED <<node, refs, devAlive, rmw, sendList, closed, driverFds, driverVars>>
      /\ \/ /\ getMsg(c) # 0 /\ UNCHANGED waiting
            /\ recvList' = [recvList EXCEPT ![c] = RemoveAt(recvList[c], getMsg(c))]
            /\ handleResponse(c, recvList[c][getMsg(c)])
         \/ getMsg(c) = 0 /\ ~mayBlock /\ interrupted(c) /\ UNCHANGED <<recvList, waiting>>
         \/ (closed[c] \/ ~isAlive(c)) /\ destroyed(c) /\ UNCHANGED <<recvList, waiting>>
         \/ /\ getMsg(c) = 0 /\ mayBlock /\ isAlive(c) /\ waiting' = waiting \cup {c}
            /\ Goto(c, "sleep") /\ UNCHANGED <<recvList, cur, cancelId>>
  BY Zenon DEF receive, nodeVars
<1> HIDE DEF mayBlock
<1>2. (Running => Talking(c)) /\ (isAlive(c) => Running) /\ c \notin waiting
  BY <1>1, ClientRuns, AtPC, Zenon
<1>3. cur[c] \in Calls /\ recvList[c] \in Seq(Responses)
  BY Zenon DEF BaseInv, Shapes, ClientTypes, ListTypes
<1>4. getMsg(c) = 0 => Nothing(c)
  <2>1. 0 \notin 1 .. Len(recvList[c]) BY ONLY TRUE
  <2> QED BY <1>3, <2>1, GetMsgFacts, Zenon DEF Nothing
<1>5. ASSUME NEW p \in {"idle", "fail"}, Return(c, p), ~Running, UNCHANGED <<recvList, waiting>>
      PROVE  TalkInv'
  BY <1>1, <1>2, <1>5, ReturnTalk, Zenon
<1>6. CASE /\ getMsg(c) # 0 /\ UNCHANGED waiting
           /\ recvList' = [recvList EXCEPT ![c] = RemoveAt(recvList[c], getMsg(c))]
           /\ handleResponse(c, recvList[c][getMsg(c)])
  BY <1>1, <1>6, GotTalk, Zenon
<1>7. CASE getMsg(c) = 0 /\ ~mayBlock /\ interrupted(c) /\ UNCHANGED <<recvList, waiting>>
  <2>1. CASE isAlive(c)
    <3>1. Talking(c) BY <1>2, <2>1, Zenon
    <3>2. PICK o \in Places, k \in CancelPlaces : At(c, o, k) BY <3>1, Zenon DEF Talking
    <3>3. c \in Noblock /\ ~cur[c].block /\ cancelId[c] = 0 BY <1>7, Zenon DEF mayBlock
    <3>4. k = "none" BY <3>2, <3>3, Zenon DEF At, InPlace
    <3>5. cur[c].part # 2
      <4> SUFFICES ASSUME cur[c].part = 2 PROVE FALSE BY Zenon
      <4>1. o = "answered" BY <3>2, <3>3, <3>4, Zenon DEF At, Flags, Legal
      <4>2. recvList[c] \in Answers(cur[c], o) BY <3>2, <3>4, Zenon DEF At, Lists
      <4>3. Len(recvList[c]) # 0 /\ \A j \in 1 .. Len(recvList[c]) : recvList[c][j].id = cur[c].id
        BY <1>3, <4>1, <4>2, AnswersIds, Zenon
      <4>4. 1 \in 1 .. Len(recvList[c]) BY ONLY <1>3, <4>3
      <4>5. Matches(c, recvList[c][1]) BY <3>3, <4>3, <4>4, Zenon DEF Matches, Expected
      <4> QED BY <1>4, <1>7, <4>4, <4>5, Zenon DEF Nothing
    <3>6. cur[c].part = 1
      <4>1. cur[c].part \in 1 .. 2 BY <1>3, Zenon DEF Calls
      <4> QED BY ONLY <3>5, <4>1
    <3>7. "CANCEL" \in DevOps BY <3>2, <3>3, <3>5, Zenon DEF At, Flags
    <3>8. Goto(c, "cancel") /\ UNCHANGED <<cur, cancelId>>
      BY <1>7, <2>1, <3>6, <3>7, Zenon DEF interrupted, isSupported
    <3>9. cpc'[c] = "cancel" BY <3>8, Zenon DEF Goto, BaseInv, Shapes, ClientTypes
    <3>10. ASSUME NEW x \in Places, NEW y \in CancelPlaces, At(c, x, y) PROVE Flags(c, x, y)'
      <4>1. y = "none" BY <3>3, <3>10, Zenon DEF At, InPlace
      <4> QED BY <3>3, <3>5, <3>6, <3>7, <3>8, <3>9, <3>10, <4>1, Zenon DEF At, Flags
    <3> QED BY <1>1, <1>2, <1>7, <3>1, <3>8, <3>10, GotoTalk, Zenon
  <2>2. CASE ~isAlive(c)
    <3>1. Return(c, "idle") BY <1>7, <2>2, Zenon DEF interrupted, isSupported
    <3>2. ~Running BY <1>2, <2>2, Zenon DEF Talking, HasFile
    <3> QED BY <1>5, <1>7, <3>1, <3>2, Zenon
  <2> QED BY <2>1, <2>2, Zenon
<1>8. CASE (closed[c] \/ ~isAlive(c)) /\ destroyed(c) /\ UNCHANGED <<recvList, waiting>>
  <2>1. ~Running BY <1>2, <1>8, Zenon DEF Talking, HasFile
  <2> QED BY <1>5, <1>8, <2>1, Zenon DEF destroyed
<1>9. CASE /\ getMsg(c) = 0 /\ mayBlock /\ isAlive(c) /\ waiting' = waiting \cup {c}
           /\ Goto(c, "sleep") /\ UNCHANGED <<recvList, cur, cancelId>>
  <2>1. cpc'[c] = "sleep" BY <1>9, Zenon DEF Goto, BaseInv, Shapes, ClientTypes
  <2>2. ASSUME NEW x \in Places, NEW y \in CancelPlaces, At(c, x, y) PROVE Flags(c, x, y)'
    <3>1. cancelId[c] = 0 <=> y = "none" BY <2>2, Zenon DEF At, InPlace
    <3>2. c \in Noblock /\ y = "none" => cur[c].block BY <1>9, <3>1, Zenon DEF mayBlock
    <3> QED BY <1>1, <1>9, <2>1, <2>2, <3>2, Zenon DEF At, Flags
  <2> QED BY <1>1, <1>2, <1>4, <1>9, <2>2, GotoTalk, Zenon
<1> QED BY <1>1, <1>6, <1>7, <1>8, <1>9, Zenon

-----------------------------------------------------------------------------
(* RemoveFirst of a sequence in which c is at most once. *)
LEMMA RemoveFirstFacts ==
  ASSUME Library, NEW S, NEW s \in Seq(S), NEW c, Once(s)
  PROVE  /\ RemoveFirst(s, c) \in Seq(S) /\ Once(RemoveFirst(s, c))
         /\ \A d : Contains(RemoveFirst(s, c), d) <=> d # c /\ Contains(s, d)
<1> DEFINE I == {i \in 1 .. Len(s) : s[i] = c}
<1>1. CASE I = {}
  <2>1. RemoveFirst(s, c) = s BY <1>1, Zenon DEF RemoveFirst, Contains
  <2>2. \A d : Contains(s, d) <=> d # c /\ Contains(s, d) BY <1>1, Zenon DEF Contains
  <2> QED BY <2>1, <2>2, Zenon
<1>2. CASE I # {}
  <2>0. I \subseteq Nat OBVIOUS
  <2>1. Min(I) \in I
    <3> HIDE DEF I
    <3> QED BY <1>2, <2>0, LeastFacts, Zenon
  <2>2. PICK k \in 1 .. Len(s) : s[k] = c /\ k = Min(I) BY <2>1, Zenon
  <2>3. RemoveFirst(s, c) = RemoveAt(s, k)
    BY <1>2, <2>2, Zenon DEF RemoveFirst, Contains, SelectInSeq, SelectInSubSeq
  <2> HIDE DEF I
  <2> DEFINE t == RemoveAt(s, k)
  <2>4. /\ t \in Seq(S) /\ Len(t) = Len(s) - 1
        /\ \A j \in 1 .. Len(t) : t[j] = IF j < k THEN s[j] ELSE s[j + 1]
    <3>1. /\ t \in Seq(S) /\ Len(t) = Len(s) - 1
          /\ \A j \in 1 .. Len(s) - 1 : t[j] = IF j < k THEN s[j] ELSE s[j + 1]
      BY RemoveAtFacts, Zenon
    <3> HIDE DEF t
    <3> QED BY <3>1, Zenon
  <2> HIDE DEF t
  <2>5. Once(t) BY <2>4 DEF Once
  <2>6. ASSUME NEW i \in 1 .. Len(t) PROVE t[i] # c /\ \E j \in 1 .. Len(s) : s[j] = t[i]
    <3>1. PICK j \in 1 .. Len(s) : t[i] = s[j] /\ j # k
      <4>1. CASE i < k
        <5>1. i \in 1 .. Len(s) /\ i # k BY <2>4, <4>1
        <5> QED BY <2>4, <4>1, <5>1, Zenon
      <4>2. CASE ~(i < k)
        <5>1. i + 1 \in 1 .. Len(s) /\ i + 1 # k BY <2>4, <4>2
        <5> QED BY <2>4, <4>2, <5>1, Zenon
      <4> QED BY <4>1, <4>2, Zenon
    <3> QED BY <2>2, <3>1, Zenon DEF Once
  <2>7. ASSUME NEW i \in 1 .. Len(s), s[i] # c PROVE \E j \in 1 .. Len(t) : t[j] = s[i]
    <3>1. CASE i < k BY <2>4, <3>1
    <3>2. CASE i > k
      <4>1. i - 1 \in 1 .. Len(t) /\ t[i - 1] = s[i] BY <2>4, <3>2
      <4> QED BY <4>1
    <3> QED BY <2>2, <2>7, <3>1, <3>2
  <2>8. \A d : Contains(t, d) <=> d # c /\ Contains(s, d) BY <2>6, <2>7, Zenon DEF Contains
  <2> QED BY <2>3, <2>4, <2>5, <2>8, Zenon DEF t
<1> QED BY <1>1, <1>2

(* One thread is in the kernel after a step if the others were not. *)
LEMMA AloneAfter ==
  ASSUME NEW a, \A d \in Clients \ {a} : cpc'[d] \in UserPCs,
         a # Driver => dpc' \notin KernelPCs, rmw'.by \in {a, Null}
  PROVE  \A x, y \in InKernel' : x = y
<1>1. ASSUME NEW x \in InKernel' PROVE x = a
  BY <1>1, Zenon DEF InKernel, UserPCs, KernelPCs
<1> QED BY <1>1, Zenon

(* The number of messages changes with the length of one list. *)
LEMMA CountChange ==
  ASSUME Library, NEW c \in Clients, NEW s \in Seq(Requests), ListTypes, IsFiniteSet(Unreceived),
         sendList' = [sendList EXCEPT ![c] = s]
  PROVE  /\ IsFiniteSet(Unreceived')
         /\ Cardinality(Unreceived') = Cardinality(Unreceived) - Len(sendList[c]) + Len(s)
<1> DEFINE n == Len(sendList[c])
           m == Len(s)
           Old == {c} \X (1 .. n)
           New == {c} \X (1 .. m)
           Rest == Unreceived \ Old
<1>0. n \in Nat /\ m \in Nat /\ sendList[c] \in Seq(Requests) BY DEF ListTypes
<1>1. /\ IsFiniteSet(Old) /\ Cardinality(Old) = n
      /\ IsFiniteSet(New) /\ Cardinality(New) = m
  BY <1>0, Zenon DEF Library, Sizes
<1>2. DOMAIN sendList[c] = 1 .. n /\ DOMAIN s = 1 .. m BY <1>0
<1>3. Old \subseteq Unreceived BY <1>2, Zenon DEF Unreceived
<1>4. \A d \in Clients : sendList'[d] = IF d = c THEN s ELSE sendList[d]
  BY Zenon DEF ListTypes
<1>5. Unreceived' = Rest \cup New /\ Rest \cap New = {}
  <2>1. \A d \in Clients : {d} \X DOMAIN sendList'[d] =
          IF d = c THEN New ELSE {d} \X DOMAIN sendList[d]
    BY <1>2, <1>4, Zenon
  <2>2. {c} \X DOMAIN sendList[c] = Old BY <1>2, Zenon
  <2>3. \A x \in Unreceived : x \in Old \/ \E d \in Clients \ {c} : x \in {d} \X DOMAIN sendList[d]
    BY <2>2, Zenon DEF Unreceived
  <2>4. \A d \in Clients \ {c} : /\ {d} \X DOMAIN sendList[d] \subseteq Unreceived
                                 /\ ({d} \X DOMAIN sendList[d]) \cap Old = {}
                                 /\ ({d} \X DOMAIN sendList[d]) \cap New = {}
    BY Zenon DEF Unreceived
  <2>5. Unreceived' = UNION {{d} \X DOMAIN sendList'[d] : d \in Clients}
    BY Zenon DEF Unreceived
  <2> HIDE DEF Old, New
  <2>6. \A x \in Unreceived' : x \in New \/ \E d \in Clients \ {c} : x \in {d} \X DOMAIN sendList[d]
    BY <2>1, <2>5, Zenon
  <2>7. New \subseteq Unreceived' BY <2>1, <2>5, Zenon
  <2>8. \A d \in Clients \ {c} : {d} \X DOMAIN sendList[d] \subseteq Unreceived'
    BY <2>1, <2>5, Zenon
  <2> QED BY <2>3, <2>4, <2>6, <2>7, <2>8, Zenon
<1> HIDE DEF Old, New
<1>6. IsFiniteSet(Rest) /\ Cardinality(Rest) = Cardinality(Unreceived) - Cardinality(Old)
  BY <1>3, Zenon DEF Library, Sizes
<1> HIDE DEF Rest
<1>7. IsFiniteSet(Unreceived') /\ Cardinality(Unreceived') = Cardinality(Rest) + Cardinality(New)
  BY <1>1, <1>5, <1>6, Zenon DEF Library, Sizes
<1>8. Cardinality(Unreceived) \in Nat BY Zenon DEF Library, Counts
<1> QED BY ONLY <1>0, <1>1, <1>6, <1>7, <1>8

(* The count stays exact if neither the lists nor the count change. *)
LEMMA CountSame ==
  ASSUME Counted, UNCHANGED <<sendList, msgCount>>
  PROVE  Counted'
BY Zenon DEF Counted, Unreceived

(* A step of the thread a, which is in the kernel or gets into it. *)
LEMMA RunningStep ==
  ASSUME NCPU = 1, Library, BaseInv, NEW a, a # Null, MayRun(a),
         NodeTypes', ListTypes', ClientTypes', DriverTypes', OtherTypes', Counted', Hands', Children',
         \A d \in Clients \ {a} : cpc'[d] = cpc[d],
         a # Driver => dpc' = dpc,
         rmw' # NoRmw => rmw'.by = a /\ rmw'.chan # Null /\ rmw'.count = msgCount'
  PROVE  BaseInv'
<1>1. /\ \A d \in Clients \ {a} : cpc'[d] \in UserPCs
      /\ a # Driver => dpc' \notin KernelPCs
  BY Alone, Zenon DEF BaseInv, Shapes
<1>2. rmw'.by \in {a, Null} BY Nothings, Zenon
<1>3. \A x, y \in InKernel' : x = y BY <1>1, <1>2, AloneAfter, Zenon
<1>4. Kernel' BY <1>3, Zenon DEF Kernel
<1> QED BY <1>4, Zenon DEF BaseInv, Shapes

(* A step that is not one of the kernel, or that leaves it. *)
LEMMA LeavingStep ==
  ASSUME BaseInv, Shapes', Hands', Counted', Children', UNCHANGED cpc,
         dpc' = dpc \/ dpc' \notin KernelPCs,
         rmw' = NoRmw \/ UNCHANGED <<rmw, msgCount>>
  PROVE  BaseInv'
<1>1. ASSUME NEW x \in InKernel' PROVE x \in InKernel
  BY <1>1, Nothings, Zenon DEF InKernel, KernelPCs
<1>2. Kernel' BY <1>1, Zenon DEF BaseInv, Kernel
<1> QED BY <1>2, Zenon DEF BaseInv

(* A channel loses its name. *)
LEMMA UnlinkFacts ==
  ASSUME Library, node \in [Clients -> {"none", "alive", "dead"}], children \in Seq(Clients), Children,
         NEW c \in Clients, NEW s \in {"none", "dead"},
         node' = [node EXCEPT ![c] = s], children' = RemoveFirst(children, c)
  PROVE  /\ node' \in [Clients -> {"none", "alive", "dead"}] /\ children' \in Seq(Clients)
         /\ Children'
         /\ \A d : Contains(children', d) <=> d # c /\ Contains(children, d)
<1>1. /\ children' \in Seq(Clients) /\ Once(children')
      /\ \A d : Contains(children', d) <=> d # c /\ Contains(children, d)
  BY RemoveFirstFacts, Zenon DEF Children
<1>2. /\ node' \in [Clients -> {"none", "alive", "dead"}]
      /\ \A d \in Clients : node'[d] = "alive" <=> d # c /\ node[d] = "alive"
  BY Zenon
<1> QED BY <1>1, <1>2, Zenon DEF Children, isAlive

(* doUnref: the node keeps its types and may start an invalidate(). *)
LEMMA UnrefFacts ==
  ASSUME Library, NodeTypes, msgCount \in Int, waiting \subseteq Clients \cup {Driver}, Children,
         NEW c \in Clients, NEW remove \in BOOLEAN, NEW by \in Clients \cup {Driver},
         doUnref(c, remove, by)
  PROVE  /\ NodeTypes' /\ Children' /\ rmw = NoRmw
         /\ waiting' \subseteq waiting /\ UNCHANGED devAlive
         /\ rmw' \in {NoRmw, [by |-> by, chan |-> c, count |-> msgCount]}
<1> DEFINE drop == ~remove \/ isAlive(c)
           n == IF drop THEN (refs[c] - 1) % 2^16 ELSE refs[c]
           r == [by |-> by, chan |-> c, count |-> msgCount]
<1>1. n \in 0 .. 2^16 - 1
  <2>1. refs[c] \in 0 .. 2^16 - 1 BY Zenon DEF NodeTypes
  <2>2. (refs[c] - 1) % 2^16 \in 0 .. 2^16 - 1 BY <2>1, Power, Modulo, Zenon
  <2> QED BY <2>1, <2>2, Zenon
<1>2. r \in [by : Clients \cup {Driver, Null}, chan : Clients \cup {Null}, count : Int]
  OBVIOUS
<1>3. /\ rmw = NoRmw /\ refs' = [refs EXCEPT ![c] = n] /\ UNCHANGED devAlive
      /\ \/ rmw' = r /\ waiting' = waiting \ {c} /\ UNCHANGED <<node, children>>
         \/ UNCHANGED <<rmw, waiting, node, children>>
         \/ UNCHANGED <<rmw, waiting>> /\ unlink(c)
  BY Zenon DEF doUnref, treeUnlocked
<1> HIDE DEF n, r
<1>4. refs' \in [Clients -> 0 .. 2^16 - 1] BY <1>1, <1>3, Zenon DEF NodeTypes
<1>5. CASE UNCHANGED <<node, children>>
  <2>1. Children' BY <1>5, Zenon DEF Children, isAlive
  <2>2. NodeTypes' BY <1>2, <1>3, <1>4, <1>5, Zenon DEF NodeTypes
  <2> QED BY <1>3, <2>1, <2>2, Zenon DEF r
<1>6. CASE UNCHANGED <<rmw, waiting>> /\ unlink(c)
  <2>1. /\ node' = [node EXCEPT ![c] = "dead"] /\ children' = RemoveFirst(children, c)
        /\ UNCHANGED <<rmw, waiting>>
    BY <1>6, Zenon DEF unlink
  <2>2. NodeTypes' /\ Children' BY <1>3, <1>4, <2>1, UnlinkFacts, Zenon DEF NodeTypes
  <2> QED BY <1>3, <2>1, <2>2, Zenon
<1> QED BY <1>3, <1>5, <1>6, Zenon

-----------------------------------------------------------------------------
(* What a step leaves alone. *)
LEMMA NodesSame ==
  ASSUME NodeTypes, Children, UNCHANGED nodeVars
  PROVE  NodeTypes' /\ Children'
<1>1. UNCHANGED <<node, refs, devAlive, children, rmw>> BY Zenon DEF nodeVars
<1> QED BY <1>1, Zenon DEF NodeTypes, Children, isAlive

(* The same, with the types. *)
LEMMA ListsSame ==
  ASSUME ListTypes, Counted, UNCHANGED listVars
  PROVE  ListTypes' /\ Counted'
<1>1. UNCHANGED <<sendList, recvList, msgCount>> BY Zenon DEF listVars
<1> QED BY <1>1, CountSame, Zenon DEF ListTypes

(* A step of the client c in the kernel, where the driver is not then. *)
LEMMA ClientBase ==
  ASSUME NCPU = 1, Library, BaseInv, NEW c \in Clients, MayRun(c),
         NodeTypes', Children', ListTypes', Counted', ClientTypes',
         closed' \in [Clients -> BOOLEAN], driverFds' \subseteq Clients,
         sig' \subseteq Clients, waiting' \subseteq Clients \cup {Driver},
         UNCHANGED <<driverVars, lastClient>>,
         \A d \in Clients \ {c} : cpc'[d] = cpc[d],
         rmw' # NoRmw => rmw'.by = c /\ rmw'.chan # Null /\ rmw'.count = msgCount'
  PROVE  BaseInv'
<1>1. c # Driver /\ c # Null BY Names, Zenon
<1>2. UNCHANGED <<dpc, dmsg, pending, input, feeding, lastClient>> BY Zenon DEF driverVars
<1>3. DriverTypes' /\ OtherTypes' BY <1>2, Zenon DEF BaseInv, Shapes, DriverTypes, OtherTypes
<1>4. dpc \notin KernelPCs BY <1>1, Alone, Zenon DEF BaseInv, Shapes
<1>5. dpc # "recv" /\ dpc # "wakeup" BY <1>4, Zenon DEF KernelPCs
<1>6. Hands' BY <1>2, <1>5, Zenon DEF BaseInv, Hands
<1> QED BY <1>1, <1>2, <1>3, <1>6, RunningStep, Zenon

(* The common case: the tree stays as it is. *)
LEMMA ClientBase1 ==
  ASSUME NCPU = 1, Library, BaseInv, NEW c \in Clients, MayRun(c),
         ListTypes', Counted', ClientTypes', closed' \in [Clients -> BOOLEAN],
         sig' \subseteq Clients, waiting' \subseteq Clients \cup {Driver},
         UNCHANGED <<nodeVars, driverFds, driverVars, lastClient>>,
         \A d \in Clients \ {c} : cpc'[d] = cpc[d]
  PROVE  BaseInv'
<1>1. NodeTypes' /\ Children' BY NodesSame, Zenon DEF BaseInv, Shapes
<1>2. rmw = NoRmw BY Alone, Zenon DEF BaseInv, Shapes
<1>3. rmw' = rmw BY Zenon DEF nodeVars
<1>4. driverFds' \subseteq Clients BY Zenon DEF BaseInv, Shapes, OtherTypes
<1> QED BY <1>1, <1>2, <1>3, <1>4, ClientBase, Zenon

(* A new channel is the first child. *)
LEMMA LinkFacts ==
  ASSUME node \in [Clients -> {"none", "alive", "dead"}], children \in Seq(Clients), Children,
         NEW c \in Clients, ~isAlive(c),
         node' = [node EXCEPT ![c] = "alive"], children' = <<c>> \o children
  PROVE  /\ node' \in [Clients -> {"none", "alive", "dead"}] /\ children' \in Seq(Clients)
         /\ Children'
<1>1. /\ children' \in Seq(Clients) /\ Len(children') = Len(children) + 1 /\ children'[1] = c
      /\ \A i \in 1 .. Len(children) : children'[i + 1] = children[i]
      /\ \A i \in 2 .. Len(children') : i - 1 \in 1 .. Len(children) /\ children'[i] = children[i - 1]
  OBVIOUS
<1>2. \A i \in 1 .. Len(children) : children[i] # c BY Zenon DEF Children, Contains
<1>3. \A d : Contains(children', d) <=> d = c \/ Contains(children, d)
  <2>1. ASSUME NEW d, NEW i \in 1 .. Len(children'), children'[i] = d
        PROVE  d = c \/ \E j \in 1 .. Len(children) : children[j] = d
    <3>1. i = 1 \/ i \in 2 .. Len(children') BY <1>1
    <3> QED BY <1>1, <2>1, <3>1, Zenon
  <2>2. \A i \in 1 .. Len(children) : i + 1 \in 1 .. Len(children') BY <1>1
  <2>3. 1 \in 1 .. Len(children') BY <1>1
  <2> QED BY <1>1, <2>1, <2>2, <2>3, Zenon DEF Contains
<1>4. Once(children')
  <2> SUFFICES ASSUME NEW i \in 1 .. Len(children'), NEW j \in 1 .. Len(children'),
                      children'[i] = children'[j]
               PROVE  i = j
    BY Zenon DEF Once
  <2>1. i = 1 \/ i \in 2 .. Len(children') BY <1>1
  <2>2. j = 1 \/ j \in 2 .. Len(children') BY <1>1
  <2>3. i = 1 => j = 1
    <3>1. ASSUME i = 1, j \in 2 .. Len(children') PROVE FALSE
      <4>1. children[j - 1] = c /\ j - 1 \in 1 .. Len(children) BY <1>1, <3>1, Zenon
      <4> QED BY <1>2, <4>1, Zenon
    <3> QED BY <2>2, <3>1, Zenon
  <2>4. j = 1 => i = 1
    <3>1. ASSUME j = 1, i \in 2 .. Len(children') PROVE FALSE
      <4>1. children[i - 1] = c /\ i - 1 \in 1 .. Len(children) BY <1>1, <3>1, Zenon
      <4> QED BY <1>2, <4>1, Zenon
    <3> QED BY <2>1, <3>1, Zenon
  <2>5. CASE i \in 2 .. Len(children') /\ j \in 2 .. Len(children')
    <3>1. /\ i - 1 \in 1 .. Len(children) /\ j - 1 \in 1 .. Len(children)
          /\ children[i - 1] = children[j - 1]
      BY <1>1, <2>5, Zenon
    <3>2. i - 1 = j - 1 BY <3>1, Zenon DEF Children, Once
    <3> QED BY <3>2, <2>5
  <2> QED BY <2>1, <2>2, <2>3, <2>4, <2>5, Zenon
<1>5. /\ node' \in [Clients -> {"none", "alive", "dead"}]
      /\ \A d \in Clients : node'[d] = "alive" <=> d = c \/ node[d] = "alive"
  BY Zenon
<1> QED BY <1>1, <1>3, <1>4, <1>5, Zenon DEF Children, isAlive

(* A client leaves the kernel. *)
LEMMA LeaveFacts ==
  ASSUME cpc \in [Clients -> ClientPCs], sig \subseteq Clients,
         NEW c \in Clients, NEW p \in ClientPCs, Leave(c, p)
  PROVE  /\ cpc' \in [Clients -> ClientPCs] /\ cpc'[c] = p /\ sig' \subseteq sig
         /\ \A d \in Clients \ {c} : cpc'[d] = cpc[d]
<1>1. Goto(c, p) /\ sig' \subseteq sig BY Zenon DEF Leave
<1> QED BY <1>1, GotoFacts, Zenon

(* Open creates the channel and its node, and its request. *)
LEMMA OpenBase ==
  ASSUME NCPU = 1, Library, BaseInv, NEW c \in Clients, open(c)
  PROVE  BaseInv'
<1> DEFINE call == [id |-> [op |-> "OPEN", rid |-> 0], sigs |-> FALSE, block |-> TRUE, part |-> 1]
<1>1. /\ MayRun(c) /\ treeUnlocked /\ node[c] = "none"
      /\ node' = [node EXCEPT ![c] = "alive"] /\ refs' = [refs EXCEPT ![c] = 2]
      /\ children' = <<c>> \o children /\ driverFds' = driverFds \cup {c}
      /\ closed' = [closed EXCEPT ![c] = FALSE] /\ cur' = [cur EXCEPT ![c] = call]
      /\ UNCHANGED <<devAlive, rmw, listVars, lastClient, cancelId, driverVars, waiting>>
  BY Zenon DEF open
<1>2. PICK p \in {"send", "idle"} : Leave(c, p) BY Zenon DEF open
<1>3. call \in Calls BY IdFacts, Zenon DEF ClientOps
<1> HIDE DEF call
<1>4. NodeTypes' /\ Children'
  <2>1. 2 \in 0 .. 2^16 - 1
    <3>1. 2^16 = 65536 OBVIOUS
    <3> QED BY <3>1
  <2>2. ~isAlive(c) BY <1>1, Zenon DEF isAlive
  <2> QED BY <1>1, <2>1, <2>2, LinkFacts, Zenon DEF BaseInv, Shapes, NodeTypes
<1>5. ListTypes' /\ Counted' BY <1>1, ListsSame, Zenon DEF BaseInv, Shapes
<1>6. ClientTypes' /\ sig' \subseteq Clients /\ \A d \in Clients \ {c} : cpc'[d] = cpc[d]
  <2>1. p \in ClientPCs BY Zenon DEF ClientPCs
  <2> QED BY <1>1, <1>2, <1>3, <2>1, LeaveFacts, Zenon
      DEF BaseInv, Shapes, ClientTypes, OtherTypes
<1>7. /\ closed' \in [Clients -> BOOLEAN] /\ driverFds' \subseteq Clients
      /\ waiting' \subseteq Clients \cup {Driver}
  BY <1>1, Zenon DEF BaseInv, Shapes, OtherTypes
<1>8. rmw' = NoRmw BY <1>1, Zenon DEF treeUnlocked
<1> QED BY <1>1, <1>4, <1>5, <1>6, <1>7, <1>8, ClientBase, Zenon

(* Read and write begin a call that has no message yet. *)
LEMMA RequestBase ==
  ASSUME NCPU = 1, Library, BaseInv, NEW c \in Clients, NEW op \in ClientOps, request(c, op)
  PROVE  BaseInv'
<1> DEFINE call == [id |-> [op |-> op, rid |-> 0], part |-> 1,
                    sigs |-> "CANCEL" \in DevOps, block |-> "CANCEL" \notin DevOps]
<1>1. /\ MayRun(c) /\ cur' = [cur EXCEPT ![c] = call] /\ Goto(c, "send")
      /\ UNCHANGED <<nodeVars, listVars, closed, lastClient, driverFds, cancelId, sig,
                     driverVars, waiting>>
  BY Zenon DEF request
<1>2. call \in Calls
  <2>1. [op |-> op, rid |-> 0] \in Ids BY IdFacts, Zenon
  <2>2. ("CANCEL" \in DevOps) \in BOOLEAN /\ ("CANCEL" \notin DevOps) \in BOOLEAN OBVIOUS
  <2> QED BY <2>1, <2>2, IdFacts, Zenon
<1> HIDE DEF call
<1>3. "send" \in ClientPCs BY Zenon DEF ClientPCs
<1>4. ClientTypes' /\ \A d \in Clients \ {c} : cpc'[d] = cpc[d]
  BY <1>1, <1>2, <1>3, GotoFacts, Zenon DEF BaseInv, Shapes, ClientTypes
<1>5. ListTypes' /\ Counted' BY <1>1, ListsSame, Zenon DEF BaseInv, Shapes
<1>6. /\ closed' \in [Clients -> BOOLEAN] /\ sig' \subseteq Clients
      /\ waiting' \subseteq Clients \cup {Driver}
  BY <1>1, Zenon DEF BaseInv, Shapes, OtherTypes
<1> QED BY <1>1, <1>4, <1>5, <1>6, ClientBase1, Zenon

(* The call that goes on after a response is well-typed. *)
LEMMA CallContinues ==
  ASSUME NEW q \in Calls
  PROVE  /\ [q EXCEPT !.sigs = FALSE, !.block = TRUE] \in Calls
         /\ [q EXCEPT !.sigs = FALSE, !.block = FALSE, !.part = 2] \in Calls
<1>1. FALSE \in BOOLEAN /\ TRUE \in BOOLEAN /\ 2 \in 1 .. 2 OBVIOUS
<1>2. [q EXCEPT !.sigs = FALSE] \in Calls BY <1>1, CallUpdates, Zenon
<1>3. /\ [q EXCEPT !.sigs = FALSE, !.block = TRUE] \in Calls
      /\ [q EXCEPT !.sigs = FALSE, !.block = FALSE] \in Calls
  BY <1>1, <1>2, CallUpdates, Zenon
<1> QED BY <1>1, <1>3, CallUpdates, Zenon

(* Two sequences after each other. *)
LEMMA AppendFacts ==
  ASSUME NEW S, NEW s \in Seq(S), NEW t \in Seq(S)
  PROVE  s \o t \in Seq(S) /\ Len(s \o t) = Len(s) + Len(t)
OBVIOUS

(* One message is sent, or two. *)
LEMMA SentFacts ==
  ASSUME ClientTypes, NEW c \in Clients, NEW op \in ClientOps, FreeRids(c, op) # {}
  PROVE  Sent(c, op) \in Seq(Requests) /\ Len(Sent(c, op)) \in 1 .. 2
<1> DEFINE m == [id |-> [op |-> op, rid |-> newRid(c, op)],
                 of |-> IF op = "CANCEL" THEN cur[c].id ELSE NoId]
<1>1. newRid(c, op) \in Rids BY NewRidFacts, Zenon
<1>2. cur[c].id \in Ids
  <2>1. cur[c] \in Calls BY Zenon DEF ClientTypes
  <2> QED BY <2>1 DEF Calls
<1>3. m \in Requests BY <1>1, <1>2, IdFacts, Zenon
<1>4. Sent(c, op) = IF op = "WRITE" THEN <<m, m>> ELSE <<m>> BY Zenon DEF Sent
<1> HIDE DEF m
<1>5. /\ <<m, m>> \in Seq(Requests) /\ Len(<<m, m>>) \in 1 .. 2
      /\ <<m>> \in Seq(Requests) /\ Len(<<m>>) \in 1 .. 2
  BY <1>3
<1> QED BY <1>4, <1>5, Zenon

(* Send puts the messages of a call or of its cancel into the list and     *)
(* wakes the driver up.                                                    *)
LEMMA SendBase ==
  ASSUME NCPU = 1, Library, BaseInv, NEW c \in Clients, NEW op \in ClientOps, send(c, op)
  PROVE  BaseInv'
<1> DEFINE new == Sent(c, op)
           s == sendList[c] \o new
           id == [op |-> op, rid |-> newRid(c, op)]
<1>1. /\ MayRun(c) /\ FreeRids(c, op) # {}
      /\ sendList' = [sendList EXCEPT ![c] = s] /\ msgCount' = msgCount + Len(new)
      /\ waiting' = waiting \ {Driver}
      /\ \/ UNCHANGED cur /\ cancelId' = [cancelId EXCEPT ![c] = newRid(c, op)]
         \/ UNCHANGED cancelId /\ cur' = [cur EXCEPT ![c] = [cur[c] EXCEPT !.id = id]]
      /\ Goto(c, IF op = "CLOSE" THEN "closed" ELSE "recv")
      /\ UNCHANGED <<nodeVars, recvList, closed, lastClient, driverFds, sig, driverVars>>
  BY SendParts, Zenon
<1>2. newRid(c, op) \in Rids BY <1>1, NewRidFacts, Zenon
<1>3. new \in Seq(Requests) /\ Len(new) \in 1 .. 2
  BY <1>1, SentFacts, Zenon DEF BaseInv, Shapes
<1>4. cur[c] \in Calls /\ id \in Ids /\ sendList[c] \in Seq(Requests)
  BY <1>2, IdFacts, Zenon DEF BaseInv, Shapes, ClientTypes, ListTypes
<1>5. [cur[c] EXCEPT !.id = id] \in Calls BY <1>4, IdFacts, Zenon
<1> HIDE DEF new, id
<1>6. s \in Seq(Requests) /\ Len(s) = Len(sendList[c]) + Len(new)
  BY <1>3, <1>4, AppendFacts, Zenon
<1> HIDE DEF s
<1>7. /\ IsFiniteSet(Unreceived')
      /\ Cardinality(Unreceived') = Cardinality(Unreceived) - Len(sendList[c]) + Len(s)
  BY <1>1, <1>6, CountChange, Zenon DEF BaseInv, Shapes, Counted
<1>8. ListTypes' /\ Counted'
  <2>1. Len(sendList[c]) \in Nat BY <1>4
  <2>2. msgCount = Cardinality(Unreceived) /\ msgCount \in Int
    BY Zenon DEF BaseInv, Shapes, ListTypes, Counted
  <2>3. msgCount' \in Int /\ msgCount' = Cardinality(Unreceived')
    BY ONLY <1>1, <1>3, <1>6, <1>7, <2>1, <2>2
  <2> QED BY <1>1, <1>6, <1>7, <2>3, Zenon DEF BaseInv, Shapes, ListTypes, Counted
<1>9. ClientTypes' /\ \A d \in Clients \ {c} : cpc'[d] = cpc[d]
  <2>1. (IF op = "CLOSE" THEN "closed" ELSE "recv") \in ClientPCs BY Zenon DEF ClientPCs
  <2>2. cpc' \in [Clients -> ClientPCs] /\ \A d \in Clients \ {c} : cpc'[d] = cpc[d]
    BY <1>1, <2>1, GotoFacts, Zenon DEF BaseInv, Shapes, ClientTypes
  <2> QED BY <1>1, <1>2, <1>5, <2>2, Zenon DEF BaseInv, Shapes, ClientTypes
<1>10. /\ closed' \in [Clients -> BOOLEAN] /\ sig' \subseteq Clients
       /\ waiting' \subseteq Clients \cup {Driver}
  BY <1>1, Zenon DEF BaseInv, Shapes, OtherTypes
<1> QED BY <1>1, <1>8, <1>9, <1>10, ClientBase1, Zenon

(* A call that is over keeps the types. *)
LEMMA ReturnTypes ==
  ASSUME ClientTypes, sig \subseteq Clients, NEW c \in Clients, NEW p \in ClientPCs, Return(c, p)
  PROVE  ClientTypes' /\ sig' \subseteq Clients /\ OthersSame(c)
BY ReturnFacts, Zenon DEF OthersSame

(* A client that goes on in its call keeps the types. *)
LEMMA GotoTypes ==
  ASSUME ClientTypes, NEW c \in Clients, NEW p \in ClientPCs, Goto(c, p), UNCHANGED <<cur, cancelId>>
  PROVE  ClientTypes' /\ OthersSame(c)
<1>1. cpc' \in [Clients -> ClientPCs] /\ \A d \in Clients \ {c} : cpc'[d] = cpc[d]
  BY GotoFacts, Zenon DEF ClientTypes
<1> QED BY <1>1, Zenon DEF ClientTypes, OthersSame

(* A client whose receive is interrupted keeps the types. *)
LEMMA InterruptedTypes ==
  ASSUME ClientTypes, sig \subseteq Clients, NEW c \in Clients, interrupted(c)
  PROVE  ClientTypes' /\ sig' \subseteq Clients /\ OthersSame(c)
<1>1. "cancel" \in ClientPCs /\ "idle" \in ClientPCs BY Zenon DEF ClientPCs
<1>2. CASE Goto(c, "cancel") /\ UNCHANGED <<cur, cancelId, sig>> BY <1>1, <1>2, GotoTypes, Zenon
<1>3. CASE Return(c, "idle") BY <1>1, <1>3, ReturnTypes, Zenon
<1> QED BY <1>2, <1>3, Zenon DEF interrupted

(* A client whose channel is destroyed keeps the types. *)
LEMMA DestroyedTypes ==
  ASSUME ClientTypes, sig \subseteq Clients, NEW c \in Clients, destroyed(c)
  PROVE  ClientTypes' /\ sig' \subseteq Clients /\ OthersSame(c)
<1>1. (IF cur[c].id.op = "OPEN" THEN "fail" ELSE "idle") \in ClientPCs BY Zenon DEF ClientPCs
<1> QED BY <1>1, ReturnTypes, Zenon DEF destroyed

(* A client that handles a response keeps the types. *)
LEMMA HandleResponseTypes ==
  ASSUME ClientTypes, sig \subseteq Clients, NEW c \in Clients, NEW m, handleResponse(c, m)
  PROVE  ClientTypes' /\ sig' \subseteq Clients /\ OthersSame(c)
<1> DEFINE x == [cur[c] EXCEPT !.sigs = FALSE, !.block = TRUE]
           y == [cur[c] EXCEPT !.sigs = FALSE, !.block = FALSE, !.part = 2]
<1>1. cur[c] \in Calls BY Zenon DEF ClientTypes
<1>2. x \in Calls /\ y \in Calls BY <1>1, CallContinues, Zenon
<1>3. "recv" \in ClientPCs /\ 0 \in Rids BY IdFacts, Zenon DEF ClientPCs
<1>4. \/ cur' = [cur EXCEPT ![c] = x] /\ cancelId' = [cancelId EXCEPT ![c] = 0]
         /\ Goto(c, "recv") /\ UNCHANGED sig
      \/ cur' = [cur EXCEPT ![c] = y] /\ Goto(c, "recv") /\ UNCHANGED <<cancelId, sig>>
      \/ Return(c, IF cur[c].id.op = "OPEN" /\ m.res < 0 THEN "fail" ELSE "idle")
  BY HandleResponseParts, Zenon
<1> HIDE DEF x, y
<1>5. CASE Goto(c, "recv") /\ UNCHANGED sig
           /\ cur' = [cur EXCEPT ![c] = x] /\ cancelId' = [cancelId EXCEPT ![c] = 0]
  <2>1. cpc' \in [Clients -> ClientPCs] /\ \A d \in Clients \ {c} : cpc'[d] = cpc[d]
    BY <1>3, <1>5, GotoFacts, Zenon DEF ClientTypes
  <2> QED BY <1>2, <1>3, <1>5, <2>1, Zenon DEF ClientTypes, OthersSame
<1>6. CASE cur' = [cur EXCEPT ![c] = y] /\ Goto(c, "recv") /\ UNCHANGED <<cancelId, sig>>
  <2>1. cpc' \in [Clients -> ClientPCs] /\ \A d \in Clients \ {c} : cpc'[d] = cpc[d]
    BY <1>3, <1>6, GotoFacts, Zenon DEF ClientTypes
  <2> QED BY <1>2, <1>6, <2>1, Zenon DEF ClientTypes, OthersSame
<1>7. CASE Return(c, IF cur[c].id.op = "OPEN" /\ m.res < 0 THEN "fail" ELSE "idle")
  <2>1. (IF cur[c].id.op = "OPEN" /\ m.res < 0 THEN "fail" ELSE "idle") \in ClientPCs
    BY Zenon DEF ClientPCs
  <2> QED BY <1>7, <2>1, ReturnTypes, Zenon
<1> QED BY <1>4, <1>5, <1>6, <1>7, Zenon

(* Receive takes the first response that matches, sleeps or gives up. *)
LEMMA ReceiveBase ==
  ASSUME NCPU = 1, Library, BaseInv, NEW c \in Clients, receive(c)
  PROVE  BaseInv'
<1> DEFINE i == getMsg(c)
<1>1. /\ MayRun(c)
      /\ UNCHANGED <<nodeVars, sendList, msgCount, closed, lastClient, driverFds, driverVars>>
      /\ \/ /\ i # 0 /\ recvList' = [recvList EXCEPT ![c] = RemoveAt(recvList[c], i)]
            /\ handleResponse(c, recvList[c][i]) /\ UNCHANGED waiting
         \/ interrupted(c) /\ UNCHANGED <<recvList, waiting>>
         \/ destroyed(c) /\ UNCHANGED <<recvList, waiting>>
         \/ /\ waiting' = waiting \cup {c} /\ Goto(c, "sleep")
            /\ UNCHANGED <<recvList, cur, cancelId, sig>>
  BY Zenon DEF receive
<1>2. ClientTypes' /\ sig' \subseteq Clients /\ OthersSame(c)
  <2>1. ClientTypes /\ sig \subseteq Clients BY Zenon DEF BaseInv, Shapes, OtherTypes
  <2>2. "sleep" \in ClientPCs BY Zenon DEF ClientPCs
  <2> QED BY <1>1, <2>1, <2>2, HandleResponseTypes, InterruptedTypes, DestroyedTypes, GotoTypes, Zenon
<1>3. ListTypes' /\ Counted'
  <2>1. recvList[c] \in Seq(Responses) BY Zenon DEF BaseInv, Shapes, ListTypes
  <2>2. i # 0 => RemoveAt(recvList[c], i) \in Seq(Responses)
    <3>1. i # 0 => i \in 1 .. Len(recvList[c]) BY <2>1, GetMsgFacts, Zenon
    <3> HIDE DEF i
    <3> QED BY <2>1, <3>1, RemoveAtFacts, Zenon
  <2> HIDE DEF i
  <2>3. recvList' \in [Clients -> Seq(Responses)]
    BY <1>1, <2>2, Zenon DEF BaseInv, Shapes, ListTypes
  <2> QED BY <1>1, <2>3, CountSame, Zenon DEF BaseInv, Shapes, ListTypes
<1>4. closed' \in [Clients -> BOOLEAN] /\ waiting' \subseteq Clients \cup {Driver}
  BY <1>1, Zenon DEF BaseInv, Shapes, OtherTypes
<1> QED BY <1>1, <1>2, <1>3, <1>4, ClientBase1, Zenon DEF OthersSame

(* A woken client looks for its response again. *)
LEMMA ResumeBase ==
  ASSUME NCPU = 1, Library, BaseInv, NEW c \in Clients, resume(c)
  PROVE  BaseInv'
<1>1. /\ MayRun(c) /\ waiting' = waiting \ {c}
      /\ UNCHANGED <<nodeVars, listVars, closed, lastClient, driverFds, driverVars>>
      /\ \/ interrupted(c) \/ destroyed(c)
         \/ Goto(c, "recv") /\ UNCHANGED <<cur, cancelId, sig>>
  BY Zenon DEF resume
<1>2. ClientTypes' /\ sig' \subseteq Clients /\ OthersSame(c)
  <2>1. ClientTypes /\ sig \subseteq Clients BY Zenon DEF BaseInv, Shapes, OtherTypes
  <2>2. "recv" \in ClientPCs BY Zenon DEF ClientPCs
  <2> QED BY <1>1, <2>1, <2>2, InterruptedTypes, DestroyedTypes, GotoTypes, Zenon
<1>3. ListTypes' /\ Counted' BY <1>1, ListsSame, Zenon DEF BaseInv, Shapes
<1>4. closed' \in [Clients -> BOOLEAN] /\ waiting' \subseteq Clients \cup {Driver}
  BY <1>1, Zenon DEF BaseInv, Shapes, OtherTypes
<1> QED BY <1>1, <1>2, <1>3, <1>4, ClientBase1, Zenon DEF OthersSame

(* A client that drops its reference. *)
LEMMA DropBase ==
  ASSUME NCPU = 1, Library, BaseInv, NEW c \in Clients, MayRun(c), NEW remove \in BOOLEAN,
         \/ doUnref(c, remove, c)
         \/ UNCHANGED <<nodeVars, waiting>>,
         ClientTypes', driverFds' \subseteq Clients, sig' \subseteq Clients,
         \A d \in Clients \ {c} : cpc'[d] = cpc[d],
         UNCHANGED <<listVars, closed, lastClient, driverVars>>
  PROVE  BaseInv'
<1>1. /\ NodeTypes /\ Children /\ msgCount \in Int /\ waiting \subseteq Clients \cup {Driver}
      /\ closed \in [Clients -> BOOLEAN] /\ ListTypes /\ Counted
  BY Zenon DEF BaseInv, Shapes, OtherTypes, ListTypes
<1>2. ListTypes' /\ Counted' /\ msgCount' = msgCount
  BY <1>1, ListsSame, Zenon DEF listVars
<1> DEFINE r == [by |-> c, chan |-> c, count |-> msgCount]
<1>3. r.by = c /\ r.chan = c /\ r.count = msgCount BY Zenon
<1> HIDE DEF r
<1>4. CASE doUnref(c, remove, c)
  <2>1. c \in Clients \cup {Driver} BY Zenon
  <2>2. NodeTypes' /\ Children' /\ waiting' \subseteq waiting /\ rmw' \in {NoRmw, r}
    BY <1>1, <1>4, <2>1, UnrefFacts, Zenon DEF r
  <2>3. c # Null BY Names, Zenon
  <2> QED BY <1>1, <1>2, <1>3, <2>2, <2>3, ClientBase, Zenon
<1>5. CASE UNCHANGED <<nodeVars, waiting>>
  <2>1. NodeTypes' /\ Children' BY <1>1, <1>5, NodesSame, Zenon
  <2>2. rmw' = NoRmw
    <3>1. rmw = NoRmw BY Alone, Zenon DEF BaseInv, Shapes
    <3> QED BY <1>5, <3>1, Zenon DEF nodeVars
  <2> QED BY <1>1, <1>2, <1>5, <2>1, <2>2, ClientBase, Zenon
<1> QED BY <1>4, <1>5, Zenon

(* A failed open takes the file of the driver away. *)
LEMMA CloseForDriverBase ==
  ASSUME NCPU = 1, Library, BaseInv, NEW c \in Clients, closeForDriver(c)
  PROVE  BaseInv'
<1>1. /\ MayRun(c) /\ Goto(c, "release") /\ driverFds' \subseteq driverFds
      /\ UNCHANGED <<listVars, closed, lastClient, cur, cancelId, sig, driverVars>>
      /\ \/ doUnref(c, TRUE, c) \/ doUnref(c, FALSE, c)
         \/ UNCHANGED <<nodeVars, waiting>>
  BY Zenon DEF closeForDriver, destroy, unref
<1>2. "release" \in ClientPCs BY Zenon DEF ClientPCs
<1>3. ClientTypes' /\ OthersSame(c) BY <1>1, <1>2, GotoTypes, Zenon DEF BaseInv, Shapes
<1>4. driverFds' \subseteq Clients /\ sig' \subseteq Clients
  BY <1>1, Zenon DEF BaseInv, Shapes, OtherTypes
<1>5. \A d \in Clients \ {c} : cpc'[d] = cpc[d] BY <1>3, Zenon DEF OthersSame
<1>6. TRUE \in BOOLEAN /\ FALSE \in BOOLEAN BY Zenon
<1> QED BY <1>1, <1>3, <1>4, <1>5, <1>6, DropBase, Zenon

(* The client drops its reference after a failed open. *)
LEMMA ReleaseBase ==
  ASSUME NCPU = 1, Library, BaseInv, NEW c \in Clients, release(c)
  PROVE  BaseInv'
<1>1. /\ MayRun(c) /\ doUnref(c, FALSE, c) /\ Leave(c, "out")
      /\ UNCHANGED <<listVars, closed, lastClient, driverFds, cur, cancelId, driverVars>>
  BY Zenon DEF release, unref
<1>2. "out" \in ClientPCs BY Zenon DEF ClientPCs
<1>3. ClientTypes' /\ sig' \subseteq Clients /\ \A d \in Clients \ {c} : cpc'[d] = cpc[d]
  BY <1>1, <1>2, LeaveFacts, Zenon DEF BaseInv, Shapes, ClientTypes, OtherTypes
<1>4. driverFds' \subseteq Clients BY <1>1, Zenon DEF BaseInv, Shapes, OtherTypes
<1>5. FALSE \in BOOLEAN BY Zenon
<1> QED BY <1>1, <1>3, <1>4, <1>5, DropBase, Zenon

(* The client drops its reference and is about to tell the driver. *)
LEMMA CloseBase ==
  ASSUME NCPU = 1, Library, BaseInv, NEW c \in Clients, close(c)
  PROVE  BaseInv'
<1> DEFINE q == [NoReq EXCEPT !.id.op = "CLOSE"]
<1>1. PICK p \in {"send", "out"} :
        /\ MayRun(c) /\ doUnref(c, FALSE, c) /\ Leave(c, p)
        /\ cur' = [cur EXCEPT ![c] = q] \/ UNCHANGED cur
        /\ UNCHANGED <<listVars, closed, lastClient, driverFds, cancelId, driverVars>>
  BY Zenon DEF close, unref
<1>2. p \in ClientPCs BY Zenon DEF ClientPCs
<1>3. q \in Calls
  <2>1. q = [id |-> [op |-> "CLOSE", rid |-> 0], sigs |-> FALSE, block |-> FALSE, part |-> 1]
    BY DEF NoReq, NoId
  <2> HIDE DEF q
  <2>2. FALSE \in BOOLEAN /\ "CLOSE" \in ClientOps BY Zenon DEF ClientOps
  <2> QED BY <2>1, <2>2, IdFacts, Zenon
<1> HIDE DEF q
<1>4. ClientTypes' /\ sig' \subseteq Clients /\ \A d \in Clients \ {c} : cpc'[d] = cpc[d]
  BY <1>1, <1>2, <1>3, LeaveFacts, Zenon DEF BaseInv, Shapes, ClientTypes, OtherTypes
<1>5. driverFds' \subseteq Clients BY <1>1, Zenon DEF BaseInv, Shapes, OtherTypes
<1>6. FALSE \in BOOLEAN BY Zenon
<1> QED BY <1>1, <1>4, <1>5, <1>6, DropBase, Zenon

(* The channel is closed once the message is sent. *)
LEMMA SetClosedBase ==
  ASSUME NCPU = 1, Library, BaseInv, NEW c \in Clients, setClosed(c)
  PROVE  BaseInv'
<1>1. /\ MayRun(c) /\ closed' = [closed EXCEPT ![c] = TRUE] /\ Return(c, "out")
      /\ UNCHANGED <<nodeVars, listVars, lastClient, driverFds, driverVars, waiting>>
  BY Zenon DEF setClosed
<1>2. "out" \in ClientPCs BY Zenon DEF ClientPCs
<1>3. ClientTypes' /\ sig' \subseteq Clients /\ OthersSame(c)
  BY <1>1, <1>2, ReturnTypes, Zenon DEF BaseInv, Shapes, OtherTypes
<1>4. ListTypes' /\ Counted' BY <1>1, ListsSame, Zenon DEF BaseInv, Shapes
<1>5. closed' \in [Clients -> BOOLEAN] /\ waiting' \subseteq Clients \cup {Driver}
  BY <1>1, Zenon DEF BaseInv, Shapes, OtherTypes
<1> QED BY <1>1, <1>3, <1>4, <1>5, ClientBase1, Zenon DEF OthersSame

(* A signal wakes a client up, it decides for itself. *)
LEMMA AddSignalForBase ==
  ASSUME BaseInv, NEW c \in Clients, addSignalFor(c)
  PROVE  BaseInv'
<1>1. /\ sig' = sig \cup {c} /\ UNCHANGED <<node, refs, devAlive, children, rmw>>
      /\ UNCHANGED <<sendList, recvList, msgCount, closed, lastClient, driverFds>>
      /\ UNCHANGED <<cpc, cur, cancelId, dpc, dmsg, pending, input, feeding, waiting>>
  BY Zenon DEF addSignalFor, nodeVars, listVars, clientVars, driverVars
<1>2. Shapes' BY <1>1, Zenon
      DEF BaseInv, Shapes, NodeTypes, ListTypes, ClientTypes, DriverTypes, OtherTypes
<1>3. Hands' BY <1>1, Zenon DEF BaseInv, Hands
<1>4. Children' BY <1>1, Zenon DEF BaseInv, Children, isAlive
<1>5. Counted' BY <1>1, CountSame, Zenon DEF BaseInv
<1> QED BY <1>1, <1>2, <1>3, <1>4, <1>5, LeavingStep, Zenon
=============================================================================
