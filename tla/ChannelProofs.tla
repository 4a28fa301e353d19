--------------------------- MODULE ChannelProofs ----------------------------
(***************************************************************************)
(* IPC for any number of clients on one CPU: the steps of the driver keep  *)
(* the types, the children of the device and the number of messages, all   *)
(* steps keep the invariant, and the theorems.                             *)
(***************************************************************************)
EXTENDS ChannelDriver, FiniteSetTheorems, WellFoundedInduction

(* The library of the proofs: the first of some natural numbers, and the   *)
(* sizes of finite sets.                                                   *)
LEMMA LibraryFacts == Library
<1>1. Minima
  <2> SUFFICES ASSUME NEW T \in SUBSET Nat, T # {} PROVE \E x \in T : \A y \in T : x =< y
    BY Zenon DEF Minima
  <2> DEFINE R == {ss \in Nat \X Nat : ss[1] < ss[2]}
  <2>1. IsWellFoundedOn(R, Nat) BY NatLessThanWellFounded, Zenon DEF OpToRel
  <2>2. PICK x \in T : \A y \in T : ~(<<y, x>> \in R)
    <3> HIDE DEF R
    <3> QED BY <2>1, WFMin, Zenon
  <2>3. ASSUME NEW y \in T PROVE x =< y
    <3>1. ~(y < x) BY <2>2, Zenon
    <3> QED BY <3>1
  <2> QED BY <2>3, Zenon
<1>2. Counts
  <2>1. ASSUME NEW S \in SUBSET (Clients \cup {Driver}), Cardinality(S) < 1 PROVE S = {}
    <3>1. IsFiniteSet(Clients \cup {Driver}) BY Names, FS_AddElement, Zenon
    <3>2. IsFiniteSet(S) BY <3>1, FS_Subset, Zenon
    <3>3. Cardinality(S) \in Nat BY <3>2, FS_CardinalityType, Zenon
    <3>4. Cardinality(S) = 0 BY <2>1, <3>3
    <3> QED BY <3>2, <3>4, FS_EmptySet, Zenon
  <2>2. ASSUME NEW S, IsFiniteSet(S) PROVE Cardinality(S) \in Nat /\ (Cardinality(S) = 0 <=> S = {})
    BY <2>2, FS_CardinalityType, FS_EmptySet, Zenon
  <2> QED BY <2>1, <2>2, Zenon DEF Counts
<1>3. Sizes
  <2>1. IsFiniteSet({}) BY FS_EmptySet, Zenon
  <2>2. ASSUME NEW x, NEW n \in Nat
        PROVE  IsFiniteSet({x} \X (1 .. n)) /\ Cardinality({x} \X (1 .. n)) = n
    <3>1. 1 \in Int /\ n \in Int OBVIOUS
    <3>2. IsFiniteSet(1 .. n) /\ Cardinality(1 .. n) = IF 1 > n THEN 0 ELSE n - 1 + 1
      BY <3>1, FS_Interval, Zenon
    <3>3. IsFiniteSet({x}) /\ Cardinality({x}) = 1 BY FS_Singleton, Zenon
    <3>4. /\ IsFiniteSet({x} \X (1 .. n))
          /\ Cardinality({x} \X (1 .. n)) = Cardinality({x}) * Cardinality(1 .. n)
      BY <3>2, <3>3, FS_Product, Zenon
    <3> QED BY <3>2, <3>3, <3>4
  <2>3. ASSUME NEW S, NEW T, IsFiniteSet(S), T \subseteq S
        PROVE  IsFiniteSet(S \ T) /\ Cardinality(S \ T) = Cardinality(S) - Cardinality(T)
    <3>1. S \cap T = T BY <2>3, Zenon
    <3> QED BY <2>3, <3>1, FS_Difference, Zenon
  <2>4. ASSUME NEW S, NEW T, IsFiniteSet(S), IsFiniteSet(T), S \cap T = {}
        PROVE  IsFiniteSet(S \cup T) /\ Cardinality(S \cup T) = Cardinality(S) + Cardinality(T)
    <3>1. /\ IsFiniteSet(S \cup T)
          /\ Cardinality(S \cup T) = Cardinality(S) + Cardinality(T) - Cardinality(S \cap T)
      BY <2>4, FS_Union, Zenon
    <3>2. Cardinality(S \cap T) = 0 BY <2>4, FS_EmptySet, Zenon
    <3>3. Cardinality(S) \in Nat /\ Cardinality(T) \in Nat BY <2>4, FS_CardinalityType, Zenon
    <3> QED BY <3>1, <3>2, <3>3
  <2> QED BY <2>1, <2>2, <2>3, <2>4, Zenon DEF Sizes
<1> QED BY <1>1, <1>2, <1>3, Zenon DEF Library

-----------------------------------------------------------------------------
(* A step of the driver in the kernel. *)
LEMMA DriverBase ==
  ASSUME NCPU = 1, Library, BaseInv, MayRun(Driver),
         NodeTypes', Children', ListTypes', Counted', DriverTypes', Hands',
         lastClient' \in Clients \cup {Null}, driverFds' \subseteq Clients,
         waiting' \subseteq Clients \cup {Driver},
         UNCHANGED <<closed, clientVars, sig>>,
         rmw' # NoRmw => rmw'.by = Driver /\ rmw'.chan # Null /\ rmw'.count = msgCount'
  PROVE  BaseInv'
<1>1. UNCHANGED <<closed, cpc, cur, cancelId, sig>> BY Zenon DEF clientVars
<1>2. ClientTypes' /\ OtherTypes' BY <1>1, Zenon DEF BaseInv, Shapes, ClientTypes, OtherTypes
<1>3. Driver # Null BY Names, Zenon
<1>4. \A d \in Clients \ {Driver} : cpc'[d] = cpc[d] BY <1>1, Zenon
<1> QED BY <1>2, <1>3, <1>4, RunningStep, Zenon

(* A step that leaves the tree and the clients alone, of a thread of the   *)
(* driver that does not stay in the kernel.                                *)
LEMMA OutsideBase ==
  ASSUME BaseInv, ListTypes', Counted', DriverTypes', Hands', OtherTypes',
         UNCHANGED <<nodeVars, clientVars>>,
         dpc' = dpc \/ dpc' \notin KernelPCs,
         rmw = NoRmw \/ UNCHANGED msgCount
  PROVE  BaseInv'
<1>1. UNCHANGED <<rmw, cpc, cur, cancelId>> BY Zenon DEF nodeVars, clientVars
<1>2. NodeTypes' /\ Children' BY NodesSame, Zenon DEF BaseInv, Shapes
<1>3. ClientTypes' BY <1>1, Zenon DEF BaseInv, Shapes, ClientTypes
<1>4. Shapes' BY <1>2, <1>3, Zenon DEF Shapes
<1> QED BY <1>1, <1>2, <1>4, LeavingStep, Zenon

(* A message that is received is counted. *)
LEMMA TakeFirstFacts ==
  ASSUME Library, ListTypes, Counted, NEW c \in Clients, TakeFirst(c), UNCHANGED recvList
  PROVE  /\ ListTypes' /\ Counted'
         /\ Head(sendList[c]) \in Requests /\ Head(sendList[c]).id \in Ids
         /\ Head(sendList[c]).of \in Ids
<1>1. sendList[c] \in Seq(Requests) /\ sendList[c] # <<>> BY Zenon DEF ListTypes, TakeFirst
<1>2. /\ Tail(sendList[c]) \in Seq(Requests) /\ Len(Tail(sendList[c])) = Len(sendList[c]) - 1
      /\ Head(sendList[c]) \in Requests /\ Len(sendList[c]) \in Nat
  BY <1>1
<1>3. /\ sendList' = [sendList EXCEPT ![c] = Tail(sendList[c])] /\ msgCount' = msgCount - 1
  BY Zenon DEF TakeFirst
<1>4. /\ IsFiniteSet(Unreceived')
      /\ Cardinality(Unreceived') = Cardinality(Unreceived) - Len(sendList[c]) + Len(Tail(sendList[c]))
  BY <1>2, <1>3, CountChange, Zenon DEF Counted
<1>5. msgCount \in Int /\ msgCount = Cardinality(Unreceived) BY Zenon DEF ListTypes, Counted
<1>6. msgCount' \in Int /\ msgCount' = Cardinality(Unreceived')
  BY ONLY <1>2, <1>3, <1>4, <1>5
<1>7. ListTypes' /\ Counted' BY <1>2, <1>3, <1>4, <1>6, Zenon DEF ListTypes, Counted
<1>8. Head(sendList[c]).id \in Ids /\ Head(sendList[c]).of \in Ids BY <1>2 DEF Requests
<1> QED BY <1>2, <1>7, <1>8, Zenon

(* Getwork finds a message if there is one, or sleeps. *)
LEMMA GetworkBase ==
  ASSUME NCPU = 1, Library, BaseInv, getwork
  PROVE  BaseInv'
<1>1. /\ MayRun(Driver) /\ treeUnlocked /\ dpc \in {"loop", "sleep"} /\ lastClient' = getWork.last
      /\ \/ /\ getWork.chan # Null /\ dpc' = "recv"
            /\ dmsg' = [dmsg EXCEPT !.chan = getWork.chan] /\ UNCHANGED waiting
         \/ dpc' = "sleep" /\ waiting' = waiting \cup {Driver} /\ UNCHANGED dmsg
      /\ UNCHANGED <<nodeVars, listVars, closed, driverFds, clientVars, sig, pending, input, feeding>>
  BY Zenon DEF getwork
<1>2. NodeTypes' /\ Children' /\ ListTypes' /\ Counted' /\ rmw' = NoRmw
  <2>1. rmw' = NoRmw BY <1>1, Zenon DEF treeUnlocked, nodeVars
  <2> QED BY <1>1, <2>1, NodesSame, ListsSame, Zenon DEF BaseInv, Shapes
<1>3. /\ getWork.last \in Clients \cup {Null}
      /\ getWork.chan # Null => getWork.chan \in Clients /\ sendList[getWork.chan] # <<>>
  BY GetWorkFacts, Names, Zenon DEF BaseInv, Shapes, NodeTypes, OtherTypes
<1>4. dmsg \in Taken /\ dmsg = NoMsg /\ dpc' \in DriverPCs /\ UNCHANGED sendList
  <2>1. dmsg = NoMsg BY <1>1, Zenon DEF BaseInv, Hands
  <2>2. dpc' \in DriverPCs /\ UNCHANGED sendList BY <1>1, Zenon DEF DriverPCs, listVars
  <2> QED BY <2>1, <2>2, NoMsgFacts, Zenon
<1>5. dmsg' \in Taken /\ (dpc' = "recv" => dmsg'.chan \in Clients /\ sendList'[dmsg'.chan] # <<>>)
  <2>1. CASE dpc' = "recv" /\ getWork.chan # Null /\ dmsg' = [dmsg EXCEPT !.chan = getWork.chan]
    <3>1. getWork.chan \in Clients /\ sendList[getWork.chan] # <<>> BY <1>3, <2>1, Zenon
    <3>2. dmsg' \in Taken /\ dmsg'.chan = getWork.chan BY <1>4, <2>1, <3>1, ChanSet, Zenon
    <3> QED BY <1>4, <3>1, <3>2, Zenon
  <2>2. CASE dpc' = "sleep" /\ UNCHANGED dmsg BY <1>4, <2>2, Zenon
  <2> QED BY <1>1, <2>1, <2>2, Zenon
<1>6. DriverTypes'
  BY <1>1, <1>4, <1>5, Zenon DEF BaseInv, Shapes, DriverTypes, Taken
<1>7. Hands' BY <1>1, <1>2, <1>4, <1>5, Names, Zenon DEF BaseInv, Hands
<1>8. /\ lastClient' \in Clients \cup {Null} /\ driverFds' \subseteq Clients
      /\ waiting' \subseteq Clients \cup {Driver} /\ UNCHANGED <<closed, clientVars, sig>>
  BY <1>1, <1>3, Zenon DEF BaseInv, Shapes, OtherTypes
<1> QED BY <1>1, <1>2, <1>6, <1>7, <1>8, DriverBase, Zenon

(* The driver receives: drvReceive and handleWrite. *)
LEMMA TakesBase ==
  ASSUME NCPU = 1, Library, BaseInv, MayRun(Driver), dpc \in {"recv", "handle"}, TakeFirst(dmsg.chan),
         dpc' \in {"handle", "reply"}, dmsg' \in Taken, dmsg'.chan = dmsg.chan,
         UNCHANGED <<nodeVars, recvList, closed, lastClient, driverFds, clientVars, sig,
                     pending, input, feeding, waiting>>
  PROVE  BaseInv'
<1>1. dmsg.chan \in Clients BY MsgTypes, Zenon
<1>2. ListTypes' /\ Counted' BY <1>1, TakeFirstFacts, Zenon DEF BaseInv, Shapes
<1>3. rmw = NoRmw BY Alone, Zenon DEF BaseInv, Shapes
<1>4. dpc' \in DriverPCs BY Zenon DEF DriverPCs
<1>5. DriverTypes' /\ OtherTypes'
  BY <1>4, Zenon DEF BaseInv, Shapes, DriverTypes, OtherTypes, Taken
<1>6. Hands' BY <1>1, Names, Zenon DEF BaseInv, Hands
<1>7. dpc' \notin KernelPCs BY Zenon DEF KernelPCs
<1> QED BY <1>2, <1>3, <1>5, <1>6, <1>7, OutsideBase, Zenon

(* The driver receives the message that getwork has found. *)
LEMMA DrvReceiveBase ==
  ASSUME NCPU = 1, Library, BaseInv, drvReceive
  PROVE  BaseInv'
<1> DEFINE h == Head(sendList[dmsg.chan])
<1>1. /\ MayRun(Driver) /\ dpc = "recv" /\ TakeFirst(dmsg.chan)
      /\ dmsg' = [dmsg EXCEPT !.id = h.id, !.of = h.of] /\ dpc' = "handle"
      /\ UNCHANGED <<nodeVars, recvList, closed, lastClient, driverFds, clientVars, sig,
                     pending, input, feeding, waiting>>
  BY Zenon DEF drvReceive
<1>2. dmsg.chan \in Clients /\ dmsg \in Taken BY <1>1, MsgTypes, Zenon
<1>3. h.id \in Ids /\ h.of \in Ids BY <1>1, <1>2, TakeFirstFacts, Zenon DEF BaseInv, Shapes
<1> HIDE DEF h
<1> DEFINE x == [dmsg EXCEPT !.id = h.id]
<1>4. x \in Taken /\ x.chan = dmsg.chan /\ dmsg' = [x EXCEPT !.of = h.of]
  BY <1>1, <1>2, <1>3, IdSet, Zenon
<1> HIDE DEF x
<1>5. dmsg' \in Taken /\ dmsg'.chan = dmsg.chan BY <1>3, <1>4, OfSet, Zenon
<1> QED BY <1>1, <1>5, TakesBase, Zenon

(* The driver takes the data of a write. *)
LEMMA HandleWriteBase ==
  ASSUME NCPU = 1, Library, BaseInv, handleWrite
  PROVE  BaseInv'
<1>1. /\ MayRun(Driver) /\ dpc = "handle" /\ TakeFirst(dmsg.chan)
      /\ dmsg' = [dmsg EXCEPT !.res = 0] /\ dpc' = "reply"
      /\ UNCHANGED <<nodeVars, recvList, closed, lastClient, driverFds, clientVars, sig,
                     pending, input, feeding, waiting>>
  BY Zenon DEF handleWrite
<1>2. 0 \in -1 .. 2 OBVIOUS
<1>3. dmsg \in Taken BY MsgTypes, Zenon
<1>4. [dmsg EXCEPT !.res = 0] \in Taken BY ONLY <1>2, <1>3 DEF Taken
<1>5. [dmsg EXCEPT !.res = 0].chan = dmsg.chan BY ONLY <1>2, <1>3, ResSet, Zenon
<1>6. dmsg' \in Taken /\ dmsg'.chan = dmsg.chan BY <1>1, <1>4, <1>5, Zenon
<1> QED BY <1>1, <1>6, TakesBase, Zenon

(* A response is sent. *)
LEMMA RespondBase ==
  ASSUME BaseInv, NEW a, NEW c \in Clients, NEW id \in Ids, NEW res \in -1 .. 2,
         sendResponse(a, c, id, res), DriverTypes', Hands', dpc' = dpc \/ dpc' \notin KernelPCs
  PROVE  BaseInv'
<1> DEFINE m == [id |-> id, res |-> res]
           s == Append(recvList[c], m)
<1>1. /\ recvList' = [recvList EXCEPT ![c] = s] /\ waiting' = waiting \ {c}
      /\ UNCHANGED <<nodeVars, sendList, msgCount, closed, lastClient, driverFds, clientVars, sig>>
  BY Zenon DEF sendResponse
<1>2. m \in Responses BY DEF Responses
<1>3. recvList[c] \in Seq(Responses) BY Zenon DEF BaseInv, Shapes, ListTypes
<1> HIDE DEF m
<1>4. s \in Seq(Responses) BY <1>2, <1>3
<1> HIDE DEF s
<1>5. ListTypes' /\ Counted'
  BY <1>1, <1>4, CountSame, Zenon DEF BaseInv, Shapes, ListTypes
<1>6. OtherTypes' BY <1>1, Zenon DEF BaseInv, Shapes, OtherTypes
<1> QED BY <1>1, <1>5, <1>6, OutsideBase, Zenon

(* The driver answers an open. *)
LEMMA HandleOpenBase ==
  ASSUME BaseInv, handleOpen
  PROVE  BaseInv'
<1>1. PICK res \in {-1, 0} : sendResponse(Driver, dmsg.chan, dmsg.id, res)
  BY Zenon DEF handleOpen
<1>2. dpc = "handle" /\ BackToLoop /\ UNCHANGED <<pending, input, feeding>>
  BY Zenon DEF handleOpen
<1>3. res \in -1 .. 2 BY Results, Zenon
<1>4. DriverTypes' /\ Hands' /\ dpc' \notin KernelPCs BY <1>2, PendingTypes, LoopFacts, Zenon
<1>5. dmsg.chan \in Clients /\ dmsg.id \in Ids BY <1>2, MsgTypes, Zenon
<1> QED BY <1>1, <1>3, <1>4, <1>5, RespondBase, Zenon

(* The driver answers a read or puts it into the queue. *)
LEMMA HandleReadBase ==
  ASSUME BaseInv, handleRead
  PROVE  BaseInv'
<1>1. dpc = "handle" BY Zenon DEF handleRead
<1>2. dmsg.chan \in Clients /\ dmsg.id \in Ids /\ dmsg \in Taken BY <1>1, MsgTypes, Zenon
<1>3. CASE /\ sendResponse(Driver, dmsg.chan, dmsg.id, 1) /\ dpc' = "data"
           /\ UNCHANGED <<dmsg, pending, feeding>> /\ input' = FALSE
  <2>1. dpc' \in DriverPCs /\ dpc' \notin KernelPCs BY <1>3, Zenon DEF DriverPCs, KernelPCs
  <2>2. DriverTypes' BY <1>3, <2>1, Zenon DEF BaseInv, Shapes, DriverTypes
  <2>3. Hands' BY <1>1, <1>2, <1>3, Names, Zenon DEF BaseInv, Hands
  <2> QED BY <1>2, <1>3, <2>1, <2>2, <2>3, Results, RespondBase, Zenon
<1>4. CASE /\ sendResponse(Driver, dmsg.chan, dmsg.id, 0) /\ BackToLoop
           /\ UNCHANGED <<pending, feeding>> /\ input' = FALSE
  <2>1. DriverTypes' /\ Hands' /\ dpc' \notin KernelPCs BY <1>4, PendingTypes, LoopFacts, Zenon
  <2> QED BY <1>2, <1>4, <2>1, Results, RespondBase, Zenon
<1>5. CASE /\ pending' = Append(pending, [chan |-> dmsg.chan, id |-> dmsg.id]) /\ BackToLoop
           /\ UNCHANGED <<nodeVars, listVars, closed, lastClient, driverFds, clientVars, sig,
                          input, feeding, waiting>>
  <2>1. pending' \in Seq([chan : Clients, id : Ids])
    <3>1. [chan |-> dmsg.chan, id |-> dmsg.id] \in [chan : Clients, id : Ids] BY <1>2
    <3>2. pending \in Seq([chan : Clients, id : Ids]) BY PendingTypes, Zenon
    <3> QED BY ONLY <1>5, <3>1, <3>2
  <2>2. DriverTypes' /\ Hands' /\ dpc' \notin KernelPCs
    BY <1>5, <2>1, PendingTypes, LoopFacts, Zenon
  <2>3. ListTypes' /\ Counted' BY <1>5, ListsSame, Zenon DEF BaseInv, Shapes
  <2>4. OtherTypes' /\ UNCHANGED msgCount BY <1>5, Zenon DEF BaseInv, Shapes, OtherTypes, listVars
  <2> QED BY <1>5, <2>2, <2>3, <2>4, OutsideBase, Zenon
<1> QED BY <1>3, <1>4, <1>5, Zenon DEF handleRead

(* The driver sends the data of a read. *)
LEMMA SendDataBase ==
  ASSUME BaseInv, sendData
  PROVE  BaseInv'
<1>1. /\ dpc = "data" /\ sendResponse(Driver, dmsg.chan, dmsg.id, 2) /\ BackToLoop
      /\ UNCHANGED <<pending, input, feeding>>
  BY Zenon DEF sendData
<1>2. DriverTypes' /\ Hands' /\ dpc' \notin KernelPCs BY <1>1, PendingTypes, LoopFacts, Zenon
<1>3. dmsg.chan \in Clients /\ dmsg.id \in Ids BY <1>1, MsgTypes, Zenon
<1> QED BY <1>1, <1>2, <1>3, Results, RespondBase, Zenon

(* The driver sends the result. *)
LEMMA ReplyBase ==
  ASSUME BaseInv, reply
  PROVE  BaseInv'
<1>1. /\ dpc = "reply" /\ sendResponse(Driver, dmsg.chan, dmsg.id, dmsg.res) /\ BackToLoop
      /\ UNCHANGED <<pending, input, feeding>>
  BY Zenon DEF reply
<1>2. DriverTypes' /\ Hands' /\ dpc' \notin KernelPCs BY <1>1, PendingTypes, LoopFacts, Zenon
<1>3. dmsg.chan \in Clients /\ dmsg.id \in Ids /\ dmsg.res \in -1 .. 2 BY <1>1, MsgTypes, Zenon
<1> QED BY <1>1, <1>2, <1>3, RespondBase, Zenon

(* The driver takes a request out of its queue, or it is too late. *)
LEMMA HandleCancelBase ==
  ASSUME Library, BaseInv, handleCancel
  PROVE  BaseInv'
<1>1. /\ dpc = "handle" /\ dpc' = "reply"
      /\ UNCHANGED <<nodeVars, listVars, closed, lastClient, driverFds, clientVars, sig,
                     input, feeding, waiting>>
      /\ dmsg' = [dmsg EXCEPT !.res = 0] \/ dmsg' = [dmsg EXCEPT !.res = 1]
      /\ \/ UNCHANGED pending
         \/ \E i \in 1 .. Len(pending) : pending' = RemoveAt(pending, i)
  BY HandleCancelParts, Zenon
<1>2. dmsg \in Taken /\ dmsg.chan \in Clients BY <1>1, MsgTypes, Zenon
<1>3. dmsg' \in Taken BY ONLY <1>1, <1>2 DEF Taken
<1>4. dmsg'.chan = dmsg.chan BY <1>1, <1>2, Zenon DEF Taken
<1>5. pending' \in Seq([chan : Clients, id : Ids])
  <2> DEFINE Q == [chan : Clients, id : Ids]
  <2>1. pending \in Seq(Q) BY PendingTypes, Zenon
  <2> HIDE DEF Q
  <2>2. pending' \in Seq(Q) BY <1>1, <2>1, RemoveAtFacts, Zenon
  <2> QED BY <2>2, Zenon DEF Q
<1>6. dpc' \in DriverPCs /\ dpc' \notin KernelPCs BY <1>1, Zenon DEF DriverPCs, KernelPCs
<1>7. DriverTypes'
  BY <1>1, <1>3, <1>5, <1>6, Zenon DEF BaseInv, Shapes, DriverTypes, Taken
<1>8. Hands' BY <1>1, <1>2, <1>4, Names, Zenon DEF BaseInv, Hands
<1>9. ListTypes' /\ Counted' BY <1>1, ListsSame, Zenon DEF BaseInv, Shapes
<1>10. OtherTypes' /\ UNCHANGED msgCount BY <1>1, Zenon DEF BaseInv, Shapes, OtherTypes, listVars
<1> QED BY <1>1, <1>6, <1>7, <1>8, <1>9, <1>10, OutsideBase, Zenon

(* The tree when the driver drops a channel. *)
LEMMA DriverDrop ==
  ASSUME NCPU = 1, Library, BaseInv, MayRun(Driver), NEW c \in Clients, NEW remove \in BOOLEAN,
         doUnref(c, remove, Driver), DriverTypes', Hands',
         driverFds' \subseteq Clients,
         UNCHANGED <<listVars, closed, lastClient, clientVars, sig>>
  PROVE  BaseInv'
<1> DEFINE r == [by |-> Driver, chan |-> c, count |-> msgCount]
<1>1. /\ NodeTypes /\ Children /\ msgCount \in Int /\ waiting \subseteq Clients \cup {Driver}
      /\ ListTypes /\ Counted /\ lastClient \in Clients \cup {Null}
  BY Zenon DEF BaseInv, Shapes, OtherTypes, ListTypes
<1>2. ListTypes' /\ Counted' /\ msgCount' = msgCount BY <1>1, ListsSame, Zenon DEF listVars
<1>3. r.by = Driver /\ r.chan = c /\ r.count = msgCount BY Zenon
<1>4. Driver \in Clients \cup {Driver} /\ c # Null BY Names, Zenon
<1>5. NodeTypes' /\ Children' /\ waiting' \subseteq waiting /\ rmw' \in {NoRmw, r}
  BY <1>1, <1>4, UnrefFacts, Zenon
<1> HIDE DEF r
<1>6. rmw' # NoRmw => rmw'.by = Driver /\ rmw'.chan # Null /\ rmw'.count = msgCount'
  BY <1>2, <1>3, <1>4, <1>5, Zenon
<1>7. waiting' \subseteq Clients \cup {Driver} /\ lastClient' \in Clients \cup {Null}
  BY <1>1, <1>5, Zenon
<1>8. UNCHANGED <<closed, clientVars, sig>> BY Zenon
<1> QED BY <1>2, <1>5, <1>6, <1>7, <1>8, DriverBase, Zenon

(* The driver closes its file, which is the last. *)
LEMMA HandleCloseBase ==
  ASSUME NCPU = 1, Library, BaseInv, handleClose
  PROVE  BaseInv'
<1>1. /\ MayRun(Driver) /\ dpc = "handle" /\ driverFds' \subseteq driverFds /\ BackToLoop
      /\ doUnref(dmsg.chan, TRUE, Driver) \/ doUnref(dmsg.chan, FALSE, Driver)
      /\ UNCHANGED <<listVars, closed, lastClient, clientVars, sig>>
      /\ UNCHANGED <<pending, input, feeding>>
  BY Zenon DEF handleClose, destroy, unref
<1>2. DriverTypes' /\ Hands' BY <1>1, PendingTypes, LoopFacts, Zenon
<1>3. dmsg.chan \in Clients BY <1>1, MsgTypes, Zenon
<1>4. driverFds' \subseteq Clients BY <1>1, Zenon DEF BaseInv, Shapes, OtherTypes
<1>5. TRUE \in BOOLEAN /\ FALSE \in BOOLEAN BY Zenon
<1> QED BY <1>1, <1>2, <1>3, <1>4, <1>5, DriverDrop, Zenon

(* Input arrives while nobody waits for it. *)
LEMMA InputArrivesBase ==
  ASSUME BaseInv, inputArrives
  PROVE  BaseInv'
<1>1. /\ input' = TRUE /\ UNCHANGED <<sendList, rmw, dpc, dmsg, pending, feeding, waiting>>
      /\ UNCHANGED <<nodeVars, listVars, closed, lastClient, driverFds, clientVars, sig>>
  BY Zenon DEF inputArrives, listVars, nodeVars
<1>2. ListTypes' /\ Counted' /\ UNCHANGED msgCount
  BY <1>1, ListsSame, Zenon DEF BaseInv, Shapes, listVars
<1>3. DriverTypes' /\ OtherTypes' BY <1>1, Zenon DEF BaseInv, Shapes, DriverTypes, OtherTypes
<1>4. Hands' BY <1>1, Zenon DEF BaseInv, Hands
<1> QED BY <1>1, <1>2, <1>3, <1>4, OutsideBase, Zenon

(* Input arrives for the first request in the queue. *)
LEMMA AnswerPendingBase ==
  ASSUME BaseInv, answerPending
  PROVE  BaseInv'
<1> DEFINE h == Head(pending)
<1>1. PICK res \in {0, 1} : sendResponse(Input, h.chan, h.id, res)
  BY Zenon DEF answerPending
<1>2. /\ pending # <<>> /\ pending' = Tail(pending) /\ feeding' \in {h, feeding}
      /\ UNCHANGED <<dpc, dmsg, input>>
  BY Zenon DEF answerPending
<1>3. UNCHANGED <<sendList, rmw>> BY <1>1, Zenon DEF sendResponse, nodeVars
<1>4. /\ h.chan \in Clients /\ h.id \in Ids /\ h \in [chan : Clients \cup {Null}, id : Ids]
      /\ pending' \in Seq([chan : Clients, id : Ids])
  BY <1>2, PendingTypes, HeadFacts, Zenon
<1> HIDE DEF h
<1>5. res \in -1 .. 2 BY Results, Zenon
<1>6. DriverTypes' BY <1>2, <1>4, Zenon DEF BaseInv, Shapes, DriverTypes
<1>7. Hands' BY <1>2, <1>3, <1>4, Names, Zenon DEF BaseInv, Hands
<1> QED BY <1>1, <1>2, <1>4, <1>5, <1>6, <1>7, RespondBase, Zenon

(* The input thread sends the data. *)
LEMMA FeedDataBase ==
  ASSUME BaseInv, feedData
  PROVE  BaseInv'
<1>1. /\ feeding # NoFeed /\ sendResponse(Input, feeding.chan, feeding.id, 2) /\ feeding' = NoFeed
      /\ UNCHANGED <<dpc, dmsg, pending, input>>
  BY Zenon DEF feedData, mutexFree
<1>2. UNCHANGED <<sendList, rmw>> BY <1>1, Zenon DEF sendResponse, nodeVars
<1>3. feeding.chan \in Clients /\ feeding.id \in Ids
  <2>1. feeding.chan # Null BY <1>1, Zenon DEF BaseInv, Hands
  <2>2. feeding.chan \in Clients \cup {Null} /\ feeding.id \in Ids
    <3>1. feeding \in [chan : Clients \cup {Null}, id : Ids] BY PendingTypes, Zenon
    <3> QED BY ONLY <3>1
  <2> QED BY <2>1, <2>2, Zenon
<1>4. DriverTypes' BY <1>1, NoMsgFacts, Zenon DEF BaseInv, Shapes, DriverTypes
<1>5. Hands' BY <1>1, <1>2, Zenon DEF BaseInv, Hands
<1> QED BY <1>1, <1>3, <1>4, <1>5, Results, RespondBase, Zenon

-----------------------------------------------------------------------------
(* The driver dies. *)
LEMMA DyingBase ==
  ASSUME NCPU = 1, Library, BaseInv, MayRun(Driver), dpc' \in {"wakeup", "destroy", "closefds", "dead"},
         dmsg' = NoMsg, NodeTypes', Children', rmw' = NoRmw, waiting' \subseteq waiting,
         pending' \in Seq([chan : Clients, id : Ids]), input' \in BOOLEAN, feeding' \in {feeding, NoFeed},
         UNCHANGED <<listVars, closed, lastClient, driverFds, clientVars, sig>>
  PROVE  BaseInv'
<1>1. dpc' \in DriverPCs BY Zenon DEF DriverPCs
<1>2. ListTypes' /\ Counted' BY ListsSame, Zenon DEF BaseInv, Shapes
<1>3. DriverTypes' BY <1>1, NoMsgFacts, Zenon DEF BaseInv, Shapes, DriverTypes, Taken
<1>4. Hands' BY Zenon DEF BaseInv, Hands
<1>5. lastClient' \in Clients \cup {Null} /\ driverFds' \subseteq Clients
      /\ waiting' \subseteq Clients \cup {Driver}
  BY Zenon DEF BaseInv, Shapes, OtherTypes
<1> QED BY <1>2, <1>3, <1>4, <1>5, DriverBase, Zenon

(* The driver drops everything that it has in hand. *)
LEMMA DieBase ==
  ASSUME NCPU = 1, Library, BaseInv, die
  PROVE  BaseInv'
<1>1. /\ MayRun(Driver) /\ dpc' = "wakeup" /\ waiting' = waiting \ {Driver}
      /\ dmsg' = NoMsg /\ pending' = <<>> /\ input' = FALSE /\ feeding' = NoFeed
      /\ UNCHANGED <<nodeVars, listVars, closed, lastClient, driverFds, clientVars, sig>>
  BY Zenon DEF die
<1>2. NodeTypes' /\ Children' /\ rmw' = NoRmw
  <2>1. rmw = NoRmw BY <1>1, Alone, Zenon DEF BaseInv, Shapes
  <2> QED BY <1>1, <2>1, NodesSame, Zenon DEF BaseInv, Shapes, nodeVars
<1>3. pending' \in Seq([chan : Clients, id : Ids]) /\ input' \in BOOLEAN
  <2>1. \A Q : <<>> \in Seq(Q) OBVIOUS
  <2> QED BY <1>1, <2>1, Zenon
<1>4. waiting' \subseteq waiting /\ dpc' \in {"wakeup", "destroy", "closefds", "dead"}
  BY <1>1, Zenon
<1> QED BY <1>1, <1>2, <1>3, <1>4, DyingBase, Zenon

(* The dying driver wakes up all clients. *)
LEMMA WakeupClientsBase ==
  ASSUME NCPU = 1, Library, BaseInv, wakeupClients
  PROVE  BaseInv'
<1>1. /\ MayRun(Driver) /\ dpc = "wakeup" /\ dpc' = "destroy" /\ waiting' = waiting \ ToSet(children)
      /\ UNCHANGED <<nodeVars, listVars, closed, lastClient, driverFds, clientVars, sig>>
      /\ UNCHANGED <<dmsg, pending, input, feeding>>
  BY Zenon DEF wakeupClients
<1>2. NodeTypes' /\ Children' /\ rmw' = NoRmw
  <2>1. rmw = NoRmw BY <1>1, Alone, Zenon DEF BaseInv, Shapes
  <2> QED BY <1>1, <2>1, NodesSame, Zenon DEF BaseInv, Shapes, nodeVars
<1>3. /\ waiting' \subseteq waiting /\ dpc' \in {"wakeup", "destroy", "closefds", "dead"}
      /\ dmsg' = NoMsg /\ feeding' \in {feeding, NoFeed}
  BY <1>1, Zenon DEF BaseInv, Hands
<1>4. pending' \in Seq([chan : Clients, id : Ids]) /\ input' \in BOOLEAN
  BY <1>1, PendingTypes, Zenon
<1> QED BY <1>1, <1>2, <1>3, <1>4, DyingBase, Zenon

(* The device and the names of its channels are gone. *)
LEMMA DestroyDeviceBase ==
  ASSUME NCPU = 1, Library, BaseInv, destroyDevice
  PROVE  BaseInv'
<1>1. /\ MayRun(Driver) /\ dpc = "destroy"
      /\ UNCHANGED <<listVars, closed, lastClient, driverFds, clientVars, sig>>
      /\ UNCHANGED <<dmsg, pending, input, feeding>>
  BY Zenon DEF destroyDevice
<1>2. children \in Seq(Clients) /\ dmsg = NoMsg /\ UNCHANGED sendList
  BY <1>1, Zenon DEF BaseInv, Shapes, NodeTypes, Hands, listVars
<1>3. CASE children # <<>> /\ doUnref(Head(children), TRUE, Driver) /\ UNCHANGED dpc
  <2>1. Head(children) \in Clients BY <1>2, <1>3
  <2>2. DriverTypes' BY <1>1, <1>3, Zenon DEF BaseInv, Shapes, DriverTypes
  <2>3. Hands' BY <1>1, <1>2, <1>3, Zenon DEF BaseInv, Hands
  <2>4. driverFds' \subseteq Clients BY <1>1, Zenon DEF BaseInv, Shapes, OtherTypes
  <2>5. TRUE \in BOOLEAN BY Zenon
  <2> QED BY <1>1, <1>3, <2>1, <2>2, <2>3, <2>4, <2>5, DriverDrop, Zenon
<1>4. CASE /\ children = <<>> /\ treeUnlocked /\ devAlive' = FALSE /\ dpc' = "closefds"
           /\ UNCHANGED <<node, refs, children, rmw, waiting>>
  <2>1. NodeTypes' /\ Children' /\ rmw' = NoRmw
    BY <1>4, Zenon DEF BaseInv, Shapes, NodeTypes, Children, isAlive, treeUnlocked
  <2>2. waiting' \subseteq waiting /\ dpc' \in {"wakeup", "destroy", "closefds", "dead"}
        /\ dmsg' = NoMsg /\ feeding' \in {feeding, NoFeed}
    BY <1>1, <1>2, <1>4, Zenon
  <2>3. pending' \in Seq([chan : Clients, id : Ids]) /\ input' \in BOOLEAN
    BY <1>1, PendingTypes, Zenon
  <2> QED BY <1>1, <2>1, <2>2, <2>3, DyingBase, Zenon
<1> QED BY <1>3, <1>4, Zenon DEF destroyDevice, destroy

(* The dead driver closes its files of channels. *)
LEMMA CloseFilesBase ==
  ASSUME NCPU = 1, Library, BaseInv, closeFiles
  PROVE  BaseInv'
<1>1. /\ MayRun(Driver) /\ dpc = "closefds"
      /\ UNCHANGED <<listVars, closed, lastClient, clientVars, sig>>
      /\ UNCHANGED <<dmsg, pending, input, feeding>>
  BY Zenon DEF closeFiles
<1>2. dmsg = NoMsg BY <1>1, Zenon DEF BaseInv, Hands
<1>3. ASSUME NEW c \in driverFds, driverFds' = driverFds \ {c}, doUnref(c, FALSE, Driver),
             UNCHANGED dpc
      PROVE  BaseInv'
  <2>1. c \in Clients /\ driverFds' \subseteq Clients
    BY <1>3, Zenon DEF BaseInv, Shapes, OtherTypes
  <2>2. DriverTypes' BY <1>1, <1>3, Zenon DEF BaseInv, Shapes, DriverTypes
  <2>3. Hands' BY <1>1, <1>2, <1>3, Zenon DEF BaseInv, Hands
  <2>4. FALSE \in BOOLEAN BY Zenon
  <2> QED BY <1>1, <1>3, <2>1, <2>2, <2>3, <2>4, DriverDrop, Zenon
<1>4. CASE dpc' = "dead" /\ UNCHANGED <<nodeVars, driverFds, waiting>>
  <2>1. NodeTypes' /\ Children' /\ rmw' = NoRmw
    <3>1. rmw = NoRmw BY <1>1, Alone, Zenon DEF BaseInv, Shapes
    <3> QED BY <1>4, <3>1, NodesSame, Zenon DEF BaseInv, Shapes, nodeVars
  <2>2. /\ waiting' \subseteq waiting /\ dpc' \in {"wakeup", "destroy", "closefds", "dead"}
        /\ dmsg' = NoMsg /\ feeding' \in {feeding, NoFeed}
    BY <1>1, <1>2, <1>4, Zenon
  <2>3. pending' \in Seq([chan : Clients, id : Ids]) /\ input' \in BOOLEAN
    BY <1>1, PendingTypes, Zenon
  <2> QED BY <1>1, <1>4, <2>1, <2>2, <2>3, DyingBase, Zenon
<1> QED BY <1>3, <1>4, Zenon DEF closeFiles, unref

(* The messages of a freed channel are thrown away. *)
LEMMA InvalidateBase ==
  ASSUME Library, BaseInv, invalidate
  PROVE  BaseInv'
<1> DEFINE c == rmw.chan
<1>1. /\ rmw # NoRmw /\ c \in Clients /\ rmw' = NoRmw
      /\ sendList' = [sendList EXCEPT ![c] = <<>>] /\ recvList' = [recvList EXCEPT ![c] = <<>>]
      /\ children' = RemoveFirst(children, c) /\ node' = [node EXCEPT ![c] = "none"]
      /\ closed' = [closed EXCEPT ![c] = FALSE] /\ lastClient' \in Clients \cup {Null}
      /\ msgCount' = msgCount - Len(sendList[c])
      /\ UNCHANGED <<refs, devAlive, driverFds, sig, cpc, cur, cancelId>>
      /\ UNCHANGED <<dpc, dmsg, pending, input, feeding, waiting>>
  BY InvalidateParts, Zenon DEF clientVars, driverVars
<1> HIDE DEF c
<1>2. NodeTypes' /\ Children'
  <2>1. NoRmw \in [by : Clients \cup {Driver, Null}, chan : Clients \cup {Null}, count : Int]
    BY DEF NoRmw
  <2> QED BY <1>1, <2>1, UnlinkFacts, Zenon DEF BaseInv, Shapes, NodeTypes
<1>3. <<>> \in Seq(Requests) /\ <<>> \in Seq(Responses) /\ Len(<<>>) = 0 OBVIOUS
<1>4. /\ IsFiniteSet(Unreceived')
      /\ Cardinality(Unreceived') = Cardinality(Unreceived) - Len(sendList[c]) + Len(<<>>)
  BY <1>1, <1>3, CountChange, Zenon DEF BaseInv, Shapes, Counted
<1>5. msgCount' = Cardinality(Unreceived') /\ msgCount' \in Int
  <2>1. msgCount = Cardinality(Unreceived) /\ msgCount \in Int /\ sendList[c] \in Seq(Requests)
    BY <1>1, Zenon DEF BaseInv, Shapes, ListTypes, Counted
  <2>2. Len(sendList[c]) \in Nat BY ONLY <2>1
  <2> QED BY ONLY <1>1, <1>3, <1>4, <2>1, <2>2
<1>6. ListTypes' /\ Counted'
  BY <1>1, <1>3, <1>4, <1>5, Zenon DEF BaseInv, Shapes, ListTypes, Counted
<1>7. ClientTypes' /\ DriverTypes' /\ OtherTypes'
  BY <1>1, Zenon DEF BaseInv, Shapes, ClientTypes, DriverTypes, OtherTypes
<1>8. Hands' BY <1>1, Zenon DEF BaseInv, Hands
<1>9. Shapes' BY <1>2, <1>6, <1>7, Zenon DEF Shapes
<1> QED BY <1>1, <1>2, <1>6, <1>8, <1>9, LeavingStep, Zenon

-----------------------------------------------------------------------------
(* The first part of the invariant holds at the beginning. *)
LEMMA BaseInit ==
  ASSUME Library, Init
  PROVE  BaseInv
<1>1. /\ node = [c \in Clients |-> "none"] /\ refs = [c \in Clients |-> 0] /\ devAlive = TRUE
      /\ children = <<>> /\ rmw = NoRmw
      /\ sendList = [c \in Clients |-> <<>>] /\ recvList = [c \in Clients |-> <<>>]
      /\ msgCount = 0
  BY Zenon DEF Init
<1>2. /\ closed = [c \in Clients |-> FALSE] /\ lastClient = Null /\ driverFds = {}
      /\ cpc = [c \in Clients |-> "out"] /\ cur = [c \in Clients |-> NoReq]
      /\ cancelId = [c \in Clients |-> 0] /\ sig = {}
      /\ dpc = "loop" /\ dmsg = NoMsg /\ pending = <<>> /\ input = FALSE /\ feeding = NoFeed
      /\ waiting = {}
  BY Zenon DEF Init
<1>3. NodeTypes
  <2>1. NoRmw \in [by : Clients \cup {Driver, Null}, chan : Clients \cup {Null}, count : Int]
    BY DEF NoRmw
  <2>2. 0 \in 0 .. 2^16 - 1 BY Power
  <2>3. children \in Seq(Clients) BY ONLY <1>1
  <2> QED BY <1>1, <2>1, <2>2, <2>3, Zenon DEF NodeTypes
<1>4. ListTypes
  <2>1. <<>> \in Seq(Requests) /\ <<>> \in Seq(Responses) /\ 0 \in Int OBVIOUS
  <2> QED BY <1>1, <2>1, Zenon DEF ListTypes
<1>5. ClientTypes
  <2>1. NoReq \in Calls BY IdFacts, Zenon DEF NoReq
  <2> QED BY <1>2, <2>1, IdFacts, Zenon DEF ClientTypes, ClientPCs
<1>6. DriverTypes
  <2>1. \A Q : <<>> \in Seq(Q) OBVIOUS
  <2> QED BY <1>2, <2>1, NoMsgFacts, Zenon DEF DriverTypes, DriverPCs, Taken
<1>7. OtherTypes BY <1>2, Zenon DEF OtherTypes
<1>8. Kernel BY <1>1, <1>2, Nothings, Zenon DEF Kernel, InKernel
<1>9. Hands BY <1>2, Zenon DEF Hands
<1>10. Counted
  <2>1. \A c \in Clients : DOMAIN sendList[c] = {} BY ONLY <1>1
  <2>2. Unreceived = {} BY <2>1, Zenon DEF Unreceived
  <2> QED BY <1>1, <2>2, Zenon DEF Counted, Library, Counts, Sizes
<1>11. Children
  <2>1. 1 .. Len(children) = {} BY ONLY <1>1
  <2> QED BY <1>1, <2>1, Zenon DEF Children, Once, Contains, isAlive
<1> QED BY <1>3, <1>4, <1>5, <1>6, <1>7, <1>8, <1>9, <1>10, <1>11, Zenon DEF BaseInv, Shapes

(* A step that changes nothing keeps the first part. *)
LEMMA BaseStutter ==
  ASSUME BaseInv, UNCHANGED vars
  PROVE  BaseInv'
<1>1. /\ UNCHANGED <<node, refs, devAlive, children, rmw>>
      /\ UNCHANGED <<sendList, recvList, msgCount, closed, lastClient, driverFds>>
      /\ UNCHANGED <<cpc, cur, cancelId, sig, dpc, dmsg, pending, input, feeding, waiting>>
  BY Zenon DEF vars, nodeVars, listVars, clientVars, driverVars
<1>2. Shapes' BY <1>1, Zenon
      DEF BaseInv, Shapes, NodeTypes, ListTypes, ClientTypes, DriverTypes, OtherTypes
<1>3. Hands' BY <1>1, Zenon DEF BaseInv, Hands
<1>4. Children' BY <1>1, Zenon DEF BaseInv, Children, isAlive
<1>5. Counted' BY <1>1, CountSame, Zenon DEF BaseInv
<1> QED BY <1>1, <1>2, <1>3, <1>4, <1>5, LeavingStep, Zenon

(* Every step keeps the first part of the invariant. *)
LEMMA BaseStep ==
  ASSUME NCPU = 1, Library, BaseInv, [Next]_vars
  PROVE  BaseInv'
<1>1. ASSUME NEW c \in Clients, ClientStep(c) PROVE BaseInv'
  <2>1. ASSUME NEW op \in ClientOps, send(c, op) PROVE BaseInv' BY <2>1, SendBase, Zenon
  <2> QED BY <1>1, <2>1, ReceiveBase, CloseForDriverBase, ReleaseBase, SetClosedBase, Zenon
      DEF ClientStep
<1>2. ASSUME NEW c \in Clients, ClientCall(c) PROVE BaseInv'
  <2>1. "READ" \in ClientOps /\ "WRITE" \in ClientOps BY Zenon DEF ClientOps
  <2> QED BY <1>2, <2>1, OpenBase, RequestBase, CloseBase, Zenon DEF ClientCall
<1>3. CASE DriverStep
  BY <1>3, GetworkBase, DrvReceiveBase, HandleOpenBase, HandleReadBase, SendDataBase,
     HandleWriteBase, HandleCancelBase, ReplyBase, HandleCloseBase, WakeupClientsBase,
     DestroyDeviceBase, CloseFilesBase, Zenon DEF DriverStep
<1>4. CASE UNCHANGED vars BY <1>4, BaseStutter, Zenon
<1> QED BY <1>1, <1>2, <1>3, <1>4, ResumeBase, AddSignalForBase, DieBase, InputArrivesBase,
           AnswerPendingBase, FeedDataBase, InvalidateBase, Zenon DEF Next

-----------------------------------------------------------------------------
(* On one CPU, the state of the nodes, the channels, the clients and the   *)
(* driver is well-typed, and VFSDevice::remMsgs never takes more messages  *)
(* than the device has.                                                    *)
THEOREM ChannelTypeOK ==
  ASSUME NCPU = 1
  PROVE  Spec => []TypeOK
<1>1. Init => BaseInv BY LibraryFacts, BaseInit, Zenon
<1>2. BaseInv /\ [Next]_vars => BaseInv' BY LibraryFacts, BaseStep, Zenon
<1>3. BaseInv => TypeOK
  <2> SUFFICES ASSUME BaseInv PROVE TypeOK OBVIOUS
  <2>1. msgCount \in Nat BY FS_CardinalityType, Zenon DEF BaseInv, Counted
  <2> QED BY <2>1, Zenon DEF TypeOK, BaseInv, Shapes, NodeTypes, ListTypes, ClientTypes,
             DriverTypes, OtherTypes, Calls
<1> QED BY <1>1, <1>2, <1>3, PTL DEF Spec

(* On one CPU, VFSDevice::msgCount is the number of messages in the send   *)
(* lists of all channels, however messages are sent, received and thrown   *)
(* away with their channel.                                                *)
THEOREM MessagesCounted ==
  ASSUME NCPU = 1
  PROVE  Spec => []MsgCountExact
<1>1. Init => BaseInv BY LibraryFacts, BaseInit, Zenon
<1>2. BaseInv /\ [Next]_vars => BaseInv' BY LibraryFacts, BaseStep, Zenon
<1>3. BaseInv => MsgCountExact BY Zenon DEF BaseInv, Counted, MsgCountExact
<1> QED BY <1>1, <1>2, <1>3, PTL DEF Spec

(* The inductive invariant. *)
ChannelInv == BaseInv /\ TalkInv

(* It holds on one CPU if the device supports cancel or nobody has opened  *)
(* it with O_NOBLOCK.                                                      *)
THEOREM ChannelInvariant ==
  ASSUME NCPU = 1, Cancellable
  PROVE  Spec => []ChannelInv
<1>1. Init => ChannelInv BY LibraryFacts, BaseInit, TalkInit, Zenon DEF ChannelInv
<1>2. ChannelInv /\ [Next]_vars => ChannelInv'
  BY LibraryFacts, BaseStep, TalkStep, Zenon DEF ChannelInv
<1> QED BY <1>1, <1>2, PTL DEF Spec

(* Nobody sleeps for nothing: the driver waits in getwork() only if no     *)
(* channel has a message for it, and a client in VFSChannel::receive only  *)
(* for a response that is not there yet and that the driver can still      *)
(* send, or the driver dies and is about to wake it up.  No order of the   *)
(* requests, signals, cancels and closes loses a wakeup.                   *)
THEOREM ChannelNoLostWakeup ==
  ASSUME NCPU = 1, Cancellable
  PROVE  Spec => []NoLostWakeup
<1>1. Spec => []ChannelInv BY ChannelInvariant, Zenon
<1>2. ChannelInv => NoLostWakeup BY LibraryFacts, WakeupInv, Zenon DEF ChannelInv
<1> QED BY <1>1, <1>2, PTL

(* When a call of a client is over, whether it was answered, interrupted   *)
(* by a signal and cancelled, or would have blocked, nothing of it is left *)
(* in its channel or in the driver: the next call cannot get a response of *)
(* an earlier one.                                                         *)
THEOREM ChannelIsConsistent ==
  ASSUME NCPU = 1, Cancellable
  PROVE  Spec => []ChannelConsistent
<1>1. Spec => []ChannelInv BY ChannelInvariant, Zenon
<1>2. ChannelInv => ChannelConsistent BY ConsistentInv, Zenon DEF ChannelInv
<1> QED BY <1>1, <1>2, PTL
=============================================================================
