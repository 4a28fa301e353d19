------------------------------ MODULE Channel ------------------------------
(***************************************************************************)
(* IPC between clients and a driver: a device (src/vfs/device.cc), one     *)
(* channel per client (src/vfs/channel.cc), the life of their nodes        *)
(* (src/vfs/node.cc) and a driver that is built on the device classes of   *)
(* libesc and queues reads until it has input, like SerialTermDevice       *)
(* (include/esc/ipc).                                                      *)
(*                                                                         *)
(* A client opens the device, reads and writes, is interrupted by signals  *)
(* (which cancels the request) and closes its file.  The driver waits for  *)
(* work, answers, and may die at any time.                                 *)
(*                                                                         *)
(* What is done under waitLock or under treeLock is one action, with one   *)
(* exception: invalidate(), which changes msgCount under treeLock while    *)
(* the others change it under waitLock.  The kernel is not preempted, so   *)
(* at most NCPU threads are inside of it and not asleep.                   *)
(*                                                                         *)
(* Sched::wait and Sched::wakeup are a set of waiting threads: module      *)
(* Sched shows that no wakeup between wait() and the switch is lost.       *)
(***************************************************************************)
EXTENDS Integers, Sequences, FiniteSets, SeqOps, Functions

CONSTANTS
  Clients,      \* a client thread; also its channel
  Driver,       \* the driver thread that calls getwork()
  Input,        \* the driver thread that gets the input
  Null,
  NCPU,         \* the number of CPUs
  Noblock,      \* the clients that open the device with O_NOBLOCK
  DevOps,       \* the operations the device supports
  DriverDies,   \* the driver may die
  RidCount      \* the number of request-ids: 0x8000 in the code

ASSUME ChannelAssumption ==
  /\ IsFiniteSet(Clients) /\ Noblock \subseteq Clients
  /\ Driver # Input /\ {Driver, Input, Null} \cap Clients = {} /\ Null \notin {Driver, Input}
  /\ NCPU \in Nat \ {0}
  /\ DevOps \subseteq {"OPEN", "READ", "WRITE", "CANCEL"}
  /\ DriverDies \in BOOLEAN /\ (DriverDies => NCPU = 1)
  /\ RidCount \in Nat \ {0, 1}

VARIABLES
  (* the nodes *)
  node,        \* VFSNode: "none" (free), "alive" (has a name), "dead" (detached)
  refs,        \* VFSNode::refCount of a channel
  devAlive,    \* the device has a name
  children,    \* the channels of the device, the newest first
  rmw,         \* the invalidate() that is in progress, with the msgCount it has read
  (* the channels and the device *)
  sendList, recvList, closed, msgCount, lastClient,
  driverFds,   \* the channels the driver has a file for
  (* the clients *)
  cpc,         \* where the client is
  cur,         \* its request: operation, request-id, receive flags, which response it expects
  cancelId,    \* the request-id of its cancel message, 0 if there is none
  sig,         \* the clients with a pending signal
  (* the driver *)
  dpc,         \* where the driver is
  dmsg,        \* the message it handles and the channel
  pending,     \* RequestQueue::_requests
  input,       \* there is input nobody has read
  feeding,     \* the queued request that is being answered
  waiting      \* the threads that wait for an event

nodeVars == <<node, refs, devAlive, children, rmw>>
listVars == <<sendList, recvList, msgCount>>
clientVars == <<cpc, cur, cancelId>>
driverVars == <<dpc, dmsg, pending, input, feeding>>
vars == <<nodeVars, listVars, closed, lastClient, driverFds, clientVars, sig, driverVars, waiting>>

ClientOps == {"OPEN", "READ", "WRITE", "CANCEL", "CLOSE"}
Rids == 0 .. RidCount - 1
Ids == [op : ClientOps, rid : Rids]
NoId == [op |-> "CLOSE", rid |-> 0]

(* A request; a cancel names the id it is about.  A write has a second     *)
(* message with the data.  A response has a result: an error (-1), 0, 1 or *)
(* the data of a read (2).                                                 *)
Requests == [id : Ids, of : Ids]
Responses == [id : Ids, res : -1 .. 2]

(* Positions of a client: out (no file), idle (in user mode, has a file),  *)
(* and in the kernel send, cancel (about to send a cancel message), recv,  *)
(* sleep, fail (open failed), release (about to drop the node), closed     *)
(* (about to set VFSChannel::closed).                                      *)
ClientPCs == {"out", "idle", "send", "cancel", "recv", "sleep", "fail", "release", "closed"}

(* Positions of the driver: loop (calls getwork), sleep, recv (has chosen  *)
(* a channel), handle (has a message), data (about to send the data of a   *)
(* read), reply (about to answer), and when it dies wakeup, destroy,       *)
(* closefds and dead.                                                      *)
DriverPCs == {"loop", "sleep", "recv", "handle", "data", "reply",
              "wakeup", "destroy", "closefds", "dead"}

(* The types: VFSDevice::msgCount never gets below 0 (which remMsgs        *)
(* asserts), however messages are sent, received and thrown away.          *)
TypeOK ==
  /\ node \in [Clients -> {"none", "alive", "dead"}]
  /\ refs \in [Clients -> 0 .. 2^16 - 1]
  /\ devAlive \in BOOLEAN
  /\ children \in Seq(Clients)
  /\ rmw \in [by : Clients \cup {Driver, Null}, chan : Clients \cup {Null}, count : Int]
  /\ sendList \in [Clients -> Seq(Requests)]
  /\ recvList \in [Clients -> Seq(Responses)]
  /\ closed \in [Clients -> BOOLEAN]
  /\ msgCount \in Nat
  /\ lastClient \in Clients \cup {Null}
  /\ driverFds \subseteq Clients
  /\ cpc \in [Clients -> ClientPCs]
  /\ cur \in [Clients -> [id : Ids, sigs : BOOLEAN, block : BOOLEAN, part : 1 .. 2]]
  /\ cancelId \in [Clients -> Rids]
  /\ sig \subseteq Clients
  /\ dpc \in DriverPCs
  /\ dmsg \in [chan : Clients \cup {Null}, id : Ids, of : Ids, res : -1 .. 2]
  /\ pending \in Seq([chan : Clients, id : Ids])
  /\ input \in BOOLEAN
  /\ feeding \in [chan : Clients \cup {Null}, id : Ids]
  /\ waiting \subseteq Clients \cup {Driver}

-----------------------------------------------------------------------------
NoRmw == [by |-> Null, chan |-> Null, count |-> 0]
NoReq == [id |-> NoId, sigs |-> FALSE, block |-> FALSE, part |-> 1]
NoFeed == [chan |-> Null, id |-> NoId]
NoMsg == [chan |-> Null, id |-> NoId, of |-> NoId, res |-> 0]

(* The threads that are in the kernel and not asleep.                      *)
InKernel == {c \in Clients : cpc[c] \notin {"out", "idle", "sleep"}}
            \cup {d \in {Driver} : dpc \in {"recv", "wakeup", "destroy", "closefds"}}
            \cup ({rmw.by} \ {Null})

(* The thread a is or may get into the kernel; it has to finish its        *)
(* invalidate() first.                                                     *)
MayRun(a) == rmw.by # a /\ (a \in InKernel \/ Cardinality(InKernel) < NCPU)

treeUnlocked == rmw = NoRmw

isAlive(c) == node[c] = "alive"

isSupported(c, op) == isAlive(c) /\ op \in DevOps

Goto(c, p) == cpc' = [cpc EXCEPT ![c] = p]

(* The client goes on at p; signals are handled when it leaves the kernel. *)
Leave(c, p) ==
  /\ Goto(c, p)
  /\ sig' = IF p \in {"out", "idle"} THEN sig \ {c} ELSE sig

(***************************************************************************)
(* VFSNode::doUnref of a channel.  The last reference invalidates and      *)
(* frees it; invalidate() wakes up the clients first.                      *)
(***************************************************************************)
unlink(c) ==
  /\ node' = [node EXCEPT ![c] = "dead"]
  /\ children' = RemoveFirst(children, c)

doUnref(c, remove, by) ==
  LET drop == ~remove \/ isAlive(c)
      n == IF drop THEN (refs[c] - 1) % 2^16 ELSE refs[c]
      norefs == IF drop THEN n = 0 ELSE refs[c] = 1
  IN  /\ treeUnlocked
      /\ refs' = [refs EXCEPT ![c] = n]
      /\ \/ /\ norefs
            /\ rmw' = [by |-> by, chan |-> c, count |-> msgCount]
            /\ waiting' = waiting \ {c}
            /\ UNCHANGED <<node, children>>
         \/ /\ ~norefs
            /\ IF remove THEN unlink(c) ELSE UNCHANGED <<node, children>>
            /\ UNCHANGED <<rmw, waiting>>
      /\ UNCHANGED devAlive

unref(c, by) == doUnref(c, FALSE, by)

destroy(c, by) == doUnref(c, TRUE, by)

(* VFSDevice::clientRemoved, before the channel is unlinked.               *)
clientRemoved(c) ==
  lastClient' =
    IF lastClient # c THEN lastClient
    ELSE LET i == SelectInSeq(children, LAMBDA d : d = c)
         IN  IF i \in 1 .. Len(children) - 1 THEN children[i + 1] ELSE Null

(* Mutant: the messages are thrown away but still counted.                 *)
invalidate_counted ==
  LET c == rmw.chan
  IN  /\ rmw # NoRmw
      /\ clientRemoved(c)
      /\ sendList' = [sendList EXCEPT ![c] = <<>>]
      /\ recvList' = [recvList EXCEPT ![c] = <<>>]
      /\ children' = RemoveFirst(children, c)
      /\ node' = [node EXCEPT ![c] = "none"]
      /\ closed' = [closed EXCEPT ![c] = FALSE]
      /\ rmw' = NoRmw
      /\ UNCHANGED <<refs, devAlive, msgCount, driverFds, clientVars, sig, driverVars, waiting>>

(* The rest of VFSChannel::invalidate and of doUnref.  msgCount -= n is    *)
(* not atomic: a change since it was read, or the subtraction, may be lost.*)
invalidate ==
  LET c == rmw.chan
      n == Len(sendList[c])
  IN  /\ rmw # NoRmw
      /\ msgCount' \in {rmw.count - n, msgCount - n} \cup ({msgCount} \ {rmw.count})
      /\ clientRemoved(c)
      /\ sendList' = [sendList EXCEPT ![c] = <<>>]
      /\ recvList' = [recvList EXCEPT ![c] = <<>>]
      /\ children' = RemoveFirst(children, c)
      /\ node' = [node EXCEPT ![c] = "none"]
      /\ closed' = [closed EXCEPT ![c] = FALSE]     \* does not matter anymore
      /\ rmw' = NoRmw
      /\ UNCHANGED <<refs, devAlive, driverFds, clientVars, sig, driverVars, waiting>>

-----------------------------------------------------------------------------
(* VFS::openPath: a new channel, which is the first child of the device.   *)
(* It has a reference of openPath and one of the driver's file.            *)
open(c) ==
  /\ MayRun(c) /\ cpc[c] = "out" /\ treeUnlocked /\ devAlive
  /\ node[c] = "none" /\ refs[c] = 0      \* bound: one channel for each client
  /\ node' = [node EXCEPT ![c] = "alive"]
  /\ refs' = [refs EXCEPT ![c] = 2]
  /\ children' = <<c>> \o children
  /\ driverFds' = driverFds \cup {c}
  /\ closed' = [closed EXCEPT ![c] = FALSE]
  /\ cur' = [cur EXCEPT ![c] = [id |-> [op |-> "OPEN", rid |-> 0], sigs |-> FALSE,
                                block |-> TRUE, part |-> 1]]
  /\ Leave(c, IF "OPEN" \in DevOps THEN "send" ELSE "idle")
  /\ UNCHANGED <<devAlive, rmw, listVars, lastClient, cancelId, driverVars, waiting>>

(* VFSChannel::read and write, up to send().                               *)
request(c, op) ==
  /\ MayRun(c) /\ cpc[c] = "idle" /\ isSupported(c, op)
  /\ cur' = [cur EXCEPT ![c] = [id |-> [op |-> op, rid |-> 0], part |-> 1,
                                sigs |-> "CANCEL" \in DevOps, block |-> "CANCEL" \notin DevOps]]
  /\ Goto(c, "send")
  /\ UNCHANGED <<nodeVars, listVars, closed, lastClient, driverFds, cancelId, sig, driverVars, waiting>>

(* The id a client is about to send or waits for.                          *)
Expected(c) == IF cancelId[c] # 0 THEN [op |-> "CANCEL", rid |-> cancelId[c]] ELSE cur[c].id

(* All ids that somebody still refers to.                                  *)
IdsInUse ==
  UNION {{m.id : m \in ToSet(sendList[c]) \cup ToSet(recvList[c])} \cup {Expected(c), cur[c].id} : c \in Clients}
  \cup {r.id : r \in ToSet(pending)} \cup {dmsg.id, dmsg.of, feeding.id}

(* The request-id of a new message.  The counter nextRid is shared by all  *)
(* devices, so it has any value here, and ids are only compared: which of  *)
(* the ids that are not in use it is does not matter, so each client takes *)
(* one of its own.                                                         *)
Rank == CHOOSE f \in Bijection(Clients, 1 .. Cardinality(Clients)) : TRUE

(* Bound: less than RidCount requests are sent to all devices while one is *)
(* in use.                                                                 *)
FreeRids(c, op) ==
  {n \in 1 .. RidCount - 1 : /\ n % Cardinality(Clients) = Rank[c] % Cardinality(Clients)
                             /\ [op |-> op, rid |-> n] \notin IdsInUse}

newRid(c, op) == CHOOSE n \in FreeRids(c, op) : TRUE

(* Mutant: the data of a write is not counted.                             *)
send_uncounted(c, op) ==
  LET id == [op |-> op, rid |-> newRid(c, op)]
      m == [id |-> id, of |-> NoId]
  IN  /\ MayRun(c)
      /\ cpc[c] = "send" /\ op = cur[c].id.op
      /\ sendList' = [sendList EXCEPT ![c] = @ \o IF op = "WRITE" THEN <<m, m>> ELSE <<m>>]
      /\ msgCount' = msgCount + 1
      /\ waiting' = waiting \ {Driver}
      /\ cur' = [cur EXCEPT ![c].id = id]
      /\ Goto(c, IF op = "CLOSE" THEN "closed" ELSE "recv")
      /\ UNCHANGED <<nodeVars, recvList, closed, lastClient, driverFds, sig, driverVars, cancelId>>

(* VFSChannel::send of a client: the message and, for a write, its data.   *)
send(c, op) ==
  LET id == [op |-> op, rid |-> newRid(c, op)]
      m == [id |-> id, of |-> IF op = "CANCEL" THEN cur[c].id ELSE NoId]
      new == IF op = "WRITE" THEN <<m, m>> ELSE <<m>>
  IN  /\ MayRun(c) /\ FreeRids(c, op) # {}
      /\ \/ cpc[c] = "send" /\ op = cur[c].id.op
         \/ cpc[c] = "cancel" /\ op = "CANCEL"
      /\ sendList' = [sendList EXCEPT ![c] = @ \o new]
      /\ msgCount' = msgCount + Len(new)
      /\ waiting' = waiting \ {Driver}
      /\ IF op = "CANCEL"
           THEN cancelId' = [cancelId EXCEPT ![c] = newRid(c, op)] /\ UNCHANGED cur
           ELSE cur' = [cur EXCEPT ![c].id = id] /\ UNCHANGED cancelId
      /\ Goto(c, IF op = "CLOSE" THEN "closed" ELSE "recv")
      /\ UNCHANGED <<nodeVars, recvList, closed, lastClient, driverFds, sig, driverVars>>

(* Its request is over.                                                    *)
Return(c, p) ==
  /\ Leave(c, p)
  /\ cur' = [cur EXCEPT ![c] = NoReq]
  /\ cancelId' = [cancelId EXCEPT ![c] = 0]

(* receive() fails, because the channel is closed or destroyed.            *)
destroyed(c) == Return(c, IF cur[c].id.op = "OPEN" THEN "fail" ELSE "idle")

(* receive() has been interrupted or would block: the first response is    *)
(* given up by a cancel message, the data of a read without.               *)
interrupted(c) ==
  IF cur[c].part = 1 /\ isSupported(c, "CANCEL")
    THEN Goto(c, "cancel") /\ UNCHANGED <<cur, cancelId, sig>>
    ELSE Return(c, "idle")

(* receive() has got the response m: the rest of open, read, write and     *)
(* cancel, up to the next receive() or the end of the call.                *)
handleResponse(c, m) ==
  IF cancelId[c] # 0 /\ m.res = 1
    THEN (* the response is already there: get it *)
         /\ cancelId' = [cancelId EXCEPT ![c] = 0]
         /\ cur' = [cur EXCEPT ![c].sigs = FALSE, ![c].block = TRUE]
         /\ Goto(c, "recv") /\ UNCHANGED sig
  ELSE IF cancelId[c] = 0 /\ cur[c].id.op = "READ" /\ cur[c].part = 1 /\ m.res > 0
    THEN /\ cur' = [cur EXCEPT ![c].sigs = FALSE, ![c].block = FALSE, ![c].part = 2]
         /\ Goto(c, "recv") /\ UNCHANGED <<cancelId, sig>>
    ELSE Return(c, IF cur[c].id.op = "OPEN" /\ m.res < 0 THEN "fail" ELSE "idle")

(* VFSChannel::getMsg of a client: the index of its message, or 0.         *)
getMsg(c) == SelectInSeq(recvList[c], LAMBDA m : m.id = Expected(c) \/ m.id.rid = 0)

(* VFSChannel::receive of a client.                                        *)
receive(c) ==
  LET i == getMsg(c)
      mayBlock == c \notin Noblock \/ cur[c].block \/ cancelId[c] # 0
  IN  /\ MayRun(c) /\ cpc[c] = "recv"
      /\ \/ /\ i # 0
            /\ recvList' = [recvList EXCEPT ![c] = RemoveAt(@, i)]
            /\ handleResponse(c, recvList[c][i])
            /\ UNCHANGED waiting
         \/ /\ i = 0 /\ ~mayBlock
            /\ interrupted(c)
            /\ UNCHANGED <<recvList, waiting>>
         \/ /\ i = 0 /\ mayBlock /\ (closed[c] \/ ~isAlive(c))
            /\ destroyed(c)
            /\ UNCHANGED <<recvList, waiting>>
         \/ /\ i = 0 /\ mayBlock /\ ~closed[c] /\ isAlive(c)
            /\ waiting' = waiting \cup {c}
            /\ Goto(c, "sleep")
            /\ UNCHANGED <<recvList, cur, cancelId, sig>>
      /\ UNCHANGED <<nodeVars, sendList, msgCount, closed, lastClient, driverFds, driverVars>>

(* The client is back from the switch in receive().  A signal ends the     *)
(* wait in any case, as the sender may have looked at T_IGNSIGS too early; *)
(* it ends the call only if it is allowed to.                              *)
resume(c) ==
  /\ MayRun(c) /\ cpc[c] = "sleep" /\ (c \notin waiting \/ c \in sig)
  /\ waiting' = waiting \ {c}
  /\ \/ /\ cur[c].sigs /\ cancelId[c] = 0 /\ c \in sig
        /\ interrupted(c)
     \/ /\ ~(cur[c].sigs /\ cancelId[c] = 0 /\ c \in sig) /\ ~isAlive(c)
        /\ destroyed(c)
     \/ /\ ~(cur[c].sigs /\ cancelId[c] = 0 /\ c \in sig) /\ isAlive(c)
        /\ Goto(c, "recv") /\ UNCHANGED <<cur, cancelId, sig>>
  /\ UNCHANGED <<nodeVars, listVars, closed, lastClient, driverFds, driverVars>>

(* open() has failed: closeForDriver() closes the file of the driver if    *)
(* the driver still has it, then openPath() drops the node.                *)
closeForDriver(c) ==
  /\ MayRun(c) /\ cpc[c] = "fail"
  /\ \/ /\ dpc # "dead" /\ c \in driverFds
        /\ driverFds' = driverFds \ {c}
        /\ IF isAlive(c) THEN destroy(c, c) ELSE unref(c, c)
     \/ /\ dpc = "dead" \/ c \notin driverFds
        /\ UNCHANGED <<nodeVars, waiting, driverFds>>
  /\ Goto(c, "release")
  /\ UNCHANGED <<listVars, closed, lastClient, cur, cancelId, sig, driverVars>>

release(c) ==
  /\ MayRun(c) /\ cpc[c] = "release"
  /\ unref(c, c)
  /\ Leave(c, "out")
  /\ UNCHANGED <<listVars, closed, lastClient, driverFds, cur, cancelId, driverVars>>

(* VFSChannel::close by the client: if only the driver is left, it gets a  *)
(* close message.                                                          *)
close(c) ==
  /\ MayRun(c) /\ cpc[c] = "idle"
  /\ unref(c, c)
  /\ IF isAlive(c) /\ refs'[c] = 1
       THEN cur' = [cur EXCEPT ![c] = [NoReq EXCEPT !.id.op = "CLOSE"]] /\ Leave(c, "send")
       ELSE Leave(c, "out") /\ UNCHANGED cur
  /\ UNCHANGED <<listVars, closed, lastClient, driverFds, cancelId, driverVars>>

setClosed(c) ==
  /\ MayRun(c) /\ cpc[c] = "closed"
  /\ closed' = [closed EXCEPT ![c] = TRUE]
  /\ Return(c, "out")
  /\ UNCHANGED <<nodeVars, listVars, lastClient, driverFds, driverVars, waiting>>

(* A signal is sent to the client during a call.                           *)
addSignalFor(c) ==
  /\ c \notin sig /\ cpc[c] \notin {"out", "idle"}
  /\ sig' = sig \cup {c}
  /\ UNCHANGED <<nodeVars, listVars, closed, lastClient, driverFds, clientVars, driverVars, waiting>>

-----------------------------------------------------------------------------
hasWork(c) == sendList[c] # <<>>

(* Mutant: it always begins with the first client.                         *)
getWork_first ==
  LET i == SelectInSeq(children, hasWork)
  IN  IF ~devAlive \/ msgCount = 0 THEN [chan |-> Null, last |-> lastClient]
      ELSE IF i = 0 THEN [chan |-> Null, last |-> Null]
      ELSE [chan |-> children[i], last |-> children[i]]

(* VFSDevice::getWork: the channel to serve next, or Null, and the new     *)
(* lastClient.  It begins behind the last client that was served, and      *)
(* when it finds nothing there, with the first.                            *)
getWork ==
  LET first == SelectInSeq(children, LAMBDA c : c = lastClient)
      behind == SelectInSubSeq(children, first + 1, Len(children), hasWork)
      before == SelectInSubSeq(children, 1, first, hasWork)
      i == IF behind # 0 THEN behind ELSE before
  IN  IF ~devAlive \/ msgCount = 0 THEN [chan |-> Null, last |-> lastClient]
      ELSE IF i = 0 THEN [chan |-> Null, last |-> Null]
      ELSE [chan |-> children[i], last |-> children[i]]

(* OpenFile::getWork, called by the driver in its loop or after a wakeup.  *)
getwork ==
  /\ MayRun(Driver) /\ treeUnlocked
  /\ dpc = "loop" \/ (dpc = "sleep" /\ Driver \notin waiting)
  /\ lastClient' = getWork.last
  /\ IF getWork.chan # Null
       THEN /\ dpc' = "recv" /\ dmsg' = [dmsg EXCEPT !.chan = getWork.chan]
            /\ UNCHANGED waiting
       ELSE /\ dpc' = "sleep" /\ waiting' = waiting \cup {Driver}
            /\ UNCHANGED dmsg
  /\ UNCHANGED <<nodeVars, listVars, closed, driverFds, clientVars, sig, pending, input, feeding>>

(* VFSChannel::receive of the driver takes the first message.              *)
TakeFirst(c) ==
  /\ sendList[c] # <<>>
  /\ sendList' = [sendList EXCEPT ![c] = Tail(@)]
  /\ msgCount' = msgCount - 1

drvReceive ==
  LET c == dmsg.chan
  IN  /\ MayRun(Driver) /\ dpc = "recv"
      /\ TakeFirst(c)
      /\ dmsg' = [dmsg EXCEPT !.id = Head(sendList[c]).id, !.of = Head(sendList[c]).of]
      /\ dpc' = "handle"
      /\ UNCHANGED <<nodeVars, recvList, closed, lastClient, driverFds, clientVars, sig,
                     pending, input, feeding, waiting>>

(* VFSChannel::send of a response by the driver thread a.                  *)
sendResponse(a, c, id, res) ==
  /\ MayRun(a)
  /\ recvList' = [recvList EXCEPT ![c] = Append(@, [id |-> id, res |-> res])]
  /\ waiting' = waiting \ {c}
  /\ UNCHANGED <<nodeVars, sendList, msgCount, closed, lastClient, driverFds, clientVars, sig>>

BackToLoop == dpc' = "loop" /\ dmsg' = NoMsg

(* The mutex of the driver, which its input thread holds while it answers. *)
mutexFree == feeding = NoFeed

(* The handlers.  An open is granted or refused.                           *)
handleOpen ==
  /\ dpc = "handle" /\ dmsg.id.op = "OPEN"
  /\ \E res \in {-1, 0} : sendResponse(Driver, dmsg.chan, dmsg.id, res)
  /\ BackToLoop
  /\ UNCHANGED <<pending, input, feeding>>

(* A read is answered if there is input (or its end: 0) and nobody waits   *)
(* for it, and queued otherwise; the data follows in a second message.     *)
handleRead ==
  /\ dpc = "handle" /\ dmsg.id.op = "READ" /\ mutexFree
  /\ \/ /\ pending = <<>> /\ input
        /\ input' = FALSE
        /\ \/ sendResponse(Driver, dmsg.chan, dmsg.id, 1) /\ dpc' = "data" /\ UNCHANGED dmsg
           \/ sendResponse(Driver, dmsg.chan, dmsg.id, 0) /\ BackToLoop
        /\ UNCHANGED <<pending, feeding>>
     \/ /\ pending # <<>> \/ ~input
        /\ pending' = Append(pending, [chan |-> dmsg.chan, id |-> dmsg.id])
        /\ BackToLoop
        /\ UNCHANGED <<nodeVars, listVars, closed, lastClient, driverFds, clientVars, sig,
                       input, feeding, waiting>>

sendData ==
  /\ dpc = "data"
  /\ sendResponse(Driver, dmsg.chan, dmsg.id, 2)
  /\ BackToLoop
  /\ UNCHANGED <<pending, input, feeding>>

(* A write receives the data, which is the next message of the channel,    *)
(* and is answered right away.  The checkPending() at its end finds        *)
(* nothing to do, as a queued read and input never exist together.         *)
handleWrite ==
  /\ MayRun(Driver) /\ dpc = "handle" /\ dmsg.id.op = "WRITE"
  /\ TakeFirst(dmsg.chan)
  /\ dpc' = "reply" /\ dmsg' = [dmsg EXCEPT !.res = 0]
  /\ UNCHANGED <<nodeVars, recvList, closed, lastClient, driverFds, clientVars, sig,
                 pending, input, feeding, waiting>>

(* Mutant: success also if the request is not in the queue anymore.        *)
cancelRequest_always(q, id) == [res |-> 0, queue |-> SelectSeq(q, LAMBDA r : r.id # id)]

(* RequestQueue::cancel: 0 if the request was found, and 1 if its response *)
(* has been or will be sent.                                               *)
cancelRequest(q, id) ==
  LET i == SelectInSeq(q, LAMBDA r : r.id = id)
  IN  IF i = 0 THEN [res |-> 1, queue |-> q] ELSE [res |-> 0, queue |-> RemoveAt(q, i)]

handleCancel ==
  /\ dpc = "handle" /\ dmsg.id.op = "CANCEL" /\ mutexFree
  /\ IF dmsg.of.op = "WRITE" \/ input
       THEN dmsg' = [dmsg EXCEPT !.res = 1] /\ UNCHANGED pending
       ELSE LET r == cancelRequest(pending, dmsg.of)
            IN  dmsg' = [dmsg EXCEPT !.res = r.res] /\ pending' = r.queue
  /\ dpc' = "reply"
  /\ UNCHANGED <<nodeVars, listVars, closed, lastClient, driverFds, clientVars, sig,
                 input, feeding, waiting>>

reply ==
  /\ dpc = "reply" /\ (dmsg.id.op = "WRITE" => mutexFree)
  /\ sendResponse(Driver, dmsg.chan, dmsg.id, dmsg.res)
  /\ BackToLoop
  /\ UNCHANGED <<pending, input, feeding>>

(* The driver closes its file for the channel: VFSChannel::close.          *)
handleClose ==
  /\ MayRun(Driver) /\ dpc = "handle" /\ dmsg.id.op = "CLOSE"
  /\ driverFds' = driverFds \ {dmsg.chan}
  /\ IF isAlive(dmsg.chan) THEN destroy(dmsg.chan, Driver) ELSE unref(dmsg.chan, Driver)
  /\ BackToLoop
  /\ UNCHANGED <<listVars, closed, lastClient, clientVars, sig, pending, input, feeding>>

(* Input arrives, or its end: RequestQueue::handle answers the first       *)
(* queued read with the mutex held, or the input is kept.  What a read     *)
(* leaves of it counts as new input.                                       *)
inputArrives ==
  /\ dpc \in {"loop", "sleep", "recv", "handle", "reply"}
  /\ mutexFree /\ pending = <<>> /\ ~input
  /\ input' = TRUE
  /\ UNCHANGED <<nodeVars, listVars, closed, lastClient, driverFds, clientVars, sig,
                 dpc, dmsg, pending, feeding, waiting>>

answerPending ==
  /\ dpc # "data" /\ mutexFree /\ pending # <<>>
  /\ \/ sendResponse(Input, Head(pending).chan, Head(pending).id, 1) /\ feeding' = Head(pending)
     \/ sendResponse(Input, Head(pending).chan, Head(pending).id, 0) /\ UNCHANGED feeding
  /\ pending' = Tail(pending)
  /\ UNCHANGED <<dpc, dmsg, input>>

feedData ==
  /\ ~mutexFree
  /\ sendResponse(Input, feeding.chan, feeding.id, 2)
  /\ feeding' = NoFeed
  /\ UNCHANGED <<dpc, dmsg, pending, input>>

-----------------------------------------------------------------------------
(* The driver dies in user mode or while it waits for work.                *)
die ==
  /\ DriverDies /\ MayRun(Driver)
  /\ dpc \in {"loop", "sleep", "handle", "data", "reply"}
  /\ dpc' = "wakeup"
  /\ dmsg' = NoMsg /\ pending' = <<>> /\ input' = FALSE /\ feeding' = NoFeed
  /\ waiting' = waiting \ {Driver}
  /\ UNCHANGED <<nodeVars, listVars, closed, lastClient, driverFds, clientVars, sig>>

(* Mutant: the clients are not woken up.                                   *)
wakeupClients_none ==
  /\ MayRun(Driver) /\ dpc = "wakeup" /\ treeUnlocked
  /\ dpc' = "destroy"
  /\ UNCHANGED <<nodeVars, listVars, closed, lastClient, driverFds, clientVars, sig,
                 dmsg, pending, input, feeding, waiting>>

(* FileDesc::destroy closes its files, the one of the device first.        *)
(* VFSDevice::close wakes up the clients and then destroys the device,     *)
(* beginning with the channels.                                            *)
wakeupClients ==
  /\ MayRun(Driver) /\ dpc = "wakeup" /\ treeUnlocked
  /\ waiting' = waiting \ ToSet(children)
  /\ dpc' = "destroy"
  /\ UNCHANGED <<nodeVars, listVars, closed, lastClient, driverFds, clientVars, sig,
                 dmsg, pending, input, feeding>>

destroyDevice ==
  /\ MayRun(Driver) /\ dpc = "destroy"
  /\ \/ /\ children # <<>>
        /\ destroy(Head(children), Driver)
        /\ UNCHANGED dpc
     \/ /\ children = <<>> /\ treeUnlocked
        /\ devAlive' = FALSE
        /\ dpc' = "closefds"
        /\ UNCHANGED <<node, refs, children, rmw, waiting>>
  /\ UNCHANGED <<listVars, closed, lastClient, driverFds, clientVars, sig,
                 dmsg, pending, input, feeding>>

(* The files for the channels, which are not alive anymore.                *)
closeFiles ==
  /\ MayRun(Driver) /\ dpc = "closefds"
  /\ \/ \E c \in driverFds :
          /\ driverFds' = driverFds \ {c}
          /\ unref(c, Driver)
          /\ UNCHANGED dpc
     \/ /\ driverFds = {}
        /\ dpc' = "dead"
        /\ UNCHANGED <<nodeVars, driverFds, waiting>>
  /\ UNCHANGED <<listVars, closed, lastClient, clientVars, sig, dmsg, pending, input, feeding>>

-----------------------------------------------------------------------------
Init ==
  /\ node = [c \in Clients |-> "none"]
  /\ refs = [c \in Clients |-> 0]
  /\ devAlive = TRUE
  /\ children = <<>>
  /\ rmw = NoRmw
  /\ sendList = [c \in Clients |-> <<>>]
  /\ recvList = [c \in Clients |-> <<>>]
  /\ closed = [c \in Clients |-> FALSE]
  /\ msgCount = 0
  /\ lastClient = Null
  /\ driverFds = {}
  /\ cpc = [c \in Clients |-> "out"]
  /\ cur = [c \in Clients |-> NoReq]
  /\ cancelId = [c \in Clients |-> 0]
  /\ sig = {}
  /\ dpc = "loop"
  /\ dmsg = NoMsg
  /\ pending = <<>>
  /\ input = FALSE
  /\ feeding = NoFeed
  /\ waiting = {}

(* A client goes on in the kernel.                                         *)
ClientStep(c) ==
  \/ \E op \in ClientOps : send(c, op)
  \/ receive(c) \/ closeForDriver(c) \/ release(c) \/ setClosed(c)

ClientCall(c) == open(c) \/ request(c, "READ") \/ request(c, "WRITE") \/ close(c)

DriverStep ==
  \/ getwork \/ drvReceive
  \/ handleOpen \/ handleRead \/ sendData \/ handleWrite \/ handleCancel \/ reply \/ handleClose
  \/ wakeupClients \/ destroyDevice \/ closeFiles

Next ==
  \/ \E c \in Clients :
       ClientStep(c) \/ ClientCall(c) \/ resume(c) \/ addSignalFor(c)
  \/ DriverStep \/ die
  \/ inputArrives \/ answerPending \/ feedData
  \/ invalidate

Spec == Init /\ [][Next]_vars

(* The kernel is not preempted, so what is in the kernel goes on.  The     *)
(* threads of the driver get the CPU again and again (Sched!NoStarvation). *)
FairSpec ==
  /\ Spec
  /\ WF_vars(invalidate \/ \E c \in Clients : ClientStep(c))
  /\ SF_vars(DriverStep \/ feedData)

-----------------------------------------------------------------------------
(* The messages in the send lists of all channels.                         *)
Unreceived == UNION {{c} \X DOMAIN sendList[c] : c \in Clients}

(* VFSDevice::msgCount is the number of messages in the send lists of all  *)
(* channels, however they are sent, received and thrown away: getWork      *)
(* finds nothing if it is too low, and remMsgs has its assertion.          *)
MsgCountExact == msgCount = Cardinality(Unreceived)

(* The request with the given id of c has not been answered yet.           *)
OnItsWay(c, id) ==
  \/ id \in {m.id : m \in ToSet(sendList[c])}
  \/ [chan |-> c, id |-> id] \in ToSet(pending) \cup {feeding, [chan |-> dmsg.chan, id |-> dmsg.id]}

(* Nobody sleeps for nothing.  The driver only waits for work if there is  *)
(* none.  A client only waits on a channel that is alive, for a message    *)
(* that is not there yet and that the driver can still answer, or the      *)
(* driver is about to wake it up because it dies.                          *)
NoLostWakeup ==
  /\ Driver \in waiting => \A c \in ToSet(children) : sendList[c] = <<>>
  /\ \A c \in waiting \cap Clients :
       /\ getMsg(c) = 0 /\ isAlive(c)
       /\ OnItsWay(c, Expected(c)) \/ dpc = "wakeup"

(* "otherwise the channel might get in an inconsistent state": when a call *)
(* of the client is over, whether it was answered, interrupted or would    *)
(* have blocked, no response is left and none will come anymore.           *)
ChannelConsistent ==
  \A c \in Clients :
    cpc[c] = "idle" /\ isAlive(c) =>
      /\ recvList[c] = <<>> /\ sendList[c] = <<>>
      /\ c \notin {r.chan : r \in ToSet(pending)} \cup {dmsg.chan, feeding.chan}

(* "They are only destroyed and released if there are no references        *)
(* anymore": a node that is used by a file, of the client or of the        *)
(* driver, is not freed.                                                   *)
NodesOutliveFiles ==
  \A c \in Clients : cpc[c] \in {"idle", "recv", "sleep"} \/ c \in driverFds => node[c] # "none"

(* "every process that requests something should be served at some time":  *)
(* the messages of every client are received, unless the device dies, and  *)
(* then they are thrown away.                                              *)
EveryoneServed == \A c \in Clients : sendList[c] # <<>> ~> sendList[c] = <<>>

(* The same if opens are not refused again and again: getWork continues    *)
(* behind the client it has served last, also if that has been closed.     *)
Served == (\A c \in Clients : <>[](cpc[c] # "fail")) => EveryoneServed
=============================================================================
