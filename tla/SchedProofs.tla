---------------------------- MODULE SchedProofs ----------------------------
(***************************************************************************)
(* Proofs about the scheduler: the ready queues, the event lists and the   *)
(* states of the threads agree in every reachable state, for any number of *)
(* threads, CPUs, events and priorities; no wakeup is lost and no signal   *)
(* is missed; and perform switches to a thread of the highest priority.    *)
(*                                                                         *)
(* First come the lists of threads, the inductive invariant SchedInv, and  *)
(* the steps that preserve it without the ready queues: those that enter   *)
(* and leave event lists, those of a thread that leave queues and lists    *)
(* alone, the creation and the end of threads, and the switch from one     *)
(* thread to another.                                                      *)
(***************************************************************************)
EXTENDS Sched, FiniteSetTheorems, TLAPS

(***************************************************************************)
(* Lists.                                                                  *)
(***************************************************************************)
(* A list is empty iff it has no elements (DList::length() = 0).           *)
LEMMA ElemsEmpty ==
  ASSUME NEW S, NEW q \in Seq(S)
  PROVE  /\ Elems(q) \subseteq S
         /\ (q = <<>>) <=> (Elems(q) = {})
         /\ q # <<>> => Len(q) \in Nat \ {0} /\ q[1] \in Elems(q)
<1>1. Elems(q) \subseteq S
  BY DEF Elems
<1>2. q # <<>> => Len(q) \in Nat \ {0} /\ q[1] \in Elems(q)
  BY DEF Elems
<1>3. q = <<>> => Elems(q) = {}
  BY DEF Elems
<1> QED
  BY <1>1, <1>2, <1>3, Zenon

(* DList::append adds one element.                                         *)
LEMMA ElemsAppend ==
  ASSUME NEW S, NEW q \in Seq(S), NEW t \in S
  PROVE  /\ Append(q, t) \in Seq(S)
         /\ Append(q, t) # <<>>
         /\ Elems(Append(q, t)) = Elems(q) \cup {t}
         /\ Distinct(q) /\ t \notin Elems(q) => Distinct(Append(q, t))
BY DEF Elems, Distinct

(* DList::prepend adds one element.                                        *)
LEMMA ElemsPrepend ==
  ASSUME NEW S, NEW q \in Seq(S), NEW t \in S
  PROVE  /\ <<t>> \o q \in Seq(S)
         /\ <<t>> \o q # <<>>
         /\ Elems(<<t>> \o q) = Elems(q) \cup {t}
         /\ Distinct(q) /\ t \notin Elems(q) => Distinct(<<t>> \o q)
<1> DEFINE r == <<t>> \o q
<1>1. r \in Seq(S) /\ Len(r) = Len(q) + 1 /\ r[1] = t
  OBVIOUS
<1>2. \A i \in 1 .. Len(q) : r[i + 1] = q[i]
  OBVIOUS
<1>3. \A i \in 1 .. Len(r) : i = 1 \/ (i - 1 \in 1 .. Len(q) /\ r[i] = q[i - 1])
  BY <1>1, <1>2
<1> HIDE DEF r
<1>4. Elems(r) = Elems(q) \cup {t}
  <2>1. ASSUME NEW x \in Elems(r) PROVE x \in Elems(q) \cup {t}
    <3>1. PICK i \in 1 .. Len(r) : x = r[i]
      BY Zenon DEF Elems
    <3>2. i = 1 \/ (i - 1 \in 1 .. Len(q) /\ r[i] = q[i - 1])
      BY <1>3, Zenon
    <3> QED
      BY <1>1, <3>1, <3>2, Zenon DEF Elems
  <2>2. ASSUME NEW x \in Elems(q) \cup {t} PROVE x \in Elems(r)
    <3>1. CASE x = t
      BY <1>1, <3>1 DEF Elems
    <3>2. CASE x \in Elems(q)
      <4>1. PICK i \in 1 .. Len(q) : x = q[i]
        BY <3>2, Zenon DEF Elems
      <4>2. i + 1 \in 1 .. Len(r) /\ r[i + 1] = x
        BY <1>1, <1>2, <4>1
      <4> QED
        BY <4>2, Zenon DEF Elems
    <3> QED
      BY <3>1, <3>2, Zenon
  <2> QED
    BY <2>1, <2>2, Zenon
<1>5. ASSUME Distinct(q), t \notin Elems(q) PROVE Distinct(r)
  <2> SUFFICES ASSUME NEW i \in 1 .. Len(r), NEW j \in 1 .. Len(r), r[i] = r[j]
               PROVE  i = j
    BY Zenon DEF Distinct
  <2>1. \A k \in 1 .. Len(q) : q[k] # t
    BY <1>5, Zenon DEF Elems
  <2>2. /\ i = 1 \/ (i - 1 \in 1 .. Len(q) /\ r[i] = q[i - 1])
        /\ j = 1 \/ (j - 1 \in 1 .. Len(q) /\ r[j] = q[j - 1])
    BY <1>3, Zenon
  <2>3. \A k, l \in 1 .. Len(q) : q[k] = q[l] => k = l
    BY <1>5, Zenon DEF Distinct
  <2> HIDE <1>5
  <2>4. CASE i = 1
    BY <1>1, <2>1, <2>2, <2>4, Zenon
  <2>5. CASE j = 1
    BY <1>1, <2>1, <2>2, <2>5, Zenon
  <2>6. CASE i - 1 \in 1 .. Len(q) /\ r[i] = q[i - 1] /\ j - 1 \in 1 .. Len(q) /\ r[j] = q[j - 1]
    <3>1. i - 1 = j - 1
      BY <2>3, <2>6, Zenon
    <3> QED
      BY <3>1
  <2> QED
    BY <2>2, <2>4, <2>5, <2>6, Zenon
<1> QED
  BY <1>1, <1>4, <1>5 DEF r

(* DList::removeFirst removes the first element.                           *)
LEMMA ElemsTail ==
  ASSUME NEW S, NEW q \in Seq(S), q # <<>>, Distinct(q)
  PROVE  /\ Tail(q) \in Seq(S)
         /\ Elems(Tail(q)) = Elems(q) \ {q[1]}
         /\ Distinct(Tail(q))
<1>1. Tail(q) \in Seq(S) /\ Len(Tail(q)) = Len(q) - 1
  OBVIOUS
<1>2. \A i \in 1 .. Len(q) - 1 : Tail(q)[i] = q[i + 1]
  OBVIOUS
<1>3. \A i \in 1 .. Len(q) : i = 1 \/ (i - 1 \in 1 .. Len(q) - 1 /\ q[i] = Tail(q)[i - 1])
  BY <1>2
<1> QED
  BY <1>1, <1>2, <1>3 DEF Elems, Distinct

(* DList::remove removes the given element, wherever it is.                *)
LEMMA ElemsUnlink ==
  ASSUME NEW S, NEW q \in Seq(S), NEW t \in Elems(q), Distinct(q)
  PROVE  /\ Unlink(q, t) \in Seq(S)
         /\ Elems(Unlink(q, t)) = Elems(q) \ {t}
         /\ Distinct(Unlink(q, t))
<1> DEFINE k == CHOOSE i \in 1 .. Len(q) : q[i] = t
           r == Unlink(q, t)
<1>1. k \in 1 .. Len(q) /\ q[k] = t
  BY Zenon DEF Elems
<1>2. r = [i \in 1 .. Len(q) - 1 |-> IF i < k THEN q[i] ELSE q[i + 1]]
  BY Zenon DEF Unlink
<1> HIDE DEF k, r
<1>3. Len(q) - 1 \in Nat
  BY <1>1
<1>4. r \in Seq(S) /\ Len(r) = Len(q) - 1
  BY <1>1, <1>2, <1>3
<1>5. \A i \in 1 .. Len(q) - 1 : r[i] = IF i < k THEN q[i] ELSE q[i + 1]
  BY <1>2, Zenon
<1>6. \A i \in 1 .. Len(q) : \/ i = k
                             \/ i < k /\ i \in 1 .. Len(q) - 1 /\ r[i] = q[i]
                             \/ i > k /\ i - 1 \in 1 .. Len(q) - 1 /\ r[i - 1] = q[i]
  BY <1>1, <1>5
<1>7. Elems(r) = Elems(q) \ {t}
  <2>1. ASSUME NEW x \in Elems(r) PROVE x \in Elems(q) \ {t}
    BY <1>1, <1>4, <1>5 DEF Elems, Distinct
  <2>2. ASSUME NEW x \in Elems(q) \ {t} PROVE x \in Elems(r)
    BY <1>1, <1>4, <1>6, Zenon DEF Elems
  <2> QED
    BY <2>1, <2>2, Zenon
<1>8. Distinct(r)
  BY <1>1, <1>4, <1>5 DEF Distinct
<1> QED
  BY <1>4, <1>7, <1>8, Zenon DEF r

(***************************************************************************)
(* The ready queues.  StateType and QueueType are the types of the first   *)
(* and the third argument of QueuesOK.                                     *)
(***************************************************************************)
StateType == [Threads \cup CPUs -> States]

QueueType == [Prios -> Seq(Threads)]

ReadyOf(st) == {t \in Threads : st[t] = "READY"}

(* Only the ready threads and their priorities matter to the queues.       *)
LEMMA QueuesSame ==
  ASSUME NEW st, NEW st2, NEW pr, NEW pr2, NEW rq, NEW mask, NEW cnt,
         QueuesOK(st, pr, rq, mask, cnt),
         \A t \in Threads : (st[t] = "READY") <=> (st2[t] = "READY"),
         \A t \in Threads : st[t] = "READY" => pr2[t] = pr[t]
  PROVE  QueuesOK(st2, pr2, rq, mask, cnt)
<1>1. {t \in Threads : st[t] = "READY"} = {t \in Threads : st2[t] = "READY"}
  BY Zenon
<1>2. \A p \in Prios : {t \in Threads : st[t] = "READY" /\ pr[t] = p}
                      = {t \in Threads : st2[t] = "READY" /\ pr2[t] = p}
  BY Zenon
<1> QED
  BY <1>1, <1>2, Zenon DEF QueuesOK

(***************************************************************************)
(* The inductive invariant.  PendingBlock is what makes the others         *)
(* inductive: it says for which running threads a switch may block, and    *)
(* that the steps of a signal sender are not interrupted by one.           *)
(***************************************************************************)
SchedInv ==
  /\ TypeOK
  /\ ReadyQueuesConsistent
  /\ EventListsConsistent
  /\ RunningOnce
  /\ PendingBlock
  /\ NoLostWakeup
  /\ NoMissedSignal

(* The first half of EventListsConsistent.                                 *)
EvListsOK ==
  \A e \in Events :
    Distinct(evlists[e]) /\ Elems(evlists[e]) = {t \in Threads : event[t] # NoEvent /\ event[t][1] = e}

(* CPU c switches from old to t: t is ready and has the highest priority,  *)
(* or it is the idle thread; st are the states before t starts to run.     *)
Picked(c, old, st, t) ==
  /\ t \in Threads => st[t] = "READY"
  /\ t \in Threads => \A u \in Threads : st[u] = "READY" /\ u # old => priority[u] <= priority[t]
  /\ state' = [st EXCEPT ![t] = "RUNNING"]
  /\ newState' = IF t = c THEN newState ELSE [newState EXCEPT ![t] = "READY"]
  /\ running' = [running EXCEPT ![c] = t]
  /\ waitsFor' = IF t = c THEN waitsFor ELSE [waitsFor EXCEPT ![t] = NoEvent]

(* CPU c switches to t; the first half of perform has left the old thread  *)
(* in the state that newState says.                                        *)
Switched(c, st, t) ==
  /\ Picked(c, running[c], st, t)
  /\ \A u \in Threads \ {running[c]} : st[u] = state[u]
  /\ running[c] \in Threads =>
       /\ st[running[c]] = newState[running[c]]
       /\ newState[running[c]] = "BLOCKED" => ~hasSignal(running[c])
       /\ maySwitch(running[c])
       /\ pc' = [pc EXCEPT ![running[c]] = afterPC(running[c])]
  /\ running[c] \notin Threads => pc' = pc
  /\ QueuesOK(state', priority, rdyQueues', readyMask', rdyCount')
  /\ rdyQueues' \in QueueType
  /\ UNCHANGED <<event, priority, prioGoodCnt, sigmask, target, evlists, lock>>

(* The steps that leave the queues and the states of the threads alone     *)
(* keep what only depends on them.                                         *)
LEMMA QueuesUnchanged ==
  ASSUME SchedInv, UNCHANGED <<state, priority, queueVars>>
  PROVE  ReadyQueuesConsistent'
BY Zenon DEF SchedInv, ReadyQueuesConsistent, queueVars

(* A step that changes at most the lock of the scheduler preserves the     *)
(* invariant: wakeup takes and drops it.                                   *)
LEMMA LockStepInv ==
  ASSUME SchedInv, UNCHANGED <<threadVars, queueVars, evlists, running, waitsFor>>, lock' \in Locks
  PROVE  SchedInv'
<1> USE DEF threadVars
<1>1. TypeOK'
  BY Zenon DEF SchedInv, TypeOK, queueVars
<1>2. ReadyQueuesConsistent'
  BY QueuesUnchanged, Zenon
<1>3. EventListsConsistent'
  BY Zenon DEF SchedInv, EventListsConsistent
<1>4. RunningOnce'
  BY Zenon DEF SchedInv, RunningOnce
<1>5. PendingBlock' /\ NoLostWakeup'
  BY Zenon DEF SchedInv, PendingBlock, NoLostWakeup
<1>6. NoMissedSignal'
  BY Zenon DEF SchedInv, NoMissedSignal, hasSignal, isIgnoringSigs
<1> QED
  BY <1>1, <1>2, <1>3, <1>4, <1>5, <1>6, Zenon DEF SchedInv

(* A thread that executes on a CPU is running, is not about to block and   *)
(* is in no event list.                                                    *)
LEMMA ExecutesLemma ==
  ASSUME SchedInv, NEW c \in CPUs, NEW t \in Threads, Executes(c, t)
  PROVE  /\ state[t] = "RUNNING" /\ pc[t] = "run" /\ event[t] = NoEvent
         /\ newState[t] # "BLOCKED" /\ waitsFor[t] = NoEvent
BY Zenon DEF SchedInv, Executes, RunningOnce, PendingBlock, EventListsConsistent

(* removeFromEventlist takes the thread out of the one list it is in.      *)
LEMMA RemoveInv ==
  ASSUME TypeOK, EvListsOK, NEW t \in Threads, removeFromEventlist(t)
  PROVE  /\ event' = [event EXCEPT ![t] = NoEvent]
         /\ event' \in [Threads -> WaitEvents \cup {NoEvent}]
         /\ evlists' \in [Events -> Seq(Threads)]
         /\ EvListsOK'
<1>1. event' = [event EXCEPT ![t] = NoEvent] /\ event' \in [Threads -> WaitEvents \cup {NoEvent}]
  BY Zenon DEF removeFromEventlist, TypeOK
<1>2. \A u \in Threads : event'[u] = IF u = t THEN NoEvent ELSE event[u]
  BY <1>1, Zenon DEF TypeOK
<1>3. \A e \in Events : /\ evlists[e] \in Seq(Threads) /\ Distinct(evlists[e])
                       /\ Elems(evlists[e]) = {u \in Threads : event[u] # NoEvent /\ event[u][1] = e}
  BY Zenon DEF TypeOK, EvListsOK
<1>4. CASE event[t] = NoEvent
  <2>1. evlists' = evlists
    BY <1>4, Zenon DEF removeFromEventlist
  <2>2. \A u \in Threads : event'[u] = event[u]
    BY <1>2, <1>4, Zenon
  <2> QED
    BY <1>1, <2>1, <2>2, Zenon DEF TypeOK, EvListsOK
<1>5. CASE event[t] # NoEvent
  <2> DEFINE e0 == event[t][1]
             l == Unlink(evlists[e0], t)
  <2>1. e0 \in Events
    BY <1>5, Zenon DEF TypeOK, WaitEvents
  <2>2. t \in Elems(evlists[e0])
    BY <1>3, <1>5, <2>1, Zenon
  <2>3. l \in Seq(Threads) /\ Elems(l) = Elems(evlists[e0]) \ {t} /\ Distinct(l)
    BY <1>3, <2>1, <2>2, ElemsUnlink, Zenon
  <2>4. evlists' = [evlists EXCEPT ![e0] = l]
    BY <1>5, Zenon DEF removeFromEventlist
  <2> HIDE DEF l, e0
  <2>5. evlists' \in [Events -> Seq(Threads)]
        /\ \A e \in Events : evlists'[e] = IF e = e0 THEN l ELSE evlists[e]
    BY <2>1, <2>3, <2>4, Zenon DEF TypeOK
  <2>6. ASSUME NEW e \in Events
        PROVE  /\ Distinct(evlists'[e])
               /\ Elems(evlists'[e]) = {u \in Threads : event'[u] # NoEvent /\ event'[u][1] = e}
    <3>1. CASE e = e0
      <4>1. {u \in Threads : event'[u] # NoEvent /\ event'[u][1] = e}
              = {u \in Threads : event[u] # NoEvent /\ event[u][1] = e} \ {t}
        BY <1>2, Zenon
      <4>2. Elems(l) = {u \in Threads : event[u] # NoEvent /\ event[u][1] = e} \ {t}
        BY <1>3, <2>3, <3>1, Zenon
      <4> QED
        BY <2>3, <2>5, <3>1, <4>1, <4>2, Zenon
    <3>2. CASE e # e0
      <4>1. {u \in Threads : event'[u] # NoEvent /\ event'[u][1] = e}
              = {u \in Threads : event[u] # NoEvent /\ event[u][1] = e}
        BY <1>2, <3>2, Zenon DEF e0
      <4> QED
        BY <1>3, <2>5, <3>2, <4>1, Zenon
    <3> QED
      BY <3>1, <3>2, Zenon
  <2> QED
    BY <1>1, <2>5, <2>6, Zenon DEF EvListsOK
<1> QED
  BY <1>4, <1>5, Zenon

(* A pending signal: perform lets the thread run on.                       *)
LEMMA PerformSignalInv ==
  ASSUME SchedInv, NEW c \in CPUs, performSignal(c)
  PROVE  SchedInv'
<1> DEFINE old == running[c]
<1>1. /\ old \in Threads /\ maySwitch(old) /\ removeFromEventlist(old)
      /\ newState' = [newState EXCEPT ![old] = "READY"]
      /\ pc' = [pc EXCEPT ![old] = afterPC(old)]
      /\ waitsFor' = [waitsFor EXCEPT ![old] = NoEvent]
      /\ UNCHANGED <<state, priority, prioGoodCnt, sigmask, target, queueVars, running, lock>>
  BY Zenon DEF performSignal
<1>2. state[old] = "RUNNING"
  BY <1>1, Zenon DEF SchedInv, RunningOnce
<1>3. /\ event' = [event EXCEPT ![old] = NoEvent]
      /\ event' \in [Threads -> WaitEvents \cup {NoEvent}]
      /\ evlists' \in [Events -> Seq(Threads)] /\ EvListsOK'
  BY <1>1, RemoveInv, Zenon DEF SchedInv, EventListsConsistent, EvListsOK
<1> HIDE DEF old
<1>4. TypeOK'
  BY <1>1, <1>3, Zenon DEF SchedInv, TypeOK, PCs, afterPC, queueVars
<1>5. ReadyQueuesConsistent'
  BY <1>1, QueuesUnchanged, Zenon
<1>6. \A u \in Threads : u # old => /\ event'[u] = event[u] /\ newState'[u] = newState[u]
                                    /\ pc'[u] = pc[u] /\ waitsFor'[u] = waitsFor[u]
  BY <1>1, <1>3, Zenon DEF SchedInv, TypeOK
<1>7. event'[old] = NoEvent /\ newState'[old] = "READY" /\ waitsFor'[old] = NoEvent
      /\ pc'[old] = afterPC(old)
  BY <1>1, <1>3, Zenon DEF SchedInv, TypeOK
<1>8. EventListsConsistent'
  BY <1>1, <1>3, <1>6, <1>7, Zenon DEF SchedInv, EventListsConsistent, EvListsOK
<1>9. RunningOnce'
  BY <1>1, Zenon DEF SchedInv, RunningOnce
<1>10. PendingBlock'
  BY <1>1, <1>2, <1>6, <1>7 DEF SchedInv, PendingBlock, afterPC
<1>11. NoLostWakeup'
  BY <1>1, <1>6, <1>7, Zenon DEF SchedInv, NoLostWakeup
<1>12. NoMissedSignal'
  <2>1. \A u \in Threads : state[u] = "BLOCKED" => u # old
    BY <1>2, Zenon
  <2>2. \A u \in Threads : pc[u] \in {"check", "kick"} => u # old
    BY <1>1, Zenon DEF maySwitch
  <2> QED
    BY <1>1, <1>6, <2>1, <2>2 DEF SchedInv, NoMissedSignal, hasSignal, isIgnoringSigs
<1> QED
  BY <1>4, <1>5, <1>8, <1>9, <1>10, <1>11, <1>12, Zenon DEF SchedInv

(* wait() preserves the invariant.                                         *)
LEMMA WaitInv ==
  ASSUME SchedInv, NEW c \in CPUs, NEW t \in Threads, NEW e \in Events, NEW o \in Objects,
         NEW sleepPC \in {"switch", "nosigs"}, wait(c, t, e, o, sleepPC)
  PROVE  SchedInv'
<1> DEFINE w == <<e, o>>
           l == Append(evlists[e], t)
<1>1. /\ Executes(c, t)
      /\ event' = [event EXCEPT ![t] = w] /\ newState' = [newState EXCEPT ![t] = "BLOCKED"]
      /\ evlists' = [evlists EXCEPT ![e] = l] /\ waitsFor' = [waitsFor EXCEPT ![t] = w]
      /\ pc' = [pc EXCEPT ![t] = sleepPC]
      /\ UNCHANGED <<state, priority, prioGoodCnt, sigmask, target, queueVars, running, lock>>
  BY Zenon DEF wait, SchedInv, TypeOK
<1>2. /\ state[t] = "RUNNING" /\ pc[t] = "run" /\ event[t] = NoEvent
      /\ newState[t] # "BLOCKED" /\ waitsFor[t] = NoEvent
  BY <1>1, ExecutesLemma, Zenon
<1>3. w \in WaitEvents /\ w # NoEvent /\ w[1] = e
  BY SchedAssumption DEF WaitEvents
<1>4. \A f \in Events : /\ evlists[f] \in Seq(Threads) /\ Distinct(evlists[f])
                       /\ Elems(evlists[f]) = {u \in Threads : event[u] # NoEvent /\ event[u][1] = f}
  BY Zenon DEF SchedInv, TypeOK, EventListsConsistent
<1>5. l \in Seq(Threads) /\ Elems(l) = Elems(evlists[e]) \cup {t} /\ Distinct(l)
  BY <1>2, <1>4, ElemsAppend
<1> HIDE DEF w, l
<1>6. TypeOK'
  BY <1>1, <1>3, <1>5, Zenon DEF SchedInv, TypeOK, PCs, queueVars
<1>7. ReadyQueuesConsistent'
  BY <1>1, QueuesUnchanged, Zenon
<1>8. /\ \A u \in Threads \ {t} : /\ event'[u] = event[u] /\ newState'[u] = newState[u]
                                  /\ waitsFor'[u] = waitsFor[u] /\ pc'[u] = pc[u]
      /\ event'[t] = w /\ newState'[t] = "BLOCKED" /\ waitsFor'[t] = w /\ pc'[t] = sleepPC
      /\ \A f \in Events : evlists'[f] = IF f = e THEN l ELSE evlists[f]
  BY <1>1, Zenon DEF SchedInv, TypeOK
<1>9. EventListsConsistent'
  <2>1. ASSUME NEW f \in Events
        PROVE  /\ Distinct(evlists'[f])
               /\ Elems(evlists'[f]) = {u \in Threads : event'[u] # NoEvent /\ event'[u][1] = f}
    <3>1. CASE f = e
      <4>1. {u \in Threads : event'[u] # NoEvent /\ event'[u][1] = f}
              = {u \in Threads : event[u] # NoEvent /\ event[u][1] = f} \cup {t}
        BY <1>3, <1>8, <3>1
      <4> QED
        BY <1>4, <1>5, <1>8, <3>1, <4>1, Zenon
    <3>2. CASE f # e
      <4>1. {u \in Threads : event'[u] # NoEvent /\ event'[u][1] = f}
              = {u \in Threads : event[u] # NoEvent /\ event[u][1] = f}
        BY <1>2, <1>3, <1>8, <3>2
      <4>2. evlists'[f] = evlists[f]
        BY <1>8, <3>2, Zenon
      <4> QED
        BY <1>4, <4>1, <4>2, Zenon
    <3> QED
      BY <3>1, <3>2, Zenon
  <2>2. \A u \in Threads : event'[u] # NoEvent =>
          state'[u] = "BLOCKED" \/ (state'[u] = "RUNNING" /\ newState'[u] = "BLOCKED")
    BY <1>1, <1>2, <1>8 DEF SchedInv, EventListsConsistent
  <2> QED
    BY <2>1, <2>2, Zenon DEF EventListsConsistent
<1>10. RunningOnce'
  BY <1>1 DEF SchedInv, RunningOnce
<1>11. PendingBlock'
  BY <1>1, <1>2, <1>8 DEF SchedInv, PendingBlock
<1>12. NoLostWakeup'
  BY <1>1, <1>2, <1>8, Zenon DEF SchedInv, NoLostWakeup
<1>13. NoMissedSignal'
  <2>1. \A u \in Threads : state[u] = "BLOCKED" \/ pc[u] \in {"check", "kick"} => pc'[u] = pc[u]
    BY <1>2, <1>8, Zenon
  <2> QED
    BY <1>1, <2>1 DEF SchedInv, NoMissedSignal, hasSignal, isIgnoringSigs
<1> QED
  BY <1>6, <1>7, <1>9, <1>10, <1>11, <1>12, <1>13, Zenon DEF SchedInv


-----------------------------------------------------------------------------
(* A step of a running thread t that touches only its pc, its newState,    *)
(* its target and signal masks, and leaves nothing behind that could lose  *)
(* a wakeup or a signal.                                                   *)
OwnStep(t, p, n) ==
  /\ state[t] = "RUNNING"
  /\ UNCHANGED <<state, event, priority, prioGoodCnt, queueVars, evlists, running, lock, waitsFor>>
  /\ pc' = [pc EXCEPT ![t] = p] /\ newState' = [newState EXCEPT ![t] = n]
  /\ target' \in [Threads -> Threads \cup {NoThread}] /\ sigmask' \in [Threads -> BOOLEAN]
  /\ event[t] = NoEvent \/ n = newState[t]
  /\ p \notin {"switch", "nosigs", "ignsigs"} => n # "BLOCKED" /\ waitsFor[t] = NoEvent
  /\ n = "BLOCKED" => n = newState[t] \/ waitsFor[t] = NoEvent
  /\ p \in {"check", "kick"} => target'[t] \in Threads
  /\ \A u \in Threads : target'[u] = target[u] \/ u = t
  /\ \A u \in Threads : state[u] = "UNUSED" => sigmask'[u] = sigmask[u]
  /\ \A u \in Threads : state[u] = "BLOCKED" /\ hasSignal(u)' =>
       \/ hasSignal(u) /\ (pc[t] \in {"check", "kick"} /\ target[t] = u =>
                             p \in {"check", "kick"} /\ target'[t] = u)
       \/ p \in {"check", "kick"} /\ target'[t] = u

(* Such a step preserves the invariant.                                    *)
LEMMA OwnStepInv ==
  ASSUME SchedInv, NEW t \in Threads, NEW p \in PCs, NEW n \in {"READY", "BLOCKED", "ZOMBIE"},
         OwnStep(t, p, n)
  PROVE  SchedInv'
<1>1. TypeOK'
  BY Zenon DEF OwnStep, SchedInv, TypeOK, queueVars
<1>2. ReadyQueuesConsistent'
  BY QueuesUnchanged, Zenon DEF OwnStep
<1>3. /\ \A u \in Threads \ {t} : newState'[u] = newState[u] /\ pc'[u] = pc[u]
      /\ newState'[t] = n /\ pc'[t] = p
  BY Zenon DEF OwnStep, SchedInv, TypeOK
<1>4. EventListsConsistent'
  BY <1>3, Zenon DEF OwnStep, SchedInv, EventListsConsistent
<1>5. RunningOnce'
  BY DEF OwnStep, SchedInv, RunningOnce
<1>6. PendingBlock'
  BY <1>3 DEF OwnStep, SchedInv, PendingBlock
<1>7. NoLostWakeup'
  BY Zenon DEF OwnStep, SchedInv, NoLostWakeup
<1>8. NoMissedSignal'
  <2> SUFFICES ASSUME NEW u \in Threads, state[u] = "BLOCKED", hasSignal(u)'
               PROVE  \E s \in Threads : /\ state[s] = "RUNNING" /\ pc'[s] \in {"check", "kick"}
                                         /\ target'[s] = u
    BY Zenon DEF OwnStep, NoMissedSignal
  <2>1. CASE p \in {"check", "kick"} /\ target'[t] = u
    BY <1>3, <2>1, Zenon DEF OwnStep
  <2>2. CASE hasSignal(u) /\ (pc[t] \in {"check", "kick"} /\ target[t] = u =>
                                 p \in {"check", "kick"} /\ target'[t] = u)
    <3>1. PICK s \in Threads : state[s] = "RUNNING" /\ pc[s] \in {"check", "kick"} /\ target[s] = u
      BY <2>2, Zenon DEF SchedInv, NoMissedSignal
    <3> QED
      BY <1>3, <2>2, <3>1, Zenon DEF OwnStep
  <2> QED
    BY <2>1, <2>2, Zenon DEF OwnStep
<1> QED
  BY <1>1, <1>2, <1>4, <1>5, <1>6, <1>7, <1>8, Zenon DEF SchedInv

(* setIgnSigs, clearIgnSigs, block, removeThread, addSignalFor,            *)
(* checkIgnSigs and handleSignal preserve the invariant.                   *)
LEMMA ThreadStepInv ==
  ASSUME SchedInv, NEW t \in Threads,
         \/ setIgnSigs(t) \/ clearIgnSigs(t) \/ checkIgnSigs(t)
         \/ \E c \in CPUs, sleepPC \in {"switch", "nosigs"} : block(c, t, sleepPC)
         \/ \E c \in CPUs : removeThread(c, t) \/ handleSignal(c, t)
         \/ \E c \in CPUs, u \in Threads : addSignalFor(c, t, u)
  PROVE  SchedInv'
<1>1. /\ newState \in [Threads -> {"READY", "BLOCKED", "ZOMBIE"}] /\ pc \in [Threads -> PCs]
      /\ newState[t] \in {"READY", "BLOCKED", "ZOMBIE"} /\ pc[t] \in PCs
      /\ newState = [newState EXCEPT ![t] = newState[t]] /\ pc = [pc EXCEPT ![t] = pc[t]]
      /\ target \in [Threads -> Threads \cup {NoThread}] /\ sigmask \in [Threads -> BOOLEAN]
  BY Zenon DEF SchedInv, TypeOK
<1>2. {"run", "switch", "nosigs", "ignsigs", "check", "kick", "exit"} \subseteq PCs
  BY Zenon DEF PCs
<1>3. /\ state[t] = "RUNNING" /\ pc[t] \notin {"switch", "nosigs", "ignsigs"} =>
           newState[t] # "BLOCKED" /\ waitsFor[t] = NoEvent
      /\ pc[t] \in {"check", "kick"} => target[t] \in Threads
  BY Zenon DEF SchedInv, PendingBlock
<1>4. CASE setIgnSigs(t)
  <2>1. state[t] = "RUNNING" /\ pc[t] = "nosigs"
    BY <1>4, Zenon DEF setIgnSigs
  <2>2. \A u \in Threads : state[u] = "BLOCKED" => pc'[u] = pc[u]
    BY <1>1, <1>4, <2>1, Zenon DEF setIgnSigs
  <2>8. OwnStep(t, "ignsigs", newState[t])
    BY <1>1, <1>2, <1>3, <1>4, <2>1, <2>2, Zenon DEF OwnStep, setIgnSigs, hasSignal, isIgnoringSigs
  <2> QED
    BY <1>1, <1>2, <2>8, OwnStepInv, Zenon
<1>5. CASE clearIgnSigs(t)
  <2>1. state[t] = "RUNNING" /\ pc[t] = "resume"
    BY <1>5, Zenon DEF clearIgnSigs
  <2>2. \A u \in Threads : state[u] = "BLOCKED" => pc'[u] = pc[u]
    BY <1>1, <1>5, <2>1, Zenon DEF clearIgnSigs
  <2>8. OwnStep(t, "run", newState[t])
    BY <1>1, <1>2, <1>3, <1>5, <2>1, <2>2, Zenon
      DEF OwnStep, clearIgnSigs, hasSignal, isIgnoringSigs
  <2> QED
    BY <1>1, <1>2, <2>8, OwnStepInv, Zenon
<1>6. CASE checkIgnSigs(t)
  <2>1. state[t] = "RUNNING" /\ pc[t] = "check"
    BY <1>6, Zenon DEF checkIgnSigs
  <2>2. CASE isIgnoringSigs(target[t])
    <3>1. pc' = [pc EXCEPT ![t] = "run"] /\ target' = [target EXCEPT ![t] = NoThread]
      BY <1>6, <2>2, Zenon DEF checkIgnSigs
    <3>2. \A u \in Threads : state[u] = "BLOCKED" /\ hasSignal(u)' => hasSignal(u) /\ target[t] # u
      BY <1>1, <1>6, <2>1, <2>2, <3>1, Zenon DEF checkIgnSigs, hasSignal, isIgnoringSigs
    <3>8. OwnStep(t, "run", newState[t])
      BY <1>1, <1>2, <1>3, <1>6, <2>1, <3>1, <3>2, Zenon DEF OwnStep, checkIgnSigs
    <3> QED
      BY <1>1, <1>2, <3>8, OwnStepInv, Zenon
  <2>3. CASE ~isIgnoringSigs(target[t])
    <3>1. pc' = [pc EXCEPT ![t] = "kick"] /\ target' = target
      BY <1>6, <2>3, Zenon DEF checkIgnSigs
    <3>2. \A u \in Threads : state[u] = "BLOCKED" /\ hasSignal(u)' => hasSignal(u)
      BY <1>1, <1>6, <2>1, <3>1, Zenon DEF checkIgnSigs, hasSignal, isIgnoringSigs
    <3>8. OwnStep(t, "kick", newState[t])
      BY <1>1, <1>2, <1>3, <1>6, <2>1, <3>1, <3>2, Zenon DEF OwnStep, checkIgnSigs
    <3> QED
      BY <1>1, <1>2, <3>8, OwnStepInv, Zenon
  <2> QED
    BY <2>2, <2>3, Zenon
<1>7. ASSUME NEW c \in CPUs, NEW sleepPC \in {"switch", "nosigs"}, block(c, t, sleepPC)
      PROVE  SchedInv'
  <2>1. Executes(c, t)
    BY <1>7, Zenon DEF block
  <2>2. /\ state[t] = "RUNNING" /\ pc[t] = "run" /\ event[t] = NoEvent
        /\ newState[t] # "BLOCKED" /\ waitsFor[t] = NoEvent
    BY <2>1, ExecutesLemma, Zenon
  <2>3. \A u \in Threads : state[u] = "BLOCKED" => pc'[u] = pc[u]
    BY <1>1, <1>7, <2>2, Zenon DEF block
  <2>8. OwnStep(t, sleepPC, "BLOCKED")
    BY <1>1, <1>2, <1>7, <2>2, <2>3, Zenon DEF OwnStep, block, hasSignal, isIgnoringSigs
  <2> QED
    BY <1>1, <1>2, <2>8, OwnStepInv, Zenon
<1>8. ASSUME NEW c \in CPUs, removeThread(c, t)
      PROVE  SchedInv'
  <2>1. Executes(c, t)
    BY <1>8, Zenon DEF removeThread
  <2>2. /\ state[t] = "RUNNING" /\ pc[t] = "run" /\ event[t] = NoEvent
        /\ newState[t] # "BLOCKED" /\ waitsFor[t] = NoEvent
    BY <2>1, ExecutesLemma, Zenon
  <2>3. \A u \in Threads : state[u] = "BLOCKED" => pc'[u] = pc[u]
    BY <1>1, <1>8, <2>2, Zenon DEF removeThread
  <2>8. OwnStep(t, "exit", "ZOMBIE")
    BY <1>1, <1>2, <1>8, <2>2, <2>3, Zenon DEF OwnStep, removeThread, hasSignal, isIgnoringSigs
  <2> QED
    BY <1>1, <1>2, <2>8, OwnStepInv, Zenon
<1>9. ASSUME NEW c \in CPUs, handleSignal(c, t)
      PROVE  SchedInv'
  <2>1. Executes(c, t) /\ sigmask' = [sigmask EXCEPT ![t] = FALSE]
    BY <1>9, Zenon DEF handleSignal
  <2>2. /\ state[t] = "RUNNING" /\ pc[t] = "run" /\ event[t] = NoEvent
        /\ newState[t] # "BLOCKED" /\ waitsFor[t] = NoEvent
    BY <2>1, ExecutesLemma, Zenon
  <2>3. \A u \in Threads : u # t => sigmask'[u] = sigmask[u]
    BY <1>1, <2>1, Zenon
  <2>8. OwnStep(t, pc[t], newState[t])
    BY <1>1, <1>2, <1>9, <2>1, <2>2, <2>3, Zenon
      DEF OwnStep, handleSignal, hasSignal, isIgnoringSigs
  <2> QED
    BY <1>1, <1>2, <2>8, OwnStepInv, Zenon
<1>10. ASSUME NEW c \in CPUs, NEW v \in Threads, addSignalFor(c, t, v)
       PROVE  SchedInv'
  <2>1. /\ Executes(c, t) /\ state[v] # "UNUSED" /\ sigmask' = [sigmask EXCEPT ![v] = TRUE]
        /\ pc' = [pc EXCEPT ![t] = "check"] /\ target' = [target EXCEPT ![t] = v]
    BY <1>10, Zenon DEF addSignalFor
  <2>2. /\ state[t] = "RUNNING" /\ pc[t] = "run" /\ event[t] = NoEvent
        /\ newState[t] # "BLOCKED" /\ waitsFor[t] = NoEvent
    BY <2>1, ExecutesLemma, Zenon
  <2>3. \A u \in Threads : u # v => sigmask'[u] = sigmask[u]
    BY <1>1, <2>1, Zenon
  <2>4. \A u \in Threads : state[u] = "BLOCKED" => pc'[u] = pc[u]
    BY <1>1, <2>1, <2>2, Zenon
  <2>5. target'[t] = v /\ target' \in [Threads -> Threads \cup {NoThread}]
        /\ \A u \in Threads : target'[u] = target[u] \/ u = t
    BY <1>1, <2>1, Zenon
  <2>6. \A u \in Threads : state[u] = "BLOCKED" /\ hasSignal(u)' => hasSignal(u) \/ u = v
    BY <2>3, <2>4, Zenon DEF hasSignal, isIgnoringSigs
  <2>8. OwnStep(t, "check", newState[t])
    BY <1>1, <1>2, <1>10, <2>1, <2>2, <2>3, <2>5, <2>6, Zenon DEF OwnStep, addSignalFor
  <2> QED
    BY <1>1, <1>2, <2>8, OwnStepInv, Zenon
<1> QED
  BY <1>4, <1>5, <1>6, <1>7, <1>8, <1>9, <1>10, Zenon
-----------------------------------------------------------------------------
(* Creation, end and switch.                                               *)

(* Thread::create preserves the invariant.                                 *)
LEMMA CreateInv ==
  ASSUME SchedInv, NEW c \in CPUs, NEW t \in Threads, NEW v \in Threads, NEW p \in Prios,
         create(c, t, v, p)
  PROVE  SchedInv'
<1>1. /\ state[v] = "UNUSED" /\ state' = [state EXCEPT ![v] = "BLOCKED"]
      /\ newState' = [newState EXCEPT ![v] = "READY"] /\ priority' = [priority EXCEPT ![v] = p]
      /\ UNCHANGED <<event, prioGoodCnt, sigmask, pc, target, queueVars, evlists, running, lock, waitsFor>>
  BY Zenon DEF create
<1>2. ~sigmask[v] /\ waitsFor[v] = NoEvent
  BY <1>1, Zenon DEF SchedInv, PendingBlock
<1>3. /\ state'[v] = "BLOCKED"
      /\ \A u \in Threads \ {v} : /\ state'[u] = state[u] /\ newState'[u] = newState[u]
                                  /\ priority'[u] = priority[u]
  BY <1>1, Zenon DEF SchedInv, TypeOK
<1>4. TypeOK'
  BY <1>1, Zenon DEF SchedInv, TypeOK, States, queueVars
<1>5. ReadyQueuesConsistent'
  <2>1. QueuesOK(state', priority', rdyQueues, readyMask, rdyCount)
    <3>1. /\ \A u \in Threads : (state[u] = "READY") <=> (state'[u] = "READY")
          /\ \A u \in Threads : state[u] = "READY" => priority'[u] = priority[u]
      BY <1>1, <1>3, Zenon
    <3>2. QueuesOK(state, priority, rdyQueues, readyMask, rdyCount)
      BY Zenon DEF SchedInv, ReadyQueuesConsistent
    <3> QED
      BY <3>1, <3>2, QueuesSame, Zenon
  <2> QED
    BY <1>1, <2>1, Zenon DEF ReadyQueuesConsistent, queueVars
<1>6. EventListsConsistent'
  BY <1>1, <1>3, Zenon DEF SchedInv, EventListsConsistent
<1>7. RunningOnce'
  BY <1>1, <1>3 DEF SchedInv, RunningOnce
<1>8. PendingBlock'
  BY <1>1, <1>3 DEF SchedInv, PendingBlock
<1>9. NoLostWakeup'
  BY <1>1, <1>2, <1>3, Zenon DEF SchedInv, NoLostWakeup
<1>10. NoMissedSignal'
  BY <1>1, <1>2, <1>3 DEF SchedInv, NoMissedSignal, hasSignal, isIgnoringSigs
<1> QED
  BY <1>4, <1>5, <1>6, <1>7, <1>8, <1>9, <1>10, Zenon DEF SchedInv

(* Proc::killThread preserves the invariant.                               *)
LEMMA KillInv ==
  ASSUME SchedInv, NEW v \in Threads, kill(v)
  PROVE  SchedInv'
<1>1. /\ state[v] = "ZOMBIE" /\ state' = [state EXCEPT ![v] = "UNUSED"]
      /\ newState' = [newState EXCEPT ![v] = "READY"] /\ prioGoodCnt' = [prioGoodCnt EXCEPT ![v] = 0]
      /\ sigmask' = [sigmask EXCEPT ![v] = FALSE] /\ pc' = [pc EXCEPT ![v] = "run"]
      /\ waitsFor' = [waitsFor EXCEPT ![v] = NoEvent]
      /\ UNCHANGED <<event, priority, target, queueVars, evlists, running, lock>>
  BY Zenon DEF kill
<1>2. /\ state'[v] = "UNUSED" /\ ~sigmask'[v] /\ waitsFor'[v] = NoEvent /\ pc'[v] = "run"
      /\ \A u \in Threads \ {v} :
           /\ state'[u] = state[u] /\ newState'[u] = newState[u] /\ sigmask'[u] = sigmask[u]
           /\ pc'[u] = pc[u] /\ waitsFor'[u] = waitsFor[u]
  BY <1>1, Zenon DEF SchedInv, TypeOK
<1>3. 0 \in 0 .. PRIO_FORGIVE_CNT - 1
  BY SchedAssumption
<1>4. TypeOK'
  BY <1>1, <1>3, Zenon DEF SchedInv, TypeOK, States, PCs, queueVars
<1>5. ReadyQueuesConsistent'
  <2>1. QueuesOK(state', priority, rdyQueues, readyMask, rdyCount)
    <3>1. \A u \in Threads : (state[u] = "READY") <=> (state'[u] = "READY")
      BY <1>1, <1>2, Zenon
    <3>2. QueuesOK(state, priority, rdyQueues, readyMask, rdyCount)
      BY Zenon DEF SchedInv, ReadyQueuesConsistent
    <3> QED
      BY <3>1, <3>2, QueuesSame, Zenon
  <2> QED
    BY <1>1, <2>1, Zenon DEF ReadyQueuesConsistent, queueVars
<1>6. EventListsConsistent'
  BY <1>1, <1>2 DEF SchedInv, EventListsConsistent
<1>7. RunningOnce'
  BY <1>1, <1>2 DEF SchedInv, RunningOnce
<1>8. PendingBlock'
  BY <1>1, <1>2 DEF SchedInv, PendingBlock
<1>9. NoLostWakeup'
  BY <1>1, <1>2 DEF SchedInv, NoLostWakeup
<1>10. NoMissedSignal'
  BY <1>1, <1>2 DEF SchedInv, NoMissedSignal, hasSignal, isIgnoringSigs
<1> QED
  BY <1>4, <1>5, <1>6, <1>7, <1>8, <1>9, <1>10, Zenon DEF SchedInv

(* A switch that leaves well-typed queues preserves the invariant.         *)
LEMMA SwitchInv ==
  ASSUME SchedInv, NEW c \in CPUs, NEW st \in StateType, NEW t \in Threads \cup {c},
         Switched(c, st, t), readyMask' \in SUBSET Prios, rdyCount' \in Nat
  PROVE  SchedInv'
<1> DEFINE old == running[c]
<1>1. c \notin Threads /\ NoThread \notin Threads
  BY SchedAssumption, Zenon
<1>2. /\ t \in Threads => st[t] = "READY" /\ newState' = [newState EXCEPT ![t] = "READY"]
                          /\ waitsFor' = [waitsFor EXCEPT ![t] = NoEvent]
      /\ t = c => newState' = newState /\ waitsFor' = waitsFor
      /\ state' = [st EXCEPT ![t] = "RUNNING"]
      /\ running' = [running EXCEPT ![c] = t]
  BY <1>1, Zenon DEF Switched, Picked
<1>a. /\ UNCHANGED <<event, priority, prioGoodCnt, sigmask, target, evlists, lock>>
      /\ rdyQueues' \in QueueType /\ QueuesOK(state', priority', rdyQueues', readyMask', rdyCount')
  BY Zenon DEF Switched
<1>b. /\ \A u \in Threads \ {old} : st[u] = state[u]
      /\ old \in Threads => /\ st[old] = newState[old] /\ maySwitch(old)
                            /\ newState[old] = "BLOCKED" => ~hasSignal(old)
  BY Zenon DEF Switched
<1>c. /\ newState \in [Threads -> {"READY", "BLOCKED", "ZOMBIE"}] /\ pc \in [Threads -> PCs]
      /\ waitsFor \in [Threads -> WaitEvents \cup {NoEvent}]
      /\ running \in [CPUs -> Threads \cup CPUs \cup {NoThread}]
  BY Zenon DEF SchedInv, TypeOK
<1>3. TypeOK'
  <2>1. state' \in [Threads \cup CPUs -> States]
    BY <1>2, Zenon DEF StateType, States
  <2>2. newState' \in [Threads -> {"READY", "BLOCKED", "ZOMBIE"}]
    BY <1>2, <1>c, Zenon
  <2>3. waitsFor' \in [Threads -> WaitEvents \cup {NoEvent}]
    BY <1>2, <1>c, Zenon
  <2>4. running' \in [CPUs -> Threads \cup CPUs \cup {NoThread}]
    BY <1>2, <1>c, Zenon
  <2>5. pc' \in [Threads -> PCs]
    <3>1. afterPC(old) \in PCs
      BY Zenon DEF PCs, afterPC
    <3> QED
      BY <1>c, <3>1, Zenon DEF Switched
  <2>6. rdyQueues' \in [Prios -> Seq(Threads)]
    BY <1>a, Zenon DEF QueueType
  <2> QED
    BY <1>a, <2>1, <2>2, <2>3, <2>4, <2>5, <2>6, Zenon DEF SchedInv, TypeOK
<1>4. ReadyQueuesConsistent'
  BY <1>a, Zenon DEF ReadyQueuesConsistent
<1>5. /\ \A u \in Threads : u # t => state'[u] = st[u] /\ newState'[u] = newState[u]
                                    /\ waitsFor'[u] = waitsFor[u]
      /\ t \in Threads => state'[t] = "RUNNING" /\ newState'[t] = "READY" /\ waitsFor'[t] = NoEvent
  BY <1>2, <1>c, Zenon DEF StateType
<1>6. \A d \in CPUs : running'[d] = IF d = c THEN t ELSE running[d]
  BY <1>2, <1>c, Zenon
<1>7. old \in Threads => state[old] = "RUNNING"
  BY Zenon DEF SchedInv, RunningOnce
<1>8. t \in Threads => t = old \/ state[t] = "READY"
  BY <1>2, <1>b, Zenon
<1>9. \A u \in Threads \ {old} : pc'[u] = pc[u]
  BY <1>c, Zenon DEF Switched
<1>10. old \in Threads => pc'[old] = afterPC(old) /\ afterPC(old) \notin {"check", "kick"}
  BY <1>c, Zenon DEF Switched, afterPC
<1>11. EventListsConsistent'
  <2>1. ASSUME NEW u \in Threads, event[u] # NoEvent
        PROVE  state'[u] = "BLOCKED" \/ (state'[u] = "RUNNING" /\ newState'[u] = "BLOCKED")
    <3>1. state[u] = "BLOCKED" \/ (state[u] = "RUNNING" /\ newState[u] = "BLOCKED")
      BY <2>1, Zenon DEF SchedInv, EventListsConsistent
    <3>2. u # t
      BY <1>2, <1>7, <1>b, <3>1, Zenon
    <3> QED
      BY <1>5, <1>7, <1>b, <3>1, <3>2, Zenon
  <2> QED
    BY <1>a, <2>1, Zenon DEF SchedInv, EventListsConsistent
<1>12. RunningOnce'
  <2>1. ASSUME NEW d \in CPUs PROVE running'[d] \in Threads \cup {d, NoThread}
    <3>1. running[d] \in Threads \cup {d, NoThread}
      BY Zenon DEF SchedInv, RunningOnce
    <3>2. d = c => running'[d] \in Threads \cup {d}
      BY <1>6, Zenon
    <3> QED
      BY <1>6, <3>1, <3>2, Zenon
  <2>2. t \in Threads => \A d \in CPUs \ {c} : running[d] # t
    BY <1>7, <1>8, Zenon DEF SchedInv, RunningOnce
  <2>3. \A u \in Threads, d, e \in CPUs : running'[d] = u /\ running'[e] = u => d = e
    BY <1>6, <2>2 DEF SchedInv, RunningOnce
  <2>4. ASSUME NEW u \in Threads
        PROVE  (state'[u] = "RUNNING") <=> (\E d \in CPUs : running'[d] = u)
    <3>1. CASE u = t
      BY <1>5, <1>6, <3>1, Zenon
    <3>2. CASE u # t /\ u = old
      <4>1. state'[u] # "RUNNING"
        BY <1>5, <1>b, <1>c, <3>2, Zenon
      <4>2. \A d \in CPUs : running'[d] # u
        BY <1>6, <3>2 DEF SchedInv, RunningOnce
      <4> QED
        BY <4>1, <4>2, Zenon
    <3>3. CASE u # t /\ u # old
      <4>1. (state[u] = "RUNNING") <=> (\E d \in CPUs : running[d] = u)
        BY Zenon DEF SchedInv, RunningOnce
      <4> QED
        BY <1>5, <1>6, <1>b, <3>3, <4>1, Zenon
    <3> QED
      BY <3>1, <3>2, <3>3, Zenon
  <2> QED
    BY <2>1, <2>3, <2>4, Zenon DEF RunningOnce
<1>13. PendingBlock'
  <2> SUFFICES ASSUME NEW u \in Threads
               PROVE  /\ state'[u] = "RUNNING" /\ pc'[u] \notin {"switch", "nosigs", "ignsigs"} =>
                           newState'[u] # "BLOCKED" /\ waitsFor'[u] = NoEvent
                      /\ state'[u] = "RUNNING" /\ newState'[u] = "BLOCKED" /\ waitsFor'[u] # NoEvent =>
                           event'[u] = waitsFor'[u]
                      /\ pc'[u] \in {"check", "kick"} => state'[u] = "RUNNING" /\ target'[u] \in Threads
                      /\ state'[u] = "UNUSED" => ~sigmask'[u] /\ waitsFor'[u] = NoEvent
    BY Zenon DEF PendingBlock
  <2>1. pc'[u] \in {"check", "kick"} => u # old /\ state[u] = "RUNNING" /\ target[u] \in Threads
    BY <1>9, <1>10, Zenon DEF SchedInv, PendingBlock
  <2>2. CASE u = t
    BY <1>5, <1>a, <2>1, <2>2, Zenon
  <2>3. CASE u # t /\ u = old
    <3>1. state'[u] \notin {"RUNNING", "UNUSED"}
      BY <1>5, <1>b, <1>c, <2>3, Zenon
    <3> QED
      BY <2>1, <2>3, <3>1, Zenon
  <2>4. CASE u # t /\ u # old
    <3>1. /\ state'[u] = state[u] /\ newState'[u] = newState[u] /\ waitsFor'[u] = waitsFor[u]
          /\ pc'[u] = pc[u]
      BY <1>5, <1>9, <1>b, <2>4, Zenon
    <3> QED
      BY <1>a, <3>1, Zenon DEF SchedInv, PendingBlock
  <2> QED
    BY <2>2, <2>3, <2>4, Zenon
<1>14. NoLostWakeup'
  <2> SUFFICES ASSUME NEW u \in Threads, state'[u] = "BLOCKED", waitsFor'[u] # NoEvent
               PROVE  event[u] = waitsFor[u] /\ waitsFor'[u] = waitsFor[u]
    BY <1>a, Zenon DEF NoLostWakeup
  <2>1. u # t /\ st[u] = "BLOCKED" /\ waitsFor'[u] = waitsFor[u]
    BY <1>5, Zenon
  <2>2. CASE u = old
    BY <1>7, <1>b, <2>1, <2>2, Zenon DEF SchedInv, PendingBlock
  <2>3. CASE u # old
    BY <1>b, <2>1, <2>3, Zenon DEF SchedInv, NoLostWakeup
  <2> QED
    BY <2>2, <2>3, Zenon
<1>15. NoMissedSignal'
  <2> SUFFICES ASSUME NEW u \in Threads, state'[u] = "BLOCKED", hasSignal(u)'
               PROVE  \E s \in Threads : /\ state'[s] = "RUNNING" /\ pc'[s] \in {"check", "kick"}
                                         /\ target'[s] = u
    BY Zenon DEF NoMissedSignal
  <2>1. u # t /\ st[u] = "BLOCKED"
    BY <1>5, Zenon
  <2>2. u # old
    BY <1>10, <1>a, <1>b, <2>1, Zenon DEF hasSignal, isIgnoringSigs, afterPC, maySwitch
  <2>3. state[u] = "BLOCKED" /\ hasSignal(u)
    BY <1>9, <1>a, <1>b, <2>1, <2>2, Zenon DEF hasSignal, isIgnoringSigs
  <2>4. PICK s \in Threads : state[s] = "RUNNING" /\ pc[s] \in {"check", "kick"} /\ target[s] = u
    BY <2>3, Zenon DEF SchedInv, NoMissedSignal
  <2>5. s # old
    BY <1>b, <2>4, Zenon DEF maySwitch
  <2>6. s # t
    BY <1>8, <2>4, <2>5, Zenon
  <2> QED
    BY <1>5, <1>9, <1>a, <1>b, <2>4, <2>5, <2>6, Zenon
<1> QED
  BY <1>3, <1>4, <1>11, <1>12, <1>13, <1>14, <1>15, Zenon DEF SchedInv

-----------------------------------------------------------------------------
(* The operations on the ready queues, and the thread that perform takes.  *)

(* The set of ready threads is finite, so rdyCount is a number.            *)
LEMMA ReadyFinite ==
  ASSUME NEW st
  PROVE  IsFiniteSet(ReadyOf(st)) /\ Cardinality(ReadyOf(st)) \in Nat
BY SchedAssumption, FS_Subset, FS_CardinalityType, Zenon DEF ReadyOf

(* Consistent queues are well-typed.                                       *)
LEMMA QueuesType ==
  ASSUME NEW st, NEW pr, NEW rq, NEW mask, NEW cnt, QueuesOK(st, pr, rq, mask, cnt)
  PROVE  mask \in SUBSET Prios /\ cnt \in Nat
BY ReadyFinite, Zenon DEF QueuesOK, ReadyOf

(* enqueue and enqueueQuick: t becomes ready, l is its queue with t added. *)
LEMMA QueuesInsert ==
  ASSUME NEW st \in StateType, NEW pr \in [Threads -> Prios], NEW rq \in QueueType,
         NEW mask, NEW cnt, QueuesOK(st, pr, rq, mask, cnt),
         NEW t \in Threads, st[t] # "READY",
         NEW l \in Seq(Threads), Elems(l) = Elems(rq[pr[t]]) \cup {t}, Distinct(l)
  PROVE  QueuesOK([st EXCEPT ![t] = "READY"], pr, [rq EXCEPT ![pr[t]] = l],
                  mask \cup {pr[t]}, cnt + 1)
<1> DEFINE st2 == [st EXCEPT ![t] = "READY"]
           rq2 == [rq EXCEPT ![pr[t]] = l]
<1>0. st2 \in StateType /\ rq2 \in QueueType /\ pr[t] \in Prios
  BY Zenon DEF StateType, QueueType, States
<1>1. ASSUME NEW p \in Prios
      PROVE  Distinct(rq2[p]) /\ Elems(rq2[p]) = {u \in Threads : st2[u] = "READY" /\ pr[u] = p}
  <2>1. Distinct(rq[p]) /\ Elems(rq[p]) = {u \in Threads : st[u] = "READY" /\ pr[u] = p}
    BY Zenon DEF QueuesOK
  <2>2. CASE p = pr[t]
    BY <2>1, <2>2, Zenon DEF StateType, QueueType
  <2>3. CASE p # pr[t]
    <3>1. rq2[p] = rq[p]
      BY <2>3, Zenon DEF QueueType
    <3>2. {u \in Threads : st2[u] = "READY" /\ pr[u] = p} = {u \in Threads : st[u] = "READY" /\ pr[u] = p}
      BY <2>3, Zenon DEF StateType
    <3> QED
      BY <2>1, <3>1, <3>2, Zenon
  <2> QED
    BY <2>2, <2>3, Zenon
<1>2. mask \cup {pr[t]} = {p \in Prios : rq2[p] # <<>>}
  <2>1. l # <<>>
    BY ElemsEmpty, Zenon
  <2> QED
    BY <1>0, <2>1, Zenon DEF QueuesOK, QueueType
<1>3. cnt + 1 = Cardinality(ReadyOf(st2))
  <2>1. ReadyOf(st2) = ReadyOf(st) \cup {t} /\ t \notin ReadyOf(st)
    BY Zenon DEF ReadyOf, StateType
  <2>2. cnt = Cardinality(ReadyOf(st))
    BY Zenon DEF QueuesOK, ReadyOf
  <2> QED
    BY <2>1, <2>2, ReadyFinite, FS_AddElement, Zenon
<1> HIDE DEF st2, rq2
<1>4. QueuesOK(st2, pr, rq2, mask \cup {pr[t]}, cnt + 1)
  BY <1>1, <1>2, <1>3, Zenon DEF QueuesOK, ReadyOf
<1> QED
  BY <1>4, Zenon DEF st2, rq2

(* dequeue and removeFirst: t is no longer ready, l is its queue without   *)
(* it, and the bit of the queue is cleared if l is empty.                  *)
LEMMA QueuesRemove ==
  ASSUME NEW st \in StateType, NEW pr \in [Threads -> Prios], NEW rq \in QueueType,
         NEW mask, NEW cnt, QueuesOK(st, pr, rq, mask, cnt),
         NEW t \in Threads, st[t] = "READY", NEW s \in States \ {"READY"},
         NEW l \in Seq(Threads), Elems(l) = Elems(rq[pr[t]]) \ {t}, Distinct(l)
  PROVE  QueuesOK([st EXCEPT ![t] = s], pr, [rq EXCEPT ![pr[t]] = l],
                  IF l = <<>> THEN mask \ {pr[t]} ELSE mask, cnt - 1)
<1> DEFINE st2 == [st EXCEPT ![t] = s]
           rq2 == [rq EXCEPT ![pr[t]] = l]
           mask2 == IF l = <<>> THEN mask \ {pr[t]} ELSE mask
<1>0. st2 \in StateType /\ rq2 \in QueueType /\ pr[t] \in Prios
  BY Zenon DEF StateType, QueueType, States
<1>1. ASSUME NEW p \in Prios
      PROVE  Distinct(rq2[p]) /\ Elems(rq2[p]) = {u \in Threads : st2[u] = "READY" /\ pr[u] = p}
  <2>1. Distinct(rq[p]) /\ Elems(rq[p]) = {u \in Threads : st[u] = "READY" /\ pr[u] = p}
    BY Zenon DEF QueuesOK
  <2>2. CASE p = pr[t]
    BY <2>1, <2>2, Zenon DEF StateType, QueueType
  <2>3. CASE p # pr[t]
    <3>1. rq2[p] = rq[p]
      BY <2>3, Zenon DEF QueueType
    <3>2. {u \in Threads : st2[u] = "READY" /\ pr[u] = p} = {u \in Threads : st[u] = "READY" /\ pr[u] = p}
      BY <2>3, Zenon DEF StateType
    <3> QED
      BY <2>1, <3>1, <3>2, Zenon
  <2> QED
    BY <2>2, <2>3, Zenon
<1>2. mask2 = {p \in Prios : rq2[p] # <<>>}
  <2>1. t \in Elems(rq[pr[t]])
    BY <1>0, Zenon DEF QueuesOK
  <2>2. rq[pr[t]] # <<>>
    BY <1>0, <2>1, ElemsEmpty DEF QueueType
  <2> QED
    BY <1>0, <2>2, Zenon DEF QueuesOK, QueueType
<1>3. cnt - 1 = Cardinality(ReadyOf(st2))
  <2>1. ReadyOf(st2) = ReadyOf(st) \ {t} /\ t \in ReadyOf(st)
    BY Zenon DEF ReadyOf, StateType
  <2>2. cnt = Cardinality(ReadyOf(st))
    BY Zenon DEF QueuesOK, ReadyOf
  <2> QED
    BY <2>1, <2>2, ReadyFinite, FS_RemoveElement, Zenon
<1> HIDE DEF st2, rq2, mask2
<1>4. QueuesOK(st2, pr, rq2, mask2, cnt - 1)
  BY <1>1, <1>2, <1>3, Zenon DEF QueuesOK, ReadyOf
<1> QED
  BY <1>4, Zenon DEF st2, rq2, mask2

(* requeue: a ready thread moves to the end of the queue of priority p.    *)
LEMMA QueuesRequeue ==
  ASSUME state \in StateType, priority \in [Threads -> Prios], rdyQueues \in QueueType,
         ReadyQueuesConsistent,
         NEW t \in Threads, state[t] = "READY", NEW p \in Prios,
         priority' = [priority EXCEPT ![t] = p], requeue(t, p), UNCHANGED state
  PROVE  ReadyQueuesConsistent' /\ rdyQueues' \in QueueType
<1> DEFINE old == priority[t]
           rest == Unlink(rdyQueues[old], t)
           st1 == [state EXCEPT ![t] = "BLOCKED"]
           rq1 == [rdyQueues EXCEPT ![old] = rest]
           mask1 == IF rest = <<>> THEN readyMask \ {old} ELSE readyMask
           l == Append(rq1[p], t)
<1>1. /\ rdyQueues[old] \in Seq(Threads) /\ Distinct(rdyQueues[old])
      /\ t \in Elems(rdyQueues[old]) /\ rdyCount \in Nat
  BY ReadyFinite, Zenon DEF ReadyQueuesConsistent, QueuesOK, QueueType, ReadyOf
<1>2. rest \in Seq(Threads) /\ Elems(rest) = Elems(rdyQueues[old]) \ {t} /\ Distinct(rest)
  BY <1>1, ElemsUnlink, Zenon
<1>3. st1 \in StateType /\ rq1 \in QueueType /\ "BLOCKED" \in States \ {"READY"}
  BY <1>2, Zenon DEF StateType, QueueType, States
<1>4. QueuesOK(st1, priority, rq1, mask1, rdyCount - 1)
  <2> HIDE DEF rest
  <2> QED
    BY <1>2, <1>3, QueuesRemove, Zenon DEF ReadyQueuesConsistent
<1>5. QueuesOK(st1, priority', rq1, mask1, rdyCount - 1)
  <2>1. \A u \in Threads : st1[u] = "READY" => priority'[u] = priority[u]
    BY Zenon DEF StateType
  <2> HIDE DEF st1, rq1, mask1
  <2> QED
    BY <1>4, <2>1, QueuesSame, Zenon
<1>6. l \in Seq(Threads) /\ Elems(l) = Elems(rq1[p]) \cup {t} /\ Distinct(l)
  <2>1. rq1[p] \in Seq(Threads)
    BY <1>3, Zenon DEF QueueType
  <2>2. Distinct(rq1[p]) /\ t \notin Elems(rq1[p])
    <3>1. st1[t] # "READY"
      BY Zenon DEF StateType
    <3> HIDE DEF rq1, st1, mask1
    <3> QED
      BY <1>5, <3>1, Zenon DEF QueuesOK
  <2> HIDE DEF rq1
  <2> QED
    BY <2>1, <2>2, ElemsAppend
<1>7. QueuesOK([st1 EXCEPT ![t] = "READY"], priority', [rq1 EXCEPT ![p] = l],
               mask1 \cup {p}, (rdyCount - 1) + 1)
  <2>1. priority' \in [Threads -> Prios] /\ priority'[t] = p /\ st1[t] # "READY"
    BY Zenon DEF StateType
  <2> HIDE DEF st1, rq1, mask1, l
  <2> QED
    BY <1>3, <1>5, <1>6, <2>1, QueuesInsert, Zenon
<1>8. /\ state' = [st1 EXCEPT ![t] = "READY"]
      /\ rdyQueues' = [rq1 EXCEPT ![p] = l]
      /\ readyMask' = mask1 \cup {p}
      /\ rdyCount' = (rdyCount - 1) + 1
  <2>1. state' = [st1 EXCEPT ![t] = "READY"]
    BY Zenon DEF StateType
  <2>2. rq1 = [rdyQueues EXCEPT ![old] = Unlink(@, t)] /\ rq1[old] = rest
    BY Zenon DEF QueueType
  <2>3. /\ rdyQueues' = [rq1 EXCEPT ![p] = Append(@, t)]
        /\ readyMask' = mask1 \cup {p} /\ rdyCount' = rdyCount
    BY <2>2, Zenon DEF requeue
  <2> HIDE DEF rest, rq1, l, st1, mask1
  <2> QED
    BY <1>1, <2>1, <2>3 DEF l
<1>9. [rq1 EXCEPT ![p] = l] \in QueueType
  BY <1>3, <1>6, Zenon DEF QueueType
<1> QED
  BY <1>7, <1>8, <1>9, Zenon DEF ReadyQueuesConsistent

(* A non-empty set of priorities has a highest one.                        *)
LEMMA HighestExists ==
  ASSUME NEW S \in SUBSET Prios, S # {}
  PROVE  Highest(S) \in S /\ \A q \in S : q <= Highest(S)
<1> DEFINE R == {ss \in Nat \X Nat : ss[1] < ss[2]}
           T == {MAX_PRIO - q : q \in S}
<1>1. IsWellFoundedOn(R, Nat)
  BY NatLessThanWellFounded, Zenon DEF OpToRel
<1>2. T \subseteq Nat /\ T # {}
  <2>1. \A q \in S : MAX_PRIO - q \in Nat
    BY SchedAssumption DEF Prios
  <2>2. PICK q \in S : TRUE
    BY Zenon
  <2>3. MAX_PRIO - q \in T
    BY Zenon
  <2> QED
    BY <2>1, <2>3, Zenon
<1>3. PICK x \in T : \A y \in T : ~(<<y, x>> \in R)
  <2> HIDE DEF R, T
  <2> QED
    BY <1>1, <1>2, WFMin, Zenon
<1>4. PICK p \in S : x = MAX_PRIO - p
  BY <1>3, Zenon
<1>5. ASSUME NEW q \in S PROVE q <= p
  <2>1. MAX_PRIO - q \in T /\ MAX_PRIO - q \in Nat /\ x \in Nat
    BY <1>2, Zenon
  <2>2. ~(MAX_PRIO - q < x)
    BY <1>3, <2>1, Zenon
  <2> QED
    BY <1>4, <2>2, SchedAssumption DEF Prios
<1> QED
  BY <1>4, <1>5, Zenon DEF Highest

(***************************************************************************)
(* The second half of perform.  If the old thread is in a queue, it is the *)
(* only one there when it is the first: perform has just appended it.  So  *)
(* the loop finds a thread whenever one is ready, it never runs out of     *)
(* queues with the old thread in its hands, and nobody else of a higher    *)
(* priority is passed over.                                                *)
(***************************************************************************)
(* perform always picks a ready thread of the highest priority, or the     *)
(* idle thread, and leaves the queues consistent.                          *)
LEMMA PickLemma ==
  ASSUME NEW c \in CPUs, NEW old, NEW st \in StateType, NEW rq \in QueueType,
         NEW mask, NEW cnt,
         priority \in [Threads -> Prios], QueuesOK(st, priority, rq, mask, cnt),
         \A p \in Prios : rq[p] # <<>> /\ rq[p][1] = old => Elems(rq[p]) = {old},
         pick(c, old, st, rq, mask, cnt)
  PROVE  \E t \in Threads \cup {c} :
           /\ Picked(c, old, st, t)
           /\ QueuesOK(state', priority, rdyQueues', readyMask', rdyCount')
           /\ rdyQueues' \in QueueType
<1> DEFINE el == Eligible(rq, cnt, old)
           p == Highest(el)
           h == rq[p][1]
           cut == [rq EXCEPT ![p] = Tail(@)]
<1>0. \A q \in Prios : /\ rq[q] \in Seq(Threads) /\ Distinct(rq[q])
                       /\ Elems(rq[q]) = {u \in Threads : st[u] = "READY" /\ priority[u] = q}
  BY Zenon DEF QueuesOK, QueueType
<1>1. \A u \in Threads : st[u] = "READY" =>
        /\ priority[u] \in Prios /\ rq[priority[u]] # <<>>
        /\ u # old => priority[u] \in el
  <2> SUFFICES ASSUME NEW u \in Threads, st[u] = "READY"
               PROVE  /\ priority[u] \in Prios /\ rq[priority[u]] # <<>>
                      /\ u # old => priority[u] \in el
    BY Zenon
  <2>1. priority[u] \in Prios /\ u \in Elems(rq[priority[u]])
    BY <1>0, Zenon
  <2>2. rq[priority[u]] # <<>>
    BY <1>0, <2>1, ElemsEmpty
  <2>3. u # old => ~PassedOver(rq, cnt, old, priority[u])
    BY <2>1 DEF PassedOver
  <2> QED
    BY <2>1, <2>2, <2>3, Zenon DEF Eligible
<1>2. CASE el # {}
  <2>1. p \in el /\ \A q \in el : q <= p
    BY <1>2, HighestExists, Zenon DEF Eligible
  <2>2. p \in Prios /\ rq[p] # <<>>
    BY <2>1, Zenon DEF Eligible
  <2>3. h \in Threads /\ st[h] = "READY" /\ priority[h] = p
    BY <1>0, <2>2, ElemsEmpty
  <2>4. /\ Tail(rq[p]) \in Seq(Threads) /\ Distinct(Tail(rq[p]))
        /\ Elems(Tail(rq[p])) = Elems(rq[p]) \ {h}
    BY <1>0, <2>2, ElemsTail, Zenon
  <2>5. h # c
    BY <2>3, SchedAssumption, Zenon
  <2>6. /\ state' = [st EXCEPT ![h] = "RUNNING"]
        /\ newState' = [newState EXCEPT ![h] = "READY"]
        /\ waitsFor' = [waitsFor EXCEPT ![h] = NoEvent]
        /\ running' = [running EXCEPT ![c] = h]
        /\ rdyQueues' = cut
        /\ readyMask' = IF cut[p] = <<>> THEN mask \ {p} ELSE mask
        /\ rdyCount' = cnt - 1
    BY <1>2, <2>5, Zenon DEF pick
  <2>7. cut[p] = Tail(rq[p]) /\ cut = [rq EXCEPT ![p] = Tail(rq[p])] /\ cut \in QueueType
    BY <2>2, <2>4, Zenon DEF QueueType
  <2>8. Picked(c, old, st, h)
    <3>1. \A u \in Threads : st[u] = "READY" /\ u # old => priority[u] <= priority[h]
      BY <1>1, <2>1, <2>3, Zenon
    <3> HIDE DEF h, p, el
    <3> QED
      BY <2>3, <2>5, <2>6, <3>1, Zenon DEF Picked
  <2>9. QueuesOK(state', priority, rdyQueues', readyMask', rdyCount')
    <3> DEFINE l == Tail(rq[p])
    <3>1. l \in Seq(Threads) /\ Distinct(l) /\ Elems(l) = Elems(rq[priority[h]]) \ {h}
      BY <2>3, <2>4, Zenon
    <3>2. "RUNNING" \in States \ {"READY"}
      BY Zenon DEF States
    <3>3. rdyQueues' = [rq EXCEPT ![priority[h]] = l]
      BY <2>3, <2>6, <2>7, Zenon
    <3>4. readyMask' = IF l = <<>> THEN mask \ {priority[h]} ELSE mask
      BY <2>3, <2>6, <2>7, Zenon
    <3> HIDE DEF l, h, p, el, cut
    <3>5. QueuesOK([st EXCEPT ![h] = "RUNNING"], priority, [rq EXCEPT ![priority[h]] = l],
                   IF l = <<>> THEN mask \ {priority[h]} ELSE mask, cnt - 1)
      BY <2>3, <3>1, <3>2, QueuesRemove, Zenon
    <3> QED
      BY <2>6, <3>3, <3>4, <3>5, Zenon
  <2> HIDE DEF h, p, el, cut
  <2> QED
    BY <2>3, <2>6, <2>7, <2>8, <2>9, Zenon
<1>3. CASE el = {}
  <2>1. ReadyOf(st) \subseteq {old}
    BY <1>1, <1>3, Zenon DEF ReadyOf
  <2>2. cnt \in Nat /\ cnt <= 1
    <3>1. IsFiniteSet({old}) /\ Cardinality({old}) = 1
      BY FS_Singleton, Zenon
    <3>2. Cardinality(ReadyOf(st)) <= 1
      BY <2>1, <3>1, FS_Subset
    <3> QED
      BY <3>2, ReadyFinite, Zenon DEF QueuesOK, ReadyOf
  <2>3. \A q \in Prios : ~PassedOver(rq, cnt, old, q)
    BY <2>2 DEF PassedOver
  <2>4. 0 \in Prios
    BY SchedAssumption DEF Prios
  <2>5. /\ state' = [st EXCEPT ![c] = "RUNNING"]
        /\ newState' = newState /\ waitsFor' = waitsFor
        /\ running' = [running EXCEPT ![c] = c]
        /\ rdyQueues' = rq /\ readyMask' = mask /\ rdyCount' = cnt
    BY <1>3, <2>3, <2>4, Zenon DEF pick
  <2>6. c \notin Threads
    BY SchedAssumption, Zenon
  <2>7. Picked(c, old, st, c)
    BY <2>5, <2>6, Zenon DEF Picked
  <2>8. QueuesOK(state', priority, rq, mask, cnt)
    <3>1. \A u \in Threads : state'[u] = st[u]
      BY <2>5, <2>6, Zenon DEF StateType
    <3> QED
      BY <3>1, QueuesSame, Zenon
  <2> QED
    BY <2>5, <2>7, <2>8, Zenon
<1> QED
  BY <1>2, <1>3, Zenon

-----------------------------------------------------------------------------
(* Sched::perform is a switch, and waking up preserves the invariant.      *)

(* initialSwitch and perform, unless there is a signal, are switches.      *)
LEMMA PerformSwitches ==
  ASSUME SchedInv, NEW c \in CPUs,
         initialSwitch(c) \/ performIdle(c) \/ performReady(c) \/ performBlocked(c)
  PROVE  \E st \in StateType, t \in Threads \cup {c} : Switched(c, st, t)
<1> DEFINE old == running[c]
<1>0. /\ state \in StateType /\ rdyQueues \in QueueType /\ priority \in [Threads -> Prios]
      /\ QueuesOK(state, priority, rdyQueues, readyMask, rdyCount)
  BY Zenon DEF SchedInv, TypeOK, StateType, QueueType, ReadyQueuesConsistent
<1>8. \A p \in Prios : /\ rdyQueues[p] \in Seq(Threads) /\ Distinct(rdyQueues[p])
                       /\ Elems(rdyQueues[p]) = {u \in Threads : state[u] = "READY" /\ priority[u] = p}
  BY <1>0, Zenon DEF QueueType, QueuesOK
<1>1. c \notin Threads /\ NoThread \notin Threads
  BY SchedAssumption, Zenon
<1>2. \A p \in Prios : rdyQueues[p] # <<>> =>
        rdyQueues[p][1] \in Threads /\ state[rdyQueues[p][1]] = "READY"
  BY <1>8, ElemsEmpty
<1>3. old \in Threads => state[old] = "RUNNING"
  BY Zenon DEF SchedInv, RunningOnce
<1>4. CASE initialSwitch(c)
  <2>1. PICK t \in Threads \cup {c} :
          /\ Picked(c, NoThread, state, t)
          /\ QueuesOK(state', priority, rdyQueues', readyMask', rdyCount')
          /\ rdyQueues' \in QueueType
    <3>1. \A p \in Prios : rdyQueues[p] # <<>> => rdyQueues[p][1] # NoThread
      BY <1>1, <1>2, Zenon
    <3> QED
      BY <1>0, <1>4, <3>1, PickLemma DEF initialSwitch
  <2>2. old = NoThread
    BY <1>4, Zenon DEF initialSwitch
  <2> QED
    BY <1>0, <1>1, <1>4, <2>1, <2>2, Zenon DEF initialSwitch, Switched
<1>5. CASE performIdle(c)
  <2> DEFINE st == [state EXCEPT ![c] = "BLOCKED"]
  <2>1. st \in StateType /\ \A u \in Threads : st[u] = state[u]
    BY <1>0, <1>1, Zenon DEF StateType, States
  <2>2. old = c /\ pick(c, c, st, rdyQueues, readyMask, rdyCount)
    BY <1>5, Zenon DEF performIdle
  <2> HIDE DEF st
  <2>3. QueuesOK(st, priority, rdyQueues, readyMask, rdyCount)
    BY <1>0, <2>1, QueuesSame, Zenon
  <2>4. PICK t \in Threads \cup {c} :
          /\ Picked(c, c, st, t)
          /\ QueuesOK(state', priority, rdyQueues', readyMask', rdyCount')
          /\ rdyQueues' \in QueueType
    <3>1. \A p \in Prios : rdyQueues[p] # <<>> => rdyQueues[p][1] # c
      BY <1>1, <1>2, Zenon
    <3> QED
      BY <1>0, <2>1, <2>2, <2>3, <3>1, PickLemma
  <2> QED
    BY <1>1, <1>5, <2>1, <2>2, <2>4, Zenon DEF performIdle, Switched
<1>6. CASE performReady(c)
  <2> DEFINE p == priority[old]
             l == Append(rdyQueues[p], old)
             st == [state EXCEPT ![old] = "READY"]
             rq == [rdyQueues EXCEPT ![p] = l]
  <2>1. /\ old \in Threads /\ maySwitch(old) /\ newState[old] = "READY"
        /\ pick(c, old, st, rq, readyMask \cup {p}, rdyCount + 1)
        /\ pc' = [pc EXCEPT ![old] = afterPC(old)]
    BY <1>6, Zenon DEF performReady
  <2>2. p \in Prios /\ old \notin Elems(rdyQueues[p]) /\ state[old] # "READY"
    BY <1>0, <1>3, <1>8, <2>1, Zenon
  <2>3. l \in Seq(Threads) /\ Elems(l) = Elems(rdyQueues[p]) \cup {old} /\ Distinct(l) /\ l # <<>>
    BY <1>8, <2>1, <2>2, ElemsAppend
  <2>4. st \in StateType /\ rq \in QueueType /\ \A u \in Threads \ {old} : st[u] = state[u]
    BY <1>0, <2>3, Zenon DEF StateType, States, QueueType
  <2>5. QueuesOK(st, priority, rq, readyMask \cup {p}, rdyCount + 1)
    <3> HIDE DEF l
    <3> QED
      BY <1>0, <2>1, <2>2, <2>3, QueuesInsert, Zenon
  <2>6. ASSUME NEW q \in Prios, rq[q] # <<>>, rq[q][1] = old PROVE Elems(rq[q]) = {old}
    <3>1. CASE q # p
      BY <1>0, <1>2, <2>1, <2>2, <2>6, <3>1, Zenon DEF QueueType
    <3>2. CASE q = p
      <4>1. rq[q] = l
        BY <1>0, <2>2, <3>2, Zenon DEF QueueType
      <4>2. CASE rdyQueues[p] = <<>>
        <5>1. Elems(rdyQueues[p]) = {}
          BY <1>8, <2>2, <4>2, ElemsEmpty, Zenon
        <5> QED
          BY <2>3, <4>1, <5>1, Zenon
      <4>3. CASE rdyQueues[p] # <<>>
        <5>1. l[1] = rdyQueues[p][1]
          BY <1>8, <2>1, <2>2, <4>3
        <5> QED
          BY <1>2, <2>2, <2>6, <4>1, <4>3, <5>1, Zenon
      <4> QED
        BY <4>2, <4>3, Zenon
    <3> QED
      BY <3>1, <3>2, Zenon
  <2>7. st[old] = newState[old]
    BY <1>0, <2>1, Zenon DEF StateType
  <2> HIDE DEF l, p, st, rq
  <2>8. PICK t \in Threads \cup {c} :
          /\ Picked(c, old, st, t)
          /\ QueuesOK(state', priority, rdyQueues', readyMask', rdyCount')
          /\ rdyQueues' \in QueueType
    <3>1. \A q \in Prios : rq[q] # <<>> /\ rq[q][1] = old => Elems(rq[q]) = {old}
      BY <2>6, Zenon
    <3> QED
      BY <1>0, <2>1, <2>4, <2>5, <3>1, PickLemma, Zenon
  <2> QED
    BY <1>6, <2>1, <2>4, <2>7, <2>8, Zenon DEF performReady, Switched
<1>7. CASE performBlocked(c)
  <2> DEFINE st == [state EXCEPT ![old] = newState[old]]
  <2>1. /\ old \in Threads /\ maySwitch(old) /\ goesToSleep(old)
        /\ pick(c, old, st, rdyQueues, readyMask, rdyCount)
        /\ pc' = [pc EXCEPT ![old] = afterPC(old)]
    BY <1>7, Zenon DEF performBlocked
  <2>2. newState[old] \in {"BLOCKED", "ZOMBIE"} /\ (newState[old] = "BLOCKED" => ~hasSignal(old))
    BY <2>1, Zenon DEF goesToSleep
  <2>3. /\ st \in StateType /\ st[old] = newState[old]
        /\ \A u \in Threads \ {old} : st[u] = state[u]
    BY <1>0, <2>1, <2>2, Zenon DEF StateType, States
  <2> HIDE DEF st
  <2>4. QueuesOK(st, priority, rdyQueues, readyMask, rdyCount)
    <3>1. \A u \in Threads : (state[u] = "READY") <=> (st[u] = "READY")
      BY <1>3, <2>1, <2>2, <2>3, Zenon
    <3> QED
      BY <1>0, <3>1, QueuesSame, Zenon
  <2>5. PICK t \in Threads \cup {c} :
          /\ Picked(c, old, st, t)
          /\ QueuesOK(state', priority, rdyQueues', readyMask', rdyCount')
          /\ rdyQueues' \in QueueType
    <3>1. \A p \in Prios : rdyQueues[p] # <<>> => rdyQueues[p][1] # old
      BY <1>2, <1>3, Zenon
    <3> QED
      BY <1>0, <2>1, <2>3, <2>4, <3>1, PickLemma, Zenon
  <2> QED
    BY <1>7, <2>1, <2>2, <2>3, <2>5, Zenon DEF performBlocked, Switched
<1> QED
  BY <1>4, <1>5, <1>6, <1>7, Zenon

(* What setReady and setReadyQuick change: they end the waiting of a       *)
(* running thread before it starts, and make a blocked thread ready.       *)
Woken(t) ==
  /\ \A u \in Threads \ {t} : state'[u] = state[u] /\ newState'[u] = newState[u] /\ event'[u] = event[u]
  /\ \/ /\ state[t] = "RUNNING" /\ state'[t] = "RUNNING"
        /\ newState'[t] = "READY" /\ event'[t] = NoEvent
     \/ /\ state[t] = "BLOCKED" /\ state'[t] = "READY"
        /\ newState'[t] = newState[t] /\ event'[t] = NoEvent
     \/ /\ state[t] \in {"READY", "ZOMBIE"} /\ state'[t] = state[t]
        /\ newState'[t] = newState[t] /\ event'[t] = event[t]

(* setReady and setReadyQuick keep the queues and the lists consistent.    *)
LEMMA SetReadyLemma ==
  ASSUME SchedInv, NEW t \in Threads, setReady(t) \/ setReadyQuick(t), UNCHANGED priority
  PROVE  /\ Woken(t)
         /\ state' \in StateType
         /\ newState' \in [Threads -> {"READY", "BLOCKED", "ZOMBIE"}]
         /\ event' \in [Threads -> WaitEvents \cup {NoEvent}]
         /\ evlists' \in [Events -> Seq(Threads)]
         /\ rdyQueues' \in QueueType
         /\ ReadyQueuesConsistent'
         /\ EvListsOK'
<1> DEFINE p == priority[t]
<1>1. /\ TypeOK /\ EvListsOK /\ ReadyQueuesConsistent
      /\ state \in StateType /\ rdyQueues \in QueueType /\ priority \in [Threads -> Prios]
      /\ QueuesOK(state, priority, rdyQueues, readyMask, rdyCount) /\ p \in Prios
      /\ rdyQueues[p] \in Seq(Threads) /\ Distinct(rdyQueues[p])
      /\ Elems(rdyQueues[p]) = {u \in Threads : state[u] = "READY" /\ priority[u] = p}
  BY Zenon DEF SchedInv, TypeOK, EvListsOK, EventListsConsistent, StateType, QueueType,
         ReadyQueuesConsistent, QueuesOK
<1>2. CASE keepRunning(t)
  <2>1. removeFromEventlist(t) /\ state[t] = "RUNNING" /\ UNCHANGED <<state, queueVars>>
        /\ newState' = [newState EXCEPT ![t] = "READY"]
    BY <1>2, Zenon DEF keepRunning
  <2>2. /\ event' = [event EXCEPT ![t] = NoEvent]
        /\ event' \in [Threads -> WaitEvents \cup {NoEvent}]
        /\ evlists' \in [Events -> Seq(Threads)] /\ EvListsOK'
    BY <1>1, <2>1, RemoveInv, Zenon
  <2>3. Woken(t) /\ newState' \in [Threads -> {"READY", "BLOCKED", "ZOMBIE"}]
    BY <1>1, <2>1, <2>2, Zenon DEF Woken, TypeOK
  <2>4. ReadyQueuesConsistent' /\ state' \in StateType /\ rdyQueues' \in QueueType
    BY <1>1, <2>1, Zenon DEF ReadyQueuesConsistent, queueVars
  <2> QED
    BY <2>2, <2>3, <2>4, Zenon
<1>3. CASE UNCHANGED <<state, newState, event, queueVars, evlists>> /\ state[t] \in {"READY", "ZOMBIE"}
  BY <1>1, <1>3, Zenon DEF Woken, TypeOK, ReadyQueuesConsistent, EvListsOK, queueVars
<1>4. CASE /\ state[t] = "BLOCKED" /\ removeFromEventlist(t)
           /\ state' = [state EXCEPT ![t] = "READY"] /\ UNCHANGED newState
           /\ enqueue(t) \/ enqueueQuick(t)
  <2>1. PICK l \in Seq(Threads) :
          /\ Elems(l) = Elems(rdyQueues[p]) \cup {t} /\ Distinct(l)
          /\ rdyQueues' = [rdyQueues EXCEPT ![p] = l]
          /\ readyMask' = readyMask \cup {p} /\ rdyCount' = rdyCount + 1
    <3>1. t \notin Elems(rdyQueues[p])
      BY <1>1, <1>4, Zenon
    <3>2. CASE enqueue(t)
      <4> DEFINE l == Append(rdyQueues[p], t)
      <4>1. l \in Seq(Threads) /\ Elems(l) = Elems(rdyQueues[p]) \cup {t} /\ Distinct(l)
        BY <1>1, <3>1, ElemsAppend
      <4> QED
        BY <3>2, <4>1, Zenon DEF enqueue
    <3>3. CASE enqueueQuick(t)
      <4>1. <<t>> \o rdyQueues[p] \in Seq(Threads)
        BY <1>1
      <4>2. Elems(<<t>> \o rdyQueues[p]) = Elems(rdyQueues[p]) \cup {t} /\ Distinct(<<t>> \o rdyQueues[p])
        BY <1>1, <3>1, ElemsPrepend
      <4> QED
        BY <3>3, <4>1, <4>2, Zenon DEF enqueueQuick
    <3> QED
      BY <1>4, <3>2, <3>3, Zenon
  <2>2. QueuesOK([state EXCEPT ![t] = "READY"], priority, [rdyQueues EXCEPT ![p] = l],
                 readyMask \cup {p}, rdyCount + 1)
    BY <1>1, <1>4, <2>1, QueuesInsert, Zenon
  <2>3. ReadyQueuesConsistent' /\ rdyQueues' \in QueueType /\ state' \in StateType
    BY <1>1, <1>4, <2>1, <2>2, Zenon DEF ReadyQueuesConsistent, QueueType, StateType, States
  <2>4. /\ event' = [event EXCEPT ![t] = NoEvent]
        /\ event' \in [Threads -> WaitEvents \cup {NoEvent}]
        /\ evlists' \in [Events -> Seq(Threads)] /\ EvListsOK'
    BY <1>1, <1>4, RemoveInv, Zenon
  <2>5. Woken(t)
    BY <1>1, <1>4, <2>4, Zenon DEF Woken, TypeOK
  <2> QED
    BY <1>1, <1>4, <2>3, <2>4, <2>5, Zenon DEF TypeOK
<1>5. CASE /\ state[t] = "READY" /\ rdyQueues' = [rdyQueues EXCEPT ![p] = <<t>> \o Unlink(@, t)]
           /\ UNCHANGED <<state, newState, event, readyMask, rdyCount, evlists>>
  <2> DEFINE r == Unlink(rdyQueues[p], t)
             l == <<t>> \o r
  <2>1. r \in Seq(Threads) /\ Elems(r) = Elems(rdyQueues[p]) \ {t} /\ Distinct(r)
        /\ t \in Elems(rdyQueues[p])
    BY <1>1, <1>5, ElemsUnlink, Zenon
  <2> HIDE DEF r
  <2>2. l \in Seq(Threads) /\ Elems(l) = Elems(rdyQueues[p]) /\ Distinct(l) /\ l # <<>>
    <3>1. t \notin Elems(r)
      BY <2>1, Zenon
    <3>2. l \in Seq(Threads) /\ Elems(l) = Elems(r) \cup {t} /\ Distinct(l) /\ l # <<>>
      BY <2>1, <3>1, ElemsPrepend
    <3> QED
      BY <2>1, <3>2, Zenon
  <2>3. rdyQueues[p] # <<>>
    BY <1>1, <2>1, ElemsEmpty
  <2>4. rdyQueues' = [rdyQueues EXCEPT ![p] = l]
    BY <1>5, Zenon DEF r
  <2> HIDE DEF l
  <2>5. rdyQueues' \in QueueType /\ \A q \in Prios : rdyQueues'[q] = IF q = p THEN l ELSE rdyQueues[q]
    BY <1>1, <2>2, <2>4, Zenon DEF QueueType
  <2>6. ReadyQueuesConsistent'
    <3>1. \A q \in Prios : /\ Distinct(rdyQueues'[q]) /\ Elems(rdyQueues'[q]) = Elems(rdyQueues[q])
                          /\ (rdyQueues'[q] # <<>>) <=> (rdyQueues[q] # <<>>)
      BY <1>1, <2>2, <2>3, <2>5, Zenon DEF QueuesOK
    <3>2. {q \in Prios : rdyQueues'[q] # <<>>} = {q \in Prios : rdyQueues[q] # <<>>}
      BY <2>2, <2>3, <2>5, Zenon
    <3>3. QueuesOK(state, priority, rdyQueues', readyMask, rdyCount)
      BY <1>1, <3>1, <3>2, Zenon DEF QueuesOK
    <3> QED
      BY <1>5, <3>3, Zenon DEF ReadyQueuesConsistent
  <2> QED
    BY <1>1, <1>5, <2>5, <2>6, Zenon DEF Woken, TypeOK, EvListsOK
<1> QED
  BY <1>2, <1>3, <1>4, <1>5, Zenon DEF setReady, setReadyQuick

(* unblock, unblockQuick, an iteration of wakeup and the last step of      *)
(* addSignalFor preserve the invariant.                                    *)
LEMMA WakeInv ==
  ASSUME SchedInv, NEW t \in Threads, setReady(t) \/ setReadyQuick(t),
         UNCHANGED <<priority, prioGoodCnt, sigmask, running, waitsFor>>, lock' \in Locks,
         \/ UNCHANGED <<pc, target>>
         \/ \E s \in Threads : /\ state[s] = "RUNNING" /\ pc[s] = "kick" /\ target[s] = t
                               /\ pc' = [pc EXCEPT ![s] = "run"]
                               /\ target' = [target EXCEPT ![s] = NoThread]
  PROVE  SchedInv'
<1>1. /\ Woken(t) /\ state' \in StateType
      /\ newState' \in [Threads -> {"READY", "BLOCKED", "ZOMBIE"}]
      /\ event' \in [Threads -> WaitEvents \cup {NoEvent}]
      /\ evlists' \in [Events -> Seq(Threads)] /\ rdyQueues' \in QueueType
      /\ ReadyQueuesConsistent' /\ EvListsOK'
  BY SetReadyLemma, Zenon
<1>2. readyMask' \in SUBSET Prios /\ rdyCount' \in Nat
  BY <1>1, QueuesType, Zenon DEF ReadyQueuesConsistent
<1>3. pc' \in [Threads -> PCs] /\ target' \in [Threads -> Threads \cup {NoThread}]
  BY Zenon DEF SchedInv, TypeOK, PCs
<1>4. TypeOK'
  BY <1>1, <1>2, <1>3, Zenon DEF SchedInv, TypeOK, StateType, QueueType
<1>5. \A u \in Threads :
        \/ pc'[u] = pc[u] /\ target'[u] = target[u]
        \/ state[u] = "RUNNING" /\ pc[u] = "kick" /\ target[u] = t /\ pc'[u] = "run"
  BY Zenon DEF SchedInv, TypeOK
<1>6. \A u \in Threads : (state'[u] = "RUNNING") <=> (state[u] = "RUNNING")
  BY <1>1, Zenon DEF Woken
<1>7. EventListsConsistent'
  <2>1. \A u \in Threads : event[u] # NoEvent =>
          state[u] = "BLOCKED" \/ (state[u] = "RUNNING" /\ newState[u] = "BLOCKED")
    BY Zenon DEF SchedInv, EventListsConsistent
  <2>2. \A u \in Threads : event'[u] # NoEvent =>
          state'[u] = "BLOCKED" \/ (state'[u] = "RUNNING" /\ newState'[u] = "BLOCKED")
    BY <1>1, <2>1 DEF Woken
  <2> QED
    BY <1>1, <2>2, Zenon DEF EventListsConsistent, EvListsOK
<1>8. RunningOnce'
  BY <1>6 DEF SchedInv, RunningOnce
<1>9. PendingBlock'
  BY <1>1, <1>5, <1>6 DEF SchedInv, PendingBlock, Woken
<1>10. NoLostWakeup'
  BY <1>1 DEF SchedInv, NoLostWakeup, Woken
<1>11. NoMissedSignal'
  <2> SUFFICES ASSUME NEW u \in Threads, state'[u] = "BLOCKED", hasSignal(u)'
               PROVE  \E s \in Threads : /\ state'[s] = "RUNNING" /\ pc'[s] \in {"check", "kick"}
                                         /\ target'[s] = u
    BY Zenon DEF NoMissedSignal
  <2>1. u # t /\ state[u] = "BLOCKED"
    BY <1>1, Zenon DEF Woken
  <2>2. hasSignal(u)
    BY <1>5, <2>1, Zenon DEF hasSignal, isIgnoringSigs
  <2>3. PICK s \in Threads : state[s] = "RUNNING" /\ pc[s] \in {"check", "kick"} /\ target[s] = u
    BY <2>1, <2>2, Zenon DEF SchedInv, NoMissedSignal
  <2> QED
    BY <1>5, <1>6, <2>1, <2>3, Zenon
<1> QED
  BY <1>1, <1>4, <1>7, <1>8, <1>9, <1>10, <1>11, Zenon DEF SchedInv

-----------------------------------------------------------------------------
(* The invariant and the theorems.                                         *)

(* Sched::adjustPrio preserves the invariant.                              *)
LEMMA AdjustPrioInv ==
  ASSUME SchedInv, NEW t \in Threads, NEW blocked, adjustPrio(t, blocked)
  PROVE  SchedInv'
<1>1. UNCHANGED <<state, newState, event, sigmask, pc, target, evlists, running, lock, waitsFor>>
  BY Zenon DEF adjustPrio
<1>2. /\ priority \in [Threads -> Prios] /\ prioGoodCnt \in [Threads -> 0 .. PRIO_FORGIVE_CNT - 1]
      /\ state \in StateType /\ rdyQueues \in QueueType /\ ReadyQueuesConsistent
      /\ readyMask \in SUBSET Prios /\ rdyCount \in Nat
  BY Zenon DEF SchedInv, TypeOK, StateType, QueueType
<1>3. /\ priority' \in [Threads -> Prios] /\ prioGoodCnt' \in [Threads -> 0 .. PRIO_FORGIVE_CNT - 1]
      /\ rdyQueues' \in QueueType /\ ReadyQueuesConsistent'
  <2>1. CASE UNCHANGED <<priority, queueVars>> /\ prioGoodCnt' = [prioGoodCnt EXCEPT ![t] = 0]
    <3>1. 0 \in 0 .. PRIO_FORGIVE_CNT - 1
      BY SchedAssumption
    <3> QED
      BY <1>1, <1>2, <2>1, <3>1, Zenon DEF ReadyQueuesConsistent, queueVars
  <2>2. CASE /\ UNCHANGED <<priority, queueVars>> /\ prioGoodCnt[t] + 1 # PRIO_FORGIVE_CNT
             /\ prioGoodCnt' = [prioGoodCnt EXCEPT ![t] = @ + 1]
    <3>1. prioGoodCnt[t] + 1 \in 0 .. PRIO_FORGIVE_CNT - 1
      BY <1>2, <2>2, SchedAssumption
    <3> QED
      BY <1>1, <1>2, <2>2, <3>1, Zenon DEF ReadyQueuesConsistent, queueVars
  <2>3. ASSUME NEW p \in Prios, setPriority(t, p)
        PROVE  /\ priority' \in [Threads -> Prios]
               /\ prioGoodCnt' \in [Threads -> 0 .. PRIO_FORGIVE_CNT - 1]
               /\ rdyQueues' \in QueueType /\ ReadyQueuesConsistent'
    <3>1. /\ priority' = [priority EXCEPT ![t] = p] /\ prioGoodCnt' = [prioGoodCnt EXCEPT ![t] = 0]
          /\ priority' \in [Threads -> Prios]
      BY <1>2, <2>3, Zenon DEF setPriority
    <3>2. prioGoodCnt' \in [Threads -> 0 .. PRIO_FORGIVE_CNT - 1]
      BY <1>2, <3>1, SchedAssumption
    <3>3. CASE state[t] = "READY"
      <4>1. requeue(t, p)
        BY <2>3, <3>3, Zenon DEF setPriority
      <4> QED
        BY <1>1, <1>2, <3>1, <3>2, <3>3, <4>1, QueuesRequeue, Zenon
    <3>4. CASE state[t] # "READY"
      <4>1. UNCHANGED queueVars
        BY <2>3, <3>4, Zenon DEF setPriority
      <4>2. \A u \in Threads : state[u] = "READY" => priority'[u] = priority[u]
        BY <1>2, <3>1, <3>4, Zenon
      <4>3. QueuesOK(state, priority', rdyQueues, readyMask, rdyCount)
        BY <1>2, <4>2, QueuesSame, Zenon DEF ReadyQueuesConsistent
      <4> QED
        BY <1>1, <1>2, <3>1, <3>2, <4>1, <4>3, Zenon DEF ReadyQueuesConsistent, queueVars
    <3> QED
      BY <3>3, <3>4, Zenon
  <2>4. CASE lowerPrio(t)
    <3>1. priority[t] > 0 => priority[t] - 1 \in Prios
      BY <1>2, SchedAssumption DEF Prios
    <3> QED
      BY <2>1, <2>3, <2>4, <3>1, Zenon DEF lowerPrio
  <2>5. CASE raisePrio(t)
    <3>1. priority[t] < MAX_PRIO => priority[t] + 1 \in Prios
      BY <1>2, SchedAssumption DEF Prios
    <3> QED
      BY <2>2, <2>3, <2>5, <3>1, Zenon DEF raisePrio
  <2> QED
    BY <2>4, <2>5, Zenon DEF adjustPrio
<1>4. readyMask' \in SUBSET Prios /\ rdyCount' \in Nat
  BY <1>3, QueuesType, Zenon DEF ReadyQueuesConsistent
<1>5. TypeOK'
  BY <1>1, <1>3, <1>4, Zenon DEF SchedInv, TypeOK, QueueType
<1> QED
  BY <1>1, <1>3, <1>5 DEF SchedInv, EventListsConsistent, RunningOnce, PendingBlock,
                          NoLostWakeup, NoMissedSignal, hasSignal, isIgnoringSigs

(* The initial state satisfies the invariant.                              *)
LEMMA InitInv == Init => SchedInv
<1> SUFFICES ASSUME Init PROVE SchedInv
  BY Zenon
<1> USE SchedAssumption DEF Init
<1>1. TypeOK
  <2>1. MAX_PRIO \in Prios /\ 0 \in 0 .. PRIO_FORGIVE_CNT - 1 /\ 0 \in Nat
    BY DEF Prios
  <2>2. Free \in Locks
    BY DEF Locks
  <2>3. /\ state \in [Threads \cup CPUs -> States]
        /\ newState \in [Threads -> {"READY", "BLOCKED", "ZOMBIE"}]
        /\ pc \in [Threads -> PCs]
    BY Zenon DEF States, PCs
  <2>4. /\ rdyQueues \in [Prios -> Seq(Threads)] /\ evlists \in [Events -> Seq(Threads)]
        /\ running \in [CPUs -> Threads \cup CPUs \cup {NoThread}]
    OBVIOUS
  <2> QED
    BY <2>1, <2>2, <2>3, <2>4, Zenon DEF TypeOK
<1>2. \A q : q = <<>> => Distinct(q) /\ Elems(q) = {}
  BY DEF Distinct, Elems
<1>3. ReadyQueuesConsistent
  <2>1. \A t \in Threads : state[t] # "READY"
    BY Zenon
  <2>2. {t \in Threads : state[t] = "READY"} = {}
    BY <2>1, Zenon
  <2>3. Cardinality({t \in Threads : state[t] = "READY"}) = 0
    BY <2>2, FS_EmptySet, Zenon
  <2>4. \A p \in Prios : Distinct(rdyQueues[p])
                        /\ Elems(rdyQueues[p]) = {t \in Threads : state[t] = "READY" /\ priority[t] = p}
    BY <1>2, <2>1, Zenon
  <2>5. readyMask = {p \in Prios : rdyQueues[p] # <<>>}
    BY Zenon
  <2> QED
    BY <2>3, <2>4, <2>5, Zenon DEF ReadyQueuesConsistent, QueuesOK
<1>4. EventListsConsistent
  <2>1. \A e \in Events : Elems(evlists[e]) = {t \in Threads : event[t] # NoEvent /\ event[t][1] = e}
    BY <1>2, Zenon
  <2> QED
    BY <1>2, <2>1, Zenon DEF EventListsConsistent
<1>5. RunningOnce
  BY Zenon DEF RunningOnce
<1>6. PendingBlock /\ NoLostWakeup
  BY Zenon DEF PendingBlock, NoLostWakeup
<1>7. NoMissedSignal
  BY Zenon DEF NoMissedSignal, hasSignal
<1> QED
  BY <1>1, <1>3, <1>4, <1>5, <1>6, <1>7, Zenon DEF SchedInv

(* Every step preserves the invariant.                                     *)
LEMMA StepInv == SchedInv /\ [Next]_vars => SchedInv'
<1> SUFFICES ASSUME SchedInv, [Next]_vars PROVE SchedInv'
  BY Zenon
<1>1. ASSUME NEW c \in CPUs, CPUStep(c) PROVE SchedInv'
  <2>1. CASE initialSwitch(c) \/ perform(c)
    <3>1. CASE performSignal(c)
      BY <3>1, PerformSignalInv, Zenon
    <3>2. CASE initialSwitch(c) \/ performIdle(c) \/ performReady(c) \/ performBlocked(c)
      <4>1. PICK st \in StateType, t \in Threads \cup {c} : Switched(c, st, t)
        BY <3>2, PerformSwitches, Zenon
      <4>2. readyMask' \in SUBSET Prios /\ rdyCount' \in Nat
        BY <4>1, QueuesType, Zenon DEF Switched
      <4> QED
        BY <4>1, <4>2, SwitchInv, Zenon
    <3> QED
      BY <2>1, <3>1, <3>2, Zenon DEF perform
  <2>2. ASSUME NEW u \in Threads, unblock(c, u) \/ unblockQuick(c, u) PROVE SchedInv'
    <3>1. lock' \in Locks
      BY <2>2, Zenon DEF unblock, unblockQuick, SchedInv, TypeOK
    <3> QED
      BY <2>2, <3>1, WakeInv, Zenon DEF unblock, unblockQuick
  <2>3. ASSUME NEW e \in Events, NEW o \in Objects, NEW all \in BOOLEAN, wakeup(c, e, o, all)
        PROVE  SchedInv'
    <3>1. lock' \in Locks
      BY <2>3 DEF wakeup, Locks
    <3> QED
      BY <2>3, <3>1, LockStepInv, Zenon DEF wakeup
  <2> QED
    BY <1>1, <2>1, <2>2, <2>3, Zenon DEF CPUStep
<1>2. ASSUME NEW c \in CPUs, NEW t \in Threads, ThreadStep(c, t) PROVE SchedInv'
  BY <1>2, ThreadStepInv, WaitInv, CreateInv, Zenon DEF ThreadStep
<1>3. ASSUME NEW t \in Threads, OtherStep(t) PROVE SchedInv'
  <2>1. CASE unblockTarget(t)
    <3>1. target[t] \in Threads
      BY <2>1, Zenon DEF unblockTarget, SchedInv, PendingBlock
    <3>2. lock' \in Locks
      BY <2>1, Zenon DEF unblockTarget, SchedInv, TypeOK
    <3> QED
      BY <2>1, <3>1, <3>2, WakeInv, Zenon DEF unblockTarget
  <2> QED
    BY <1>3, <2>1, ThreadStepInv, KillInv, AdjustPrioInv, Zenon DEF OtherStep
<1>4. CASE wakeupNext
  <2>0. lock # Free /\ lock.ev \in Events
    <3>1. lock \in Locks /\ lock # Free
      BY <1>4, Zenon DEF wakeupNext, SchedInv, TypeOK
    <3> QED
      BY <3>1 DEF Locks, Lock
  <2>1. PICK i \in 1 .. Len(evlists[lock.ev]) : setReady(evlists[lock.ev][i])
    BY <1>4, Zenon DEF wakeupNext
  <2>2. evlists[lock.ev][i] \in Threads
    BY <2>0, <2>1 DEF SchedInv, TypeOK
  <2>3. lock' \in Locks
    BY <1>4 DEF wakeupNext, SchedInv, TypeOK, Locks
  <2> QED
    BY <1>4, <2>1, <2>2, <2>3, WakeInv, Zenon DEF wakeupNext
<1>5. CASE wakeupDone
  <2>1. lock' \in Locks
    BY <1>5 DEF wakeupDone, Locks
  <2> QED
    BY <1>5, <2>1, LockStepInv, Zenon DEF wakeupDone
<1>6. CASE UNCHANGED vars
  <2>1. lock' \in Locks
    BY <1>6, Zenon DEF vars, SchedInv, TypeOK
  <2> QED
    BY <1>6, <2>1, LockStepInv, Zenon DEF vars
<1> QED
  BY <1>1, <1>2, <1>3, <1>4, <1>5, <1>6, Zenon DEF Next

(***************************************************************************)
(* The theorems.                                                           *)
(***************************************************************************)
(* The invariant holds in every reachable state.                           *)
THEOREM Invariance == Spec => []SchedInv
BY InitInv, StepInv, PTL DEF Spec

(* Every variable of the scheduler always has its type; in particular no   *)
(* priority leaves 0 .. MAX_PRIO, which adjustPrio uses as array index.    *)
THEOREM TypeCorrect == Spec => []TypeOK
<1>1. SchedInv => TypeOK
  BY Zenon DEF SchedInv
<1> QED
  BY <1>1, Invariance, PTL

(* The ready queues, readyMask, rdyCount and the states of the threads     *)
(* always agree.                                                           *)
THEOREM QueuesCorrect == Spec => []ReadyQueuesConsistent
<1>1. SchedInv => ReadyQueuesConsistent
  BY Zenon DEF SchedInv
<1> QED
  BY <1>1, Invariance, PTL

(* A thread is in the list of the event it waits for and never in an event *)
(* list and a ready queue at the same time, although both use the same     *)
(* links.                                                                  *)
THEOREM EventListsCorrect == Spec => []EventListsConsistent
<1>1. SchedInv => EventListsConsistent
  BY Zenon DEF SchedInv
<1> QED
  BY <1>1, Invariance, PTL

(* No thread is ever executed by two CPUs, nor is one that is not running. *)
THEOREM MutualExclusion == Spec => []RunningOnce
<1>1. SchedInv => RunningOnce
  BY Zenon DEF SchedInv
<1> QED
  BY <1>1, Invariance, PTL

(* A thread that sleeps in wait() is still registered for its event: no    *)
(* wakeup between wait() and the switch gets lost.                         *)
THEOREM WakeupsNotLost == Spec => []NoLostWakeup
<1>1. SchedInv => NoLostWakeup
  BY Zenon DEF SchedInv
<1> QED
  BY <1>1, Invariance, PTL

(* A running thread is about to block only between wait() or block() and   *)
(* its switch, and no reused thread slot carries a signal or an event.     *)
THEOREM BlockOnlyBeforeSwitch == Spec => []PendingBlock
<1>1. SchedInv => PendingBlock
  BY Zenon DEF SchedInv
<1> QED
  BY <1>1, Invariance, PTL

(* A thread never sleeps with a signal pending that it does not ignore,    *)
(* unless the sender is still about to unblock it.                         *)
THEOREM SignalsNotMissed == Spec => []NoMissedSignal
<1>1. SchedInv => NoMissedSignal
  BY Zenon DEF SchedInv
<1> QED
  BY <1>1, Invariance, PTL

(* perform never passes over a ready thread of a higher priority than the  *)
(* one it switches to, other than the thread it switches away from.        *)
THEOREM HighestFirst == Spec => HighestPriorityRuns
<1> DEFINE A == \A c \in CPUs, t, u \in Threads :
                  running'[c] = t /\ running[c] # t /\ state'[u] = "READY" /\ u # running[c]
                    => priority[u] <= priority[t]
<1>1. SchedInv /\ [Next]_vars => [A]_vars
  <2> SUFFICES ASSUME SchedInv, Next, NEW c \in CPUs, NEW t \in Threads, NEW u \in Threads,
                      running'[c] = t, running[c] # t, state'[u] = "READY", u # running[c]
               PROVE  priority[u] <= priority[t]
    BY Zenon
  <2>1. PICK d \in CPUs : initialSwitch(d) \/ performIdle(d) \/ performReady(d) \/ performBlocked(d)
    <3>1. ~UNCHANGED running
      BY Zenon
    <3>2. ASSUME NEW e \in CPUs, CPUStep(e)
          PROVE  initialSwitch(e) \/ performIdle(e) \/ performReady(e) \/ performBlocked(e)
      BY <3>1, <3>2, Zenon DEF CPUStep, perform, performSignal, unblock, unblockQuick, wakeup
    <3>3. ASSUME NEW e \in CPUs, NEW s \in Threads PROVE ~ThreadStep(e, s)
      BY <3>1, Zenon DEF ThreadStep, block, wait, addSignalFor, create, handleSignal, removeThread
    <3>4. ASSUME NEW s \in Threads PROVE ~OtherStep(s)
      BY <3>1, Zenon
        DEF OtherStep, setIgnSigs, clearIgnSigs, checkIgnSigs, unblockTarget, kill, adjustPrio
    <3>5. ~wakeupNext /\ ~wakeupDone
      BY <3>1, Zenon DEF wakeupNext, wakeupDone
    <3> QED
      BY <3>2, <3>3, <3>4, <3>5, Zenon DEF Next
  <2>2. PICK st \in StateType, x \in Threads \cup {d} : Switched(d, st, x)
    BY <2>1, PerformSwitches, Zenon
  <2>3. running' = [running EXCEPT ![d] = x] /\ state' = [st EXCEPT ![x] = "RUNNING"]
    BY <2>2, Zenon DEF Switched, Picked
  <2>4. d = c /\ x = t
    BY <2>3, Zenon DEF SchedInv, TypeOK
  <2>5. u # t /\ st[u] = "READY"
    BY <2>3, <2>4, Zenon DEF StateType
  <2> QED
    BY <2>2, <2>4, <2>5, Zenon DEF Switched, Picked
<1> QED
  BY <1>1, Invariance, PTL DEF Spec, HighestPriorityRuns
=============================================================================
