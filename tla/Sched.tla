------------------------------- MODULE Sched -------------------------------
(***************************************************************************)
(* The thread scheduler of the Escape kernel: kernel/src/task/sched.cc,    *)
(* together with the steps of its callers that race with it (switchNoSigs  *)
(* and hasSignal in include/task/thread.h, Signals::addSignalFor, thread   *)
(* creation, termination and destruction in src/task/thread.cc).           *)
(*                                                                         *)
(* Every function of class Sched runs under the spinlock Sched::lock, so   *)
(* each is one action.  The only exception is Sched::wakeup, whose loop is *)
(* one action per woken thread with the lock held in between: steps of     *)
(* other CPUs that do not take the lock (setting a signal mask, reading or *)
(* writing T_IGNSIGS) may fall between two iterations.                     *)
(*                                                                         *)
(* Time (waitstart, stats, cycles) is abstracted: adjustPrio gets the      *)
(* verdict on a thread's blocked time as an input.                         *)
(***************************************************************************)
EXTENDS Integers, Sequences, FiniteSets

CONSTANTS
  Threads,          \* the threads that are not idle threads
  CPUs,             \* the CPUs; c also names the idle thread of CPU c
  Events,           \* EV_CLIENT .. EV_CHILD_DIED
  Objects,          \* values of evobj_t
  AnyObject,        \* the object 0
  MAX_PRIO,
  PRIO_FORGIVE_CNT,
  InitThread,       \* the thread that boots the system ...
  BootCPU,          \* ... and the CPU it boots on
  NoThread, NoCPU, NoEvent

Prios == 0 .. MAX_PRIO

WaitEvents == Events \X Objects

ASSUME SchedAssumption ==
  /\ IsFiniteSet(Threads) /\ InitThread \in Threads /\ NoThread \notin Threads \cup CPUs
  /\ BootCPU \in CPUs /\ NoCPU \notin CPUs /\ Threads \cap CPUs = {}
  /\ AnyObject \in Objects /\ NoEvent \notin WaitEvents
  /\ MAX_PRIO \in Nat /\ PRIO_FORGIVE_CNT \in Nat \ {0}

VARIABLES
  state,        \* Thread::state, of idle threads too
  newState,     \* Thread::newState: the state it gets when it is switched away
  event,        \* Thread::event and ::evobject as a pair, NoEvent if event is 0
  priority,     \* Thread::priority
  prioGoodCnt,  \* Thread::prioGoodCnt
  sigmask,      \* Thread::sigmask # 0
  pc,           \* what a thread does in the kernel at the moment
  target,       \* the thread it sends a signal to, while pc is check or kick
  rdyQueues,    \* Sched::rdyQueues: a FIFO queue per priority
  readyMask,    \* Sched::readyMask: the set of priorities whose bit is set
  rdyCount,     \* Sched::rdyCount
  evlists,      \* Sched::evlists: the waiting threads of each event, in order
  running,      \* the thread each CPU executes; NoThread before initialSwitch
  lock,         \* Sched::lock while a CPU is in the loop of Sched::wakeup
  waitsFor      \* history: what the last wait() of a thread asked for

threadVars == <<state, newState, event, priority, prioGoodCnt, sigmask, pc, target>>
queueVars == <<rdyQueues, readyMask, rdyCount>>
vars == <<threadVars, queueVars, evlists, running, lock, waitsFor>>

States == {"RUNNING", "READY", "BLOCKED", "ZOMBIE", "UNUSED"}

(* Where a thread is between two actions of its own:                       *)
(*   run     free to do anything                                           *)
(*   switch  has called wait() or block(), will call switchAway()          *)
(*   nosigs  has called wait() or block(), will call switchNoSigs()        *)
(*   ignsigs in switchNoSigs(), T_IGNSIGS is set                           *)
(*   resume  back from the switch in switchNoSigs(), T_IGNSIGS still set   *)
(*   check   in addSignalFor, between setting the mask and the test        *)
(*   kick    in addSignalFor, about to unblock the target                  *)
(*   exit    has called removeThread(), will call switchAway()             *)
(*   gone    that switchAway() was called: the code must not be left again *)
PCs == {"run", "switch", "nosigs", "ignsigs", "resume", "check", "kick", "exit", "gone"}

Free == [holder |-> NoCPU]

Lock(c, e, o, all) == [holder |-> c, ev |-> e, obj |-> o, all |-> all]

Locks == {Free} \cup {Lock(c, e, o, all) : c \in CPUs, e \in Events, o \in Objects, all \in BOOLEAN}

(* The types.  A priority is always an index of Sched::rdyQueues, whatever *)
(* adjustPrio does, and a thread always has a state to go to in perform.   *)
TypeOK ==
  /\ state \in [Threads \cup CPUs -> States]
  /\ newState \in [Threads -> {"READY", "BLOCKED", "ZOMBIE"}]
  /\ event \in [Threads -> WaitEvents \cup {NoEvent}]
  /\ priority \in [Threads -> Prios]
  /\ prioGoodCnt \in [Threads -> 0 .. PRIO_FORGIVE_CNT - 1]
  /\ sigmask \in [Threads -> BOOLEAN]
  /\ pc \in [Threads -> PCs]
  /\ target \in [Threads -> Threads \cup {NoThread}]
  /\ rdyQueues \in [Prios -> Seq(Threads)]
  /\ readyMask \in SUBSET Prios
  /\ rdyCount \in Nat
  /\ evlists \in [Events -> Seq(Threads)]
  /\ running \in [CPUs -> Threads \cup CPUs \cup {NoThread}]
  /\ lock \in Locks
  /\ waitsFor \in [Threads -> WaitEvents \cup {NoEvent}]

(***************************************************************************)
(* The intrusive lists.  Unlink is DList::remove of an item of the list.   *)
(***************************************************************************)
Elems(q) == {q[i] : i \in 1 .. Len(q)}

Distinct(q) == \A i, j \in 1 .. Len(q) : q[i] = q[j] => i = j

Unlink(q, t) ==
  LET k == CHOOSE i \in 1 .. Len(q) : q[i] = t
  IN  [i \in 1 .. Len(q) - 1 |-> IF i < k THEN q[i] ELSE q[i + 1]]

isIgnoringSigs(t) == pc[t] \in {"ignsigs", "resume"}

hasSignal(t) == ~isIgnoringSigs(t) /\ sigmask[t]

(***************************************************************************)
(* The private helpers of Sched.                                           *)
(***************************************************************************)
enqueue(t) ==
  /\ rdyQueues' = [rdyQueues EXCEPT ![priority[t]] = Append(@, t)]
  /\ readyMask' = readyMask \cup {priority[t]}
  /\ rdyCount' = rdyCount + 1

enqueueQuick(t) ==
  /\ rdyQueues' = [rdyQueues EXCEPT ![priority[t]] = <<t>> \o @]
  /\ readyMask' = readyMask \cup {priority[t]}
  /\ rdyCount' = rdyCount + 1

(* Mutant: dequeue leaves the bit of a queue set that has become empty.    *)
requeue_staleMask(t, p) ==
  /\ rdyQueues' = [rdyQueues EXCEPT ![priority[t]] = Unlink(@, t), ![p] = Append(@, t)]
  /\ readyMask' = readyMask \cup {p}
  /\ UNCHANGED rdyCount

(* dequeue(t), t->setPriority(p), enqueue(t) of a ready thread.            *)
requeue(t, p) ==
  LET old == priority[t]
      cut == [rdyQueues EXCEPT ![old] = Unlink(@, t)]
  IN  /\ rdyQueues' = [cut EXCEPT ![p] = Append(@, t)]
      /\ readyMask' = (IF cut[old] = <<>> THEN readyMask \ {old} ELSE readyMask) \cup {p}
      /\ UNCHANGED rdyCount

(* Mutant: the event is reset, the thread stays in the list.               *)
removeFromEventlist_linked(t) ==
  /\ event' = [event EXCEPT ![t] = NoEvent]
  /\ UNCHANGED evlists

removeFromEventlist(t) ==
  /\ evlists' = IF event[t] = NoEvent THEN evlists
                ELSE [evlists EXCEPT ![event[t][1]] = Unlink(@, t)]
  /\ event' = [event EXCEPT ![t] = NoEvent]

(* Mutant: a wakeup before the switch does not stop the thread from        *)
(* blocking.                                                               *)
keepRunning_blocks(t) ==
  /\ state[t] = "RUNNING"
  /\ removeFromEventlist(t)
  /\ UNCHANGED <<state, newState, queueVars>>

(* Mutant: a running thread is put into a ready queue.                     *)
keepRunning_enqueues(t) ==
  /\ state[t] = "RUNNING"
  /\ removeFromEventlist(t)
  /\ state' = [state EXCEPT ![t] = "READY"]
  /\ enqueue(t)
  /\ UNCHANGED newState

(* setReady and setReadyQuick of a running thread only decide what becomes *)
(* of it at its next switch.                                               *)
keepRunning(t) ==
  /\ state[t] = "RUNNING"
  /\ removeFromEventlist(t)
  /\ newState' = [newState EXCEPT ![t] = "READY"]
  /\ UNCHANGED <<state, queueVars>>

(* setReadyState keeps zombies dead and ready threads where they are.      *)
setReady(t) ==
  \/ keepRunning(t)
  \/ /\ state[t] = "BLOCKED"
     /\ removeFromEventlist(t)
     /\ state' = [state EXCEPT ![t] = "READY"]
     /\ enqueue(t)
     /\ UNCHANGED newState
  \/ /\ state[t] \in {"READY", "ZOMBIE"}
     /\ UNCHANGED <<state, newState, event, queueVars, evlists>>

setReadyQuick(t) ==
  \/ keepRunning(t)
  \/ /\ state[t] = "READY"
     /\ rdyQueues' = [rdyQueues EXCEPT ![priority[t]] = <<t>> \o Unlink(@, t)]
     /\ UNCHANGED <<state, newState, event, readyMask, rdyCount, evlists>>
  \/ /\ state[t] = "BLOCKED"
     /\ removeFromEventlist(t)
     /\ state' = [state EXCEPT ![t] = "READY"]
     /\ enqueueQuick(t)
     /\ UNCHANGED newState
  \/ /\ state[t] = "ZOMBIE"
     /\ UNCHANGED <<state, newState, event, queueVars, evlists>>

(***************************************************************************)
(* The second half of Sched::perform: choose a thread for CPU c, given the *)
(* states st, the queues rq, the mask and the count that the first half    *)
(* left.  A queue whose first thread is the old one is passed over if      *)
(* other threads are ready.  If no thread is found, t is what the last     *)
(* iteration left in it: NULL, which selects the idle thread, or the old   *)
(* thread if that headed queue 0.                                          *)
(***************************************************************************)
PassedOver(rq, cnt, old, p) == rq[p] # <<>> /\ cnt > 1 /\ rq[p][1] = old

Eligible(rq, cnt, old) == {p \in Prios : rq[p] # <<>> /\ ~PassedOver(rq, cnt, old, p)}

(* Mutant: the queues are scanned in the wrong direction.                  *)
Highest_lowest(S) == CHOOSE p \in S : \A q \in S : p <= q

Highest(S) == CHOOSE p \in S : \A q \in S : q <= p

pick(c, old, st, rq, mask, cnt) ==
  LET el == Eligible(rq, cnt, old)
      p  == Highest(el)
      t  == IF el # {} THEN rq[p][1]
            ELSE IF PassedOver(rq, cnt, old, 0) THEN old ELSE c
      cut == [rq EXCEPT ![p] = Tail(@)]
  IN  /\ state' = [st EXCEPT ![t] = "RUNNING"]
      /\ newState' = IF t = c THEN newState ELSE [newState EXCEPT ![t] = "READY"]
      /\ IF el # {}
           THEN /\ rdyQueues' = cut
                /\ readyMask' = IF cut[p] = <<>> THEN mask \ {p} ELSE mask
                /\ rdyCount' = cnt - 1
           ELSE /\ rdyQueues' = rq
                /\ readyMask' = mask
                /\ rdyCount' = cnt
      /\ running' = [running EXCEPT ![c] = t]
      /\ waitsFor' = IF t = c THEN waitsFor ELSE [waitsFor EXCEPT ![t] = NoEvent]

(* Thread::initialSwitch: perform(NULL,cpu) on a CPU that has just started. *)
initialSwitch(c) ==
  /\ lock = Free
  /\ running[c] = NoThread
  /\ pick(c, NoThread, state, rdyQueues, readyMask, rdyCount)
  /\ UNCHANGED <<event, priority, prioGoodCnt, sigmask, pc, target, evlists, lock>>

(* perform on a CPU that idles. *)
performIdle(c) ==
  /\ lock = Free
  /\ running[c] = c
  /\ pick(c, c, [state EXCEPT ![c] = "BLOCKED"], rdyQueues, readyMask, rdyCount)
  /\ UNCHANGED <<event, priority, prioGoodCnt, sigmask, pc, target, evlists, lock>>

(* switchAway is called from user mode (time slice, yield, a ready thread  *)
(* of higher priority), after wait() or block(), from switchNoSigs or by   *)
(* an exiting thread; afterPC is where the thread is when it gets back.    *)
(* A thread that gets back from its last switchAway executes whatever      *)
(* follows A_UNREACHED; all it does here is to be preempted.               *)
maySwitch(t) == pc[t] \in {"run", "switch", "ignsigs", "exit", "gone"}

afterPC(t) == CASE pc[t] = "ignsigs" -> "resume"
                [] pc[t] \in {"exit", "gone"} -> "gone"
                [] OTHER -> "run"

(* Mutant: the thread keeps running, but is still going to block.          *)
performSignal_blocks(c) ==
  LET old == running[c]
  IN  /\ lock = Free
      /\ old \in Threads /\ maySwitch(old)
      /\ newState[old] # "ZOMBIE" /\ hasSignal(old)
      /\ removeFromEventlist(old)
      /\ pc' = [pc EXCEPT ![old] = afterPC(old)]
      /\ waitsFor' = [waitsFor EXCEPT ![old] = NoEvent]
      /\ UNCHANGED <<state, newState, priority, prioGoodCnt, sigmask, target, queueVars,
                     running, lock>>

(* A pending signal keeps the thread running, unless it is exiting.        *)
performSignal(c) ==
  LET old == running[c]
  IN  /\ lock = Free
      /\ old \in Threads /\ maySwitch(old)
      /\ newState[old] # "ZOMBIE" /\ hasSignal(old)
      /\ newState' = [newState EXCEPT ![old] = "READY"]
      /\ removeFromEventlist(old)
      /\ pc' = [pc EXCEPT ![old] = afterPC(old)]
      /\ waitsFor' = [waitsFor EXCEPT ![old] = NoEvent]
      /\ UNCHANGED <<state, priority, prioGoodCnt, sigmask, target, queueVars, running, lock>>

performReady(c) ==
  LET old == running[c]
      p   == priority[old]
  IN  /\ lock = Free
      /\ old \in Threads /\ maySwitch(old)
      /\ newState[old] = "READY" /\ ~hasSignal(old)
      /\ pick(c, old, [state EXCEPT ![old] = "READY"],
              [rdyQueues EXCEPT ![p] = Append(@, old)], readyMask \cup {p}, rdyCount + 1)
      /\ pc' = [pc EXCEPT ![old] = afterPC(old)]
      /\ UNCHANGED <<event, priority, prioGoodCnt, sigmask, target, evlists, lock>>

(* Mutant: perform does not look for a signal.                             *)
goesToSleep_unchecked(t) == newState[t] \in {"ZOMBIE", "BLOCKED"}

goesToSleep(t) == newState[t] = "ZOMBIE" \/ (newState[t] = "BLOCKED" /\ ~hasSignal(t))

performBlocked(c) ==
  LET old == running[c]
  IN  /\ lock = Free
      /\ old \in Threads /\ maySwitch(old)
      /\ goesToSleep(old)
      /\ pick(c, old, [state EXCEPT ![old] = newState[old]], rdyQueues, readyMask, rdyCount)
      /\ pc' = [pc EXCEPT ![old] = afterPC(old)]
      /\ UNCHANGED <<event, priority, prioGoodCnt, sigmask, target, evlists, lock>>

perform(c) == performIdle(c) \/ performSignal(c) \/ performReady(c) \/ performBlocked(c)

(***************************************************************************)
(* switchNoSigs around the switch.                                         *)
(***************************************************************************)
setIgnSigs(t) ==
  /\ state[t] = "RUNNING" /\ pc[t] = "nosigs"
  /\ pc' = [pc EXCEPT ![t] = "ignsigs"]
  /\ UNCHANGED <<state, newState, event, priority, prioGoodCnt, sigmask, target,
                 queueVars, evlists, running, lock, waitsFor>>

clearIgnSigs(t) ==
  /\ state[t] = "RUNNING" /\ pc[t] = "resume"
  /\ pc' = [pc EXCEPT ![t] = "run"]
  /\ UNCHANGED <<state, newState, event, priority, prioGoodCnt, sigmask, target,
                 queueVars, evlists, running, lock, waitsFor>>

(***************************************************************************)
(* Operations of the thread t that runs on CPU c.                          *)
(***************************************************************************)
Executes(c, t) == running[c] = t /\ t \in Threads /\ pc[t] = "run" /\ lock.holder # c

(* CPU c may call into Sched: its thread does, or an interrupt handler     *)
(* while it idles.                                                         *)
MayCall(c) == lock = Free /\ (running[c] = c \/ \E t \in Threads : Executes(c, t))

wait(c, t, e, o, sleepPC) ==
  /\ lock = Free /\ Executes(c, t)
  /\ event' = [event EXCEPT ![t] = <<e, o>>]
  /\ newState' = [newState EXCEPT ![t] = "BLOCKED"]
  /\ evlists' = [evlists EXCEPT ![e] = Append(@, t)]
  /\ waitsFor' = [waitsFor EXCEPT ![t] = <<e, o>>]
  /\ pc' = [pc EXCEPT ![t] = sleepPC]
  /\ UNCHANGED <<state, priority, prioGoodCnt, sigmask, target, queueVars, running, lock>>

(* Only the running thread is ever passed to Sched::block.                 *)
block(c, t, sleepPC) ==
  /\ lock = Free /\ Executes(c, t)
  /\ newState' = [newState EXCEPT ![t] = "BLOCKED"]
  /\ pc' = [pc EXCEPT ![t] = sleepPC]
  /\ UNCHANGED <<state, event, priority, prioGoodCnt, sigmask, target, queueVars,
                 evlists, running, lock, waitsFor>>

unblock(c, u) ==
  /\ MayCall(c) /\ state[u] # "UNUSED"
  /\ setReady(u)
  /\ UNCHANGED <<priority, prioGoodCnt, sigmask, pc, target, running, lock, waitsFor>>

unblockQuick(c, u) ==
  /\ MayCall(c) /\ state[u] # "UNUSED"
  /\ setReadyQuick(u)
  /\ UNCHANGED <<priority, prioGoodCnt, sigmask, pc, target, running, lock, waitsFor>>

(* wakeup takes the lock, wakes matching waiters in list order, all of     *)
(* them or the first one, and drops the lock.                              *)
wakeup(c, e, o, all) ==
  /\ MayCall(c)
  /\ lock' = Lock(c, e, o, all)
  /\ UNCHANGED <<threadVars, queueVars, evlists, running, waitsFor>>

Matches(t) == event[t][2] \in {AnyObject, lock.obj}

wakeupNext ==
  /\ lock # Free
  /\ \E i \in 1 .. Len(evlists[lock.ev]) :
       LET t == evlists[lock.ev][i]
       IN  /\ Matches(t)
           /\ \A j \in 1 .. i - 1 : ~Matches(evlists[lock.ev][j])
           /\ setReady(t)
  /\ lock' = IF lock.all THEN lock ELSE Free
  /\ UNCHANGED <<priority, prioGoodCnt, sigmask, pc, target, running, waitsFor>>

wakeupDone ==
  /\ lock # Free
  /\ \A i \in 1 .. Len(evlists[lock.ev]) : ~Matches(evlists[lock.ev][i])
  /\ lock' = Free
  /\ UNCHANGED <<threadVars, queueVars, evlists, running, waitsFor>>

(***************************************************************************)
(* Signals::addSignalFor(u): set the mask, test T_IGNSIGS, unblock.  The   *)
(* sender may be u itself.                                                 *)
(***************************************************************************)
addSignalFor(c, t, u) ==
  /\ Executes(c, t) /\ state[u] # "UNUSED"
  /\ sigmask' = [sigmask EXCEPT ![u] = TRUE]
  /\ pc' = [pc EXCEPT ![t] = "check"]
  /\ target' = [target EXCEPT ![t] = u]
  /\ UNCHANGED <<state, newState, event, priority, prioGoodCnt, queueVars, evlists,
                 running, lock, waitsFor>>

checkIgnSigs(t) ==
  /\ state[t] = "RUNNING" /\ pc[t] = "check"
  /\ IF isIgnoringSigs(target[t])
       THEN /\ pc' = [pc EXCEPT ![t] = "run"]
            /\ target' = [target EXCEPT ![t] = NoThread]
       ELSE /\ pc' = [pc EXCEPT ![t] = "kick"]
            /\ UNCHANGED target
  /\ UNCHANGED <<state, newState, event, priority, prioGoodCnt, sigmask, queueVars,
                 evlists, running, lock, waitsFor>>

unblockTarget(t) ==
  /\ lock = Free
  /\ state[t] = "RUNNING" /\ pc[t] = "kick"
  /\ setReady(target[t])
  /\ pc' = [pc EXCEPT ![t] = "run"]
  /\ target' = [target EXCEPT ![t] = NoThread]
  /\ UNCHANGED <<priority, prioGoodCnt, sigmask, running, lock, waitsFor>>

(* Signals::checkAndStart on the way back to user mode.                    *)
handleSignal(c, t) ==
  /\ Executes(c, t) /\ sigmask[t]
  /\ sigmask' = [sigmask EXCEPT ![t] = FALSE]
  /\ UNCHANGED <<state, newState, event, priority, prioGoodCnt, pc, target, queueVars,
                 evlists, running, lock, waitsFor>>

(***************************************************************************)
(* Thread creation and destruction.                                        *)
(***************************************************************************)
(* Thread::create: initProps, the priority is that of the process.         *)
create(c, t, u, p) ==
  /\ Executes(c, t) /\ state[u] = "UNUSED"
  /\ state' = [state EXCEPT ![u] = "BLOCKED"]
  /\ newState' = [newState EXCEPT ![u] = "READY"]
  /\ priority' = [priority EXCEPT ![u] = p]
  /\ UNCHANGED <<event, prioGoodCnt, sigmask, pc, target, queueVars, evlists, running,
                 lock, waitsFor>>

(* Thread::terminate, only called by the thread itself: Sched::removeThread. *)
removeThread(c, t) ==
  /\ lock = Free /\ Executes(c, t)
  /\ newState' = [newState EXCEPT ![t] = "ZOMBIE"]
  /\ pc' = [pc EXCEPT ![t] = "exit"]
  /\ UNCHANGED <<state, event, priority, prioGoodCnt, sigmask, target, queueVars,
                 evlists, running, lock, waitsFor>>

(* Proc::killThread by the terminator, which waits for the state ZOMBIE.   *)
(* A signal sender holds PLOCK_PROG of the target's process, so it is not  *)
(* under way at the same time.                                             *)
kill(u) ==
  /\ state[u] = "ZOMBIE"
  /\ \A t \in Threads : target[t] # u
  /\ state' = [state EXCEPT ![u] = "UNUSED"]
  /\ newState' = [newState EXCEPT ![u] = "READY"]
  /\ prioGoodCnt' = [prioGoodCnt EXCEPT ![u] = 0]
  /\ sigmask' = [sigmask EXCEPT ![u] = FALSE]
  /\ pc' = [pc EXCEPT ![u] = "run"]
  /\ waitsFor' = [waitsFor EXCEPT ![u] = NoEvent]
  /\ UNCHANGED <<event, priority, target, queueVars, evlists, running, lock>>

(***************************************************************************)
(* Sched::adjustPrio, called for every thread once per second by the timer *)
(* interrupt of CPU 0.  blocked is "bad" below BAD_BLOCK_TIME, "good" from *)
(* GOOD_BLOCK_TIME on.                                                     *)
(***************************************************************************)
setPriority(t, p) ==
  /\ priority' = [priority EXCEPT ![t] = p]
  /\ prioGoodCnt' = [prioGoodCnt EXCEPT ![t] = 0]
  /\ IF state[t] = "READY" THEN requeue(t, p) ELSE UNCHANGED queueVars

(* Mutant: there is no check for the lowest priority.                      *)
lowerPrio_unbounded(t) == setPriority(t, priority[t] - 1)

(* Mutant: a CPU-bound thread keeps its priority.                          *)
lowerPrio_never(t) ==
  /\ prioGoodCnt' = [prioGoodCnt EXCEPT ![t] = 0]
  /\ UNCHANGED <<priority, queueVars>>

lowerPrio(t) ==
  IF priority[t] > 0
    THEN setPriority(t, priority[t] - 1)
    ELSE /\ prioGoodCnt' = [prioGoodCnt EXCEPT ![t] = 0]
         /\ UNCHANGED <<priority, queueVars>>

raisePrio(t) ==
  /\ priority[t] < MAX_PRIO
  /\ IF prioGoodCnt[t] + 1 = PRIO_FORGIVE_CNT
       THEN setPriority(t, priority[t] + 1)
       ELSE /\ prioGoodCnt' = [prioGoodCnt EXCEPT ![t] = @ + 1]
            /\ UNCHANGED <<priority, queueVars>>

adjustPrio(t, blocked) ==
  /\ MayCall(BootCPU) /\ state[t] # "UNUSED"
  /\ \/ blocked = "bad" /\ lowerPrio(t)
     \/ blocked = "good" /\ raisePrio(t)
  /\ UNCHANGED <<state, newState, event, sigmask, pc, target, evlists, running, lock, waitsFor>>

-----------------------------------------------------------------------------
Init ==
  /\ state = [t \in Threads \cup CPUs |->
                IF t = InitThread THEN "RUNNING" ELSE IF t \in CPUs THEN "BLOCKED" ELSE "UNUSED"]
  /\ newState = [t \in Threads |-> "READY"]
  /\ event = [t \in Threads |-> NoEvent]
  /\ priority = [t \in Threads |-> MAX_PRIO]
  /\ prioGoodCnt = [t \in Threads |-> 0]
  /\ sigmask = [t \in Threads |-> FALSE]
  /\ pc = [t \in Threads |-> "run"]
  /\ target = [t \in Threads |-> NoThread]
  /\ rdyQueues = [p \in Prios |-> <<>>]
  /\ readyMask = {}
  /\ rdyCount = 0
  /\ evlists = [e \in Events |-> <<>>]
  /\ running = [c \in CPUs |-> IF c = BootCPU THEN InitThread ELSE NoThread]
  /\ lock = Free
  /\ waitsFor = [t \in Threads |-> NoEvent]

CPUStep(c) ==
  \/ initialSwitch(c)
  \/ perform(c)
  \/ \E u \in Threads : unblock(c, u) \/ unblockQuick(c, u)
  \/ \E e \in Events, o \in Objects, all \in BOOLEAN : wakeup(c, e, o, all)

ThreadStep(c, t) ==
  \/ \E sleepPC \in {"switch", "nosigs"} :
       \/ block(c, t, sleepPC)
       \/ \E e \in Events, o \in Objects : wait(c, t, e, o, sleepPC)
  \/ \E u \in Threads : addSignalFor(c, t, u) \/ \E p \in Prios : create(c, t, u, p)
  \/ handleSignal(c, t)
  \/ removeThread(c, t)

OtherStep(t) ==
  \/ setIgnSigs(t) \/ clearIgnSigs(t)
  \/ checkIgnSigs(t) \/ unblockTarget(t)
  \/ kill(t)
  \/ \E blocked \in {"bad", "good"} : adjustPrio(t, blocked)

Next ==
  \/ \E c \in CPUs : CPUStep(c)
  \/ \E c \in CPUs, t \in Threads : ThreadStep(c, t)
  \/ \E t \in Threads : OtherStep(t)
  \/ wakeupNext
  \/ wakeupDone

Spec == Init /\ [][Next]_vars

(* The CPU-bound workload: threads are created, made ready and run until   *)
(* the end of their time slice; as they never block, their blocked time is *)
(* "bad" at every adjustPrio.  The timer interrupt of every CPU ends time  *)
(* slices and updates the priorities again and again, hence the fairness.  *)
CpuBoundNext ==
  \/ \E c \in CPUs : initialSwitch(c) \/ perform(c)
  \/ \E c \in CPUs, t, u \in Threads, p \in Prios : create(c, t, u, p)
  \/ \E c \in CPUs, u \in Threads : unblock(c, u)
  \/ \E t \in Threads : adjustPrio(t, "bad")

CpuBoundSpec ==
  /\ Init /\ [][CpuBoundNext]_vars
  /\ \A c \in CPUs : WF_vars(perform(c)) /\ WF_vars(initialSwitch(c))
  /\ \A t \in Threads : WF_vars(adjustPrio(t, "bad"))

-----------------------------------------------------------------------------
(* The ready queues, the mask and the counter always agree: a queue of     *)
(* priority p holds exactly the ready threads of that priority, each once; *)
(* the bit of p is set iff the queue is not empty; rdyCount is the number  *)
(* of ready threads.  enqueue, dequeue, perform and adjustPrio each update *)
(* all of them, and perform relies on rdyCount to pass over the old thread.*)
QueuesOK(st, pr, rq, mask, cnt) ==
  /\ \A p \in Prios : Distinct(rq[p]) /\ Elems(rq[p]) = {t \in Threads : st[t] = "READY" /\ pr[t] = p}
  /\ mask = {p \in Prios : rq[p] # <<>>}
  /\ cnt = Cardinality({t \in Threads : st[t] = "READY"})

ReadyQueuesConsistent == QueuesOK(state, priority, rdyQueues, readyMask, rdyCount)

(* A thread is in the list of the event it waits for, once, and in no      *)
(* other; and it is never in an event list and a ready queue at the same   *)
(* time: both lists are linked through the same pointers of Thread, and    *)
(* perform asserts event = 0 for a thread that becomes ready.              *)
EventListsConsistent ==
  /\ \A e \in Events :
       Distinct(evlists[e]) /\ Elems(evlists[e]) = {t \in Threads : event[t] # NoEvent /\ event[t][1] = e}
  /\ \A t \in Threads : event[t] # NoEvent =>
       state[t] = "BLOCKED" \/ (state[t] = "RUNNING" /\ newState[t] = "BLOCKED")

(* A thread is running iff it is the current thread of a CPU, and of one   *)
(* CPU only; so perform on one CPU never picks what another CPU executes,  *)
(* and never schedules a thread that has died.                             *)
RunningOnce ==
  /\ \A t \in Threads :
       /\ (state[t] = "RUNNING") <=> (\E c \in CPUs : running[c] = t)
       /\ \A c, d \in CPUs : running[c] = t /\ running[d] = t => c = d
  /\ \A c \in CPUs : running[c] \in Threads \cup {c, NoThread}

(* No lost wakeup: a thread that sleeps because of wait() is still         *)
(* registered for what it asked for.  A wakeup that comes between wait()   *)
(* and the switch must therefore keep the thread from blocking at all.     *)
NoLostWakeup ==
  \A t \in Threads : state[t] = "BLOCKED" /\ waitsFor[t] # NoEvent => event[t] = waitsFor[t]

(* A running thread is going to block only between its wait() or block()   *)
(* and the switch, and is then still registered for what it asked for; a   *)
(* signal sender runs through to its last step; a thread slot that is not  *)
(* in use has no signal and no event left over from its last user.         *)
PendingBlock ==
  \A t \in Threads :
    /\ state[t] = "RUNNING" /\ pc[t] \notin {"switch", "nosigs", "ignsigs"} =>
         newState[t] # "BLOCKED" /\ waitsFor[t] = NoEvent
    /\ state[t] = "RUNNING" /\ newState[t] = "BLOCKED" /\ waitsFor[t] # NoEvent =>
         event[t] = waitsFor[t]
    /\ pc[t] \in {"check", "kick"} => state[t] = "RUNNING" /\ target[t] \in Threads
    /\ state[t] = "UNUSED" => ~sigmask[t] /\ waitsFor[t] = NoEvent

(* No missed signal (the comment in perform: "we have to check for a       *)
(* signal here, because otherwise we might miss it"): a thread that sleeps *)
(* and does not ignore signals has none pending, unless the sender has yet *)
(* to make its last step.                                                  *)
NoMissedSignal ==
  \A t \in Threads : state[t] = "BLOCKED" /\ hasSignal(t) =>
    \E s \in Threads : state[s] = "RUNNING" /\ pc[s] \in {"check", "kick"} /\ target[s] = t

(* A thread that a CPU switches to has the highest priority of all ready   *)
(* threads, the one it switches away from excepted: the "should be better  *)
(* to take a thread with a lower priority" rule of perform never passes    *)
(* over anybody else.                                                      *)
HighestPriorityRuns ==
  [][\A c \in CPUs, t, u \in Threads :
       running'[c] = t /\ running[c] # t /\ state'[u] = "READY" /\ u # running[c]
         => priority[u] <= priority[t]]_vars

(* Under the CPU-bound workload no ready thread starves, whatever the      *)
(* priorities are at the start: adjustPrio brings all threads to the same  *)
(* queue, and within a queue perform is round-robin.                       *)
NoStarvation ==
  \A t \in Threads : state[t] = "READY" ~> state[t] = "RUNNING"

(* What terminateThread relies on ("we don't want to continue anymore",    *)
(* followed by A_UNREACHED): the last switchAway of an exiting thread does *)
(* not return.                                                             *)
ExitIsFinal ==
  \A t \in Threads : pc[t] = "gone" => state[t] \in {"ZOMBIE", "UNUSED"}
=============================================================================
