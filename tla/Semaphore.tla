----------------------------- MODULE Semaphore -----------------------------
(***************************************************************************)
(* The kernel semaphore: BaseSem and Semaphore (include/semaphore.h,       *)
(* src/semaphore.cc) on top of BlockedList (src/blockedlist.cc), and the   *)
(* part of the scheduler they meet.  Every thread loops over down(), some  *)
(* work, and up(); signals may be sent to it at any time.                  *)
(*                                                                         *)
(* A Thread has one pair of links, which the waiter list (an SList) and    *)
(* the ready queue (a DList) share.  So the lists are modelled by heads,   *)
(* tails, lengths and the next pointers; the prev pointers are written by  *)
(* the operations used here but never read.  All threads have the same     *)
(* priority: there is one ready queue.                                     *)
(*                                                                         *)
(* What is done under Sched::lock is one action, and so is what is done    *)
(* between taking and dropping lck, except where the thread itself calls   *)
(* into the scheduler in between.  An interrupted down() leaves the waiter *)
(* list and increments the value without lck: there every item that is     *)
(* visited, the removal of the item, the load and the store of the value   *)
(* and the wakeup are steps of their own, so that with several CPUs the    *)
(* owner of lck gets in between.                                           *)
(***************************************************************************)
EXTENDS Integers, Sequences, FiniteSets, SeqOps, Functions

CONSTANTS
  Threads,
  NCPU,          \* the number of CPUs
  InitValue,     \* the value the semaphore is created with
  AllowSigs,     \* the values of the argument allowSigs of down()
  MaxSignals,    \* bound: the number of signals that are sent
  Null

ASSUME SemAssumption ==
  /\ IsFiniteSet(Threads) /\ Threads # {} /\ Null \notin Threads
  /\ NCPU \in Nat \ {0} /\ InitValue \in Nat
  /\ AllowSigs \subseteq BOOLEAN /\ MaxSignals \in Nat

VARIABLES
  value,      \* BaseSem::value
  lck,        \* Semaphore::lck is taken
  waiters,    \* BaseSem::waiters: head, tail and length
  ready,      \* the ready queue: head and tail
  next,       \* SListItem::_next of each thread
  state,      \* Thread::state
  newState,   \* Thread::newState
  sigmask,    \* Thread::sigmask # 0
  sent,       \* the number of signals sent so far
  sigpc,      \* how far the sender of a signal to the thread is
  pc,         \* where the thread is in down() or up()
  loc,        \* the local variables of an interrupted down()
  broken      \* a null pointer was dereferenced or a thread scheduled that is
              \* not ready: the model does not follow the kernel any further

semVars == <<value, waiters>>
schedVars == <<ready, state, newState>>
vars == <<semVars, schedVars, lck, next, sent, sigmask, sigpc, loc, pc, broken>>

(* Positions of a thread; the line that comes next in src/semaphore.cc:    *)
(*   out     outside                                                       *)
(*   block   in the waiter list, about to call Sched::block                *)
(*   unlock  about to drop lck                                             *)
(*   switch  about to call switchAway (allowSigs)                          *)
(*   nosigs  about to set T_IGNSIGS, in switchNoSigs                       *)
(*   ignsigs about to call switchAway with T_IGNSIGS set                   *)
(*   resume  back from the switch, T_IGNSIGS still set                     *)
(*   woken   back from the switch, about to test for a signal              *)
(*   remove  interrupted, about to call waiters.remove                     *)
(*   walk    in SList::remove, about to look at the item loc.item          *)
(*   unlink  in SList::remove, has found itself                            *)
(*   giveup  interrupted, about to call up() without lck                   *)
(*   store   in up(), the value is loaded                                  *)
(*   wakeup  in up(), the value is stored                                  *)
(*   guard   interrupted, about to return through the LockGuard            *)
(*   relock  about to take lck again and to return true                    *)
(*   in      down() has returned true                                      *)
PCs == {"out", "block", "unlock", "switch", "nosigs", "ignsigs", "resume", "woken", "remove",
        "walk", "unlink", "giveup", "store", "wakeup", "guard", "relock", "in"}

Links == Threads \cup {Null}

Locals == [prev : Links, item : Links, val : Int]
noLocals == [prev |-> Null, item |-> Null, val |-> 0]

(* The types, also when down() is interrupted: a thread that is switched to *)
(* by Sched::perform never has RUNNING as the state it goes to next.       *)
TypeOK ==
  /\ value \in Int
  /\ lck \in BOOLEAN /\ broken \in BOOLEAN
  /\ waiters \in [head : Links, tail : Links, len : Int]
  /\ ready \in [head : Links, tail : Links]
  /\ next \in [Threads -> Links]
  /\ state \in [Threads -> {"RUNNING", "READY", "BLOCKED"}]
  /\ newState \in [Threads -> {"READY", "BLOCKED"}]
  /\ sent \in 0 .. MaxSignals
  /\ sigmask \in [Threads -> BOOLEAN]
  /\ sigpc \in [Threads -> {"none", "check", "kick"}]
  /\ pc \in [Threads -> PCs]
  /\ loc \in [Threads -> Locals]

isIgnoringSigs(t) == pc[t] \in {"ignsigs", "resume"}

hasSignal(t) == ~isIgnoringSigs(t) /\ sigmask[t]

Running(t) == state[t] = "RUNNING" /\ ~broken

Goto(t, p) == pc' = [pc EXCEPT ![t] = p]

(***************************************************************************)
(* The lists.  An operator returns the list and the next pointers after    *)
(* the operation.                                                          *)
(***************************************************************************)
(* Mutant: the appended item keeps its old successor.                      *)
append_stale(l, nx, t) ==
  [list |-> [l EXCEPT !.head = IF l.head = Null THEN t ELSE l.head, !.tail = t],
   next |-> IF l.head = Null THEN nx ELSE [nx EXCEPT ![l.tail] = t]]

(* SList::append and DList::append.                                        *)
append(l, nx, t) ==
  [list |-> [l EXCEPT !.head = IF l.head = Null THEN t ELSE l.head, !.tail = t],
   next |-> IF l.head = Null THEN [nx EXCEPT ![t] = Null]
            ELSE [nx EXCEPT ![l.tail] = t, ![t] = Null]]

(* q are the items from the head on, as the code finds them; they are      *)
(* cyclic once the links are broken, so q stops after as many items as     *)
(* there are threads.                                                      *)
Walks == BoundedSeq(Threads, Cardinality(Threads))

IsWalk(l, nx, q) ==
  /\ l.head = IF q = <<>> THEN Null ELSE q[1]
  /\ \A i \in 1 .. Len(q) - 1 : nx[q[i]] = q[i + 1]
  /\ q # <<>> /\ Len(q) < Cardinality(Threads) => nx[Last(q)] = Null

(* SList::removeAt(p, e).                                                  *)
removeAt(l, nx, p, e) ==
  [list |-> [head |-> IF p = Null THEN nx[e] ELSE l.head,
             tail |-> IF nx[e] = Null THEN p ELSE l.tail,
             len  |-> l.len - 1],
   next |-> IF p = Null THEN nx ELSE [nx EXCEPT ![p] = nx[e]]]

(***************************************************************************)
(* The scheduler.                                                          *)
(***************************************************************************)
(* Appending to a list without a tail that is not empty.                   *)
NullTail(l) == l.head # Null /\ l.tail = Null

(* Sched::unblock, given the next pointers nx.                             *)
unblock(t, nx) ==
  \/ /\ state[t] = "RUNNING"
     /\ newState' = [newState EXCEPT ![t] = "READY"]
     /\ next' = nx
     /\ UNCHANGED <<state, ready, broken>>
  \/ /\ state[t] = "BLOCKED" /\ ~NullTail(ready)
     /\ LET a == append(ready, nx, t) IN ready' = a.list /\ next' = a.next
     /\ state' = [state EXCEPT ![t] = "READY"]
     /\ UNCHANGED <<newState, broken>>
  \/ /\ state[t] = "BLOCKED" /\ NullTail(ready)
     /\ broken' = TRUE /\ next' = nx
     /\ UNCHANGED schedVars
  \/ /\ state[t] = "READY"
     /\ next' = nx
     /\ UNCHANGED <<schedVars, broken>>

(* Mutant: the thread also gets RUNNING as its next state.                 *)
pick_running(r, nx, st) ==
  /\ next' = nx
  /\ r.head # Null
  /\ ready' = [head |-> nx[r.head], tail |-> IF r.head = r.tail THEN Null ELSE r.tail]
  /\ state' = [st EXCEPT ![r.head] = "RUNNING"]
  /\ newState' = [newState EXCEPT ![r.head] = "RUNNING"]
  /\ broken' = FALSE

(* The CPU takes the first ready thread, if there is one, given the ready  *)
(* queue r, the next pointers nx and the states st.                        *)
pick(r, nx, st) ==
  /\ next' = nx
  /\ \/ /\ r.head = Null
        /\ ready' = r /\ state' = st
        /\ UNCHANGED <<newState, broken>>
     \/ /\ r.head # Null
        /\ ready' = [head |-> nx[r.head], tail |-> IF r.head = r.tail THEN Null ELSE r.tail]
        /\ state' = [st EXCEPT ![r.head] = "RUNNING"]
        /\ newState' = [newState EXCEPT ![r.head] = "READY"]
        /\ broken' = (st[r.head] # "READY")

(* Mutant: a pending signal does not keep the thread from blocking.        *)
keepRunning_never(t) == FALSE

keepRunning(t) == hasSignal(t)

(* Sched::perform of the running thread t, which is then at p.             *)
perform(t, p) ==
  /\ Running(t)
  /\ \/ /\ keepRunning(t)
        /\ newState' = [newState EXCEPT ![t] = "READY"]
        /\ UNCHANGED <<ready, state, next, broken>>
     \/ /\ ~keepRunning(t) /\ newState[t] = "READY" /\ ~NullTail(ready)
        /\ LET a == append(ready, next, t)
           IN  pick(a.list, a.next, [state EXCEPT ![t] = "READY"])
     \/ /\ ~keepRunning(t) /\ newState[t] = "READY" /\ NullTail(ready)
        /\ broken' = TRUE
        /\ UNCHANGED <<schedVars, next>>
     \/ /\ ~keepRunning(t) /\ newState[t] = "BLOCKED"
        /\ pick(ready, next, [state EXCEPT ![t] = "BLOCKED"])
  /\ Goto(t, p)
  /\ UNCHANGED <<semVars, lck, sent, sigmask, sigpc, loc>>

(* An idle CPU. *)
performIdle ==
  /\ Cardinality({t \in Threads : state[t] = "RUNNING"}) < NCPU
  /\ ready.head # Null /\ ~broken
  /\ pick(ready, next, state)
  /\ UNCHANGED <<semVars, lck, sent, sigmask, sigpc, loc, pc>>

(* The thread yields or its time slice is over, outside of down and up.    *)
preempt(t) == pc[t] \in {"out", "in"} /\ perform(t, pc[t])

(***************************************************************************)
(* BaseSem::down.                                                          *)
(***************************************************************************)
(* Mutant: the test comes before the decrement.                            *)
mustWait_late(v, l) == v < -1 \/ l.len # 0

mustWait(v, l) == v < 0 \/ l.len # 0

(* Take lck, decrement the value, enter the waiter list if necessary.      *)
down(t) ==
  /\ Running(t) /\ pc[t] = "out" /\ ~lck
  /\ value' = value - 1
  /\ IF mustWait(value', waiters)
       THEN /\ LET a == append(waiters, next, t)
               IN  waiters' = [a.list EXCEPT !.len = @ + 1] /\ next' = a.next
            /\ lck' = TRUE
            /\ Goto(t, "block")
       ELSE /\ Goto(t, "in")
            /\ UNCHANGED <<waiters, next, lck>>
  /\ UNCHANGED <<schedVars, sent, sigmask, sigpc, loc, broken>>

tryDown(t) ==
  /\ Running(t) /\ pc[t] = "out" /\ ~lck
  /\ value > 0 /\ waiters.len = 0
  /\ value' = value - 1
  /\ Goto(t, "in")
  /\ UNCHANGED <<waiters, schedVars, lck, next, sent, sigmask, sigpc, loc, broken>>

block(t) ==
  /\ Running(t) /\ pc[t] = "block"
  /\ newState' = [newState EXCEPT ![t] = "BLOCKED"]
  /\ Goto(t, "unlock")
  /\ UNCHANGED <<semVars, ready, state, lck, next, sent, sigmask, sigpc, loc, broken>>

unlock(t) ==
  /\ Running(t) /\ pc[t] = "unlock"
  /\ lck' = FALSE
  /\ \E allowSigs \in AllowSigs : Goto(t, IF allowSigs THEN "switch" ELSE "nosigs")
  /\ UNCHANGED <<semVars, schedVars, next, sent, sigmask, sigpc, loc, broken>>

(* switchAway, if signals are allowed.                                     *)
switchAway(t) == pc[t] = "switch" /\ perform(t, "woken")

checkSignal(t) ==
  /\ Running(t) /\ pc[t] = "woken"
  /\ Goto(t, IF hasSignal(t) THEN "remove" ELSE "relock")
  /\ UNCHANGED <<semVars, schedVars, lck, next, sent, sigmask, sigpc, loc, broken>>

(* switchNoSigs.                                                           *)
setIgnSigs(t) ==
  /\ Running(t) /\ pc[t] = "nosigs"
  /\ Goto(t, "ignsigs")
  /\ UNCHANGED <<semVars, schedVars, lck, next, sent, sigmask, sigpc, loc, broken>>

switchIgnSigs(t) == pc[t] = "ignsigs" /\ perform(t, "resume")

clearIgnSigs(t) ==
  /\ Running(t) /\ pc[t] = "resume"
  /\ Goto(t, "relock")
  /\ UNCHANGED <<semVars, schedVars, lck, next, sent, sigmask, sigpc, loc, broken>>

relock(t) ==
  /\ Running(t) /\ pc[t] = "relock" /\ ~lck
  /\ Goto(t, "in")
  /\ UNCHANGED <<semVars, schedVars, lck, next, sent, sigmask, sigpc, loc, broken>>

(***************************************************************************)
(* BaseSem::up: the first waiter is taken out of the list and unblocked.   *)
(* The list is trusted to have an item if its length is not 0.             *)
(***************************************************************************)
(* BlockedList::wakeup.                                                    *)
wakeup ==
  \/ /\ waiters.len = 0
     /\ UNCHANGED <<waiters, schedVars, next, broken>>
  \/ /\ waiters.len # 0 /\ waiters.head = Null
     /\ broken' = TRUE
     /\ UNCHANGED <<waiters, schedVars, next>>
  \/ /\ waiters.len # 0 /\ waiters.head # Null
     /\ LET r == removeAt(waiters, next, Null, waiters.head)
        IN  waiters' = r.list /\ unblock(waiters.head, r.next)

(* Mutant: waiters are only woken up once the value is positive again.     *)
up_late ==
  /\ value' = value + 1
  /\ UNCHANGED <<waiters, schedVars, next, broken>>

up == value' = value + 1 /\ wakeup

(* Semaphore::up by a thread that has acquired the semaphore.              *)
release(t) ==
  /\ Running(t) /\ pc[t] = "in" /\ ~lck
  /\ up
  /\ Goto(t, "out")
  /\ UNCHANGED <<lck, sent, sigmask, sigpc, loc>>

(***************************************************************************)
(* down() is interrupted: the thread leaves the list and calls up(), all   *)
(* of it without lck; the LockGuard of Semaphore::down then drops lck,     *)
(* whoever holds it.                                                       *)
(***************************************************************************)
(* SList::remove.                                                          *)
removeWaiter(t) ==
  /\ Running(t) /\ pc[t] = "remove"
  /\ loc' = [loc EXCEPT ![t] = [prev |-> Null, item |-> waiters.head, val |-> 0]]
  /\ Goto(t, "walk")
  /\ UNCHANGED <<semVars, schedVars, lck, next, sent, sigmask, sigpc, broken>>

(* The links may be cyclic once they are broken; then the walk never ends. *)
visitItem(t) ==
  /\ Running(t) /\ pc[t] = "walk" /\ loc[t].item \notin {t, Null}
  /\ loc' = [loc EXCEPT ![t] = [prev |-> loc[t].item, item |-> next[loc[t].item], val |-> 0]]
  /\ UNCHANGED <<semVars, schedVars, lck, next, sent, sigmask, sigpc, pc, broken>>

endWalk(t) ==
  /\ Running(t) /\ pc[t] = "walk" /\ loc[t].item \in {t, Null}
  /\ Goto(t, IF loc[t].item = t THEN "unlink" ELSE "giveup")
  /\ UNCHANGED <<semVars, schedVars, lck, next, sent, sigmask, sigpc, loc, broken>>

unlink(t) ==
  /\ Running(t) /\ pc[t] = "unlink"
  /\ LET r == removeAt(waiters, next, loc[t].prev, t)
     IN  waiters' = r.list /\ next' = r.next
  /\ Goto(t, "giveup")
  /\ UNCHANGED <<value, schedVars, lck, sent, sigmask, sigpc, loc, broken>>

(* Mutant: an interrupted thread only leaves the list.                     *)
giveUp_keeps(t) ==
  /\ Running(t) /\ pc[t] = "giveup"
  /\ Goto(t, "guard")
  /\ UNCHANGED <<semVars, schedVars, lck, next, sent, sigmask, sigpc, loc, broken>>

(* BaseSem::up: the value is loaded, stored, and the first waiter woken.   *)
giveUp(t) ==
  /\ Running(t) /\ pc[t] = "giveup"
  /\ loc' = [loc EXCEPT ![t] = [prev |-> Null, item |-> Null, val |-> value]]
  /\ Goto(t, "store")
  /\ UNCHANGED <<semVars, schedVars, lck, next, sent, sigmask, sigpc, broken>>

storeValue(t) ==
  /\ Running(t) /\ pc[t] = "store"
  /\ value' = loc[t].val + 1
  /\ loc' = [loc EXCEPT ![t] = noLocals]
  /\ Goto(t, "wakeup")
  /\ UNCHANGED <<waiters, schedVars, lck, next, sent, sigmask, sigpc, broken>>

wakeupFirst(t) ==
  /\ Running(t) /\ pc[t] = "wakeup"
  /\ wakeup
  /\ Goto(t, "guard")
  /\ UNCHANGED <<value, lck, sent, sigmask, sigpc, loc>>

returnFalse(t) ==
  /\ Running(t) /\ pc[t] = "guard"
  /\ lck' = FALSE
  /\ Goto(t, "out")
  /\ UNCHANGED <<semVars, schedVars, next, sent, sigmask, sigpc, loc, broken>>

(***************************************************************************)
(* Signals::addSignalFor(t) by somebody else, and Signals::checkAndStart.  *)
(***************************************************************************)
addSignalFor(t) ==
  /\ sent < MaxSignals /\ ~broken /\ sigpc[t] = "none" /\ ~sigmask[t]
  /\ sent' = sent + 1
  /\ sigmask' = [sigmask EXCEPT ![t] = TRUE]
  /\ sigpc' = [sigpc EXCEPT ![t] = "check"]
  /\ UNCHANGED <<semVars, schedVars, lck, next, pc, loc, broken>>

checkIgnSigs(t) ==
  /\ ~broken /\ sigpc[t] = "check"
  /\ sigpc' = [sigpc EXCEPT ![t] = IF isIgnoringSigs(t) THEN "none" ELSE "kick"]
  /\ UNCHANGED <<semVars, schedVars, lck, next, sent, sigmask, pc, loc, broken>>

unblockTarget(t) ==
  /\ ~broken /\ sigpc[t] = "kick"
  /\ unblock(t, next)
  /\ sigpc' = [sigpc EXCEPT ![t] = "none"]
  /\ UNCHANGED <<semVars, lck, sent, sigmask, pc, loc>>

handleSignal(t) ==
  /\ Running(t) /\ pc[t] \in {"out", "in"} /\ sigmask[t]
  /\ sigmask' = [sigmask EXCEPT ![t] = FALSE]
  /\ UNCHANGED <<semVars, schedVars, lck, next, sent, sigpc, pc, loc, broken>>

-----------------------------------------------------------------------------
(* Initially the threads are ready, in any order of creation.              *)
Init ==
  /\ value = InitValue
  /\ lck = FALSE /\ broken = FALSE
  /\ waiters = [head |-> Null, tail |-> Null, len |-> 0]
  /\ \E q \in Injection(1 .. Cardinality(Threads), Threads) :
       /\ ready = [head |-> Head(q), tail |-> Last(q)]
       /\ next = [t \in Threads |->
                    LET i == CHOOSE j \in DOMAIN q : q[j] = t
                    IN  IF i = Len(q) THEN Null ELSE q[i + 1]]
  /\ state = [t \in Threads |-> "READY"]
  /\ newState = [t \in Threads |-> "READY"]
  /\ sent = 0
  /\ sigmask = [t \in Threads |-> FALSE]
  /\ sigpc = [t \in Threads |-> "none"]
  /\ pc = [t \in Threads |-> "out"]
  /\ loc = [t \in Threads |-> noLocals]

(* The rest of down() and up(), once the thread has called it.             *)
KernelStep(t) ==
  \/ block(t) \/ unlock(t)
  \/ switchAway(t) \/ checkSignal(t)
  \/ setIgnSigs(t) \/ switchIgnSigs(t) \/ clearIgnSigs(t)
  \/ relock(t)
  \/ removeWaiter(t) \/ visitItem(t) \/ endWalk(t) \/ unlink(t)
  \/ giveUp(t) \/ storeValue(t) \/ wakeupFirst(t) \/ returnFalse(t)

SignalStep(t) ==
  \/ addSignalFor(t) \/ checkIgnSigs(t) \/ unblockTarget(t) \/ handleSignal(t)

Next ==
  \/ \E t \in Threads :
       \/ KernelStep(t) \/ down(t) \/ tryDown(t) \/ release(t)
       \/ preempt(t) \/ SignalStep(t)
  \/ performIdle

Spec == Init /\ [][Next]_vars

-----------------------------------------------------------------------------
Waiting == {t \in Threads : \/ pc[t] = "block" \/ state[t] = "BLOCKED"
                            \/ pc[t] \in {"unlock", "switch", "nosigs", "ignsigs"} /\ newState[t] = "BLOCKED"}

(* The waiter list and the ready queue, which share the links of the       *)
(* threads, are both intact: following the pointers from the head gives    *)
(* exactly the waiting and the ready threads, each once, and ends at the   *)
(* tail.  BlockedList::block, wakeup and the scheduler all rely on it.     *)
ListsIntact ==
  /\ \E q \in Walks :
       /\ IsWalk(waiters, next, q)
       /\ Len(q) = waiters.len /\ ToSet(q) = Waiting /\ IsInjective(q)
       /\ q # <<>> => Last(q) = waiters.tail /\ next[waiters.tail] = Null
  /\ \E q \in Walks :
       /\ IsWalk(ready, next, q)
       /\ ToSet(q) = {t \in Threads : state[t] = "READY"} /\ IsInjective(q)
       /\ q # <<>> => Last(q) = ready.tail /\ next[ready.tail] = Null

(* Units are conserved: a negative value is the number of waiters, and     *)
(* units and waiters never exist at the same time.  A waiter that up()     *)
(* forgets, or a unit that down() takes twice, breaks it.                  *)
UnitsMatchWaiters == waiters.len = IF value < 0 THEN -value ELSE 0

(* down() returns true "if the semaphore has been acquired (= no signal    *)
(* interrupted us)": as only threads that have acquired it call up(), no   *)
(* more than InitValue of them have acquired it at a time.                 *)
AcquiredMeansUnit == Cardinality({t \in Threads : pc[t] = "in"}) <= InitValue

(* Whatever signals interrupt, every decrement of the value that is not    *)
(* undone by up() belongs to a thread that waits for or has the semaphore. *)
(* One CPU is assumed: an interrupted down() increments the value without  *)
(* lck, which races with the decrements of other CPUs.                     *)
UnitsConserved ==
  value = InitValue - Cardinality({t \in Threads : pc[t] \notin {"out", "wakeup", "guard"}})

(* down(allowSigs = true) is interrupted: unless the kernel has come to a  *)
(* stop, a thread whose signal has been delivered does not sleep in the    *)
(* waiter list, at whatever point of down() the signal arrived.  (The      *)
(* others sleep at "resume".)                                              *)
SignalEndsWait ==
  ~broken =>
    \A t \in Threads : sigmask[t] /\ sigpc[t] = "none" /\ pc[t] = "woken" => state[t] # "BLOCKED"
=============================================================================
