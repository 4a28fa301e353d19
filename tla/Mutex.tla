------------------------------- MODULE Mutex -------------------------------
(***************************************************************************)
(* The recursive kernel mutex (include/mutex.h, src/mutex.cc): a Semaphore *)
(* with the value 1, down() without signals, a holder and a depth.  A      *)
(* thread that has acquired the semaphore is at "in"; the mutex is its own *)
(* when it is also the holder.                                             *)
(***************************************************************************)
EXTENDS Semaphore

CONSTANT MaxDepth   \* bound: how deep a thread nests down()

ASSUME MutexAssumption == MaxDepth \in Nat \ {0} /\ InitValue = 1 /\ AllowSigs = {FALSE}

VARIABLES
  holder,    \* Mutex::holder, Null for INVALID
  depth,     \* Mutex::depth
  leaving    \* the threads between "holder = INVALID" and Semaphore::up in up()

mutexVars == <<holder, depth, leaving>>
allVars == <<vars, mutexVars>>

(* The types: Mutex::depth, a short that counts the nested down() of the   *)
(* holder, never gets below 0, however down(), tryDown() and up() nest.    *)
MutexTypeOK ==
  /\ TypeOK
  /\ holder \in Threads \cup {Null}
  /\ depth \in 0 .. MaxDepth
  /\ leaving \subseteq Threads

(* Semaphore::down or Semaphore::tryDown has succeeded.                    *)
Acquired(t) == pc[t] = "in" /\ t \notin leaving /\ holder # t

(* down() and tryDown() of a thread that is not the holder.                *)
mutexDown(t) == holder # t /\ down(t) /\ UNCHANGED mutexVars

mutexTryDown(t) == holder # t /\ tryDown(t) /\ UNCHANGED mutexVars

own(t) ==
  /\ Running(t) /\ Acquired(t)
  /\ holder' = t
  /\ depth' = depth + 1
  /\ UNCHANGED <<vars, leaving>>

(* down() and tryDown() of the holder.                                     *)
downAgain(t) ==
  /\ Running(t) /\ holder = t /\ depth < MaxDepth
  /\ depth' = depth + 1
  /\ UNCHANGED <<vars, holder, leaving>>

(* Mutant: the depth is decremented without a look at whether it gets 0.   *)
upAgain_deep(t) ==
  /\ Running(t) /\ holder = t
  /\ depth' = depth - 1
  /\ UNCHANGED <<vars, holder, leaving>>

(* up(), which only releases the semaphore when the depth reaches 0.       *)
upAgain(t) ==
  /\ Running(t) /\ holder = t /\ depth > 1
  /\ depth' = depth - 1
  /\ UNCHANGED <<vars, holder, leaving>>

(* Mutant: the holder is reset after Semaphore::up.                        *)
disown_late(t) ==
  /\ Running(t) /\ holder = t /\ depth = 1
  /\ depth' = 0
  /\ leaving' = leaving \cup {t}
  /\ UNCHANGED <<vars, holder>>

disown(t) ==
  /\ Running(t) /\ holder = t /\ depth = 1
  /\ depth' = 0
  /\ holder' = Null
  /\ leaving' = leaving \cup {t}
  /\ UNCHANGED vars

mutexRelease(t) ==
  /\ t \in leaving
  /\ release(t)
  /\ leaving' = leaving \ {t}
  /\ UNCHANGED <<holder, depth>>

MutexInit ==
  /\ Init
  /\ holder = Null /\ depth = 0 /\ leaving = {}

Call(t) == mutexDown(t) \/ mutexTryDown(t) \/ downAgain(t) \/ upAgain(t) \/ disown(t)

(* The kernel is only left, and so a time slice only ends, outside of the  *)
(* operations of the mutex.                                                *)
InKernel(t) == Acquired(t) \/ t \in leaving

MutexStep(t) == own(t) \/ mutexRelease(t)

MutexNext ==
  \/ \E t \in Threads :
       \/ Call(t) \/ MutexStep(t)
       \/ KernelStep(t) /\ UNCHANGED mutexVars
       \/ preempt(t) /\ ~InKernel(t) /\ UNCHANGED mutexVars
  \/ performIdle /\ UNCHANGED mutexVars

MutexSpec == MutexInit /\ [][MutexNext]_allVars

(* The same with signals.                                                  *)
MutexSignalStep(t) ==
  /\ addSignalFor(t) \/ checkIgnSigs(t) \/ unblockTarget(t) \/ (handleSignal(t) /\ ~InKernel(t))
  /\ UNCHANGED mutexVars

MutexSigSpec == MutexInit /\ [][MutexNext \/ \E t \in Threads : MutexSignalStep(t)]_allVars

(* The kernel is not preemptible, so a thread in down() or up() goes on;   *)
(* CPUs do not stay idle while a thread is ready; a holder leaves its      *)
(* outermost critical section, and time slices end.                        *)
MutexFairSpec ==
  /\ MutexSpec
  /\ WF_allVars(performIdle /\ UNCHANGED mutexVars)
  /\ \A t \in Threads :
       /\ WF_allVars(KernelStep(t) /\ UNCHANGED mutexVars)
       /\ WF_allVars(MutexStep(t))
       /\ SF_allVars(upAgain(t)) /\ SF_allVars(disown(t))
       /\ SF_allVars(preempt(t) /\ ~InKernel(t) /\ UNCHANGED mutexVars)

-----------------------------------------------------------------------------
(* assert(holder == INVALID && depth == 0) in Mutex::down: a thread that   *)
(* comes back from the semaphore finds the mutex free, and it has left the *)
(* previous holder's hands before the semaphore was given back.            *)
MutexAssert == \A t \in Threads : Acquired(t) => holder = Null /\ depth = 0

(* Every down() gets the mutex: it is handed over in the order of the      *)
(* waiter list, and no wakeup is lost between Sched::block and the switch. *)
MutexDownReturns == \A t \in Threads : pc[t] = "block" ~> holder = t
=============================================================================
