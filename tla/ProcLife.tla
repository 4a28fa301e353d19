------------------------------ MODULE ProcLife ------------------------------
(***************************************************************************)
(* The life of processes and their threads (task/proc.cc, task/thread.cc,  *)
(* task/terminator.cc): clone, startThread, terminateThread, terminate     *)
(* with its join, the terminator that kills dead threads, waitChild, kill  *)
(* and the notification of parents.                                        *)
(*                                                                         *)
(* Three mutexes and a spinlock protect them: PLOCK_PROG of every process  *)
(* (prog), childLock, procLock and refLock.  A step ends where a thread    *)
(* may have to wait for one of them; what a thread does with a mutex held  *)
(* and without waiting is one step.  The references that a thread takes on *)
(* its own process while it works are left out: its own one lasts longer.  *)
(* The terminator is the only kernel thread of process 0 that is modelled; *)
(* neither it nor its reference is in the list and the count of process 0. *)
(***************************************************************************)
EXTENDS Integers, Sequences, FiniteSets

CONSTANTS
  Procs,        \* process-ids
  Init0,        \* process 0, which gets orphans and never ends
  Threads,      \* slots for threads
  ProcOf,       \* the process of every slot
  Main,         \* the slot of the first thread of every process
  Terminator,   \* the kernel thread that kills dead threads
  Any,          \* waitChild for any child (pid -1)
  Calls,        \* the system calls that every thread may make: a bound
  Awaited,      \* the pids that every thread may wait for: a bound
  None          \* no thread

ASSUME ProcAssumption ==
  /\ Init0 \in Procs /\ Any \notin Procs
  /\ IsFiniteSet(Threads)
  /\ ProcOf \in [Threads -> Procs]
  /\ Main \in [Procs -> Threads] /\ \A p \in Procs : ProcOf[Main[p]] = p
  /\ Calls \in [Threads -> SUBSET {"clone", "startThread", "waitChild", "join"}]
  /\ Awaited \in [Threads -> SUBSET (Procs \cup {Any})]
  /\ Awaited[Main[Init0]] = {Any}        \* the init program
  /\ Terminator \notin Threads /\ None \notin Threads \cup {Terminator}

VARIABLES
  procs,        \* the list of processes
  parent,       \* parentPid
  state,        \* "free", or the flags: "alive", "prezombie", "zombie"
  killed,       \* P_KILLED: the exit state has been fetched
  refs,         \* references to the process
  threads,      \* the threads in the list of the process
  prog,         \* holder of PLOCK_PROG
  childLock, procLock, refLock,   \* their holders
  leak,         \* a thread that has returned with childLock held
  pc,           \* where a thread is
  obj,          \* the process a thread works on or waits for
  sigkill,      \* threads with a pending fatal signal
  dead          \* deadThreads of the terminator

locks == <<prog, childLock, procLock, refLock, leak>>
procvars == <<procs, parent, state, killed, refs, threads>>
vars == <<procs, parent, state, killed, refs, threads, prog, childLock, procLock,
          refLock, leak, pc, obj, sigkill, dead>>

Actors == Threads \cup {Terminator}

Init ==
  /\ procs = <<Init0>>
  /\ parent = [p \in Procs |-> Init0]
  /\ state = [p \in Procs |-> IF p = Init0 THEN "alive" ELSE "free"]
  /\ killed = [p \in Procs |-> FALSE]
  /\ refs = [p \in Procs |-> IF p = Init0 THEN 1 ELSE 0]
  /\ threads = [p \in Procs |-> IF p = Init0 THEN {Main[p]} ELSE {}]
  /\ prog = [p \in Procs |-> None]
  /\ childLock = None /\ procLock = None /\ refLock = None /\ leak = None
  /\ pc = [t \in Actors |-> IF t = Terminator THEN "idle"
                            ELSE IF t = Main[Init0] THEN "user" ELSE "free"]
  /\ obj = [t \in Actors |-> Init0]
  /\ sigkill = {}
  /\ dead = <<>>

Goto(t, l) == pc' = [pc EXCEPT ![t] = l]
GotoWith(t, l, p) == Goto(t, l) /\ obj' = [obj EXCEPT ![t] = p]

(***************************************************************************)
(* The end of a system call: Signals::checkAndStart terminates a thread    *)
(* with a fatal signal on its way back to user mode.                       *)
(***************************************************************************)
Back(t) == IF t = Terminator THEN "idle" ELSE IF t \in sigkill THEN "terminate" ELSE "user"

(* Mutex::down by t succeeds: the mutex is free or t holds it already. *)
mayLock(m, t) == m \in {None, t}

(***************************************************************************)
(* ProcBase::relRef k times, and with the last one ProcBase::remove: the   *)
(* mutex procLock is taken with the spinlock held.                         *)
(***************************************************************************)
relRef(t, p, k) ==
  /\ refLock = None
  /\ refs' = [refs EXCEPT ![p] = @ - k]
  /\ IF refs[p] = k
     THEN refLock' = t /\ GotoWith(t, "remove", p)
     ELSE refLock' = refLock /\ GotoWith(t, Back(t), Init0)

(* Variant: the process stays in the list. *)
remove_listed(t) ==
  /\ pc[t] = "remove"
  /\ procLock = None
  /\ state' = [state EXCEPT ![obj[t]] = "free"]
  /\ parent' = [parent EXCEPT ![obj[t]] = Init0]
  /\ killed' = [killed EXCEPT ![obj[t]] = FALSE]
  /\ refLock' = None
  /\ prog' = [p \in Procs |-> IF prog[p] = t THEN None ELSE prog[p]]
  /\ GotoWith(t, Back(t), Init0)
  /\ UNCHANGED <<procs, refs, threads, childLock, procLock, leak, sigkill, dead>>

remove(t) ==
  /\ pc[t] = "remove"
  /\ procLock = None
  /\ \E i \in 1..Len(procs) :
       /\ procs[i] = obj[t]
       /\ procs' = [j \in 1..(Len(procs) - 1) |-> procs[IF j < i THEN j ELSE j + 1]]
  /\ state' = [state EXCEPT ![obj[t]] = "free"]
  /\ parent' = [parent EXCEPT ![obj[t]] = Init0]
  /\ killed' = [killed EXCEPT ![obj[t]] = FALSE]
  /\ refLock' = None
  /\ prog' = [p \in Procs |-> IF prog[p] = t THEN None ELSE prog[p]]
  /\ GotoWith(t, Back(t), Init0)
  /\ UNCHANGED <<refs, threads, childLock, procLock, leak, sigkill, dead>>

(***************************************************************************)
(* ProcBase::clone, with PLOCK_PROG of the parent held all the time.  Any  *)
(* step after the new process is known may fail.                           *)
(***************************************************************************)
clone(t) ==
  /\ pc[t] = "user"
  /\ prog[ProcOf[t]] = None
  /\ state[ProcOf[t]] = "alive"
  /\ prog' = [prog EXCEPT ![ProcOf[t]] = t]
  /\ Goto(t, "clone")
  /\ UNCHANGED <<procvars, childLock, procLock, refLock, leak, obj, sigkill, dead>>

cloneAdd(t) ==
  /\ pc[t] = "clone"
  /\ procLock = None
  /\ \/ \E p \in Procs :
          /\ state[p] = "free"
          /\ procs' = Append(procs, p)
          /\ state' = [state EXCEPT ![p] = "alive"]
          /\ parent' = [parent EXCEPT ![p] = ProcOf[t]]
          /\ refs' = [refs EXCEPT ![p] = 1]
          /\ GotoWith(t, "cloneThread", p)
          /\ UNCHANGED prog
     \/ /\ \A p \in Procs : state[p] # "free"
        /\ prog' = [prog EXCEPT ![ProcOf[t]] = None]
        /\ Goto(t, Back(t))
        /\ UNCHANGED <<procs, state, parent, refs, obj>>
  /\ UNCHANGED <<killed, threads, childLock, procLock, refLock, leak, sigkill, dead>>

newThread(t, p, n) ==
  /\ pc[n] = "free"
  /\ refLock = None
  /\ refs' = [refs EXCEPT ![p] = @ + 1]
  /\ threads' = [threads EXCEPT ![p] = @ \cup {n}]
  /\ pc' = [pc EXCEPT ![t] = Back(t), ![n] = "user"]
  /\ sigkill' = sigkill \ {n}

cloneThread(t) ==
  /\ pc[t] = "cloneThread"
  /\ newThread(t, obj[t], Main[obj[t]])
  /\ obj' = [obj EXCEPT ![t] = Init0]
  /\ prog' = [prog EXCEPT ![ProcOf[t]] = None]
  /\ UNCHANGED <<procs, parent, state, killed, childLock, procLock, refLock, leak, dead>>

cloneFail(t) ==
  /\ pc[t] = "cloneThread"
  /\ relRef(t, obj[t], 1)
  /\ UNCHANGED <<procs, parent, state, killed, threads, prog, childLock, procLock,
                 leak, sigkill, dead>>

(***************************************************************************)
(* ProcBase::startThread tests the flags of the process before it takes    *)
(* the lock.                                                               *)
(***************************************************************************)
startThread(t) ==
  /\ pc[t] = "user"
  /\ state[ProcOf[t]] = "alive"
  /\ Goto(t, "start")
  /\ UNCHANGED <<procvars, locks, obj, sigkill, dead>>

startLocked(t) ==
  /\ pc[t] = "start"
  /\ prog[ProcOf[t]] = None
  /\ \/ \E n \in Threads : ProcOf[n] = ProcOf[t] /\ newThread(t, ProcOf[t], n)
     \/ /\ \A n \in Threads : ProcOf[n] = ProcOf[t] => pc[n] # "free"
        /\ Goto(t, Back(t))
        /\ UNCHANGED <<refs, threads, sigkill>>
  /\ UNCHANGED <<procs, parent, state, killed, locks, obj, dead>>

(* Sched::wakeup for the threads of p that sleep at label l. *)
Woken(p, l, next) ==
  [t \in Actors |->
     IF t \in Threads /\ ProcOf[t] = p /\ pc[t] = l THEN next ELSE pc[t]]

(* Sched::perform: a thread with a pending signal does not fall asleep. *)
Asleep(t, sleep, woken) == IF t \in sigkill THEN woken ELSE sleep

(***************************************************************************)
(* ProcBase::waitChild for the child q or Any, and getExitState, which     *)
(* takes procLock with childLock held.  The first zombie of the list is    *)
(* taken and P_KILLED marks it.  Process 0 is its own parent.  The thread  *)
(* waits for the event before it gives childLock back.  The test           *)
(* after a sleep returns an error without giving childLock back.           *)
(***************************************************************************)
Children(p, q) == {c \in Procs : state[c] # "free" /\ parent[c] = p /\ q \in {Any, c}}
(* Variant: P_KILLED is not looked at. *)
Reapable_again(p, q) == {c \in Children(p, q) : state[c] = "zombie"}
Reapable(p, q) == {c \in Children(p, q) : state[c] = "zombie" /\ ~killed[c]}

getExitState(t, q) ==
  \/ \E i \in 1..Len(procs) :
       /\ procs[i] \in Reapable(ProcOf[t], q)
       /\ \A j \in 1..(i - 1) : procs[j] \notin Reapable(ProcOf[t], q)
       /\ killed' = [killed EXCEPT ![procs[i]] = TRUE]
       /\ GotoWith(t, "kill", procs[i])
       /\ UNCHANGED <<childLock, leak>>
  \/ /\ Reapable(ProcOf[t], q) = {}
     /\ Children(ProcOf[t], q) # {}
     /\ childLock' = t
     /\ GotoWith(t, "childWait", q)
     /\ UNCHANGED <<killed, leak>>

waitChild(t, q) ==
  /\ pc[t] = "user"
  /\ mayLock(childLock, t)
  /\ procLock = None
  /\ Children(ProcOf[t], q) # {}
  /\ getExitState(t, q)
  /\ UNCHANGED <<procs, parent, state, refs, threads, prog, procLock, refLock, sigkill, dead>>

waitSleep(t) ==
  /\ pc[t] = "childWait"
  /\ childLock' = leak
  /\ Goto(t, Asleep(t, "childSleep", "childWoken"))
  /\ UNCHANGED <<procvars, prog, procLock, refLock, leak, obj, sigkill, dead>>

waitAgain(t) ==
  /\ pc[t] = "childWoken"
  /\ \/ /\ t \in sigkill
        /\ GotoWith(t, Back(t), Init0)
        /\ UNCHANGED <<killed, childLock, leak>>
     \/ /\ t \notin sigkill
        /\ mayLock(childLock, t)
        /\ procLock = None
        /\ \/ getExitState(t, obj[t])
           \/ /\ Children(ProcOf[t], obj[t]) = {}
              /\ childLock' = t /\ leak' = t
              /\ GotoWith(t, Back(t), Init0)
              /\ UNCHANGED killed
  /\ UNCHANGED <<procs, parent, state, refs, threads, prog, procLock, refLock, sigkill, dead>>

(***************************************************************************)
(* ProcBase::kill of the child obj[t]: its PLOCK_PROG, then childLock and  *)
(* procLock, then PLOCK_PROG of process 0 if a zombie is handed over to    *)
(* it.                                                                     *)
(***************************************************************************)
(* Variant: the process is used without a reference. *)
kill_noRef(t) ==
  /\ pc[t] = "kill"
  /\ prog[obj[t]] = None
  /\ prog' = [prog EXCEPT ![obj[t]] = t]
  /\ Goto(t, "killChilds")
  /\ UNCHANGED <<procvars, childLock, procLock, refLock, leak, obj, sigkill, dead>>

kill(t) ==
  /\ pc[t] = "kill"
  /\ prog[obj[t]] = None
  /\ refLock = None
  /\ prog' = [prog EXCEPT ![obj[t]] = t]
  /\ refs' = [refs EXCEPT ![obj[t]] = @ + 1]
  /\ Goto(t, "killChilds")
  /\ UNCHANGED <<procs, parent, state, killed, threads, childLock, procLock, refLock,
                 leak, obj, sigkill, dead>>

killChilds(t) ==
  LET orphans == {c \in Procs : state[c] # "free" /\ parent[c] = obj[t]}
  IN /\ pc[t] = "killChilds"
     /\ mayLock(childLock, t)
     /\ procLock = None
     /\ childLock' = t /\ procLock' = t
     /\ parent' = [c \in Procs |-> IF c \in orphans THEN Init0 ELSE parent[c]]
     /\ Goto(t, IF \E c \in orphans : state[c] = "zombie"
                THEN "killNotify" ELSE "killUnlock")
     /\ UNCHANGED <<procs, state, killed, refs, threads, prog, refLock, leak, obj,
                    sigkill, dead>>

(* notifyProcDied(0): SIGCHLD is ignored by default. *)
killNotify(t) ==
  /\ pc[t] = "killNotify"
  /\ refLock = None
  /\ prog[Init0] = None
  /\ pc' = [Woken(Init0, "childSleep", "childWoken") EXCEPT ![t] = "killUnlock"]
  /\ UNCHANGED <<procvars, locks, obj, sigkill, dead>>

killUnlock(t) ==
  /\ pc[t] = "killUnlock"
  /\ procLock' = None
  /\ childLock' = leak
  /\ Goto(t, "killRelease")
  /\ UNCHANGED <<procvars, prog, refLock, leak, obj, sigkill, dead>>

(* The reference of the process itself and the one of kill. *)
killRelease(t) ==
  /\ pc[t] = "killRelease"
  /\ relRef(t, obj[t], 2)
  /\ prog' = [prog EXCEPT ![obj[t]] = None]
  /\ UNCHANGED <<procs, parent, state, killed, threads, childLock, procLock, leak,
                 sigkill, dead>>

(* Signals::addSignalFor: a fatal signal wakes up the threads S. *)
Signalled(S) ==
  [t \in Actors |->
     IF t \in S /\ pc[t] = "childSleep" THEN "childWoken"
     ELSE IF t \in S /\ pc[t] = "joinSleep" THEN "joinWoken" ELSE pc[t]]

(* ProcBase::addSignalFor, called by some other process. *)
addSignalFor(p) ==
  /\ p # Init0
  /\ prog[p] = None
  /\ state[p] = "alive"
  /\ sigkill' = sigkill \cup threads[p]
  /\ pc' = Signalled(threads[p])
  /\ UNCHANGED <<procvars, locks, obj, dead>>

(* ThreadBase::terminate with the switch that follows. *)
threadTerminate(t) ==
  /\ dead' = Append(dead, t)
  /\ Goto(t, "zombie")

terminateThread(t) ==
  /\ pc[t] = "user"
  /\ ProcOf[t] # Init0
  /\ prog[ProcOf[t]] = None
  /\ IF Cardinality(threads[ProcOf[t]]) = 1
     THEN Goto(t, "terminate") /\ UNCHANGED dead
     ELSE threadTerminate(t)
  /\ UNCHANGED <<procvars, locks, obj, sigkill>>

(* Signals::checkAndStart when a thread in user mode is interrupted. *)
handleSignal(t) ==
  /\ pc[t] = "user"
  /\ t \in sigkill
  /\ Goto(t, "terminate")
  /\ UNCHANGED <<procvars, locks, obj, sigkill, dead>>

(***************************************************************************)
(* ProcBase::terminate: SIGKILL to the other threads, join(0) without      *)
(* signals, and then the resources are released and the last thread ends.  *)
(***************************************************************************)
terminate(t) ==
  LET p == ProcOf[t]
  IN /\ pc[t] = "terminate"
     /\ prog[p] = None
     /\ \/ /\ state[p] = "alive"
           /\ sigkill' = sigkill \cup (threads[p] \ {t})
           /\ pc' = [Signalled(threads[p] \ {t}) EXCEPT ![t] = "joinAll"]
           /\ state' = [state EXCEPT ![p] = "prezombie"]
           /\ UNCHANGED dead
        \/ /\ state[p] # "alive"
           /\ threadTerminate(t)
           /\ UNCHANGED <<sigkill, state>>
     /\ UNCHANGED <<procs, parent, killed, refs, threads, locks, obj>>

(* Variants: join waits for the caller too, or leaves one thread over. *)
joinAll_self(t) ==
  /\ pc[t] = "joinAll"
  /\ prog[ProcOf[t]] = None
  /\ Goto(t, IF Cardinality(threads[ProcOf[t]]) > 0 THEN "joinAllSleep" ELSE "release")
  /\ UNCHANGED <<procvars, locks, obj, sigkill, dead>>

joinAll_early(t) ==
  /\ pc[t] = "joinAll"
  /\ prog[ProcOf[t]] = None
  /\ Goto(t, IF Cardinality(threads[ProcOf[t]]) > 2 THEN "joinAllSleep" ELSE "release")
  /\ UNCHANGED <<procvars, locks, obj, sigkill, dead>>

(* join(0,false) of terminate. *)
joinAll(t) ==
  /\ pc[t] = "joinAll"
  /\ prog[ProcOf[t]] = None
  /\ Goto(t, IF Cardinality(threads[ProcOf[t]]) > 1 THEN "joinAllSleep" ELSE "release")
  /\ UNCHANGED <<procvars, locks, obj, sigkill, dead>>

release(t) ==
  /\ pc[t] = "release"
  /\ prog[ProcOf[t]] = None
  /\ threadTerminate(t)
  /\ UNCHANGED <<procvars, locks, obj, sigkill>>

(* join(0,true), the system call. *)
join(t) ==
  /\ \/ /\ pc[t] = "joinWoken"
        /\ t \in sigkill
        /\ Goto(t, Back(t))
     \/ /\ \/ pc[t] = "user"
           \/ pc[t] = "joinWoken" /\ t \notin sigkill
        /\ prog[ProcOf[t]] = None
        /\ Goto(t, IF Cardinality(threads[ProcOf[t]]) > 1
                   THEN Asleep(t, "joinSleep", "joinWoken") ELSE Back(t))
  /\ UNCHANGED <<procvars, locks, obj, sigkill, dead>>

(***************************************************************************)
(* Terminator::start and ProcBase::killThread.  Thread::kill wakes up the  *)
(* joining threads; the last thread makes the process a zombie, and its    *)
(* parent is notified with PLOCK_PROG of the child and childLock held.     *)
(***************************************************************************)
killThread ==
  LET t == Head(dead)
      p == ProcOf[t]
      last == threads[p] = {t}
  IN /\ pc[Terminator] = "idle"
     /\ dead # <<>>
     /\ pc[t] = "zombie"
     /\ prog[p] = None
     /\ refLock = None
     /\ dead' = Tail(dead)
     /\ prog' = [prog EXCEPT ![p] = Terminator]
     /\ threads' = [threads EXCEPT ![p] = @ \ {t}]
     /\ refs' = [refs EXCEPT ![p] = @ + 1 - 1]
     /\ state' = [state EXCEPT ![p] = IF last THEN "zombie" ELSE @]
     /\ pc' = [s \in Actors |->
                 CASE s = Terminator -> IF last THEN "notify" ELSE "unlock"
                   [] s = t -> "free"
                   [] s \in threads[p] \ {t} /\ pc[s] = "joinSleep" -> "joinWoken"
                   [] s \in threads[p] \ {t} /\ pc[s] = "joinAllSleep" -> "joinAll"
                   [] OTHER -> pc[s]]
     /\ obj' = [obj EXCEPT ![Terminator] = p]
     /\ sigkill' = sigkill \ {t}
     /\ UNCHANGED <<procs, parent, killed, childLock, procLock, refLock, leak>>

(* Variant: the parent is notified without childLock. *)
notify_unlocked ==
  /\ pc[Terminator] = "notify"
  /\ Goto(Terminator, "notifyProcDied")
  /\ UNCHANGED <<procvars, locks, obj, sigkill, dead>>

notify ==
  /\ pc[Terminator] = "notify"
  /\ childLock = None
  /\ childLock' = Terminator
  /\ Goto(Terminator, "notifyProcDied")
  /\ UNCHANGED <<procvars, prog, procLock, refLock, leak, obj, sigkill, dead>>

notifyProcDied ==
  LET q == parent[obj[Terminator]]
  IN /\ pc[Terminator] = "notifyProcDied"
     /\ refLock = None
     /\ prog[q] = None
     /\ pc' = [Woken(q, "childSleep", "childWoken") EXCEPT ![Terminator] = "unlock"]
     /\ childLock' = None
     /\ UNCHANGED <<procvars, prog, procLock, refLock, leak, obj, sigkill, dead>>

killThreadUnlock ==
  /\ pc[Terminator] = "unlock"
  /\ prog' = [prog EXCEPT ![obj[Terminator]] = None]
  /\ Goto(Terminator, "release")
  /\ UNCHANGED <<procvars, childLock, procLock, refLock, leak, obj, sigkill, dead>>

killThreadRelease ==
  /\ pc[Terminator] = "release"
  /\ relRef(Terminator, obj[Terminator], 1)
  /\ UNCHANGED <<procs, parent, state, killed, threads, prog, childLock, procLock,
                 leak, sigkill, dead>>

(* What a thread decides in user mode, and what it has to finish. *)
Call(t) ==
  \/ "clone" \in Calls[t] /\ clone(t)
  \/ "startThread" \in Calls[t] /\ startThread(t)
  \/ "waitChild" \in Calls[t] /\ \E q \in Awaited[t] : waitChild(t, q)
  \/ "join" \in Calls[t] /\ pc[t] = "user" /\ join(t)
  \/ terminateThread(t)

Kernel(t) ==
  \/ cloneAdd(t) \/ cloneThread(t) \/ cloneFail(t) \/ startLocked(t)
  \/ waitSleep(t) \/ waitAgain(t) \/ kill(t) \/ killChilds(t) \/ killNotify(t)
  \/ killUnlock(t) \/ killRelease(t) \/ remove(t)
  \/ handleSignal(t) \/ terminate(t) \/ joinAll(t) \/ release(t)
  \/ pc[t] # "user" /\ join(t)

TerminatorStep ==
  \/ killThread \/ notify \/ notifyProcDied \/ killThreadUnlock
  \/ killThreadRelease \/ remove(Terminator)

Next ==
  \/ \E t \in Threads : Call(t) \/ Kernel(t)
  \/ \E p \in Procs : addSignalFor(p)
  \/ TerminatorStep

(***************************************************************************)
(* The scheduler runs every thread that can go on, and the mutexes hand    *)
(* over to the first waiter.  A thread that spins on refLock gets it in    *)
(* the end although others take it again and again: the terminator and a   *)
(* thread that starts another one need that, as the rest of the system may *)
(* clone and reap for ever.  Process 0 runs the init program, whose loop   *)
(* waits for any child.                                                    *)
(***************************************************************************)
Starters == {t \in Threads : "startThread" \in Calls[t]}

Fairness ==
  /\ \A t \in Threads : WF_vars(Kernel(t))
  /\ \A t \in Starters : SF_vars(startLocked(t))
  /\ SF_vars(TerminatorStep)
  /\ SF_vars(waitChild(Main[Init0], Any))

Spec == Init /\ [][Next]_vars /\ Fairness

-----------------------------------------------------------------------------
ThreadLabels ==
  {"free", "user", "clone", "cloneThread", "start", "childWait", "childSleep",
   "childWoken", "kill", "killChilds", "killNotify", "killUnlock", "killRelease", "remove",
   "terminate", "joinAll", "joinAllSleep", "release", "joinSleep", "joinWoken",
   "zombie"}
TerminatorLabels ==
  {"idle", "notify", "notifyProcDied", "unlock", "release", "remove"}

(* Every variable has its type. *)
TypeOK ==
  /\ procs \in Seq(Procs)
  /\ {procs[i] : i \in 1..Len(procs)} = {p \in Procs : state[p] # "free"}
  /\ parent \in [Procs -> Procs]
  /\ state \in [Procs -> {"free", "alive", "prezombie", "zombie"}]
  /\ killed \in [Procs -> BOOLEAN]
  /\ refs \in [Procs -> Nat]
  /\ threads \in [Procs -> SUBSET Threads]
  /\ prog \in [Procs -> Actors \cup {None}]
  /\ {childLock, procLock, refLock} \subseteq Actors \cup {None}
  /\ leak \in Threads \cup {None}
  /\ \A t \in Threads : pc[t] \in ThreadLabels /\ obj[t] \in Procs \cup {Any}
  /\ pc[Terminator] \in TerminatorLabels /\ obj[Terminator] \in Procs
  /\ sigkill \in SUBSET Threads
  /\ dead \in Seq(Threads)

Killing(t) == pc[t] \in {"killChilds", "killNotify", "killUnlock", "killRelease"}
Reaping(t) == pc[t] = "kill" \/ Killing(t)

(***************************************************************************)
(* The reference count of a process is the number of its users: itself     *)
(* until kill is done with it, its threads, the terminator in killThread   *)
(* and the parent in kill.  Only the first thread of process 0 holds none, *)
(* since createInitial takes no reference as create does.  So the Proc     *)
(* object lasts as long as somebody uses it, however kill, killThread and  *)
(* a failing clone interleave (getRef, relRef).                            *)
(***************************************************************************)
RefsExact ==
  \A p \in Procs : state[p] # "free" =>
    LET gone == \/ \E a \in Actors : pc[a] = "remove" /\ obj[a] = p
                \/ killed[p] /\ ~ \E t \in Threads : Reaping(t) /\ obj[t] = p
    IN refs[p] = (IF gone THEN 0 ELSE 1) + Cardinality(threads[p] \ {Main[Init0]})
                 + Cardinality({t \in Threads : Killing(t) /\ obj[t] = p})
                 + (IF pc[Terminator] \in TerminatorLabels \ {"idle", "remove"}
                       /\ obj[Terminator] = p THEN 1 ELSE 0)

(***************************************************************************)
(* A thread that sleeps in waitChild while a child that it waits for is a  *)
(* zombie will be woken up: the terminator is about to notify the parent,  *)
(* or kill is about to notify process 0 of an orphan.  That is what        *)
(* childLock is for ("ensure that the parent-wakeup doesn't get lost").    *)
(***************************************************************************)
ChildWakeupNotLost ==
  \A t \in Threads : pc[t] = "childSleep" =>
    \A c \in Reapable(ProcOf[t], obj[t]) :
      \/ pc[Terminator] \in {"notify", "notifyProcDied"} /\ obj[Terminator] = c
      \/ ProcOf[t] = Init0 /\ \E s \in Threads : pc[s] = "killNotify"

(***************************************************************************)
(* A thread that sleeps in join has another thread to wait for: the one    *)
(* that ends last wakes it up before the list is left with one thread      *)
(* (join, ThreadBase::kill).                                               *)
(***************************************************************************)
JoinWakeupNotLost ==
  \A t \in Threads : pc[t] \in {"joinSleep", "joinAllSleep"} =>
    threads[ProcOf[t]] \ {t} # {}

(***************************************************************************)
(* No two threads kill the same process, and a process that is killed is a *)
(* zombie without threads whose parent is the killer's process, even when  *)
(* several threads of the parent wait or the process id is used again      *)
(* (P_KILLED in getExitState).                                             *)
(***************************************************************************)
KilledOnce ==
  \A t \in Threads : Reaping(t) =>
    /\ state[obj[t]] = "zombie" /\ killed[obj[t]]
    /\ threads[obj[t]] = {}
    /\ parent[obj[t]] = ProcOf[t]
    /\ \A s \in Threads \ {t} : Reaping(s) => obj[s] # obj[t]

(***************************************************************************)
(* The resources of a process are released by its only thread: no thread   *)
(* is started between the join of terminate and the release, although      *)
(* startThread looks at the flags before it has the lock                   *)
(* (assert(p->threads.length() == 1)).                                     *)
(***************************************************************************)
ReleasesAlone ==
  \A t \in Threads : pc[t] = "release" => threads[ProcOf[t]] = {t}

(***************************************************************************)
(* Locks that are never given back.  waitChild has returned with           *)
(* childLock; or two holders wait for each other: killThread has childLock *)
(* and waits for PLOCK_PROG of the parent while kill of this parent has it *)
(* and waits for childLock; kill has procLock and waits for PLOCK_PROG of  *)
(* process 0 while a clone in process 0 has it and waits for procLock; or  *)
(* kill has procLock and waits for refLock while remove has it.            *)
(***************************************************************************)
Stuck ==
  \/ leak # None
  \/ /\ pc[Terminator] = "notifyProcDied"
     /\ \E t \in Threads : pc[t] = "killChilds" /\ obj[t] = parent[obj[Terminator]]
  \/ \E s, t \in Threads : pc[s] = "killNotify" /\ pc[t] = "clone" /\ ProcOf[t] = Init0
  \/ \E s \in Threads, a \in Actors : pc[s] = "killNotify" /\ pc[a] = "remove"

(***************************************************************************)
(* A process that terminates ends: its other threads die, the join of      *)
(* terminate returns, the terminator makes it a zombie, and when its       *)
(* parent is process 0 (from the start or as an orphan) it is removed.     *)
(* Excepted are stuck locks, a parent that does not wait for its child,    *)
(* and a late thread, which is started after terminate has sent its        *)
(* signals because startThread tested the flags before.                    *)
(***************************************************************************)
Late(p) ==
  \E n \in threads[p] \ sigkill :
    pc[n] \notin {"terminate", "joinAll", "joinAllSleep", "release", "zombie"}

Ending(p) == state[p] = "prezombie" \/ (state[p] = "zombie" /\ parent[p] = Init0)

ProcessesEnd ==
  \A p \in Procs \ {Init0} :
    Ending(p) ~> \/ state[p] = "free" \/ Stuck
                 \/ state[p] = "zombie" /\ parent[p] # Init0
                 \/ Late(p)

(* Nothing is explored after a thread has kept childLock. *)
LockReturned == leak = None
=============================================================================
