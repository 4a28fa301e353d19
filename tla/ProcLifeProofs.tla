--------------------------- MODULE ProcLifeProofs ---------------------------
(***************************************************************************)
(* The life of processes, for any number of processes and threads.  First, *)
(* no wakeup is lost: a thread that sleeps in waitChild with a zombie to   *)
(* fetch is about to be notified, and one that sleeps in join has another  *)
(* thread to wait for.  Then the references of a process are its users, a  *)
(* process is killed once and its resources are released by its only       *)
(* thread.                                                                 *)
(***************************************************************************)
EXTENDS ProcLife, FiniteSetTheorems, TLAPS

Labels == ThreadLabels \cup TerminatorLabels

(* What the provers need to know of the variables. *)
Types ==
  /\ pc \in [Actors -> Labels]
  /\ obj = [a \in Actors |-> obj[a]]
  /\ obj[Terminator] \in Procs
  /\ parent \in [Procs -> Procs]
  /\ state \in [Procs -> {"free", "alive", "prezombie", "zombie"}]
  /\ killed \in [Procs -> BOOLEAN]
  /\ threads \in [Procs -> SUBSET Threads]
  /\ dead \in Seq(Threads)
  /\ leak \in Threads \cup {None}
  /\ \A t \in Threads : pc[t] = "cloneThread" => obj[t] \in Procs

(* A thread that exists is in the list of its process. *)
Listed ==
  \A t \in Threads : pc[t] # "free" => t \in threads[ProcOf[t]]

(* childLock is held where the code holds it, and for ever once it leaked. *)
ChildLockHeld ==
  /\ \A t \in Threads : pc[t] \in {"childWait", "killNotify", "killUnlock"} => childLock = t
  /\ pc[Terminator] = "notifyProcDied" => childLock = Terminator
  /\ leak # None => childLock = leak

(***************************************************************************)
(* Between the test of waitChild and its sleep a child can only become a   *)
(* zombie that the terminator has not yet notified the parent of.          *)
(***************************************************************************)
WaitsInTime ==
  \A t \in Threads : pc[t] = "childWait" =>
    \A c \in Reapable(ProcOf[t], obj[t]) :
      pc[Terminator] = "notify" /\ obj[Terminator] = c

WakeupInv ==
  /\ Types /\ Listed /\ ChildLockHeld
  /\ WaitsInTime /\ ChildWakeupNotLost /\ JoinWakeupNotLost

-----------------------------------------------------------------------------
(* A list with another thread than t keeps join(0) waiting, and no other. *)
LEMMA JoinTest ==
  ASSUME NEW S, NEW t, Cardinality(S) > 1
  PROVE  S \ {t} # {}
<1>1. S # {} BY FS_EmptySet
<1>2. S # {t} BY FS_Singleton
<1> QED BY <1>1, <1>2, Zenon

(***************************************************************************)
(* A quiet step moves actors between labels where no lock or wakeup is at  *)
(* stake, makes no process a zombie and takes no thread from its list.     *)
(***************************************************************************)
LoudFrom == {"childWait", "killNotify", "killUnlock", "notify", "notifyProcDied"}
LoudTo == LoudFrom \cup {"childSleep", "free"}

QuietMove(b) ==
  \/ pc'[b] = pc[b] /\ obj'[b] = obj[b]
  \/ /\ pc[b] \notin LoudFrom /\ pc'[b] \notin LoudTo
     /\ pc'[b] = "cloneThread" => obj'[b] \in Procs
     /\ b \in Threads => b \in threads'[ProcOf[b]]

Quiet ==
  /\ pc' \in [Actors -> Labels]
  /\ obj' = [b \in Actors |-> obj'[b]]
  /\ obj'[Terminator] \in Procs
  /\ parent' \in [Procs -> Procs]
  /\ state' \in [Procs -> {"free", "alive", "prezombie", "zombie"}]
  /\ killed' \in [Procs -> BOOLEAN]
  /\ threads' \in [Procs -> SUBSET Threads]
  /\ dead' \in Seq(Threads)
  /\ \A b \in Actors : QuietMove(b)
  /\ \A c \in Procs : state'[c] = "zombie" /\ ~killed'[c] =>
       state[c] = "zombie" /\ ~killed[c] /\ parent'[c] = parent[c]
  /\ \A p \in Procs : threads[p] \subseteq threads'[p]
  /\ \A t \in Threads : pc'[t] \in {"joinSleep", "joinAllSleep"} =>
       pc'[t] = pc[t] \/ threads'[ProcOf[t]] \ {t} # {}
  /\ childLock' = childLock /\ leak' = leak

(* What the proofs use of the constants. *)
LEMMA ActorFacts ==
  /\ Terminator \in Actors /\ Threads \subseteq Actors /\ Terminator \notin Threads
  /\ Init0 \in Procs /\ \A t \in Threads : ProcOf[t] \in Procs
  /\ \A p \in Procs : Main[p] \in Threads /\ ProcOf[Main[p]] = p
  /\ None \notin Threads /\ None # Terminator
BY ProcAssumption, Zenon DEF Actors

(* A quiet step keeps every part of the invariant. *)
LEMMA QuietStep ==
  ASSUME WakeupInv, Quiet
  PROVE  WakeupInv'
<1> USE DEF Labels, ThreadLabels, TerminatorLabels, LoudTo, LoudFrom
<1>0. /\ Types /\ Listed /\ ChildLockHeld
      /\ WaitsInTime /\ ChildWakeupNotLost /\ JoinWakeupNotLost
  BY Zenon DEF WakeupInv
<1>1. Terminator \in Actors /\ Threads \subseteq Actors /\ Terminator \notin Threads
      /\ \A t \in Threads : ProcOf[t] \in Procs
  BY ActorFacts, Zenon
<1>2. Types'
  BY <1>0, <1>1, Zenon DEF Types, Quiet, QuietMove
<1>3. Listed'
  BY <1>0, <1>1, Zenon DEF Listed, Types, Quiet, QuietMove
<1>4. ChildLockHeld'
  BY <1>0, <1>1, Zenon DEF ChildLockHeld, Types, Quiet, QuietMove
<1>5. /\ pc[Terminator] \in {"notify", "notifyProcDied"} =>
           pc'[Terminator] = pc[Terminator] /\ obj'[Terminator] = obj[Terminator]
      /\ \A s \in Threads : pc[s] = "killNotify" => pc'[s] = "killNotify"
  BY <1>0, <1>1, Zenon DEF Types, Quiet, QuietMove
<1>6. \A t \in Threads : pc'[t] \in {"childWait", "childSleep"} =>
        /\ pc[t] = pc'[t] /\ obj'[t] = obj[t]
        /\ Reapable(ProcOf[t], obj[t])' \subseteq Reapable(ProcOf[t], obj[t])
  BY <1>0, <1>1, Zenon DEF Types, Reapable, Children, Quiet, QuietMove
<1>7. WaitsInTime'
  BY <1>0, <1>5, <1>6, Zenon DEF WaitsInTime
<1>8. ChildWakeupNotLost'
  BY <1>0, <1>5, <1>6, Zenon DEF ChildWakeupNotLost
<1>9. JoinWakeupNotLost'
  BY <1>0, <1>1 DEF JoinWakeupNotLost, Types, Quiet
<1> QED BY <1>2, <1>3, <1>4, <1>7, <1>8, <1>9, Zenon DEF WakeupInv

(* The initial state. *)
LEMMA InitWakeup == Init => WakeupInv
BY ONLY ActorFacts
DEF Init, WakeupInv, Types, Listed, ChildLockHeld, WaitsInTime, ChildWakeupNotLost,
    JoinWakeupNotLost, Labels, ThreadLabels, TerminatorLabels, Actors

(* Cloning and starting threads: lists of threads grow. *)
LEMMA CloneStep ==
  ASSUME WakeupInv, NEW t \in Threads,
         clone(t) \/ cloneAdd(t) \/ cloneThread(t) \/ cloneFail(t)
  PROVE  WakeupInv'
<1> USE ActorFacts DEF Labels, ThreadLabels, TerminatorLabels, LoudTo, LoudFrom, Goto,
      GotoWith, Back, WakeupInv, Types, Listed, QuietMove, Quiet, procvars
<1>1. CASE clone(t)
  <2>1. Quiet BY <1>1, Zenon DEF clone
  <2> QED BY <2>1, QuietStep, Zenon
<1>2. CASE cloneAdd(t)
  <2>1. ASSUME NEW p \in Procs, state[p] = "free",
               state' = [state EXCEPT ![p] = "alive"],
               parent' = [parent EXCEPT ![p] = ProcOf[t]],
               GotoWith(t, "cloneThread", p)
        PROVE  Quiet
    <3>1. \A b \in Actors : QuietMove(b) BY <1>2, <2>1, Zenon DEF cloneAdd
    <3>2. \A c \in Procs : state'[c] = "zombie" =>
            state[c] = "zombie" /\ parent'[c] = parent[c]
      BY <2>1, Zenon
    <3>3. /\ pc' \in [Actors -> Labels]
          /\ obj' = [b \in Actors |-> obj'[b]] /\ obj'[Terminator] \in Procs
          /\ pc'[t] = "cloneThread"
          /\ \A s \in Threads \ {t} : pc'[s] = pc[s]
      BY <2>1, Zenon
    <3>4. /\ parent' \in [Procs -> Procs]
          /\ state' \in [Procs -> {"free", "alive", "prezombie", "zombie"}]
      BY <2>1, Zenon
    <3>5. UNCHANGED <<killed, threads, dead, childLock, leak>> BY <1>2, Zenon DEF cloneAdd
    <3> QED BY <3>1, <3>2, <3>3, <3>4, <3>5, Zenon
  <2>2. CASE Goto(t, Back(t)) /\ UNCHANGED <<state, parent, obj>>
    <3>1. Quiet BY <1>2, <2>2, Zenon DEF cloneAdd
    <3> QED BY <3>1, QuietStep, Zenon
  <2> QED BY <1>2, <2>1, <2>2, QuietStep, Zenon DEF cloneAdd
<1>3. CASE cloneThread(t)
  <2> DEFINE p == obj[t]
             n == Main[p]
  <2>1. /\ pc[t] = "cloneThread" /\ p \in Procs /\ pc[n] = "free"
        /\ pc' = [pc EXCEPT ![t] = Back(t), ![n] = "user"]
        /\ threads' = [threads EXCEPT ![p] = @ \cup {n}]
        /\ obj' = [obj EXCEPT ![t] = Init0]
        /\ UNCHANGED <<parent, state, killed, dead, childLock, leak>>
    BY <1>3, Zenon DEF cloneThread, newThread
  <2>2. n \in Threads /\ n # t /\ ProcOf[n] = p BY <2>1, Zenon
  <2> HIDE DEF n, p
  <2>3. \A b \in Actors : QuietMove(b) BY <2>1, <2>2, Zenon
  <2>4. /\ pc' \in [Actors -> Labels] /\ obj' = [b \in Actors |-> obj'[b]]
        /\ obj'[Terminator] \in Procs
    BY <2>1, <2>2, Zenon
  <2>5. \A s \in Threads : pc'[s] \in {"joinSleep", "joinAllSleep"} => pc'[s] = pc[s]
    BY <2>1, <2>2, Zenon
  <2>6. /\ threads' \in [Procs -> SUBSET Threads]
        /\ \A q \in Procs : threads[q] \subseteq threads'[q]
    BY <2>1, <2>2, Zenon
  <2>7. Quiet BY <2>1, <2>3, <2>4, <2>5, <2>6, Zenon
  <2> QED BY <2>7, QuietStep, Zenon
<1>4. CASE cloneFail(t)
  <2>1. Quiet BY <1>4 DEF cloneFail, relRef
  <2> QED BY <2>1, QuietStep, Zenon
<1> QED BY <1>1, <1>2, <1>3, <1>4, Zenon

(* startThread adds a thread to the list of its process. *)
LEMMA StartStep ==
  ASSUME WakeupInv, NEW t \in Threads,
         startThread(t) \/ startLocked(t)
  PROVE  WakeupInv'
<1> USE ActorFacts DEF Labels, ThreadLabels, TerminatorLabels, LoudTo, LoudFrom, Goto,
      Back, WakeupInv, Types, Listed, QuietMove, Quiet, procvars, locks
<1>1. CASE startThread(t)
  <2>1. Quiet BY <1>1, Zenon DEF startThread
  <2> QED BY <2>1, QuietStep, Zenon
<1>2. ASSUME NEW n \in Threads, ProcOf[n] = ProcOf[t], newThread(t, ProcOf[t], n),
             startLocked(t)
      PROVE  Quiet
  <2>1. /\ pc[t] = "start" /\ pc[n] = "free" /\ n # t
        /\ pc' = [pc EXCEPT ![t] = Back(t), ![n] = "user"]
        /\ threads' = [threads EXCEPT ![ProcOf[t]] = @ \cup {n}]
        /\ UNCHANGED <<obj, parent, state, killed, dead, childLock, leak>>
    BY <1>2, Zenon DEF startLocked, newThread
  <2>2. \A b \in Actors : QuietMove(b) BY <2>1, <1>2, Zenon
  <2> QED BY <2>1, <2>2, <1>2
<1>3. CASE startLocked(t) /\ Goto(t, Back(t)) /\ UNCHANGED <<refs, threads, sigkill>>
  <2>1. Quiet BY <1>3, Zenon DEF startLocked
  <2> QED BY <2>1, QuietStep, Zenon
<1> QED BY <1>1, <1>2, <1>3, QuietStep, Zenon DEF startLocked

(* The end of threads: none leaves its list here. *)
LEMMA EndStep ==
  ASSUME WakeupInv, NEW t \in Threads,
         terminateThread(t) \/ handleSignal(t) \/ terminate(t) \/ release(t)
  PROVE  WakeupInv'
<1> USE ActorFacts DEF Labels, ThreadLabels, TerminatorLabels, LoudTo, LoudFrom, Goto,
      WakeupInv, Types, Listed, QuietMove, Quiet, procvars, locks, threadTerminate
<1>1. CASE terminateThread(t)
  <2>1. CASE Goto(t, "terminate") /\ UNCHANGED dead
    <3>1. Quiet BY <1>1, <2>1, Zenon DEF terminateThread
    <3> QED BY <3>1, QuietStep, Zenon
  <2>2. CASE threadTerminate(t)
    <3>1. Quiet BY <1>1, <2>2 DEF terminateThread
    <3> QED BY <3>1, QuietStep, Zenon
  <2> QED BY <1>1, <2>1, <2>2, Zenon DEF terminateThread
<1>2. CASE handleSignal(t)
  <2>1. Quiet BY <1>2, Zenon DEF handleSignal
  <2> QED BY <2>1, QuietStep, Zenon
<1>3. CASE terminate(t)
  <2>1. CASE threadTerminate(t) /\ UNCHANGED <<sigkill, state>>
    <3>1. Quiet BY <1>3, <2>1 DEF terminate
    <3> QED BY <3>1, QuietStep, Zenon
  <2>2. CASE /\ pc' = [Signalled(threads[ProcOf[t]] \ {t}) EXCEPT ![t] = "joinAll"]
             /\ state' = [state EXCEPT ![ProcOf[t]] = "prezombie"]
             /\ UNCHANGED dead
    <3>1. \A b \in Actors : QuietMove(b) BY <1>3, <2>2, Zenon DEF terminate, Signalled
    <3>2. Quiet BY <1>3, <2>2, <3>1 DEF terminate, Signalled
    <3> QED BY <3>2, QuietStep, Zenon
  <2> QED BY <1>3, <2>1, <2>2, Zenon DEF terminate
<1>4. CASE release(t)
  <2>1. Quiet BY <1>4 DEF release
  <2> QED BY <2>1, QuietStep, Zenon
<1> QED BY <1>1, <1>2, <1>3, <1>4, Zenon

(* A removed process is no zombie anymore. *)
LEMMA RemoveStep ==
  ASSUME WakeupInv, NEW a \in Actors, remove(a)
  PROVE  WakeupInv'
<1>1. Quiet
  BY ActorFacts, Zenon
  DEF remove, Labels, ThreadLabels, TerminatorLabels, LoudTo, LoudFrom, Goto, GotoWith,
      Back, WakeupInv, Types, Listed, QuietMove, Quiet, Actors
<1> QED BY <1>1, QuietStep, Zenon

(* A thread falls asleep in join only with another thread in the list. *)
LEMMA JoinStep ==
  ASSUME WakeupInv, NEW t \in Threads, join(t) \/ joinAll(t)
  PROVE  WakeupInv'
<1> USE ActorFacts DEF Labels, ThreadLabels, TerminatorLabels, LoudTo, LoudFrom, Goto,
      Back, Asleep, WakeupInv, Types, Listed, QuietMove, Quiet, procvars, locks
<1>1. Cardinality(threads[ProcOf[t]]) > 1 => threads[ProcOf[t]] \ {t} # {}
  BY JoinTest, Zenon
<1>2. CASE join(t)
  <2>1. Quiet BY <1>1, <1>2 DEF join
  <2> QED BY <2>1, QuietStep, Zenon
<1>3. CASE joinAll(t)
  <2>1. Quiet BY <1>1, <1>3, Zenon DEF joinAll
  <2> QED BY <2>1, QuietStep, Zenon
<1> QED BY <1>2, <1>3, Zenon

(* A fatal signal only wakes threads up. *)
LEMMA SignalStep ==
  ASSUME WakeupInv, NEW p \in Procs, addSignalFor(p)
  PROVE  WakeupInv'
<1> USE ActorFacts DEF Labels, ThreadLabels, TerminatorLabels, LoudTo, LoudFrom,
      WakeupInv, Types, Listed, QuietMove, Quiet, procvars, locks
<1>1. \A b \in Actors : QuietMove(b) BY Zenon DEF addSignalFor, Signalled
<1>2. Quiet BY <1>1 DEF addSignalFor, Signalled
<1> QED BY <1>2, QuietStep, Zenon

(* kill before and after it has childLock. *)
LEMMA QuietKillStep ==
  ASSUME WakeupInv, NEW t \in Threads, kill(t) \/ killRelease(t)
  PROVE  WakeupInv'
<1>1. Quiet
  BY ActorFacts
  DEF kill, killRelease, relRef, Labels, ThreadLabels, TerminatorLabels, LoudTo,
      LoudFrom, Goto, GotoWith, Back, WakeupInv, Types, Listed, QuietMove, Quiet, procvars
<1> QED BY <1>1, QuietStep, Zenon

(* The end of killThread. *)
LEMMA QuietTerminatorStep ==
  ASSUME WakeupInv, killThreadUnlock \/ killThreadRelease
  PROVE  WakeupInv'
<1>1. Quiet
  BY ActorFacts
  DEF killThreadUnlock, killThreadRelease, relRef, Labels, ThreadLabels,
      TerminatorLabels, LoudTo, LoudFrom, Goto, GotoWith, Back, WakeupInv, Types,
      Listed, QuietMove, Quiet, procvars
<1> QED BY <1>1, QuietStep, Zenon

-----------------------------------------------------------------------------
(***************************************************************************)
(* waitChild: the thread takes a zombie, or none is left and it holds      *)
(* childLock until it sleeps.                                              *)
(***************************************************************************)
LEMMA FetchStep ==
  ASSUME WakeupInv, NEW t \in Threads, NEW q,
         pc[t] \in {"user", "childWoken"}, mayLock(childLock, t), getExitState(t, q),
         UNCHANGED <<parent, state, threads, dead>>
  PROVE  WakeupInv'
<1> USE ActorFacts DEF Labels, ThreadLabels, TerminatorLabels, Goto, GotoWith
<1>0. /\ Types /\ Listed /\ ChildLockHeld
      /\ WaitsInTime /\ ChildWakeupNotLost /\ JoinWakeupNotLost
  BY Zenon DEF WakeupInv
<1>1. ASSUME NEW c, killed' = [killed EXCEPT ![c] = TRUE], GotoWith(t, "kill", c),
             UNCHANGED <<childLock, leak>>
      PROVE  WakeupInv'
  <2>1. Quiet
    BY <1>0, <1>1, Zenon DEF Quiet, QuietMove, LoudFrom, LoudTo, Types, Listed
  <2> QED BY <2>1, QuietStep, Zenon
<1>2. CASE /\ Reapable(ProcOf[t], q) = {}
           /\ childLock' = t /\ GotoWith(t, "childWait", q) /\ UNCHANGED <<killed, leak>>
  <2>1. Types' BY <1>0, <1>2, Zenon DEF Types
  <2>2. Listed' BY <1>0, <1>2, Zenon DEF Types, Listed
  <2>3. ChildLockHeld' BY <1>0, <1>2 DEF Types, ChildLockHeld, mayLock
  <2>4. /\ pc'[Terminator] = pc[Terminator] /\ obj'[Terminator] = obj[Terminator]
        /\ \A s \in Threads \ {t} : pc'[s] = pc[s] /\ obj'[s] = obj[s]
        /\ pc'[t] = "childWait" /\ obj'[t] = q
    BY <1>0, <1>2, Zenon DEF Types
  <2>5. \A s \in Threads : \A r : Reapable(ProcOf[s], r)' = Reapable(ProcOf[s], r)
    BY <1>2, Zenon DEF Reapable, Children
  <2>6. WaitsInTime' BY ONLY <1>0, <1>2, <2>4, <2>5 DEF WaitsInTime
  <2>7. ChildWakeupNotLost' BY <1>0, <1>2, <2>4, <2>5 DEF ChildWakeupNotLost
  <2>8. JoinWakeupNotLost' BY <1>0, <2>4, Zenon DEF JoinWakeupNotLost
  <2> QED BY <2>1, <2>2, <2>3, <2>6, <2>7, <2>8, Zenon DEF WakeupInv
<1> QED BY <1>1, <1>2, Zenon DEF getExitState

(* Both tests of waitChild, with the error that keeps childLock. *)
LEMMA WaitStep ==
  ASSUME WakeupInv, NEW t \in Threads,
         (\E q \in Awaited[t] : waitChild(t, q)) \/ waitAgain(t)
  PROVE  WakeupInv'
<1> USE ActorFacts DEF Labels, ThreadLabels, TerminatorLabels, Goto, GotoWith, Back
<1>0. /\ Types /\ Listed /\ ChildLockHeld
      /\ WaitsInTime /\ ChildWakeupNotLost /\ JoinWakeupNotLost
  BY Zenon DEF WakeupInv
<1>1. ASSUME NEW q \in Awaited[t], waitChild(t, q)
      PROVE  WakeupInv'
  BY <1>1, FetchStep DEF waitChild
<1>2. CASE waitAgain(t) /\ mayLock(childLock, t) /\ getExitState(t, obj[t])
  BY <1>2, FetchStep DEF waitAgain
<1>3. CASE waitAgain(t) /\ GotoWith(t, Back(t), Init0) /\ UNCHANGED <<killed, childLock, leak>>
  <2>1. Quiet
    BY <1>0, <1>3, Zenon DEF waitAgain, Quiet, QuietMove, LoudFrom, LoudTo, Types, Listed
  <2> QED BY <2>1, QuietStep, Zenon
<1>4. CASE /\ waitAgain(t) /\ mayLock(childLock, t)
           /\ childLock' = t /\ leak' = t /\ GotoWith(t, Back(t), Init0) /\ UNCHANGED killed
  <2>0. pc[t] = "childWoken" /\ UNCHANGED <<parent, state, threads, dead>>
    BY <1>4, Zenon DEF waitAgain
  <2>1. Types' BY <1>0, <1>4, <2>0, Zenon DEF Types
  <2>2. Listed' BY <1>0, <1>4, <2>0, Zenon DEF Types, Listed
  <2>3. ChildLockHeld' BY <1>0, <1>4, <2>0 DEF Types, ChildLockHeld, mayLock
  <2>4. /\ pc'[Terminator] = pc[Terminator] /\ obj'[Terminator] = obj[Terminator]
        /\ \A s \in Threads \ {t} : pc'[s] = pc[s] /\ obj'[s] = obj[s]
        /\ pc'[t] \in {"user", "terminate"}
    BY <1>0, <1>4, Zenon DEF Types
  <2>5. \A s \in Threads : \A r : Reapable(ProcOf[s], r)' = Reapable(ProcOf[s], r)
    BY <1>4, <2>0, Zenon DEF Reapable, Children
  <2>6. WaitsInTime' BY ONLY <1>0, <2>4, <2>5 DEF WaitsInTime
  <2>7. ChildWakeupNotLost' BY ONLY <1>0, <2>0, <2>4, <2>5 DEF ChildWakeupNotLost
  <2>8. JoinWakeupNotLost' BY <1>0, <2>0, <2>4, Zenon DEF JoinWakeupNotLost
  <2> QED BY <2>1, <2>2, <2>3, <2>6, <2>7, <2>8, Zenon DEF WakeupInv
<1> QED BY <1>1, <1>2, <1>3, <1>4, Zenon DEF waitAgain

(* The thread gives childLock back and sleeps, or goes on with a signal. *)
LEMMA SleepStep ==
  ASSUME WakeupInv, NEW t \in Threads, waitSleep(t)
  PROVE  WakeupInv'
<1> USE ActorFacts DEF Labels, ThreadLabels, TerminatorLabels
<1>0. /\ Types /\ Listed /\ ChildLockHeld
      /\ WaitsInTime /\ ChildWakeupNotLost /\ JoinWakeupNotLost
  BY Zenon DEF WakeupInv
<1>1. /\ pc[t] = "childWait" /\ childLock' = leak
      /\ pc' = [pc EXCEPT ![t] = Asleep(t, "childSleep", "childWoken")]
      /\ UNCHANGED <<obj, parent, state, killed, threads, dead, leak>>
  BY Zenon DEF waitSleep, Goto, procvars
<1>2. Types' BY <1>0, <1>1, Zenon DEF Types, Asleep
<1>3. Listed' BY <1>0, <1>1, Zenon DEF Types, Listed
<1>4. ChildLockHeld' BY <1>0, <1>1, Zenon DEF Types, ChildLockHeld, Asleep
<1>5. /\ pc'[Terminator] = pc[Terminator] /\ pc'[t] \in {"childSleep", "childWoken"}
      /\ \A s \in Threads \ {t} : pc'[s] = pc[s]
  BY <1>0, <1>1, Zenon DEF Types, Asleep
<1>6. \A s \in Threads : \A r : Reapable(ProcOf[s], r)' = Reapable(ProcOf[s], r)
  BY <1>1, Zenon DEF Reapable, Children
<1>7. WaitsInTime' BY ONLY <1>0, <1>1, <1>5, <1>6 DEF WaitsInTime
<1>8. ChildWakeupNotLost'
  BY ONLY <1>0, <1>1, <1>5, <1>6 DEF WaitsInTime, ChildWakeupNotLost
<1>9. JoinWakeupNotLost' BY <1>0, <1>1, <1>5, Zenon DEF JoinWakeupNotLost
<1> QED BY <1>2, <1>3, <1>4, <1>7, <1>8, <1>9, Zenon DEF WakeupInv

(***************************************************************************)
(* kill hands zombies over to process 0 with childLock held, so that no    *)
(* thread is between its test and its sleep, and then notifies process 0.  *)
(***************************************************************************)
LEMMA KillChildsStep ==
  ASSUME WakeupInv, NEW t \in Threads, killChilds(t)
  PROVE  WakeupInv'
<1> USE ActorFacts DEF Labels, ThreadLabels, TerminatorLabels
<1>0. /\ Types /\ Listed /\ ChildLockHeld
      /\ WaitsInTime /\ ChildWakeupNotLost /\ JoinWakeupNotLost
  BY Zenon DEF WakeupInv
<1> DEFINE orphans == {c \in Procs : state[c] # "free" /\ parent[c] = obj[t]}
           next == IF \E c \in orphans : state[c] = "zombie"
                   THEN "killNotify" ELSE "killUnlock"
<1>1. /\ pc[t] = "killChilds" /\ mayLock(childLock, t) /\ childLock' = t
      /\ parent' = [c \in Procs |-> IF c \in orphans THEN Init0 ELSE parent[c]]
      /\ pc' = [pc EXCEPT ![t] = next]
      /\ UNCHANGED <<obj, state, killed, threads, dead, leak>>
  BY Zenon DEF killChilds, Goto
<1>2. next \in {"killNotify", "killUnlock"}
      /\ \A c \in orphans : state[c] = "zombie" => next = "killNotify"
  BY Zenon
<1> HIDE DEF next
<1>3. /\ pc'[Terminator] = pc[Terminator] /\ pc'[t] = next
      /\ \A s \in Threads \ {t} : pc'[s] = pc[s]
  BY <1>0, <1>1, Zenon DEF Types
<1>4. Types' BY <1>0, <1>1, <1>2, Zenon DEF Types
<1>5. Listed' BY <1>0, <1>1, <1>2, <1>3, Zenon DEF Types, Listed
<1>6. ChildLockHeld' BY <1>0, <1>1, <1>2, <1>3 DEF Types, ChildLockHeld, mayLock
<1>7. WaitsInTime'
  <2>1. \A s \in Threads : pc'[s] # "childWait"
    BY <1>0, <1>1, <1>2, <1>3 DEF ChildLockHeld, mayLock
  <2> QED BY <2>1, Zenon DEF WaitsInTime
<1>8. ChildWakeupNotLost'
  <2> SUFFICES ASSUME NEW s \in Threads, pc'[s] = "childSleep",
                      NEW c \in Reapable(ProcOf[s], obj[s])',
                      ~ (pc'[Terminator] \in {"notify", "notifyProcDied"} /\ obj'[Terminator] = c)
               PROVE  ProcOf[s] = Init0 /\ \E r \in Threads : pc'[r] = "killNotify"
    BY Zenon DEF ChildWakeupNotLost
  <2>1. pc[s] = "childSleep" /\ s # t /\ obj'[s] = obj[s] BY <1>1, <1>2, <1>3, Zenon
  <2>2. c \in Procs /\ state[c] = "zombie" /\ parent'[c] = ProcOf[s] /\ ~killed[c]
        /\ obj[s] \in {Any, c}
    BY <1>1, <2>1, Zenon DEF Reapable, Children
  <2>3. CASE c \in orphans
    BY <1>1, <1>2, <1>3, <2>2, <2>3, Zenon
  <2>4. CASE c \notin orphans
    <3>1. c \in Reapable(ProcOf[s], obj[s])
      BY <1>1, <2>2, <2>4, Zenon DEF Reapable, Children
    <3>2. PICK r \in Threads : ProcOf[s] = Init0 /\ pc[r] = "killNotify"
      BY <1>0, <1>1, <1>3, <2>1, <3>1, Zenon DEF ChildWakeupNotLost
    <3> QED BY <1>1, <1>3, <3>2, Zenon
  <2> QED BY <2>3, <2>4, Zenon
<1>9. JoinWakeupNotLost' BY <1>0, <1>1, <1>2, <1>3, Zenon DEF JoinWakeupNotLost
<1> QED BY <1>4, <1>5, <1>6, <1>7, <1>8, <1>9, Zenon DEF WakeupInv

(* notifyProcDied(0) wakes up every thread of process 0 that sleeps. *)
LEMMA KillNotifyStep ==
  ASSUME WakeupInv, NEW t \in Threads, killNotify(t)
  PROVE  WakeupInv'
<1> USE ActorFacts DEF Labels, ThreadLabels, TerminatorLabels
<1>0. /\ Types /\ Listed /\ ChildLockHeld
      /\ WaitsInTime /\ ChildWakeupNotLost /\ JoinWakeupNotLost
  BY Zenon DEF WakeupInv
<1>1. /\ pc[t] = "killNotify"
      /\ pc' = [Woken(Init0, "childSleep", "childWoken") EXCEPT ![t] = "killUnlock"]
      /\ UNCHANGED <<obj, parent, state, killed, threads, dead, childLock, leak>>
  BY Zenon DEF killNotify, procvars, locks
<1>2. /\ pc'[Terminator] = pc[Terminator] /\ pc'[t] = "killUnlock"
      /\ \A s \in Threads \ {t} :
           pc'[s] = IF ProcOf[s] = Init0 /\ pc[s] = "childSleep" THEN "childWoken" ELSE pc[s]
  BY <1>0, <1>1, Zenon DEF Types, Woken
<1>3. Types'
  <2>1. Woken(Init0, "childSleep", "childWoken") \in [Actors -> Labels]
    BY <1>0, Zenon DEF Types, Woken
  <2>2. pc' \in [Actors -> Labels] BY <1>1, <2>1, Zenon
  <2>3. UNCHANGED <<obj, parent, state, killed, threads, dead, leak>> BY <1>1, Zenon
  <2>4. \A s \in Threads : pc'[s] = "cloneThread" => pc[s] = "cloneThread" BY <1>2, Zenon
  <2>5. \A s \in Threads : pc'[s] = "cloneThread" => obj'[s] \in Procs
    BY <1>0, <2>3, <2>4, Zenon DEF Types
  <2> QED BY <1>0, <2>2, <2>3, <2>5, Zenon DEF Types
<1>4. Listed' BY <1>0, <1>1, <1>2, Zenon DEF Listed
<1>5. ChildLockHeld' BY ONLY <1>0, <1>1, <1>2 DEF ChildLockHeld
<1>6. \A s \in Threads : \A r : Reapable(ProcOf[s], r)' = Reapable(ProcOf[s], r)
  BY <1>1, Zenon DEF Reapable, Children
<1>7. WaitsInTime' BY ONLY <1>0, <1>1, <1>2, <1>6 DEF WaitsInTime
<1>8. ChildWakeupNotLost' BY ONLY <1>0, <1>1, <1>2, <1>6 DEF ChildWakeupNotLost
<1>9. JoinWakeupNotLost' BY ONLY <1>0, <1>1, <1>2 DEF JoinWakeupNotLost
<1> QED BY <1>3, <1>4, <1>5, <1>7, <1>8, <1>9, Zenon DEF WakeupInv

(* kill gives childLock back. *)
LEMMA KillUnlockStep ==
  ASSUME WakeupInv, NEW t \in Threads, killUnlock(t)
  PROVE  WakeupInv'
<1> USE ActorFacts DEF Labels, ThreadLabels, TerminatorLabels
<1>0. /\ Types /\ Listed /\ ChildLockHeld
      /\ WaitsInTime /\ ChildWakeupNotLost /\ JoinWakeupNotLost
  BY Zenon DEF WakeupInv
<1>1. /\ pc[t] = "killUnlock" /\ childLock' = leak
      /\ pc' = [pc EXCEPT ![t] = "killRelease"]
      /\ UNCHANGED <<obj, parent, state, killed, threads, dead, leak>>
  BY Zenon DEF killUnlock, Goto, procvars
<1>2. /\ pc'[Terminator] = pc[Terminator] /\ pc'[t] = "killRelease"
      /\ \A s \in Threads \ {t} : pc'[s] = pc[s]
  BY <1>0, <1>1, Zenon DEF Types
<1>3. Types' BY <1>0, <1>1, Zenon DEF Types
<1>4. Listed' BY <1>0, <1>1, <1>2, Zenon DEF Listed
<1>5. ChildLockHeld' BY <1>0, <1>1, <1>2, Zenon DEF Types, ChildLockHeld
<1>6. \A s \in Threads : \A r : Reapable(ProcOf[s], r)' = Reapable(ProcOf[s], r)
  BY <1>1, Zenon DEF Reapable, Children
<1>7. WaitsInTime' BY ONLY <1>0, <1>1, <1>2, <1>6 DEF WaitsInTime
<1>8. ChildWakeupNotLost' BY ONLY <1>0, <1>1, <1>2, <1>6 DEF ChildWakeupNotLost
<1>9. JoinWakeupNotLost' BY <1>0, <1>1, <1>2, Zenon DEF JoinWakeupNotLost
<1> QED BY <1>3, <1>4, <1>5, <1>7, <1>8, <1>9, Zenon DEF WakeupInv

(***************************************************************************)
(* killThread takes a thread from its list: it wakes up the joining ones,  *)
(* and if it was the last one, the new zombie is to be notified.           *)
(***************************************************************************)
LEMMA KillThreadStep ==
  ASSUME WakeupInv, killThread
  PROVE  WakeupInv'
<1> USE ActorFacts
<1>0. /\ Types /\ Listed /\ ChildLockHeld
      /\ WaitsInTime /\ ChildWakeupNotLost /\ JoinWakeupNotLost
  BY Zenon DEF WakeupInv
<1> DEFINE t == Head(dead)
           p == ProcOf[t]
           last == threads[p] = {t}
<1>1. /\ pc[Terminator] = "idle" /\ dead # <<>> /\ pc[t] = "zombie"
      /\ dead' = Tail(dead)
      /\ threads' = [threads EXCEPT ![p] = @ \ {t}]
      /\ state' = [state EXCEPT ![p] = IF last THEN "zombie" ELSE @]
      /\ pc' = [s \in Actors |->
                 CASE s = Terminator -> IF last THEN "notify" ELSE "unlock"
                   [] s = t -> "free"
                   [] s \in threads[p] \ {t} /\ pc[s] = "joinSleep" -> "joinWoken"
                   [] s \in threads[p] \ {t} /\ pc[s] = "joinAllSleep" -> "joinAll"
                   [] OTHER -> pc[s]]
      /\ obj' = [obj EXCEPT ![Terminator] = p]
      /\ UNCHANGED <<parent, killed, childLock, leak>>
  BY Zenon DEF killThread
<1>2. t \in Threads /\ p \in Procs /\ t # Terminator /\ dead' \in Seq(Threads)
  <2>1. dead \in Seq(Threads) BY <1>0, Zenon DEF Types
  <2>2. t \in Threads /\ dead' \in Seq(Threads) BY ONLY <1>1, <2>1
  <2> QED BY <2>2, Zenon
<1> HIDE DEF t, p
<1>3. /\ pc'[Terminator] = (IF last THEN "notify" ELSE "unlock")
      /\ pc'[t] = "free"
      /\ \A s \in Threads \ {t} :
           pc'[s] = IF s \in threads[p] /\ pc[s] = "joinSleep" THEN "joinWoken"
                    ELSE IF s \in threads[p] /\ pc[s] = "joinAllSleep" THEN "joinAll"
                    ELSE pc[s]
      /\ obj'[Terminator] = p
      /\ \A s \in Threads : obj'[s] = obj[s]
  <2>1. pc'[Terminator] = (IF last THEN "notify" ELSE "unlock") BY <1>1, <1>2, Zenon
  <2>2. pc'[t] = "free" BY <1>1, <1>2, Zenon
  <2>3. \A s \in Threads \ {t} :
           pc'[s] = IF s \in threads[p] /\ pc[s] = "joinSleep" THEN "joinWoken"
                    ELSE IF s \in threads[p] /\ pc[s] = "joinAllSleep" THEN "joinAll"
                    ELSE pc[s]
    BY <1>1, <1>2, Zenon
  <2>4. obj'[Terminator] = p /\ \A s \in Threads : obj'[s] = obj[s]
    BY <1>0, <1>1, <1>2, Zenon DEF Types
  <2> QED BY <2>1, <2>2, <2>3, <2>4, Zenon
<1> HIDE DEF last
<1>4. Types'
  <2>1. \A s \in Actors : pc'[s] \in Labels
    BY ONLY <1>0, <1>2, <1>3 DEF Types, Actors, Labels, ThreadLabels, TerminatorLabels
  <2>2. pc' \in [Actors -> Labels] BY <1>1, <2>1, Zenon
  <2> QED BY <1>0, <1>1, <1>2, <1>3, <2>2, Zenon DEF Types
<1>5. Listed' BY <1>0, <1>1, <1>2, <1>3, Zenon DEF Types, Listed
<1>6. ChildLockHeld' BY <1>0, <1>1, <1>2, <1>3, Zenon DEF Types, ChildLockHeld
<1>7. \A s \in Threads : pc'[s] \in {"childWait", "childSleep"} =>
        /\ pc[s] = pc'[s] /\ obj'[s] = obj[s]
        /\ \A c \in Reapable(ProcOf[s], obj[s])' :
             (c = p /\ last) \/ c \in Reapable(ProcOf[s], obj[s])
  BY ONLY <1>0, <1>1, <1>2, <1>3 DEF Types, Reapable, Children
<1>8. WaitsInTime' BY <1>0, <1>1, <1>3, <1>7, Zenon DEF WaitsInTime
<1>9. ChildWakeupNotLost'
  <2>1. \A s \in Threads : pc[s] = "killNotify" => pc'[s] = "killNotify"
    BY <1>1, <1>2, <1>3, Zenon
  <2> QED BY <1>0, <1>1, <1>3, <1>7, <2>1, Zenon DEF ChildWakeupNotLost
<1>10. JoinWakeupNotLost'
  BY <1>0, <1>1, <1>2, <1>3, Zenon DEF JoinWakeupNotLost, Listed, Types
<1> QED BY <1>4, <1>5, <1>6, <1>8, <1>9, <1>10, Zenon DEF WakeupInv

(* The terminator gets childLock only while no thread is in its test. *)
LEMMA NotifyStep ==
  ASSUME WakeupInv, notify
  PROVE  WakeupInv'
<1> USE ActorFacts DEF Labels, ThreadLabels, TerminatorLabels
<1>0. /\ Types /\ Listed /\ ChildLockHeld
      /\ WaitsInTime /\ ChildWakeupNotLost /\ JoinWakeupNotLost
  BY Zenon DEF WakeupInv
<1>1. /\ pc[Terminator] = "notify" /\ childLock = None /\ childLock' = Terminator
      /\ pc' = [pc EXCEPT ![Terminator] = "notifyProcDied"]
      /\ UNCHANGED <<obj, parent, state, killed, threads, dead, leak>>
  BY Zenon DEF notify, Goto, procvars
<1>2. pc'[Terminator] = "notifyProcDied" /\ \A s \in Threads : pc'[s] = pc[s]
  BY <1>0, <1>1, Zenon DEF Types
<1>3. Types' BY <1>0, <1>1, Zenon DEF Types
<1>4. Listed' BY <1>0, <1>1, <1>2, Zenon DEF Listed
<1>5. ChildLockHeld' BY <1>0, <1>1, <1>2 DEF Types, ChildLockHeld
<1>6. \A s \in Threads : \A r : Reapable(ProcOf[s], r)' = Reapable(ProcOf[s], r)
  BY <1>1, Zenon DEF Reapable, Children
<1>7. WaitsInTime' BY <1>0, <1>1, <1>2, Zenon DEF WaitsInTime, ChildLockHeld
<1>8. ChildWakeupNotLost' BY ONLY <1>0, <1>1, <1>2, <1>6 DEF ChildWakeupNotLost
<1>9. JoinWakeupNotLost' BY <1>0, <1>1, <1>2, Zenon DEF JoinWakeupNotLost
<1> QED BY <1>3, <1>4, <1>5, <1>7, <1>8, <1>9, Zenon DEF WakeupInv

(* notifyProcDied wakes up the sleeping threads of the zombie's parent. *)
LEMMA NotifyProcDiedStep ==
  ASSUME WakeupInv, notifyProcDied
  PROVE  WakeupInv'
<1> USE ActorFacts DEF Labels, ThreadLabels, TerminatorLabels
<1>0. /\ Types /\ Listed /\ ChildLockHeld
      /\ WaitsInTime /\ ChildWakeupNotLost /\ JoinWakeupNotLost
  BY Zenon DEF WakeupInv
<1> DEFINE q == parent[obj[Terminator]]
<1>1. /\ pc[Terminator] = "notifyProcDied" /\ childLock' = None
      /\ pc' = [Woken(q, "childSleep", "childWoken") EXCEPT ![Terminator] = "unlock"]
      /\ UNCHANGED <<obj, parent, state, killed, threads, dead, leak>>
  BY Zenon DEF notifyProcDied, procvars
<1>2. /\ pc'[Terminator] = "unlock"
      /\ \A s \in Threads :
           pc'[s] = IF ProcOf[s] = q /\ pc[s] = "childSleep" THEN "childWoken" ELSE pc[s]
  BY <1>0, <1>1, Zenon DEF Types, Woken
<1>3. Types'
  <2>1. Woken(q, "childSleep", "childWoken") \in [Actors -> Labels]
    BY <1>0, Zenon DEF Types, Woken
  <2>2. pc' \in [Actors -> Labels] BY <1>1, <2>1, Zenon
  <2>3. UNCHANGED <<obj, parent, state, killed, threads, dead, leak>> BY <1>1, Zenon
  <2>4. \A s \in Threads : pc'[s] = "cloneThread" => pc[s] = "cloneThread" BY <1>2, Zenon
  <2> QED BY ONLY <1>0, <2>2, <2>3, <2>4 DEF Types
<1>4. Listed' BY <1>0, <1>1, <1>2, Zenon DEF Listed
<1>5. ChildLockHeld' BY ONLY <1>0, <1>1, <1>2 DEF Types, ChildLockHeld
<1>6. \A s \in Threads : \A r : Reapable(ProcOf[s], r)' = Reapable(ProcOf[s], r)
  BY <1>1, Zenon DEF Reapable, Children
<1>7. WaitsInTime' BY ONLY <1>0, <1>1, <1>2 DEF WaitsInTime, ChildLockHeld
<1>8. ChildWakeupNotLost'
  <2>1. \A s \in Threads : pc[s] = "killNotify" => pc'[s] = "killNotify" BY <1>2, Zenon
  <2>2. \A s \in Threads : pc'[s] = "childSleep" =>
          pc[s] = "childSleep" /\ obj[Terminator] \notin Reapable(ProcOf[s], obj[s])
    BY <1>2, Zenon DEF Reapable, Children
  <2> QED BY ONLY <1>0, <1>1, <1>6, <2>1, <2>2 DEF ChildWakeupNotLost
<1>9. JoinWakeupNotLost' BY ONLY <1>0, <1>1, <1>2 DEF JoinWakeupNotLost
<1> QED BY <1>3, <1>4, <1>5, <1>7, <1>8, <1>9, Zenon DEF WakeupInv

-----------------------------------------------------------------------------
(* Every step keeps the invariant. *)
LEMMA NextWakeup == WakeupInv /\ [Next]_vars => WakeupInv'
<1> SUFFICES ASSUME WakeupInv, [Next]_vars PROVE WakeupInv' BY Zenon
<1>1. ASSUME NEW t \in Threads, Call(t) PROVE WakeupInv'
  BY <1>1, CloneStep, StartStep, WaitStep, JoinStep, EndStep, Zenon DEF Call
<1>2. ASSUME NEW t \in Threads, Kernel(t) PROVE WakeupInv'
  <2>1. t \in Actors BY ActorFacts, Zenon
  <2> QED BY <1>2, <2>1, CloneStep, StartStep, SleepStep, WaitStep, QuietKillStep,
             KillChildsStep, KillNotifyStep, KillUnlockStep, RemoveStep, EndStep,
             JoinStep, Zenon DEF Kernel
<1>3. ASSUME NEW p \in Procs, addSignalFor(p) PROVE WakeupInv' BY <1>3, SignalStep, Zenon
<1>4. CASE TerminatorStep
  <2>1. Terminator \in Actors BY ActorFacts, Zenon
  <2> QED BY <1>4, <2>1, KillThreadStep, NotifyStep, NotifyProcDiedStep,
             QuietTerminatorStep, RemoveStep, Zenon DEF TerminatorStep
<1>5. CASE UNCHANGED vars
  BY <1>5, Zenon DEF vars, WakeupInv, Types, Listed, ChildLockHeld, WaitsInTime,
              ChildWakeupNotLost, JoinWakeupNotLost, Reapable, Children
<1> QED BY <1>1, <1>2, <1>3, <1>4, <1>5, Zenon DEF Next

(***************************************************************************)
(* A thread that sleeps in waitChild with a zombie to fetch is about to be *)
(* woken up by killThread or kill, for any number of processes and threads *)
(* and even after childLock has been kept by a waitChild that failed.      *)
(***************************************************************************)
THEOREM ChildWakeups == Spec => []ChildWakeupNotLost
<1>1. WakeupInv => ChildWakeupNotLost BY Zenon DEF WakeupInv
<1> QED BY <1>1, InitWakeup, NextWakeup, PTL DEF Spec

(***************************************************************************)
(* A thread that sleeps in join has another thread of its process to wait  *)
(* for, for any number of processes and threads.                           *)
(***************************************************************************)
THEOREM JoinWakeups == Spec => []JoinWakeupNotLost
<1>1. WakeupInv => JoinWakeupNotLost BY Zenon DEF WakeupInv
<1> QED BY <1>1, InitWakeup, NextWakeup, PTL DEF Spec

-----------------------------------------------------------------------------
(***************************************************************************)
(* The references of a process.                                            *)
(***************************************************************************)
Num(b) == IF b THEN 1 ELSE 0

(* Who uses a process: an actor that removes it, a thread that reaps it or *)
(* is in kill, a clone that has not finished, and the terminator.          *)
Removed(p) == \E a \in Actors : pc[a] = "remove" /\ obj[a] = p
Reaped(p) == \E t \in Threads : Reaping(t) /\ obj[t] = p
InKill(p) == \E t \in Threads : Killing(t) /\ obj[t] = p
Cloned(p) == \E t \in Threads : pc[t] = "cloneThread" /\ obj[t] = p
InKillThread(p) ==
  pc[Terminator] \in TerminatorLabels \ {"idle", "remove"} /\ obj[Terminator] = p

Gone(p) == Removed(p) \/ (killed[p] /\ ~Reaped(p))
Users(p) ==
  Num(~Gone(p)) + Cardinality(threads[p]) + Num(InKill(p)) + Num(InKillThread(p))

(* The first thread of process 0 is a user without a reference. *)
Refs(p) == IF p = Init0 THEN refs[p] + 1 ELSE refs[p]

(* The lists of threads hold exactly the threads that exist. *)
Slots ==
  \A p \in Procs : threads[p] = {t \in Threads : ProcOf[t] = p /\ pc[t] # "free"}

ObjProcs ==
  \A a \in Actors :
    Killing(a) \/ pc[a] \in {"kill", "cloneThread", "remove"} => obj[a] \in Procs

(* remove runs with the spinlock held, and a clone belongs to one thread. *)
OneAtATime ==
  /\ \A a \in Actors : pc[a] = "remove" => refLock = a
  /\ \A s, t \in Threads :
       pc[s] = "cloneThread" /\ pc[t] = "cloneThread" /\ obj[s] = obj[t] => s = t

(* The count of a process, and which of its users exclude one another. *)
ProcInv(p) ==
  /\ Removed(p) => /\ Refs(p) = 0 /\ ~Reaped(p) /\ ~Cloned(p)
                   /\ killed[p] \/ state[p] = "alive"
  /\ Cloned(p) => state[p] = "alive" /\ threads[p] = {} /\ ~InKillThread(p)
  /\ state[p] = "free" => /\ threads[p] = {} /\ Refs(p) = 0 /\ ~killed[p]
                          /\ ~Removed(p) /\ ~InKillThread(p)
  /\ state[p] = "zombie" => threads[p] = {}
  /\ killed[p] => state[p] = "zombie"
  /\ state[p] # "free" => Refs(p) = Users(p)

LifeInv ==
  /\ refs \in [Procs -> Nat]
  /\ Slots /\ ObjProcs /\ OneAtATime /\ KilledOnce /\ ReleasesAlone
  /\ \A p \in Procs : ProcInv(p)

-----------------------------------------------------------------------------
(* The threads of a process are finitely many. *)
LEMMA ThreadsFinite ==
  ASSUME NEW S \in SUBSET Threads
  PROVE  IsFiniteSet(S) /\ Cardinality(S) \in Nat
<1>1. IsFiniteSet(Threads) BY ProcAssumption, Zenon
<1> QED BY <1>1, FS_Subset, FS_CardinalityType, Zenon

(***************************************************************************)
(* A calm step moves actors between labels where they use no process, or   *)
(* use the same one in the same way, and leaves the processes alone.       *)
(***************************************************************************)
Plain == {"user", "clone", "start", "childWait", "childSleep", "childWoken",
          "terminate", "joinAll", "joinAllSleep", "joinSleep", "joinWoken", "zombie"}
Busy == {"notify", "notifyProcDied", "unlock", "release"}

CalmMove(a) ==
  \/ pc'[a] = pc[a] /\ obj'[a] = obj[a]
  \/ /\ a \in Threads /\ pc[a] \in Plain \cup {"release"}
     /\ pc'[a] \in Plain \/ (pc'[a] = "release" /\ threads[ProcOf[a]] = {a})
  \/ a \in Threads /\ Killing(a) /\ Killing(a)' /\ obj'[a] = obj[a]
  \/ a = Terminator /\ pc[a] \in Busy /\ pc'[a] \in Busy /\ obj'[a] = obj[a]

Calm ==
  /\ UNCHANGED <<state, killed, refs, threads, refLock>>
  /\ \A a \in Actors : CalmMove(a)
  /\ \A t \in Threads : Reaping(t) => parent'[obj[t]] = parent[obj[t]]

(* A calm step keeps every part of the invariant. *)
LEMMA CalmStep ==
  ASSUME LifeInv, Calm
  PROVE  LifeInv'
<1> USE DEF TerminatorLabels, Plain, Busy
<1>0. /\ refs \in [Procs -> Nat]
      /\ Slots /\ ObjProcs /\ OneAtATime /\ KilledOnce /\ ReleasesAlone
      /\ \A p \in Procs : ProcInv(p)
  BY Zenon DEF LifeInv
<1>1. Terminator \in Actors /\ Threads \subseteq Actors /\ Terminator \notin Threads
  BY ActorFacts, Zenon
<1>2. /\ \A a \in Actors : (pc'[a] = "remove" <=> pc[a] = "remove")
                           /\ (pc'[a] = "remove" => obj'[a] = obj[a])
      /\ \A t \in Threads : /\ pc'[t] = "cloneThread" <=> pc[t] = "cloneThread"
                            /\ pc'[t] = "cloneThread" => obj'[t] = obj[t]
                            /\ Reaping(t)' <=> Reaping(t)
                            /\ Killing(t)' <=> Killing(t)
                            /\ Reaping(t) => obj'[t] = obj[t]
                            /\ pc'[t] = "free" <=> pc[t] = "free"
                            /\ pc'[t] = "release" =>
                                 pc[t] = "release" \/ threads[ProcOf[t]] = {t}
                            /\ Reaping(t) => parent'[obj[t]] = parent[obj[t]]
      /\ pc'[Terminator] \in Busy <=> pc[Terminator] \in Busy
      /\ pc'[Terminator] \in Busy => obj'[Terminator] = obj[Terminator]
      /\ UNCHANGED <<state, killed, refs, threads, refLock>>
  BY <1>1, Zenon DEF Calm, CalmMove, Killing, Reaping
<1>3. \A p \in Procs : /\ Removed(p)' <=> Removed(p)
                       /\ Reaped(p)' <=> Reaped(p)
                       /\ InKill(p)' <=> InKill(p)
                       /\ Cloned(p)' <=> Cloned(p)
                       /\ InKillThread(p)' <=> InKillThread(p)
  BY ONLY <1>1, <1>2 DEF Removed, Reaped, InKill, Cloned, InKillThread, Reaping
<1>4. Slots' BY <1>0, <1>2, Zenon DEF Slots
<1>5. ObjProcs' BY <1>0, <1>1, <1>2, Zenon DEF ObjProcs, Calm, CalmMove, Killing
<1>6. OneAtATime' BY ONLY <1>0, <1>2 DEF OneAtATime
<1>7. KilledOnce' BY ONLY <1>0, <1>2 DEF KilledOnce
<1>8. ReleasesAlone' BY <1>0, <1>2, Zenon DEF ReleasesAlone
<1>9. \A p \in Procs : ProcInv(p)'
  BY <1>0, <1>2, <1>3, Zenon DEF ProcInv, Refs, Users, Gone, Num
<1> QED BY <1>0, <1>2, <1>4, <1>5, <1>6, <1>7, <1>8, <1>9, Zenon DEF LifeInv

(* The steps that are calm. *)
LEMMA CalmThreadSteps ==
  ASSUME WakeupInv, LifeInv, NEW t \in Threads,
         \/ clone(t) \/ startThread(t) \/ waitSleep(t) \/ killNotify(t) \/ killUnlock(t)
         \/ terminateThread(t) \/ handleSignal(t) \/ release(t) \/ join(t)
  PROVE  LifeInv'
<1>0. Types /\ t # Terminator /\ t \in Actors BY ActorFacts, Zenon DEF WakeupInv
<1>1. ASSUME NEW l, pc' = [pc EXCEPT ![t] = l],
             \/ pc[t] \in Plain \cup {"release"} /\ l \in Plain
             \/ pc[t] = "killUnlock" /\ l = "killRelease",
             UNCHANGED <<procvars, refLock, obj>>
      PROVE  LifeInv'
  <2>1. \A a \in Actors : CalmMove(a) BY <1>0, <1>1, Zenon DEF CalmMove, Killing, Types
  <2>2. Calm BY <1>1, <2>1, Zenon DEF Calm, procvars
  <2> QED BY <2>2, CalmStep, Zenon
<1> USE <1>0, <1>1 DEF Goto, Back, Asleep, threadTerminate, locks, Plain
<1>2. CASE clone(t) BY <1>2, Zenon DEF clone
<1>3. CASE startThread(t) BY <1>3, Zenon DEF startThread
<1>4. CASE waitSleep(t) BY <1>4, Zenon DEF waitSleep
<1>5. CASE killUnlock(t) BY <1>5, Zenon DEF killUnlock
<1>6. CASE terminateThread(t) BY <1>6, Zenon DEF terminateThread
<1>7. CASE handleSignal(t) BY <1>7, Zenon DEF handleSignal
<1>8. CASE release(t) BY <1>8, Zenon DEF release
<1>9. CASE join(t) BY <1>9, Zenon DEF join
<1>10. CASE killNotify(t)
  <2>1. /\ pc[t] = "killNotify"
        /\ pc' = [Woken(Init0, "childSleep", "childWoken") EXCEPT ![t] = "killUnlock"]
        /\ UNCHANGED <<procvars, refLock, obj>>
    BY <1>10, Zenon DEF killNotify
  <2>2. \A a \in Actors : CalmMove(a)
    BY <2>1, Zenon DEF CalmMove, Killing, Woken, Types
  <2>3. Calm BY <2>1, <2>2, Zenon DEF Calm, procvars
  <2> QED BY <2>3, CalmStep, Zenon
<1> QED BY <1>2, <1>3, <1>4, <1>5, <1>6, <1>7, <1>8, <1>9, <1>10, Zenon

(* The terminator's steps that are calm. *)
LEMMA CalmTerminatorSteps ==
  ASSUME WakeupInv, LifeInv, notify \/ notifyProcDied \/ killThreadUnlock
  PROVE  LifeInv'
<1> USE ActorFacts DEF Plain, Busy, procvars, locks, CalmMove, Goto
<1>0. Types BY Zenon DEF WakeupInv
<1>1. CASE notify
  <2>1. \A a \in Actors : CalmMove(a) BY <1>0, <1>1, Zenon DEF notify, Types
  <2>2. Calm BY <1>1, <2>1, Zenon DEF notify, Calm
  <2> QED BY <2>2, CalmStep, Zenon
<1>2. CASE killThreadUnlock
  <2>1. \A a \in Actors : CalmMove(a) BY <1>0, <1>2, Zenon DEF killThreadUnlock, Types
  <2>2. Calm BY <1>2, <2>1, Zenon DEF killThreadUnlock, Calm
  <2> QED BY <2>2, CalmStep, Zenon
<1>3. CASE notifyProcDied
  <2>1. \A a \in Actors : CalmMove(a) BY <1>0, <1>3, Zenon DEF notifyProcDied, Woken, Types
  <2>2. Calm BY <1>3, <2>1, Zenon DEF notifyProcDied, Calm
  <2> QED BY <2>2, CalmStep, Zenon
<1> QED BY <1>1, <1>2, <1>3, Zenon

(* A signal that arrives is calm. *)
LEMMA CalmSignal ==
  ASSUME WakeupInv, LifeInv, NEW p \in Procs, addSignalFor(p)
  PROVE  LifeInv'
<1>1. Types BY Zenon DEF WakeupInv
<1>2. \A a \in Actors : CalmMove(a)
  <2> TAKE a \in Actors
  <2>1. obj'[a] = obj[a] BY Zenon DEF addSignalFor
  <2>2. a \in threads[p] => a \in Threads BY <1>1, Zenon DEF Types
  <2>3. /\ pc'[a] = pc[a] \/ (a \in threads[p] /\ pc[a] \in Plain /\ pc'[a] \in Plain)
    BY Zenon DEF addSignalFor, Signalled, Plain
  <2> QED BY <2>1, <2>2, <2>3, Zenon DEF CalmMove
<1>3. Calm BY <1>2, Zenon DEF addSignalFor, Calm, procvars, locks
<1> QED BY <1>3, CalmStep, Zenon

-----------------------------------------------------------------------------
(***************************************************************************)
(* A step about the process p: whoever moves used p or nothing, and uses p *)
(* or nothing afterwards.  So nothing changes for the other processes.     *)
(***************************************************************************)
InUse(a) == \/ Killing(a) \/ pc[a] \in {"kill", "cloneThread", "remove"}
            \/ a = Terminator /\ pc[a] \in Busy

MovesAt(p, a) ==
  \/ pc'[a] = pc[a] /\ obj'[a] = obj[a]
  \/ (InUse(a) => obj[a] = p) /\ (InUse(a)' => obj'[a] = p)

SameUsers(q) ==
  /\ Removed(q)' <=> Removed(q)
  /\ Reaped(q)' <=> Reaped(q)
  /\ InKill(q)' <=> InKill(q)
  /\ Cloned(q)' <=> Cloned(q)
  /\ InKillThread(q)' <=> InKillThread(q)

(***************************************************************************)
(* Process 0 lives for ever: none of its threads gets a fatal signal or    *)
(* ends, and no actor removes, reaps, clones or kills it.                  *)
(***************************************************************************)
EndLabels == {"terminate", "joinAll", "joinAllSleep", "release", "zombie"}

InitLives ==
  /\ state[Init0] = "alive" /\ pc[Main[Init0]] # "free"
  /\ \A t \in Threads : ProcOf[t] = Init0 => t \notin sigkill /\ pc[t] \notin EndLabels
  /\ \A a \in Actors : InUse(a) => obj[a] # Init0

(* A step at one process leaves the users of the others as they are. *)
LEMMA OthersSame ==
  ASSUME Types, Types', NEW p, NEW q, q # p, \A a \in Actors : MovesAt(p, a)
  PROVE  SameUsers(q)
<1> USE ActorFacts DEF MovesAt, InUse
<1>1. Removed(q)' <=> Removed(q) BY DEF Removed
<1>2. Reaped(q)' <=> Reaped(q) BY DEF Reaped, Reaping, Killing
<1>3. InKill(q)' <=> InKill(q) BY DEF InKill, Killing
<1>4. Cloned(q)' <=> Cloned(q) BY DEF Cloned
<1>5. InKillThread(q)' <=> InKillThread(q)
  BY DEF InKillThread, TerminatorLabels, Busy, Killing
<1> QED BY <1>1, <1>2, <1>3, <1>4, <1>5, Zenon DEF SameUsers

(* What ProcInv says of a process depends on its users alone. *)
LEMMA SameProc ==
  ASSUME NEW q, ProcInv(q), SameUsers(q),
         state'[q] = state[q], killed'[q] = killed[q], refs'[q] = refs[q],
         threads'[q] = threads[q]
  PROVE  ProcInv(q)'
BY Zenon DEF ProcInv, SameUsers, Refs, Users, Gone, Num

(* A process with a thread is neither free nor a zombie nor removed. *)
LEMMA LivesOn ==
  ASSUME LifeInv, NEW t \in Threads, pc[t] # "free"
  PROVE  /\ t \in threads[ProcOf[t]] /\ state[ProcOf[t]] \notin {"free", "zombie"}
         /\ ~Removed(ProcOf[t]) /\ ~killed[ProcOf[t]] /\ ~Cloned(ProcOf[t])
         /\ ~Reaped(ProcOf[t]) /\ ~InKill(ProcOf[t])
<1> DEFINE p == ProcOf[t]
<1>0. p \in Procs BY ActorFacts, Zenon
<1>1. t \in threads[p] /\ threads[p] \in SUBSET Threads BY <1>0, Zenon DEF LifeInv, Slots
<1>2. Cardinality(threads[p]) \in Nat /\ Cardinality(threads[p]) # 0
  BY <1>1, ThreadsFinite, FS_EmptySet, Zenon
<1> HIDE DEF p
<1>3. /\ refs[p] \in Nat /\ ProcInv(p) /\ KilledOnce BY <1>0, Zenon DEF LifeInv
<1>4. state[p] \notin {"free", "zombie"} /\ ~killed[p] /\ ~Cloned(p)
  BY <1>1, <1>3, Zenon DEF ProcInv
<1>5. ~Removed(p) BY ONLY <1>2, <1>3, <1>4 DEF ProcInv, Refs, Users, Num
<1>6. ~Reaped(p) /\ ~InKill(p) BY ONLY <1>3, <1>4 DEF KilledOnce, Reaped, InKill, Reaping
<1> QED BY <1>1, <1>4, <1>5, <1>6, Zenon DEF p

(* None is no actor. *)
LEMMA NoneNoActor == None \notin Actors
BY ProcAssumption, Zenon DEF Actors

(* No thread starts to reap, and those that do keep what they need. *)
LEMMA ReapersSame ==
  ASSUME KilledOnce,
         \A s \in Threads : Reaping(s)' =>
           /\ Reaping(s) /\ obj'[s] = obj[s]
           /\ state'[obj[s]] = state[obj[s]] /\ killed'[obj[s]] = killed[obj[s]]
           /\ threads'[obj[s]] = threads[obj[s]] /\ parent'[obj[s]] = parent[obj[s]]
  PROVE  KilledOnce'
BY DEF KilledOnce

(* clone: the new process belongs to the thread that clones it. *)
LEMMA CloneAddLife ==
  ASSUME WakeupInv, WakeupInv', LifeInv, InitLives, NEW t \in Threads, cloneAdd(t)
  PROVE  LifeInv'
<1> USE ActorFacts
<1>0. /\ Types /\ Types' /\ refs \in [Procs -> Nat]
      /\ Slots /\ ObjProcs /\ OneAtATime /\ KilledOnce /\ ReleasesAlone
      /\ \A p \in Procs : ProcInv(p)
  BY Zenon DEF LifeInv, WakeupInv
<1>1. ASSUME NEW p \in Procs, state[p] = "free",
             state' = [state EXCEPT ![p] = "alive"],
             parent' = [parent EXCEPT ![p] = ProcOf[t]],
             refs' = [refs EXCEPT ![p] = 1],
             GotoWith(t, "cloneThread", p)
      PROVE  LifeInv'
  <2>1. /\ pc[t] = "clone" /\ UNCHANGED <<killed, threads, refLock>> BY Zenon DEF cloneAdd
  <2>2. /\ pc'[t] = "cloneThread" /\ obj'[t] = p
        /\ \A a \in Actors \ {t} : pc'[a] = pc[a] /\ obj'[a] = obj[a]
    BY <1>0, <1>1, Zenon DEF Types, GotoWith, Goto
  <2>0. p # Init0 BY <1>1, Zenon DEF InitLives
  <2>3. /\ threads[p] = {} /\ ~killed[p] /\ ~Removed(p) /\ ~InKillThread(p)
        /\ ~Reaped(p) /\ ~InKill(p) /\ ~Cloned(p)
    BY <1>0, <1>1, Zenon DEF ProcInv, KilledOnce, Reaped, InKill, Reaping
  <2>4. \A a \in Actors : MovesAt(p, a)
    BY <2>1, <2>2, Zenon DEF MovesAt, InUse, Killing
  <2>5. \A q \in Procs \ {p} : ProcInv(q)'
    BY ONLY <1>0, <1>1, <2>1, <2>4, OthersSame, SameProc
  <2>6. ~Removed(p)' /\ ~Reaped(p)' /\ ~InKill(p)' /\ ~InKillThread(p)'
    BY <2>2, <2>3
    DEF Removed, Reaped, InKill, InKillThread, Reaping, Killing
  <2>7. ProcInv(p)'
    BY ONLY <1>0, <1>1, <2>0, <2>1, <2>3, <2>6, FS_EmptySet
    DEF ProcInv, Refs, Users, Gone, Num, Types
  <2>8. Slots' BY <1>0, <2>1, <2>2 DEF Slots
  <2>9. ObjProcs' BY <1>0, <2>2, Zenon DEF ObjProcs, Killing
  <2>10. OneAtATime' BY <1>0, <2>1, <2>2, <2>3 DEF OneAtATime, Cloned
  <2>11. KilledOnce'
    <3>1. \A s \in Threads : Reaping(s)' =>
            Reaping(s) /\ obj'[s] = obj[s] /\ obj[s] \in Procs \ {p}
      BY <1>0, <2>2, <2>3, Zenon DEF ObjProcs, Reaping, Killing, Reaped
    <3> QED BY <1>0, <1>1, <2>1, <3>1, ReapersSame, Zenon DEF Types
  <2>12. ReleasesAlone' BY <1>0, <2>1, <2>2, Zenon DEF ReleasesAlone
  <2> QED BY <1>0, <1>1, <2>5, <2>7, <2>8, <2>9, <2>10, <2>11, <2>12, Zenon DEF LifeInv
<1>2. CASE Goto(t, Back(t)) /\ UNCHANGED <<state, parent, refs, obj>>
  <2>1. \A a \in Actors : CalmMove(a)
    BY <1>0, <1>2 DEF cloneAdd, CalmMove, Types, Goto, Back, Plain
  <2>2. Calm BY <1>2, <2>1, Zenon DEF cloneAdd, Calm
  <2> QED BY <2>2, CalmStep, Zenon
<1> QED BY <1>1, <1>2, Zenon DEF cloneAdd

(* cloneThread: the new process gets its first thread. *)
LEMMA CloneThreadLife ==
  ASSUME WakeupInv, WakeupInv', LifeInv, InitLives, NEW t \in Threads, cloneThread(t)
  PROVE  LifeInv'
<1> USE ActorFacts
<1>0. /\ Types /\ Types' /\ refs \in [Procs -> Nat]
      /\ Slots /\ ObjProcs /\ OneAtATime /\ KilledOnce /\ ReleasesAlone
      /\ \A p \in Procs : ProcInv(p)
  BY Zenon DEF LifeInv, WakeupInv
<1>p. PICK p \in Procs : p = obj[t] BY <1>0, Zenon DEF ObjProcs, cloneThread
<1> DEFINE n == Main[p]
<1>1. pc[t] = "cloneThread" /\ pc[n] = "free" /\ UNCHANGED <<parent, state, killed, refLock>>
  BY <1>p, Zenon DEF cloneThread, newThread
<1>2. n \in Threads /\ n # t /\ ProcOf[n] = p /\ Cloned(p)
  BY <1>p, <1>1, Zenon DEF Cloned
<1>q. p # Init0 BY <1>p, <1>1, Zenon DEF InitLives, InUse
<1> HIDE DEF n
<1>3. /\ state[p] = "alive" /\ threads[p] = {} /\ ~InKillThread(p) /\ ~Removed(p)
      /\ ~killed[p] /\ ~Reaped(p) /\ ~InKill(p) /\ refs[p] = Users(p)
  BY <1>0, <1>2, <1>q, Zenon DEF ProcInv, Refs, KilledOnce, Reaped, InKill, Reaping
<1>4. refs[p] = 1 BY ONLY <1>3, FS_EmptySet DEF Users, Gone, Num
<1>5. /\ refs' = [refs EXCEPT ![p] = @ + 1]
      /\ threads' = [threads EXCEPT ![p] = @ \cup {n}]
      /\ pc' = [pc EXCEPT ![t] = Back(t), ![n] = "user"]
      /\ obj' = [obj EXCEPT ![t] = Init0]
  BY <1>p, Zenon DEF cloneThread, newThread, n
<1>6. /\ pc'[t] \in {"user", "terminate"} /\ pc'[n] = "user" /\ obj'[t] = Init0
      /\ \A a \in Actors \ {t, n} : pc'[a] = pc[a] /\ obj'[a] = obj[a]
  BY <1>0, <1>2, <1>5, Zenon DEF Types, Back
<1>7. /\ threads'[p] = {n} /\ refs'[p] = 2 /\ refs' \in [Procs -> Nat]
      /\ \A q \in Procs \ {p} : threads'[q] = threads[q] /\ refs'[q] = refs[q]
  BY ONLY <1>0, <1>3, <1>4, <1>5 DEF Types
<1>8. \A a \in Actors : MovesAt(p, a)
  BY <1>p, <1>1, <1>2, <1>6, Zenon DEF MovesAt, InUse, Killing
<1>9. \A q \in Procs \ {p} : ProcInv(q)'
  BY <1>0, <1>1, <1>7, <1>8, OthersSame, SameProc, Zenon
<1>10. ProcInv(p)'
  <2>1. ~Cloned(p)' BY <1>p, <1>0, <1>1, <1>6 DEF Cloned, OneAtATime
  <2>2. ~Removed(p)' BY <1>2, <1>3, <1>6, Zenon DEF Removed
  <2>3. ~Reaped(p)' /\ ~InKill(p)' BY <1>2, <1>3, <1>6 DEF Reaped, InKill, Reaping, Killing
  <2>4. ~InKillThread(p)' BY <1>2, <1>3, <1>6, Zenon DEF InKillThread
  <2>5. Users(p)' = 2
    <3>1. Cardinality(threads[p])' = 1 BY <1>7, FS_Singleton, Zenon
    <3>2. ~Gone(p)' BY <1>1, <1>3, <2>2, Zenon DEF Gone
    <3> QED BY ONLY <2>3, <2>4, <3>1, <3>2 DEF Users, Num
  <2> QED BY <1>1, <1>3, <1>7, <1>q, <2>1, <2>2, <2>4, <2>5, Zenon DEF ProcInv, Refs
<1>11. Slots'
  <2>1. \A q \in Procs \ {p} : threads'[q] = {s \in Threads : ProcOf[s] = q /\ pc'[s] # "free"}
    BY <1>0, <1>1, <1>2, <1>6, <1>7 DEF Slots
  <2>2. {s \in Threads : ProcOf[s] = p /\ pc'[s] # "free"} = {n}
    BY <1>0, <1>1, <1>2, <1>3, <1>6 DEF Slots
  <2> QED BY ONLY <1>7, <2>1, <2>2 DEF Slots
<1>12. ObjProcs' BY <1>0, <1>2, <1>6, Zenon DEF ObjProcs, Killing
<1>13. OneAtATime'
  <2>1. \A a \in Actors : pc'[a] \in {"remove", "cloneThread"} =>
          pc[a] = pc'[a] /\ obj[a] = obj'[a]
    BY <1>6, Zenon
  <2> QED BY <1>0, <1>1, <2>1 DEF OneAtATime
<1>14. KilledOnce'
  <2>1. \A s \in Threads : Reaping(s)' =>
          Reaping(s) /\ obj'[s] = obj[s] /\ obj[s] \in Procs \ {p}
    BY <1>0, <1>2, <1>3, <1>6, Zenon DEF ObjProcs, Reaping, Killing, Reaped
  <2> QED BY <1>0, <1>1, <1>7, <2>1, ReapersSame, Zenon
<1>15. ReleasesAlone' BY <1>0, <1>2, <1>3, <1>6, <1>7 DEF ReleasesAlone
<1> QED BY <1>7, <1>9, <1>10, <1>11, <1>12, <1>13, <1>14, <1>15, Zenon DEF LifeInv

(* cloneFail: the only reference goes, and the process is removed. *)
LEMMA CloneFailLife ==
  ASSUME WakeupInv, WakeupInv', LifeInv, InitLives, NEW t \in Threads, cloneFail(t)
  PROVE  LifeInv'
<1> USE ActorFacts
<1>0. /\ Types /\ Types' /\ refs \in [Procs -> Nat]
      /\ Slots /\ ObjProcs /\ OneAtATime /\ KilledOnce /\ ReleasesAlone
      /\ \A p \in Procs : ProcInv(p)
  BY Zenon DEF LifeInv, WakeupInv
<1>p. PICK p \in Procs : p = obj[t] BY <1>0, Zenon DEF ObjProcs, cloneFail
<1>1. pc[t] = "cloneThread" /\ relRef(t, p, 1)
      /\ UNCHANGED <<parent, state, killed, threads>>
  BY <1>p, Zenon DEF cloneFail
<1>2. p # Init0 /\ Cloned(p) BY <1>p, <1>1, Zenon DEF Cloned, InitLives, InUse
<1>3. /\ state[p] = "alive" /\ threads[p] = {} /\ ~InKillThread(p) /\ ~Removed(p)
      /\ ~killed[p] /\ ~Reaped(p) /\ ~InKill(p) /\ refs[p] = Users(p)
  BY <1>0, <1>2, Zenon DEF ProcInv, Refs, KilledOnce, Reaped, InKill, Reaping
<1>4. refs[p] = 1 BY ONLY <1>3, FS_EmptySet DEF Users, Gone, Num
<1>5. /\ refLock = None /\ refLock' = t /\ refs' = [refs EXCEPT ![p] = 0]
      /\ pc'[t] = "remove" /\ obj'[t] = p
      /\ \A a \in Actors \ {t} : pc'[a] = pc[a] /\ obj'[a] = obj[a]
  BY <1>0, <1>1, <1>2, <1>4 DEF relRef, GotoWith, Goto, Types
<1>6. \A a \in Actors : MovesAt(p, a) BY <1>p, <1>5, Zenon DEF MovesAt
<1>7. \A q \in Procs \ {p} : ProcInv(q)'
  BY <1>0, <1>1, <1>2, <1>5, <1>6, OthersSame, SameProc, Zenon
<1>8. Removed(p)' /\ ~Reaped(p)' /\ ~InKill(p)' /\ ~InKillThread(p)' /\ ~Cloned(p)'
  <2>1. ~Cloned(p)' BY <1>p, <1>0, <1>1, <1>5 DEF Cloned, OneAtATime
  <2> QED BY <1>3, <1>5, <2>1 DEF Removed, Reaped, InKill, InKillThread, Reaping, Killing
<1>9. ProcInv(p)'
  <2>1. refs'[p] = 0 BY <1>0, <1>5, Zenon
  <2>2. state'[p] = "alive" /\ threads'[p] = {} /\ ~killed'[p] BY <1>1, <1>3, Zenon
  <2>3. Users(p)' = Num(FALSE) + Cardinality({}) + Num(FALSE) + Num(FALSE)
    <3>1. Gone(p)' BY <1>8, Zenon DEF Gone
    <3> QED BY <1>8, <2>2, <3>1, Zenon DEF Users, Num
  <2>4. Users(p)' = 0 BY ONLY <2>3, FS_EmptySet DEF Num
  <2> QED BY <1>2, <1>8, <2>1, <2>2, <2>4, Zenon DEF ProcInv, Refs
<1>10. Slots' BY <1>0, <1>1, <1>5 DEF Slots
<1>11. ObjProcs' BY <1>0, <1>2, <1>5, Zenon DEF ObjProcs, Killing
<1>12. OneAtATime' BY <1>0, <1>5, NoneNoActor DEF OneAtATime
<1>13. KilledOnce'
  <2>1. \A s \in Threads : Reaping(s)' => Reaping(s) /\ obj'[s] = obj[s]
    BY <1>5, Zenon DEF Reaping, Killing
  <2> QED BY <1>0, <1>1, <2>1, ReapersSame, Zenon
<1>14. ReleasesAlone' BY <1>0, <1>1, <1>5, Zenon DEF ReleasesAlone
<1>15. refs' \in [Procs -> Nat] BY <1>0, <1>5, Zenon
<1> QED BY <1>7, <1>9, <1>10, <1>11, <1>12, <1>13, <1>14, <1>15, Zenon DEF LifeInv

(* startThread: a process with a thread gets another one. *)
LEMMA StartLockedLife ==
  ASSUME WakeupInv, WakeupInv', LifeInv, NEW t \in Threads, startLocked(t)
  PROVE  LifeInv'
<1> USE ActorFacts
<1>0. /\ Types /\ Types' /\ refs \in [Procs -> Nat]
      /\ Slots /\ ObjProcs /\ OneAtATime /\ KilledOnce /\ ReleasesAlone
      /\ \A p \in Procs : ProcInv(p)
  BY Zenon DEF LifeInv, WakeupInv
<1> DEFINE p == ProcOf[t]
<1>1. ASSUME NEW n \in Threads, ProcOf[n] = p, newThread(t, p, n)
      PROVE  LifeInv'
  <2>1. /\ pc[t] = "start" /\ pc[n] = "free" /\ p \in Procs
        /\ UNCHANGED <<parent, state, killed, refLock, obj>>
    BY <1>1, Zenon DEF startLocked, newThread, locks
  <2>2. /\ t \in threads[p] /\ state[p] \notin {"free", "zombie"} /\ ~Removed(p) /\ ~killed[p]
        /\ ~Cloned(p) /\ ~Reaped(p) /\ ~InKill(p) /\ n \notin threads[p]
    BY <1>0, <1>1, <2>1, LivesOn DEF Slots
  <2>3. /\ refs' = [refs EXCEPT ![p] = @ + 1]
        /\ threads' = [threads EXCEPT ![p] = @ \cup {n}]
        /\ pc' = [pc EXCEPT ![t] = Back(t), ![n] = "user"]
    BY <1>1, Zenon DEF newThread
  <2> HIDE DEF p
  <2>4. /\ pc'[t] \in {"user", "terminate"} /\ pc'[n] = "user"
        /\ \A a \in Actors \ {t, n} : pc'[a] = pc[a]
    BY <1>0, <2>1, <2>3 DEF Types, Back
  <2>5. /\ threads'[p] = threads[p] \cup {n} /\ refs'[p] = refs[p] + 1
        /\ refs' \in [Procs -> Nat]
        /\ \A q \in Procs \ {p} : threads'[q] = threads[q] /\ refs'[q] = refs[q]
    BY ONLY <1>0, <2>1, <2>3 DEF Types
  <2>6. Cardinality(threads[p] \cup {n}) = Cardinality(threads[p]) + 1
        /\ Cardinality(threads[p]) \in Nat
    <3>1. threads[p] \in SUBSET Threads BY <1>0, <2>1, Zenon DEF Types
    <3> QED BY ONLY <2>2, <3>1, ThreadsFinite, FS_AddElement
  <2>7. \A a \in Actors : MovesAt(Any, a) BY <2>1, <2>4, Zenon DEF MovesAt, InUse, Killing
  <2>8. \A q \in Procs : SameUsers(q)
    <3>1. Any \notin Procs BY ProcAssumption, Zenon
    <3> QED BY <1>0, <2>7, <3>1, OthersSame, Zenon
  <2>9. \A q \in Procs \ {p} : ProcInv(q)' BY <1>0, <2>1, <2>5, <2>8, SameProc, Zenon
  <2>10. ProcInv(p)'
    <3>1. ~Removed(p)' /\ ~Cloned(p)' /\ ~Reaped(p)' /\ ~InKill(p)'
          /\ (InKillThread(p)' <=> InKillThread(p))
      BY <2>1, <2>2, <2>8, Zenon DEF SameUsers, p
    <3>2. Refs(p) = Users(p) /\ refs[p] \in Nat BY <1>0, <2>1, <2>2, Zenon DEF ProcInv
    <3>4. Refs(p)' = Refs(p) + 1 BY ONLY <2>5, <3>2 DEF Refs, p
    <3>3. Users(p)' = Users(p) + 1
      BY ONLY <2>1, <2>2, <2>5, <2>6, <3>1 DEF Users, Gone, Num, p
    <3> QED BY <2>1, <2>2, <2>5, <3>1, <3>2, <3>3, <3>4, Zenon DEF ProcInv, p
  <2>11. Slots'
    <3>1. \A q \in Procs \ {p} : threads'[q] = {s \in Threads : ProcOf[s] = q /\ pc'[s] # "free"}
      BY <1>0, <1>1, <2>1, <2>4, <2>5 DEF Slots, p
    <3>2. {s \in Threads : ProcOf[s] = p /\ pc'[s] # "free"} = threads[p] \cup {n}
      BY <1>0, <1>1, <2>1, <2>4 DEF Slots
    <3> QED BY ONLY <2>5, <3>1, <3>2 DEF Slots
  <2>12. ObjProcs' BY <1>0, <2>1, <2>4, Zenon DEF ObjProcs, Killing
  <2>13. OneAtATime'
    <3>1. \A a \in Actors : pc'[a] \in {"remove", "cloneThread"} => pc[a] = pc'[a]
      BY <2>4, Zenon
    <3> QED BY <1>0, <2>1, <3>1 DEF OneAtATime
  <2>14. KilledOnce'
    <3>1. \A s \in Threads : Reaping(s)' => Reaping(s) /\ obj[s] \in Procs \ {p}
      BY <1>0, <2>2, <2>4, Zenon DEF ObjProcs, Reaping, Killing, Reaped
    <3> QED BY <1>0, <2>1, <2>5, <3>1, ReapersSame, Zenon
  <2>15. ReleasesAlone' BY <1>0, <1>1, <2>1, <2>2, <2>4, <2>5 DEF ReleasesAlone
  <2> QED BY <2>5, <2>9, <2>10, <2>11, <2>12, <2>13, <2>14, <2>15, Zenon DEF LifeInv
<1>2. CASE Goto(t, Back(t)) /\ UNCHANGED <<refs, threads>>
  <2>1. \A a \in Actors : CalmMove(a)
    BY <1>0, <1>2 DEF startLocked, CalmMove, Types, Goto, Back, Plain
  <2>2. Calm BY <1>2, <2>1, Zenon DEF startLocked, Calm, locks
  <2> QED BY <2>2, CalmStep, Zenon
<1> QED BY <1>1, <1>2, Zenon DEF startLocked

(* waitChild takes a zombie: it is killed from now on. *)
LEMMA FetchLife ==
  ASSUME WakeupInv, WakeupInv', LifeInv, NEW t \in Threads, NEW q,
         pc[t] \in {"user", "childWoken"}, getExitState(t, q),
         UNCHANGED <<parent, state, refs, threads, refLock>>
  PROVE  LifeInv'
<1> USE ActorFacts
<1>0. /\ Types /\ Types' /\ refs \in [Procs -> Nat]
      /\ Slots /\ ObjProcs /\ OneAtATime /\ KilledOnce /\ ReleasesAlone
      /\ \A p \in Procs : ProcInv(p)
  BY Zenon DEF LifeInv, WakeupInv
<1>1. ASSUME NEW c \in Reapable(ProcOf[t], q), killed' = [killed EXCEPT ![c] = TRUE],
             GotoWith(t, "kill", c)
      PROVE  LifeInv'
  <2>1. PICK p \in Procs : p = c /\ state[p] = "zombie" /\ ~killed[p] /\ parent[p] = ProcOf[t]
    BY <1>1, Zenon DEF Reapable, Children
  <2>2. /\ pc'[t] = "kill" /\ obj'[t] = p
        /\ \A a \in Actors \ {t} : pc'[a] = pc[a] /\ obj'[a] = obj[a]
    BY <1>0, <1>1, <2>1, Zenon DEF Types, GotoWith, Goto
  <2>3. killed'[p] /\ \A r \in Procs \ {p} : killed'[r] = killed[r]
    BY <1>0, <1>1, <2>1, Zenon DEF Types
  <2>4. ~Removed(p) /\ ~Reaped(p) /\ ~InKill(p) /\ ~Cloned(p) /\ threads[p] = {}
        /\ Refs(p) = Users(p)
    BY ONLY <1>0, <2>1 DEF ProcInv, KilledOnce, Reaped, InKill, Reaping
  <2>5. \A a \in Actors : MovesAt(p, a) BY <2>2, Zenon DEF MovesAt, InUse, Killing
  <2>6. \A r \in Procs \ {p} : ProcInv(r)'
    BY <1>0, <2>3, <2>5, OthersSame, SameProc, Zenon
  <2>7. ~Removed(p)' /\ Reaped(p)' /\ ~InKill(p)' /\ ~Cloned(p)'
    BY <2>2, <2>4 DEF Removed, Reaped, InKill, Cloned, Reaping, Killing
  <2>8. ProcInv(p)'
    <3>1. InKillThread(p)' <=> InKillThread(p) BY <2>2, Zenon DEF InKillThread
    <3>2. Users(p)' = Users(p) BY <2>1, <2>4, <2>7, <3>1, Zenon DEF Users, Gone, Num
    <3> QED BY <2>1, <2>4, <2>7, <3>2, Zenon DEF ProcInv, Refs
  <2>9. Slots' BY <1>0, <2>2 DEF Slots
  <2>10. ObjProcs' BY <1>0, <2>2, Zenon DEF ObjProcs, Killing
  <2>11. OneAtATime'
    <3>1. \A b \in Actors : pc'[b] \in {"remove", "cloneThread"} =>
            pc'[b] = pc[b] /\ obj'[b] = obj[b]
      BY <2>2, Zenon
    <3>2. refLock' = refLock /\ Threads \subseteq Actors BY <1>1, ActorFacts, Zenon
    <3>3. \A b \in Actors : pc'[b] = "remove" => refLock' = b
      BY <1>0, <3>1, <3>2, Zenon DEF OneAtATime
    <3>4. ASSUME NEW r \in Threads, NEW s \in Threads,
                 pc'[r] = "cloneThread", pc'[s] = "cloneThread", obj'[r] = obj'[s]
          PROVE  r = s
      <4>1. pc[r] = "cloneThread" /\ obj'[r] = obj[r] BY <3>1, <3>2, <3>4, Zenon
      <4>2. pc[s] = "cloneThread" /\ obj'[s] = obj[s] BY <3>1, <3>2, <3>4, Zenon
      <4> QED BY <1>0, <3>4, <4>1, <4>2, Zenon DEF OneAtATime
    <3> QED BY <3>3, <3>4, Zenon DEF OneAtATime
  <2>12. KilledOnce'
    <3>1. \A s \in Threads \ {t} : Reaping(s)' =>
            Reaping(s) /\ obj'[s] = obj[s] /\ obj[s] \in Procs \ {p}
      BY <1>0, <2>2, <2>4, Zenon DEF ObjProcs, Reaping, Killing, Reaped
    <3>2. /\ state'[p] = "zombie" /\ killed'[p] /\ threads'[p] = {} /\ parent'[p] = ProcOf[t]
          /\ obj'[t] = p
      BY <2>1, <2>2, <2>3, <2>4, Zenon
    <3>3. ASSUME NEW s \in Threads \ {t}, Reaping(s)'
          PROVE  /\ obj'[s] # p /\ state'[obj'[s]] = "zombie" /\ killed'[obj'[s]]
                 /\ threads'[obj'[s]] = {} /\ parent'[obj'[s]] = ProcOf[s]
                 /\ \A r \in Threads \ {s} : Reaping(r)' => obj'[r] # obj'[s]
      <4>1. Reaping(s) /\ obj'[s] = obj[s] /\ obj[s] \in Procs \ {p} BY <3>1, <3>3, Zenon
      <4>2. /\ state[obj[s]] = "zombie" /\ killed[obj[s]] /\ threads[obj[s]] = {}
            /\ parent[obj[s]] = ProcOf[s]
            /\ \A r \in Threads \ {s} : Reaping(r) => obj[r] # obj[s]
        BY <1>0, <4>1, Zenon DEF KilledOnce
      <4>3. killed'[obj[s]] BY <2>3, <4>1, <4>2, Zenon
      <4>4. ASSUME NEW r \in Threads \ {s}, Reaping(r)' PROVE obj'[r] # obj'[s]
        <5>1. CASE r = t BY <3>2, <4>1, <5>1, Zenon
        <5>2. CASE r # t BY <3>1, <4>1, <4>2, <4>4, <5>2, Zenon
        <5> QED BY <5>1, <5>2, Zenon
      <4> QED BY <4>1, <4>2, <4>3, <4>4, Zenon
    <3>4. \A r \in Threads \ {t} : Reaping(r)' => obj'[r] # obj'[t] BY <3>2, <3>3, Zenon
    <3> QED BY <3>2, <3>3, <3>4, Zenon DEF KilledOnce
  <2>13. ReleasesAlone' BY <1>0, <2>2, Zenon DEF ReleasesAlone
  <2> QED BY <1>0, <2>6, <2>8, <2>9, <2>10, <2>11, <2>12, <2>13, Zenon DEF LifeInv
<1>2. CASE GotoWith(t, "childWait", q) /\ UNCHANGED killed
  <2>1. \A a \in Actors : CalmMove(a)
    BY <1>0, <1>2 DEF CalmMove, Types, GotoWith, Goto, Plain
  <2>2. Calm BY <1>2, <2>1, Zenon DEF Calm
  <2> QED BY <2>2, CalmStep, Zenon
<1> QED BY <1>1, <1>2, Zenon DEF getExitState

(* waitChild, at the first test or after a sleep. *)
LEMMA WaitLife ==
  ASSUME WakeupInv, WakeupInv', LifeInv, NEW t \in Threads,
         (\E q \in Awaited[t] : waitChild(t, q)) \/ waitAgain(t)
  PROVE  LifeInv'
<1>1. ASSUME NEW q \in Awaited[t], waitChild(t, q) PROVE LifeInv'
  <2>1. /\ pc[t] = "user" /\ getExitState(t, q)
        /\ UNCHANGED <<parent, state, refs, threads, refLock>>
    BY <1>1, Zenon DEF waitChild
  <2>2. pc[t] \in {"user", "childWoken"} BY <2>1, Zenon
  <2> QED BY ONLY <2>1, <2>2, FetchLife, WakeupInv, WakeupInv', LifeInv, t \in Threads
<1>2. CASE waitAgain(t) /\ getExitState(t, obj[t])
  <2>1. /\ pc[t] = "childWoken" /\ UNCHANGED <<parent, state, refs, threads, refLock>>
    BY <1>2, Zenon DEF waitAgain
  <2>2. pc[t] \in {"user", "childWoken"} BY <2>1, Zenon
  <2> QED BY ONLY <1>2, <2>1, <2>2, FetchLife, WakeupInv, WakeupInv', LifeInv, t \in Threads
<1>3. CASE waitAgain(t) /\ GotoWith(t, Back(t), Init0) /\ UNCHANGED killed
  <2>1. \A a \in Actors : CalmMove(a)
    BY ONLY <1>3, ActorFacts DEF waitAgain, CalmMove, WakeupInv, Types, GotoWith, Goto, Plain, Back
  <2>2. Calm BY <1>3, <2>1, Zenon DEF waitAgain, Calm
  <2> QED BY <2>2, CalmStep, Zenon
<1> QED BY <1>1, <1>2, <1>3, Zenon DEF waitAgain

(* kill takes a reference before it works. *)
LEMMA KillLife ==
  ASSUME WakeupInv, WakeupInv', LifeInv, InitLives, NEW t \in Threads, kill(t)
  PROVE  LifeInv'
<1> USE ActorFacts
<1>0. /\ Types /\ Types' /\ refs \in [Procs -> Nat]
      /\ Slots /\ ObjProcs /\ OneAtATime /\ KilledOnce /\ ReleasesAlone
      /\ \A p \in Procs : ProcInv(p)
  BY Zenon DEF LifeInv, WakeupInv
<1>p. PICK p \in Procs : p = obj[t] BY <1>0, Zenon DEF ObjProcs, kill
<1>1. /\ pc[t] = "kill" /\ UNCHANGED <<parent, state, killed, threads, refLock, obj>>
      /\ refs' = [refs EXCEPT ![p] = @ + 1]
  BY <1>p, Zenon DEF kill
<1>2. /\ pc'[t] = "killChilds"
      /\ \A a \in Actors \ {t} : pc'[a] = pc[a]
  BY <1>0, Zenon DEF Types, kill, Goto
<1>q. p # Init0 BY <1>p, <1>1, Zenon DEF InitLives, InUse
<1>3. /\ state[p] = "zombie" /\ killed[p] /\ threads[p] = {} /\ Reaped(p)
      /\ ~Removed(p) /\ ~Cloned(p) /\ refs[p] = Users(p)
      /\ \A s \in Threads \ {t} : Reaping(s) => obj[s] # p
  <2>1. Reaping(t) /\ Reaped(p) BY <1>p, <1>1, Zenon DEF Reaping, Reaped
  <2>2. /\ state[p] = "zombie" /\ killed[p] /\ threads[p] = {}
        /\ \A s \in Threads \ {t} : Reaping(s) => obj[s] # p
    BY <1>p, <1>0, <2>1, Zenon DEF KilledOnce
  <2>3. ~Removed(p) /\ ~Cloned(p) /\ refs[p] = Users(p)
    BY <1>0, <1>q, <2>1, <2>2, Zenon DEF ProcInv, Refs
  <2> QED BY <2>1, <2>2, <2>3, Zenon
<1>4. ~InKill(p) BY <1>p, <1>1, <1>3, Zenon DEF InKill, Reaping, Killing
<1>5. refs'[p] = refs[p] + 1 /\ refs' \in [Procs -> Nat]
      /\ \A q \in Procs \ {p} : refs'[q] = refs[q]
  <2>1. refs[p] \in Nat /\ refs'[p] = refs[p] + 1 BY <1>0, <1>1, Zenon
  <2>2. refs[p] + 1 \in Nat BY ONLY <2>1
  <2> QED BY <1>0, <1>1, <2>1, <2>2, Zenon
<1>6. \A a \in Actors : MovesAt(p, a) BY <1>p, <1>1, <1>2, Zenon DEF MovesAt
<1>7. \A q \in Procs \ {p} : ProcInv(q)'
  BY <1>0, <1>1, <1>5, <1>6, OthersSame, SameProc, Zenon
<1>8. ProcInv(p)'
  <2>1. Reaped(p)' /\ InKill(p)' BY <1>p, <1>1, <1>2, Zenon DEF Reaped, InKill, Reaping, Killing
  <2>2. ~Removed(p)' /\ ~Cloned(p)' /\ (InKillThread(p)' <=> InKillThread(p))
    BY <1>1, <1>2, <1>3, Zenon DEF Removed, Cloned, InKillThread
  <2>3. Users(p)' = Users(p) + 1
    <3>1. ~Gone(p) /\ ~Gone(p)' BY <1>3, <2>1, <2>2, Zenon DEF Gone
    <3>2. /\ Users(p) = Num(TRUE) + Cardinality({}) + Num(FALSE) + Num(InKillThread(p))
          /\ Users(p)' = Num(TRUE) + Cardinality({}) + Num(TRUE) + Num(InKillThread(p))
      BY <1>1, <1>3, <1>4, <2>1, <2>2, <3>1, Zenon DEF Users, Num
    <3> QED BY ONLY <3>2, FS_EmptySet DEF Num
  <2> QED BY <1>1, <1>3, <1>5, <1>q, <2>1, <2>2, <2>3, Zenon DEF ProcInv, Refs
<1>9. Slots' BY <1>0, <1>1, <1>2 DEF Slots
<1>10. ObjProcs' BY <1>p, <1>0, <1>1, <1>2, Zenon DEF ObjProcs, Killing
<1>11. OneAtATime' BY <1>0, <1>1, <1>2 DEF OneAtATime
<1>12. KilledOnce'
  <2>1. \A s \in Threads : Reaping(s)' => Reaping(s) BY <1>1, <1>2, Zenon DEF Reaping, Killing
  <2> QED BY <1>0, <1>1, <2>1, ReapersSame, Zenon
<1>13. ReleasesAlone' BY <1>0, <1>1, <1>2, Zenon DEF ReleasesAlone
<1> QED BY <1>5, <1>7, <1>8, <1>9, <1>10, <1>11, <1>12, <1>13, Zenon DEF LifeInv

(***************************************************************************)
(* kill hands the children over: none of them is being reaped, since the   *)
(* killed process has no thread that could do that.                        *)
(***************************************************************************)
LEMMA KillChildsLife ==
  ASSUME WakeupInv, LifeInv, NEW t \in Threads, killChilds(t)
  PROVE  LifeInv'
<1>0. Types /\ Slots /\ ObjProcs /\ KilledOnce BY Zenon DEF LifeInv, WakeupInv
<1>1. /\ pc[t] = "killChilds"
      /\ parent' = [c \in Procs |-> IF state[c] # "free" /\ parent[c] = obj[t]
                                     THEN Init0 ELSE parent[c]]
      /\ UNCHANGED <<state, killed, refs, threads, refLock, obj>>
  BY Zenon DEF killChilds
<1>2. threads[obj[t]] = {} /\ obj[t] \in Procs
  BY <1>0, <1>1, ActorFacts, Zenon DEF KilledOnce, Reaping, Killing, ObjProcs
<1>3. \A s \in Threads : Reaping(s) =>
        obj[s] \in Procs /\ ProcOf[s] # obj[t] /\ parent[obj[s]] = ProcOf[s]
  BY ONLY <1>0, <1>2, ActorFacts DEF KilledOnce, Slots, ObjProcs, Reaping, Killing
<1>4. \A s \in Threads : Reaping(s) => parent'[obj[s]] = parent[obj[s]]
  BY <1>1, <1>3, Zenon
<1>5. \A a \in Actors : CalmMove(a)
  BY <1>0, <1>1, ActorFacts, Zenon DEF killChilds, CalmMove, Killing, Goto, Types
<1>6. Calm BY <1>1, <1>4, <1>5, Zenon DEF Calm
<1> QED BY <1>6, CalmStep, Zenon

(***************************************************************************)
(* kill gives two references back.  If the terminator still holds one, the *)
(* process is left to it.                                                  *)
(***************************************************************************)
LEMMA KillReleaseLife ==
  ASSUME WakeupInv, WakeupInv', LifeInv, InitLives, NEW t \in Threads, killRelease(t)
  PROVE  LifeInv'
<1> USE ActorFacts
<1>0. /\ Types /\ Types' /\ refs \in [Procs -> Nat]
      /\ Slots /\ ObjProcs /\ OneAtATime /\ KilledOnce /\ ReleasesAlone
      /\ \A p \in Procs : ProcInv(p)
  BY Zenon DEF LifeInv, WakeupInv
<1>p. PICK p \in Procs : p = obj[t] BY <1>0, Zenon DEF ObjProcs, killRelease, Killing
<1>1. /\ pc[t] = "killRelease" /\ UNCHANGED <<parent, state, killed, threads>>
      /\ relRef(t, p, 2)
  BY <1>p, Zenon DEF killRelease
<1>2. Reaping(t) /\ Killing(t) /\ p # Init0
  BY <1>p, <1>1, Zenon DEF Reaping, Killing, InitLives, InUse
<1>3. /\ state[p] = "zombie" /\ killed[p] /\ threads[p] = {} /\ Reaped(p) /\ InKill(p)
      /\ ~Removed(p) /\ ~Cloned(p) /\ refs[p] = Users(p)
      /\ \A s \in Threads \ {t} : Reaping(s) => obj[s] # p
  BY ONLY <1>p, <1>0, <1>2 DEF ProcInv, Refs, KilledOnce, Reaped, InKill
<1>4. refs[p] = 2 + Num(InKillThread(p))
  BY ONLY <1>3, FS_EmptySet DEF Users, Gone, Num
<1>5. /\ refs'[p] = refs[p] - 2 /\ refs' \in [Procs -> Nat]
      /\ \A q \in Procs \ {p} : refs'[q] = refs[q]
  BY ONLY <1>0, <1>1, <1>4 DEF relRef, Num
<1>6. /\ refLock = None
      /\ \A a \in Actors \ {t} : pc'[a] = pc[a] /\ obj'[a] = obj[a]
      /\ \/ refs[p] = 2 /\ pc'[t] = "remove" /\ obj'[t] = p /\ refLock' = t
         \/ refs[p] # 2 /\ pc'[t] \in {"user", "terminate"} /\ refLock' = None
  BY <1>0, <1>1 DEF relRef, GotoWith, Goto, Back, Types
<1>7. \A a \in Actors : MovesAt(p, a)
  <2>1. pc'[t] = "remove" \/ pc'[t] \in {"user", "terminate"} BY <1>6, Zenon
  <2>2. InUse(t)' => obj'[t] = p BY <1>6, <2>1, Zenon DEF InUse, Killing
  <2> QED BY <1>p, <1>6, <2>2, Zenon DEF MovesAt
<1>8. \A q \in Procs \ {p} : ProcInv(q)'
  BY <1>0, <1>1, <1>5, <1>7, OthersSame, SameProc, Zenon
<1>9. ProcInv(p)'
  <2>1. ~Reaped(p)' /\ ~InKill(p)'
    <3>1. ~Reaping(t)' /\ ~Killing(t)' BY <1>6, Zenon DEF Reaping, Killing
    <3>2. \A s \in Threads \ {t} : /\ Reaping(s)' <=> Reaping(s)
                                   /\ Killing(s)' <=> Killing(s)
                                   /\ obj'[s] = obj[s]
      BY <1>6, Zenon DEF Reaping, Killing
    <3>3. \A s \in Threads : Killing(s) => Reaping(s) BY Zenon DEF Reaping, Killing
    <3> QED BY <1>3, <3>1, <3>2, <3>3, Zenon DEF Reaped, InKill
  <2>2. ~Cloned(p)' /\ (InKillThread(p)' <=> InKillThread(p))
    BY <1>3, <1>6, Zenon DEF Cloned, InKillThread
  <2>3. Removed(p)' => refs[p] = 2 BY <1>3, <1>6, Zenon DEF Removed
  <2>4. Users(p)' = Num(FALSE) + Cardinality({}) + Num(FALSE) + Num(InKillThread(p))
    <3>1. Gone(p)' BY <1>1, <1>3, <2>1, Zenon DEF Gone
    <3>2. Num(~Gone(p))' = Num(FALSE) /\ Num(InKill(p))' = Num(FALSE)
      BY <2>1, <3>1, Zenon DEF Num
    <3>3. threads'[p] = {} /\ Num(InKillThread(p))' = Num(InKillThread(p))
      BY <1>1, <1>3, <2>2, Zenon DEF Num
    <3> QED BY <3>2, <3>3, Zenon DEF Users
  <2>5. refs'[p] = Users(p)' /\ (refs[p] = 2 => refs'[p] = 0)
    BY ONLY <1>4, <1>5, <2>4, FS_EmptySet DEF Num
  <2> QED BY <1>1, <1>2, <1>3, <2>1, <2>2, <2>3, <2>5, Zenon DEF ProcInv, Refs
<1>10. Slots'
  <2>1. \A s \in Threads : pc'[s] # "free" <=> pc[s] # "free" BY <1>1, <1>6, Zenon
  <2>2. \A q \in Procs : {s \in Threads : ProcOf[s] = q /\ pc'[s] # "free"}
                        = {s \in Threads : ProcOf[s] = q /\ pc[s] # "free"}
    BY <2>1, Zenon
  <2> QED BY <1>0, <1>1, <2>2, Zenon DEF Slots
<1>11. ObjProcs' BY <1>0, <1>6, Zenon DEF ObjProcs, Killing
<1>12. OneAtATime' BY <1>0, <1>6, NoneNoActor DEF OneAtATime
<1>13. KilledOnce'
  <2>1. \A s \in Threads : Reaping(s)' => Reaping(s) /\ obj'[s] = obj[s]
    BY <1>6, Zenon DEF Reaping, Killing
  <2> QED BY <1>0, <1>1, <2>1, ReapersSame, Zenon
<1>14. ReleasesAlone' BY <1>0, <1>1, <1>6, Zenon DEF ReleasesAlone
<1> QED BY <1>5, <1>8, <1>9, <1>10, <1>11, <1>12, <1>13, <1>14, Zenon DEF LifeInv

(* remove: a process without users becomes free. *)
LEMMA RemoveLife ==
  ASSUME WakeupInv, WakeupInv', LifeInv, InitLives, NEW a \in Actors, remove(a)
  PROVE  LifeInv'
<1> USE ActorFacts
<1>0. /\ Types /\ Types' /\ refs \in [Procs -> Nat]
      /\ Slots /\ ObjProcs /\ OneAtATime /\ KilledOnce /\ ReleasesAlone
      /\ \A p \in Procs : ProcInv(p)
  BY Zenon DEF LifeInv, WakeupInv
<1>p. PICK p \in Procs : p = obj[a] BY <1>0, Zenon DEF ObjProcs, remove
<1>1. /\ pc[a] = "remove" /\ UNCHANGED <<refs, threads>> /\ refLock' = None
      /\ state' = [state EXCEPT ![p] = "free"]
      /\ parent' = [parent EXCEPT ![p] = Init0]
      /\ killed' = [killed EXCEPT ![p] = FALSE]
      /\ GotoWith(a, Back(a), Init0)
  BY <1>p, Zenon DEF remove
<1>2. /\ pc'[a] \in {"user", "terminate", "idle"}
      /\ a \in Threads => pc'[a] # "idle"
      /\ \A b \in Actors \ {a} : pc'[b] = pc[b] /\ obj'[b] = obj[b]
  BY <1>0, <1>1 DEF Types, GotoWith, Goto, Back
<1>3. \A b \in Actors \ {a} : pc[b] # "remove" BY <1>0, <1>1, Zenon DEF OneAtATime
<1>q. p # Init0 BY <1>p, <1>1, Zenon DEF InitLives, InUse
<1>4. /\ Removed(p) /\ refs[p] = 0 /\ ~Reaped(p) /\ ~Cloned(p)
      /\ state[p] # "free" /\ refs[p] = Users(p)
  BY <1>p, <1>0, <1>1, <1>q, Zenon DEF Removed, ProcInv, Refs
<1>5. threads[p] = {} /\ ~InKillThread(p)
  <2>1. threads[p] \in SUBSET Threads BY <1>0, Zenon DEF Types
  <2>2. IsFiniteSet(threads[p]) /\ Cardinality(threads[p]) \in Nat BY <2>1, ThreadsFinite, Zenon
  <2>3. Cardinality(threads[p]) = 0 /\ ~InKillThread(p)
    BY ONLY <1>4, <2>2 DEF Users, Num
  <2> QED BY <2>2, <2>3, FS_EmptySet, Zenon
<1>6. /\ state'[p] = "free" /\ ~killed'[p]
      /\ \A q \in Procs \ {p} : /\ state'[q] = state[q] /\ killed'[q] = killed[q]
                                 /\ parent'[q] = parent[q]
  BY ONLY <1>0, <1>1 DEF Types
<1>7. \A b \in Actors : MovesAt(p, b)
  BY <1>p, <1>1, <1>2, Zenon DEF MovesAt, InUse, Killing, Busy
<1>8. \A q \in Procs \ {p} : ProcInv(q)'
  BY <1>0, <1>1, <1>6, <1>7, OthersSame, SameProc, Zenon
<1>9. ProcInv(p)'
  <2>1. ~Removed(p)' BY <1>2, <1>3, Zenon DEF Removed
  <2>2. ~Cloned(p)' BY <1>2, <1>4, Zenon DEF Cloned
  <2>3. ~InKillThread(p)' BY <1>2, <1>5, Zenon DEF InKillThread, TerminatorLabels
  <2> QED BY <1>1, <1>4, <1>5, <1>6, <1>q, <2>1, <2>2, <2>3, Zenon DEF ProcInv, Refs
<1>10. Slots' BY <1>0, <1>1, <1>2 DEF Slots
<1>11. ObjProcs' BY <1>0, <1>2, Zenon DEF ObjProcs, Killing
<1>12. OneAtATime' BY <1>0, <1>2, <1>3 DEF OneAtATime
<1>13. KilledOnce'
  <2>1. \A s \in Threads : Reaping(s)' =>
          Reaping(s) /\ obj'[s] = obj[s] /\ obj[s] \in Procs \ {p}
    BY <1>0, <1>2, <1>4, Zenon DEF ObjProcs, Reaping, Killing, Reaped
  <2> QED BY <1>0, <1>1, <1>6, <2>1, ReapersSame, Zenon
<1>14. ReleasesAlone' BY <1>0, <1>1, <1>2, Zenon DEF ReleasesAlone
<1> QED BY <1>0, <1>1, <1>8, <1>9, <1>10, <1>11, <1>12, <1>13, <1>14, Zenon DEF LifeInv

-----------------------------------------------------------------------------
(* The steps by which a thread ends. *)

(* The join of terminate is over when the thread is the only one. *)
LEMMA JoinAllLife ==
  ASSUME WakeupInv, LifeInv, NEW t \in Threads, joinAll(t)
  PROVE  LifeInv'
<1>0. Types BY Zenon DEF WakeupInv
<1>1. /\ pc[t] = "joinAll" /\ UNCHANGED <<procvars, refLock, obj>>
      /\ pc' = [pc EXCEPT ![t] = IF Cardinality(threads[ProcOf[t]]) > 1
                                 THEN "joinAllSleep" ELSE "release"]
  BY Zenon DEF joinAll, Goto, locks
<1>2. /\ t \in threads[ProcOf[t]] /\ threads[ProcOf[t]] \in SUBSET Threads
  BY <1>0, <1>1, LivesOn, ActorFacts, Zenon DEF Types
<1>3. ~ Cardinality(threads[ProcOf[t]]) > 1 => threads[ProcOf[t]] = {t}
  <2> DEFINE T == threads[ProcOf[t]]
  <2>1. IsFiniteSet(T) /\ Cardinality(T) \in Nat BY <1>2, ThreadsFinite, Zenon
  <2>2. Cardinality(T \ {t}) = Cardinality(T) - 1 /\ IsFiniteSet(T \ {t})
    BY <1>2, <2>1, FS_RemoveElement, Zenon
  <2>3. Cardinality(T \ {t}) \in Nat BY <2>2, FS_CardinalityType, Zenon
  <2>4. ~ Cardinality(T) > 1 => Cardinality(T \ {t}) = 0 BY <2>1, <2>2, <2>3
  <2>5. ~ Cardinality(T) > 1 => T \ {t} = {} BY <2>2, <2>4, FS_EmptySet, Zenon
  <2> QED BY <1>2, <2>5, Zenon
<1>4. \A a \in Actors : CalmMove(a)
  BY <1>0, <1>1, <1>3, ActorFacts, Zenon DEF CalmMove, Plain, Types
<1>5. Calm BY <1>1, <1>4, Zenon DEF Calm, procvars
<1> QED BY <1>5, CalmStep, Zenon

(* terminate makes a process that lives a prezombie. *)
LEMMA TerminateLife ==
  ASSUME WakeupInv, WakeupInv', LifeInv, NEW t \in Threads, terminate(t)
  PROVE  LifeInv'
<1> USE ActorFacts
<1>0. /\ Types /\ Types' /\ refs \in [Procs -> Nat]
      /\ Slots /\ ObjProcs /\ OneAtATime /\ KilledOnce /\ ReleasesAlone
      /\ \A p \in Procs : ProcInv(p)
  BY Zenon DEF LifeInv, WakeupInv
<1> DEFINE p == ProcOf[t]
<1>1. /\ pc[t] = "terminate" /\ p \in Procs /\ threads[p] \in SUBSET Threads
      /\ UNCHANGED <<parent, killed, refs, threads, refLock, obj>>
  BY <1>0, Zenon DEF terminate, locks, Types
<1>2. CASE threadTerminate(t) /\ UNCHANGED state
  <2>1. \A a \in Actors : CalmMove(a)
    BY <1>0, <1>1, <1>2 DEF CalmMove, Plain, threadTerminate, Goto, Types
  <2>2. Calm BY <1>1, <1>2, <2>1, Zenon DEF Calm
  <2> QED BY <2>2, CalmStep, Zenon
<1>3. CASE /\ state' = [state EXCEPT ![p] = "prezombie"] /\ state[p] = "alive"
           /\ pc' = [Signalled(threads[p] \ {t}) EXCEPT ![t] = "joinAll"]
  <2>1. \A a \in Actors : \/ pc'[a] = pc[a]
                          \/ a \in Threads /\ pc[a] \in Plain /\ pc'[a] \in Plain
    <3>1. Signalled(threads[p] \ {t}) = [a \in Actors |-> Signalled(threads[p] \ {t})[a]]
      BY Zenon DEF Signalled
    <3>2. pc'[t] = "joinAll" BY <1>3, <3>1, Zenon
    <3>3. \A a \in Actors \ {t} : pc'[a] = Signalled(threads[p] \ {t})[a] BY <1>3, <3>1, Zenon
    <3>4. \A a \in Actors \ {t} : \/ pc'[a] = pc[a]
                                  \/ a \in threads[p] /\ pc[a] \in Plain /\ pc'[a] \in Plain
      BY <3>3, Zenon DEF Signalled, Plain
    <3>5. pc[t] \in Plain /\ pc'[t] \in Plain BY <1>1, <3>2, Zenon DEF Plain
    <3>6. \A a \in threads[p] : a \in Threads BY <1>1, Zenon
    <3> TAKE a \in Actors
    <3>7. CASE a = t BY <3>5, <3>7, Zenon
    <3>8. CASE a # t BY <3>4, <3>6, <3>8, Zenon
    <3> QED BY <3>7, <3>8, Zenon
  <2>2. /\ t \in threads[p] /\ ~Removed(p) /\ ~killed[p] /\ ~Cloned(p)
        /\ ~Reaped(p)
    BY <1>1, LivesOn, Zenon
  <2> HIDE DEF p
  <2>3. state'[p] = "prezombie" /\ \A q \in Procs \ {p} : state'[q] = state[q]
    BY <1>0, <1>1, <1>3, Zenon DEF Types
  <2>4. \A q \in Procs : SameUsers(q)
    <3>1. Any \notin Procs BY ProcAssumption, Zenon
    <3>2. \A a \in Actors : MovesAt(Any, a)
      BY <1>1, <2>1, Zenon DEF MovesAt, InUse, Killing, Plain
    <3> QED BY <1>0, <3>1, <3>2, OthersSame, Zenon
  <2>5. \A q \in Procs \ {p} : ProcInv(q)' BY <1>0, <1>1, <2>3, <2>4, SameProc, Zenon
  <2>6. ProcInv(p)'
    <3>1. ProcInv(p) /\ SameUsers(p) /\ p' = p BY <1>0, <1>1, <2>4, Zenon DEF p
    <3>2. Users(p)' = Users(p) BY <1>1, <2>2, <3>1, Zenon DEF Users, Gone, Num, SameUsers
    <3> QED BY <1>1, <1>3, <2>2, <2>3, <3>1, <3>2, Zenon DEF ProcInv, SameUsers, Refs
  <2>7. Slots' BY <1>0, <1>1, <2>1 DEF Slots, Plain
  <2>8. ObjProcs' BY <1>0, <1>1, <2>1, Zenon DEF ObjProcs, Killing, Plain
  <2>9. OneAtATime' BY <1>0, <1>1, <2>1 DEF OneAtATime, Plain
  <2>10. KilledOnce'
    <3>1. \A s \in Threads : Reaping(s)' => Reaping(s) /\ obj[s] \in Procs \ {p}
      BY <1>0, <2>1, <2>2, Zenon DEF ObjProcs, Reaping, Killing, Reaped, Plain
    <3> QED BY <1>0, <1>1, <2>3, <3>1, ReapersSame, Zenon
  <2>11. ReleasesAlone' BY <1>0, <1>1, <2>1, Zenon DEF ReleasesAlone, Plain
  <2> QED BY <1>0, <1>1, <2>5, <2>6, <2>7, <2>8, <2>9, <2>10, <2>11, Zenon DEF LifeInv
<1> QED BY <1>2, <1>3, Zenon DEF terminate

(***************************************************************************)
(* killThread takes the reference of the dead thread for the terminator;   *)
(* with the last thread the process becomes a zombie.                      *)
(***************************************************************************)
LEMMA KillThreadLife ==
  ASSUME WakeupInv, WakeupInv', LifeInv, InitLives, killThread
  PROVE  LifeInv'
<1> USE ActorFacts
<1>0. /\ Types /\ Types' /\ refs \in [Procs -> Nat]
      /\ Slots /\ ObjProcs /\ OneAtATime /\ KilledOnce /\ ReleasesAlone
      /\ \A p \in Procs : ProcInv(p)
  BY Zenon DEF LifeInv, WakeupInv
<1>t. PICK t \in Threads : t = Head(dead)
  <2>1. dead \in Seq(Threads) BY <1>0, Zenon DEF Types
  <2>2. dead # <<>> BY Zenon DEF killThread
  <2>3. Head(dead) \in Threads BY ONLY <2>1, <2>2
  <2> QED BY <2>3, Zenon
<1> DEFINE p == ProcOf[t]
           last == threads[p] = {t}
<1>1. /\ pc[Terminator] = "idle" /\ pc[t] = "zombie" /\ p \in Procs
      /\ threads' = [threads EXCEPT ![p] = @ \ {t}]
      /\ refs' = [refs EXCEPT ![p] = @ + 1 - 1]
      /\ state' = [state EXCEPT ![p] = IF last THEN "zombie" ELSE @]
      /\ obj' = [obj EXCEPT ![Terminator] = p]
      /\ UNCHANGED <<parent, killed, refLock>>
  BY <1>t, Zenon DEF killThread
<1>2. pc' = [s \in Actors |->
                 CASE s = Terminator -> IF last THEN "notify" ELSE "unlock"
                   [] s = t -> "free"
                   [] s \in threads[p] \ {t} /\ pc[s] = "joinSleep" -> "joinWoken"
                   [] s \in threads[p] \ {t} /\ pc[s] = "joinAllSleep" -> "joinAll"
                   [] OTHER -> pc[s]]
  BY <1>t, Zenon DEF killThread
<1>3. /\ t \in threads[p] /\ state[p] \notin {"free", "zombie"} /\ ~Removed(p) /\ ~killed[p]
      /\ ~Cloned(p) /\ ~Reaped(p) /\ ~InKill(p)
  BY <1>1, LivesOn, Zenon
<1>q. p # Init0 BY <1>1, Zenon DEF InitLives, EndLabels
<1>4. pc'[Terminator] \in {"notify", "unlock"} /\ pc'[t] = "free"
  <2>1. pc'[Terminator] = IF last THEN "notify" ELSE "unlock"
    <3> HIDE DEF p
    <3> QED BY <1>1, <1>2, Zenon
  <2>2. pc'[t] = "free" BY <1>2, Zenon
  <2> QED BY <2>1, <2>2, Zenon
<1>5. \A s \in Threads \ {t} : pc'[s] = pc[s] \/ (pc[s] \in Plain /\ pc'[s] \in Plain)
  BY <1>2, Zenon DEF Plain
<1>6. obj'[Terminator] = p /\ \A s \in Threads : obj'[s] = obj[s]
  BY <1>0, <1>1 DEF Types
<1> HIDE DEF p
<1>7. /\ threads'[p] = threads[p] \ {t} /\ refs'[p] = refs[p] /\ refs' \in [Procs -> Nat]
      /\ state'[p] = IF last THEN "zombie" ELSE state[p]
      /\ \A q \in Procs \ {p} : threads'[q] = threads[q] /\ refs'[q] = refs[q]
                                 /\ state'[q] = state[q]
  BY <1>0, <1>1 DEF Types
<1>8. \A a \in Actors : MovesAt(p, a)
  <2>1. \A s \in Threads : MovesAt(p, s)
    BY <1>1, <1>4, <1>5, <1>6, Zenon DEF MovesAt, InUse, Killing, Plain
  <2>2. MovesAt(p, Terminator)
    BY <1>1, <1>6, Zenon DEF MovesAt, InUse, Killing, Busy
  <2> QED BY <2>1, <2>2, Zenon DEF Actors
<1>9. \A q \in Procs \ {p} : ProcInv(q)'
  BY <1>0, <1>1, <1>7, <1>8, OthersSame, SameProc, Zenon
<1>10. ProcInv(p)'
  <2>0. p' = p BY Zenon DEF p
  <2>1. ~Removed(p)' /\ ~Cloned(p)' /\ ~Reaped(p)' /\ ~InKill(p)'
    <3>1. \A s \in Threads : pc'[s] = pc[s] \/ pc'[s] \in Plain \/ pc'[s] = "free"
      BY <1>4, <1>5, Zenon
    <3>2. ~Cloned(p)' BY <1>3, <1>6, <2>0, <3>1, Zenon DEF Cloned, Plain
    <3>3. ~Reaped(p)' /\ ~InKill(p)'
      BY <1>3, <1>6, <2>0, <3>1, Zenon DEF Reaped, InKill, Reaping, Killing, Plain
    <3>4. ~Removed(p)' BY <1>3, <1>4, <1>6, <2>0, <3>1 DEF Removed, Plain, Actors
    <3> QED BY <3>2, <3>3, <3>4, Zenon
  <2>2. InKillThread(p)' /\ ~InKillThread(p)
    BY <1>1, <1>4, <1>6, <2>0, Zenon DEF InKillThread, TerminatorLabels
  <2>3. Cardinality(threads[p] \ {t}) = Cardinality(threads[p]) - 1
        /\ Cardinality(threads[p]) \in Nat
    <3>1. threads[p] \in SUBSET Threads BY <1>0, <1>1, Zenon DEF Types
    <3> QED BY <1>3, <3>1, ThreadsFinite, FS_RemoveElement, Zenon
  <2>4. refs[p] = Users(p) /\ refs[p] \in Nat BY <1>0, <1>1, <1>3, <1>q, Zenon DEF ProcInv, Refs
  <2>5. Users(p)' = Users(p)
    <3>1. Cardinality(threads[p])' = Cardinality(threads[p]) - 1 BY <1>7, <2>0, <2>3, Zenon
    <3>2. ~Gone(p) /\ ~Gone(p)' BY <1>1, <1>3, <2>0, <2>1, Zenon DEF Gone
    <3> QED BY <1>3, <2>1, <2>2, <2>3, <3>1, <3>2 DEF Users, Num
  <2>6. (state[p])' # "free" /\ ((state[p])' = "zombie" => (threads[p])' = {})
    BY <1>3, <1>7, <2>0, Zenon
  <2>7. ~(killed[p])' /\ (refs[p])' = refs[p] BY <1>1, <1>3, <1>7, <2>0, Zenon
  <2> QED BY <1>q, <2>0, <2>1, <2>4, <2>5, <2>6, <2>7, Zenon DEF ProcInv, Refs
<1>11. Slots'
  <2>1. \A q \in Procs \ {p} : threads'[q] = {s \in Threads : ProcOf[s] = q /\ pc'[s] # "free"}
    BY <1>0, <1>4, <1>5, <1>7 DEF Slots, p, Plain
  <2>2. {s \in Threads : ProcOf[s] = p /\ pc'[s] # "free"} = threads[p] \ {t}
    BY <1>0, <1>1, <1>4, <1>5 DEF Slots, Plain
  <2> QED BY <1>7, <2>1, <2>2 DEF Slots
<1>12. ObjProcs'
  <2>1. \A s \in Threads : (Killing(s)' \/ pc'[s] \in {"kill", "cloneThread", "remove"}) =>
          pc'[s] = pc[s] /\ obj'[s] = obj[s]
    BY <1>4, <1>5, <1>6, Zenon DEF Killing, Plain
  <2> QED BY <1>0, <1>4, <2>1, Zenon DEF ObjProcs, Killing, Actors
<1>13. OneAtATime'
  <2>1. \A s \in Threads : pc'[s] \in {"cloneThread", "remove"} => pc'[s] = pc[s]
    BY <1>4, <1>5, Zenon DEF Plain
  <2> QED BY <1>0, <1>1, <1>4, <1>6, <2>1 DEF OneAtATime, Actors
<1>14. KilledOnce'
  <2>1. \A s \in Threads : Reaping(s)' => Reaping(s) /\ obj[s] \in Procs \ {p}
    BY <1>0, <1>3, <1>4, <1>5, Zenon DEF ObjProcs, Reaping, Killing, Reaped, Plain
  <2> QED BY <1>0, <1>1, <1>6, <1>7, <2>1, ReapersSame, Zenon
<1>15. ReleasesAlone'
  <2>1. \A s \in Threads : pc'[s] = "release" => pc[s] = "release" /\ s # t
    BY <1>4, <1>5, Zenon DEF Plain
  <2> QED BY <1>0, <1>3, <1>7, <2>1 DEF ReleasesAlone
<1> QED BY <1>7, <1>9, <1>10, <1>11, <1>12, <1>13, <1>14, <1>15, Zenon DEF LifeInv

(* The end of killThread: the terminator may hold the last reference. *)
LEMMA KillThreadReleaseLife ==
  ASSUME WakeupInv, WakeupInv', LifeInv, InitLives, killThreadRelease
  PROVE  LifeInv'
<1> USE ActorFacts
<1>0. /\ Types /\ Types' /\ refs \in [Procs -> Nat]
      /\ Slots /\ ObjProcs /\ OneAtATime /\ KilledOnce /\ ReleasesAlone
      /\ \A p \in Procs : ProcInv(p)
  BY Zenon DEF LifeInv, WakeupInv
<1>p. PICK p \in Procs : p = obj[Terminator] BY <1>0, Zenon DEF Types
<1>1. /\ pc[Terminator] = "release" /\ UNCHANGED <<parent, state, killed, threads>>
      /\ relRef(Terminator, p, 1)
  BY <1>p, Zenon DEF killThreadRelease
<1>2. InKillThread(p) /\ p # Init0
  BY <1>p, <1>1, Zenon DEF InKillThread, TerminatorLabels, InitLives, InUse, Busy
<1>3. /\ state[p] # "free" /\ ~Cloned(p) /\ refs[p] = Users(p)
  BY <1>0, <1>2, Zenon DEF ProcInv, Refs
<1>4. refLock = None /\ \A a \in Actors : pc[a] # "remove"
  BY <1>0, <1>1, NoneNoActor, Zenon DEF relRef, OneAtATime
<1>5. ~Removed(p) BY <1>4, Zenon DEF Removed
<1> DEFINE card == Cardinality(threads[p])
<1>6. card \in Nat /\ (card = 0 => threads[p] = {})
  <2>1. threads[p] \in SUBSET Threads BY <1>0, Zenon DEF Types
  <2> QED BY <2>1, ThreadsFinite, FS_EmptySet, Zenon
<1>7. refs[p] = Num(~Gone(p)) + card + Num(InKill(p)) + 1 BY <1>2, <1>3, Zenon DEF Users, Num
<1>8. /\ refs'[p] = refs[p] - 1 /\ refs' \in [Procs -> Nat]
      /\ \A q \in Procs \ {p} : refs'[q] = refs[q]
  <2>1. refs[p] - 1 \in Nat BY <1>6, <1>7 DEF Num
  <2> QED BY <1>0, <1>1, <2>1, Zenon DEF relRef
<1>9. /\ \A a \in Threads : pc'[a] = pc[a] /\ obj'[a] = obj[a]
      /\ \/ refs[p] = 1 /\ pc'[Terminator] = "remove" /\ obj'[Terminator] = p
            /\ refLock' = Terminator
         \/ refs[p] # 1 /\ pc'[Terminator] = "idle" /\ refLock' = None
  BY <1>0, <1>1 DEF relRef, GotoWith, Goto, Back, Types
<1>10. \A a \in Actors : MovesAt(p, a)
  <2>1. pc'[Terminator] = "remove" \/ pc'[Terminator] = "idle" BY <1>9, Zenon
  <2>2. InUse(Terminator)' => obj'[Terminator] = p BY <1>9, <2>1, Zenon DEF InUse, Killing, Busy
  <2> QED BY <1>p, <1>9, <2>2, Zenon DEF MovesAt, Actors
<1>11. \A q \in Procs \ {p} : ProcInv(q)'
  BY <1>0, <1>1, <1>8, <1>10, OthersSame, SameProc, Zenon
<1>12. ProcInv(p)'
  <2>1. (Reaped(p)' <=> Reaped(p)) /\ (InKill(p)' <=> InKill(p)) /\ ~Cloned(p)'
    BY <1>3, <1>9, Zenon DEF Reaped, InKill, Cloned, Reaping, Killing
  <2>2. ~InKillThread(p)' BY <1>9, Zenon DEF InKillThread, TerminatorLabels
  <2>3. Removed(p)' <=> refs[p] = 1
    <3>1. refs[p] = 1 => Removed(p)' BY <1>9, Zenon DEF Removed
    <3>2. refs[p] # 1 => ~Removed(p)' BY <1>4, <1>9, Zenon DEF Removed, Actors
    <3> QED BY <3>1, <3>2, Zenon
  <2>4. CASE refs[p] = 1
    <3>1. Gone(p) /\ card = 0 /\ ~InKill(p) BY <1>6, <1>7, <2>4 DEF Num
    <3>2. killed[p] /\ ~Reaped(p) BY <1>5, <3>1, Zenon DEF Gone
    <3>3. state[p] = "zombie" BY <1>0, <3>2, Zenon DEF ProcInv
    <3>4. Users(p)' = 0
      <4>1. Gone(p)' BY <2>3, <2>4, Zenon DEF Gone
      <4>2. (card)' = 0 BY <1>1, <3>1, Zenon
      <4> QED BY <2>1, <2>2, <3>1, <4>1, <4>2 DEF Users, Num
    <3>5. refs'[p] = 0 BY <1>8, <2>4
    <3>6. state'[p] = "zombie" /\ killed'[p] /\ threads'[p] = {}
      BY <1>1, <1>6, <3>1, <3>2, <3>3, Zenon
    <3>7. state'[p] # "alive" /\ state'[p] # "free" BY <3>6, Zenon
    <3>8. ~Reaped(p)' BY <2>1, <3>2, Zenon
    <3> QED BY <1>2, <2>1, <2>2, <3>4, <3>5, <3>6, <3>7, <3>8, Zenon DEF ProcInv, Refs
  <2>5. CASE refs[p] # 1
    <3>1. Gone(p)' <=> Gone(p) BY <1>1, <1>5, <2>1, <2>3, <2>5, Zenon DEF Gone
    <3>2. Users(p)' = Num(~Gone(p)) + card + Num(InKill(p))
      BY <1>1, <1>6, <2>1, <2>2, <3>1 DEF Users, Num
    <3>3. refs'[p] = Users(p)' BY <1>6, <1>7, <1>8, <3>2 DEF Num
    <3> QED BY <1>0, <1>1, <1>2, <1>3, <2>1, <2>2, <2>3, <2>5, <3>3, Zenon DEF ProcInv, Refs
  <2> QED BY <2>4, <2>5, Zenon
<1>13. Slots' BY <1>0, <1>1, <1>9 DEF Slots
<1>14. ObjProcs' BY <1>0, <1>9, Zenon DEF ObjProcs, Killing, Actors
<1>15. OneAtATime' BY <1>0, <1>4, <1>9 DEF OneAtATime, Actors
<1>16. KilledOnce'
  <2>1. \A s \in Threads : Reaping(s)' => Reaping(s) BY <1>9, Zenon DEF Reaping, Killing
  <2> QED BY <1>0, <1>1, <1>9, <2>1, ReapersSame, Zenon
<1>17. ReleasesAlone' BY <1>0, <1>1, <1>9, Zenon DEF ReleasesAlone
<1> QED BY <1>8, <1>11, <1>12, <1>13, <1>14, <1>15, <1>16, <1>17, Zenon DEF LifeInv

-----------------------------------------------------------------------------
(* The initial state: process 0 with its first thread. *)
LEMMA InitLife == Init => LifeInv
<1> SUFFICES ASSUME Init PROVE LifeInv BY Zenon
<1> USE ActorFacts
<1>1. /\ state = [p \in Procs |-> IF p = Init0 THEN "alive" ELSE "free"]
      /\ killed = [p \in Procs |-> FALSE]
      /\ refs = [p \in Procs |-> IF p = Init0 THEN 1 ELSE 0]
      /\ threads = [p \in Procs |-> IF p = Init0 THEN {Main[p]} ELSE {}]
      /\ pc = [t \in Actors |-> IF t = Terminator THEN "idle"
                                ELSE IF t = Main[Init0] THEN "user" ELSE "free"]
  BY Zenon DEF Init
<1>2. \A a \in Actors : pc[a] \in {"idle", "user", "free"} BY <1>1, Zenon
<1>3. pc[Terminator] = "idle" BY <1>1, Zenon
<1>4. \A p : ~Removed(p) /\ ~Reaped(p) /\ ~InKill(p) /\ ~Cloned(p) /\ ~InKillThread(p)
  BY <1>2, <1>3, Zenon DEF Removed, Reaped, InKill, Cloned, InKillThread, Reaping, Killing
<1>5. Slots
  <2>1. \A t \in Threads : pc[t] # "free" <=> t = Main[Init0] BY <1>1, Zenon
  <2> QED BY <1>1, <2>1 DEF Slots
<1>6. \A p \in Procs : ProcInv(p)
  <2> TAKE p \in Procs
  <2>1. CASE p = Init0
    <3>1. /\ state[p] = "alive" /\ ~killed[p] /\ refs[p] = 1 /\ threads[p] = {Main[Init0]}
      BY <1>1, <2>1, Zenon
    <3>2. Cardinality(threads[p]) = 1 BY <3>1, FS_Singleton, Zenon
    <3>3. Users(p) = 2 BY <1>4, <3>1, <3>2 DEF Users, Gone, Num
    <3>4. Refs(p) = 2 BY ONLY <2>1, <3>1 DEF Refs
    <3> QED BY <1>4, <3>1, <3>3, <3>4, Zenon DEF ProcInv
  <2>2. CASE p # Init0
    <3>1. state[p] = "free" /\ ~killed[p] /\ refs[p] = 0 /\ threads[p] = {}
      BY <1>1, <2>2, Zenon
    <3> QED BY <1>4, <2>2, <3>1, Zenon DEF ProcInv, Refs
  <2> QED BY <2>1, <2>2, Zenon
<1>7. ObjProcs /\ OneAtATime BY <1>2, Zenon DEF ObjProcs, OneAtATime, Killing
<1>8. KilledOnce /\ ReleasesAlone BY <1>2, Zenon DEF KilledOnce, ReleasesAlone, Reaping, Killing
<1>9. refs \in [Procs -> Nat] BY <1>1, Zenon
<1> QED BY <1>5, <1>6, <1>7, <1>8, <1>9, Zenon DEF LifeInv

(* Every step keeps the invariant. *)
LEMMA NextLife == WakeupInv /\ WakeupInv' /\ LifeInv /\ InitLives /\ [Next]_vars => LifeInv'
<1> SUFFICES ASSUME WakeupInv, WakeupInv', LifeInv, InitLives, [Next]_vars PROVE LifeInv'
  BY Zenon
<1>1. ASSUME NEW t \in Threads, Call(t) PROVE LifeInv'
  BY <1>1, CalmThreadSteps, WaitLife, Zenon DEF Call
<1>2. ASSUME NEW t \in Threads, Kernel(t) PROVE LifeInv'
  <2>1. t \in Actors BY ActorFacts, Zenon
  <2> QED BY <1>2, <2>1, CalmThreadSteps, CloneAddLife, CloneThreadLife, CloneFailLife,
             StartLockedLife, WaitLife, KillLife, KillChildsLife, KillReleaseLife,
             RemoveLife, TerminateLife, JoinAllLife, Zenon DEF Kernel
<1>3. ASSUME NEW p \in Procs, addSignalFor(p) PROVE LifeInv' BY <1>3, CalmSignal, Zenon
<1>4. CASE TerminatorStep
  <2>1. Terminator \in Actors BY ActorFacts, Zenon
  <2> QED BY <1>4, <2>1, KillThreadLife, CalmTerminatorSteps, KillThreadReleaseLife,
             RemoveLife, Zenon DEF TerminatorStep
<1>5. CASE UNCHANGED vars
  <2>1. Calm BY <1>5, Zenon DEF vars, Calm, CalmMove
  <2> QED BY <2>1, CalmStep, Zenon
<1> QED BY <1>1, <1>2, <1>3, <1>4, <1>5, Zenon DEF Next

-----------------------------------------------------------------------------
(* Process 0 starts with its first thread, and nobody works on it. *)
LEMMA InitInitLives == Init => InitLives
<1> SUFFICES ASSUME Init PROVE InitLives BY Zenon
<1> USE ActorFacts
<1>1. \A a \in Actors : pc[a] \in {"idle", "user", "free"}
  BY Zenon DEF Init
<1>2. pc[Main[Init0]] = "user" /\ state[Init0] = "alive" /\ sigkill = {} BY Zenon DEF Init
<1> QED BY <1>1, <1>2, Zenon DEF InitLives, EndLabels, InUse, Killing, Busy

(***************************************************************************)
(* A step that leaves process 0 alone: it lives on, its threads do not     *)
(* begin to end and get no signal, and whoever begins to work on a process *)
(* works on another one.                                                   *)
(***************************************************************************)
Spares(a) ==
  /\ pc'[a] = "free" => pc[a] \in {"free", "zombie"}
  /\ a \in Threads /\ pc'[a] \in EndLabels =>
       pc[a] \in EndLabels \/ a \in sigkill \/ ProcOf[a] # Init0
  /\ InUse(a)' => (InUse(a) /\ obj'[a] = obj[a]) \/ obj'[a] # Init0

LEMMA SparedLives ==
  ASSUME InitLives, state'[Init0] = state[Init0],
         \A t \in Threads : t \in sigkill' => t \in sigkill \/ ProcOf[t] # Init0,
         \A a \in Actors : Spares(a)
  PROVE  InitLives'
<1> USE ActorFacts
<1>1. pc'[Main[Init0]] # "free" BY Zenon DEF InitLives, Spares, EndLabels
<1>2. \A t \in Threads : ProcOf[t] = Init0 => t \notin sigkill' /\ pc'[t] \notin EndLabels
  BY Zenon DEF InitLives, Spares
<1>3. \A a \in Actors : InUse(a)' => obj'[a] # Init0 BY Zenon DEF InitLives, Spares
<1> QED BY <1>1, <1>2, <1>3, Zenon DEF InitLives

(* One actor moves to the label l, and works on the same process or on q. *)
LEMMA GotoLives ==
  ASSUME Types, InitLives, NEW a \in Actors, NEW l, Goto(a, l), obj' = obj,
         l \in EndLabels /\ a \in Threads =>
           pc[a] \in EndLabels \/ a \in sigkill \/ ProcOf[a] # Init0,
         l = "free" => pc[a] = "free", InUse(a)' => InUse(a),
         state'[Init0] = state[Init0], sigkill' = sigkill
  PROVE  InitLives'
<1>1. pc'[a] = l /\ \A b \in Actors \ {a} : pc'[b] = pc[b] BY ActorFacts, Zenon DEF Types, Goto
<1>2. Spares(a) BY <1>1, Zenon DEF Spares
<1>3. \A b \in Actors \ {a} : Spares(b) BY <1>1, Zenon DEF Spares, InUse, Killing
<1> QED BY <1>2, <1>3, SparedLives, Zenon

LEMMA GotoWithLives ==
  ASSUME Types, InitLives, NEW a \in Actors, NEW l, NEW q, GotoWith(a, l, q),
         l \in EndLabels /\ a \in Threads => a \in sigkill,
         l # "free", InUse(a)' => q # Init0,
         state'[Init0] = state[Init0], sigkill' = sigkill
  PROVE  InitLives'
<1>1. /\ pc'[a] = l /\ obj'[a] = q
      /\ \A b \in Actors \ {a} : pc'[b] = pc[b] /\ obj'[b] = obj[b]
  BY ActorFacts, Zenon DEF Types, Goto, GotoWith
<1>2. Spares(a) BY <1>1, Zenon DEF Spares
<1>3. \A b \in Actors \ {a} : Spares(b) BY <1>1, Zenon DEF Spares, InUse, Killing
<1> QED BY <1>2, <1>3, SparedLives, Zenon

(* relRef by an actor that uses a process, which is not process 0. *)
LEMMA RelRefLives ==
  ASSUME Types, InitLives, NEW a \in Actors, NEW k, InUse(a), relRef(a, obj[a], k),
         state' = state, sigkill' = sigkill
  PROVE  InitLives'
<1> USE ActorFacts
<1>1. obj[a] # Init0 BY Zenon DEF InitLives
<1>2. CASE GotoWith(a, "remove", obj[a])
  BY <1>1, <1>2, GotoWithLives, Zenon DEF EndLabels
<1>3. CASE GotoWith(a, Back(a), Init0)
  <2>1. /\ Back(a) \in {"idle", "terminate", "user"}
        /\ a \in Threads /\ Back(a) = "terminate" => a \in sigkill
        /\ a = Terminator => Back(a) = "idle"
    BY Zenon DEF Back
  <2>2. pc'[a] = Back(a) BY <1>3, Zenon DEF GotoWith, Goto, Types
  <2>3. ~InUse(a)' BY <2>1, <2>2, Zenon DEF InUse, Killing, Busy
  <2>4. Back(a) \in EndLabels /\ a \in Threads => a \in sigkill BY <2>1, Zenon DEF EndLabels
  <2>5. Back(a) # "free" BY <2>1, Zenon
  <2> HIDE DEF Back
  <2> QED BY <1>3, <2>3, <2>4, <2>5, GotoWithLives, Zenon
<1> QED BY <1>2, <1>3, Zenon DEF relRef

(* The calls of a thread, and its steps that only move it. *)
LEMMA MoveLives ==
  ASSUME Types, InitLives, NEW t \in Threads,
         \/ clone(t) \/ startThread(t) \/ waitSleep(t) \/ kill(t) \/ killChilds(t)
         \/ killUnlock(t) \/ terminateThread(t) \/ handleSignal(t) \/ joinAll(t)
         \/ release(t) \/ join(t)
  PROVE  InitLives'
<1>0. t \in Actors /\ t # Terminator BY ActorFacts, Zenon
<1>1. ASSUME NEW l, Goto(t, l), UNCHANGED <<state, obj, sigkill>>,
             \/ l \in {"user", "clone", "start", "childSleep", "childWoken", "joinSleep",
                      "joinWoken"}
             \/ l \in {"killChilds", "killNotify", "killUnlock", "killRelease"} /\ InUse(t)
             \/ l \in EndLabels /\ (pc[t] \in EndLabels \/ t \in sigkill \/ ProcOf[t] # Init0)
      PROVE  InitLives'
  <2>1. pc'[t] = l BY <1>0, <1>1, Zenon DEF Types, Goto
  <2>2. InUse(t)' => InUse(t) BY <1>0, <1>1, <2>1, Zenon DEF InUse, Killing, EndLabels
  <2>3. l # "free" BY <1>1, Zenon DEF EndLabels
  <2>4. l \in EndLabels => pc[t] \in EndLabels \/ t \in sigkill \/ ProcOf[t] # Init0
    BY <1>1, Zenon DEF EndLabels
  <2> QED BY <1>0, <1>1, <2>2, <2>3, <2>4, GotoLives, Zenon
<1> USE <1>0, <1>1 DEF Back, Asleep, threadTerminate, locks, procvars
<1>2. CASE clone(t) BY <1>2, Zenon DEF clone
<1>3. CASE startThread(t) BY <1>3, Zenon DEF startThread
<1>4. CASE waitSleep(t) BY <1>4, Zenon DEF waitSleep
<1>5. CASE kill(t) BY <1>5, Zenon DEF kill, InUse
<1>6. CASE killChilds(t) BY <1>6, Zenon DEF killChilds, InUse, Killing
<1>7. CASE killUnlock(t) BY <1>7, Zenon DEF killUnlock, InUse, Killing
<1>8. CASE terminateThread(t) BY <1>8, Zenon DEF terminateThread, EndLabels
<1>9. CASE handleSignal(t) BY <1>9, Zenon DEF handleSignal, EndLabels
<1>10. CASE joinAll(t) BY <1>10, Zenon DEF joinAll, EndLabels
<1>11. CASE release(t) BY <1>11, Zenon DEF release, EndLabels
<1>12. CASE join(t) BY <1>12, Zenon DEF join, EndLabels
<1> QED BY <1>2, <1>3, <1>4, <1>5, <1>6, <1>7, <1>8, <1>9, <1>10, <1>11, <1>12, Zenon

(* A thread that gets a process to work on, or leaves the one it had. *)
LEMMA TakeLives ==
  ASSUME Types, InitLives, NEW t \in Threads,
         \/ cloneAdd(t) \/ waitAgain(t) \/ \E q \in Awaited[t] : waitChild(t, q)
  PROVE  InitLives'
<1>0. t \in Actors /\ t # Terminator BY ActorFacts, Zenon
<1>1. ASSUME NEW p, p # Init0, GotoWith(t, "kill", p) \/ GotoWith(t, "cloneThread", p),
             state'[Init0] = state[Init0], sigkill' = sigkill
      PROVE  InitLives'
  BY <1>0, <1>1, GotoWithLives, Zenon DEF EndLabels
<1>2. ASSUME NEW l, NEW q, GotoWith(t, l, q),
             l \in {"user", "childWait"} \/ (l = "terminate" /\ t \in sigkill),
             UNCHANGED <<state, sigkill>>
      PROVE  InitLives'
  <2>1. pc'[t] = l BY <1>0, <1>2, Zenon DEF Types, Goto, GotoWith
  <2>2. ~InUse(t)' BY <1>0, <1>2, <2>1, Zenon DEF InUse, Killing
  <2>3. l # "free" /\ (l \in EndLabels => t \in sigkill) BY <1>2, Zenon DEF EndLabels
  <2> QED BY <1>0, <1>2, <2>2, <2>3, GotoWithLives, Zenon
<1>3. ASSUME NEW q, getExitState(t, q), UNCHANGED <<state, sigkill>> PROVE InitLives'
  <2>1. ASSUME NEW c \in Reapable(ProcOf[t], q) PROVE c # Init0
    BY <2>1, Zenon DEF Reapable, InitLives
  <2> QED BY <1>1, <1>2, <1>3, <2>1, Zenon DEF getExitState
<1>4. CASE cloneAdd(t)
  <2>1. ASSUME NEW p \in Procs, state[p] = "free", state' = [state EXCEPT ![p] = "alive"],
               GotoWith(t, "cloneThread", p), sigkill' = sigkill
        PROVE  InitLives'
    <3>1. p # Init0 BY <2>1, Zenon DEF InitLives
    <3>2. state'[Init0] = state[Init0] BY <2>1, <3>1, ActorFacts, Zenon DEF Types
    <3> QED BY <1>1, <2>1, <3>1, <3>2, Zenon
  <2>2. ASSUME Goto(t, Back(t)), UNCHANGED <<state, obj, sigkill>> PROVE InitLives'
    <3>1. Back(t) = "user" \/ (Back(t) = "terminate" /\ t \in sigkill) BY <1>0, Zenon DEF Back
    <3>2. pc'[t] = Back(t) BY <1>0, <2>2, Zenon DEF Types, Goto
    <3>3. ~InUse(t)' BY <1>0, <3>1, <3>2, Zenon DEF InUse, Killing
    <3>4. Back(t) # "free" /\ (Back(t) \in EndLabels => t \in sigkill) BY <3>1, Zenon DEF EndLabels
    <3> QED BY <1>0, <2>2, <3>3, <3>4, GotoLives, Zenon
  <2> QED BY <1>4, <2>1, <2>2, Zenon DEF cloneAdd
<1>5. ASSUME NEW q \in Awaited[t], waitChild(t, q) PROVE InitLives'
  BY <1>3, <1>5, Zenon DEF waitChild
<1>6. CASE waitAgain(t)
  <2>1. Back(t) = "user" \/ (Back(t) = "terminate" /\ t \in sigkill) BY <1>0, Zenon DEF Back
  <2> QED BY <1>2, <1>3, <1>6, <2>1, Zenon DEF waitAgain
<1> QED BY <1>4, <1>5, <1>6, Zenon

(* A new thread, which begins without a signal. *)
LEMMA NewThreadLives ==
  ASSUME Types, ObjProcs, InitLives, NEW t \in Threads, cloneThread(t) \/ startLocked(t)
  PROVE  InitLives'
<1> USE ActorFacts
<1>1. ASSUME NEW p, NEW n \in Threads, newThread(t, p, n), pc[t] \in {"cloneThread", "start"},
             state' = state, \A b \in Actors \ {t} : obj'[b] = obj[b]
      PROVE  InitLives'
  <2>1. n # t /\ sigkill' \subseteq sigkill BY <1>1, Zenon DEF newThread
  <2>2. /\ pc'[t] = Back(t) /\ pc'[n] = "user"
        /\ \A b \in Actors \ {t, n} : pc'[b] = pc[b]
    BY <1>1, <2>1, Zenon DEF newThread, Types
  <2>3. Back(t) = "user" \/ (Back(t) = "terminate" /\ t \in sigkill) BY Zenon DEF Back
  <2>4. Spares(t)
    <3>1. ~InUse(t)' BY <2>2, <2>3, Zenon DEF InUse, Killing
    <3>2. pc'[t] # "free" /\ (pc'[t] \in EndLabels => t \in sigkill)
      BY <2>2, <2>3, Zenon DEF EndLabels
    <3> QED BY <3>1, <3>2, Zenon DEF Spares
  <2>5. Spares(n) BY <2>2, Zenon DEF Spares, InUse, Killing, Busy, EndLabels
  <2>6. \A b \in Actors \ {t, n} : Spares(b) BY <1>1, <2>2, Zenon DEF Spares, InUse, Killing
  <2> QED BY <1>1, <2>1, <2>4, <2>5, <2>6, SparedLives, Zenon
<1>2. CASE cloneThread(t)
  <2>1. \A b \in Actors \ {t} : obj'[b] = obj[b] BY <1>2, Zenon DEF cloneThread, Types
  <2>2. Main[obj[t]] \in Threads BY <1>2, Zenon DEF cloneThread, ObjProcs
  <2> QED BY <1>1, <1>2, <2>1, <2>2, Zenon DEF cloneThread
<1>3. CASE startLocked(t)
  <2>1. ASSUME Goto(t, Back(t)), sigkill' = sigkill PROVE InitLives'
    <3>1. Back(t) = "user" \/ (Back(t) = "terminate" /\ t \in sigkill) BY Zenon DEF Back
    <3>2. pc'[t] = Back(t) BY <2>1, Zenon DEF Types, Goto
    <3>3. ~InUse(t)' BY <3>1, <3>2, Zenon DEF InUse, Killing
    <3>4. Back(t) # "free" /\ (Back(t) \in EndLabels => t \in sigkill) BY <3>1, Zenon DEF EndLabels
    <3>5. state' = state /\ obj' = obj BY <1>3, Zenon DEF startLocked
    <3> QED BY <2>1, <3>3, <3>4, <3>5, GotoLives, Zenon
  <2> QED BY <1>1, <1>3, <2>1, Zenon DEF startLocked
<1> QED BY <1>2, <1>3, Zenon

(* A process that is removed is another one. *)
LEMMA RemoveLives ==
  ASSUME Types, InitLives, NEW a \in Actors, remove(a)
  PROVE  InitLives'
<1> USE ActorFacts
<1>1. obj[a] # Init0 BY Zenon DEF remove, InitLives, InUse
<1>2. state'[Init0] = state[Init0] /\ sigkill' = sigkill BY <1>1, Zenon DEF remove, Types
<1>3. GotoWith(a, Back(a), Init0) BY Zenon DEF remove
<1>4. /\ Back(a) \in {"idle", "terminate", "user"}
      /\ a \in Threads /\ Back(a) = "terminate" => a \in sigkill
      /\ a = Terminator => Back(a) = "idle"
  BY Zenon DEF Back
<1>5. pc'[a] = Back(a) BY <1>3, Zenon DEF GotoWith, Goto, Types
<1>6. ~InUse(a)' BY <1>4, <1>5, Zenon DEF InUse, Killing, Busy
<1>7. Back(a) \in EndLabels /\ a \in Threads => a \in sigkill BY <1>4, Zenon DEF EndLabels
<1>8. Back(a) # "free" BY <1>4, Zenon
<1> QED BY <1>2, <1>3, <1>6, <1>7, <1>8, GotoWithLives, Zenon

(* Who is woken up or signalled does not end yet. *)
LEMMA WakeLives ==
  ASSUME Types, InitLives, \/ notifyProcDied \/ \E t \in Threads : killNotify(t)
  PROVE  InitLives'
<1> USE ActorFacts
<1>1. ASSUME NEW a \in Actors, NEW q, NEW l, l \in {"unlock", "killUnlock"}, InUse(a),
             pc' = [Woken(q, "childSleep", "childWoken") EXCEPT ![a] = l],
             a = Terminator \/ l = "killUnlock",
             UNCHANGED <<state, obj, sigkill>>
      PROVE  InitLives'
  <2>1. pc'[a] = l BY <1>1, Zenon DEF Woken
  <2>2. \A b \in Actors \ {a} : pc'[b] = pc[b] \/ pc'[b] = "childWoken" BY <1>1, Zenon DEF Woken
  <2>3. Spares(a) BY <1>1, <2>1, Zenon DEF Spares, EndLabels
  <2>4. \A b \in Actors \ {a} : Spares(b)
    <3> TAKE b \in Actors \ {a}
    <3>1. CASE pc'[b] = pc[b] BY <1>1, <3>1, Zenon DEF Spares, InUse, Killing
    <3>2. CASE pc'[b] = "childWoken"
      BY <1>1, <3>2, Zenon DEF Spares, InUse, Killing, Busy, EndLabels
    <3> QED BY <2>2, <3>1, <3>2, Zenon
  <2> QED BY <1>1, <2>3, <2>4, SparedLives, Zenon
<1>2. CASE notifyProcDied
  BY <1>1, <1>2, Zenon DEF notifyProcDied, InUse, Busy, procvars
<1>3. ASSUME NEW t \in Threads, killNotify(t) PROVE InitLives'
  BY <1>1, <1>3, Zenon DEF killNotify, InUse, Killing, procvars
<1> QED BY <1>2, <1>3, Zenon

(* A signal goes to the threads of another process. *)
LEMMA SignalLives ==
  ASSUME Types, Slots, InitLives, \/ \E p \in Procs : addSignalFor(p)
                                  \/ \E t \in Threads : terminate(t)
  PROVE  InitLives'
<1> USE ActorFacts
<1>0. ASSUME NEW p \in Procs, p # Init0
      PROVE  \A s \in threads[p] : s \in Threads /\ ProcOf[s] # Init0
  BY <1>0 DEF Slots
<1>s. ASSUME NEW S, NEW b \in Actors
      PROVE  Signalled(S)[b] = pc[b] \/ Signalled(S)[b] \in {"childWoken", "joinWoken"}
  BY Zenon DEF Signalled
<1>m. ASSUME NEW b \in Actors, obj' = obj,
             pc'[b] = pc[b] \/ pc'[b] \in {"childWoken", "joinWoken"}
      PROVE  Spares(b)
  <2>1. CASE pc'[b] = pc[b] BY <1>m, <2>1, Zenon DEF Spares, InUse, Killing
  <2>2. CASE pc'[b] \in {"childWoken", "joinWoken"}
    BY <2>2, Zenon DEF Spares, InUse, Killing, Busy, EndLabels
  <2> QED BY <1>m, <2>1, <2>2, Zenon
<1>1. ASSUME NEW p \in Procs, addSignalFor(p) PROVE InitLives'
  <2>1. /\ p # Init0 /\ sigkill' = sigkill \cup threads[p] /\ pc' = Signalled(threads[p])
        /\ state' = state /\ obj' = obj
    BY <1>1, Zenon DEF addSignalFor, procvars
  <2>2. \A b \in Actors : Spares(b) BY <1>s, <1>m, <2>1, Zenon
  <2>3. \A t \in Threads : t \in sigkill' => t \in sigkill \/ ProcOf[t] # Init0
    BY <1>0, <2>1, Zenon
  <2> QED BY <2>1, <2>2, <2>3, SparedLives, Zenon
<1>2. ASSUME NEW t \in Threads, terminate(t) PROVE InitLives'
  <2> DEFINE p == ProcOf[t]
  <2>1. pc[t] = "terminate" /\ p \in Procs /\ obj' = obj BY <1>2, Zenon DEF terminate
  <2>2. p # Init0 BY <2>1, Zenon DEF InitLives, EndLabels
  <2>3. CASE threadTerminate(t) /\ UNCHANGED <<sigkill, state>>
    <3>1. Goto(t, "zombie") BY <2>3, Zenon DEF threadTerminate
    <3>2. ~InUse(t)' BY <3>1, Zenon DEF InUse, Killing, Goto, Types
    <3>3. "zombie" # "free" /\ pc[t] \in EndLabels BY <2>1, Zenon DEF EndLabels
    <3> QED BY <2>1, <2>3, <3>1, <3>2, <3>3, GotoLives, Zenon
  <2>4. CASE /\ sigkill' = sigkill \cup (threads[p] \ {t})
             /\ pc' = [Signalled(threads[p] \ {t}) EXCEPT ![t] = "joinAll"]
             /\ state' = [state EXCEPT ![p] = "prezombie"]
    <3>1. pc'[t] = "joinAll" /\ \A b \in Actors \ {t} : pc'[b] = Signalled(threads[p] \ {t})[b]
      <4>1. Signalled(threads[p] \ {t}) = [b \in Actors |-> Signalled(threads[p] \ {t})[b]]
        BY Zenon DEF Signalled
      <4> QED BY <2>4, <4>1, Zenon
    <3>2. Spares(t) BY <2>1, <3>1, Zenon DEF Spares, InUse, Killing, Busy, EndLabels
    <3>3. \A b \in Actors \ {t} : Spares(b) BY <1>s, <1>m, <2>1, <3>1, Zenon
    <3>4. state'[Init0] = state[Init0] BY <2>2, <2>4, Zenon DEF Types
    <3>5. \A s \in Threads : s \in sigkill' => s \in sigkill \/ ProcOf[s] # Init0
      BY <1>0, <2>1, <2>2, <2>4, Zenon
    <3> QED BY <3>2, <3>3, <3>4, <3>5, SparedLives, Zenon
  <2> QED BY <1>2, <2>3, <2>4, Zenon DEF terminate
<1> QED BY <1>1, <1>2, Zenon

(* The terminator kills a thread of another process. *)
LEMMA KillThreadLives ==
  ASSUME Types, Slots, InitLives, killThread
  PROVE  InitLives'
<1> USE ActorFacts
<1>t. PICK t \in Threads : t = Head(dead) BY DEF killThread, Types
<1> DEFINE p == ProcOf[t]
           last == threads[p] = {t}
<1>1. /\ pc[t] = "zombie" /\ p \in Procs /\ sigkill' = sigkill \ {t}
      /\ state' = [state EXCEPT ![p] = IF last THEN "zombie" ELSE @]
      /\ obj' = [obj EXCEPT ![Terminator] = p]
  BY <1>t, Zenon DEF killThread
<1>2. pc' = [s \in Actors |->
                 CASE s = Terminator -> IF last THEN "notify" ELSE "unlock"
                   [] s = t -> "free"
                   [] s \in threads[p] \ {t} /\ pc[s] = "joinSleep" -> "joinWoken"
                   [] s \in threads[p] \ {t} /\ pc[s] = "joinAllSleep" -> "joinAll"
                   [] OTHER -> pc[s]]
  BY <1>t, Zenon DEF killThread
<1>3. p # Init0 BY <1>1, Zenon DEF InitLives, EndLabels
<1>4. state'[Init0] = state[Init0] BY <1>1, <1>3, Zenon DEF Types
<1>5. obj'[Terminator] = p /\ \A s \in Threads : obj'[s] = obj[s] BY <1>1, Zenon DEF Types
<1>6. \A s \in Threads : \/ pc'[s] = pc[s] \/ (s = t /\ pc'[s] = "free") \/ pc'[s] = "joinWoken"
                         \/ (pc[s] = "joinAllSleep" /\ pc'[s] = "joinAll")
  BY <1>2, Zenon
<1>7. Spares(Terminator)
  <2>1. pc'[Terminator] # "free" BY <1>2, Zenon
  <2> HIDE DEF p
  <2> QED BY <1>3, <1>5, <2>1, Zenon DEF Spares
<1>8. \A s \in Threads : Spares(s)
  <2> TAKE s \in Threads
  <2>1. CASE pc'[s] = pc[s] BY <1>5, <2>1, Zenon DEF Spares, InUse, Killing
  <2>2. CASE s = t /\ pc'[s] = "free"
    BY <1>1, <2>2, Zenon DEF Spares, InUse, Killing, Busy, EndLabels
  <2>3. CASE pc'[s] = "joinWoken" BY <2>3, Zenon DEF Spares, InUse, Killing, Busy, EndLabels
  <2>4. CASE pc[s] = "joinAllSleep" /\ pc'[s] = "joinAll"
    BY <2>4, Zenon DEF Spares, InUse, Killing, Busy, EndLabels
  <2> QED BY <1>6, <2>1, <2>2, <2>3, <2>4, Zenon
<1>9. \A a \in Actors : Spares(a) BY <1>7, <1>8, Zenon DEF Actors
<1> HIDE DEF p, last
<1> QED BY <1>1, <1>4, <1>9, SparedLives, Zenon

(* Process 0 lives on in every step. *)
LEMMA NextInitLives == WakeupInv /\ LifeInv /\ InitLives /\ [Next]_vars => InitLives'
<1> SUFFICES ASSUME WakeupInv, LifeInv, InitLives, [Next]_vars PROVE InitLives' BY Zenon
<1>0. Types /\ Slots /\ ObjProcs BY Zenon DEF WakeupInv, LifeInv
<1> USE <1>0
<1>1. ASSUME NEW t \in Threads, Call(t) PROVE InitLives'
  BY <1>1, MoveLives, TakeLives, Zenon DEF Call
<1>2. ASSUME NEW t \in Threads, Kernel(t) PROVE InitLives'
  <2>1. t \in Actors BY ActorFacts, Zenon
  <2>2. CASE cloneFail(t)
    BY <2>1, <2>2, RelRefLives, Zenon DEF cloneFail, InUse
  <2>3. CASE killRelease(t)
    BY <2>1, <2>3, RelRefLives, Zenon DEF killRelease, InUse, Killing
  <2>4. CASE terminate(t) BY <2>4, SignalLives, Zenon
  <2>5. CASE killNotify(t) BY <2>5, WakeLives, Zenon
  <2> QED BY <1>2, <2>1, <2>2, <2>3, <2>4, <2>5, MoveLives, TakeLives, NewThreadLives,
             RemoveLives, Zenon DEF Kernel
<1>3. ASSUME NEW p \in Procs, addSignalFor(p) PROVE InitLives' BY <1>3, SignalLives, Zenon
<1>4. CASE TerminatorStep
  <2>1. Terminator \in Actors /\ Terminator \notin Threads BY ActorFacts, Zenon
  <2>2. CASE notify
    BY <2>1, <2>2, GotoLives, Zenon DEF notify, procvars, Goto, Types, InUse, Busy, Killing
  <2>3. CASE killThreadUnlock
    BY <2>1, <2>3, GotoLives, Zenon
    DEF killThreadUnlock, procvars, Goto, Types, InUse, Busy, Killing
  <2>4. CASE killThreadRelease
    BY <2>1, <2>4, RelRefLives, Zenon DEF killThreadRelease, InUse, Busy
  <2> QED BY <1>4, <2>1, <2>2, <2>3, <2>4, WakeLives, KillThreadLives, RemoveLives, Zenon
          DEF TerminatorStep
<1>5. CASE UNCHANGED vars
  BY <1>5, Zenon DEF vars, InitLives, InUse, Killing
<1> QED BY <1>1, <1>2, <1>3, <1>4, <1>5, Zenon DEF Next

(***************************************************************************)
(* At most one thread kills a process, and the first thread of process 0   *)
(* is in its list, so that the sums are the same.                          *)
(***************************************************************************)
LEMMA RefsOfUsers ==
  ASSUME LifeInv, InitLives, Types
  PROVE  RefsExact
<1> SUFFICES ASSUME NEW p \in Procs, state[p] # "free"
             PROVE  /\ Cardinality({t \in Threads : Killing(t) /\ obj[t] = p}) = Num(InKill(p))
                    /\ refs[p] = Num(~Gone(p)) + Cardinality(threads[p] \ {Main[Init0]})
                                 + Num(InKill(p)) + Num(InKillThread(p))
  BY Zenon DEF RefsExact, Gone, Removed, Reaped, Num, InKillThread
<1> USE ActorFacts
<1> DEFINE K == {t \in Threads : Killing(t) /\ obj[t] = p}
<1>1. Cardinality(K) = Num(InKill(p))
  <2>1. CASE K = {}
    <3>1. ~InKill(p) BY <2>1, Zenon DEF InKill
    <3>2. Cardinality(K) = 0 BY <2>1, FS_EmptySet, Zenon
    <3> QED BY <3>1, <3>2, Zenon DEF Num
  <2>2. CASE K # {}
    <3>1. PICK t \in Threads : Killing(t) /\ obj[t] = p BY <2>2, Zenon
    <3>2. K = {t} BY <3>1 DEF LifeInv, KilledOnce, Reaping
    <3>3. Cardinality(K) = 1 BY <3>2, FS_Singleton, Zenon
    <3> QED BY <3>1, <3>3, Zenon DEF Num, InKill
  <2> QED BY <2>1, <2>2, Zenon
<1>2. Refs(p) = Users(p) /\ refs[p] \in Nat BY Zenon DEF LifeInv, ProcInv
<1>3. /\ threads[p] \in SUBSET Threads
      /\ Main[Init0] \in threads[p] <=> p = Init0
  BY DEF LifeInv, Slots, InitLives
<1>4. IsFiniteSet(threads[p]) /\ Cardinality(threads[p]) \in Nat BY <1>3, ThreadsFinite, Zenon
<1>5. CASE p = Init0
  <2>1. Cardinality(threads[p] \ {Main[Init0]}) = Cardinality(threads[p]) - 1
    BY <1>3, <1>4, <1>5, FS_RemoveElement, Zenon
  <2> QED BY ONLY <1>1, <1>2, <1>4, <1>5, <2>1 DEF Refs, Users, Num
<1>6. CASE p # Init0
  <2>1. threads[p] \ {Main[Init0]} = threads[p] BY <1>3, <1>6, Zenon
  <2> QED BY <1>1, <1>2, <1>6, <2>1, Zenon DEF Refs, Users
<1> QED BY <1>5, <1>6, Zenon

-----------------------------------------------------------------------------
(* The list of processes holds every process that is not free, once. *)
ListOfProcs ==
  /\ procs \in Seq(Procs)
  /\ \A i, j \in 1..Len(procs) : procs[i] = procs[j] => i = j
  /\ \A p \in Procs : state[p] # "free" <=> \E i \in 1..Len(procs) : procs[i] = p

Holders ==
  /\ prog \in [Procs -> Actors \cup {None}]
  /\ childLock \in Actors \cup {None} /\ procLock \in Actors \cup {None}
  /\ refLock \in Actors \cup {None}
  /\ sigkill \in SUBSET Threads

Places ==
  /\ \A t \in Threads : pc[t] \in ThreadLabels /\ obj[t] \in Procs \cup {Any}
  /\ pc[Terminator] \in TerminatorLabels

(* clone appends a process that was free. *)
LEMMA CloneAddList ==
  ASSUME Types, ListOfProcs, NEW t \in Threads, cloneAdd(t)
  PROVE  ListOfProcs'
<1>0. /\ procs \in Seq(Procs)
      /\ \A i, j \in 1..Len(procs) : procs[i] = procs[j] => i = j
      /\ \A p \in Procs : state[p] # "free" <=> \E i \in 1..Len(procs) : procs[i] = p
  BY Zenon DEF ListOfProcs
<1>1. CASE UNCHANGED <<procs, state>> BY <1>1, Zenon DEF ListOfProcs
<1>2. ASSUME NEW p \in Procs, state[p] = "free", procs' = Append(procs, p),
             state' = [state EXCEPT ![p] = "alive"]
      PROVE  ListOfProcs'
  <2>1. PICK n \in Nat : n = Len(procs) BY <1>0
  <2> DEFINE N == 1..n
             M == 1..(n + 1)
  <2>2. procs' \in Seq(Procs) /\ Len(procs') = n + 1 BY <1>0, <1>2, <2>1
  <2>3. procs'[n + 1] = p /\ \A i \in N : procs'[i] = procs[i] BY <1>0, <1>2, <2>1
  <2>4. \A i \in M : i \in N \/ i = n + 1 BY <2>1
  <2>5. N \subseteq M /\ n + 1 \in M BY <2>1
  <2>6. \A i, j \in N : procs[i] = procs[j] => i = j BY <1>0, <2>1, Zenon
  <2>7. \A q \in Procs : state[q] # "free" <=> \E i \in N : procs[i] = q BY <1>0, <2>1, Zenon
  <2>8. \A q \in Procs : state'[q] # "free" <=> q = p \/ state[q] # "free"
    BY <1>2, Zenon DEF Types
  <2>9. 1..Len(procs') = M BY <2>2, Zenon
  <2> HIDE DEF M, N
  <2>10. \A i \in N : procs[i] # p BY <1>2, <2>7, Zenon
  <2>11. \A i, j \in M : procs'[i] = procs'[j] => i = j BY <2>3, <2>4, <2>6, <2>10, Zenon
  <2>12. \A q \in Procs : state'[q] # "free" <=> \E i \in M : procs'[i] = q
    <3> TAKE q \in Procs
    <3>1. ASSUME state'[q] # "free" PROVE \E i \in M : procs'[i] = q
      <4>1. CASE q = p BY <2>3, <2>5, <4>1, Zenon
      <4>2. CASE state[q] # "free" BY <2>3, <2>5, <2>7, <4>2, Zenon
      <4> QED BY <2>8, <3>1, <4>1, <4>2, Zenon
    <3>2. ASSUME NEW i \in M, procs'[i] = q PROVE state'[q] # "free"
      BY <2>3, <2>4, <2>7, <2>8, <3>2, Zenon
    <3> QED BY <3>1, <3>2, Zenon
  <2>13. procs' \in Seq(Procs) BY <2>2, Zenon
  <2> QED BY ONLY <2>9, <2>11, <2>12, <2>13, Zenon DEF ListOfProcs
<1> QED BY <1>1, <1>2, Zenon DEF cloneAdd

(***************************************************************************)
(* remove takes a process out of the list: its other positions are those   *)
(* that f reads, and each of them is read once.                            *)
(***************************************************************************)
LEMMA RemoveList ==
  ASSUME Types, ListOfProcs, NEW a \in Actors, remove(a)
  PROVE  ListOfProcs'
<1>0. /\ procs \in Seq(Procs)
      /\ \A i, j \in 1..Len(procs) : procs[i] = procs[j] => i = j
      /\ \A p \in Procs : state[p] # "free" <=> \E i \in 1..Len(procs) : procs[i] = p
  BY Zenon DEF ListOfProcs
<1>1. PICK i \in 1..Len(procs) :
        /\ procs[i] = obj[a]
        /\ procs' = [j \in 1..(Len(procs) - 1) |-> procs[IF j < i THEN j ELSE j + 1]]
  BY Zenon DEF remove
<1>2. PICK n \in Nat : n = Len(procs) BY <1>0
<1> DEFINE N == 1..n
           M == 1..(n - 1)
           f == [j \in M |-> IF j < i THEN j ELSE j + 1]
<1>3. i \in N /\ n - 1 \in Nat BY <1>2
<1>4. \A j \in M : f[j] \in N /\ f[j] # i BY <1>3
<1>5. \A j, k \in M : f[j] = f[k] => j = k BY <1>3
<1>6. \A k \in N : k # i => \E j \in M : f[j] = k
  <2> HIDE DEF f, M, N
  <2> SUFFICES ASSUME NEW k \in N, k # i PROVE \E j \in M : f[j] = k BY Zenon
  <2> USE DEF f, M, N
  <2>1. CASE k < i
    <3>1. k \in M BY <1>3, <2>1
    <3>2. f[k] = k BY <2>1, <3>1, Zenon
    <3> HIDE DEF f, M
    <3> QED BY <3>1, <3>2, Zenon
  <2>2. CASE k > i
    <3>1. k - 1 \in M /\ ~(k - 1 < i) BY <1>3, <2>2
    <3>2. f[k - 1] = k BY <3>1
    <3> HIDE DEF f, M
    <3> QED BY <3>1, <3>2, Zenon
  <2>3. k \in Int /\ i \in Int BY <1>3
  <2> HIDE DEF f, M
  <2> QED BY <2>1, <2>2, <2>3
<1>7. \A j \in M : procs'[j] = procs[f[j]] BY <1>1, <1>2, Zenon
<1>8. procs' = [j \in M |-> procs'[j]] BY <1>1, <1>2, Zenon
<1>9. \A j \in N : procs[j] \in Procs BY <1>0, <1>2
<1>10. \A j, k \in N : procs[j] = procs[k] => j = k BY <1>0, <1>2, Zenon
<1>11. \A q \in Procs : state[q] # "free" <=> \E j \in N : procs[j] = q BY <1>0, <1>2, Zenon
<1>12. \A q \in Procs : state'[q] # "free" <=> q # procs[i] /\ state[q] # "free"
  BY <1>1, <1>3, <1>9, Zenon DEF remove, Types
<1> HIDE DEF f, M, N
<1>13. procs' \in Seq(Procs) /\ 1..Len(procs') = M
  <2>1. \A j \in M : procs'[j] \in Procs BY <1>4, <1>7, <1>9, Zenon
  <2>2. procs' \in [M -> Procs] BY <1>8, <2>1, Zenon
  <2> QED BY <1>3, <2>2 DEF M
<1>14. \A j, k \in M : procs'[j] = procs'[k] => j = k
  BY <1>4, <1>5, <1>7, <1>10
<1>15. \A q \in Procs : state'[q] # "free" <=> \E j \in M : procs'[j] = q
  <2> TAKE q \in Procs
  <2>1. ASSUME state'[q] # "free" PROVE \E j \in M : procs'[j] = q
    <3>1. PICK k \in N : procs[k] = q BY <1>11, <1>12, <2>1, Zenon
    <3>2. k # i BY <1>12, <2>1, <3>1, Zenon
    <3>3. PICK j \in M : f[j] = k BY <1>6, <3>2, Zenon
    <3> QED BY <1>7, <3>1, <3>3, Zenon
  <2>2. ASSUME NEW j \in M, procs'[j] = q PROVE state'[q] # "free"
    <3>1. procs[f[j]] = q /\ f[j] \in N /\ f[j] # i BY <1>4, <1>7, <2>2, Zenon
    <3>2. i \in N BY <1>3, Zenon
    <3>3. q # procs[i]
      <4>1. PICK k \in N : k = f[j] BY <3>1, Zenon
      <4>2. procs[k] = procs[i] => k = i BY <1>10, <3>2, Zenon
      <4> QED BY <3>1, <4>1, <4>2, Zenon
    <3> QED BY <1>11, <1>12, <3>1, <3>3, Zenon
  <2> QED BY <2>1, <2>2, Zenon
<1> QED BY <1>13, <1>14, <1>15, Zenon DEF ListOfProcs

(* Every step keeps the list. *)
LEMMA NextList ==
  ASSUME WakeupInv, LifeInv, ListOfProcs, [Next]_vars
  PROVE  ListOfProcs'
<1> USE ActorFacts
<1>0. Types BY Zenon DEF WakeupInv
<1>1. ASSUME procs' = procs, \A p \in Procs : state'[p] # "free" <=> state[p] # "free"
      PROVE  ListOfProcs'
  BY <1>1, Zenon DEF ListOfProcs
<1>2. ASSUME NEW t \in Threads, Call(t) PROVE ListOfProcs'
  BY <1>1, <1>2, Zenon DEF Call, clone, startThread, waitChild, join, terminateThread, procvars
<1>3. ASSUME NEW a \in Actors, remove(a) PROVE ListOfProcs'
  BY <1>0, <1>3, RemoveList, Zenon
<1>4. ASSUME NEW t \in Threads, cloneAdd(t) PROVE ListOfProcs'
  BY <1>0, <1>4, CloneAddList, Zenon
<1>5. ASSUME NEW t \in Threads, terminate(t) PROVE ListOfProcs'
  <2>1. \A p \in Procs : state'[p] # "free" <=> state[p] # "free"
    BY <1>0, <1>5, Zenon DEF terminate, Types
  <2> QED BY <1>1, <1>5, <2>1, Zenon DEF terminate
<1>6. ASSUME NEW t \in Threads, Kernel(t) PROVE ListOfProcs'
  <2>1. \/ remove(t) \/ cloneAdd(t) \/ terminate(t) \/ UNCHANGED <<procs, state>>
    BY <1>6, Zenon DEF Kernel, cloneThread, cloneFail, startLocked, waitSleep, waitAgain, kill,
                killChilds, killNotify, killUnlock, killRelease, handleSignal, joinAll,
                release, join, procvars
  <2> QED BY <1>1, <1>3, <1>4, <1>5, <2>1, Zenon
<1>7. CASE killThread
  <2>1. PICK t \in Threads : t = Head(dead) BY <1>0, <1>7 DEF killThread, Types
  <2>2. state[ProcOf[t]] # "free" BY <1>7, <2>1, LivesOn, Zenon DEF killThread
  <2>3. /\ procs' = procs
        /\ state' = [state EXCEPT ![ProcOf[t]] =
                       IF threads[ProcOf[t]] = {t} THEN "zombie" ELSE @]
    BY <1>7, <2>1, Zenon DEF killThread
  <2>4. \A p \in Procs : state'[p] # "free" <=> state[p] # "free"
    BY <1>0, <2>2, <2>3, Zenon DEF Types
  <2> QED BY <1>1, <2>3, <2>4, Zenon
<1>8. CASE TerminatorStep
  <2>1. killThread \/ remove(Terminator) \/ UNCHANGED <<procs, state>>
    BY <1>8, Zenon DEF TerminatorStep, notify, notifyProcDied, killThreadUnlock,
                killThreadRelease, procvars
  <2> QED BY <1>1, <1>3, <1>7, <2>1, Zenon
<1>9. ASSUME NEW p \in Procs, addSignalFor(p) PROVE ListOfProcs'
  BY <1>1, <1>9, Zenon DEF addSignalFor, procvars
<1>10. CASE UNCHANGED vars BY <1>1, <1>10, Zenon DEF vars
<1> QED BY <1>2, <1>6, <1>8, <1>9, <1>10, Zenon DEF Next

(* Every step leaves the locks with actors. *)
LEMMA NextHolders ==
  ASSUME WakeupInv, LifeInv, Holders, [Next]_vars
  PROVE  Holders'
<1> USE ActorFacts DEF locks, procvars, Holders
<1>0. Types BY Zenon DEF WakeupInv
<1>k. \A t \in Threads : pc[t] \in {"kill", "killRelease"} => obj[t] \in Procs
  BY Zenon DEF LifeInv, ObjProcs, Killing
<1>1. ASSUME NEW a \in Actors, remove(a) PROVE Holders'
  BY <1>1, Zenon DEF remove
<1>p. ASSUME NEW x \in Procs, NEW a \in Actors \cup {None}, prog' = [prog EXCEPT ![x] = a]
      PROVE  prog' \in [Procs -> Actors \cup {None}]
  BY <1>p, Zenon
<1>2. ASSUME NEW t \in Threads, Call(t) PROVE Holders'
  <2>1. CASE clone(t) BY <2>1, Zenon DEF clone
  <2>2. ASSUME NEW q, waitChild(t, q) PROVE Holders'
    BY <2>2, Zenon DEF waitChild, getExitState
  <2>3. clone(t) \/ (\E q \in Awaited[t] : waitChild(t, q)) \/ UNCHANGED <<locks, sigkill>>
    BY <1>2, Zenon DEF Call, startThread, join, terminateThread
  <2> QED BY <2>1, <2>2, <2>3, Zenon
<1>3. ASSUME NEW t \in Threads, Kernel(t) PROVE Holders'
  <2>1. CASE cloneAdd(t) BY <2>1, Zenon DEF cloneAdd
  <2>2. CASE cloneThread(t) BY <2>2, Zenon DEF cloneThread, newThread
  <2>3. CASE cloneFail(t) BY <2>3, Zenon DEF cloneFail, relRef
  <2>4. CASE startLocked(t) BY <2>4, Zenon DEF startLocked, newThread
  <2>5. CASE waitSleep(t) BY <1>0, <2>5, Zenon DEF waitSleep, Types
  <2>6. CASE waitAgain(t) BY <2>6, Zenon DEF waitAgain, getExitState
  <2>7. CASE kill(t)
    <3>1. prog' \in [Procs -> Actors \cup {None}] BY <1>k, <1>p, <2>7, Zenon DEF kill
    <3> QED BY <2>7, <3>1, Zenon DEF kill
  <2>8. CASE killChilds(t) BY <2>8, Zenon DEF killChilds
  <2>9. CASE killUnlock(t) BY <1>0, <2>9, Zenon DEF killUnlock, Types
  <2>10. CASE killRelease(t)
    <3>1. prog' \in [Procs -> Actors \cup {None}] BY <1>k, <1>p, <2>10, Zenon DEF killRelease
    <3> QED BY <2>10, <3>1 DEF killRelease, relRef
  <2>11. CASE remove(t) BY <1>1, <2>11, Zenon
  <2>12. CASE terminate(t) BY <1>0, <2>12, Zenon DEF terminate, Types
  <2>13. CASE UNCHANGED <<locks, sigkill>> BY <2>13, Zenon
  <2> QED BY <1>3, <2>1, <2>2, <2>3, <2>4, <2>5, <2>6, <2>7, <2>8, <2>9, <2>10, <2>11, <2>12,
             <2>13, Zenon DEF Kernel, killNotify, handleSignal, joinAll, release, join
<1>4. CASE TerminatorStep
  <2>1. CASE killThread
    <3>1. PICK t \in Threads : t = Head(dead) BY <1>0, <2>1 DEF killThread, Types
    <3>2. prog' = [prog EXCEPT ![ProcOf[t]] = Terminator] BY <2>1, <3>1, Zenon DEF killThread
    <3>3. prog' \in [Procs -> Actors \cup {None}] BY <1>p, <3>2, Zenon
    <3>4. sigkill' = sigkill \ {t} BY <2>1, <3>1, Zenon DEF killThread
    <3> QED BY <2>1, <3>3, <3>4, Zenon DEF killThread
  <2>2. CASE notify BY <2>2, Zenon DEF notify
  <2>3. CASE notifyProcDied BY <2>3, Zenon DEF notifyProcDied
  <2>4. CASE killThreadUnlock
    <3>1. prog' \in [Procs -> Actors \cup {None}] BY <1>0, <1>p, <2>4, Zenon
      DEF killThreadUnlock, Types
    <3> QED BY <2>4, <3>1, Zenon DEF killThreadUnlock
  <2>5. CASE killThreadRelease BY <2>5, Zenon DEF killThreadRelease, relRef
  <2>6. CASE remove(Terminator) BY <1>1, <2>6, Zenon
  <2> QED BY <1>4, <2>1, <2>2, <2>3, <2>4, <2>5, <2>6, Zenon DEF TerminatorStep
<1>5. ASSUME NEW p \in Procs, addSignalFor(p) PROVE Holders'
  BY <1>0, <1>5, Zenon DEF addSignalFor, Types
<1>6. CASE UNCHANGED vars BY <1>6, Zenon DEF vars
<1> QED BY <1>2, <1>3, <1>4, <1>5, <1>6, Zenon DEF Next

(* Every step leaves the actors at places of theirs. *)
LEMMA NextPlaces ==
  ASSUME WakeupInv, LifeInv, Places, [Next]_vars
  PROVE  Places'
<1> USE ActorFacts DEF ThreadLabels, TerminatorLabels
<1>0. Types BY Zenon DEF WakeupInv
<1>1. ASSUME NEW t \in Threads, NEW l \in ThreadLabels, NEW o \in Procs \cup {Any},
             (Goto(t, l) /\ obj' = obj) \/ GotoWith(t, l, o)
      PROVE  Places'
  <2>1. \A s \in Threads : pc'[s] = IF s = t THEN l ELSE pc[s]
    BY <1>0, <1>1, Zenon DEF Types, Goto, GotoWith
  <2>2. pc'[Terminator] = pc[Terminator] BY <1>0, <1>1, Zenon DEF Types, Goto, GotoWith
  <2>3. \A s \in Threads : obj'[s] = obj[s] \/ obj'[s] \in Procs \cup {Any}
    BY <1>0, <1>1, Zenon DEF Types, GotoWith
  <2> QED BY <2>1, <2>2, <2>3 DEF Places
<1>a. ASSUME NEW t \in Threads, NEW l \in ThreadLabels, Goto(t, l), obj' = obj PROVE Places'
  BY <1>1, <1>a, Zenon
<1>b. ASSUME NEW t \in Threads, NEW l \in ThreadLabels, NEW o \in Procs \cup {Any},
             GotoWith(t, l, o)
      PROVE  Places'
  BY <1>1, <1>b, Zenon
<1>2. \A t \in Threads : Back(t) \in ThreadLabels BY Zenon DEF Back
<1>3. Back(Terminator) = "idle" BY Zenon DEF Back
<1>4. ASSUME NEW t \in Threads, remove(t) PROVE Places'
  <2>1. GotoWith(t, Back(t), Init0) BY <1>4, Zenon DEF remove
  <2> QED BY <1>2, <1>b, <2>1, Zenon
<1>c. ASSUME NEW l \in TerminatorLabels, \A s \in Threads : pc'[s] = pc[s],
             pc'[Terminator] = l, \A s \in Threads : obj'[s] = obj[s]
      PROVE  Places'
  BY <1>c, Zenon DEF Places
<1>d. ASSUME NEW l \in TerminatorLabels, Goto(Terminator, l), obj' = obj PROVE Places'
  BY <1>0, <1>c, <1>d, Zenon DEF Goto, Types
<1>e. ASSUME NEW l \in TerminatorLabels, NEW o, GotoWith(Terminator, l, o) PROVE Places'
  BY <1>0, <1>c, <1>e, Zenon DEF Goto, GotoWith, Types
<1>5. CASE remove(Terminator)
  BY <1>3, <1>e, <1>5, Zenon DEF remove
<1>6. ASSUME NEW t \in Threads, Call(t) PROVE Places'
  <2>1. CASE clone(t) BY <1>a, <1>b, <2>1, Zenon DEF clone
  <2>2. CASE startThread(t) BY <1>a, <1>b, <2>2, Zenon DEF startThread
  <2>3. CASE join(t) BY <1>a, <1>b, <1>2, <2>3, Zenon DEF join, Asleep
  <2>4. CASE terminateThread(t) BY <1>a, <1>b, <2>4, Zenon DEF terminateThread, threadTerminate
  <2>5. ASSUME NEW q \in Awaited[t], waitChild(t, q) PROVE Places'
    <3>1. q \in Procs \cup {Any} BY ProcAssumption, Zenon
    <3>2. CASE GotoWith(t, "childWait", q) BY <1>a, <1>b, <3>1, <3>2, Zenon
    <3>3. ASSUME NEW i, procs[i] \in Reapable(ProcOf[t], q), GotoWith(t, "kill", procs[i])
          PROVE  Places'
      <4>1. procs[i] \in Procs BY <3>3, Zenon DEF Reapable, Children
      <4> QED BY <1>b, <3>3, <4>1, Zenon
    <3> QED BY <2>5, <3>2, <3>3, Zenon DEF waitChild, getExitState
  <2> QED BY <1>6, <2>1, <2>2, <2>3, <2>4, <2>5, Zenon DEF Call
<1>7. ASSUME NEW t \in Threads, NEW k, relRef(t, obj[t], k), obj[t] \in Procs PROVE Places'
  BY <1>a, <1>b, <1>2, <1>7, Zenon DEF relRef
<1>8. ASSUME NEW t \in Threads, waitAgain(t) PROVE Places'
  <2>1. CASE GotoWith(t, Back(t), Init0) BY <1>a, <1>b, <1>2, <2>1, Zenon
  <2>2. CASE GotoWith(t, "childWait", obj[t])
    <3>1. obj[t] \in Procs \cup {Any} BY Zenon DEF Places
    <3> QED BY <1>b, <2>2, <3>1, Zenon
  <2>3. ASSUME NEW i, procs[i] \in Reapable(ProcOf[t], obj[t]), GotoWith(t, "kill", procs[i])
        PROVE  Places'
    <3>1. procs[i] \in Procs BY <2>3, Zenon DEF Reapable, Children
    <3> QED BY <1>b, <2>3, <3>1, Zenon
  <2> QED BY <1>8, <2>1, <2>2, <2>3, Zenon DEF waitAgain, getExitState
<1>9. ASSUME NEW t \in Threads, NEW n \in Threads, NEW p, newThread(t, p, n),
             \A s \in Threads : obj'[s] \in {obj[s], Init0}
      PROVE  Places'
  <2>1. \A s \in Threads : pc'[s] = IF s = n THEN "user" ELSE IF s = t THEN Back(t) ELSE pc[s]
    BY <1>0, <1>9, Zenon DEF newThread, Types
  <2>2. pc'[Terminator] = pc[Terminator] BY <1>0, <1>9, Zenon DEF newThread, Types
  <2> QED BY <1>2, <1>9, <2>1, <2>2 DEF Places
<1>10. ASSUME NEW t \in Threads, Kernel(t) PROVE Places'
  <2>0. /\ pc[t] = "cloneThread" => obj[t] \in Procs
        /\ pc[t] = "killRelease" => obj[t] \in Procs
    BY Zenon DEF LifeInv, ObjProcs, Killing
  <2>1. CASE cloneAdd(t)
    <3>1. (\E q \in Procs : GotoWith(t, "cloneThread", q)) \/ (Goto(t, Back(t)) /\ obj' = obj)
      BY <2>1, Zenon DEF cloneAdd
    <3> QED BY <1>2, <1>a, <1>b, <3>1, Zenon
  <2>2. CASE cloneThread(t)
    <3>1. PICK n \in Threads : n = Main[obj[t]] BY <2>0, <2>2, Zenon DEF cloneThread
    <3>2. newThread(t, obj[t], n) BY <2>2, <3>1, Zenon DEF cloneThread
    <3>3. \A s \in Threads : obj'[s] \in {obj[s], Init0} BY <1>0, <2>2, Zenon DEF cloneThread, Types
    <3> QED BY <1>9, <3>2, <3>3, Zenon
  <2>3. CASE cloneFail(t) BY <1>7, <2>0, <2>3, Zenon DEF cloneFail
  <2>4. CASE startLocked(t) BY <1>a, <1>b, <1>2, <1>9, <2>4, Zenon DEF startLocked
  <2>5. CASE waitSleep(t) BY <1>a, <1>b, <2>5, Zenon DEF waitSleep, Asleep
  <2>6. CASE waitAgain(t) BY <1>8, <2>6, Zenon
  <2>7. CASE kill(t) BY <1>a, <1>b, <2>7, Zenon DEF kill
  <2>8. CASE killChilds(t) BY <1>a, <1>b, <2>8, Zenon DEF killChilds
  <2>9. CASE killUnlock(t) BY <1>a, <1>b, <2>9, Zenon DEF killUnlock
  <2>10. CASE killRelease(t) BY <1>7, <2>0, <2>10, Zenon DEF killRelease
  <2>11. CASE remove(t) BY <1>4, <2>11, Zenon
  <2>12. CASE terminate(t)
    <3>1. Terminator \notin threads[ProcOf[t]] BY <1>0, Zenon DEF Types
    <3>2. obj' = obj BY <2>12, Zenon DEF terminate
    <3>3. CASE state[ProcOf[t]] # "alive"
      <4>1. Goto(t, "zombie") BY <2>12, <3>3, Zenon DEF terminate, threadTerminate
      <4> QED BY <1>a, <3>2, <4>1, Zenon
    <3>4. CASE state[ProcOf[t]] = "alive"
      <4>1. pc' = [Signalled(threads[ProcOf[t]] \ {t}) EXCEPT ![t] = "joinAll"]
        BY <2>12, <3>4, Zenon DEF terminate, Signalled
      <4>2. \A s \in Threads : pc'[s] \in {pc[s], "childWoken", "joinWoken", "joinAll"}
        BY <4>1, Zenon DEF Signalled
      <4>3. pc'[Terminator] = pc[Terminator] BY <3>1, <4>1, Zenon DEF Signalled
      <4> QED BY <3>2, <4>2, <4>3, Zenon DEF Places
    <3> QED BY <3>3, <3>4, Zenon
  <2>13. CASE killNotify(t)
    <3>1. \A s \in Threads : pc'[s] \in {pc[s], "childWoken", "killUnlock"}
      BY <1>0, <2>13, Zenon DEF killNotify, Woken, Types
    <3>2. pc'[Terminator] = pc[Terminator] BY <1>0, <2>13, Zenon DEF killNotify, Woken, Types
    <3>3. obj' = obj BY <2>13, Zenon DEF killNotify
    <3> QED BY <3>1, <3>2, <3>3, Zenon DEF Places
  <2>14. CASE handleSignal(t) BY <1>a, <1>b, <2>14, Zenon DEF handleSignal
  <2>15. CASE joinAll(t) BY <1>a, <1>b, <2>15, Zenon DEF joinAll
  <2>16. CASE release(t) BY <1>a, <1>b, <2>16, Zenon DEF release, threadTerminate
  <2>17. CASE join(t) BY <1>a, <1>b, <1>2, <2>17, Zenon DEF join, Asleep
  <2> QED BY <1>10, <2>1, <2>2, <2>3, <2>4, <2>5, <2>6, <2>7, <2>8, <2>9, <2>10, <2>11, <2>12,
             <2>13, <2>14, <2>15, <2>16, <2>17, Zenon DEF Kernel
<1>11. CASE TerminatorStep
  <2>1. CASE killThread
    <3>1. PICK t \in Threads : t = Head(dead) BY <1>0, <2>1 DEF killThread, Types
    <3> DEFINE p == ProcOf[t]
               last == threads[p] = {t}
    <3>2. pc[Terminator] = "idle" /\ p \in Procs BY <2>1, Zenon DEF killThread
    <3>3. pc' = [s \in Actors |->
                 CASE s = Terminator -> IF last THEN "notify" ELSE "unlock"
                   [] s = t -> "free"
                   [] s \in threads[p] \ {t} /\ pc[s] = "joinSleep" -> "joinWoken"
                   [] s \in threads[p] \ {t} /\ pc[s] = "joinAllSleep" -> "joinAll"
                   [] OTHER -> pc[s]]
      BY <2>1, <3>1, Zenon DEF killThread
    <3>4. /\ \A s \in Threads : pc'[s] \in {pc[s], "free", "joinWoken", "joinAll"}
          /\ pc'[Terminator] = IF last THEN "notify" ELSE "unlock"
      <4> HIDE DEF p
      <4>1. \A s \in Threads : pc'[s] \in {pc[s], "free", "joinWoken", "joinAll"} BY <3>3, Zenon
      <4>2. pc'[Terminator] = IF last THEN "notify" ELSE "unlock"
        BY ONLY ActorFacts, <3>2, <3>3, Zenon
      <4> QED BY <4>1, <4>2, Zenon
    <3>5. \A s \in Threads : obj'[s] = obj[s] BY <1>0, <2>1, Zenon DEF killThread, Types
    <3> QED BY <3>4, <3>5, Zenon DEF Places
  <2>2. CASE notify BY <1>d, <2>2, Zenon DEF notify
  <2>3. CASE notifyProcDied
    <3>1. \A s \in Threads : pc'[s] \in {pc[s], "childWoken"}
      BY <1>0, <2>3, Zenon DEF notifyProcDied, Woken, Types
    <3>2. pc'[Terminator] \in TerminatorLabels BY <1>0, <2>3, Zenon DEF notifyProcDied, Woken, Types
    <3>3. obj' = obj BY <2>3, Zenon DEF notifyProcDied
    <3> QED BY <3>1, <3>2, <3>3, Zenon DEF Places
  <2>4. CASE killThreadUnlock BY <1>d, <2>4, Zenon DEF killThreadUnlock
  <2>5. CASE killThreadRelease BY <1>3, <1>e, <2>5, Zenon DEF killThreadRelease, relRef
  <2> QED BY <1>5, <1>11, <2>1, <2>2, <2>3, <2>4, <2>5, Zenon DEF TerminatorStep
<1>12. ASSUME NEW p \in Procs, addSignalFor(p) PROVE Places'
  <2>1. \A s \in Threads : pc'[s] \in {pc[s], "childWoken", "joinWoken"}
    BY <1>12, Zenon DEF addSignalFor, Signalled
  <2>2. pc'[Terminator] = pc[Terminator]
    <3>1. Terminator \notin threads[p] BY <1>0, Zenon DEF Types
    <3> QED BY <1>12, <3>1, Zenon DEF addSignalFor, Signalled
  <2>3. obj' = obj BY <1>12, Zenon DEF addSignalFor
  <2> QED BY <2>1, <2>2, <2>3, Zenon DEF Places
<1>13. CASE UNCHANGED vars BY <1>13, Zenon DEF vars, Places
<1> QED BY <1>6, <1>10, <1>11, <1>12, <1>13, Zenon DEF Next

-----------------------------------------------------------------------------
(***************************************************************************)
(* The inductive invariant of the life of processes.                       *)
(***************************************************************************)
ProcLifeInv ==
  /\ WakeupInv /\ LifeInv /\ InitLives
  /\ ListOfProcs /\ Holders /\ Places

(* The initial states. *)
LEMMA InitProcLife == Init => ProcLifeInv
<1> SUFFICES ASSUME Init PROVE ProcLifeInv BY Zenon
<1> USE ActorFacts
<1>1. WakeupInv /\ LifeInv /\ InitLives BY InitWakeup, InitLife, InitInitLives, Zenon
<1>2. ListOfProcs
  <2>1. procs = <<Init0>> /\ state = [p \in Procs |-> IF p = Init0 THEN "alive" ELSE "free"]
    BY Zenon DEF Init
  <2>2. procs \in Seq(Procs) /\ Len(procs) = 1 /\ procs[1] = Init0 BY <2>1
  <2>3. \A i \in 1..1 : i = 1 OBVIOUS
  <2> QED BY <2>1, <2>2, <2>3 DEF ListOfProcs
<1>3. Holders BY Zenon DEF Init, Holders
<1>4. Places BY Zenon DEF Init, Places, ThreadLabels, TerminatorLabels, Actors
<1> QED BY <1>1, <1>2, <1>3, <1>4, Zenon DEF ProcLifeInv

(* Every step keeps the invariant. *)
LEMMA NextProcLife == ProcLifeInv /\ [Next]_vars => ProcLifeInv'
<1> SUFFICES ASSUME ProcLifeInv, [Next]_vars PROVE ProcLifeInv' BY Zenon
<1>0. WakeupInv /\ LifeInv /\ InitLives /\ ListOfProcs /\ Holders /\ Places
  BY Zenon DEF ProcLifeInv
<1>1. WakeupInv' BY <1>0, NextWakeup, Zenon
<1>2. LifeInv' /\ InitLives' BY <1>0, <1>1, NextLife, NextInitLives, Zenon
<1>3. ListOfProcs' /\ Holders' /\ Places' BY <1>0, NextList, NextHolders, NextPlaces, Zenon
<1> QED BY <1>1, <1>2, <1>3, Zenon DEF ProcLifeInv

(* What TypeOK says follows from the parts. *)
LEMMA ProcLifeTyped == ProcLifeInv => TypeOK
<1> SUFFICES ASSUME ProcLifeInv PROVE TypeOK BY Zenon
<1>0. Types /\ LifeInv /\ ListOfProcs /\ Holders /\ Places BY Zenon DEF ProcLifeInv, WakeupInv
<1>1. {procs[i] : i \in 1..Len(procs)} = {p \in Procs : state[p] # "free"}
  <2>1. \A i \in 1..Len(procs) : procs[i] \in Procs BY <1>0 DEF ListOfProcs
  <2> QED BY <1>0, <2>1 DEF ListOfProcs
<1>2. procs \in Seq(Procs) /\ refs \in [Procs -> Nat] BY <1>0, Zenon DEF ListOfProcs, LifeInv
<1>3. {childLock, procLock, refLock} \subseteq Actors \cup {None} BY <1>0, Zenon DEF Holders
<1>4. /\ prog \in [Procs -> Actors \cup {None}] /\ sigkill \in SUBSET Threads
      /\ \A t \in Threads : pc[t] \in ThreadLabels /\ obj[t] \in Procs \cup {Any}
      /\ pc[Terminator] \in TerminatorLabels
  BY <1>0, Zenon DEF Holders, Places
<1>5. /\ parent \in [Procs -> Procs] /\ killed \in [Procs -> BOOLEAN]
      /\ state \in [Procs -> {"free", "alive", "prezombie", "zombie"}]
      /\ threads \in [Procs -> SUBSET Threads] /\ leak \in Threads \cup {None}
      /\ obj[Terminator] \in Procs /\ dead \in Seq(Threads)
  BY <1>0, Zenon DEF Types
<1> QED BY ONLY <1>1, <1>2, <1>3, <1>4, <1>5, Zenon DEF TypeOK

(***************************************************************************)
(* Every variable has its type, and the list of processes is exactly the   *)
(* set of processes that are not free, for any number of processes and     *)
(* threads.                                                                *)
(***************************************************************************)
THEOREM ProcLifeTypes == Spec => []TypeOK
<1> QED BY InitProcLife, NextProcLife, ProcLifeTyped, PTL DEF Spec

(***************************************************************************)
(* The reference count of a process is the number of its users, however    *)
(* clone, kill, killThread and the terminator interleave.                  *)
(***************************************************************************)
THEOREM ReferencesExact == Spec => []RefsExact
<1>1. ProcLifeInv => RefsExact BY RefsOfUsers, Zenon DEF ProcLifeInv, WakeupInv
<1> QED BY <1>1, InitProcLife, NextProcLife, PTL DEF Spec

(***************************************************************************)
(* No two threads kill the same process, and what is killed is a zombie    *)
(* child of the killer's process without threads.                          *)
(***************************************************************************)
THEOREM OneKiller == Spec => []KilledOnce
<1>1. ProcLifeInv => KilledOnce BY Zenon DEF ProcLifeInv, LifeInv
<1> QED BY <1>1, InitProcLife, NextProcLife, PTL DEF Spec

(***************************************************************************)
(* The resources of a process are released by its only thread: the         *)
(* assertion of terminate holds for any number of threads that start and   *)
(* end others.                                                             *)
(***************************************************************************)
THEOREM ReleasedAlone == Spec => []ReleasesAlone
<1>1. ProcLifeInv => ReleasesAlone BY Zenon DEF ProcLifeInv, LifeInv
<1> QED BY <1>1, InitProcLife, NextProcLife, PTL DEF Spec
=============================================================================
