--------------------------- MODULE SemaphoreProofs ---------------------------
(***************************************************************************)
(* The semaphore, for any number of threads, CPUs and signals, and with    *)
(* and without allowSigs: the types, the conservation of units (on one CPU *)
(* only), and that a signal ends a wait.  Then what the operations on the intrusive lists do *)
(* to the sequence of their threads, and with it the mutex without         *)
(* signals: the lists stay intact, and the assertion of Mutex::down holds. *)
(***************************************************************************)
EXTENDS Mutex, FiniteSetTheorems, TLAPS

(* The threads that have decremented the value. *)
Counted == {t \in Threads : pc[t] \notin {"out", "wakeup", "guard"}}
Num(b) == IF b THEN 1 ELSE 0

(* Two sets that differ in one element. *)
LEMMA OneElement ==
  ASSUME NEW S, NEW T, NEW x, IsFiniteSet(S), T \ {x} = S \ {x}
  PROVE  /\ Cardinality(T) \in Nat /\ Cardinality(S) \in Nat
         /\ Cardinality(T) = Cardinality(S) + Num(x \in T) - Num(x \in S)
<1> DEFINE R == S \ {x}
<1>1. IsFiniteSet(R) /\ Cardinality(R) \in Nat /\ Cardinality(S) \in Nat
  BY FS_RemoveElement, FS_CardinalityType, Zenon
<1>2. /\ x \in S => S = R \cup {x}
      /\ x \notin S => S = R
      /\ x \in T => T = R \cup {x}
      /\ x \notin T => T = R
  BY Zenon
<1>3. x \notin R BY Zenon
<1> HIDE DEF R
<1>4. Cardinality(R \cup {x}) = Cardinality(R) + 1 BY ONLY <1>1, <1>3, FS_AddElement, Zenon
<1>5. Cardinality(S) = Cardinality(R) + Num(x \in S)
  <2>1. CASE x \in S BY <1>1, <1>2, <1>4, <2>1, Zenon DEF Num
  <2>2. CASE x \notin S BY <1>1, <1>2, <2>2 DEF Num
  <2> QED BY <2>1, <2>2, Zenon
<1>6. Cardinality(T) = Cardinality(R) + Num(x \in T)
  <2>1. CASE x \in T
    <3>1. T = R \cup {x} BY <1>2, <2>1, Zenon
    <3>2. Cardinality(T) = Cardinality(R) + 1 BY <1>4, <3>1, Zenon
    <3> QED BY <2>1, <3>2, Zenon DEF Num
  <2>2. CASE x \notin T BY <1>1, <1>2, <2>2 DEF Num
  <2> QED BY <2>1, <2>2, Zenon
<1> QED BY <1>1, <1>5, <1>6 DEF Num

(* A thread that moves from one position to another. *)
LEMMA CountStep ==
  ASSUME TypeOK, NEW t \in Threads, NEW p, Goto(t, p)
  PROVE  /\ Cardinality(Counted) \in Nat /\ Cardinality(Counted') \in Nat
         /\ Cardinality(Counted') = Cardinality(Counted)
              + Num(p \notin {"out", "wakeup", "guard"}) - Num(pc[t] \notin {"out", "wakeup", "guard"})
<1>1. IsFiniteSet(Counted) BY SemAssumption, FS_Subset, Zenon DEF Counted
<1>2. pc'[t] = p /\ \A s \in Threads \ {t} : pc'[s] = pc[s] BY Zenon DEF TypeOK, Goto
<1>3. Counted' \ {t} = Counted \ {t} BY <1>2, Zenon DEF Counted
<1>4. (t \in Counted' <=> p \notin {"out", "wakeup", "guard"}) /\ (t \in Counted <=> pc[t] \notin {"out", "wakeup", "guard"})
  BY <1>2, Zenon DEF Counted
<1>5. /\ Cardinality(Counted') \in Nat /\ Cardinality(Counted) \in Nat
      /\ Cardinality(Counted') = Cardinality(Counted) + Num(t \in Counted') - Num(t \in Counted)
  BY <1>1, <1>3, OneElement, Zenon
<1> QED BY <1>4, <1>5, Zenon DEF Num

(* The ready queue at the beginning holds every thread once. *)
LEMMA StartQueue ==
  ASSUME NEW q \in Injection(1 .. Cardinality(Threads), Threads)
  PROVE  /\ q \in Seq(Threads) /\ Len(q) = Cardinality(Threads) /\ Len(q) \in Nat \ {0}
         /\ IsInjective(q) /\ \A t \in Threads : \E i \in 1..Len(q) : q[i] = t
<1> DEFINE n == Cardinality(Threads)
<1>1. n \in Nat /\ n # 0
  BY SemAssumption, FS_CardinalityType, FS_EmptySet, Zenon
<1>2. q \in [1..n -> Threads] /\ \A i, j \in 1..n : i # j => q[i] # q[j]
  BY Zenon DEF Injection, IsInjective
<1> HIDE DEF n
<1>3. q \in Seq(Threads) /\ Len(q) = n /\ DOMAIN q = 1..n BY <1>1, <1>2
<1>4. IsInjective(q) BY <1>2, <1>3, Zenon DEF IsInjective
<1>5. q \in Surjection(1..n, Threads)
  <2>1. IsFiniteSet(1..n) /\ Cardinality(1..n) = n BY <1>1, FS_Interval
  <2>2. q \in Injection(1..n, Threads) BY <1>2, Zenon DEF Injection, IsInjective
  <2> QED BY <2>1, <2>2, SemAssumption, FS_Injection, Zenon DEF n
<1>6. \A t \in Threads : \E i \in 1..n : q[i] = t BY <1>5, Zenon DEF Surjection
<1> QED BY <1>1, <1>3, <1>4, <1>6, Zenon DEF n

(* append keeps the types. *)
LEMMA AppendTypes ==
  ASSUME NEW l \in [head : Links, tail : Links], NEW nx \in [Threads -> Links],
         NEW t \in Threads
  PROVE  /\ append(l, nx, t).next \in [Threads -> Links]
         /\ append(l, nx, t).list \in [head : Links, tail : Links]
<1>1. append(l, nx, t).next \in [Threads -> Links]
  <2>1. CASE l.head = Null BY <2>1, Zenon DEF append, Links
  <2>2. CASE l.head # Null BY <2>2, Zenon DEF append, Links
  <2> QED BY <2>1, <2>2, Zenon
<1>2. append(l, nx, t).list \in [head : Links, tail : Links]
  <2> DEFINE h == IF l.head = Null THEN t ELSE l.head
             k == [l EXCEPT !.head = h]
  <2>1. h \in Links /\ t \in Links BY Zenon DEF Links
  <2>2. append(l, nx, t).list = [k EXCEPT !.tail = t] BY Zenon DEF append
  <2> HIDE DEF h
  <2>3. k \in [head : Links, tail : Links] BY <2>1, Zenon
  <2> HIDE DEF k
  <2> QED BY <2>1, <2>2, <2>3, Zenon
<1> QED BY <1>1, <1>2, Zenon

(* Initially every variable has its type. *)
LEMMA InitTypes == Init => TypeOK
<1> SUFFICES ASSUME Init PROVE TypeOK BY Zenon
<1>1. PICK q \in Injection(1 .. Cardinality(Threads), Threads) :
        /\ ready = [head |-> Head(q), tail |-> Last(q)]
        /\ next = [t \in Threads |->
                     LET i == CHOOSE j \in DOMAIN q : q[j] = t
                     IN  IF i = Len(q) THEN Null ELSE q[i + 1]]
  BY Zenon DEF Init
<1>2. /\ q \in Seq(Threads) /\ Len(q) \in Nat \ {0}
      /\ \A t \in Threads : \E i \in 1..Len(q) : q[i] = t
  BY StartQueue, Zenon
<1>3. ready \in [head : Links, tail : Links]
  <2>1. Head(q) \in Threads /\ Last(q) \in Threads BY <1>2 DEF Last
  <2> QED BY <1>1, <2>1, Zenon DEF Links
<1>4. next \in [Threads -> Links]
  <2>1. ASSUME NEW t \in Threads PROVE next[t] \in Links
    <3> DEFINE i == CHOOSE j \in DOMAIN q : q[j] = t
    <3>1. i \in 1..Len(q) /\ q[i] = t
      <4>1. \E j \in DOMAIN q : q[j] = t BY <1>2
      <4>2. i \in DOMAIN q /\ q[i] = t BY <4>1, Zenon
      <4> QED BY <1>2, <4>2
    <3>2. next[t] = IF i = Len(q) THEN Null ELSE q[i + 1] BY <1>1, Zenon
    <3> HIDE DEF i
    <3> QED BY <1>2, <3>1, <3>2 DEF Links
  <2>2. next = [t \in Threads |-> next[t]] BY <1>1
  <2> QED BY ONLY <2>1, <2>2, Zenon
<1>5. waiters \in [head : Links, tail : Links, len : Int] BY DEF Init, Links
<1>6. lck \in BOOLEAN /\ broken \in BOOLEAN /\ sigmask \in [Threads -> BOOLEAN]
  <2>1. lck = FALSE /\ broken = FALSE BY Zenon DEF Init
  <2>2. sigmask \in [Threads -> BOOLEAN] BY Zenon DEF Init
  <2>3. lck \in BOOLEAN /\ broken \in BOOLEAN BY <2>1, Zenon
  <2> QED BY <2>2, <2>3, Zenon
<1>7. value \in Int /\ sent \in 0..MaxSignals BY SemAssumption DEF Init
<1>8. /\ state \in [Threads -> {"RUNNING", "READY", "BLOCKED"}]
      /\ newState \in [Threads -> {"READY", "BLOCKED"}]
      /\ sigpc \in [Threads -> {"none", "check", "kick"}] /\ pc \in [Threads -> PCs]
  BY Zenon DEF Init, PCs
<1>9. loc \in [Threads -> Locals]
  <2>1. noLocals \in Locals BY DEF noLocals, Locals, Links
  <2> QED BY <2>1, Zenon DEF Init
<1> QED BY <1>3, <1>4, <1>5, <1>6, <1>7, <1>8, <1>9, Zenon DEF TypeOK

-----------------------------------------------------------------------------
(* What unblock, pick and perform do to the types. *)
SchedTypes ==
  /\ ready \in [head : Links, tail : Links] /\ next \in [Threads -> Links]
  /\ state \in [Threads -> {"RUNNING", "READY", "BLOCKED"}]
  /\ newState \in [Threads -> {"READY", "BLOCKED"}]
  /\ broken \in BOOLEAN

(* unblock keeps the types. *)
LEMMA UnblockTypes ==
  ASSUME TypeOK, NEW t \in Threads, NEW nx \in [Threads -> Links], unblock(t, nx)
  PROVE  SchedTypes'
<1>1. CASE newState' = [newState EXCEPT ![t] = "READY"] /\ next' = nx /\ UNCHANGED <<state, ready, broken>>
  BY <1>1, Zenon DEF TypeOK, SchedTypes
<1>2. CASE /\ ready' = append(ready, nx, t).list /\ next' = append(ready, nx, t).next
           /\ state' = [state EXCEPT ![t] = "READY"] /\ UNCHANGED <<newState, broken>>
  <2>1. ready \in [head : Links, tail : Links] BY Zenon DEF TypeOK
  <2>2. next' \in [Threads -> Links] /\ ready' \in [head : Links, tail : Links]
    BY <1>2, <2>1, AppendTypes, Zenon
  <2> QED BY <1>2, <2>1, <2>2, Zenon DEF TypeOK, SchedTypes
<1>3. CASE broken' = TRUE /\ next' = nx /\ UNCHANGED schedVars
  BY <1>3, Zenon DEF TypeOK, SchedTypes, schedVars
<1>4. CASE next' = nx /\ UNCHANGED <<schedVars, broken>>
  BY <1>4, Zenon DEF TypeOK, SchedTypes, schedVars
<1> QED BY <1>1, <1>2, <1>3, <1>4, Zenon DEF unblock

(* pick keeps the types. *)
LEMMA PickTypes ==
  ASSUME TypeOK, NEW r \in [head : Links, tail : Links], NEW nx \in [Threads -> Links],
         NEW st \in [Threads -> {"RUNNING", "READY", "BLOCKED"}], pick(r, nx, st)
  PROVE  SchedTypes'
<1>1. CASE r.head = Null BY <1>1, Zenon DEF pick, TypeOK, SchedTypes
<1>2. CASE r.head # Null
  <2>1. r.head \in Threads /\ nx[r.head] \in Links /\ r.tail \in Links BY <1>2, Zenon DEF Links
  <2>2. /\ ready' = [head |-> nx[r.head], tail |-> IF r.head = r.tail THEN Null ELSE r.tail]
        /\ state' = [st EXCEPT ![r.head] = "RUNNING"] /\ next' = nx
        /\ newState' = [newState EXCEPT ![r.head] = "READY"]
        /\ broken' = (st[r.head] # "READY")
    BY <1>2, Zenon DEF pick
  <2>3. ready' \in [head : Links, tail : Links] BY <2>1, <2>2, Zenon DEF Links
  <2>4. broken' \in BOOLEAN BY <2>2, Zenon
  <2>5. state' \in [Threads -> {"RUNNING", "READY", "BLOCKED"}] BY <2>1, <2>2, Zenon
  <2>6. newState' \in [Threads -> {"READY", "BLOCKED"}] BY <2>1, <2>2, Zenon DEF TypeOK
  <2>7. next' \in [Threads -> Links] BY <2>2, Zenon
  <2> QED BY ONLY <2>3, <2>4, <2>5, <2>6, <2>7, Zenon DEF SchedTypes
<1> QED BY <1>1, <1>2, Zenon

(* perform keeps the types. *)
LEMMA PerformTypes ==
  ASSUME TypeOK, NEW t \in Threads, NEW p, perform(t, p)
  PROVE  SchedTypes'
<1>1. CASE newState' = [newState EXCEPT ![t] = "READY"] /\ UNCHANGED <<ready, state, next, broken>>
  BY <1>1, Zenon DEF TypeOK, SchedTypes
<1>0. ready \in [head : Links, tail : Links] /\ next \in [Threads -> Links] BY Zenon DEF TypeOK
<1>2. CASE pick(append(ready, next, t).list, append(ready, next, t).next, [state EXCEPT ![t] = "READY"])
  <2> DEFINE st == [state EXCEPT ![t] = "READY"]
             a == append(ready, next, t)
  <2>1. a.next \in [Threads -> Links] /\ a.list \in [head : Links, tail : Links]
    BY <1>0, AppendTypes, Zenon
  <2>2. st \in [Threads -> {"RUNNING", "READY", "BLOCKED"}] BY Zenon DEF TypeOK
  <2>3. pick(a.list, a.next, st) BY <1>2, Zenon
  <2> HIDE DEF st, a
  <2> QED BY <2>1, <2>2, <2>3, PickTypes, Zenon
<1>3. CASE broken' = TRUE /\ UNCHANGED <<schedVars, next>> BY <1>3, Zenon
  DEF TypeOK, SchedTypes, schedVars
<1>4. CASE pick(ready, next, [state EXCEPT ![t] = "BLOCKED"])
  <2> DEFINE st == [state EXCEPT ![t] = "BLOCKED"]
  <2>1. st \in [Threads -> {"RUNNING", "READY", "BLOCKED"}] BY Zenon DEF TypeOK
  <2>2. pick(ready, next, st) BY <1>4, Zenon
  <2> HIDE DEF st
  <2> QED BY <1>0, <2>1, <2>2, PickTypes, Zenon
<1> QED BY <1>1, <1>2, <1>3, <1>4, Zenon DEF perform

(* wakeup keeps the types. *)
LEMMA WakeupTypes ==
  ASSUME TypeOK, wakeup
  PROVE  SchedTypes' /\ waiters' \in [head : Links, tail : Links, len : Int]
<1>2. CASE UNCHANGED <<waiters, schedVars, next, broken>> BY <1>2, Zenon
  DEF TypeOK, SchedTypes, schedVars
<1>3. CASE broken' = TRUE /\ UNCHANGED <<waiters, schedVars, next>>
  BY <1>3, Zenon DEF TypeOK, SchedTypes, schedVars
<1>4. CASE /\ waiters.head # Null
           /\ waiters' = removeAt(waiters, next, Null, waiters.head).list
           /\ unblock(waiters.head, removeAt(waiters, next, Null, waiters.head).next)
  <2>1. waiters.head \in Threads /\ waiters.len \in Int /\ waiters.tail \in Links
    BY <1>4, Zenon DEF TypeOK, Links
  <2>2. removeAt(waiters, next, Null, waiters.head).next = next BY Zenon DEF removeAt
  <2>3. unblock(waiters.head, next) BY <1>4, <2>2, Zenon
  <2>4. SchedTypes' BY <2>1, <2>3, UnblockTypes, Zenon DEF TypeOK
  <2>5. next[waiters.head] \in Links BY <2>1, Zenon DEF TypeOK
  <2>6. waiters' \in [head : Links, tail : Links, len : Int]
    BY <1>4, <2>1, <2>5 DEF removeAt, Links
  <2> QED BY <2>4, <2>6, Zenon
<1> QED BY <1>2, <1>3, <1>4, Zenon DEF wakeup

(* The rest of the variables, which down and up themselves write. *)
SemTypes ==
  /\ value \in Int /\ lck \in BOOLEAN
  /\ waiters \in [head : Links, tail : Links, len : Int]
  /\ sent \in 0..MaxSignals /\ sigmask \in [Threads -> BOOLEAN]
  /\ sigpc \in [Threads -> {"none", "check", "kick"}]
  /\ pc \in [Threads -> PCs] /\ loc \in [Threads -> Locals]

(* The type invariant in two parts. *)
LEMMA TypeParts ==
  /\ TypeOK => SchedTypes /\ SemTypes
  /\ SchedTypes' /\ SemTypes' => TypeOK'
BY Zenon DEF TypeOK, SchedTypes, SemTypes

(* A thread goes to a position. *)
LEMMA GotoTypes ==
  ASSUME TypeOK, NEW t \in Threads, NEW p \in PCs, Goto(t, p)
  PROVE  pc' \in [Threads -> PCs]
BY Zenon DEF TypeOK, Goto

(* The steps of a thread keep the types. *)
LEMMA KernelTypes ==
  ASSUME TypeOK, NEW t \in Threads,
         KernelStep(t) \/ down(t) \/ tryDown(t) \/ release(t) \/ preempt(t)
  PROVE  TypeOK'
<1> USE DEF semVars, schedVars
<1>0. SchedTypes /\ SemTypes BY TypeParts, Zenon
<1>1. ASSUME NEW p \in PCs, perform(t, p) PROVE TypeOK'
  <2>1. SchedTypes' BY <1>1, PerformTypes, Zenon
  <2>2. pc' \in [Threads -> PCs] BY <1>1, GotoTypes, Zenon DEF perform
  <2>3. UNCHANGED <<semVars, lck, sent, sigmask, sigpc, loc>> BY <1>1, Zenon DEF perform
  <2>4. SemTypes' BY <1>0, <2>2, <2>3, Zenon DEF SemTypes
  <2> QED BY <2>1, <2>4, TypeParts, Zenon
<1>2. CASE preempt(t) BY <1>1, <1>2, Zenon DEF preempt, PCs
<1>3. CASE switchAway(t) BY <1>1, <1>3, Zenon DEF switchAway, PCs
<1>4. CASE switchIgnSigs(t) BY <1>1, <1>4, Zenon DEF switchIgnSigs, PCs
<1>5. CASE down(t)
  <2>1. PICK p \in PCs : Goto(t, p) BY <1>5, Zenon DEF down, PCs
  <2>2. pc' \in [Threads -> PCs] BY <2>1, GotoTypes, Zenon
  <2>3. value' \in Int BY <1>0, <1>5 DEF down, SemTypes
  <2>4. UNCHANGED <<schedVars, sent, sigmask, sigpc, loc, broken>> BY <1>5, Zenon DEF down
  <2>5. CASE /\ waiters' = [append(waiters, next, t).list EXCEPT !.len = @ + 1]
             /\ next' = append(waiters, next, t).next /\ lck' = TRUE
    <3> DEFINE h == IF waiters.head = Null THEN t ELSE waiters.head
               k == [waiters EXCEPT !.head = h]
               l == [k EXCEPT !.tail = t]
    <3>1. h \in Links /\ t \in Links BY <1>0, Zenon DEF Links, SemTypes
    <3>2. append(waiters, next, t).list = l BY Zenon DEF append
    <3> HIDE DEF h
    <3>3. k \in [head : Links, tail : Links, len : Int] BY <1>0, <3>1, Zenon DEF SemTypes
    <3> HIDE DEF k
    <3>4. l \in [head : Links, tail : Links, len : Int] BY <3>1, <3>3, Zenon
    <3> HIDE DEF l
    <3>5. waiters' \in [head : Links, tail : Links, len : Int] BY <2>5, <3>2, <3>4
    <3>6. next' \in [Threads -> Links]
      <4>1. CASE waiters.head = Null BY <1>0, <2>5, <4>1, Zenon DEF append, Links, SchedTypes
      <4>2. CASE waiters.head # Null BY <1>0, <2>5, <4>2, Zenon DEF append, Links, SchedTypes
      <4> QED BY <4>1, <4>2, Zenon
    <3>7. SchedTypes' BY <1>0, <2>4, <3>6, Zenon DEF SchedTypes
    <3>8. lck' \in BOOLEAN BY <2>5, Zenon
    <3>9. SemTypes' BY <1>0, <2>2, <2>3, <2>4, <3>5, <3>8, Zenon DEF SemTypes
    <3> QED BY <3>7, <3>9, TypeParts, Zenon
  <2>6. CASE UNCHANGED <<waiters, next, lck>>
    <3>1. SchedTypes' BY <1>0, <2>4, <2>6, Zenon DEF SchedTypes
    <3>2. SemTypes' BY <1>0, <2>2, <2>3, <2>4, <2>6, Zenon DEF SemTypes
    <3> QED BY <3>1, <3>2, TypeParts, Zenon
  <2> QED BY <1>5, <2>5, <2>6, Zenon DEF down
<1>6. CASE tryDown(t)
  <2>1. Goto(t, "in") /\ "in" \in PCs BY <1>6, Zenon DEF tryDown, PCs
  <2>2. pc' \in [Threads -> PCs] BY <2>1, GotoTypes, Zenon
  <2>3. /\ value' = value - 1
        /\ UNCHANGED <<waiters, schedVars, lck, next, sent, sigmask, sigpc, loc, broken>>
    BY <1>6, Zenon DEF tryDown
  <2>4. SchedTypes' BY <1>0, <2>3, Zenon DEF SchedTypes
  <2>5. SemTypes' BY <1>0, <2>2, <2>3 DEF SemTypes
  <2> QED BY <2>4, <2>5, TypeParts, Zenon
<1>7. CASE release(t) \/ wakeupFirst(t)
  <2>1. PICK p \in PCs : Goto(t, p) BY <1>7, Zenon DEF release, wakeupFirst, PCs
  <2>2. pc' \in [Threads -> PCs] BY <2>1, GotoTypes, Zenon
  <2>3. /\ wakeup /\ UNCHANGED <<lck, sent, sigmask, sigpc, loc>>
        /\ value' = value + 1 \/ value' = value
    BY <1>7, Zenon DEF release, wakeupFirst, up
  <2>4. SchedTypes' /\ waiters' \in [head : Links, tail : Links, len : Int]
    BY <2>3, WakeupTypes, Zenon
  <2>5. value' \in Int BY <1>0, <2>3 DEF SemTypes
  <2>6. SemTypes' BY <1>0, <2>2, <2>3, <2>4, <2>5, Zenon DEF SemTypes
  <2> QED BY <2>4, <2>6, TypeParts, Zenon
<1>8. CASE block(t)
  <2>1. Goto(t, "unlock") /\ "unlock" \in PCs BY <1>8, Zenon DEF block, PCs
  <2>2. pc' \in [Threads -> PCs] BY <2>1, GotoTypes, Zenon
  <2>3. /\ newState' = [newState EXCEPT ![t] = "BLOCKED"]
        /\ UNCHANGED <<semVars, ready, state, lck, next, sent, sigmask, sigpc, loc, broken>>
    BY <1>8, Zenon DEF block
  <2>4. SchedTypes' BY <1>0, <2>3, Zenon DEF SchedTypes
  <2>5. SemTypes' BY <1>0, <2>2, <2>3, Zenon DEF SemTypes
  <2> QED BY <2>4, <2>5, TypeParts, Zenon
<1>9. CASE unlock(t) \/ returnFalse(t)
  <2>1. PICK p \in PCs : Goto(t, p) BY <1>9, Zenon DEF unlock, returnFalse, PCs
  <2>2. pc' \in [Threads -> PCs] BY <2>1, GotoTypes, Zenon
  <2>3. lck' = FALSE /\ UNCHANGED <<semVars, schedVars, next, sent, sigmask, sigpc, loc, broken>>
    BY <1>9, Zenon DEF unlock, returnFalse
  <2>4. lck' \in BOOLEAN BY <2>3, Zenon
  <2>5. SchedTypes' BY <1>0, <2>3, Zenon DEF SchedTypes
  <2>6. SemTypes' BY <1>0, <2>2, <2>3, <2>4, Zenon DEF SemTypes
  <2> QED BY <2>5, <2>6, TypeParts, Zenon
<1>10. CASE checkSignal(t) \/ setIgnSigs(t) \/ clearIgnSigs(t) \/ relock(t) \/ endWalk(t)
  <2>1. PICK p \in PCs : Goto(t, p)
    BY <1>10, Zenon DEF checkSignal, setIgnSigs, clearIgnSigs, relock, endWalk, PCs
  <2>2. pc' \in [Threads -> PCs] BY <2>1, GotoTypes, Zenon
  <2>3. UNCHANGED <<semVars, schedVars, lck, next, sent, sigmask, sigpc, loc, broken>>
    BY <1>10, Zenon DEF checkSignal, setIgnSigs, clearIgnSigs, relock, endWalk
  <2>4. SchedTypes' BY <1>0, <2>3, Zenon DEF SchedTypes
  <2>5. SemTypes' BY <1>0, <2>2, <2>3, Zenon DEF SemTypes
  <2> QED BY <2>4, <2>5, TypeParts, Zenon
<1>11. loc[t].prev \in Links /\ loc[t].item \in Links /\ loc[t].val \in Int
  BY <1>0, Zenon DEF SemTypes, Locals
<1>12. CASE unlink(t)
  <2>1. Goto(t, "giveup") /\ "giveup" \in PCs BY <1>12, Zenon DEF unlink, PCs
  <2>2. pc' \in [Threads -> PCs] BY <2>1, GotoTypes, Zenon
  <2>3. UNCHANGED <<value, schedVars, lck, sent, sigmask, sigpc, loc, broken>> BY <1>12, Zenon
    DEF unlink
  <2>4. /\ waiters' = removeAt(waiters, next, loc[t].prev, t).list
        /\ next' = removeAt(waiters, next, loc[t].prev, t).next
    BY <1>12, Zenon DEF unlink
  <2>5. next[t] \in Links /\ waiters.head \in Links /\ waiters.tail \in Links /\ waiters.len \in Int
    BY <1>0, Zenon DEF SchedTypes, SemTypes
  <2>6. waiters' \in [head : Links, tail : Links, len : Int]
    BY <1>11, <2>4, <2>5 DEF removeAt, Links
  <2>7. next' = next \/ next' = [next EXCEPT ![loc[t].prev] = next[t]] BY <2>4, Zenon DEF removeAt
  <2>8. next' \in [Threads -> Links] BY <1>0, <2>5, <2>7, Zenon DEF SchedTypes
  <2>9. SchedTypes' BY <1>0, <2>3, <2>8, Zenon DEF SchedTypes
  <2>10. SemTypes' BY <1>0, <2>2, <2>3, <2>6, Zenon DEF SemTypes
  <2> QED BY <2>9, <2>10, TypeParts, Zenon
<1>13. CASE removeWaiter(t) \/ visitItem(t) \/ giveUp(t) \/ storeValue(t)
  <2>1. pc' \in [Threads -> PCs]
    <3>1. CASE visitItem(t) BY <1>0, <3>1, Zenon DEF visitItem, SemTypes
    <3>2. CASE ~visitItem(t)
      <4>1. PICK p \in PCs : Goto(t, p)
        BY <1>13, <3>2, Zenon DEF removeWaiter, giveUp, storeValue, PCs
      <4> QED BY <4>1, GotoTypes, Zenon
    <3> QED BY <3>1, <3>2, Zenon
  <2>2. UNCHANGED <<waiters, schedVars, lck, next, sent, sigmask, sigpc, broken>>
    BY <1>13, Zenon DEF removeWaiter, visitItem, giveUp, storeValue
  <2>3. value' \in Int
    <3>1. value' = value \/ value' = loc[t].val + 1
      BY <1>13, Zenon DEF removeWaiter, visitItem, giveUp, storeValue
    <3> QED BY <1>0, <1>11, <3>1 DEF SemTypes
  <2>4. PICK l \in Locals : loc' = [loc EXCEPT ![t] = l]
    <3>1. CASE removeWaiter(t)
      <4>1. waiters.head \in Links BY <1>0, Zenon DEF SemTypes
      <4>2. [prev |-> Null, item |-> waiters.head, val |-> 0] \in Locals BY <4>1 DEF Locals, Links
      <4> QED BY <3>1, <4>2, Zenon DEF removeWaiter
    <3>2. CASE visitItem(t)
      <4>1. next[loc[t].item] \in Links BY <1>0, <1>11, <3>2, Zenon DEF visitItem, Links, SchedTypes
      <4>2. [prev |-> loc[t].item, item |-> next[loc[t].item], val |-> 0] \in Locals
        BY <1>11, <4>1 DEF Locals
      <4> QED BY <3>2, <4>2, Zenon DEF visitItem
    <3>3. CASE giveUp(t)
      <4>1. [prev |-> Null, item |-> Null, val |-> value] \in Locals BY <1>0 DEF Locals, Links, SemTypes
      <4> QED BY <3>3, <4>1, Zenon DEF giveUp
    <3>4. CASE storeValue(t)
      <4>1. noLocals \in Locals BY DEF noLocals, Locals, Links
      <4> QED BY <3>4, <4>1, Zenon DEF storeValue
    <3> QED BY <1>13, <3>1, <3>2, <3>3, <3>4, Zenon
  <2>5. loc' \in [Threads -> Locals] BY <1>0, <2>4, Zenon DEF SemTypes
  <2>6. SchedTypes' BY <1>0, <2>2, Zenon DEF SchedTypes
  <2>7. SemTypes' BY <1>0, <2>1, <2>2, <2>3, <2>5, Zenon DEF SemTypes
  <2> QED BY <2>6, <2>7, TypeParts, Zenon
<1> QED BY <1>2, <1>3, <1>4, <1>5, <1>6, <1>7, <1>8, <1>9, <1>10, <1>12, <1>13, Zenon DEF KernelStep

(* Signals and idle CPUs keep the types. *)
LEMMA SignalTypes ==
  ASSUME TypeOK, (\E t \in Threads : SignalStep(t)) \/ performIdle
  PROVE  TypeOK'
<1> USE DEF semVars, schedVars
<1>0. SchedTypes /\ SemTypes BY TypeParts, Zenon
<1>1. ASSUME NEW t \in Threads, addSignalFor(t) PROVE TypeOK'
  <2>1. /\ sent' = sent + 1 /\ sent < MaxSignals /\ sigmask' = [sigmask EXCEPT ![t] = TRUE]
        /\ sigpc' = [sigpc EXCEPT ![t] = "check"]
        /\ UNCHANGED <<semVars, schedVars, lck, next, pc, loc, broken>>
    BY <1>1, Zenon DEF addSignalFor
  <2>2. SchedTypes' BY <1>0, <2>1, Zenon DEF SchedTypes
  <2>3. sent' \in 0..MaxSignals BY <1>0, <2>1, SemAssumption DEF SemTypes
  <2>4. sigmask' \in [Threads -> BOOLEAN] BY <1>0, <2>1, Zenon DEF SemTypes
  <2>5. SemTypes' BY <1>0, <2>1, <2>3, <2>4, Zenon DEF SemTypes
  <2> QED BY <2>2, <2>5, TypeParts, Zenon
<1>2. ASSUME NEW t \in Threads, checkIgnSigs(t) PROVE TypeOK'
  <2>1. /\ sigpc' = [sigpc EXCEPT ![t] = IF isIgnoringSigs(t) THEN "none" ELSE "kick"]
        /\ UNCHANGED <<semVars, schedVars, lck, next, sent, sigmask, pc, loc, broken>>
    BY <1>2, Zenon DEF checkIgnSigs
  <2>2. SchedTypes' BY <1>0, <2>1, Zenon DEF SchedTypes
  <2>3. SemTypes' BY <1>0, <2>1, Zenon DEF SemTypes
  <2> QED BY <2>2, <2>3, TypeParts, Zenon
<1>3. ASSUME NEW t \in Threads, unblockTarget(t) PROVE TypeOK'
  <2>1. /\ sigpc' = [sigpc EXCEPT ![t] = "none"] /\ unblock(t, next)
        /\ UNCHANGED <<semVars, lck, sent, sigmask, pc, loc>>
    BY <1>3, Zenon DEF unblockTarget
  <2>2. SchedTypes' BY <1>0, <2>1, UnblockTypes, Zenon DEF SchedTypes
  <2>3. SemTypes' BY <1>0, <2>1, Zenon DEF SemTypes
  <2> QED BY <2>2, <2>3, TypeParts, Zenon
<1>4. ASSUME NEW t \in Threads, handleSignal(t) PROVE TypeOK'
  <2>1. /\ sigmask' = [sigmask EXCEPT ![t] = FALSE]
        /\ UNCHANGED <<semVars, schedVars, lck, next, sent, sigpc, pc, loc, broken>>
    BY <1>4, Zenon DEF handleSignal
  <2>2. SchedTypes' BY <1>0, <2>1, Zenon DEF SchedTypes
  <2>3. sigmask' \in [Threads -> BOOLEAN] BY <1>0, <2>1, Zenon DEF SemTypes
  <2>4. SemTypes' BY <1>0, <2>1, <2>3, Zenon DEF SemTypes
  <2> QED BY <2>2, <2>4, TypeParts, Zenon
<1>5. CASE performIdle
  <2>1. pick(ready, next, state) /\ UNCHANGED <<semVars, lck, sent, sigmask, sigpc, loc, pc>>
    BY <1>5, Zenon DEF performIdle
  <2>2. SchedTypes' BY <1>0, <2>1, PickTypes, Zenon DEF SchedTypes
  <2>3. SemTypes' BY <1>0, <2>1, Zenon DEF SemTypes
  <2> QED BY <2>2, <2>3, TypeParts, Zenon
<1> QED BY <1>1, <1>2, <1>3, <1>4, <1>5, Zenon DEF SignalStep

(* Every step keeps the types. *)
LEMMA NextTypes == TypeOK /\ [Next]_vars => TypeOK'
<1> SUFFICES ASSUME TypeOK, [Next]_vars PROVE TypeOK' BY Zenon
<1>1. CASE UNCHANGED vars BY <1>1, Zenon DEF vars, semVars, schedVars, TypeOK
<1>2. CASE Next BY <1>2, KernelTypes, SignalTypes, Zenon DEF Next
<1> QED BY <1>1, <1>2, Zenon

(***************************************************************************)
(* However down() is interrupted, all the state of the semaphore keeps its *)
(* type, for any number of threads, CPUs and signals.                      *)
(***************************************************************************)
THEOREM SemaphoreTypes == Spec => []TypeOK
BY InitTypes, NextTypes, PTL DEF Spec

-----------------------------------------------------------------------------
(* A thread that has loaded the value to increment it has the value as it  *)
(* is now.                                                                 *)
StoreFresh == \A t \in Threads : pc[t] = "store" => loc[t].val = value

(* Every step keeps the units. *)
LEMMA NextUnits == TypeOK /\ StoreFresh /\ UnitsConserved /\ [Next]_vars => UnitsConserved'
<1> SUFFICES ASSUME TypeOK, StoreFresh, UnitsConserved, [Next]_vars PROVE UnitsConserved' BY Zenon
<1> USE DEF semVars, schedVars
<1>0. value = InitValue - Cardinality(Counted) /\ value \in Int /\ InitValue \in Nat
  BY SemAssumption, Zenon DEF UnitsConserved, Counted, TypeOK
<1>1. ASSUME value' = InitValue - Cardinality(Counted') PROVE UnitsConserved'
  BY <1>1, Zenon DEF UnitsConserved, Counted
<1>2. ASSUME UNCHANGED <<value, pc>> PROVE UnitsConserved'
  BY <1>2, Zenon DEF UnitsConserved
<1>3. ASSUME NEW t \in Threads, NEW p, Goto(t, p), pc[t] \notin {"out", "wakeup", "guard"},
             p \notin {"out", "wakeup", "guard"}, value' = value
      PROVE  UnitsConserved'
  BY <1>0, <1>1, <1>3, CountStep DEF Num
<1>4. ASSUME NEW t \in Threads, NEW p, Goto(t, p), pc[t] \in {"out", "wakeup", "guard"},
             p \in {"out", "wakeup", "guard"}, value' = value
      PROVE  UnitsConserved'
  BY <1>0, <1>1, <1>4, CountStep DEF Num
<1>5. ASSUME NEW t \in Threads, NEW p, Goto(t, p), pc[t] \in {"out", "wakeup", "guard"},
             p \notin {"out", "wakeup", "guard"}, value' = value - 1
      PROVE  UnitsConserved'
  BY <1>0, <1>1, <1>5, CountStep DEF Num
<1>6. ASSUME NEW t \in Threads, NEW p, Goto(t, p), pc[t] \notin {"out", "wakeup", "guard"},
             p \in {"out", "wakeup", "guard"}, value' = value + 1
      PROVE  UnitsConserved'
  BY <1>0, <1>1, <1>6, CountStep DEF Num
<1>7. CASE UNCHANGED vars \/ performIdle \/ \E t \in Threads : SignalStep(t)
  BY <1>2, <1>7, Zenon
    DEF vars, performIdle, SignalStep, addSignalFor, checkIgnSigs, unblockTarget, handleSignal
<1>8. ASSUME NEW t \in Threads, down(t) \/ tryDown(t) PROVE UnitsConserved'
  <2>1. PICK p \in {"block", "in"} : Goto(t, p) BY <1>8, Zenon DEF down, tryDown
  <2>2. pc[t] = "out" /\ value' = value - 1 BY <1>8, Zenon DEF down, tryDown
  <2> QED BY <1>5, <2>1, <2>2, Zenon
<1>9. ASSUME NEW t \in Threads, release(t) \/ storeValue(t) PROVE UnitsConserved'
  <2>1. PICK p \in {"out", "wakeup"} : Goto(t, p) BY <1>9, Zenon DEF release, storeValue
  <2>2. pc[t] \in {"in", "store"} /\ value' = value + 1
    BY <1>9, Zenon DEF release, storeValue, up, StoreFresh
  <2> QED BY <1>6, <2>1, <2>2, Zenon
<1>10. ASSUME NEW t \in Threads, returnFalse(t) \/ wakeupFirst(t) PROVE UnitsConserved'
  <2>1. PICK p \in {"out", "guard"} : Goto(t, p) BY <1>10, Zenon DEF returnFalse, wakeupFirst
  <2>2. pc[t] \in {"wakeup", "guard"} /\ value' = value BY <1>10, Zenon DEF returnFalse, wakeupFirst
  <2> QED BY <1>4, <2>1, <2>2, Zenon
<1>11. ASSUME NEW t \in Threads, preempt(t) PROVE UnitsConserved'
  <2>1. Goto(t, pc[t]) /\ value' = value BY <1>11, Zenon DEF preempt, perform
  <2>2. pc' = pc BY <2>1, Zenon DEF Goto, TypeOK
  <2> QED BY <1>2, <2>1, <2>2, Zenon
<1>12. ASSUME NEW t \in Threads, switchAway(t) \/ switchIgnSigs(t) PROVE UnitsConserved'
  <2>1. PICK p \in {"woken", "resume"} : Goto(t, p) BY <1>12, Zenon
    DEF switchAway, switchIgnSigs, perform
  <2>2. pc[t] \in {"switch", "ignsigs"} /\ value' = value BY <1>12, Zenon
    DEF switchAway, switchIgnSigs, perform
  <2> QED BY <1>3, <2>1, <2>2, Zenon
<1>13. ASSUME NEW t \in Threads,
              \/ block(t) \/ unlock(t) \/ checkSignal(t) \/ setIgnSigs(t) \/ clearIgnSigs(t)
              \/ relock(t) \/ removeWaiter(t) \/ endWalk(t) \/ unlink(t) \/ giveUp(t)
       PROVE  UnitsConserved'
  <2>1. PICK p \in PCs \ {"out", "wakeup", "guard"} : Goto(t, p)
    BY <1>13, Zenon DEF block, unlock, checkSignal, setIgnSigs, clearIgnSigs, relock, removeWaiter,
                 endWalk, unlink, giveUp, PCs
  <2>2. pc[t] \notin {"out", "wakeup", "guard"} /\ value' = value
    BY <1>13, Zenon DEF block, unlock, checkSignal, setIgnSigs, clearIgnSigs, relock, removeWaiter,
                 endWalk, unlink, giveUp
  <2> QED BY <1>3, <2>1, <2>2, Zenon
<1>14. ASSUME NEW t \in Threads, visitItem(t) PROVE UnitsConserved'
  BY <1>2, <1>14, Zenon DEF visitItem
<1> QED BY <1>7, <1>8, <1>9, <1>10, <1>11, <1>12, <1>13, <1>14, Zenon DEF Next, KernelStep

(* On one CPU one thread runs, and the one that increments the value       *)
(* without lck is that thread.                                             *)
OneRuns ==
  /\ \A s, t \in Threads : state[s] = "RUNNING" /\ state[t] = "RUNNING" => s = t
  /\ \A t \in Threads : pc[t] = "store" => state[t] = "RUNNING"
  /\ StoreFresh

(* pick runs at most one thread more. *)
LEMMA PickRuns ==
  ASSUME TypeOK, NEW r \in [head : Links, tail : Links], NEW nx,
         NEW st \in [Threads -> {"RUNNING", "READY", "BLOCKED"}], pick(r, nx, st),
         \A s \in Threads : st[s] # "RUNNING"
  PROVE  \A s, t \in Threads : state'[s] = "RUNNING" /\ state'[t] = "RUNNING" => s = t
<1>1. CASE r.head = Null BY <1>1, Zenon DEF pick
<1>2. CASE r.head # Null
  <2>1. r.head \in Threads /\ state' = [st EXCEPT ![r.head] = "RUNNING"] BY <1>2, Zenon
    DEF pick, Links
  <2> QED BY <2>1, Zenon
<1> QED BY <1>1, <1>2, Zenon

(* unblock runs no thread. *)
LEMMA UnblockRuns ==
  ASSUME TypeOK, NEW t \in Threads, NEW nx, unblock(t, nx)
  PROVE  \A s \in Threads : state'[s] = "RUNNING" <=> state[s] = "RUNNING"
<1>1. CASE state' = state BY <1>1, Zenon
<1>2. CASE state[t] = "BLOCKED" /\ state' = [state EXCEPT ![t] = "READY"] BY <1>2, Zenon DEF TypeOK
<1> QED BY <1>1, <1>2, Zenon DEF unblock, schedVars

(* perform of the only running thread. *)
LEMMA PerformRuns ==
  ASSUME TypeOK, NEW t \in Threads, NEW p, perform(t, p), OneRuns
  PROVE  \A s, u \in Threads : state'[s] = "RUNNING" /\ state'[u] = "RUNNING" => s = u
<1>0. /\ ready \in [head : Links, tail : Links] /\ next \in [Threads -> Links]
      /\ \A s \in Threads \ {t} : state[s] # "RUNNING"
  BY Zenon DEF TypeOK, perform, Running, OneRuns
<1>1. CASE UNCHANGED state BY <1>1, Zenon DEF OneRuns
<1>2. CASE pick(append(ready, next, t).list, append(ready, next, t).next, [state EXCEPT ![t] = "READY"])
  <2> DEFINE st == [state EXCEPT ![t] = "READY"]
             a == append(ready, next, t)
  <2>1. a.list \in [head : Links, tail : Links] BY <1>0, AppendTypes, Zenon
  <2>2. st \in [Threads -> {"RUNNING", "READY", "BLOCKED"}] BY Zenon DEF TypeOK
  <2>3. pick(a.list, a.next, st) BY <1>2, Zenon
  <2>4. \A s \in Threads : st[s] # "RUNNING" BY <1>0, Zenon DEF TypeOK
  <2> HIDE DEF st, a
  <2> QED BY <2>1, <2>2, <2>3, <2>4, PickRuns, Zenon
<1>3. CASE pick(ready, next, [state EXCEPT ![t] = "BLOCKED"])
  <2> DEFINE st == [state EXCEPT ![t] = "BLOCKED"]
  <2>1. st \in [Threads -> {"RUNNING", "READY", "BLOCKED"}] BY Zenon DEF TypeOK
  <2>2. pick(ready, next, st) BY <1>3, Zenon
  <2>3. \A s \in Threads : st[s] # "RUNNING" BY <1>0, Zenon DEF TypeOK
  <2> HIDE DEF st
  <2> QED BY <1>0, <2>1, <2>2, <2>3, PickRuns, Zenon
<1> QED BY <1>1, <1>2, <1>3, Zenon DEF perform, schedVars

(* Every step on one CPU keeps it that one thread runs. *)
LEMMA NextRuns == NCPU = 1 /\ TypeOK /\ OneRuns /\ [Next]_vars => OneRuns'
<1> SUFFICES ASSUME NCPU = 1, TypeOK, OneRuns, [Next]_vars PROVE OneRuns' BY Zenon
<1> USE DEF semVars, schedVars
<1>1. ASSUME \A s \in Threads : state'[s] = "RUNNING" <=> state[s] = "RUNNING",
             UNCHANGED <<value, loc, pc>>
      PROVE  OneRuns'
  BY <1>1, Zenon DEF OneRuns, StoreFresh
<1>2. ASSUME NEW t \in Threads, state[t] = "RUNNING", pc'[t] = "store" => loc'[t].val = value',
             \A s \in Threads : state'[s] = "RUNNING" <=> state[s] = "RUNNING",
             \A s \in Threads \ {t} : pc'[s] = pc[s]
      PROVE  OneRuns'
  BY <1>2, Zenon DEF OneRuns, StoreFresh
<1>3. ASSUME NEW t \in Threads, NEW p, Goto(t, p)
      PROVE  pc'[t] = p /\ \A s \in Threads \ {t} : pc'[s] = pc[s]
  BY <1>3, Zenon DEF Goto, TypeOK
<1>4. CASE UNCHANGED vars BY <1>1, <1>4, Zenon DEF vars
<1>5. CASE performIdle
  <2>1. pick(ready, next, state) /\ UNCHANGED <<value, loc, pc>> BY <1>5, Zenon DEF performIdle
  <2>2. \A s \in Threads : state[s] # "RUNNING"
    <3> DEFINE R == {s \in Threads : state[s] = "RUNNING"}
    <3>1. IsFiniteSet(R) BY SemAssumption, FS_Subset, Zenon
    <3>2. Cardinality(R) < 1 BY <1>5, Zenon DEF performIdle
    <3> HIDE DEF R
    <3>3. Cardinality(R) \in Nat BY <3>1, FS_CardinalityType, Zenon
    <3>4. Cardinality(R) = 0 BY <3>2, <3>3
    <3>5. R = {} BY <3>1, <3>4, FS_EmptySet, Zenon
    <3> QED BY <3>5, Zenon DEF R
  <2>3. ready \in [head : Links, tail : Links] BY Zenon DEF TypeOK
  <2>4. state \in [Threads -> {"RUNNING", "READY", "BLOCKED"}] BY Zenon DEF TypeOK
  <2>5. \A s, t \in Threads : state'[s] = "RUNNING" /\ state'[t] = "RUNNING" => s = t
    BY <2>1, <2>2, <2>3, <2>4, PickRuns, Zenon
  <2>6. \A s \in Threads : pc'[s] # "store" BY <2>1, <2>2, Zenon DEF OneRuns
  <2> QED BY <2>5, <2>6, Zenon DEF OneRuns, StoreFresh
<1>6. ASSUME NEW t \in Threads, SignalStep(t) PROVE OneRuns'
  <2>1. CASE unblockTarget(t) BY <1>1, <2>1, UnblockRuns, Zenon DEF unblockTarget
  <2>2. CASE addSignalFor(t) \/ checkIgnSigs(t) \/ handleSignal(t)
    BY <1>1, <2>2, Zenon DEF addSignalFor, checkIgnSigs, handleSignal
  <2> QED BY <1>6, <2>1, <2>2, Zenon DEF SignalStep
<1>7. ASSUME NEW t \in Threads, preempt(t) \/ switchAway(t) \/ switchIgnSigs(t) PROVE OneRuns'
  <2>1. PICK p \in PCs \ {"store"} : perform(t, p)
    BY <1>7, Zenon DEF preempt, switchAway, switchIgnSigs, PCs
  <2>2. state[t] = "RUNNING" /\ UNCHANGED <<value, loc>> /\ Goto(t, p) BY <2>1, Zenon DEF perform, Running
  <2>3. \A s \in Threads : pc'[s] # "store" BY <1>3, <2>2, Zenon DEF OneRuns
  <2>4. \A s, u \in Threads : state'[s] = "RUNNING" /\ state'[u] = "RUNNING" => s = u
    BY <2>1, PerformRuns, Zenon
  <2> QED BY <2>3, <2>4, Zenon DEF OneRuns, StoreFresh
<1>8. ASSUME NEW t \in Threads, release(t) \/ wakeupFirst(t) PROVE OneRuns'
  <2>1. PICK p \in PCs \ {"store"} : Goto(t, p) BY <1>8, Zenon DEF release, wakeupFirst, PCs
  <2>2. state[t] = "RUNNING" /\ wakeup BY <1>8, Zenon DEF release, wakeupFirst, up, Running
  <2>3. \A s \in Threads : state'[s] = "RUNNING" <=> state[s] = "RUNNING"
    <3>1. CASE UNCHANGED schedVars BY <3>1, Zenon
    <3>2. CASE /\ waiters.head # Null
               /\ unblock(waiters.head, removeAt(waiters, next, Null, waiters.head).next)
      <4>1. waiters.head \in Threads BY <3>2, Zenon DEF TypeOK, Links
      <4> QED BY <3>2, <4>1, UnblockRuns, Zenon
    <3> QED BY <2>2, <3>1, <3>2, Zenon DEF wakeup
  <2> QED BY <1>2, <1>3, <2>1, <2>2, <2>3, Zenon
<1>9. ASSUME NEW t \in Threads,
             \/ down(t) \/ tryDown(t) \/ block(t) \/ unlock(t) \/ checkSignal(t) \/ setIgnSigs(t)
             \/ clearIgnSigs(t) \/ relock(t) \/ removeWaiter(t) \/ endWalk(t) \/ unlink(t)
             \/ storeValue(t) \/ returnFalse(t)
      PROVE  OneRuns'
  <2>1. PICK p \in PCs \ {"store"} : Goto(t, p)
    BY <1>9, Zenon DEF down, tryDown, block, unlock, checkSignal, setIgnSigs, clearIgnSigs, relock,
                removeWaiter, endWalk, unlink, storeValue, returnFalse, PCs
  <2>2. state[t] = "RUNNING" /\ state' = state
    BY <1>9, Zenon DEF down, tryDown, block, unlock, checkSignal, setIgnSigs, clearIgnSigs, relock,
                removeWaiter, endWalk, unlink, storeValue, returnFalse, Running
  <2> QED BY <1>2, <1>3, <2>1, <2>2, Zenon
<1>10. ASSUME NEW t \in Threads, giveUp(t) PROVE OneRuns'
  <2>1. /\ state[t] = "RUNNING" /\ state' = state /\ Goto(t, "store") /\ value' = value
        /\ loc' = [loc EXCEPT ![t] = [prev |-> Null, item |-> Null, val |-> value]]
    BY <1>10, Zenon DEF giveUp, Running
  <2>2. loc'[t].val = value BY <2>1, Zenon DEF TypeOK
  <2> QED BY <1>2, <1>3, <2>1, <2>2, Zenon
<1>11. ASSUME NEW t \in Threads, visitItem(t) PROVE OneRuns'
  <2>1. state[t] = "RUNNING" /\ state' = state /\ pc' = pc /\ pc[t] = "walk"
    BY <1>11, Zenon DEF visitItem, Running
  <2> QED BY <1>2, <2>1, Zenon
<1> QED BY <1>4, <1>5, <1>6, <1>7, <1>8, <1>9, <1>10, <1>11, Zenon DEF Next, KernelStep

(***************************************************************************)
(* On one CPU, whatever signals interrupt, the value of the semaphore is   *)
(* what it was created with minus the threads that are in down() or have   *)
(* acquired it, for any number of threads and signals.  An interrupted     *)
(* down() calls up() without lck, so this is not true of several CPUs.     *)
(***************************************************************************)
THEOREM UnitsKept == ASSUME NCPU = 1 PROVE Spec => []UnitsConserved
<1>1. Init => UnitsConserved /\ OneRuns
  <2> SUFFICES ASSUME Init PROVE UnitsConserved /\ OneRuns BY Zenon
  <2>1. {t \in Threads : pc[t] \notin {"out", "wakeup", "guard"}} = {} BY Zenon DEF Init
  <2>2. Cardinality({}) = 0 BY FS_EmptySet, Zenon
  <2>3. value = InitValue - 0 BY SemAssumption DEF Init
  <2>4. OneRuns BY Zenon DEF Init, OneRuns, StoreFresh
  <2> QED BY <2>1, <2>2, <2>3, <2>4, Zenon DEF UnitsConserved
<1>2. TypeOK /\ OneRuns /\ UnitsConserved /\ [Next]_vars => UnitsConserved' /\ OneRuns'
  BY NextUnits, NextRuns, Zenon DEF OneRuns
<1> QED BY <1>1, <1>2, InitTypes, NextTypes, PTL DEF Spec

-----------------------------------------------------------------------------
(* pick puts no thread to sleep. *)
LEMMA PickStates ==
  ASSUME TypeOK, NEW r \in [head : Links, tail : Links], NEW nx,
         NEW st \in [Threads -> {"RUNNING", "READY", "BLOCKED"}], pick(r, nx, st)
  PROVE  \A s \in Threads : state'[s] = "BLOCKED" => st[s] = "BLOCKED"
<1>1. CASE r.head = Null BY <1>1, Zenon DEF pick
<1>2. CASE r.head # Null
  <2>1. r.head \in Threads /\ state' = [st EXCEPT ![r.head] = "RUNNING"] BY <1>2, Zenon
    DEF pick, Links
  <2> QED BY <2>1, Zenon
<1> QED BY <1>1, <1>2, Zenon

(* unblock puts no thread to sleep, and wakes its thread up. *)
LEMMA UnblockStates ==
  ASSUME TypeOK, NEW t \in Threads, NEW nx, unblock(t, nx)
  PROVE  /\ \A s \in Threads : state'[s] = "BLOCKED" => state[s] = "BLOCKED"
         /\ ~broken' => state'[t] # "BLOCKED"
<1>1. CASE state[t] # "BLOCKED" /\ state' = state BY <1>1, Zenon
<1>2. CASE state' = [state EXCEPT ![t] = "READY"] BY <1>2, Zenon DEF TypeOK
<1>3. CASE broken' = TRUE /\ state' = state BY <1>3, Zenon
<1> QED BY <1>1, <1>2, <1>3, Zenon DEF unblock, schedVars

(* perform only puts its own thread to sleep, and only without a signal. *)
LEMMA PerformStates ==
  ASSUME TypeOK, NEW t \in Threads, NEW p, perform(t, p)
  PROVE  /\ \A s \in Threads \ {t} : state'[s] = "BLOCKED" => state[s] = "BLOCKED"
         /\ state'[t] = "BLOCKED" => ~hasSignal(t)
<1>0. ready \in [head : Links, tail : Links] /\ next \in [Threads -> Links] /\ state[t] = "RUNNING"
  BY Zenon DEF TypeOK, perform, Running
<1>1. CASE UNCHANGED state BY <1>0, <1>1, Zenon
<1>2. CASE pick(append(ready, next, t).list, append(ready, next, t).next, [state EXCEPT ![t] = "READY"])
  <2> DEFINE st == [state EXCEPT ![t] = "READY"]
             a == append(ready, next, t)
  <2>1. a.list \in [head : Links, tail : Links] BY <1>0, AppendTypes, Zenon
  <2>2. st \in [Threads -> {"RUNNING", "READY", "BLOCKED"}] BY Zenon DEF TypeOK
  <2>3. pick(a.list, a.next, st) BY <1>2, Zenon
  <2>4. st[t] = "READY" /\ \A s \in Threads \ {t} : st[s] = state[s] BY Zenon DEF TypeOK
  <2> HIDE DEF st, a
  <2>5. \A s \in Threads : state'[s] = "BLOCKED" => st[s] = "BLOCKED" BY <2>1, <2>2, <2>3, PickStates, Zenon
  <2> QED BY <2>4, <2>5, Zenon
<1>3. CASE ~keepRunning(t) /\ pick(ready, next, [state EXCEPT ![t] = "BLOCKED"])
  <2> DEFINE st == [state EXCEPT ![t] = "BLOCKED"]
  <2>1. st \in [Threads -> {"RUNNING", "READY", "BLOCKED"}] BY Zenon DEF TypeOK
  <2>2. pick(ready, next, st) BY <1>3, Zenon
  <2>3. \A s \in Threads \ {t} : st[s] = state[s] BY Zenon DEF TypeOK
  <2> HIDE DEF st
  <2>4. \A s \in Threads : state'[s] = "BLOCKED" => st[s] = "BLOCKED" BY <1>0, <2>1, <2>2, PickStates, Zenon
  <2> QED BY <1>3, <2>3, <2>4, Zenon DEF keepRunning
<1> QED BY <1>1, <1>2, <1>3, Zenon DEF perform, schedVars

(* wakeup puts no thread to sleep. *)
LEMMA WakeupStates ==
  ASSUME TypeOK, wakeup
  PROVE  \A s \in Threads : state'[s] = "BLOCKED" => state[s] = "BLOCKED"
<1>1. CASE UNCHANGED schedVars BY <1>1, Zenon DEF schedVars
<1>2. CASE /\ waiters.head # Null
           /\ unblock(waiters.head, removeAt(waiters, next, Null, waiters.head).next)
  <2>1. waiters.head \in Threads BY <1>2, Zenon DEF TypeOK, Links
  <2> QED BY <1>2, <2>1, UnblockStates, Zenon
<1> QED BY <1>1, <1>2, Zenon DEF wakeup

(* Unless the kernel stops, every step keeps signalled threads awake. *)
LEMMA NextSignal == TypeOK /\ SignalEndsWait /\ [Next]_vars => SignalEndsWait'
<1> SUFFICES ASSUME TypeOK, SignalEndsWait, [Next]_vars, ~broken' PROVE SignalEndsWait'
  BY Zenon DEF SignalEndsWait
<1> USE DEF semVars, schedVars
<1>1. CASE UNCHANGED vars BY <1>1, Zenon DEF vars, SignalEndsWait
<1>2. ASSUME ~broken, UNCHANGED <<sigmask, sigpc>>,
             \A s \in Threads : state'[s] = "BLOCKED" => state[s] = "BLOCKED",
             \A s \in Threads : pc'[s] = "woken" => pc[s] = "woken"
      PROVE  SignalEndsWait'
  BY <1>2, Zenon DEF SignalEndsWait
<1>3. ASSUME NEW t \in Threads, NEW p \in PCs \ {"woken"}, Goto(t, p)
      PROVE  \A s \in Threads : pc'[s] = "woken" => pc[s] = "woken"
  BY <1>3, Zenon DEF Goto, TypeOK
<1>4. ASSUME NEW t \in Threads,
             \/ down(t) \/ tryDown(t) \/ block(t) \/ unlock(t) \/ checkSignal(t) \/ setIgnSigs(t)
             \/ clearIgnSigs(t) \/ relock(t) \/ removeWaiter(t) \/ endWalk(t) \/ unlink(t)
             \/ giveUp(t) \/ storeValue(t) \/ returnFalse(t)
      PROVE  SignalEndsWait'
  <2>1. PICK p \in PCs \ {"woken"} : Goto(t, p)
    BY <1>4, Zenon DEF down, tryDown, block, unlock, checkSignal, setIgnSigs, clearIgnSigs, relock,
                removeWaiter, endWalk, unlink, giveUp, storeValue, returnFalse, PCs
  <2>2. ~broken /\ UNCHANGED <<sigmask, sigpc, state>>
    BY <1>4, Zenon DEF down, tryDown, block, unlock, checkSignal, setIgnSigs, clearIgnSigs, relock,
                removeWaiter, endWalk, unlink, giveUp, storeValue, returnFalse, Running
  <2> QED BY <1>2, <1>3, <2>1, <2>2, Zenon
<1>5. ASSUME NEW t \in Threads, release(t) \/ wakeupFirst(t) PROVE SignalEndsWait'
  <2>1. PICK p \in PCs \ {"woken"} : Goto(t, p) BY <1>5, Zenon DEF release, wakeupFirst, PCs
  <2>2. ~broken /\ UNCHANGED <<sigmask, sigpc>> /\ wakeup
    BY <1>5, Zenon DEF release, wakeupFirst, up, Running
  <2> QED BY <1>2, <1>3, <2>1, <2>2, WakeupStates, Zenon
<1>9. ASSUME NEW t \in Threads, visitItem(t) PROVE SignalEndsWait'
  <2>1. ~broken /\ UNCHANGED <<sigmask, sigpc, state, pc>> BY <1>9, Zenon DEF visitItem, Running
  <2> QED BY <1>2, <2>1, Zenon
<1>6. ASSUME NEW t \in Threads, preempt(t) \/ switchAway(t) \/ switchIgnSigs(t) PROVE SignalEndsWait'
  <2>1. PICK p \in PCs : perform(t, p) /\ (p = "woken" => pc[t] = "switch")
    BY <1>6, Zenon DEF preempt, switchAway, switchIgnSigs, PCs
  <2>2. /\ ~broken /\ UNCHANGED <<sigmask, sigpc>> /\ pc'[t] = p
        /\ \A s \in Threads \ {t} : pc'[s] = pc[s]
    BY <2>1, Zenon DEF perform, Running, Goto, TypeOK
  <2>3. ASSUME NEW s \in Threads, sigmask'[s], sigpc'[s] = "none", pc'[s] = "woken"
        PROVE  state'[s] # "BLOCKED"
    <3>1. CASE s = t
      <4>1. pc[t] = "switch" /\ sigmask[t] BY <2>1, <2>2, <2>3, <3>1, Zenon
      <4>2. hasSignal(t) BY <4>1, Zenon DEF hasSignal, isIgnoringSigs
      <4> QED BY <2>1, <3>1, <4>2, PerformStates, Zenon
    <3>2. CASE s # t
      <4>1. state[s] # "BLOCKED" BY <2>2, <2>3, <3>2, Zenon DEF SignalEndsWait
      <4> QED BY <2>1, <3>2, <4>1, PerformStates, Zenon
    <3> QED BY <3>1, <3>2, Zenon
  <2> QED BY <2>3, Zenon DEF SignalEndsWait
<1>7. CASE performIdle
  <2>1. ready \in [head : Links, tail : Links] BY Zenon DEF TypeOK
  <2>2. state \in [Threads -> {"RUNNING", "READY", "BLOCKED"}] BY Zenon DEF TypeOK
  <2>3. ~broken /\ pick(ready, next, state) /\ UNCHANGED <<sigmask, sigpc, pc>> BY <1>7, Zenon
    DEF performIdle
  <2> QED BY <1>2, <2>1, <2>2, <2>3, PickStates, Zenon
<1>8. ASSUME NEW t \in Threads, SignalStep(t) PROVE SignalEndsWait'
  <2>1. CASE addSignalFor(t) BY <2>1, Zenon DEF addSignalFor, SignalEndsWait, TypeOK
  <2>2. CASE checkIgnSigs(t)
    BY <2>2, Zenon DEF checkIgnSigs, isIgnoringSigs, SignalEndsWait, TypeOK
  <2>3. CASE unblockTarget(t)
    <3>1. /\ ~broken /\ unblock(t, next) /\ sigpc' = [sigpc EXCEPT ![t] = "none"]
          /\ UNCHANGED <<sigmask, pc>>
      BY <2>3, Zenon DEF unblockTarget
    <3>2. /\ \A s \in Threads : state'[s] = "BLOCKED" => state[s] = "BLOCKED"
          /\ state'[t] # "BLOCKED"
      BY <3>1, UnblockStates, Zenon
    <3>3. \A s \in Threads \ {t} : sigpc'[s] = sigpc[s] BY <3>1, Zenon DEF TypeOK
    <3> QED BY <3>1, <3>2, <3>3, Zenon DEF SignalEndsWait
  <2>4. CASE handleSignal(t) BY <2>4, Zenon DEF handleSignal, SignalEndsWait, TypeOK, Running
  <2> QED BY <1>8, <2>1, <2>2, <2>3, <2>4, Zenon DEF SignalStep
<1> QED BY <1>1, <1>4, <1>5, <1>6, <1>7, <1>8, <1>9, Zenon DEF Next, KernelStep

(***************************************************************************)
(* As long as the kernel has neither followed a null pointer nor run a     *)
(* thread that is not ready, a thread that is in down(allowSigs = true)    *)
(* when a signal is delivered to it does not sleep, for any number of      *)
(* threads, CPUs and signals.                                              *)
(***************************************************************************)
THEOREM SignalledAwake == Spec => []SignalEndsWait
<1>1. Init => SignalEndsWait BY Zenon DEF Init, SignalEndsWait
<1> QED BY <1>1, InitTypes, NextTypes, NextSignal, PTL DEF Spec

-----------------------------------------------------------------------------
(* The intrusive lists. *)

(* q is the list l: without gaps, and with nothing behind its tail. *)
IsList(l, nx, q) ==
  /\ q \in Seq(Threads) /\ IsInjective(q)
  /\ l.head = (IF q = <<>> THEN Null ELSE q[1])
  /\ l.tail = (IF q = <<>> THEN Null ELSE q[Len(q)])
  /\ \A i \in 1..Len(q) : nx[q[i]] = IF i = Len(q) THEN Null ELSE q[i + 1]

(* What a list looks like at its ends, and that it is without duplicates. *)
LEMMA ListFacts ==
  ASSUME NEW l, NEW nx, NEW q, IsList(l, nx, q)
  PROVE  /\ Len(q) \in Nat /\ DOMAIN q = 1..Len(q) /\ (q = <<>> <=> Len(q) = 0)
         /\ \A i \in 1..Len(q) : q[i] \in Threads
         /\ \A i, j \in 1..Len(q) : q[i] = q[j] => i = j
         /\ l.head = Null <=> q = <<>>
         /\ l.tail = Null <=> q = <<>>
         /\ q # <<>> => l.head = q[1] /\ l.tail = q[Len(q)] /\ l.head \in ToSet(q)
         /\ ~NullTail(l)
         /\ ToSet(q) = {q[i] : i \in 1..Len(q)} /\ ToSet(q) \subseteq Threads
<1>1. q \in Seq(Threads) BY Zenon DEF IsList
<1>2. /\ Len(q) \in Nat /\ DOMAIN q = 1..Len(q) /\ (q = <<>> <=> Len(q) = 0)
      /\ \A i \in 1..Len(q) : q[i] \in Threads
  BY <1>1
<1>3. \A i, j \in 1..Len(q) : q[i] = q[j] => i = j
  <2>1. IsInjective(q) BY Zenon DEF IsList
  <2> QED BY <1>2, <2>1, Zenon DEF IsInjective
<1>4. ToSet(q) = {q[i] : i \in 1..Len(q)} /\ ToSet(q) \subseteq Threads BY <1>2, Zenon DEF ToSet
<1>5. CASE q = <<>>
  <2>1. l.head = Null /\ l.tail = Null BY <1>5, Zenon DEF IsList
  <2> QED BY <1>2, <1>3, <1>4, <1>5, <2>1, Zenon DEF NullTail
<1>6. CASE q # <<>>
  <2>1. 1 \in 1..Len(q) /\ Len(q) \in 1..Len(q) BY <1>2, <1>6
  <2>2. l.head = q[1] /\ l.tail = q[Len(q)] BY <1>6, Zenon DEF IsList
  <2>3. l.head \in Threads /\ l.tail \in Threads /\ l.head \in ToSet(q) BY <1>2, <1>4, <2>1, <2>2, Zenon
  <2> QED BY <1>2, <1>3, <1>4, <1>6, <2>2, <2>3, SemAssumption, Zenon DEF NullTail
<1> QED BY <1>5, <1>6, Zenon

(* A list stays one when the links of its threads do not change. *)
LEMMA SameList ==
  ASSUME NEW l, NEW nx, NEW ny, NEW m, NEW q, IsList(l, nx, q),
         m.head = l.head, m.tail = l.tail, \A s \in ToSet(q) : ny[s] = nx[s]
  PROVE  IsList(m, ny, q)
<1>1. \A i \in 1..Len(q) : q[i] \in ToSet(q) BY ListFacts
<1> QED BY <1>1, Zenon DEF IsList

(* append adds the thread at the end, and writes no other list's links. *)
LEMMA AppendList ==
  ASSUME NEW l, NEW nx \in [Threads -> Links], NEW q, IsList(l, nx, q),
         NEW t \in Threads, t \notin ToSet(q), NEW m,
         m.head = IF l.head = Null THEN t ELSE l.head, m.tail = t
  PROVE  /\ IsList(m, append(l, nx, t).next, Append(q, t))
         /\ ToSet(Append(q, t)) = ToSet(q) \cup {t} /\ Len(Append(q, t)) = Len(q) + 1
         /\ \A s \in Threads \ ToSet(q) : s # t => append(l, nx, t).next[s] = nx[s]
<1> DEFINE ny == append(l, nx, t).next
           n == Len(q)
           r == Append(q, t)
<1>1. /\ n \in Nat /\ DOMAIN q = 1..n /\ (q = <<>> <=> n = 0)
      /\ \A i \in 1..n : q[i] \in Threads
      /\ \A i, j \in 1..n : q[i] = q[j] => i = j
      /\ l.head = Null <=> q = <<>>
      /\ q # <<>> => l.head = q[1] /\ l.tail = q[n]
      /\ ToSet(q) = {q[i] : i \in 1..n}
  BY ListFacts, Zenon
<1>2. q \in Seq(Threads) BY Zenon DEF IsList
<1>3. /\ r \in Seq(Threads) /\ Len(r) = n + 1 /\ r[n + 1] = t
      /\ \A i \in 1..n : r[i] = q[i]
  BY <1>1, <1>2
<1>4. \A i \in 1..n : q[i] # t BY <1>1, Zenon
<1>5. \A i, j \in 1..n + 1 : r[i] = r[j] => i = j
  <2> SUFFICES ASSUME NEW i \in 1..n + 1, NEW j \in 1..n + 1, r[i] = r[j] PROVE i = j BY Zenon
  <2>1. CASE i \in 1..n /\ j \in 1..n BY <1>1, <1>3, <2>1
  <2>2. CASE i \in 1..n /\ j = n + 1 BY <1>3, <1>4, <2>2, Zenon
  <2>3. CASE j \in 1..n /\ i = n + 1 BY <1>3, <1>4, <2>3, Zenon
  <2> QED BY <1>1, <2>1, <2>2, <2>3
<1>6. DOMAIN r = 1..n + 1 BY <1>1, <1>3
<1>7. IsInjective(r) BY <1>5, <1>6, Zenon DEF IsInjective
<1>8. ToSet(r) = ToSet(q) \cup {t}
  <2>1. ToSet(r) = {r[i] : i \in 1..n + 1} BY <1>6, Zenon DEF ToSet
  <2>2. ASSUME NEW x \in ToSet(r) PROVE x \in ToSet(q) \cup {t}
    <3>1. PICK i \in 1..n + 1 : x = r[i] BY <2>1, Zenon
    <3>2. CASE i = n + 1 BY <1>3, <3>1, <3>2, Zenon
    <3>3. CASE i \in 1..n BY <1>1, <1>3, <3>1, <3>3
    <3> QED BY <1>1, <3>2, <3>3
  <2>3. ASSUME NEW x \in ToSet(q) \cup {t} PROVE x \in ToSet(r)
    <3>1. CASE x = t
      <4>1. n + 1 \in 1..n + 1 BY <1>1
      <4> QED BY <1>3, <2>1, <3>1, <4>1, Zenon
    <3>2. CASE x \in ToSet(q)
      <4>1. PICK i \in 1..n : x = q[i] BY <1>1, <3>2
      <4>2. i \in 1..n + 1 /\ x = r[i] BY <1>1, <1>3, <4>1
      <4> QED BY <2>1, <4>2, Zenon
    <3> QED BY <2>3, <3>1, <3>2, Zenon
  <2> QED BY <2>2, <2>3, Zenon
<1>9. /\ ny[t] = Null
      /\ q # <<>> => ny[q[n]] = t
      /\ \A s \in Threads : s # t /\ (q = <<>> \/ s # q[n]) => ny[s] = nx[s]
  <2>1. CASE q = <<>>
    <3>1. ny = [nx EXCEPT ![t] = Null] BY <1>1, <2>1, Zenon DEF append
    <3> QED BY <2>1, <3>1, Zenon
  <2>2. CASE q # <<>>
    <3>1. ny = [nx EXCEPT ![q[n]] = t, ![t] = Null]
      <4>1. l.head # Null /\ l.tail = q[n] BY <1>1, <2>2, Zenon
      <4>2. ny = IF l.head = Null THEN [nx EXCEPT ![t] = Null]
                 ELSE [nx EXCEPT ![l.tail] = t, ![t] = Null]
        BY Zenon DEF append
      <4> QED BY <4>1, <4>2, Zenon
    <3>2. n \in 1..n BY <1>1, <2>2
    <3>3. q[n] \in Threads /\ q[n] # t BY <1>1, <1>4, <3>2, Zenon
    <3> QED BY <2>2, <3>1, <3>3, Zenon
  <2> QED BY <2>1, <2>2, Zenon
<1>14. n \in Nat BY <1>1, Zenon
<1>15. n # 0 => n \in 1..n BY <1>1
<1>16. \A i \in 1..n : nx[q[i]] = IF i = n THEN Null ELSE q[i + 1] BY Zenon DEF IsList
<1> HIDE DEF ny, r, n
<1>10. \A i \in 1..n + 1 : ny[r[i]] = IF i = n + 1 THEN Null ELSE r[i + 1]
  <2> SUFFICES ASSUME NEW i \in 1..n + 1 PROVE ny[r[i]] = IF i = n + 1 THEN Null ELSE r[i + 1]
    BY Zenon
  <2>1. CASE i = n + 1 BY <1>3, <1>9, <2>1, Zenon
  <2>2. CASE i = n /\ n # 0
    <3>1. i \in 1..n /\ i # n + 1 BY <1>14, <2>2
    <3>2. r[i] = q[n] /\ ny[q[n]] = t BY <1>1, <1>3, <1>9, <2>2, <3>1, Zenon
    <3> QED BY <1>3, <2>2, <3>1, <3>2, Zenon
  <2>3. CASE i \in 1..n /\ i # n
    <3>1. i + 1 \in 1..n /\ i # n + 1 /\ n \in 1..n BY <1>14, <2>3
    <3>2. r[i] = q[i] /\ r[i + 1] = q[i + 1] BY <1>3, <2>3, <3>1, Zenon
    <3>3. q[i] # q[n] /\ q[i] # t /\ q[i] \in Threads BY <1>1, <1>4, <2>3, <3>1, Zenon
    <3>4. nx[q[i]] = q[i + 1] BY <1>16, <2>3, Zenon
    <3> QED BY <1>9, <3>1, <3>2, <3>3, <3>4, Zenon
  <2> QED BY <1>14, <2>1, <2>2, <2>3
<1>11. m.head = r[1] /\ m.tail = r[n + 1] /\ r # <<>>
  <2>1. m.tail = r[n + 1] /\ r # <<>> BY <1>1, <1>3
  <2>2. CASE n = 0 BY <1>1, <1>3, <2>1, <2>2
  <2>3. CASE n # 0
    <3>1. 1 \in 1..n /\ r[1] = q[1] /\ m.head = l.head BY <1>1, <1>3, <2>3
    <3> QED BY <1>1, <2>1, <2>3, <3>1, Zenon
  <2> QED BY <2>2, <2>3, Zenon
<1>12. IsList(m, ny, r) BY <1>3, <1>7, <1>10, <1>11, Zenon DEF IsList
<1>13. \A s \in Threads \ ToSet(q) : s # t => ny[s] = nx[s]
  <2>1. q # <<>> => q[n] \in ToSet(q) BY <1>1
  <2> QED BY <1>9, <2>1, Zenon
<1> QED BY <1>3, <1>8, <1>12, <1>13, Zenon DEF ny, r, n

(* The head is taken out. *)
LEMMA PopList ==
  ASSUME NEW l, NEW nx, NEW q, IsList(l, nx, q), l.head # Null, NEW m,
         m.head = nx[l.head],
         \/ m.tail = IF nx[l.head] = Null THEN Null ELSE l.tail
         \/ m.tail = IF l.head = l.tail THEN Null ELSE l.tail
  PROVE  /\ IsList(m, nx, Tail(q)) /\ Len(Tail(q)) = Len(q) - 1
         /\ ToSet(Tail(q)) = ToSet(q) \ {l.head}
<1> DEFINE n == Len(q)
           r == Tail(q)
<1>1. /\ n \in Nat /\ DOMAIN q = 1..n /\ n # 0
      /\ \A i \in 1..n : q[i] \in Threads
      /\ \A i, j \in 1..n : q[i] = q[j] => i = j
      /\ l.head = q[1] /\ l.tail = q[n]
      /\ ToSet(q) = {q[i] : i \in 1..n}
  BY ListFacts
<1>2. q \in Seq(Threads) /\ q # <<>>
  <2>1. q \in Seq(Threads) BY Zenon DEF IsList
  <2> QED BY <1>1, <2>1
<1>3. r \in Seq(Threads) /\ Len(r) = n - 1 /\ \A i \in 1..n - 1 : r[i] = q[i + 1]
  BY <1>1, <1>2
<1>4. DOMAIN r = 1..n - 1 BY <1>1, <1>3
<1>6. \A i \in 1..n : nx[q[i]] = IF i = n THEN Null ELSE q[i + 1] BY Zenon DEF IsList
<1>12. n \in Nat /\ n # 0 BY <1>1, Zenon
<1> HIDE DEF r, n
<1>5. IsInjective(r)
  <2> SUFFICES ASSUME NEW i \in 1..n - 1, NEW j \in 1..n - 1, r[i] = r[j] PROVE i = j
    BY <1>4, Zenon DEF IsInjective
  <2>1. i + 1 \in 1..n /\ j + 1 \in 1..n /\ q[i + 1] = q[j + 1] BY <1>1, <1>3
  <2>2. i + 1 = j + 1 BY <1>1, <2>1, Zenon
  <2> QED BY <1>1, <2>2
<1>7. \A i \in 1..n - 1 : nx[r[i]] = IF i = n - 1 THEN Null ELSE r[i + 1]
  <2> SUFFICES ASSUME NEW i \in 1..n - 1
               PROVE  nx[r[i]] = IF i = n - 1 THEN Null ELSE r[i + 1]
    BY Zenon
  <2>1. i + 1 \in 1..n /\ r[i] = q[i + 1] /\ (i + 1 = n <=> i = n - 1) BY <1>1, <1>3
  <2>2. nx[q[i + 1]] = IF i + 1 = n THEN Null ELSE q[i + 1 + 1] BY <1>6, <2>1, Zenon
  <2>3. ASSUME i # n - 1 PROVE r[i + 1] = q[i + 1 + 1]
    <3>1. i + 1 \in 1..n - 1 BY <1>12, <2>3
    <3> QED BY <1>3, <3>1, Zenon
  <2> QED BY <2>1, <2>2, <2>3, Zenon
<1>8. nx[q[1]] = IF n = 1 THEN Null ELSE q[2]
  <2>1. 1 \in 1..n /\ 1 + 1 = 2 BY <1>12
  <2>2. nx[q[1]] = IF 1 = n THEN Null ELSE q[1 + 1] BY ONLY <1>6, <2>1, Zenon
  <2> QED BY <2>1, <2>2, Zenon
<1>9. ToSet(r) = ToSet(q) \ {q[1]}
  <2>1. ToSet(r) = {r[i] : i \in 1..n - 1} BY <1>4, Zenon DEF ToSet
  <2>2. ASSUME NEW x \in ToSet(r) PROVE x \in ToSet(q) \ {q[1]}
    <3>1. PICK i \in 1..n - 1 : x = r[i] BY <2>1, Zenon
    <3>2. i + 1 \in 1..n /\ x = q[i + 1] /\ i + 1 # 1 /\ 1 \in 1..n BY <1>1, <1>3, <3>1
    <3> QED BY <1>1, <3>2, Zenon
  <2>3. ASSUME NEW x \in ToSet(q) \ {q[1]} PROVE x \in ToSet(r)
    <3>1. PICK i \in 1..n : x = q[i] BY <1>1, <2>3, Zenon
    <3>2. i # 1 BY <2>3, <3>1, Zenon
    <3>3. i - 1 \in 1..n - 1 /\ r[i - 1] = q[i - 1 + 1] /\ i - 1 + 1 = i BY <1>1, <1>3, <3>2
    <3>4. x = r[i - 1] BY <3>1, <3>3, Zenon
    <3> QED BY <2>1, <3>3, <3>4, Zenon
  <2> QED BY <2>2, <2>3, Zenon
<1>10. CASE n = 1
  <2>1. r = <<>> BY <1>3, <1>10
  <2>2. m.head = Null /\ m.tail = Null BY <1>1, <1>8, <1>10, Zenon
  <2>3. IsList(m, nx, r) BY <1>3, <1>5, <1>7, <1>10, <2>1, <2>2, Zenon DEF IsList
  <2> QED BY <1>1, <1>3, <1>9, <2>3, Zenon DEF r, n
<1>11. CASE n # 1
  <2>1. 1 \in 1..n /\ 2 \in 1..n /\ n \in 1..n /\ 1 # n BY <1>1, <1>11
  <2>2. q[2] # Null /\ q[1] # q[n] BY <1>1, <2>1, SemAssumption, Zenon
  <2>3. m.head = q[2] /\ m.tail = q[n] BY <1>1, <1>8, <1>11, <2>2, Zenon
  <2>4. r # <<>> /\ r[1] = q[2] /\ r[n - 1] = q[n] BY <1>1, <1>3, <1>11
  <2>5. IsList(m, nx, r) BY <1>3, <1>5, <1>7, <2>3, <2>4, Zenon DEF IsList
  <2> QED BY <1>1, <1>3, <1>9, <2>5, Zenon DEF r, n
<1> QED BY <1>10, <1>11, Zenon

-----------------------------------------------------------------------------
Ready == {t \in Threads : state[t] = "READY"}

(* The two lists, which share the links, have different threads. *)
Lists ==
  \E wq, rq :
    /\ IsList(waiters, next, wq) /\ ToSet(wq) = Waiting /\ waiters.len = Len(wq)
    /\ IsList(ready, next, rq) /\ ToSet(rq) = Ready

(* Where a thread is while it is running, is about to block or is blocked. *)
Positions ==
  \A t \in Threads :
    /\ ~sigmask[t]
    /\ pc[t] \in {"out", "block", "unlock", "nosigs", "ignsigs", "resume", "relock", "in"}
    /\ pc[t] \in {"block", "unlock", "nosigs", "ignsigs"} => state[t] = "RUNNING"
    /\ state[t] = "BLOCKED" => pc[t] = "resume"
    /\ state[t] = "RUNNING" /\ newState[t] = "BLOCKED" => pc[t] \in {"unlock", "nosigs", "ignsigs"}

(* lck is held by one thread from entering the list to the end of block. *)
LckHeld ==
  /\ \A t \in Threads : pc[t] \in {"block", "unlock"} => lck
  /\ \A s, t \in Threads : pc[s] \in {"block", "unlock"} /\ pc[t] \in {"block", "unlock"} => s = t

(* The holder has acquired the semaphore, and so has a thread in up(). *)
HolderIn ==
  /\ holder = Null => depth = 0
  /\ holder # Null => pc[holder] = "in" /\ depth >= 1 /\ holder \notin leaving
  /\ \A t \in leaving : pc[t] = "in"

SemInv ==
  /\ TypeOK /\ ~broken /\ Lists /\ Positions /\ LckHeld
  /\ UnitsConserved /\ UnitsMatchWaiters

MutexInv == SemInv /\ MutexTypeOK /\ HolderIn

-----------------------------------------------------------------------------
(* The ready queue after a step, and a waiter list that the step leaves    *)
(* alone.                                                                  *)
ReadyList == \E rq : IsList(ready, next, rq) /\ ToSet(rq) = Ready

(* pick takes a ready thread out of the queue and runs it. *)
LEMMA PickLists ==
  ASSUME TypeOK, ~broken, NEW r \in [head : Links, tail : Links],
         NEW nx \in [Threads -> Links],
         NEW st \in [Threads -> {"RUNNING", "READY", "BLOCKED"}], pick(r, nx, st),
         NEW rq, IsList(r, nx, rq), ToSet(rq) = {s \in Threads : st[s] = "READY"}
  PROVE  /\ ~broken' /\ ReadyList' /\ next' = nx
         /\ \A s \in Threads : \/ state'[s] = st[s] /\ newState'[s] = newState[s]
                               \/ /\ st[s] = "READY" /\ state'[s] = "RUNNING"
                                  /\ newState'[s] = "READY"
<1>1. next' = nx BY Zenon DEF pick
<1>2. CASE r.head = Null
  <2>1. ready' = r /\ state' = st /\ newState' = newState /\ broken' = broken BY <1>2, Zenon
    DEF pick
  <2>2. Ready' = ToSet(rq) BY <2>1, Zenon DEF Ready
  <2> QED BY <1>1, <2>1, <2>2, Zenon DEF ReadyList
<1>3. CASE r.head # Null
  <2> DEFINE h == r.head
  <2>1. /\ ready' = [head |-> nx[h], tail |-> IF h = r.tail THEN Null ELSE r.tail]
        /\ state' = [st EXCEPT ![h] = "RUNNING"]
        /\ newState' = [newState EXCEPT ![h] = "READY"]
        /\ broken' = (st[h] # "READY")
    BY <1>3, Zenon DEF pick
  <2>2. h \in Threads /\ h \in ToSet(rq) BY <1>3, ListFacts, Zenon DEF Links
  <2>3. st[h] = "READY" BY <2>2, Zenon
  <2>4. ready'.head = nx[r.head] /\ ready'.tail = IF r.head = r.tail THEN Null ELSE r.tail
    BY <2>1, Zenon
  <2>5. IsList(ready', nx, Tail(rq)) /\ ToSet(Tail(rq)) = ToSet(rq) \ {r.head}
    BY <1>3, <2>4, PopList
  <2>6. ~broken' BY <2>1, <2>3, Zenon
  <2>7. state'[h] = "RUNNING" /\ newState'[h] = "READY" BY <2>1, <2>2, Zenon DEF TypeOK
  <2>8. \A s \in Threads \ {h} : state'[s] = st[s] /\ newState'[s] = newState[s]
    BY <2>1, Zenon DEF TypeOK
  <2> HIDE DEF h
  <2>9. Ready' = ToSet(rq) \ {h} BY <2>2, <2>7, <2>8, Zenon DEF Ready
  <2>10. ReadyList' BY <1>1, <2>5, <2>9, Zenon DEF ReadyList, h
  <2> QED BY <1>1, <2>3, <2>6, <2>7, <2>8, <2>10, Zenon
<1> QED BY <1>2, <1>3, Zenon

(* perform lets a ready thread run, and queues its own unless it blocks. *)
LEMMA PerformLists ==
  ASSUME SemInv, NEW t \in Threads, NEW p, perform(t, p), pc[t] # "block",
         NEW wq, IsList(waiters, next, wq), ToSet(wq) = Waiting
  PROVE  /\ ~broken' /\ ReadyList' /\ IsList(waiters, next', wq)
         /\ \A s \in Threads \ {t} :
              \/ state'[s] = state[s] /\ newState'[s] = newState[s]
              \/ state[s] = "READY" /\ state'[s] = "RUNNING" /\ newState'[s] = "READY"
         /\ newState[t] = "READY" => state'[t] # "BLOCKED" /\ newState'[t] = "READY"
         /\ newState[t] = "BLOCKED" => state'[t] = "BLOCKED"
<1>0. /\ TypeOK /\ ~broken /\ state[t] = "RUNNING" /\ ~keepRunning(t)
      /\ ready \in [head : Links, tail : Links] /\ next \in [Threads -> Links]
  BY Zenon DEF SemInv, perform, Running, Positions, keepRunning, hasSignal, TypeOK
<1>1. PICK rq : IsList(ready, next, rq) /\ ToSet(rq) = Ready BY Zenon DEF SemInv, Lists
<1>2. ~NullTail(ready) BY <1>1, ListFacts, Zenon
<1>3. \A s \in Waiting : s \notin Ready BY Zenon DEF Waiting, Ready, SemInv, Positions
<1>4. \A s \in Waiting : s \in Threads BY Zenon DEF Waiting
<1>5. CASE newState[t] = "READY"
  <2> DEFINE st == [state EXCEPT ![t] = "READY"]
             a == append(ready, next, t)
  <2>1. pick(a.list, a.next, st) BY <1>0, <1>2, <1>5, Zenon DEF perform
  <2>2. a.next \in [Threads -> Links] /\ a.list \in [head : Links, tail : Links]
    BY <1>0, AppendTypes, Zenon
  <2>3. st \in [Threads -> {"RUNNING", "READY", "BLOCKED"}] BY <1>0, Zenon DEF TypeOK
  <2>4. st[t] = "READY" /\ \A s \in Threads \ {t} : st[s] = state[s] BY <1>0, Zenon DEF TypeOK
  <2>5. a.list.head = (IF ready.head = Null THEN t ELSE ready.head) /\ a.list.tail = t
    <3> DEFINE g == IF ready.head = Null THEN t ELSE ready.head
               k == [ready EXCEPT !.head = g]
    <3>1. a.list = [k EXCEPT !.tail = t] BY Zenon DEF append
    <3>2. k \in [head : Links, tail : Links] /\ k.head = g BY <1>0, Zenon DEF Links
    <3> HIDE DEF k
    <3> QED BY <3>1, <3>2, Zenon
  <2>6. t \notin Ready BY <1>0, Zenon DEF Ready
  <2>7. /\ IsList(a.list, a.next, Append(rq, t)) /\ ToSet(Append(rq, t)) = Ready \cup {t}
        /\ \A s \in Threads \ Ready : s # t => a.next[s] = next[s]
    BY <1>0, <1>1, <2>5, <2>6, AppendList
  <2> HIDE DEF st, a
  <2>8. Ready \cup {t} = {s \in Threads : st[s] = "READY"} BY <2>4, Zenon DEF Ready
  <2>9. /\ ~broken' /\ ReadyList' /\ next' = a.next
        /\ \A s \in Threads : \/ state'[s] = st[s] /\ newState'[s] = newState[s]
                              \/ /\ st[s] = "READY" /\ state'[s] = "RUNNING"
                                 /\ newState'[s] = "READY"
    BY <1>0, <2>1, <2>2, <2>3, <2>7, <2>8, PickLists
  <2>10. t \notin Waiting BY <1>0, <1>5, Zenon DEF Waiting, SemInv, Positions
  <2>11. \A s \in ToSet(wq) : next'[s] = next[s] BY <1>3, <1>4, <2>7, <2>9, <2>10, Zenon
  <2>12. IsList(waiters, next', wq) BY <2>11, SameList, Zenon
  <2> QED BY <1>5, <2>4, <2>9, <2>12, Zenon
<1>6. CASE newState[t] = "BLOCKED"
  <2> DEFINE st == [state EXCEPT ![t] = "BLOCKED"]
  <2>1. pick(ready, next, st) BY <1>0, <1>2, <1>6, Zenon DEF perform
  <2>2. st \in [Threads -> {"RUNNING", "READY", "BLOCKED"}] BY <1>0, Zenon DEF TypeOK
  <2>3. st[t] = "BLOCKED" /\ \A s \in Threads \ {t} : st[s] = state[s] BY <1>0, Zenon DEF TypeOK
  <2> HIDE DEF st
  <2>4. Ready = {s \in Threads : st[s] = "READY"} BY <1>0, <2>3, Zenon DEF Ready
  <2>5. /\ ~broken' /\ ReadyList' /\ next' = next
        /\ \A s \in Threads : \/ state'[s] = st[s] /\ newState'[s] = newState[s]
                              \/ /\ st[s] = "READY" /\ state'[s] = "RUNNING"
                                 /\ newState'[s] = "READY"
    BY <1>0, <1>1, <2>1, <2>2, <2>4, PickLists, Zenon
  <2> QED BY <1>6, <2>3, <2>5, Zenon
<1> QED BY <1>0, <1>5, <1>6, Zenon DEF TypeOK

(* The parts of the invariant that a step without signals has to keep. *)
SemParts ==
  /\ ~broken /\ Lists /\ Positions /\ LckHeld /\ UnitsMatchWaiters

(* A call of perform keeps the invariant. *)
LEMMA PerformStep ==
  ASSUME SemInv, NEW t \in Threads, preempt(t) \/ switchIgnSigs(t)
  PROVE  SemParts'
<1>1. PICK p \in {"out", "in", "resume"} :
        /\ perform(t, p) /\ (p = "resume" => pc[t] = "ignsigs") /\ (p # "resume" => p = pc[t])
  BY Zenon DEF preempt, switchIgnSigs
<1>2. PICK wq : IsList(waiters, next, wq) /\ ToSet(wq) = Waiting /\ waiters.len = Len(wq)
  BY Zenon DEF SemInv, Lists
<1>3. /\ ~broken' /\ ReadyList' /\ IsList(waiters, next', wq)
      /\ \A s \in Threads \ {t} :
           \/ state'[s] = state[s] /\ newState'[s] = newState[s]
           \/ state[s] = "READY" /\ state'[s] = "RUNNING" /\ newState'[s] = "READY"
      /\ newState[t] = "READY" => state'[t] # "BLOCKED" /\ newState'[t] = "READY"
      /\ newState[t] = "BLOCKED" => state'[t] = "BLOCKED"
  <2>1. pc[t] # "block" BY <1>1, Zenon
  <2> QED BY <1>1, <1>2, <2>1, PerformLists, Zenon
<1>4. /\ UNCHANGED <<value, waiters, lck, sigmask>> /\ state[t] = "RUNNING"
      /\ pc'[t] = p /\ \A s \in Threads \ {t} : pc'[s] = pc[s]
  BY <1>1, Zenon DEF perform, Running, Goto, semVars, SemInv, TypeOK
<1>5. newState[t] \in {"READY", "BLOCKED"} BY Zenon DEF SemInv, TypeOK
<1>6. Positions BY Zenon DEF SemInv
<1>7. Positions' BY <1>1, <1>3, <1>4, <1>5, <1>6, Zenon DEF Positions
<1>8. \A s \in Threads : s \in Waiting' <=> s \in Waiting
  <2> SUFFICES ASSUME NEW s \in Threads PROVE s \in Waiting' <=> s \in Waiting BY Zenon
  <2>1. CASE s = t BY <1>1, <1>3, <1>4, <1>5, <1>6, <2>1, Zenon DEF Waiting, Positions
  <2>2. CASE s # t BY <1>1, <1>3, <1>4, <1>6, <2>2, Zenon DEF Waiting, Positions
  <2> QED BY <2>1, <2>2, Zenon
<1>9. Waiting' = Waiting BY <1>8, Zenon DEF Waiting
<1>10. Lists' BY <1>2, <1>3, <1>4, <1>9, Zenon DEF Lists, ReadyList
<1>11. LckHeld' BY <1>1, <1>4, Zenon DEF LckHeld, SemInv
<1>12. UnitsMatchWaiters' BY <1>4, Zenon DEF UnitsMatchWaiters, SemInv
<1> QED BY <1>3, <1>7, <1>10, <1>11, <1>12, Zenon DEF SemParts

(* An idle CPU keeps the invariant. *)
LEMMA IdleStep ==
  ASSUME SemInv, performIdle
  PROVE  SemParts'
<1>1. PICK wq : IsList(waiters, next, wq) /\ ToSet(wq) = Waiting /\ waiters.len = Len(wq)
  BY Zenon DEF SemInv, Lists
<1>2. PICK rq : IsList(ready, next, rq) /\ ToSet(rq) = Ready BY Zenon DEF SemInv, Lists
<1>3. /\ TypeOK /\ ~broken
      /\ ready \in [head : Links, tail : Links] /\ next \in [Threads -> Links]
      /\ state \in [Threads -> {"RUNNING", "READY", "BLOCKED"}]
  BY Zenon DEF SemInv, TypeOK
<1>4. pick(ready, next, state) /\ UNCHANGED <<value, waiters, lck, sigmask, pc>>
  BY Zenon DEF performIdle, semVars
<1>5. Ready = {s \in Threads : state[s] = "READY"} BY Zenon DEF Ready
<1>6. /\ ~broken' /\ ReadyList' /\ next' = next
      /\ \A s \in Threads : \/ state'[s] = state[s] /\ newState'[s] = newState[s]
                            \/ /\ state[s] = "READY" /\ state'[s] = "RUNNING"
                               /\ newState'[s] = "READY"
  BY <1>2, <1>3, <1>4, <1>5, PickLists, Zenon
<1>7. Positions BY Zenon DEF SemInv
<1>8. Positions' BY <1>4, <1>6, <1>7, Zenon DEF Positions
<1>9. \A s \in Threads : s \in Waiting' <=> s \in Waiting BY <1>4, <1>6, <1>7, Zenon
  DEF Waiting, Positions
<1>10. Waiting' = Waiting BY <1>9, Zenon DEF Waiting
<1>11. Lists' BY <1>1, <1>4, <1>6, <1>10, Zenon DEF Lists, ReadyList
<1>12. LckHeld' BY <1>4, Zenon DEF LckHeld, SemInv
<1>13. UnitsMatchWaiters' BY <1>4, Zenon DEF UnitsMatchWaiters, SemInv
<1> QED BY <1>6, <1>8, <1>11, <1>12, <1>13, Zenon DEF SemParts

(* Steps that only move the thread or change the state it goes to. *)
LEMMA MoveStep ==
  ASSUME SemInv, AllowSigs = {FALSE}, NEW t \in Threads,
         block(t) \/ unlock(t) \/ setIgnSigs(t) \/ clearIgnSigs(t) \/ relock(t)
  PROVE  SemParts'
<1> USE DEF semVars, schedVars
<1>1. PICK p : Goto(t, p)
  BY Zenon DEF block, unlock, setIgnSigs, clearIgnSigs, relock
<1>2. /\ state[t] = "RUNNING" /\ ~broken' /\ UNCHANGED <<value, waiters, ready, state, next, sigmask>>
      /\ \A s \in Threads \ {t} : newState'[s] = newState[s]
  BY DEF block, unlock, setIgnSigs, clearIgnSigs, relock, Running, SemInv, TypeOK
<1>3. pc'[t] = p /\ \A s \in Threads \ {t} : pc'[s] = pc[s] BY <1>1, Zenon DEF Goto, SemInv, TypeOK
<1>4. \/ pc[t] = "block" /\ p = "unlock" /\ newState'[t] = "BLOCKED" /\ lck' = lck
      \/ pc[t] = "unlock" /\ p = "nosigs" /\ newState'[t] = newState[t] /\ ~lck'
      \/ pc[t] = "nosigs" /\ p = "ignsigs" /\ newState'[t] = newState[t] /\ lck' = lck
      \/ pc[t] = "resume" /\ p = "relock" /\ newState'[t] = newState[t] /\ lck' = lck
      \/ pc[t] = "relock" /\ p = "in" /\ newState'[t] = newState[t] /\ lck' = lck
  <2>1. CASE block(t) BY <1>3, <2>1, Zenon DEF block, Goto, SemInv, TypeOK
  <2>2. CASE unlock(t) BY <1>3, <2>2, Zenon DEF unlock, Goto, SemInv, TypeOK
  <2>3. CASE setIgnSigs(t) BY <1>3, <2>3, Zenon DEF setIgnSigs, Goto, SemInv, TypeOK
  <2>4. CASE clearIgnSigs(t) BY <1>3, <2>4, Zenon DEF clearIgnSigs, Goto, SemInv, TypeOK
  <2>5. CASE relock(t) BY <1>3, <2>5, Zenon DEF relock, Goto, SemInv, TypeOK
  <2> QED BY <2>1, <2>2, <2>3, <2>4, <2>5, Zenon
<1>5. Positions /\ LckHeld BY Zenon DEF SemInv
<1>6. Positions' BY <1>2, <1>3, <1>4, <1>5, Zenon DEF Positions
<1>7. \A s \in Threads : s \in Waiting' <=> s \in Waiting
  BY <1>2, <1>3, <1>4, <1>5 DEF Waiting, Positions
<1>8. Waiting' = Waiting /\ Ready' = Ready BY <1>2, <1>7, Zenon DEF Waiting, Ready
<1>9. Lists' BY <1>2, <1>8, Zenon DEF Lists, SemInv
<1>10. LckHeld'
  <2>1. CASE p = "unlock" BY <1>3, <1>4, <1>5, <2>1 DEF LckHeld
  <2>2. CASE p # "unlock" BY <1>3, <1>4, <1>5, <2>2 DEF LckHeld
  <2> QED BY <2>1, <2>2, Zenon
<1>11. UnitsMatchWaiters' BY <1>2, Zenon DEF UnitsMatchWaiters, SemInv
<1> QED BY <1>2, <1>6, <1>9, <1>10, <1>11, Zenon DEF SemParts

(* down and tryDown keep the invariant. *)
LEMMA DownStep ==
  ASSUME SemInv, NEW t \in Threads, down(t) \/ tryDown(t)
  PROVE  SemParts'
<1> USE DEF semVars, schedVars
<1>1. /\ state[t] = "RUNNING" /\ ~lck /\ pc[t] = "out" /\ ~broken'
      /\ UNCHANGED <<ready, state, newState, sigmask>> /\ value' = value - 1
  BY DEF down, tryDown, Running, SemInv
<1>2. Positions /\ LckHeld /\ UnitsMatchWaiters /\ TypeOK BY Zenon DEF SemInv
<1>3. \A s \in Threads : pc[s] \notin {"block", "unlock"} BY <1>1, <1>2, Zenon DEF LckHeld
<1>4. PICK wq, rq :
        /\ IsList(waiters, next, wq) /\ ToSet(wq) = Waiting /\ waiters.len = Len(wq)
        /\ IsList(ready, next, rq) /\ ToSet(rq) = Ready
  BY Zenon DEF SemInv, Lists
<1>5. value \in Int /\ waiters.len \in Nat BY <1>2, <1>4, ListFacts DEF TypeOK
<1>6. t \notin Waiting /\ t \notin Ready BY <1>1, <1>2, Zenon DEF Waiting, Ready, Positions
<1>7. Ready' = Ready BY <1>1, Zenon DEF Ready
<1>8. CASE Goto(t, "in") /\ UNCHANGED <<waiters, next, lck>> /\ value' >= 0 /\ waiters.len = 0
  <2>1. pc'[t] = "in" /\ \A s \in Threads \ {t} : pc'[s] = pc[s] BY <1>2, <1>8, Zenon
    DEF Goto, TypeOK
  <2>2. Positions' BY <1>1, <1>2, <2>1, Zenon DEF Positions
  <2>3. \A s \in Threads : s \in Waiting' <=> s \in Waiting BY <1>1, <1>2, <2>1, Zenon
    DEF Waiting, Positions
  <2>4. Waiting' = Waiting BY <2>3, Zenon DEF Waiting
  <2>8. /\ IsList(waiters', next', wq) /\ ToSet(wq) = Waiting' /\ waiters'.len = Len(wq)
        /\ IsList(ready', next', rq) /\ ToSet(rq) = Ready'
    BY <1>1, <1>4, <1>7, <1>8, <2>4, Zenon
  <2>5. Lists' BY <2>8, Zenon DEF Lists
  <2>6. LckHeld' BY <1>3, <2>1, Zenon DEF LckHeld
  <2>7. UnitsMatchWaiters' BY <1>1, <1>5, <1>8 DEF UnitsMatchWaiters
  <2> QED BY <1>1, <2>2, <2>5, <2>6, <2>7, Zenon DEF SemParts
<1>9. CASE /\ mustWait(value', waiters) /\ Goto(t, "block") /\ lck' = TRUE
           /\ waiters' = [append(waiters, next, t).list EXCEPT !.len = @ + 1]
           /\ next' = append(waiters, next, t).next
  <2>1. pc'[t] = "block" /\ \A s \in Threads \ {t} : pc'[s] = pc[s] BY <1>2, <1>9, Zenon
    DEF Goto, TypeOK
  <2>2. Positions' BY <1>1, <1>2, <2>1, Zenon DEF Positions
  <2>3. /\ waiters'.head = (IF waiters.head = Null THEN t ELSE waiters.head)
        /\ waiters'.tail = t /\ waiters'.len = waiters.len + 1
    <3> DEFINE g == IF waiters.head = Null THEN t ELSE waiters.head
               k == [waiters EXCEPT !.head = g]
               l == [k EXCEPT !.tail = t]
    <3>1. append(waiters, next, t).list = l BY Zenon DEF append
    <3>2. g \in Links /\ t \in Links BY <1>2, Zenon DEF Links, TypeOK
    <3>3. k \in [head : Links, tail : Links, len : Int] /\ k.head = g /\ k.len = waiters.len
      BY <1>2, <3>2, Zenon DEF TypeOK
    <3> HIDE DEF k
    <3>4. /\ l \in [head : Links, tail : Links, len : Int] /\ l.head = g /\ l.tail = t
          /\ l.len = waiters.len
      BY <3>2, <3>3, Zenon
    <3> HIDE DEF l, g
    <3>5. waiters'.head = g /\ waiters'.tail = t /\ waiters'.len = waiters.len + 1
      BY <1>9, <3>1, <3>4, Zenon
    <3> QED BY <3>5, Zenon DEF g
  <2>4. next \in [Threads -> Links] BY <1>2, Zenon DEF TypeOK
  <2>5. /\ IsList(waiters', next', Append(wq, t)) /\ ToSet(Append(wq, t)) = Waiting \cup {t}
        /\ Len(Append(wq, t)) = Len(wq) + 1
        /\ \A s \in Threads \ Waiting : s # t => next'[s] = next[s]
    <3>1. t \notin ToSet(wq) BY <1>4, <1>6, Zenon
    <3>2. /\ IsList(waiters', append(waiters, next, t).next, Append(wq, t))
          /\ ToSet(Append(wq, t)) = ToSet(wq) \cup {t} /\ Len(Append(wq, t)) = Len(wq) + 1
          /\ \A s \in Threads \ ToSet(wq) : s # t => append(waiters, next, t).next[s] = next[s]
      BY <1>4, <2>3, <2>4, <3>1, AppendList
    <3> QED BY <1>4, <1>9, <3>2, Zenon
  <2>6. \A s \in Threads : s \in Waiting' <=> s \in Waiting \/ s = t
    BY <1>1, <1>2, <2>1, Zenon DEF Waiting, Positions
  <2>7. Waiting' = Waiting \cup {t} BY <2>6, Zenon DEF Waiting
  <2>8. \A s \in Ready : s \in Threads /\ s \notin Waiting BY <1>2, Zenon
    DEF Waiting, Ready, Positions
  <2>9. \A s \in ToSet(rq) : next'[s] = next[s] BY <1>4, <1>6, <2>5, <2>8, Zenon
  <2>10. IsList(ready', next', rq) BY <1>1, <1>4, <2>9, SameList, Zenon
  <2>14. /\ ToSet(Append(wq, t)) = Waiting' /\ waiters'.len = Len(Append(wq, t))
         /\ ToSet(rq) = Ready'
    BY <1>4, <1>7, <2>3, <2>5, <2>7, Zenon
  <2> DEFINE v == Append(wq, t)
  <2>16. IsList(waiters', next', v) /\ ToSet(v) = Waiting' /\ waiters'.len = Len(v)
    BY <2>5, <2>14, Zenon
  <2> HIDE DEF v
  <2>11. Lists' BY <2>10, <2>14, <2>16, Zenon DEF Lists
  <2>12. LckHeld' BY <1>3, <1>9, <2>1, Zenon DEF LckHeld
  <2>13. UnitsMatchWaiters' BY <1>1, <1>2, <1>5, <1>9, <2>3 DEF UnitsMatchWaiters, mustWait
  <2> QED BY <1>1, <2>2, <2>11, <2>12, <2>13, Zenon DEF SemParts
<1>10. CASE tryDown(t)
  <2>1. Goto(t, "in") /\ UNCHANGED <<waiters, next, lck>> /\ value > 0 /\ waiters.len = 0
    BY <1>10, Zenon DEF tryDown
  <2> QED BY <1>1, <1>5, <1>8, <2>1
<1>11. CASE down(t)
  <2>1. CASE mustWait(value', waiters) BY <1>9, <1>11, <2>1, Zenon DEF down
  <2>2. CASE ~mustWait(value', waiters)
    <3>1. Goto(t, "in") /\ UNCHANGED <<waiters, next, lck>> BY <1>11, <2>2, Zenon DEF down
    <3>2. value' >= 0 /\ waiters.len = 0 BY <1>1, <1>5, <2>2 DEF mustWait
    <3> QED BY <1>8, <3>1, <3>2, Zenon
  <2> QED BY <2>1, <2>2, Zenon
<1> QED BY <1>10, <1>11, Zenon

(* up gives the unit to the first waiter, if there is one. *)
LEMMA ReleaseStep ==
  ASSUME SemInv, NEW t \in Threads, release(t)
  PROVE  SemParts'
<1> USE DEF semVars, schedVars
<1>1. /\ state[t] = "RUNNING" /\ ~lck /\ ~broken /\ pc[t] = "in" /\ up /\ Goto(t, "out")
      /\ UNCHANGED <<lck, sigmask>> /\ value' = value + 1
  BY Zenon DEF release, Running, up
<1>2. Positions /\ LckHeld /\ UnitsMatchWaiters /\ TypeOK BY Zenon DEF SemInv
<1>3. \A s \in Threads : pc[s] \notin {"block", "unlock"} BY <1>1, <1>2, Zenon DEF LckHeld
<1>4. pc'[t] = "out" /\ \A s \in Threads \ {t} : pc'[s] = pc[s] BY <1>1, <1>2, Zenon
  DEF Goto, TypeOK
<1>5. LckHeld' BY <1>3, <1>4, Zenon DEF LckHeld
<1>6. PICK wq, rq :
        /\ IsList(waiters, next, wq) /\ ToSet(wq) = Waiting /\ waiters.len = Len(wq)
        /\ IsList(ready, next, rq) /\ ToSet(rq) = Ready
  BY Zenon DEF SemInv, Lists
<1>7. value \in Int /\ waiters.len \in Nat BY <1>2, <1>6, ListFacts DEF TypeOK
<1>8. waiters.len # 0 <=> waiters.head # Null BY <1>6, ListFacts
<1>9. CASE waiters.len = 0
  <2>1. UNCHANGED <<waiters, ready, state, newState, next, broken>>
    <3>1. ~(waiters.len # 0) BY <1>9, Zenon
    <3> QED BY <1>1, <1>9, <3>1, Zenon DEF up, wakeup
  <2>2. Positions' BY <1>1, <1>2, <1>4, <2>1, Zenon DEF Positions
  <2>3. \A s \in Threads : s \in Waiting' <=> s \in Waiting
    BY <1>1, <1>2, <1>4, <2>1, Zenon DEF Waiting, Positions
  <2>4. Waiting' = Waiting /\ Ready' = Ready BY <2>1, <2>3, Zenon DEF Waiting, Ready
  <2>5. /\ IsList(waiters', next', wq) /\ ToSet(wq) = Waiting' /\ waiters'.len = Len(wq)
        /\ IsList(ready', next', rq) /\ ToSet(rq) = Ready'
    BY <1>6, <2>1, <2>4, Zenon
  <2>6. Lists' BY <2>5, Zenon DEF Lists
  <2>7. UnitsMatchWaiters' BY <1>1, <1>2, <1>7, <1>9, <2>1 DEF UnitsMatchWaiters
  <2> QED BY <1>1, <1>5, <2>1, <2>2, <2>6, <2>7, Zenon DEF SemParts
<1>10. CASE waiters.len # 0
  <2>1. PICK w \in Threads : w = waiters.head BY <1>2, <1>8, <1>10, Zenon DEF TypeOK, Links
  <2>2. w \in Waiting BY <1>6, <1>8, <1>10, <2>1, ListFacts, Zenon
  <2>3. /\ waiters' = removeAt(waiters, next, Null, w).list
        /\ unblock(w, removeAt(waiters, next, Null, w).next)
    BY <1>1, <1>8, <1>10, <2>1, Zenon DEF up, wakeup
  <2>4. removeAt(waiters, next, Null, w).next = next BY Zenon DEF removeAt
  <2>5. unblock(w, next) BY <2>3, <2>4, Zenon
  <2>6. /\ waiters'.head = next[waiters.head] /\ waiters'.len = waiters.len - 1
        /\ waiters'.tail = IF next[waiters.head] = Null THEN Null ELSE waiters.tail
    BY <2>1, <2>3, Zenon DEF removeAt
  <2>7. /\ IsList(waiters', next, Tail(wq)) /\ Len(Tail(wq)) = Len(wq) - 1
        /\ ToSet(Tail(wq)) = Waiting \ {w}
    BY <1>6, <1>8, <1>10, <2>1, <2>6, PopList
  <2> DEFINE v == Tail(wq)
  <2>8. IsList(waiters', next, v) /\ Len(v) = Len(wq) - 1 /\ ToSet(v) = Waiting \ {w} BY <2>7, Zenon
  <2> HIDE DEF v
  <2>9. w # t /\ w \notin Ready BY <1>1, <1>2, <2>2, Zenon DEF Waiting, Ready, Positions
  <2>10. UnitsMatchWaiters' BY <1>1, <1>2, <1>7, <1>10, <2>6 DEF UnitsMatchWaiters
  <2>11. CASE state[w] = "RUNNING"
    <3>1. newState' = [newState EXCEPT ![w] = "READY"] /\ UNCHANGED <<next, state, ready, broken>>
      BY <2>5, <2>11, Zenon DEF unblock
    <3>2. newState'[w] = "READY" /\ \A s \in Threads \ {w} : newState'[s] = newState[s]
      BY <1>2, <3>1, Zenon DEF TypeOK
    <3>3. Positions' BY <1>1, <1>2, <1>4, <3>1, <3>2 DEF Positions
    <3>4. \A s \in Threads : s \in Waiting' <=> s \in Waiting /\ s # w
      <4> SUFFICES ASSUME NEW s \in Threads PROVE s \in Waiting' <=> s \in Waiting /\ s # w BY Zenon
      <4>1. CASE s = w BY <1>3, <1>4, <2>9, <2>11, <3>1, <3>2, <4>1, Zenon DEF Waiting
      <4>2. CASE s # w BY <1>1, <1>2, <1>4, <3>1, <3>2, <4>2, Zenon DEF Waiting, Positions
      <4> QED BY <4>1, <4>2, Zenon
    <3>5. Waiting' = Waiting \ {w} /\ Ready' = Ready BY <3>1, <3>4, Zenon DEF Waiting, Ready
    <3>6. /\ IsList(waiters', next', v) /\ ToSet(v) = Waiting' /\ waiters'.len = Len(v)
          /\ IsList(ready', next', rq) /\ ToSet(rq) = Ready'
      BY <1>6, <2>6, <2>8, <3>1, <3>5, Zenon
    <3>7. Lists' BY <3>6, Zenon DEF Lists
    <3> QED BY <1>1, <1>5, <2>10, <3>1, <3>3, <3>7, Zenon DEF SemParts
  <2>12. CASE state[w] = "BLOCKED"
    <3>1. ~NullTail(ready) BY <1>6, ListFacts, Zenon
    <3>2. /\ ready' = append(ready, next, w).list /\ next' = append(ready, next, w).next
          /\ state' = [state EXCEPT ![w] = "READY"] /\ UNCHANGED <<newState, broken>>
      BY <2>5, <2>12, <3>1, Zenon DEF unblock
    <3>3. state'[w] = "READY" /\ \A s \in Threads \ {w} : state'[s] = state[s]
      BY <1>2, <3>2, Zenon DEF TypeOK
    <3>4. pc[w] = "resume" /\ pc'[w] = "resume" BY <1>2, <1>4, <2>9, <2>12, Zenon DEF Positions
    <3>5. Positions' BY <1>1, <1>2, <1>4, <3>2, <3>3, <3>4 DEF Positions
    <3>6. \A s \in Threads : s \in Waiting' <=> s \in Waiting /\ s # w
      <4> SUFFICES ASSUME NEW s \in Threads PROVE s \in Waiting' <=> s \in Waiting /\ s # w BY Zenon
      <4>1. CASE s = w BY <3>3, <3>4, <4>1, Zenon DEF Waiting
      <4>2. CASE s # w BY <1>1, <1>2, <1>4, <3>2, <3>3, <4>2, Zenon DEF Waiting, Positions
      <4> QED BY <4>1, <4>2, Zenon
    <3>7. Waiting' = Waiting \ {w} /\ Ready' = Ready \cup {w} BY <3>3, <3>6, Zenon
      DEF Waiting, Ready
    <3>8. ready \in [head : Links, tail : Links] /\ next \in [Threads -> Links] BY <1>2, Zenon
      DEF TypeOK
    <3>9. ready'.head = (IF ready.head = Null THEN w ELSE ready.head) /\ ready'.tail = w
      <4> DEFINE g == IF ready.head = Null THEN w ELSE ready.head
                 k == [ready EXCEPT !.head = g]
      <4>1. ready' = [k EXCEPT !.tail = w] BY <3>2, Zenon DEF append
      <4>2. k \in [head : Links, tail : Links] /\ k.head = g BY <3>8, Zenon DEF Links
      <4> HIDE DEF k
      <4> QED BY <4>1, <4>2, Zenon
    <3>10. w \notin ToSet(rq) BY <1>6, <2>9, Zenon
    <3>11. /\ IsList(ready', append(ready, next, w).next, Append(rq, w))
           /\ ToSet(Append(rq, w)) = ToSet(rq) \cup {w}
           /\ \A s \in Threads \ ToSet(rq) : s # w => append(ready, next, w).next[s] = next[s]
      BY <1>6, <3>8, <3>9, <3>10, AppendList
    <3> DEFINE u == Append(rq, w)
    <3>13. IsList(ready', next', u) /\ ToSet(u) = Ready' BY <1>6, <3>2, <3>7, <3>11, Zenon
    <3> HIDE DEF u
    <3>14. \A s \in Waiting : s \in Threads /\ s \notin Ready BY <1>2, Zenon
      DEF Waiting, Ready, Positions
    <3>15. \A s \in ToSet(v) : next'[s] = next[s]
      <4> SUFFICES ASSUME NEW s \in ToSet(v) PROVE next'[s] = next[s] BY Zenon
      <4>1. s \in Waiting /\ s # w BY <2>8, Zenon
      <4>2. s \in Threads \ ToSet(rq) BY <1>6, <3>14, <4>1, Zenon
      <4> QED BY <3>2, <3>11, <4>1, <4>2, Zenon
    <3>17. IsList(waiters', next', v) BY <2>8, <3>15, SameList, Zenon
    <3>18. ToSet(v) = Waiting' /\ waiters'.len = Len(v) BY <1>6, <2>6, <2>8, <3>7, Zenon
    <3>19. Lists' BY <3>13, <3>17, <3>18, Zenon DEF Lists
    <3> QED BY <1>1, <1>5, <2>10, <3>2, <3>5, <3>19, Zenon DEF SemParts
  <2>13. state[w] \in {"RUNNING", "BLOCKED"} BY <1>2, <2>9, Zenon DEF Ready, TypeOK
  <2> QED BY <2>11, <2>12, <2>13, Zenon
<1> QED BY <1>9, <1>10, Zenon

(* Every step without signals keeps the invariant of the semaphore. *)
LEMMA SemStep ==
  ASSUME SemInv, AllowSigs = {FALSE},
         \/ \E t \in Threads : \/ KernelStep(t) \/ down(t) \/ tryDown(t)
                               \/ release(t) \/ preempt(t)
         \/ performIdle \/ UNCHANGED vars
  PROVE  SemInv'
<1>1. [Next]_vars BY Zenon DEF Next
<1>2. TypeOK /\ UnitsConserved /\ StoreFresh BY Zenon DEF SemInv, Positions, StoreFresh
<1>3. TypeOK' /\ UnitsConserved' BY <1>1, <1>2, NextTypes, NextUnits, Zenon
<1>4. SemParts'
  <2>1. CASE UNCHANGED vars
    <3>1. UNCHANGED <<value, waiters, ready, state, newState, lck, next, sigmask, pc, broken>>
      BY <2>1, Zenon DEF vars, semVars, schedVars
    <3>2. Waiting' = Waiting /\ Ready' = Ready BY <3>1, Zenon DEF Waiting, Ready
    <3>3. Lists' BY <3>1, <3>2, Zenon DEF SemInv, Lists
    <3>4. Positions' /\ LckHeld' BY <3>1, Zenon DEF SemInv, Positions, LckHeld
    <3>5. UnitsMatchWaiters' /\ ~broken' BY <3>1, Zenon DEF SemInv, UnitsMatchWaiters
    <3> QED BY <3>3, <3>4, <3>5, Zenon DEF SemParts
  <2>2. CASE performIdle BY <2>2, IdleStep, Zenon
  <2>3. ASSUME NEW t \in Threads,
               KernelStep(t) \/ down(t) \/ tryDown(t) \/ release(t) \/ preempt(t)
        PROVE  SemParts'
    <3>1. pc[t] \notin {"switch", "woken", "remove", "walk", "unlink", "giveup", "store", "wakeup",
                       "guard"}
      BY Zenon DEF SemInv, Positions
    <3>2. /\ ~(switchAway(t) \/ checkSignal(t) \/ removeWaiter(t) \/ visitItem(t) \/ endWalk(t))
          /\ ~(unlink(t) \/ giveUp(t) \/ storeValue(t) \/ wakeupFirst(t) \/ returnFalse(t))
      BY <3>1, Zenon DEF switchAway, checkSignal, removeWaiter, visitItem, endWalk, unlink, giveUp,
                  storeValue, wakeupFirst, returnFalse
    <3>3. \/ block(t) \/ unlock(t) \/ setIgnSigs(t) \/ clearIgnSigs(t) \/ relock(t)
          \/ preempt(t) \/ switchIgnSigs(t) \/ down(t) \/ tryDown(t) \/ release(t)
      BY <2>3, <3>2, Zenon DEF KernelStep
    <3> QED BY <3>3, MoveStep, PerformStep, DownStep, ReleaseStep, Zenon
  <2> QED BY <2>1, <2>2, <2>3, Zenon
<1> QED BY <1>3, <1>4, Zenon DEF SemInv, SemParts

(* No more threads than there are units have acquired the semaphore: they  *)
(* and the waiters have all decremented the value.                         *)
LEMMA UnitsShared == SemInv => AcquiredMeansUnit
<1> SUFFICES ASSUME SemInv PROVE AcquiredMeansUnit BY Zenon
<1> DEFINE I == {t \in Threads : pc[t] = "in"}
<1>1. PICK wq : IsList(waiters, next, wq) /\ ToSet(wq) = Waiting /\ waiters.len = Len(wq)
  BY Zenon DEF SemInv, Lists
<1>2. IsFiniteSet(Counted) /\ IsFiniteSet(I) /\ IsFiniteSet(Waiting)
  BY SemAssumption, FS_Subset, Zenon DEF Counted, Waiting
<1>3. Cardinality(Waiting) = waiters.len
  <2>1. /\ Len(wq) \in Nat /\ DOMAIN wq = 1..Len(wq)
        /\ \A i, j \in 1..Len(wq) : wq[i] = wq[j] => i = j
        /\ ToSet(wq) = {wq[i] : i \in 1..Len(wq)}
    BY <1>1, ListFacts
  <2> DEFINE n == Len(wq)
  <2>2. wq \in [1..n -> Waiting]
    <3>1. wq \in Seq(Threads) BY <1>1, Zenon DEF IsList
    <3>2. wq \in [1..n -> Threads] BY <2>1, <3>1
    <3>3. \A i \in 1..n : wq[i] \in Waiting BY <1>1, <2>1, Zenon
    <3> QED BY ONLY <3>2, <3>3, Zenon
  <2>3. wq \in Bijection(1..n, Waiting)
    BY <1>1, <2>1, <2>2, Zenon DEF Bijection, Injection, Surjection, IsInjective
  <2>4. ExistsBijection(1..n, Waiting) BY <2>3, Zenon DEF ExistsBijection
  <2>5. IsFiniteSet(1..n) /\ Cardinality(1..n) = n BY <2>1, FS_Interval
  <2> HIDE DEF n
  <2>6. Cardinality(Waiting) = n BY <2>4, <2>5, FS_Bijection, Zenon
  <2> QED BY <1>1, <2>6, Zenon DEF n
<1>4. I \cap Waiting = {} /\ I \cup Waiting \subseteq Counted
  BY Zenon DEF SemInv, Positions, Waiting, Counted
<1> HIDE DEF I
<1>5. Cardinality(I \cup Waiting) = Cardinality(I) + Cardinality(Waiting)
  <2>1. Cardinality(I \cup Waiting) = Cardinality(I) + Cardinality(Waiting) - Cardinality(I \cap Waiting)
    BY <1>2, FS_Union, Zenon
  <2>2. Cardinality(I \cap Waiting) = 0 BY <1>4, FS_EmptySet, Zenon
  <2>3. Cardinality(I) \in Nat /\ Cardinality(Waiting) \in Nat BY <1>2, FS_CardinalityType, Zenon
  <2> QED BY <2>1, <2>2, <2>3
<1>6. Cardinality(I \cup Waiting) <= Cardinality(Counted) BY <1>2, <1>4, FS_Subset, Zenon
<1>7. Cardinality(I) \in Nat /\ Cardinality(Waiting) \in Nat /\ Cardinality(Counted) \in Nat
  BY <1>2, FS_CardinalityType, Zenon
<1>8. value = InitValue - Cardinality(Counted) /\ value \in Int /\ InitValue \in Nat
  BY SemAssumption, Zenon DEF SemInv, UnitsConserved, Counted, TypeOK
<1>9. waiters.len = IF value < 0 THEN -value ELSE 0 BY Zenon DEF SemInv, UnitsMatchWaiters
<1>10. Cardinality(I) <= InitValue BY <1>3, <1>5, <1>6, <1>7, <1>8, <1>9
<1> QED BY <1>10, Zenon DEF AcquiredMeansUnit, I

(* The two lists are what ListsIntact says. *)
LEMMA ListsAreIntact == SemInv => ListsIntact
<1> SUFFICES ASSUME SemInv PROVE ListsIntact BY Zenon
<1>1. ASSUME NEW l, NEW q, IsList(l, next, q)
      PROVE  /\ q \in Walks /\ IsWalk(l, next, q) /\ IsInjective(q)
             /\ q # <<>> => Last(q) = l.tail /\ next[l.tail] = Null
  <2> DEFINE n == Len(q)
             c == Cardinality(Threads)
  <2>1. /\ n \in Nat /\ DOMAIN q = 1..n /\ (q = <<>> <=> n = 0)
        /\ \A i \in 1..n : q[i] \in Threads
        /\ \A i, j \in 1..n : q[i] = q[j] => i = j
        /\ q # <<>> => l.head = q[1] /\ l.tail = q[n]
    BY <1>1, ListFacts
  <2>2. q \in [1..n -> Threads] BY <1>1, <2>1 DEF IsList
  <2>3. IsFiniteSet(1..n) /\ Cardinality(1..n) = n
    <3>1. n \in Nat BY <2>1, Zenon
    <3> HIDE DEF n
    <3> QED BY ONLY <3>1, FS_Interval
  <2>4. q \in Injection(1..n, Threads) BY <2>1, <2>2, Zenon DEF Injection, IsInjective
  <2>5. n <= c /\ c \in Nat BY <2>3, <2>4, SemAssumption, FS_Injection, FS_CardinalityType
  <2>6. \A i \in 1..n : next[q[i]] = IF i = n THEN Null ELSE q[i + 1] BY <1>1, Zenon DEF IsList
  <2>7. l.head = (IF q = <<>> THEN Null ELSE q[1]) /\ IsInjective(q) BY <1>1, Zenon DEF IsList
  <2>8. Last(q) = q[n] BY Zenon DEF Last
  <2> HIDE DEF n, c
  <2>9. n \in 0..c BY <2>1, <2>5
  <2>10. q \in Walks BY <2>2, <2>9, Zenon DEF Walks, BoundedSeq, c
  <2>11. q # <<>> => n \in 1..n BY <2>1
  <2>12. q # <<>> => next[Last(q)] = Null BY <2>6, <2>8, <2>11, Zenon
  <2>13. \A i \in 1..n - 1 : next[q[i]] = q[i + 1]
    <3> SUFFICES ASSUME NEW i \in 1..n - 1 PROVE next[q[i]] = q[i + 1] BY Zenon
    <3>1. i \in 1..n /\ i # n BY <2>1
    <3> QED BY <2>6, <3>1, Zenon
  <2>14. IsWalk(l, next, q) BY <2>7, <2>12, <2>13, Zenon DEF IsWalk, n
  <2> QED BY <2>1, <2>7, <2>8, <2>10, <2>12, <2>14, Zenon
<1>2. PICK wq, rq :
        /\ IsList(waiters, next, wq) /\ ToSet(wq) = Waiting /\ waiters.len = Len(wq)
        /\ IsList(ready, next, rq) /\ ToSet(rq) = Ready
  BY Zenon DEF SemInv, Lists
<1>3. /\ wq \in Walks /\ IsWalk(waiters, next, wq)
      /\ Len(wq) = waiters.len /\ ToSet(wq) = Waiting /\ IsInjective(wq)
      /\ wq # <<>> => Last(wq) = waiters.tail /\ next[waiters.tail] = Null
  BY <1>1, <1>2, Zenon
<1>4. /\ rq \in Walks /\ IsWalk(ready, next, rq)
      /\ ToSet(rq) = {t \in Threads : state[t] = "READY"} /\ IsInjective(rq)
      /\ rq # <<>> => Last(rq) = ready.tail /\ next[ready.tail] = Null
  BY <1>1, <1>2, Zenon DEF Ready
<1> QED BY <1>3, <1>4, Zenon DEF ListsIntact

-----------------------------------------------------------------------------
(* Initially the waiter list is empty and every thread is ready. *)
LEMMA InitSem == Init => SemInv
<1> SUFFICES ASSUME Init PROVE SemInv BY Zenon
<1>1. PICK q \in Injection(1 .. Cardinality(Threads), Threads) :
        /\ ready = [head |-> Head(q), tail |-> Last(q)]
        /\ next = [t \in Threads |->
                     LET i == CHOOSE j \in DOMAIN q : q[j] = t
                     IN  IF i = Len(q) THEN Null ELSE q[i + 1]]
  BY Zenon DEF Init
<1>2. /\ q \in Seq(Threads) /\ Len(q) \in Nat \ {0} /\ IsInjective(q)
      /\ \A t \in Threads : \E i \in 1..Len(q) : q[i] = t
  BY StartQueue, Zenon
<1>3. /\ waiters.head = Null /\ waiters.tail = Null /\ waiters.len = 0
      /\ \A t \in Threads : /\ state[t] = "READY" /\ newState[t] = "READY"
                            /\ pc[t] = "out" /\ ~sigmask[t]
      /\ value = InitValue /\ ~broken
  BY Zenon DEF Init
<1>4. \A i \in 1..Len(q) : next[q[i]] = IF i = Len(q) THEN Null ELSE q[i + 1]
  <2> SUFFICES ASSUME NEW i \in 1..Len(q)
               PROVE  next[q[i]] = IF i = Len(q) THEN Null ELSE q[i + 1]
    BY Zenon
  <2> DEFINE k == CHOOSE j \in DOMAIN q : q[j] = q[i]
  <2>1. DOMAIN q = 1..Len(q) /\ q[i] \in Threads BY <1>2
  <2>2. k \in DOMAIN q /\ q[k] = q[i] BY <2>1, Zenon
  <2>3. k = i BY <1>2, <2>1, <2>2, Zenon DEF IsInjective
  <2>4. next[q[i]] = IF k = Len(q) THEN Null ELSE q[k + 1] BY <1>1, <2>1, Zenon
  <2> HIDE DEF k
  <2> QED BY <2>3, <2>4, Zenon
<1>5. IsList(ready, next, q)
  <2>1. q # <<>> /\ Head(q) = q[1] /\ Last(q) = q[Len(q)] BY <1>2 DEF Last
  <2>2. ready.head = q[1] /\ ready.tail = q[Len(q)] BY <1>1, <2>1, Zenon
  <2> QED BY <1>2, <1>4, <2>1, <2>2, Zenon DEF IsList
<1>6. ToSet(q) = Ready
  <2>1. DOMAIN q = 1..Len(q) /\ \A i \in 1..Len(q) : q[i] \in Threads BY <1>2
  <2>2. Ready = Threads BY <1>3, Zenon DEF Ready
  <2>3. ToSet(q) = {q[i] : i \in 1..Len(q)} BY <2>1, Zenon DEF ToSet
  <2> QED BY <1>2, <2>1, <2>2, <2>3, Zenon
<1>7. IsList(waiters, next, <<>>) /\ ToSet(<<>>) = Waiting /\ waiters.len = Len(<<>>)
  <2>1. IsInjective(<<>>) /\ ToSet(<<>>) = {} BY DEF IsInjective, ToSet
  <2>2. Waiting = {} BY <1>3, Zenon DEF Waiting
  <2>3. IsList(waiters, next, <<>>) BY <1>3, <2>1 DEF IsList
  <2> QED BY <1>3, <2>1, <2>2, <2>3, Zenon
<1>8. Lists BY <1>5, <1>6, <1>7, Zenon DEF Lists
<1>9. Positions /\ LckHeld BY <1>3, Zenon DEF Positions, LckHeld
<1>10. UnitsMatchWaiters BY <1>3, SemAssumption DEF UnitsMatchWaiters
<1>11. UnitsConserved
  <2>1. {t \in Threads : pc[t] \notin {"out", "wakeup", "guard"}} = {} BY <1>3, Zenon
  <2>2. Cardinality({t \in Threads : pc[t] \notin {"out", "wakeup", "guard"}}) = 0
    BY ONLY <2>1, FS_EmptySet, Zenon
  <2>3. value = InitValue - 0 BY <1>3, SemAssumption
  <2> QED BY ONLY <2>2, <2>3, Zenon DEF UnitsConserved
<1> QED BY <1>3, <1>8, <1>9, <1>10, <1>11, InitTypes, Zenon DEF SemInv

(* A thread that has just acquired the semaphore finds the mutex free. *)
LEMMA MutexFree == MutexInv => MutexAssert
<1> SUFFICES ASSUME MutexInv, NEW t \in Threads, Acquired(t) PROVE holder = Null /\ depth = 0
  BY Zenon DEF MutexAssert
<1>1. Cardinality({s \in Threads : pc[s] = "in"}) <= 1
  BY UnitsShared, MutexAssumption, Zenon DEF MutexInv, AcquiredMeansUnit
<1>2. CASE holder # Null
  <2> DEFINE I == {s \in Threads : pc[s] = "in"}
  <2>1. holder \in I /\ t \in I /\ holder # t
    BY <1>2, Zenon DEF MutexInv, MutexTypeOK, HolderIn, Acquired
  <2>2. {holder, t} \subseteq I BY <2>1, Zenon
  <2>3. IsFiniteSet(I) BY SemAssumption, FS_Subset, Zenon
  <2> HIDE DEF I
  <2>4. IsFiniteSet({t}) /\ Cardinality({t}) = 1 BY ONLY FS_Singleton, Zenon
  <2>5. holder \notin {t} BY <2>1, Zenon
  <2>6. Cardinality({t} \cup {holder}) = Cardinality({t}) + 1 BY ONLY <2>4, <2>5, FS_AddElement, Zenon
  <2>7. {t} \cup {holder} \in SUBSET I BY <2>1, Zenon
  <2>8. Cardinality({t} \cup {holder}) <= Cardinality(I) BY ONLY <2>3, <2>7, FS_Subset, Zenon
  <2>9. Cardinality(I) \in Nat BY ONLY <2>3, FS_CardinalityType, Zenon
  <2> QED BY <1>1, <2>4, <2>6, <2>8, <2>9 DEF I
<1>3. CASE holder = Null BY <1>3, Zenon DEF MutexInv, HolderIn
<1> QED BY <1>2, <1>3, Zenon

(* Every step of the mutex keeps the invariant. *)
LEMMA MutexStepInv == MutexInv /\ [MutexNext]_allVars => MutexInv'
<1> SUFFICES ASSUME MutexInv, [MutexNext]_allVars PROVE MutexInv' BY Zenon
<1> USE DEF mutexVars
<1>1. /\ SemInv /\ TypeOK /\ HolderIn /\ holder \in Threads \cup {Null} /\ depth \in 0..MaxDepth
      /\ leaving \subseteq Threads /\ AllowSigs = {FALSE} /\ MaxDepth \in Nat \ {0}
  BY MutexAssumption, Zenon DEF MutexInv, MutexTypeOK
<1>2. ASSUME SemInv', HolderIn', holder' \in Threads \cup {Null}, depth' \in 0..MaxDepth,
             leaving' \subseteq Threads
      PROVE  MutexInv'
  <2>1. TypeOK' BY <1>2, Zenon DEF SemInv
  <2> QED BY <1>2, <2>1, Zenon DEF MutexInv, MutexTypeOK
<1>3. ASSUME SemInv', UNCHANGED mutexVars, \A s \in Threads : pc[s] = "in" => pc'[s] = "in"
      PROVE  MutexInv'
  <2>1. HolderIn' BY <1>1, <1>3, Zenon DEF HolderIn
  <2> QED BY <1>1, <1>2, <1>3, <2>1, Zenon
<1>4. ASSUME UNCHANGED vars PROVE SemInv' /\ pc' = pc BY <1>1, <1>4, SemStep, Zenon DEF vars
<1>5. ASSUME NEW t \in Threads, NEW p, Goto(t, p), pc[t] # "in"
      PROVE  \A s \in Threads : pc[s] = "in" => pc'[s] = "in"
  BY <1>1, <1>5, Zenon DEF Goto, TypeOK
<1>6. CASE UNCHANGED allVars
  <2>1. UNCHANGED vars /\ UNCHANGED mutexVars BY <1>6, Zenon DEF allVars
  <2> QED BY <1>3, <1>4, <2>1, Zenon
<1>7. ASSUME NEW t \in Threads, mutexDown(t) \/ mutexTryDown(t) PROVE MutexInv'
  <2>1. (down(t) \/ tryDown(t)) /\ UNCHANGED mutexVars BY <1>7, Zenon DEF mutexDown, mutexTryDown
  <2>2. PICK p : Goto(t, p) BY <2>1, Zenon DEF down, tryDown
  <2>3. pc[t] # "in" BY <2>1, Zenon DEF down, tryDown
  <2>4. SemInv' BY <1>1, <2>1, SemStep, Zenon
  <2> QED BY <1>3, <1>5, <2>1, <2>2, <2>3, <2>4, Zenon
<1>8. ASSUME NEW t \in Threads, KernelStep(t), UNCHANGED mutexVars PROVE MutexInv'
  <2>1. SemInv' BY <1>1, <1>8, SemStep, Zenon
  <2>2. CASE visitItem(t)
    <3>1. pc' = pc BY <2>2, Zenon DEF visitItem
    <3> QED BY <1>3, <1>8, <2>1, <3>1, Zenon
  <2>3. CASE ~visitItem(t)
    <3>1. PICK p : Goto(t, p)
      BY <1>8, <2>3, Zenon DEF KernelStep, block, unlock, switchAway, checkSignal, setIgnSigs,
                  switchIgnSigs, clearIgnSigs, relock, removeWaiter, endWalk, unlink, giveUp,
                  storeValue, wakeupFirst, returnFalse, perform
    <3>2. pc[t] # "in"
      BY <1>8, <2>3, Zenon DEF KernelStep, block, unlock, switchAway, checkSignal, setIgnSigs,
                  switchIgnSigs, clearIgnSigs, relock, removeWaiter, endWalk, unlink, giveUp,
                  storeValue, wakeupFirst, returnFalse
    <3> QED BY <1>3, <1>5, <1>8, <2>1, <3>1, <3>2, Zenon
  <2> QED BY <2>2, <2>3, Zenon
<1>9. ASSUME NEW t \in Threads, preempt(t), UNCHANGED mutexVars PROVE MutexInv'
  <2>1. SemInv' BY <1>1, <1>9, SemStep, Zenon
  <2>2. pc' = pc BY <1>1, <1>9, Zenon DEF preempt, perform, Goto, TypeOK
  <2> QED BY <1>3, <1>9, <2>1, <2>2, Zenon
<1>10. CASE performIdle /\ UNCHANGED mutexVars
  <2>1. SemInv' BY <1>1, <1>10, SemStep, Zenon
  <2>2. pc' = pc BY <1>10, Zenon DEF performIdle
  <2> QED BY <1>3, <1>10, <2>1, <2>2, Zenon
<1>11. ASSUME NEW t \in Threads, own(t) PROVE MutexInv'
  <2>1. /\ Acquired(t) /\ holder' = t /\ depth' = depth + 1 /\ UNCHANGED vars /\ leaving' = leaving
    BY <1>11, Zenon DEF own
  <2>2. depth = 0 BY <2>1, MutexFree, Zenon DEF MutexAssert
  <2>3. SemInv' /\ pc' = pc BY <1>4, <2>1, Zenon
  <2>4. pc[t] = "in" /\ t \notin leaving /\ t # Null BY <2>1, SemAssumption, Zenon DEF Acquired
  <2>5. HolderIn' BY <1>1, <2>1, <2>2, <2>3, <2>4 DEF HolderIn
  <2> QED BY <1>1, <1>2, <2>1, <2>2, <2>3, <2>5
<1>12. ASSUME NEW t \in Threads, downAgain(t) \/ upAgain(t) PROVE MutexInv'
  <2>1. /\ UNCHANGED vars /\ UNCHANGED <<holder, leaving>> /\ holder = t
        /\ depth' \in 1..MaxDepth
    BY <1>1, <1>12 DEF downAgain, upAgain
  <2>2. SemInv' /\ pc' = pc BY <1>4, <2>1, Zenon
  <2>3. holder # Null BY <2>1, SemAssumption, Zenon
  <2>4. HolderIn' BY <1>1, <2>1, <2>2, <2>3 DEF HolderIn
  <2> QED BY <1>1, <1>2, <2>1, <2>2, <2>4
<1>13. ASSUME NEW t \in Threads, disown(t) PROVE MutexInv'
  <2>1. /\ UNCHANGED vars /\ holder = t /\ holder' = Null /\ depth' = 0
        /\ leaving' = leaving \cup {t}
    BY <1>13, Zenon DEF disown
  <2>2. SemInv' /\ pc' = pc BY <1>4, <2>1, Zenon
  <2>3. holder # Null BY <2>1, SemAssumption, Zenon
  <2>4. HolderIn' BY <1>1, <2>1, <2>2, <2>3, Zenon DEF HolderIn
  <2> QED BY <1>1, <1>2, <2>1, <2>2, <2>4
<1>14. ASSUME NEW t \in Threads, mutexRelease(t) PROVE MutexInv'
  <2>1. t \in leaving /\ release(t) /\ leaving' = leaving \ {t} /\ UNCHANGED <<holder, depth>>
    BY <1>14, Zenon DEF mutexRelease
  <2>2. SemInv' BY <1>1, <2>1, SemStep, Zenon
  <2>3. \A s \in Threads \ {t} : pc'[s] = pc[s] BY <1>1, <2>1, Zenon DEF release, Goto, TypeOK
  <2>4. HolderIn' BY <1>1, <2>1, <2>3, Zenon DEF HolderIn
  <2> QED BY <1>1, <1>2, <2>1, <2>2, <2>4, Zenon
<1> QED BY <1>6, <1>7, <1>8, <1>9, <1>10, <1>11, <1>12, <1>13, <1>14, Zenon
  DEF MutexNext, Call, MutexStep

(* The invariant of the mutex. *)
LEMMA MutexInvariant == MutexSpec => []MutexInv
<1>1. MutexInit => MutexInv
  <2> SUFFICES ASSUME MutexInit PROVE MutexInv BY Zenon
  <2>1. SemInv /\ TypeOK BY InitSem, Zenon DEF MutexInit, SemInv
  <2>2. holder = Null /\ depth = 0 /\ leaving = {} BY Zenon DEF MutexInit
  <2>3. depth \in 0..MaxDepth BY <2>2, MutexAssumption
  <2> QED BY <2>1, <2>2, <2>3, Zenon DEF MutexInv, MutexTypeOK, HolderIn
<1> QED BY <1>1, MutexStepInv, PTL DEF MutexSpec

(***************************************************************************)
(* Mutex::depth never gets below 0 nor above the deepest nesting, and      *)
(* holder is a thread or INVALID, for any number of threads and CPUs.      *)
(***************************************************************************)
THEOREM MutexTypes == MutexSpec => []MutexTypeOK
<1>1. MutexInv => MutexTypeOK BY Zenon DEF MutexInv
<1> QED BY <1>1, MutexInvariant, PTL

(***************************************************************************)
(* The waiter list of a semaphore and the ready queue share the links of   *)
(* the threads and never damage each other, as long as no signal is sent.  *)
(***************************************************************************)
THEOREM ListsStayIntact == MutexSpec => []ListsIntact
<1>1. MutexInv => ListsIntact BY ListsAreIntact, Zenon DEF MutexInv
<1> QED BY <1>1, MutexInvariant, PTL

(***************************************************************************)
(* A negative value is the number of waiters: no waiter is forgotten by    *)
(* up() and none sleeps while there is a unit, as long as no signal is     *)
(* sent.                                                                   *)
(***************************************************************************)
THEOREM UnitsAndWaiters == MutexSpec => []UnitsMatchWaiters
<1>1. MutexInv => UnitsMatchWaiters BY Zenon DEF MutexInv, SemInv
<1> QED BY <1>1, MutexInvariant, PTL

(***************************************************************************)
(* Only as many threads as there are units have come back from down()      *)
(* before they call up().                                                  *)
(***************************************************************************)
THEOREM AcquiredHaveUnits == MutexSpec => []AcquiredMeansUnit
<1>1. MutexInv => AcquiredMeansUnit BY UnitsShared, Zenon DEF MutexInv
<1> QED BY <1>1, MutexInvariant, PTL

(***************************************************************************)
(* The assertion in Mutex::down holds: whoever comes back from the         *)
(* semaphore finds the mutex without a holder and with the depth 0.        *)
(***************************************************************************)
THEOREM MutexAsserted == MutexSpec => []MutexAssert
BY MutexInvariant, MutexFree, PTL
=============================================================================
