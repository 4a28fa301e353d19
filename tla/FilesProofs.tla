---------------------------- MODULE FilesProofs -----------------------------
(***************************************************************************)
(* The counts of open files, for any number of processes, threads, files   *)
(* and descriptors: the references of a file are its descriptors and its   *)
(* regions, and no file is freed while a descriptor, a region or a thread  *)
(* still needs it, as long as no thread has lost the last reference to its *)
(* file, or its descriptor, to another one.                                *)
(***************************************************************************)
EXTENDS Files, FiniteSetTheorems, TLAPS

Owners == {"opened", "openFailed"}
Users == {"release", "truncate", "unassoc", "close", "map"}
Counted == {"opened", "openFailed", "close"}

Sizes == CHOOSE S \in SUBSET (1..MaxFds) : TableSizes(S)

Num(b) == IF b THEN 1 ELSE 0
Ref(p, i, f) == i \in DOMAIN fds[p] /\ fds[p][i] = f

(* A process has a table until it exits, and regions while it exists. *)
Without == {"none", "unmapping"}
Tables ==
  \A p \in Procs : IF proc[p] \in Without THEN fds[p] = <<>> ELSE Len(fds[p]) \in Sizes
Sited == \A p \in Procs : proc[p] = "none" => regtree[p] = NoRegions

(* A process that exits has one thread left, which destroys the table. *)
Living ==
  /\ \A t \in Threads : pc[t] # "none" => proc[ProcOf[t]] # "none"
  /\ \A t \in Threads : pc[t] = "exit" => proc[ProcOf[t]] \in {"exiting", "unmapping"}
  /\ \A t \in Threads : pc[t] \notin {"none", "exit"} => proc[ProcOf[t]] # "unmapping"
  /\ \A s, t \in Threads :
       /\ ProcOf[s] = ProcOf[t] /\ proc[ProcOf[t]] \in {"exiting", "unmapping"}
       /\ pc[s] # "none" /\ pc[t] # "none"
       => s = t

(* Where a thread has a file, and the descriptor that it closes. *)
Holding ==
  /\ \A t \in Threads : has[t] # Null <=> pc[t] \in Owners \cup Users
  /\ \A t \in Threads : pc[t] = "unassoc" => slot[t] \in DOMAIN fds[ProcOf[t]]

(***************************************************************************)
(* The counts of a file.  What open has not yet given a descriptor belongs *)
(* to the thread that opens it, and the usages are at least the threads    *)
(* that use the file: truncate keeps some for ever.                        *)
(***************************************************************************)
FileInv(f) ==
  /\ ~file[f].used =>
       file[f] = Free /\ Descs(f) = {} /\ Regions(f) = {} /\ \A t \in Threads : has[t] # f
  /\ file[f].refs = Cardinality(Descs(f)) + Cardinality(Regions(f))
                    + Cardinality(At(f, Counted))
  /\ file[f].uses >= Cardinality(At(f, Users))
  /\ \A t \in Threads : has[t] = f /\ pc[t] \in Owners =>
       Descs(f) = {} /\ Regions(f) = {} /\ \A s \in Threads : has[s] = f => s = t

Intact ==
  /\ TypeOK /\ Tables /\ Sited /\ Living /\ Holding
  /\ \A f \in FileSlots : FileInv(f)

FilesInv == NothingTorn => Intact

-----------------------------------------------------------------------------
(* What the proofs use of the constants. *)
LEMMA FileFacts ==
  /\ First \in Procs /\ \A t \in Threads : ProcOf[t] \in Procs
  /\ MaxFds \in Nat /\ 1 \in 1..MaxFds
  /\ Null \notin FileSlots
  /\ Sizes \in SUBSET (1..MaxFds) /\ InitFds \in Sizes
  /\ \A n \in Sizes : n = MaxFds \/ 2 * n \in Sizes
<1>1. Sizes \in SUBSET (1..MaxFds) /\ TableSizes(Sizes)
  <2>1. \E S \in SUBSET (1..MaxFds) : TableSizes(S) BY FilesAssumption, Zenon
  <2> QED BY <2>1, Zenon DEF Sizes
<1>2. InitFds \in 1..MaxFds BY <1>1, Zenon DEF TableSizes
<1>3. 1 \in 1..MaxFds BY <1>2, FilesAssumption
<1> QED BY <1>1, <1>3, FilesAssumption, Zenon DEF TableSizes

(* Two sets that differ in one element. *)
LEMMA OneElement ==
  ASSUME NEW S, NEW T, NEW x, IsFiniteSet(S), T \ {x} = S \ {x}
  PROVE  /\ Cardinality(T) \in Nat /\ Cardinality(S) \in Nat
         /\ Cardinality(T) = Cardinality(S) + Num(x \in T) - Num(x \in S)
<1> DEFINE R == S \ {x}
<1>1. IsFiniteSet(R) /\ Cardinality(R) \in Nat /\ Cardinality(S) \in Nat
  BY FS_RemoveElement, FS_CardinalityType, Zenon
<1>2. /\ x \in S => S = R \cup {x}
      /\ x \notin S => S = R
      /\ x \in T => T = R \cup {x}
      /\ x \notin T => T = R
  BY Zenon
<1>3. x \notin R BY Zenon
<1> HIDE DEF R
<1>4. Cardinality(R \cup {x}) = Cardinality(R) + 1 BY ONLY <1>1, <1>3, FS_AddElement, Zenon
<1>5. Cardinality(S) = Cardinality(R) + Num(x \in S)
  <2>1. CASE x \in S BY <1>1, <1>2, <1>4, <2>1, Zenon DEF Num
  <2>2. CASE x \notin S BY <1>1, <1>2, <2>2 DEF Num
  <2> QED BY <2>1, <2>2, Zenon
<1>6. Cardinality(T) = Cardinality(R) + Num(x \in T)
  <2>1. CASE x \in T
    <3>1. T = R \cup {x} BY <1>2, <2>1, Zenon
    <3>2. Cardinality(T) = Cardinality(R) + 1 BY <1>4, <3>1, Zenon
    <3> QED BY <2>1, <3>2, Zenon DEF Num
  <2>2. CASE x \notin T BY <1>1, <1>2, <2>2 DEF Num
  <2> QED BY <2>1, <2>2, Zenon
<1> QED BY <1>1, <1>5, <1>6 DEF Num

(* The sets that are counted are finite. *)
LEMMA Finite ==
  ASSUME NEW f
  PROVE  /\ IsFiniteSet(Descs(f)) /\ Cardinality(Descs(f)) \in Nat
         /\ IsFiniteSet(Regions(f)) /\ Cardinality(Regions(f)) \in Nat
         /\ \A L : IsFiniteSet(At(f, L)) /\ Cardinality(At(f, L)) \in Nat
<1>1. IsFiniteSet(1..MaxFds) BY FileFacts, FS_Interval
<1>2. IsFiniteSet(Procs \X (1..MaxFds)) BY <1>1, FilesAssumption, FS_Product, Zenon
<1>3. IsFiniteSet(Descs(f)) BY <1>2, FS_Subset, Zenon DEF Descs
<1>4. ASSUME NEW L PROVE IsFiniteSet(At(f, L)) BY FilesAssumption, FS_Subset, Zenon DEF At
<1>5. IsFiniteSet(Procs \X Addrs) BY FilesAssumption, FS_Product, Zenon
<1>6. IsFiniteSet(Regions(f)) BY <1>5, FS_Subset, Zenon DEF Regions
<1> QED BY <1>3, <1>4, <1>6, FS_CardinalityType, Zenon

(* A step of one thread changes the threads at a file by that one. *)
LEMMA AtCount ==
  ASSUME NEW t \in Threads, NEW f, NEW L,
         \A s \in Threads \ {t} : pc'[s] = pc[s] /\ has'[s] = has[s]
  PROVE  /\ Cardinality(At(f, L)) \in Nat /\ Cardinality(At(f, L)') \in Nat
         /\ Cardinality(At(f, L)') = Cardinality(At(f, L))
              + Num(has'[t] = f /\ pc'[t] \in L) - Num(has[t] = f /\ pc[t] \in L)
<1>1. IsFiniteSet(At(f, L)) BY Finite, Zenon
<1>2. At(f, L)' \ {t} = At(f, L) \ {t} BY Zenon DEF At
<1>3. /\ t \in At(f, L)' <=> has'[t] = f /\ pc'[t] \in L
      /\ t \in At(f, L) <=> has[t] = f /\ pc[t] \in L
  BY Zenon DEF At
<1>4. /\ Cardinality(At(f, L)') \in Nat /\ Cardinality(At(f, L)) \in Nat
      /\ Cardinality(At(f, L)') = Cardinality(At(f, L))
           + Num(t \in At(f, L)') - Num(t \in At(f, L))
  BY <1>1, <1>2, OneElement, Zenon
<1> QED BY <1>3, <1>4, Zenon DEF Num

(* A step that changes one entry changes the descriptors by that one. *)
LEMMA DescCount ==
  ASSUME NEW p \in Procs, NEW i \in 1..MaxFds, NEW f,
         \A q \in Procs, j \in 1..MaxFds :
           q # p \/ j # i => (Ref(q, j, f)' <=> Ref(q, j, f))
  PROVE  /\ Cardinality(Descs(f)) \in Nat /\ Cardinality(Descs(f)') \in Nat
         /\ Cardinality(Descs(f)') = Cardinality(Descs(f))
              + Num(Ref(p, i, f)') - Num(Ref(p, i, f))
<1>1. IsFiniteSet(Descs(f)) BY Finite, Zenon
<1>2. Descs(f)' \ {<<p, i>>} = Descs(f) \ {<<p, i>>}
  BY DEF Descs, Ref
<1>3. /\ <<p, i>> \in Descs(f)' <=> Ref(p, i, f)'
      /\ <<p, i>> \in Descs(f) <=> Ref(p, i, f)
  BY Zenon DEF Descs, Ref
<1>4. /\ Cardinality(Descs(f)') \in Nat /\ Cardinality(Descs(f)) \in Nat
      /\ Cardinality(Descs(f)') = Cardinality(Descs(f))
           + Num(<<p, i>> \in Descs(f)') - Num(<<p, i>> \in Descs(f))
  BY <1>1, <1>2, OneElement, Zenon
<1> QED BY <1>3, <1>4, Zenon DEF Num

(* A step that changes one region changes the regions of a file by it. *)
LEMMA RegionCount ==
  ASSUME NEW p \in Procs, NEW a \in Addrs, NEW f,
         \A q \in Procs, b \in Addrs :
           q # p \/ b # a => (regtree'[q][b] = f <=> regtree[q][b] = f)
  PROVE  /\ Cardinality(Regions(f)) \in Nat /\ Cardinality(Regions(f)') \in Nat
         /\ Cardinality(Regions(f)') = Cardinality(Regions(f))
              + Num(regtree'[p][a] = f) - Num(regtree[p][a] = f)
<1>1. IsFiniteSet(Regions(f)) BY Finite, Zenon
<1>2. Regions(f)' \ {<<p, a>>} = Regions(f) \ {<<p, a>>}
  BY DEF Regions
<1>3. /\ <<p, a>> \in Regions(f)' <=> regtree'[p][a] = f
      /\ <<p, a>> \in Regions(f) <=> regtree[p][a] = f
  BY Zenon DEF Regions
<1>4. /\ Cardinality(Regions(f)') \in Nat /\ Cardinality(Regions(f)) \in Nat
      /\ Cardinality(Regions(f)') = Cardinality(Regions(f))
           + Num(<<p, a>> \in Regions(f)') - Num(<<p, a>> \in Regions(f))
  BY <1>1, <1>2, OneElement, Zenon
<1> QED BY <1>3, <1>4, Zenon DEF Num

(* Steps that leave the regions alone. *)
LEMMA SameRegions ==
  ASSUME regtree' = regtree
  PROVE  \A f : Regions(f)' = Regions(f) /\ Cardinality(Regions(f)) \in Nat
<1>1. \A f : Regions(f)' = Regions(f) BY Zenon DEF Regions
<1> QED BY <1>1, Finite, Zenon

(* A file that no part of a step touches. *)
Untouched(f) ==
  /\ file'[f] = file[f]
  /\ \A p \in Procs, a \in Addrs : regtree'[p][a] = f <=> regtree[p][a] = f
  /\ \A p \in Procs, i \in 1..MaxFds : Ref(p, i, f)' <=> Ref(p, i, f)
  /\ \A t \in Threads : /\ has'[t] = f <=> has[t] = f
                        /\ has[t] = f => pc'[t] = pc[t]

(* The counts of such a file stay right. *)
LEMMA SameFile ==
  ASSUME NEW f, FileInv(f), Untouched(f)
  PROVE  FileInv(f)'
<1>1. Descs(f)' = Descs(f) BY Zenon DEF Untouched, Descs, Ref
<1>2. At(f, Counted)' = At(f, Counted) /\ At(f, Users)' = At(f, Users)
  BY Zenon DEF Untouched, At
<1>3. Regions(f)' = Regions(f) BY Zenon DEF Untouched, Regions
<1> QED BY <1>1, <1>2, <1>3, Zenon DEF FileInv, Untouched

(***************************************************************************)
(* A step of thread t at file g that changes the entry i of process p.     *)
(***************************************************************************)
OneFile(t, p, i, g) ==
  /\ regtree' = regtree
  /\ \A f \in FileSlots \ {g} : file'[f] = file[f]
  /\ \A s \in Threads \ {t} : pc'[s] = pc[s] /\ has'[s] = has[s]
  /\ {has[t], has'[t]} \subseteq {g, Null}
  /\ \A q \in Procs, j \in 1..MaxFds, f \in FileSlots :
       q # p \/ j # i \/ f # g => (Ref(q, j, f)' <=> Ref(q, j, f))

(* It changes the counts of that file by its own part, and no other file. *)
LEMMA OneFileStep ==
  ASSUME NEW t \in Threads, NEW p \in Procs, NEW i \in 1..MaxFds, NEW g \in FileSlots,
         OneFile(t, p, i, g), \A f \in FileSlots : FileInv(f)
  PROVE  /\ FileInv(g)' => \A f \in FileSlots : FileInv(f)'
         /\ Cardinality(Descs(g)) \in Nat /\ Cardinality(Descs(g)') \in Nat
         /\ Cardinality(Descs(g)') = Cardinality(Descs(g))
              + Num(Ref(p, i, g)') - Num(Ref(p, i, g))
         /\ \A L : /\ Cardinality(At(g, L)) \in Nat /\ Cardinality(At(g, L)') \in Nat
                   /\ Cardinality(At(g, L)') = Cardinality(At(g, L))
                        + Num(has'[t] = g /\ pc'[t] \in L) - Num(has[t] = g /\ pc[t] \in L)
<1>1. ASSUME NEW f \in FileSlots, f # g PROVE FileInv(f)'
  <2>1. Untouched(f)
    <3>1. file'[f] = file[f] BY <1>1, Zenon DEF OneFile
    <3>2. \A q \in Procs, j \in 1..MaxFds : Ref(q, j, f)' <=> Ref(q, j, f)
      BY <1>1, Zenon DEF OneFile
    <3>3. \A s \in Threads : /\ has'[s] = f <=> has[s] = f
                             /\ has[s] = f => pc'[s] = pc[s]
      BY <1>1, FileFacts DEF OneFile
    <3>4. regtree' = regtree BY Zenon DEF OneFile
    <3> QED BY <3>1, <3>2, <3>3, <3>4, Zenon DEF Untouched
  <2> QED BY <2>1, SameFile, Zenon
<1>2. \A q \in Procs, j \in 1..MaxFds : q # p \/ j # i => (Ref(q, j, g)' <=> Ref(q, j, g))
  BY Zenon DEF OneFile
<1>3. \A s \in Threads \ {t} : pc'[s] = pc[s] /\ has'[s] = has[s]
  BY Zenon DEF OneFile
<1>4. /\ Cardinality(Descs(g)) \in Nat /\ Cardinality(Descs(g)') \in Nat
      /\ Cardinality(Descs(g)') = Cardinality(Descs(g))
           + Num(Ref(p, i, g)') - Num(Ref(p, i, g))
  BY <1>2, DescCount, Zenon
<1> QED BY <1>1, <1>3, <1>4, AtCount

(* The set without elements. *)
LEMMA NoElement == Cardinality({}) = 0
BY FS_EmptySet, Zenon

(* A set of one element. *)
LEMMA Singleton ==
  ASSUME NEW x
  PROVE  IsFiniteSet({x}) /\ Cardinality({x}) = 1
BY FS_Singleton, Zenon

(* Sets with at most one element. *)
LEMMA Small ==
  ASSUME NEW S, IsFiniteSet(S)
  PROVE  /\ Cardinality(S) \in Nat
         /\ Cardinality(S) = 0 <=> S = {}
         /\ \A x \in S : Cardinality(S) >= 1 /\ (Cardinality(S) <= 1 => S = {x})
<1>1. Cardinality(S) \in Nat /\ (Cardinality(S) = 0 <=> S = {})
  BY FS_CardinalityType, FS_EmptySet, Zenon
<1>2. ASSUME NEW x \in S, Cardinality(S) <= 1 PROVE S = {x}
  <2>1. Cardinality(S \ {x}) = Cardinality(S) - 1 /\ IsFiniteSet(S \ {x})
    BY FS_RemoveElement, Zenon
  <2>2. Cardinality(S) = 1 BY <1>1, <1>2
  <2>3. Cardinality(S \ {x}) = 0 BY <2>1, <2>2
  <2>4. S \ {x} = {} BY <2>1, <2>3, FS_EmptySet, Zenon
  <2> QED BY <2>4, Zenon
<1> QED BY <1>1, <1>2

(* A file without references: no descriptor, no region, nobody to close it. *)
LEMMA NoReferences ==
  ASSUME NEW f, FileInv(f), file[f].refs = 0
  PROVE  /\ Descs(f) = {} /\ Regions(f) = {}
         /\ \A s \in Threads : has[s] = f => pc[s] \notin Counted
<1>1. IsFiniteSet(Descs(f)) /\ IsFiniteSet(Regions(f)) /\ IsFiniteSet(At(f, Counted))
  BY Finite, Zenon
<1>2. /\ Cardinality(Descs(f)) \in Nat /\ Cardinality(Regions(f)) \in Nat
      /\ Cardinality(At(f, Counted)) \in Nat
  BY Finite, Zenon
<1>3. /\ Cardinality(Descs(f)) = 0 /\ Cardinality(Regions(f)) = 0
      /\ Cardinality(At(f, Counted)) = 0
  BY <1>2 DEF FileInv
<1>4. Descs(f) = {} /\ Regions(f) = {} /\ At(f, Counted) = {} BY <1>1, <1>3, Small, Zenon
<1> QED BY <1>4, Zenon DEF At

(* A file with one usage is used by one thread. *)
LEMMA OnlyUser ==
  ASSUME Intact, NEW t \in Threads, NEW f \in FileSlots, has[t] = f, pc[t] \in Users
  PROVE  /\ file[f].uses \in Nat /\ file[f].uses >= 1
         /\ file[f].uses <= 1 => \A s \in Threads : has[s] = f => s = t
         /\ \A s \in Threads : has[s] = f => pc[s] \in Users
<1> USE FileFacts
<1>0. FileInv(f) /\ file[f].uses \in Nat BY Zenon DEF Intact, TypeOK
<1>1. IsFiniteSet(At(f, Users)) BY Finite, Zenon
<1>2. t \in At(f, Users) BY Zenon DEF At
<1>3. Cardinality(At(f, Users)) \in Nat /\ Cardinality(At(f, Users)) >= 1
  BY <1>1, <1>2, Small, Zenon
<1>4. \A s \in Threads : has[s] = f => pc[s] \in Users
  BY <1>0, Zenon DEF FileInv, Intact, Holding, Owners, Users
<1>5. ASSUME file[f].uses <= 1 PROVE \A s \in Threads : has[s] = f => s = t
  <2>1. Cardinality(At(f, Users)) <= 1 BY <1>0, <1>3, <1>5 DEF FileInv
  <2>2. At(f, Users) = {t} BY <1>1, <1>2, <2>1, Small, Zenon
  <2> QED BY <1>4, <2>2, Zenon DEF At
<1>6. file[f].uses >= 1 BY <1>0, <1>3 DEF FileInv
<1> QED BY <1>0, <1>4, <1>5, <1>6, Zenon

(* A descriptor that refers to a file keeps it. *)
LEMMA Described ==
  ASSUME Intact, NEW p \in Procs, NEW i \in 1..MaxFds, NEW f \in FileSlots, Ref(p, i, f)
  PROVE  /\ file[f].used /\ file[f].refs >= 1 /\ file[f].refs \in Nat
         /\ Cardinality(Descs(f)) \in Nat /\ Cardinality(Descs(f)) >= 1
         /\ \A s \in Threads : has[s] = f => pc[s] \notin Owners
<1>0. FileInv(f) /\ file[f].refs \in Nat BY Zenon DEF Intact, TypeOK
<1>1. <<p, i>> \in Descs(f) BY Zenon DEF Descs, Ref
<1>2. /\ IsFiniteSet(Descs(f)) /\ Cardinality(At(f, Counted)) \in Nat
      /\ Cardinality(Regions(f)) \in Nat
  BY Finite, Zenon
<1>3. Cardinality(Descs(f)) \in Nat /\ Cardinality(Descs(f)) >= 1
  BY <1>1, <1>2, Small, Zenon
<1>4. file[f].refs >= 1 BY <1>0, <1>2, <1>3 DEF FileInv
<1> QED BY <1>0, <1>1, <1>3, <1>4, Zenon DEF FileInv

-----------------------------------------------------------------------------
(* A step of thread t that stays in its process. *)
Moves(t) ==
  /\ proc' = proc
  /\ \A s \in Threads \ {t} : pc'[s] = pc[s] /\ has'[s] = has[s] /\ slot'[s] = slot[s]
  /\ pc[t] # "none" /\ pc'[t] # "none"
  /\ pc'[t] = "exit" => proc[ProcOf[t]] \in {"exiting", "unmapping"}
  /\ pc'[t] # "exit" => pc[t] # "exit" \/ proc[ProcOf[t]] = "exiting"
  /\ has'[t] # Null <=> pc'[t] \in Owners \cup Users
  /\ pc'[t] = "unassoc" => slot'[t] \in DOMAIN fds'[ProcOf[t]]
  /\ \A p \in Procs :
       /\ DOMAIN fds[p] \subseteq DOMAIN fds'[p]
       /\ IF proc[p] \in Without THEN fds'[p] = <<>> ELSE Len(fds'[p]) \in Sizes

(* It keeps what is known of tables, processes and threads. *)
LEMMA MovesStep ==
  ASSUME Intact, NEW t \in Threads, Moves(t)
  PROVE  Tables' /\ Living' /\ Holding'
<1> USE FileFacts
<1>1. Tables' BY Zenon DEF Tables, Moves
<1>2. Living'
  <2>1. Living BY Zenon DEF Intact
  <2>2. /\ proc' = proc
        /\ \A s \in Threads : pc'[s] # "none" => pc[s] # "none"
        /\ \A s \in Threads : pc'[s] = "exit" => proc[ProcOf[s]] \in {"exiting", "unmapping"}
        /\ \A s \in Threads : pc'[s] \notin {"none", "exit"} => proc[ProcOf[s]] # "unmapping"
    BY <2>1, Zenon DEF Living, Moves
  <2> QED BY <2>1, <2>2, Zenon DEF Living
<1>3. Holding' BY Zenon DEF Holding, Moves, Intact
<1> QED BY <1>1, <1>2, <1>3, Zenon

(* The tables have their types and sizes. *)
LEMMA TableTypes ==
  ASSUME Intact, NEW p \in Procs
  PROVE  /\ fds[p] \in Seq(FileSlots \cup {Null}) /\ Len(fds[p]) \in 0..MaxFds
         /\ DOMAIN fds[p] = 1..Len(fds[p]) /\ DOMAIN fds[p] \subseteq 1..MaxFds
         /\ \A i \in DOMAIN fds[p] : fds[p][i] \in FileSlots \cup {Null}
         /\ DOMAIN fds[p] # {} => proc[p] \notin Without /\ Len(fds[p]) \in Sizes
<1>1. fds[p] \in Seq(FileSlots \cup {Null}) /\ Len(fds[p]) <= MaxFds
  BY Zenon DEF Intact, TypeOK
<1>2. Len(fds[p]) \in 0..MaxFds BY <1>1, FileFacts
<1>3. DOMAIN fds[p] # {} => proc[p] \notin Without /\ Len(fds[p]) \in Sizes
  BY <1>1 DEF Intact, Tables
<1>4. DOMAIN fds[p] = 1..Len(fds[p]) BY <1>1
<1>5. DOMAIN fds[p] \subseteq 1..MaxFds BY <1>2, <1>4, FileFacts
<1>6. \A i \in DOMAIN fds[p] : fds[p][i] \in FileSlots \cup {Null} BY <1>1, <1>4
<1> QED BY <1>1, <1>2, <1>3, <1>4, <1>5, <1>6, Zenon

(* An entry of a table is set; no table gets smaller; other entries stay. *)
Set(p, i, v) == fds' = [fds EXCEPT ![p][i] = v]
Sized ==
  \A q \in Procs :
    /\ DOMAIN fds[q] \subseteq DOMAIN fds'[q] /\ Len(fds'[q]) <= MaxFds
    /\ IF proc[q] \in Without THEN fds'[q] = <<>> ELSE Len(fds'[q]) \in Sizes
Others(p, i) ==
  \A q \in Procs, j \in 1..MaxFds, f \in FileSlots :
    q # p \/ j # i => (Ref(q, j, f)' <=> Ref(q, j, f))

(* What setting an entry does to a table. *)
LEMMA SetEntry ==
  ASSUME Intact, NEW p \in Procs, NEW i \in DOMAIN fds[p], NEW v \in FileSlots \cup {Null},
         Set(p, i, v)
  PROVE  /\ fds' \in [Procs -> Seq(FileSlots \cup {Null})]
         /\ Sized /\ Others(p, i)
         /\ \A f : (Ref(p, i, f)' <=> v = f) /\ (Ref(p, i, f) <=> fds[p][i] = f)
<1>1. fds \in [Procs -> Seq(FileSlots \cup {Null})] BY Zenon DEF Intact, TypeOK
<1>2. fds'[p] = [fds[p] EXCEPT ![i] = v] /\ \A q \in Procs \ {p} : fds'[q] = fds[q]
  BY <1>1, Zenon DEF Set
<1>3. /\ fds'[p] \in Seq(FileSlots \cup {Null}) /\ DOMAIN fds'[p] = DOMAIN fds[p]
      /\ Len(fds'[p]) = Len(fds[p])
      /\ fds'[p][i] = v /\ \A j \in DOMAIN fds[p] \ {i} : fds'[p][j] = fds[p][j]
  BY <1>1, <1>2
<1>4. fds' \in [Procs -> Seq(FileSlots \cup {Null})] BY <1>1, <1>2, <1>3, Zenon DEF Set
<1>5. proc[p] \notin Without BY TableTypes, Zenon
<1>6. \A q \in Procs : Len(fds[q]) <= MaxFds BY Zenon DEF Intact, TypeOK
<1>7. Sized
  BY <1>2, <1>3, <1>5, <1>6, Zenon DEF Intact, Tables, Sized
<1>8. Others(p, i) BY <1>2, <1>3, Zenon DEF Ref, Others
<1>9. \A f : (Ref(p, i, f)' <=> v = f) /\ (Ref(p, i, f) <=> fds[p][i] = f)
  BY <1>3, Zenon DEF Ref
<1> QED BY <1>4, <1>7, <1>8, <1>9, Zenon

(* doAssoc gives a file an entry that no file has had. *)
LEMMA DoAssoc ==
  ASSUME Intact, NEW p \in Procs, proc[p] \notin Without, NEW v \in FileSlots, doAssoc(p, v)
  PROVE  /\ fds' \in [Procs -> Seq(FileSlots \cup {Null})] /\ Sized
         /\ \E i \in 1..MaxFds :
              /\ Others(p, i)
              /\ \A f \in FileSlots : (Ref(p, i, f)' <=> v = f) /\ ~Ref(p, i, f)
<1> USE FileFacts
<1>0. /\ \A q \in Procs : fds[q] \in Seq(FileSlots \cup {Null}) /\ Len(fds[q]) <= MaxFds
      /\ \A q \in Procs : DOMAIN fds[q] = 1..Len(fds[q]) /\ DOMAIN fds[q] \subseteq 1..MaxFds
      /\ Tables /\ fds \in [Procs -> Seq(FileSlots \cup {Null})]
  BY TableTypes, Zenon DEF Intact, TypeOK
<1>1. ASSUME NEW i \in DOMAIN fds[p], fds[p][i] = Null, Set(p, i, v)
      PROVE  /\ fds' \in [Procs -> Seq(FileSlots \cup {Null})] /\ Sized
             /\ i \in 1..MaxFds /\ Others(p, i)
             /\ \A f \in FileSlots : (Ref(p, i, f)' <=> v = f) /\ ~Ref(p, i, f)
  <2>1. /\ fds' \in [Procs -> Seq(FileSlots \cup {Null})]
        /\ Sized /\ Others(p, i)
        /\ \A f : (Ref(p, i, f)' <=> v = f) /\ (Ref(p, i, f) <=> fds[p][i] = f)
    BY <1>1, SetEntry, Zenon
  <2>2. i \in 1..MaxFds BY <1>0, Zenon
  <2> QED BY <1>1, <2>1, <2>2
<1>2. CASE /\ \A i \in DOMAIN fds[p] : fds[p][i] # Null
           /\ Len(fds[p]) < MaxFds
           /\ fds' = [fds EXCEPT ![p] =
                        [i \in 1..(2 * Len(fds[p])) |->
                           IF i <= Len(fds[p]) THEN fds[p][i]
                           ELSE IF i = Len(fds[p]) + 1 THEN v ELSE Null]]
  <2>1. PICK n \in Sizes : n = Len(fds[p]) BY <1>0, Zenon DEF Tables
  <2>2. n \in 1..MaxFds /\ 2 * n \in Sizes /\ 2 * n \in 1..MaxFds
    <3>1. n \in 1..MaxFds BY <2>1, Zenon
    <3>2. n # MaxFds BY <1>2, <2>1, <3>1
    <3> QED BY <3>1, <3>2, Zenon
  <2> DEFINE new == [i \in 1..(2 * n) |->
                       IF i <= n THEN fds[p][i] ELSE IF i = n + 1 THEN v ELSE Null]
  <2>3. fds' = [fds EXCEPT ![p] = new] BY <1>2, <2>1, Zenon
  <2>4. \A i \in 1..(2 * n) : new[i] \in FileSlots \cup {Null}
    BY <1>0, <2>1, <2>2
  <2>5. new \in Seq(FileSlots \cup {Null}) /\ Len(new) = 2 * n /\ DOMAIN new = 1..(2 * n)
    <3>1. new \in [1..(2 * n) -> FileSlots \cup {Null}] BY <2>4, Zenon
    <3>2. 2 * n \in Nat BY <2>2
    <3> HIDE DEF new
    <3> QED BY <3>1, <3>2
  <2>6. /\ \A i \in 1..n : new[i] = fds[p][i]
        /\ n + 1 \in 1..(2 * n) /\ new[n + 1] = v
        /\ \A i \in 1..(2 * n) : i > n + 1 => new[i] = Null
    BY <2>2
  <2> HIDE DEF new
  <2>7. fds'[p] = new /\ \A q \in Procs \ {p} : fds'[q] = fds[q] BY <1>0, <2>3, Zenon
  <2>8. fds' \in [Procs -> Seq(FileSlots \cup {Null})] BY <1>0, <2>3, <2>5, Zenon
  <2>9. DOMAIN fds[p] \subseteq DOMAIN fds'[p] BY <1>0, <2>1, <2>2, <2>5, <2>7
  <2>10. Sized
    <3>0. Len(fds'[p]) = 2 * n BY <2>5, <2>7, Zenon
    <3>1. Len(fds'[p]) <= MaxFds /\ Len(fds'[p]) \in Sizes BY ONLY <2>2, <3>0, FileFacts
    <3> SUFFICES ASSUME NEW q \in Procs
                 PROVE  /\ DOMAIN fds[q] \subseteq DOMAIN fds'[q] /\ Len(fds'[q]) <= MaxFds
                        /\ IF proc[q] \in Without THEN fds'[q] = <<>> ELSE Len(fds'[q]) \in Sizes
      BY Zenon DEF Sized
    <3>2. CASE q = p BY <2>9, <3>1, <3>2, Zenon
    <3>3. CASE q # p
      <4>1. fds'[q] = fds[q] BY <2>7, <3>3, Zenon
      <4> QED BY <1>0, <4>1, Zenon DEF Tables
    <3> QED BY <3>2, <3>3, Zenon
  <2>11. Others(p, n + 1)
    <3> SUFFICES ASSUME NEW q \in Procs, NEW j \in 1..MaxFds, NEW f \in FileSlots,
                        q # p \/ j # n + 1
                 PROVE  Ref(q, j, f)' <=> Ref(q, j, f)
      BY Zenon DEF Others
    <3>1. CASE q # p BY <2>7, <3>1, Zenon DEF Ref
    <3>2. CASE q = p /\ j <= n
      BY <1>0, <2>1, <2>2, <2>5, <2>6, <2>7, <3>2 DEF Ref
    <3>3. CASE q = p /\ j > n + 1
      <4>1. ~Ref(p, j, f) BY <1>0, <2>1, <2>2, <3>3 DEF Ref
      <4>2. ~Ref(p, j, f)' BY <2>2, <2>5, <2>6, <2>7, <3>3, Zenon DEF Ref
      <4> QED BY <3>3, <4>1, <4>2, Zenon
    <3> QED BY <2>2, <3>1, <3>2, <3>3
  <2>12. \A f \in FileSlots : (Ref(p, n + 1, f)' <=> v = f) /\ ~Ref(p, n + 1, f)
    BY <1>0, <2>1, <2>2, <2>5, <2>6, <2>7 DEF Ref
  <2>13. n + 1 \in 1..MaxFds BY <2>2
  <2> QED BY <2>8, <2>10, <2>11, <2>12, <2>13, Zenon
<1>3. CASE \E i \in DOMAIN fds[p] : fds[p][i] = Null /\ Set(p, i, v) BY <1>1, <1>3, Zenon
<1>4. (\A i \in DOMAIN fds[p] : fds[p][i] # Null) /\ hasRoom(fds[p]) => Len(fds[p]) < MaxFds
  BY Zenon DEF hasRoom
<1> QED BY <1>2, <1>3, <1>4, Zenon DEF doAssoc, Set

(* A step at one file keeps the invariant if it keeps it for that file. *)
LEMMA StepOf ==
  ASSUME Intact, NEW t \in Threads, NEW p \in Procs, NEW i \in 1..MaxFds,
         NEW g \in FileSlots, Moves(t), OneFile(t, p, i, g), TypeOK', FileInv(g)'
  PROVE  Intact'
<1>1. Tables' /\ Living' /\ Holding' BY MovesStep, Zenon
<1>2. \A f \in FileSlots : FileInv(f)' BY OneFileStep, Zenon DEF Intact
<1>3. Sited' BY Zenon DEF Intact, Sited, Moves, OneFile
<1> QED BY <1>1, <1>2, <1>3, Zenon DEF Intact

-----------------------------------------------------------------------------
(* Steps that leave the descriptors alone. *)
LEMMA SameTables ==
  ASSUME Intact, fds' = fds
  PROVE  /\ fds' \in [Procs -> Seq(FileSlots \cup {Null})] /\ Sized
         /\ \A q, j, f : Ref(q, j, f)' <=> Ref(q, j, f)
         /\ \A f : Descs(f)' = Descs(f)
<1>1. fds' \in [Procs -> Seq(FileSlots \cup {Null})] BY Zenon DEF Intact, TypeOK
<1>2. Sized BY Zenon DEF Intact, TypeOK, Tables, Sized
<1>3. \A q, j, f : Ref(q, j, f)' <=> Ref(q, j, f) BY Zenon DEF Ref
<1>4. \A f : Descs(f)' = Descs(f) BY Zenon DEF Descs
<1> QED BY <1>1, <1>2, <1>3, <1>4, Zenon

(* open takes a slot that nobody knows. *)
LEMMA OpenStep ==
  ASSUME Intact, NEW t \in Threads, open(t)
  PROVE  Intact'
<1> USE FileFacts DEF Goto, Hold
<1>0. TypeOK /\ Tables /\ Living /\ Holding /\ \A f \in FileSlots : FileInv(f) BY Zenon DEF Intact
<1>r. /\ regtree' = regtree
      /\ \A h : Regions(h)' = Regions(h) /\ Cardinality(Regions(h)) \in Nat
  BY SameRegions, Zenon DEF open
<1> USE <1>r
<1>1. PICK g \in FileSlots :
        /\ ~file[g].used
        /\ file' = [file EXCEPT ![g] = [used |-> TRUE, refs |-> 1, uses |-> 0]]
        /\ has' = [has EXCEPT ![t] = g]
        /\ truncated' = truncated \ {g}
  BY Zenon DEF open
<1>2. /\ pc[t] = "user" /\ pc' = [pc EXCEPT ![t] = "opened"]
      /\ proc' = proc /\ fds' = fds /\ slot' = slot /\ torn' = torn
  BY Zenon DEF open, MayCall
<1>3. /\ fds' \in [Procs -> Seq(FileSlots \cup {Null})] /\ Sized
      /\ (\A q, j, f : Ref(q, j, f)' <=> Ref(q, j, f)) /\ \A f : Descs(f)' = Descs(f)
  BY <1>2, SameTables, Zenon
<1>4. /\ pc'[t] = "opened" /\ has'[t] = g /\ has[t] = Null
      /\ \A s \in Threads \ {t} : pc'[s] = pc[s] /\ has'[s] = has[s] /\ slot'[s] = slot[s]
      /\ file'[g] = [used |-> TRUE, refs |-> 1, uses |-> 0]
      /\ \A f \in FileSlots \ {g} : file'[f] = file[f]
  <2>1. has[t] = Null BY <1>0, <1>2, Zenon DEF Holding, Owners, Users
  <2>2. file'[g] = [used |-> TRUE, refs |-> 1, uses |-> 0] BY <1>0, <1>1, Zenon DEF TypeOK
  <2>3. \A f \in FileSlots \ {g} : file'[f] = file[f] BY <1>0, <1>1, Zenon DEF TypeOK
  <2> QED BY <1>0, <1>1, <1>2, <2>1, <2>2, <2>3, Zenon DEF TypeOK
<1>5. TypeOK' BY <1>0, <1>1, <1>2, <1>3, Zenon DEF TypeOK, Sized
<1>6. Moves(t) BY <1>2, <1>3, <1>4, Zenon DEF Moves, Sized, Owners, Users
<1>7. OneFile(t, First, 1, g) BY <1>3, <1>4, Zenon DEF OneFile
<1>8. Descs(g) = {} /\ Regions(g) = {} /\ \A s \in Threads : has[s] # g
  BY <1>0, <1>1, Zenon DEF FileInv
<1>9. Descs(g)' = {} /\ Regions(g)' = {} BY <1>3, <1>8, Zenon
<1>10. At(g, Counted)' = {t} /\ At(g, Users)' = {} BY <1>4, <1>8 DEF At, Counted, Users
<1>11. /\ Cardinality(Descs(g)') = 0 /\ Cardinality(Regions(g)') = 0
       /\ Cardinality(At(g, Counted)') = 1 /\ Cardinality(At(g, Users)') = 0
  <2>1. Cardinality({t}) = 1 BY ONLY Singleton, Zenon
  <2> QED BY <1>9, <1>10, <2>1, NoElement, Zenon
<1>12. FileInv(g)' BY <1>4, <1>8, <1>9, <1>11 DEF FileInv
<1> QED BY <1>5, <1>6, <1>7, <1>12, StepOf, Zenon

(* assoc turns the reference of open into a descriptor. *)
LEMMA AssocStep ==
  ASSUME Intact, NEW t \in Threads, assoc(t)
  PROVE  Intact'
<1> USE FileFacts DEF Goto, Hold
<1>0. TypeOK /\ Tables /\ Living /\ Holding /\ \A f \in FileSlots : FileInv(f) BY Zenon DEF Intact
<1>r. /\ regtree' = regtree
      /\ \A h : Regions(h)' = Regions(h) /\ Cardinality(Regions(h)) \in Nat
  BY SameRegions, Zenon DEF assoc
<1> USE <1>r
<1>1. /\ pc[t] = "opened" /\ proc' = proc /\ file' = file /\ slot' = slot
      /\ truncated' = truncated /\ torn' = torn
  BY Zenon DEF assoc
<1>2. PICK g \in FileSlots : has[t] = g BY <1>0, <1>1, Zenon DEF TypeOK, Holding, Owners, Users
<1>3. /\ Descs(g) = {} /\ \A s \in Threads : has[s] = g => s = t
      /\ file[g].used /\ FileInv(g)
  BY <1>0, <1>1, <1>2, Zenon DEF FileInv, Owners
<1>4. CASE doAssoc(ProcOf[t], has[t]) /\ Hold(t, Null) /\ Goto(t, "user")
  <2>1. PICK p \in Procs : p = ProcOf[t] BY Zenon
  <2>2. proc[p] \notin Without BY <1>0, <1>1, <2>1, Zenon DEF Living, Without
  <2>3. /\ fds' \in [Procs -> Seq(FileSlots \cup {Null})] /\ Sized
        /\ \E i \in 1..MaxFds :
             /\ Others(p, i)
             /\ \A f \in FileSlots : (Ref(p, i, f)' <=> g = f) /\ ~Ref(p, i, f)
    BY <1>2, <1>4, <2>1, <2>2, DoAssoc
  <2>4. PICK i \in 1..MaxFds :
          /\ Others(p, i)
          /\ \A f \in FileSlots : (Ref(p, i, f)' <=> g = f) /\ ~Ref(p, i, f)
    BY <2>3, Zenon
  <2>5. /\ pc'[t] = "user" /\ has'[t] = Null
        /\ \A s \in Threads \ {t} : pc'[s] = pc[s] /\ has'[s] = has[s] /\ slot'[s] = slot[s]
    BY <1>0, <1>1, <1>4, Zenon DEF TypeOK
  <2>6. TypeOK' BY <1>0, <1>1, <1>4, <2>3, Zenon DEF TypeOK, Sized
  <2>7. Moves(t) BY <1>1, <2>3, <2>5, Zenon DEF Moves, Sized, Owners, Users
  <2>8. OneFile(t, p, i, g) BY <1>1, <1>2, <2>4, <2>5, Zenon DEF OneFile, Others
  <2>9. /\ Cardinality(Descs(g)) \in Nat
        /\ Cardinality(Descs(g)') = Cardinality(Descs(g)) + 1
        /\ Cardinality(At(g, Counted)) \in Nat /\ Cardinality(At(g, Users)) \in Nat
        /\ Cardinality(At(g, Counted)') = Cardinality(At(g, Counted)) - 1
        /\ Cardinality(At(g, Users)') = Cardinality(At(g, Users))
    BY <1>0, <1>1, <1>2, <2>4, <2>5, <2>8, OneFileStep DEF Num, Counted, Users
  <2>10. FileInv(g)' BY <1>0, <1>1, <1>3, <2>5, <2>9 DEF FileInv
  <2> QED BY <2>6, <2>7, <2>8, <2>10, StepOf, Zenon
<1>5. CASE Goto(t, "openFailed") /\ UNCHANGED <<fds, has>>
  <2>1. /\ fds' \in [Procs -> Seq(FileSlots \cup {Null})] /\ Sized
        /\ (\A q, j, f : Ref(q, j, f)' <=> Ref(q, j, f)) /\ \A f : Descs(f)' = Descs(f)
    BY <1>5, SameTables, Zenon
  <2>2. /\ pc'[t] = "openFailed" /\ has'[t] = g /\ has' = has
        /\ \A s \in Threads \ {t} : pc'[s] = pc[s] /\ has'[s] = has[s] /\ slot'[s] = slot[s]
    BY <1>0, <1>1, <1>2, <1>5, Zenon DEF TypeOK
  <2>3. TypeOK' BY <1>0, <1>1, <1>5, <2>1, Zenon DEF TypeOK, Sized
  <2>4. Moves(t) BY <1>1, <2>1, <2>2, Zenon DEF Moves, Sized, Owners, Users
  <2>5. OneFile(t, First, 1, g) BY <1>1, <1>2, <2>1, <2>2, Zenon DEF OneFile
  <2>6. Descs(g)' = Descs(g) BY <2>1, Zenon
  <2>7. At(g, Counted)' = At(g, Counted) /\ At(g, Users)' = At(g, Users)
    BY <1>1, <2>2, Zenon DEF At, Counted, Users
  <2>8. FileInv(g)'
    <3>1. file'[g] = file[g] /\ Regions(g)' = Regions(g) BY <1>1, Zenon
    <3>2. \A s \in Threads : has'[s] = g <=> has[s] = g BY <2>2, Zenon
    <3>3. file'[g].refs = Cardinality(Descs(g)') + Cardinality(Regions(g)')
                          + Cardinality(At(g, Counted)')
      BY <1>3, <2>6, <2>7, <3>1, Zenon DEF FileInv
    <3>4. file'[g].uses >= Cardinality(At(g, Users)') BY <1>3, <2>7, <3>1, Zenon DEF FileInv
    <3>5. /\ file'[g].used /\ Descs(g)' = {} /\ Regions(g)' = {}
          /\ \A s \in Threads : has'[s] = g => s = t
      BY <1>1, <1>2, <1>3, <2>6, <3>1, <3>2, Zenon DEF FileInv, Owners
    <3> QED BY <3>3, <3>4, <3>5, Zenon DEF FileInv
  <2> QED BY <2>3, <2>4, <2>5, <2>8, StepOf, Zenon
<1> QED BY <1>4, <1>5, Zenon DEF assoc

(* A file that open gives back has no other user. *)
LEMMA OpenFailedStep ==
  ASSUME Intact, NEW t \in Threads, openFailed(t)
  PROVE  Intact'
<1> USE FileFacts DEF Goto, Hold
<1>0. TypeOK /\ Tables /\ Living /\ Holding /\ \A f \in FileSlots : FileInv(f) BY Zenon DEF Intact
<1>r. /\ regtree' = regtree
      /\ \A h : Regions(h)' = Regions(h) /\ Cardinality(Regions(h)) \in Nat
  BY SameRegions, Zenon DEF openFailed
<1> USE <1>r
<1>1. /\ pc[t] = "openFailed" /\ proc' = proc /\ fds' = fds /\ slot' = slot
      /\ file' = [file EXCEPT ![has[t]] = doClose(@)]
      /\ has' = [has EXCEPT ![t] = Null] /\ pc' = [pc EXCEPT ![t] = "user"]
      /\ truncated' = truncated /\ torn' = torn
  BY Zenon DEF openFailed
<1>2. PICK g \in FileSlots : has[t] = g BY <1>0, <1>1, Zenon DEF TypeOK, Holding, Owners, Users
<1>3. /\ Descs(g) = {} /\ Regions(g) = {} /\ \A s \in Threads : has[s] = g => s = t
      /\ FileInv(g) /\ file[g].used
  BY <1>0, <1>1, <1>2, Zenon DEF FileInv, Owners
<1>4. /\ fds' \in [Procs -> Seq(FileSlots \cup {Null})] /\ Sized
      /\ (\A q, j, f : Ref(q, j, f)' <=> Ref(q, j, f)) /\ \A f : Descs(f)' = Descs(f)
  BY <1>1, SameTables, Zenon
<1>5. /\ pc'[t] = "user" /\ has'[t] = Null
      /\ \A s \in Threads \ {t} : pc'[s] = pc[s] /\ has'[s] = has[s] /\ slot'[s] = slot[s]
      /\ file'[g] = doClose(file[g])
      /\ \A f \in FileSlots \ {g} : file'[f] = file[f]
  BY <1>0, <1>1, <1>2, Zenon DEF TypeOK
<1>6. At(g, Counted) = {t} BY <1>1, <1>2, <1>3, Zenon DEF At, Counted
<1>7. file[g].refs = 1
  <2>1. /\ Cardinality(At(g, Counted)) = 1 /\ Cardinality(Descs(g)) = 0
        /\ Cardinality(Regions(g)) = 0
    <3>1. Cardinality({t}) = 1 BY ONLY Singleton, Zenon
    <3> QED BY <1>3, <1>6, <3>1, NoElement, Zenon
  <2> QED BY <1>3, <2>1 DEF FileInv
<1>8. /\ file[g] \in [used : BOOLEAN, refs : Nat, uses : Nat]
      /\ file'[g] = Free \/ file'[g] = [file[g] EXCEPT !.refs = 0]
  BY <1>0, <1>5, <1>7 DEF doClose, TypeOK
<1>9. file'[g].refs = 0 /\ file'[g].uses \in Nat /\ (file'[g].used \/ file'[g] = Free)
      /\ file'[g] \in [used : BOOLEAN, refs : Nat, uses : Nat]
  <2>1. CASE file'[g] = Free BY <2>1 DEF Free
  <2>2. CASE file'[g] = [file[g] EXCEPT !.refs = 0] BY <1>3, <1>8, <2>2
  <2> QED BY <1>8, <2>1, <2>2, Zenon
<1>10. TypeOK'
  <2>1. file' \in [FileSlots -> [used : BOOLEAN, refs : Nat, uses : Nat]]
    BY <1>0, <1>1, <1>2, <1>5, <1>9, Zenon DEF TypeOK
  <2> QED BY <1>0, <1>1, <1>4, <2>1, Zenon DEF TypeOK, Sized
<1>11. Moves(t) BY <1>1, <1>4, <1>5, Zenon DEF Moves, Sized, Owners, Users
<1>12. OneFile(t, First, 1, g) BY <1>2, <1>4, <1>5, Zenon DEF OneFile
<1>13. Descs(g)' = {} /\ Regions(g)' = {} BY <1>3, <1>4, Zenon
<1>14. At(g, Counted)' = {} /\ At(g, Users)' = {} BY <1>3, <1>5 DEF At
<1>15. Cardinality({}) = 0 BY FS_EmptySet, Zenon
<1>16. \A s \in Threads : has'[s] # g BY <1>3, <1>5
<1>17. FileInv(g)' BY <1>9, <1>13, <1>14, <1>15, <1>16 DEF FileInv
<1> QED BY <1>10, <1>11, <1>12, <1>17, StepOf, Zenon

(* request makes the thread a user of the file of a descriptor. *)
LEMMA RequestStep ==
  ASSUME Intact, NEW t \in Threads, NEW fd \in 1..MaxFds, NEW l \in Users \ {"close"},
         pc[t] = "user", request(t, fd, l), truncated' = truncated, torn' = torn,
         slot' = slot \/ slot' = [slot EXCEPT ![t] = fd],
         l = "unassoc" => slot' = [slot EXCEPT ![t] = fd]
  PROVE  Intact'
<1> USE FileFacts DEF Goto, Hold
<1>0. TypeOK /\ Tables /\ Living /\ Holding /\ \A f \in FileSlots : FileInv(f) BY Zenon DEF Intact
<1>r. /\ regtree' = regtree
      /\ \A h : Regions(h)' = Regions(h) /\ Cardinality(Regions(h)) \in Nat
  BY SameRegions, Zenon DEF request
<1> USE <1>r
<1>1. PICK p \in Procs : p = ProcOf[t] BY Zenon
<1>2. PICK g \in FileSlots : g = fds[p][fd] /\ fd \in DOMAIN fds[p]
  BY <1>1, TableTypes, Zenon DEF request, Valid
<1>3. /\ file' = [file EXCEPT ![g].uses = @ + 1] /\ has' = [has EXCEPT ![t] = g]
      /\ pc' = [pc EXCEPT ![t] = l] /\ proc' = proc /\ fds' = fds
  BY <1>1, <1>2, Zenon DEF request, incUsages
<1>4. /\ fds' \in [Procs -> Seq(FileSlots \cup {Null})] /\ Sized
      /\ (\A q, j, f : Ref(q, j, f)' <=> Ref(q, j, f)) /\ \A f : Descs(f)' = Descs(f)
  BY <1>3, SameTables, Zenon
<1>5. /\ pc'[t] = l /\ has'[t] = g /\ has[t] = Null
      /\ \A s \in Threads \ {t} : pc'[s] = pc[s] /\ has'[s] = has[s] /\ slot'[s] = slot[s]
  <2>1. has[t] = Null BY <1>0, Zenon DEF Holding, Owners, Users
  <2> QED BY <1>0, <1>3, <2>1, Zenon DEF TypeOK
<1>6. /\ file[g] \in [used : BOOLEAN, refs : Nat, uses : Nat]
      /\ file'[g] = [file[g] EXCEPT !.uses = @ + 1]
      /\ \A f \in FileSlots \ {g} : file'[f] = file[f]
  BY <1>0, <1>3, Zenon DEF TypeOK
<1>7. /\ file'[g].used = file[g].used /\ file'[g].refs = file[g].refs
      /\ file'[g].uses = file[g].uses + 1 /\ file[g].uses \in Nat
      /\ file'[g] \in [used : BOOLEAN, refs : Nat, uses : Nat]
  BY <1>6
<1>8. TypeOK'
  <2>1. file' \in [FileSlots -> [used : BOOLEAN, refs : Nat, uses : Nat]]
    BY <1>0, <1>3, <1>6, <1>7, Zenon DEF TypeOK
  <2>2. pc' \in [Threads -> {"none", "user", "opened", "openFailed", "release",
                            "truncate", "unassoc", "close", "map", "exit"}]
    BY <1>0, <1>3, Zenon DEF TypeOK, Users
  <2>3. slot' \in [Threads -> 0..MaxFds]
    <3>1. slot \in [Threads -> 0..MaxFds] /\ fd \in 0..MaxFds BY <1>0 DEF TypeOK
    <3>2. CASE slot' = slot BY <3>1, <3>2, Zenon
    <3>3. CASE slot' = [slot EXCEPT ![t] = fd] BY <3>1, <3>3, Zenon
    <3> QED BY <3>2, <3>3, Zenon
  <2> QED BY <1>0, <1>3, <1>4, <2>1, <2>2, <2>3, Zenon DEF TypeOK, Sized
<1>9. Moves(t)
  <2>1. l = "unassoc" => slot'[t] \in DOMAIN fds'[ProcOf[t]]
    BY <1>0, <1>1, <1>2, <1>3, Zenon DEF TypeOK
  <2> QED BY <1>3, <1>4, <1>5, <2>1, Zenon DEF Moves, Sized, Owners, Users
<1>10. OneFile(t, First, 1, g) BY <1>4, <1>5, <1>6, Zenon DEF OneFile
<1>11. /\ Cardinality(At(g, Counted)) \in Nat /\ Cardinality(At(g, Users)) \in Nat
       /\ Cardinality(At(g, Counted)') = Cardinality(At(g, Counted))
       /\ Cardinality(At(g, Users)') = Cardinality(At(g, Users)) + 1
  <2>1. l \notin Counted /\ l \in Users BY Zenon DEF Counted, Users
  <2> QED BY <1>0, <1>5, <1>10, <2>1, OneFileStep DEF Num
<1>12. Ref(p, fd, g) BY <1>2, Zenon DEF Ref
<1>13. file[g].used /\ \A s \in Threads : has[s] = g => pc[s] \notin Owners
  BY <1>12, Described, Zenon
<1>14. FileInv(g)'
  <2>1. FileInv(g) BY <1>0, Zenon
  <2>2. file'[g].refs = Cardinality(Descs(g)') + Cardinality(Regions(g)')
                        + Cardinality(At(g, Counted)')
    BY <1>4, <1>7, <1>11, <2>1, Zenon DEF FileInv
  <2>3. file'[g].uses >= Cardinality(At(g, Users)') BY <1>7, <1>11, <2>1 DEF FileInv
  <2>4. \A s \in Threads : has'[s] = g => pc'[s] \notin Owners
    BY <1>5, <1>13, Zenon DEF Owners, Users
  <2> QED BY <1>7, <1>13, <2>2, <2>3, <2>4, Zenon DEF FileInv
<1> QED BY <1>8, <1>9, <1>10, <1>14, StepOf, Zenon

(* release: the last usage of a file without references frees it. *)
LEMMA ReleaseStep ==
  ASSUME Intact, NEW t \in Threads, release(t)
  PROVE  Intact'
<1> USE FileFacts DEF Goto, Hold
<1>0. TypeOK /\ Tables /\ Living /\ Holding /\ \A f \in FileSlots : FileInv(f) BY Zenon DEF Intact
<1>r. /\ regtree' = regtree
      /\ \A h : Regions(h)' = Regions(h) /\ Cardinality(Regions(h)) \in Nat
  BY SameRegions, Zenon DEF release
<1> USE <1>r
<1>1. /\ pc[t] = "release" /\ proc' = proc /\ fds' = fds /\ slot' = slot
      /\ file' = [file EXCEPT ![has[t]] = decUsages(@)]
      /\ has' = [has EXCEPT ![t] = Null] /\ pc' = [pc EXCEPT ![t] = Back(t)]
      /\ truncated' = truncated /\ torn' = torn
  BY Zenon DEF release
<1>2. PICK g \in FileSlots : has[t] = g BY <1>0, <1>1, Zenon DEF TypeOK, Holding, Owners, Users
<1>3. FileInv(g) /\ file[g].used BY <1>0, <1>2, Zenon DEF FileInv
<1>4. /\ fds' \in [Procs -> Seq(FileSlots \cup {Null})] /\ Sized
      /\ (\A q, j, f : Ref(q, j, f)' <=> Ref(q, j, f)) /\ \A f : Descs(f)' = Descs(f)
  BY <1>1, SameTables, Zenon
<1>5. /\ pc'[t] \in {"user", "exit"} /\ (pc'[t] = "exit" => proc[ProcOf[t]] = "exiting")
      /\ has'[t] = Null
      /\ \A s \in Threads \ {t} : pc'[s] = pc[s] /\ has'[s] = has[s] /\ slot'[s] = slot[s]
  BY <1>0, <1>1, Zenon DEF TypeOK, Back
<1>6. /\ file[g] \in [used : BOOLEAN, refs : Nat, uses : Nat]
      /\ file'[g] = decUsages(file[g])
      /\ \A f \in FileSlots \ {g} : file'[f] = file[f]
  BY <1>0, <1>1, <1>2, Zenon DEF TypeOK
<1>7. /\ file[g].uses \in Nat /\ file[g].uses >= 1
      /\ file[g].uses <= 1 => \A s \in Threads : has[s] = g => s = t
      /\ \A s \in Threads : has[s] = g => pc[s] \in Users
  BY <1>1, <1>2, OnlyUser, Zenon DEF Users
<1>8. \/ file'[g] = Free /\ file[g].uses = 1 /\ file[g].refs = 0
      \/ file'[g] = [file[g] EXCEPT !.uses = @ - 1]
  BY <1>6, <1>7 DEF decUsages, doClose
<1>9. OneFile(t, First, 1, g) BY <1>2, <1>4, <1>5, <1>6, Zenon DEF OneFile
<1>10. /\ Cardinality(At(g, Counted)) \in Nat /\ Cardinality(At(g, Users)) \in Nat
       /\ Cardinality(At(g, Users)') \in Nat
       /\ Cardinality(At(g, Counted)') = Cardinality(At(g, Counted))
       /\ Cardinality(At(g, Users)') = Cardinality(At(g, Users)) - 1
  <2>1. pc[t] \notin Counted /\ pc[t] \in Users BY <1>1, Zenon DEF Counted, Users
  <2> QED BY <1>0, <1>2, <1>5, <1>9, <2>1, OneFileStep DEF Num
<1>11. FileInv(g)' /\ file'[g] \in [used : BOOLEAN, refs : Nat, uses : Nat]
  <2>1. CASE file'[g] = Free /\ file[g].uses = 1 /\ file[g].refs = 0
    <3>1. Descs(g) = {} /\ Regions(g) = {} BY <1>3, <2>1, NoReferences, Zenon
    <3>2. \A s \in Threads : has'[s] # g BY <1>5, <1>7, <2>1, Zenon
    <3>3. At(g, Counted)' = {} /\ At(g, Users)' = {} BY <3>2, Zenon DEF At
    <3>4. Descs(g)' = {} /\ Regions(g)' = {} BY <1>4, <3>1, Zenon
    <3>5. /\ file'[g].refs = 0 /\ file'[g].uses = 0
          /\ file'[g] \in [used : BOOLEAN, refs : Nat, uses : Nat]
      BY <2>1 DEF Free
    <3>6. /\ Cardinality(Descs(g)') = 0 /\ Cardinality(Regions(g)') = 0
          /\ Cardinality(At(g, Counted)') = 0 /\ Cardinality(At(g, Users)') = 0
      BY <3>3, <3>4, NoElement, Zenon
    <3> QED BY <2>1, <3>2, <3>4, <3>5, <3>6 DEF FileInv
  <2>2. CASE file'[g] = [file[g] EXCEPT !.uses = @ - 1]
    <3>1. /\ file'[g].used = file[g].used /\ file'[g].refs = file[g].refs
          /\ file'[g].uses = file[g].uses - 1
          /\ file'[g] \in [used : BOOLEAN, refs : Nat, uses : Nat]
      BY <1>6, <1>7, <2>2
    <3>2. file'[g].refs = Cardinality(Descs(g)') + Cardinality(Regions(g)')
                          + Cardinality(At(g, Counted)')
      BY <1>3, <1>4, <1>10, <3>1, Zenon DEF FileInv
    <3>3. file'[g].uses >= Cardinality(At(g, Users)') BY <1>3, <1>7, <1>10, <3>1 DEF FileInv
    <3>4. \A s \in Threads : has'[s] = g => pc'[s] \notin Owners
      BY <1>5, <1>7, Zenon DEF Owners, Users
    <3> QED BY <1>3, <3>1, <3>2, <3>3, <3>4, Zenon DEF FileInv
  <2> QED BY <1>8, <2>1, <2>2, Zenon
<1>12. TypeOK'
  <2>1. file' \in [FileSlots -> [used : BOOLEAN, refs : Nat, uses : Nat]]
    BY <1>0, <1>1, <1>2, <1>6, <1>11, Zenon DEF TypeOK
  <2>2. Back(t) \in {"user", "exit"} BY Zenon DEF Back
  <2> QED BY <1>0, <1>1, <1>4, <2>1, <2>2, Zenon DEF TypeOK, Sized
<1>13. Moves(t) BY <1>1, <1>4, <1>5, Zenon DEF Moves, Sized, Owners, Users
<1>14. FileInv(g)' BY <1>11, Zenon
<1> QED BY <1>9, <1>12, <1>13, <1>14, StepOf, Zenon

(* The end of truncate, which keeps its usage. *)
LEMMA TruncateEndStep ==
  ASSUME Intact, NEW t \in Threads, truncateEnd(t)
  PROVE  Intact'
<1> USE FileFacts DEF Goto, Hold
<1>0. TypeOK /\ Tables /\ Living /\ Holding /\ \A f \in FileSlots : FileInv(f) BY Zenon DEF Intact
<1>r. /\ regtree' = regtree
      /\ \A h : Regions(h)' = Regions(h) /\ Cardinality(Regions(h)) \in Nat
  BY SameRegions, Zenon DEF truncateEnd
<1> USE <1>r
<1>1. /\ pc[t] = "truncate" /\ proc' = proc /\ fds' = fds /\ slot' = slot /\ file' = file
      /\ has' = [has EXCEPT ![t] = Null] /\ pc' = [pc EXCEPT ![t] = "user"]
      /\ truncated' = truncated \cup {has[t]} /\ torn' = torn
  BY Zenon DEF truncateEnd
<1>2. PICK g \in FileSlots : has[t] = g BY <1>0, <1>1, Zenon DEF TypeOK, Holding, Owners, Users
<1>3. FileInv(g) /\ file[g].used BY <1>0, <1>2, Zenon DEF FileInv
<1>4. /\ fds' \in [Procs -> Seq(FileSlots \cup {Null})] /\ Sized
      /\ (\A q, j, f : Ref(q, j, f)' <=> Ref(q, j, f)) /\ \A f : Descs(f)' = Descs(f)
  BY <1>1, SameTables, Zenon
<1>5. /\ pc'[t] = "user" /\ has'[t] = Null
      /\ \A s \in Threads \ {t} : pc'[s] = pc[s] /\ has'[s] = has[s] /\ slot'[s] = slot[s]
  BY <1>0, <1>1, Zenon DEF TypeOK
<1>6. file[g].uses \in Nat /\ \A s \in Threads : has[s] = g => pc[s] \in Users
  BY <1>1, <1>2, OnlyUser, Zenon DEF Users
<1>7. OneFile(t, First, 1, g) BY <1>1, <1>2, <1>4, <1>5, Zenon DEF OneFile
<1>8. /\ Cardinality(At(g, Counted)) \in Nat /\ Cardinality(At(g, Users)) \in Nat
      /\ Cardinality(At(g, Counted)') = Cardinality(At(g, Counted))
      /\ Cardinality(At(g, Users)') = Cardinality(At(g, Users)) - 1
  <2>1. pc[t] \notin Counted /\ pc[t] \in Users BY <1>1, Zenon DEF Counted, Users
  <2> QED BY <1>0, <1>2, <1>5, <1>7, <2>1, OneFileStep DEF Num
<1>9. FileInv(g)'
  <2>1. file'[g].refs = Cardinality(Descs(g)') + Cardinality(Regions(g)')
                        + Cardinality(At(g, Counted)')
    BY <1>1, <1>3, <1>4, <1>8, Zenon DEF FileInv
  <2>2. file'[g].uses >= Cardinality(At(g, Users)') BY <1>1, <1>3, <1>6, <1>8 DEF FileInv
  <2>3. \A s \in Threads : has'[s] = g => pc'[s] \notin Owners
    BY <1>5, <1>6, Zenon DEF Owners, Users
  <2> QED BY <1>1, <1>3, <2>1, <2>2, <2>3, Zenon DEF FileInv
<1>10. TypeOK' BY <1>0, <1>1, <1>2, <1>4, Zenon DEF TypeOK, Sized
<1>11. Moves(t) BY <1>1, <1>4, <1>5, Zenon DEF Moves, Sized, Owners, Users
<1> QED BY <1>7, <1>9, <1>10, <1>11, StepOf, Zenon

(* unassoc of a descriptor that still refers to the file of the thread. *)
LEMMA UnassocStep ==
  ASSUME Intact, NEW t \in Threads, unassoc(t), torn' = {}
  PROVE  Intact'
<1> USE FileFacts DEF Goto, Hold
<1>0. TypeOK /\ Tables /\ Living /\ Holding /\ \A f \in FileSlots : FileInv(f) BY Zenon DEF Intact
<1>r. /\ regtree' = regtree
      /\ \A h : Regions(h)' = Regions(h) /\ Cardinality(Regions(h)) \in Nat
  BY SameRegions, Zenon DEF unassoc
<1> USE <1>r
<1>1. PICK p \in Procs : p = ProcOf[t] BY Zenon
<1>2. PICK i \in DOMAIN fds[p] : i = slot[t] BY <1>0, <1>1, Zenon DEF unassoc, Holding
<1>3. /\ pc[t] = "unassoc" /\ proc' = proc /\ file' = file /\ has' = has
      /\ Set(p, i, Null) /\ fds[p][i] = has[t]
      /\ slot' = [slot EXCEPT ![t] = 0] /\ pc' = [pc EXCEPT ![t] = "close"]
      /\ truncated' = truncated
  BY <1>1, <1>2, Zenon DEF unassoc, Set
<1>4. PICK g \in FileSlots : has[t] = g BY <1>0, <1>3, Zenon DEF TypeOK, Holding, Owners, Users
<1>5. FileInv(g) /\ file[g].used BY <1>0, <1>4, Zenon DEF FileInv
<1>6. /\ fds' \in [Procs -> Seq(FileSlots \cup {Null})]
      /\ Sized /\ Others(p, i)
      /\ \A f : (Ref(p, i, f)' <=> Null = f) /\ (Ref(p, i, f) <=> fds[p][i] = f)
  BY <1>3, SetEntry, Zenon
<1>7. i \in 1..MaxFds BY TableTypes, Zenon
<1>8. /\ pc'[t] = "close" /\ has'[t] = g
      /\ \A s \in Threads \ {t} : pc'[s] = pc[s] /\ has'[s] = has[s] /\ slot'[s] = slot[s]
  BY <1>0, <1>3, <1>4, Zenon DEF TypeOK
<1>9. OneFile(t, p, i, g)
  <2>1. \A f \in FileSlots : f # g => ~Ref(p, i, f)' /\ ~Ref(p, i, f) BY <1>3, <1>4, <1>6
  <2>2. ASSUME NEW q \in Procs, NEW j \in 1..MaxFds, NEW f \in FileSlots,
               q # p \/ j # i \/ f # g
        PROVE  Ref(q, j, f)' <=> Ref(q, j, f)
    <3>1. CASE q # p \/ j # i BY <1>6, <3>1, Zenon DEF Others
    <3>2. CASE q = p /\ j = i /\ f # g BY <2>1, <3>2, Zenon
    <3> QED BY <2>2, <3>1, <3>2, Zenon
  <2>3. {has[t], has'[t]} \subseteq {g, Null} BY <1>4, <1>8, Zenon
  <2> QED BY <1>3, <1>8, <2>2, <2>3, Zenon DEF OneFile
<1>10. Ref(p, i, g) /\ ~Ref(p, i, g)' BY <1>3, <1>4, <1>6, Zenon
<1>11. /\ Cardinality(At(g, Counted)) \in Nat /\ Cardinality(At(g, Users)) \in Nat
       /\ Cardinality(Descs(g)) \in Nat
       /\ Cardinality(Descs(g)') = Cardinality(Descs(g)) - 1
       /\ Cardinality(At(g, Counted)') = Cardinality(At(g, Counted)) + 1
       /\ Cardinality(At(g, Users)') = Cardinality(At(g, Users))
  <2>1. pc[t] \notin Counted /\ pc[t] \in Users /\ pc'[t] \in Counted /\ pc'[t] \in Users
    BY <1>3, <1>8, Zenon DEF Counted, Users
  <2> QED BY <1>0, <1>4, <1>7, <1>8, <1>9, <1>10, <2>1, OneFileStep DEF Num
<1>12. \A s \in Threads : has[s] = g => pc[s] \in Users
  BY <1>3, <1>4, OnlyUser, Zenon DEF Users
<1>13. FileInv(g)'
  <2>1. file'[g].refs = Cardinality(Descs(g)') + Cardinality(Regions(g)')
                        + Cardinality(At(g, Counted)')
    BY <1>3, <1>5, <1>11 DEF FileInv
  <2>2. file'[g].uses >= Cardinality(At(g, Users)') BY <1>3, <1>5, <1>11, Zenon DEF FileInv
  <2>3. \A s \in Threads : has'[s] = g => pc'[s] \notin Owners
    BY <1>8, <1>12, Zenon DEF Owners, Users
  <2> QED BY <1>3, <1>5, <2>1, <2>2, <2>3, Zenon DEF FileInv
<1>14. TypeOK'
  <2>1. pc' \in [Threads -> {"none", "user", "opened", "openFailed", "release",
                             "truncate", "unassoc", "close", "map", "exit"}]
    BY <1>0, <1>3, Zenon DEF TypeOK
  <2>2. slot' \in [Threads -> 0..MaxFds]
    <3>1. 0 \in 0..MaxFds OBVIOUS
    <3> QED BY <1>0, <1>3, <3>1, Zenon DEF TypeOK
  <2>3. torn' \in SUBSET Threads BY Zenon
  <2> QED BY <1>0, <1>3, <1>6, <2>1, <2>2, <2>3, Zenon DEF TypeOK, Sized
<1>15. Moves(t) BY <1>3, <1>6, <1>8, Zenon DEF Moves, Sized, Owners, Users
<1> QED BY <1>7, <1>9, <1>13, <1>14, <1>15, StepOf, Zenon

(* close: without other references and users the file is freed. *)
LEMMA CloseFileStep ==
  ASSUME Intact, NEW t \in Threads, closeFile(t)
  PROVE  Intact'
<1> USE FileFacts DEF Goto, Hold
<1>0. TypeOK /\ Tables /\ Living /\ Holding /\ \A f \in FileSlots : FileInv(f) BY Zenon DEF Intact
<1>r. /\ regtree' = regtree
      /\ \A h : Regions(h)' = Regions(h) /\ Cardinality(Regions(h)) \in Nat
  BY SameRegions, Zenon DEF closeFile
<1> USE <1>r
<1>1. /\ pc[t] = "close" /\ proc' = proc /\ fds' = fds /\ slot' = slot
      /\ file' = [file EXCEPT ![has[t]] = doClose(@)]
      /\ truncated' = truncated /\ torn' = torn
  BY Zenon DEF closeFile
<1>2. PICK g \in FileSlots : has[t] = g BY <1>0, <1>1, Zenon DEF TypeOK, Holding, Owners, Users
<1>3. FileInv(g) /\ file[g].used BY <1>0, <1>2, Zenon DEF FileInv
<1>4. /\ fds' \in [Procs -> Seq(FileSlots \cup {Null})] /\ Sized
      /\ (\A q, j, f : Ref(q, j, f)' <=> Ref(q, j, f)) /\ \A f : Descs(f)' = Descs(f)
  BY <1>1, SameTables, Zenon
<1>5. /\ file[g] \in [used : BOOLEAN, refs : Nat, uses : Nat]
      /\ file'[g] = doClose(file[g])
      /\ \A f \in FileSlots \ {g} : file'[f] = file[f]
  BY <1>0, <1>1, <1>2, Zenon DEF TypeOK
<1>6. /\ file[g].uses \in Nat /\ file[g].uses >= 1
      /\ file[g].uses <= 1 => \A s \in Threads : has[s] = g => s = t
      /\ \A s \in Threads : has[s] = g => pc[s] \in Users
  BY <1>1, <1>2, OnlyUser, Zenon DEF Users
<1>7. /\ Cardinality(At(g, Counted)) >= 1
      /\ Cardinality(At(g, Counted)) \in Nat /\ Cardinality(Descs(g)) \in Nat
  <2>1. IsFiniteSet(At(g, Counted)) /\ Cardinality(Descs(g)) \in Nat BY Finite, Zenon
  <2>2. t \in At(g, Counted) BY <1>1, <1>2, Zenon DEF At, Counted
  <2> QED BY <2>1, <2>2, Small, Zenon
<1>8. file[g].refs = Cardinality(Descs(g)) + Cardinality(Regions(g)) + Cardinality(At(g, Counted))
  BY <1>3, Zenon DEF FileInv
<1>9. \/ file'[g] = Free /\ file[g].uses <= 1 /\ file[g].refs = 1
      \/ file'[g] = [file[g] EXCEPT !.refs = file[g].refs - 1]
  BY <1>5, <1>6, <1>7, <1>8 DEF doClose
<1>10. CASE file'[g] = Free /\ file[g].uses <= 1 /\ file[g].refs = 1
  <2>1. /\ file'[g].refs = 0 /\ file'[g].uses = 0 /\ ~file'[g].used
        /\ file'[g] \in [used : BOOLEAN, refs : Nat, uses : Nat]
    BY <1>10 DEF Free
  <2>2. pc' = [pc EXCEPT ![t] = Back(t)] /\ has' = [has EXCEPT ![t] = Null]
    BY <1>2, <2>1, Zenon DEF closeFile
  <2>3. /\ pc'[t] \in {"user", "exit"} /\ (pc'[t] = "exit" => proc[ProcOf[t]] = "exiting")
        /\ has'[t] = Null
        /\ \A s \in Threads \ {t} : pc'[s] = pc[s] /\ has'[s] = has[s] /\ slot'[s] = slot[s]
    BY <1>0, <1>1, <2>2, Zenon DEF TypeOK, Back
  <2>4. OneFile(t, First, 1, g) BY <1>2, <1>4, <1>5, <2>3, Zenon DEF OneFile
  <2>5. Descs(g)' = {} /\ Regions(g)' = {}
    <3>1. Cardinality(Descs(g)) = 0 /\ Cardinality(Regions(g)) = 0 BY <1>7, <1>8, <1>10
    <3>2. IsFiniteSet(Descs(g)) /\ IsFiniteSet(Regions(g)) BY Finite, Zenon
    <3>3. Descs(g) = {} /\ Regions(g) = {} BY <3>1, <3>2, Small, Zenon
    <3> QED BY <1>4, <3>3, Zenon
  <2>6. \A s \in Threads : has'[s] # g BY <1>6, <1>10, <2>3, Zenon
  <2>7. At(g, Counted)' = {} /\ At(g, Users)' = {} BY <2>6, Zenon DEF At
  <2>8. /\ Cardinality(Descs(g)') = 0 /\ Cardinality(Regions(g)') = 0
        /\ Cardinality(At(g, Counted)') = 0 /\ Cardinality(At(g, Users)') = 0
    BY <2>5, <2>7, NoElement, Zenon
  <2>9. FileInv(g)' BY <1>10, <2>1, <2>5, <2>6, <2>8 DEF FileInv
  <2>10. TypeOK'
    <3>1. file' \in [FileSlots -> [used : BOOLEAN, refs : Nat, uses : Nat]]
      BY <1>0, <1>1, <1>2, <1>5, <2>1, Zenon DEF TypeOK
    <3>2. Back(t) \in {"user", "exit"} BY Zenon DEF Back
    <3> QED BY <1>0, <1>1, <1>4, <2>2, <3>1, <3>2, Zenon DEF TypeOK, Sized
  <2>11. Moves(t) BY <1>1, <1>4, <2>3, Zenon DEF Moves, Sized, Owners, Users
  <2> QED BY <2>4, <2>9, <2>10, <2>11, StepOf, Zenon
<1>11. CASE file'[g] = [file[g] EXCEPT !.refs = file[g].refs - 1]
  <2>1. /\ file'[g].refs = file[g].refs - 1 /\ file'[g].uses = file[g].uses /\ file'[g].used
        /\ file'[g] \in [used : BOOLEAN, refs : Nat, uses : Nat]
    BY <1>3, <1>5, <1>7, <1>8, <1>11
  <2>2. pc' = [pc EXCEPT ![t] = "release"] /\ has' = has
    BY <1>2, <2>1, Zenon DEF closeFile
  <2>3. /\ pc'[t] = "release" /\ has'[t] = g
        /\ \A s \in Threads \ {t} : pc'[s] = pc[s] /\ has'[s] = has[s] /\ slot'[s] = slot[s]
    BY <1>0, <1>1, <1>2, <2>2, Zenon DEF TypeOK
  <2>4. OneFile(t, First, 1, g) BY <1>2, <1>4, <1>5, <2>3, Zenon DEF OneFile
  <2>5. /\ Cardinality(At(g, Users)) \in Nat
        /\ Cardinality(At(g, Counted)') = Cardinality(At(g, Counted)) - 1
        /\ Cardinality(At(g, Users)') = Cardinality(At(g, Users))
    <3>1. pc[t] \in Counted /\ pc[t] \in Users /\ pc'[t] \notin Counted /\ pc'[t] \in Users
      BY <1>1, <2>3, Zenon DEF Counted, Users
    <3> QED BY <1>0, <1>2, <2>3, <2>4, <3>1, OneFileStep DEF Num
  <2>6. FileInv(g)'
    <3>1. file'[g].refs = Cardinality(Descs(g)') + Cardinality(Regions(g)')
                          + Cardinality(At(g, Counted)')
      BY <1>4, <1>7, <1>8, <2>1, <2>5
    <3>2. file'[g].uses >= Cardinality(At(g, Users)') BY <1>3, <2>1, <2>5, Zenon DEF FileInv
    <3>3. \A s \in Threads : has'[s] = g => pc'[s] \notin Owners
      BY <1>6, <2>3, Zenon DEF Owners, Users
    <3> QED BY <2>1, <3>1, <3>2, <3>3, Zenon DEF FileInv
  <2>7. TypeOK'
    <3>1. file' \in [FileSlots -> [used : BOOLEAN, refs : Nat, uses : Nat]]
      BY <1>0, <1>1, <1>2, <1>5, <2>1, Zenon DEF TypeOK
    <3> QED BY <1>0, <1>1, <1>4, <2>2, <3>1, Zenon DEF TypeOK, Sized
  <2>8. Moves(t) BY <1>1, <1>4, <2>3, Zenon DEF Moves, Sized, Owners, Users
  <2> QED BY <2>4, <2>6, <2>7, <2>8, StepOf, Zenon
<1> QED BY <1>9, <1>10, <1>11, Zenon

(* dup: one descriptor and one reference more. *)
LEMMA DupStep ==
  ASSUME Intact, NEW t \in Threads, NEW fd \in 1..MaxFds, dup(t, fd)
  PROVE  Intact'
<1> USE FileFacts
<1>0. TypeOK /\ Tables /\ Living /\ Holding /\ \A f \in FileSlots : FileInv(f) BY Zenon DEF Intact
<1>r. /\ regtree' = regtree
      /\ \A h : Regions(h)' = Regions(h) /\ Cardinality(Regions(h)) \in Nat
  BY SameRegions, Zenon DEF dup
<1> USE <1>r
<1>1. PICK p \in Procs : p = ProcOf[t] BY Zenon
<1>2. PICK g \in FileSlots : g = fds[p][fd] /\ fd \in DOMAIN fds[p]
  BY <1>1, TableTypes, Zenon DEF dup, Valid
<1>3. /\ pc[t] = "user" /\ doAssoc(p, g) /\ file' = [file EXCEPT ![g].refs = @ + 1]
      /\ proc' = proc /\ pc' = pc /\ has' = has /\ slot' = slot
      /\ truncated' = truncated /\ torn' = torn
  BY <1>1, <1>2, Zenon DEF dup, MayCall
<1>4. proc[p] \notin Without BY <1>0, <1>1, <1>3, Zenon DEF Living, Without
<1>5. /\ fds' \in [Procs -> Seq(FileSlots \cup {Null})] /\ Sized
      /\ \E i \in 1..MaxFds :
           /\ Others(p, i)
           /\ \A f \in FileSlots : (Ref(p, i, f)' <=> g = f) /\ ~Ref(p, i, f)
  BY <1>3, <1>4, DoAssoc, Zenon
<1>6. PICK i \in 1..MaxFds :
        /\ Others(p, i)
        /\ \A f \in FileSlots : (Ref(p, i, f)' <=> g = f) /\ ~Ref(p, i, f)
  BY <1>5, Zenon
<1>7. has[t] = Null BY <1>0, <1>3, Zenon DEF Holding, Owners, Users
<1>8. /\ file[g] \in [used : BOOLEAN, refs : Nat, uses : Nat]
      /\ file'[g] = [file[g] EXCEPT !.refs = @ + 1]
      /\ \A f \in FileSlots \ {g} : file'[f] = file[f]
  BY <1>0, <1>3, Zenon DEF TypeOK
<1>9. /\ file'[g].used = file[g].used /\ file'[g].uses = file[g].uses
      /\ file'[g].refs = file[g].refs + 1 /\ file[g].refs \in Nat
      /\ file'[g] \in [used : BOOLEAN, refs : Nat, uses : Nat]
  BY <1>8
<1>10. OneFile(t, p, i, g)
  <2>1. ASSUME NEW q \in Procs, NEW j \in 1..MaxFds, NEW f \in FileSlots,
               q # p \/ j # i \/ f # g
        PROVE  Ref(q, j, f)' <=> Ref(q, j, f)
    <3>1. CASE q # p \/ j # i BY <1>6, <3>1, Zenon DEF Others
    <3>2. CASE q = p /\ j = i /\ f # g BY <1>6, <3>2, Zenon
    <3> QED BY <2>1, <3>1, <3>2, Zenon
  <2> QED BY <1>3, <1>7, <1>8, <2>1, Zenon DEF OneFile
<1>11. /\ Cardinality(Descs(g)) \in Nat /\ Cardinality(At(g, Counted)) \in Nat
       /\ Cardinality(Descs(g)') = Cardinality(Descs(g)) + 1
  BY <1>0, <1>6, <1>10, OneFileStep DEF Num
<1>12. At(g, Counted)' = At(g, Counted) /\ At(g, Users)' = At(g, Users) BY <1>3, Zenon DEF At
<1>13. Ref(p, fd, g) BY <1>2, Zenon DEF Ref
<1>14. file[g].used /\ \A s \in Threads : has[s] = g => pc[s] \notin Owners
  BY <1>13, Described, Zenon
<1>15. FileInv(g)'
  <2>1. FileInv(g) BY <1>0, Zenon
  <2>2. file'[g].refs = Cardinality(Descs(g)') + Cardinality(Regions(g)')
                        + Cardinality(At(g, Counted)')
    BY <1>9, <1>11, <1>12, <2>1 DEF FileInv
  <2> QED BY <1>3, <1>9, <1>12, <1>14, <2>1, <2>2, Zenon DEF FileInv
<1>16. TypeOK'
  <2>1. file' \in [FileSlots -> [used : BOOLEAN, refs : Nat, uses : Nat]]
    BY <1>0, <1>3, <1>8, <1>9, Zenon DEF TypeOK
  <2> QED BY <1>0, <1>3, <1>5, <2>1, Zenon DEF TypeOK, Sized
<1>17. Moves(t) BY <1>3, <1>5, <1>7, Zenon DEF Moves, Sized, Owners, Users
<1> QED BY <1>10, <1>15, <1>16, <1>17, StepOf, Zenon

(***************************************************************************)
(* redirect: the entry gets the file of dst, and the file that it had is   *)
(* closed.  If that was the last reference then no thread has got the      *)
(* file, because nothing is torn.                                          *)
(***************************************************************************)
LEMMA RedirectStep ==
  ASSUME Intact, NEW t \in Threads, NEW src \in 1..MaxFds, NEW dst \in 1..MaxFds,
         redirect(t, src, dst), torn' = {}
  PROVE  Intact'
<1> USE FileFacts
<1>0. TypeOK /\ Tables /\ Living /\ Holding /\ \A h \in FileSlots : FileInv(h) BY Zenon DEF Intact
<1>r. /\ regtree' = regtree
      /\ \A h : Regions(h)' = Regions(h) /\ Cardinality(Regions(h)) \in Nat
  BY SameRegions, Zenon DEF redirect
<1> USE <1>r
<1>1. PICK p \in Procs : p = ProcOf[t] BY Zenon
<1>2. PICK f \in FileSlots : f = fds[p][src] /\ src \in DOMAIN fds[p]
  BY <1>1, TableTypes, Zenon DEF redirect, Valid
<1>3. PICK g \in FileSlots : g = fds[p][dst] /\ dst \in DOMAIN fds[p]
  BY <1>1, TableTypes, Zenon DEF redirect, Valid
<1>4. /\ pc[t] = "user" /\ Set(p, src, g)
      /\ file' = [[file EXCEPT ![g].refs = @ + 1] EXCEPT ![f] = doClose(@)]
      /\ torn' = torn \cup Bereft([file EXCEPT ![g].refs = @ + 1], f)
      /\ proc' = proc /\ pc' = pc /\ has' = has /\ slot' = slot /\ truncated' = truncated
  BY <1>1, <1>2, <1>3, Zenon DEF redirect, MayCall, Set
<1>5. /\ fds' \in [Procs -> Seq(FileSlots \cup {Null})]
      /\ Sized /\ Others(p, src)
      /\ \A h : (Ref(p, src, h)' <=> g = h) /\ (Ref(p, src, h) <=> fds[p][src] = h)
  BY <1>2, <1>4, SetEntry, Zenon
<1>6. Ref(p, src, f) /\ Ref(p, dst, g) BY <1>2, <1>3, Zenon DEF Ref
<1>7. /\ file[f].used /\ file[f].refs >= 1 /\ file[f].refs \in Nat
      /\ file[g].used /\ file[g].refs >= 1 /\ file[g].refs \in Nat
      /\ Cardinality(Descs(f)) \in Nat /\ Cardinality(Descs(f)) >= 1
      /\ \A s \in Threads : has[s] = f \/ has[s] = g => pc[s] \notin Owners
  BY <1>6, Described, Zenon
<1>8. file[f] \in [used : BOOLEAN, refs : Nat, uses : Nat]
      /\ file[g] \in [used : BOOLEAN, refs : Nat, uses : Nat]
      /\ file \in [FileSlots -> [used : BOOLEAN, refs : Nat, uses : Nat]]
  BY <1>0, Zenon DEF TypeOK
<1>9. \A h : At(h, Counted)' = At(h, Counted) /\ At(h, Users)' = At(h, Users)
  BY <1>4, Zenon DEF At
<1>10. \A h \in FileSlots \ {f, g} : file'[h] = file[h] BY <1>4, <1>8, Zenon
<1>11. \A h \in FileSlots \ {f, g} : Untouched(h)
  <2>1. ASSUME NEW h \in FileSlots \ {f, g}, NEW q \in Procs, NEW j \in 1..MaxFds
        PROVE  Ref(q, j, h)' <=> Ref(q, j, h)
    <3>1. CASE q # p \/ j # src BY <1>5, <3>1, Zenon DEF Others
    <3>2. CASE q = p /\ j = src BY <1>2, <1>5, <2>1, <3>2, Zenon
    <3> QED BY <3>1, <3>2, Zenon
  <2>2. \A s \in Threads : has'[s] = has[s] /\ pc'[s] = pc[s] BY <1>4, Zenon
  <2> QED BY <1>10, <2>1, <2>2, Zenon DEF Untouched
<1>12. \A h \in FileSlots \ {f, g} : FileInv(h)' BY <1>0, <1>11, SameFile, Zenon
<1>13. /\ FileInv(f)' /\ FileInv(g)'
       /\ file'[f] \in [used : BOOLEAN, refs : Nat, uses : Nat]
       /\ file'[g] \in [used : BOOLEAN, refs : Nat, uses : Nat]
  <2>1. CASE f = g
    <3>1. file'[f] = doClose([file[f] EXCEPT !.refs = @ + 1]) BY <1>4, <1>8, <2>1, Zenon
    <3>2. /\ file'[f].used /\ file'[f].refs = file[f].refs /\ file'[f].uses = file[f].uses
          /\ file'[f] \in [used : BOOLEAN, refs : Nat, uses : Nat]
      <4> DEFINE r == [file[f] EXCEPT !.refs = @ + 1]
      <4>1. /\ r.refs = file[f].refs + 1 /\ r.used = file[f].used /\ r.uses = file[f].uses
            /\ r \in [used : BOOLEAN, refs : Nat, uses : Nat]
        BY <1>8
      <4>2. r.refs > 0 /\ r.refs - 1 = file[f].refs /\ file[f].refs # 0 BY <1>7, <4>1
      <4> HIDE DEF r
      <4>3. doClose(r) = [r EXCEPT !.refs = file[f].refs] BY <4>2, Zenon DEF doClose
      <4>4. file'[f] = [r EXCEPT !.refs = file[f].refs] BY <3>1, <4>3, Zenon DEF r
      <4>5. /\ file'[f].used = r.used /\ file'[f].uses = r.uses
            /\ file'[f].refs = file[f].refs
        BY ONLY <4>1, <4>4, Zenon
      <4>6. file'[f] \in [used : BOOLEAN, refs : Nat, uses : Nat] BY ONLY <1>7, <4>1, <4>4, Zenon
      <4> QED BY <1>7, <4>1, <4>5, <4>6, Zenon
    <3>3. ASSUME NEW q \in Procs, NEW j \in 1..MaxFds PROVE Ref(q, j, f)' <=> Ref(q, j, f)
      <4>1. CASE q # p \/ j # src BY <1>5, <4>1, Zenon DEF Others
      <4>2. CASE q = p /\ j = src BY <1>2, <1>5, <2>1, <4>2, Zenon
      <4> QED BY <4>1, <4>2, Zenon
    <3>4. Descs(f)' = Descs(f) BY <3>3, Zenon DEF Descs, Ref
    <3>5. FileInv(f)' BY <1>0, <1>4, <1>7, <1>9, <3>2, <3>4 DEF FileInv
    <3> QED BY <2>1, <3>2, <3>5, Zenon
  <2>2. CASE f # g
    <3>1. /\ file'[g] = [file[g] EXCEPT !.refs = @ + 1]
          /\ file'[f] = doClose(file[f])
      BY <1>4, <1>8, <2>2, Zenon
    <3>2. /\ \A q \in Procs, j \in 1..MaxFds : q # p \/ j # src => (Ref(q, j, f)' <=> Ref(q, j, f))
          /\ \A q \in Procs, j \in 1..MaxFds : q # p \/ j # src => (Ref(q, j, g)' <=> Ref(q, j, g))
      BY <1>5, Zenon DEF Others
    <3>3. Ref(p, src, g)' /\ ~Ref(p, src, g) /\ ~Ref(p, src, f)' BY <1>2, <1>5, <2>2, Zenon
    <3>4. /\ Cardinality(Descs(f)') = Cardinality(Descs(f)) - 1
          /\ Cardinality(Descs(g)') = Cardinality(Descs(g)) + 1
          /\ Cardinality(Descs(g)) \in Nat
      <4>1. /\ Cardinality(Descs(f)') = Cardinality(Descs(f))
                 + Num(Ref(p, src, f)') - Num(Ref(p, src, f))
            /\ Cardinality(Descs(g)') = Cardinality(Descs(g))
                 + Num(Ref(p, src, g)') - Num(Ref(p, src, g))
            /\ Cardinality(Descs(g)) \in Nat
        BY <3>2, DescCount, Zenon
      <4> QED BY <1>6, <1>7, <3>3, <4>1 DEF Num
    <3>5. /\ file'[g].used /\ file'[g].refs = file[g].refs + 1 /\ file'[g].uses = file[g].uses
          /\ file'[g] \in [used : BOOLEAN, refs : Nat, uses : Nat]
      BY <1>7, <1>8, <3>1
    <3>6. FileInv(f) /\ FileInv(g) /\ Cardinality(At(f, Counted)) \in Nat
          /\ Cardinality(At(g, Counted)) \in Nat
      BY <1>0, Finite, Zenon
    <3>7. FileInv(g)'
      <4>1. file'[g].refs = Cardinality(Descs(g)') + Cardinality(Regions(g)')
                            + Cardinality(At(g, Counted)')
        BY <1>9, <3>4, <3>5, <3>6 DEF FileInv
      <4> QED BY <1>4, <1>7, <1>9, <3>5, <3>6, <4>1, Zenon DEF FileInv
    <3>8. \/ file'[f] = Free /\ file[f].refs = 1
          \/ file'[f] = [file[f] EXCEPT !.refs = file[f].refs - 1]
      BY <1>7, <1>8, <3>1 DEF doClose
    <3>9. CASE file'[f] = Free /\ file[f].refs = 1
      <4>1. /\ file'[f].refs = 0 /\ file'[f].uses = 0 /\ ~file'[f].used
            /\ file'[f] \in [used : BOOLEAN, refs : Nat, uses : Nat]
        BY <3>9 DEF Free
      <4>2. \A s \in Threads : has'[s] # f
        <5>1. [file EXCEPT ![g].refs = @ + 1][f] = file[f] BY <1>8, <2>2, Zenon
        <5>2. Bereft([file EXCEPT ![g].refs = @ + 1], f) = {s \in Threads : has[s] = f}
          BY <3>9, <5>1, Zenon DEF Bereft
        <5> QED BY <1>4, <5>2, Zenon
      <4>3. At(f, Counted)' = {} /\ At(f, Users)' = {} BY <4>2, Zenon DEF At
      <4>4. Cardinality(Descs(f)') = 0
        <5>1. Cardinality(Descs(f)) = 1 BY <1>7, <3>6, <3>9 DEF FileInv
        <5> QED BY <3>4, <5>1
      <4>r. Regions(f)' = {}
        <5>1. Cardinality(Regions(f)) = 0 BY <1>7, <3>6, <3>9 DEF FileInv
        <5>2. IsFiniteSet(Regions(f)) BY Finite, Zenon
        <5> QED BY <5>1, <5>2, Small, Zenon
      <4>5. Descs(f)' = {}
        <5>1. Descs(f)' \subseteq Descs(f)
          BY <3>2, <3>3 DEF Descs, Ref
        <5>2. IsFiniteSet(Descs(f)') BY <5>1, Finite, FS_Subset, Zenon
        <5> QED BY <4>4, <5>2, Small, Zenon
      <4>6. FileInv(f)' BY <3>9, <4>1, <4>2, <4>3, <4>4, <4>5, <4>r, NoElement DEF FileInv
      <4> QED BY <3>5, <3>7, <4>1, <4>6, Zenon
    <3>10. CASE file'[f] = [file[f] EXCEPT !.refs = file[f].refs - 1]
      <4>1. /\ file'[f].refs = file[f].refs - 1 /\ file'[f].uses = file[f].uses /\ file'[f].used
            /\ file'[f] \in [used : BOOLEAN, refs : Nat, uses : Nat]
        BY <1>7, <1>8, <3>10
      <4>2. file'[f].refs = Cardinality(Descs(f)') + Cardinality(Regions(f)')
                            + Cardinality(At(f, Counted)')
        BY <1>7, <1>9, <3>4, <3>6, <4>1 DEF FileInv
      <4>3. FileInv(f)' BY <1>4, <1>7, <1>9, <3>6, <4>1, <4>2, Zenon DEF FileInv
      <4> QED BY <3>5, <3>7, <4>1, <4>3, Zenon
    <3> QED BY <3>8, <3>9, <3>10, Zenon
  <2> QED BY <2>1, <2>2, Zenon
<1>14. \A h \in FileSlots : FileInv(h)' BY <1>12, <1>13, Zenon
<1>15. TypeOK'
  <2>1. file' \in [FileSlots -> [used : BOOLEAN, refs : Nat, uses : Nat]]
    BY <1>4, <1>8, <1>10, <1>13, Zenon
  <2>2. proc' = proc /\ pc' = pc /\ has' = has /\ slot' = slot /\ truncated' = truncated
    BY <1>4, Zenon
  <2>3. \A q \in Procs : Len(fds'[q]) <= MaxFds BY <1>5, Zenon DEF Sized
  <2>4. torn' \in SUBSET Threads BY Zenon
  <2>5. /\ proc' \in [Procs -> {"none", "alive", "exiting", "unmapping"}]
        /\ pc' \in [Threads -> {"none", "user", "opened", "openFailed", "release",
                               "truncate", "unassoc", "close", "map", "exit"}]
        /\ has' \in [Threads -> FileSlots \cup {Null}] /\ slot' \in [Threads -> 0..MaxFds]
        /\ truncated' \in SUBSET FileSlots
    BY <1>0, <2>2, Zenon DEF TypeOK
  <2>6. regtree' \in [Procs -> [Addrs -> FileSlots \cup {Null}]] BY <1>0, Zenon DEF TypeOK
  <2> QED BY ONLY <1>5, <2>1, <2>3, <2>4, <2>5, <2>6, Zenon DEF TypeOK
<1>16. Moves(t) BY <1>0, <1>4, <1>5, Zenon DEF Moves, Sized, Owners, Users, Holding
<1>17. Tables' /\ Living' /\ Holding' BY <1>16, MovesStep, Zenon
<1>18. Sited' BY <1>4, Zenon DEF Intact, Sited
<1> QED BY <1>14, <1>15, <1>17, <1>18, Zenon DEF Intact

(* The entries E that process p gets from another one. *)
LEMMA Copied ==
  ASSUME NEW p, NEW E, NEW S, NEW T, IsFiniteSet(E), IsFiniteSet(S),
         T = S \cup ({p} \X E), S \cap ({p} \X E) = {}
  PROVE  /\ Cardinality(E) \in Nat /\ Cardinality(S) \in Nat
         /\ Cardinality(T) = Cardinality(S) + Cardinality(E)
<1> DEFINE C == {p} \X E
<1>1. IsFiniteSet({p}) /\ Cardinality({p}) = 1 BY ONLY Singleton, Zenon
<1>2. Cardinality(E) \in Nat /\ Cardinality(S) \in Nat BY FS_CardinalityType, Zenon
<1>3. IsFiniteSet(C) /\ Cardinality(C) = Cardinality({p}) * Cardinality(E)
  BY <1>1, FS_Product, Zenon
<1>4. Cardinality(C) = Cardinality(E) BY ONLY <1>1, <1>2, <1>3
<1>5. T = S \cup C /\ S \cap C = {} BY Zenon
<1> HIDE DEF C
<1>6. Cardinality(S \cup C) = Cardinality(S) + Cardinality(C) - Cardinality(S \cap C)
  BY <1>3, FS_Union, Zenon
<1>7. Cardinality(S \cap C) = 0 BY <1>5, NoElement, Zenon
<1>8. Cardinality(T) = Cardinality(S \cup C) BY <1>5, Zenon
<1> QED BY ONLY <1>2, <1>4, <1>6, <1>7, <1>8

(* clone: the new process refers to the files of its parent. *)
LEMMA CloneStep ==
  ASSUME Intact, NEW t \in Threads, clone(t)
  PROVE  Intact'
<1> USE FileFacts DEF Goto
<1>0. TypeOK /\ Tables /\ Living /\ Holding /\ \A f \in FileSlots : FileInv(f) BY Zenon DEF Intact
<1>1. PICK o \in Procs : o = ProcOf[t] BY Zenon
<1>2. PICK p \in Procs, n \in Threads :
        /\ proc[p] = "none" /\ ProcOf[n] = p
        /\ proc' = [proc EXCEPT ![p] = "alive"]
        /\ fds' = [fds EXCEPT ![p] = fds[ProcOf[t]]]
        /\ regtree' = [regtree EXCEPT ![p] = regtree[ProcOf[t]]]
        /\ file' = [f \in FileSlots |->
                      [file[f] EXCEPT !.refs = @ + Entries(fds[ProcOf[t]], f)
                                                 + Entries(regtree[ProcOf[t]], f)]]
        /\ pc' = [pc EXCEPT ![n] = "user"]
  BY Zenon DEF clone
<1>3. /\ pc[t] = "user" /\ has' = has /\ slot' = slot
      /\ truncated' = truncated /\ torn' = torn
  BY Zenon DEF clone, MayCall
<1>4. proc[o] \notin Without /\ o # p /\ pc[n] = "none" /\ n # t
  <2>1. \A s \in Threads : pc[s] # "none" => proc[ProcOf[s]] # "none" BY <1>0, Zenon DEF Living
  <2>2. \A s \in Threads : pc[s] \notin {"none", "exit"} => proc[ProcOf[s]] # "unmapping"
    BY <1>0, Zenon DEF Living
  <2>3. proc[p] = "none" /\ ProcOf[n] = p BY <1>2, Zenon
  <2>4. pc[t] = "user" BY <1>3, Zenon
  <2>5. pc[n] = "none" BY ONLY <2>1, <2>3, Zenon
  <2>6. proc[o] # "none" /\ proc[o] # "unmapping" BY ONLY <1>1, <2>1, <2>2, <2>4, Zenon
  <2> QED BY ONLY <2>3, <2>4, <2>5, <2>6, Zenon DEF Without
<1>5. fds[p] = <<>> /\ Len(fds[o]) \in Sizes /\ regtree[p] = NoRegions
  BY <1>0, <1>2, <1>4, Zenon DEF Tables, Without, Intact, Sited
<1>6. /\ fds'[p] = fds[o] /\ \A q \in Procs \ {p} : fds'[q] = fds[q]
      /\ regtree'[p] = regtree[o] /\ \A q \in Procs \ {p} : regtree'[q] = regtree[q]
      /\ proc'[p] = "alive" /\ \A q \in Procs \ {p} : proc'[q] = proc[q]
      /\ pc'[n] = "user" /\ \A s \in Threads \ {n} : pc'[s] = pc[s]
  BY <1>0, <1>1, <1>2, Zenon DEF TypeOK
<1>7. has[n] = Null BY <1>0, <1>4, Zenon DEF Holding, Owners, Users
<1>8. ASSUME NEW f \in FileSlots
      PROVE  /\ FileInv(f)' /\ file'[f] \in [used : BOOLEAN, refs : Nat, uses : Nat]
  <2> DEFINE E == {i \in DOMAIN fds[o] : fds[o][i] = f}
             R == {a \in Addrs : regtree[o][a] = f}
  <2>1. DOMAIN fds[o] \subseteq 1..MaxFds BY TableTypes, Zenon
  <2>2. IsFiniteSet(E) /\ IsFiniteSet(R)
    <3>1. IsFiniteSet(1..MaxFds) BY FS_Interval
    <3>2. E \subseteq 1..MaxFds BY <2>1, Zenon
    <3>3. IsFiniteSet(R) BY FilesAssumption, FS_Subset, Zenon
    <3> QED BY <3>1, <3>2, <3>3, FS_Subset, Zenon
  <2>3. Descs(f)' = Descs(f) \cup ({p} \X E) /\ Descs(f) \cap ({p} \X E) = {}
    <3>1. ASSUME NEW d \in Procs \X (1..MaxFds)
          PROVE  d \in Descs(f)' <=> d \in Descs(f) \cup ({p} \X E)
      <4>1. CASE d[1] = p BY <1>5, <1>6, <4>1 DEF Descs
      <4>2. CASE d[1] # p BY <1>6, <4>2, Zenon DEF Descs
      <4> QED BY <4>1, <4>2, Zenon
    <3>2. {p} \X E \subseteq Procs \X (1..MaxFds) BY <2>1, Zenon
    <3>3. Descs(f) \cap ({p} \X E) = {} BY <1>5 DEF Descs
    <3> QED BY <3>1, <3>2, <3>3, Zenon DEF Descs
  <2>4. Regions(f)' = Regions(f) \cup ({p} \X R) /\ Regions(f) \cap ({p} \X R) = {}
    <3>0. \A a \in Addrs : regtree[p][a] # f BY <1>5 DEF NoRegions
    <3>1. ASSUME NEW d \in Procs \X Addrs
          PROVE  d \in Regions(f)' <=> d \in Regions(f) \cup ({p} \X R)
      <4>1. CASE d[1] = p BY <1>6, <3>0, <4>1 DEF Regions
      <4>2. CASE d[1] # p BY <1>6, <4>2, Zenon DEF Regions
      <4> QED BY <4>1, <4>2, Zenon
    <3>2. {p} \X R \subseteq Procs \X Addrs BY Zenon
    <3>3. Regions(f) \cap ({p} \X R) = {} BY <3>0 DEF Regions
    <3> QED BY <3>1, <3>2, <3>3, Zenon DEF Regions
  <2>5. Descs(f) = {} => E = {}
    <3>1. ASSUME NEW i \in E PROVE <<o, i>> \in Descs(f) BY <2>1, Zenon DEF Descs
    <3> QED BY <3>1, Zenon
  <2>6. Regions(f) = {} => R = {}
    <3>1. ASSUME NEW a \in R PROVE <<o, a>> \in Regions(f) BY Zenon DEF Regions
    <3> QED BY <3>1, Zenon
  <2>7. /\ Entries(fds[ProcOf[t]], f) = Cardinality(E)
        /\ Entries(regtree[ProcOf[t]], f) = Cardinality(R)
    <3>1. DOMAIN regtree[o] = Addrs BY <1>0, Zenon DEF TypeOK
    <3> QED BY <1>1, <3>1, Zenon DEF Entries
  <2> HIDE DEF E, R
  <2>8. /\ IsFiniteSet(Descs(f)) /\ IsFiniteSet(Regions(f)) /\ Cardinality(At(f, Counted)) \in Nat
    BY Finite, Zenon
  <2>9. /\ Cardinality(Descs(f)) \in Nat /\ Cardinality(E) \in Nat
        /\ Cardinality(Descs(f)') = Cardinality(Descs(f)) + Cardinality(E)
        /\ Cardinality(Regions(f)) \in Nat /\ Cardinality(R) \in Nat
        /\ Cardinality(Regions(f)') = Cardinality(Regions(f)) + Cardinality(R)
    <3>1. /\ Cardinality(Descs(f)) \in Nat /\ Cardinality(E) \in Nat
          /\ Cardinality(Descs(f)') = Cardinality(Descs(f)) + Cardinality(E)
      BY ONLY <2>2, <2>3, <2>8, Copied, Zenon
    <3>2. /\ Cardinality(Regions(f)) \in Nat /\ Cardinality(R) \in Nat
          /\ Cardinality(Regions(f)') = Cardinality(Regions(f)) + Cardinality(R)
      BY ONLY <2>2, <2>4, <2>8, Copied, Zenon
    <3> QED BY <3>1, <3>2, Zenon
  <2>10. /\ file[f] \in [used : BOOLEAN, refs : Nat, uses : Nat]
         /\ file'[f] = [file[f] EXCEPT !.refs = @ + Cardinality(E) + Cardinality(R)]
    <3>1. file'[f] = [file[f] EXCEPT !.refs = @ + Entries(fds[ProcOf[t]], f)
                                                + Entries(regtree[ProcOf[t]], f)]
      BY <1>2, Zenon
    <3> QED BY <1>0, <2>7, <3>1, Zenon DEF TypeOK
  <2>11. /\ file'[f].used = file[f].used /\ file'[f].uses = file[f].uses
         /\ file'[f].refs = file[f].refs + Cardinality(E) + Cardinality(R)
         /\ file'[f] \in [used : BOOLEAN, refs : Nat, uses : Nat]
    BY <2>9, <2>10
  <2>12. At(f, Counted)' = At(f, Counted) /\ At(f, Users)' = At(f, Users)
    BY <1>3, <1>6, <1>7, Zenon DEF At
  <2>13. FileInv(f) BY <1>0, Zenon
  <2>14. file'[f].refs = Cardinality(Descs(f)') + Cardinality(Regions(f)')
                         + Cardinality(At(f, Counted)')
    BY <2>8, <2>9, <2>11, <2>12, <2>13 DEF FileInv
  <2>15. Descs(f) = {} => Descs(f)' = {} BY <2>3, <2>5, Zenon
  <2>16. Regions(f) = {} => Regions(f)' = {} BY <2>4, <2>6, Zenon
  <2>17. ASSUME ~file'[f].used
         PROVE  /\ file'[f] = Free /\ Descs(f)' = {} /\ Regions(f)' = {}
                /\ \A s \in Threads : has'[s] # f
    <3>1. file[f] = Free /\ Descs(f) = {} /\ Regions(f) = {} /\ \A s \in Threads : has[s] # f
      BY <2>11, <2>13, <2>17, Zenon DEF FileInv
    <3>2. Cardinality(E) = 0 /\ Cardinality(R) = 0 BY <2>5, <2>6, <3>1, NoElement, Zenon
    <3>3. file'[f] = Free BY <2>10, <3>1, <3>2 DEF Free
    <3> QED BY <1>3, <2>15, <2>16, <3>1, <3>3, Zenon
  <2>18. \A s \in Threads : has'[s] = f /\ pc'[s] \in Owners =>
           Descs(f)' = {} /\ Regions(f)' = {} /\ \A r \in Threads : has'[r] = f => r = s
    BY <1>3, <1>6, <1>7, <2>13, <2>15, <2>16, Zenon DEF FileInv
  <2> QED BY <2>11, <2>12, <2>13, <2>14, <2>17, <2>18, Zenon DEF FileInv
<1>9. TypeOK'
  <2>1. file' \in [FileSlots -> [used : BOOLEAN, refs : Nat, uses : Nat]]
    <3>1. file' = [f \in FileSlots |-> file'[f]] BY <1>2, Zenon
    <3>2. \A f \in FileSlots : file'[f] \in [used : BOOLEAN, refs : Nat, uses : Nat] BY <1>8, Zenon
    <3> QED BY ONLY <3>1, <3>2, Zenon
  <2>2. fds' \in [Procs -> Seq(FileSlots \cup {Null})] BY <1>0, <1>2, Zenon DEF TypeOK
  <2>3. \A q \in Procs : Len(fds'[q]) <= MaxFds
    <3>1. \A q \in Procs : Len(fds[q]) <= MaxFds BY <1>0, Zenon DEF TypeOK
    <3>2. Len(fds'[p]) <= MaxFds BY <1>6, <3>1, Zenon
    <3> QED BY <1>6, <3>1, <3>2, Zenon
  <2>4. /\ proc' \in [Procs -> {"none", "alive", "exiting", "unmapping"}]
        /\ pc' \in [Threads -> {"none", "user", "opened", "openFailed", "release",
                               "truncate", "unassoc", "close", "map", "exit"}]
    BY <1>0, <1>2, Zenon DEF TypeOK
  <2>5. TypeOK BY <1>0, Zenon
  <2>6. regtree' \in [Procs -> [Addrs -> FileSlots \cup {Null}]]
    BY <1>0, <1>1, <1>2, Zenon DEF TypeOK
  <2> QED BY ONLY <1>3, <2>1, <2>2, <2>3, <2>4, <2>5, <2>6, Zenon DEF TypeOK
<1>10. Tables' /\ Sited' BY <1>0, <1>4, <1>5, <1>6, Zenon DEF Tables, Without, Intact, Sited
<1>11. Living'
  <2>1. \A s \in Threads : ProcOf[s] = p => pc[s] = "none"
    <3>1. \A s \in Threads : pc[s] # "none" => proc[ProcOf[s]] # "none" BY <1>0, Zenon DEF Living
    <3> QED BY ONLY <1>2, <3>1, Zenon
  <2> QED BY <1>0, <1>2, <1>6, <2>1 DEF Living
<1>12. Holding'
  <2>1. \A s \in Threads : ProcOf[s] = p => pc[s] = "none"
    <3>1. \A s \in Threads : pc[s] # "none" => proc[ProcOf[s]] # "none" BY <1>0, Zenon DEF Living
    <3> QED BY ONLY <1>2, <3>1, Zenon
  <2> QED BY <1>0, <1>2, <1>3, <1>4, <1>6, <1>7, <2>1 DEF Holding, Owners, Users
<1> QED BY <1>8, <1>9, <1>10, <1>11, <1>12, Zenon DEF Intact

(* exit: the last thread of a process starts to destroy the table. *)
LEMMA ExitStep ==
  ASSUME Intact, NEW t \in Threads, exit(t)
  PROVE  Intact'
<1> USE FileFacts DEF Goto
<1>0. TypeOK /\ Tables /\ Living /\ Holding /\ \A f \in FileSlots : FileInv(f) BY Zenon DEF Intact
<1>r. /\ regtree' = regtree
      /\ \A h : Regions(h)' = Regions(h) /\ Cardinality(Regions(h)) \in Nat
  BY SameRegions, Zenon DEF exit
<1> USE <1>r
<1>1. PICK p \in Procs : p = ProcOf[t] BY Zenon
<1>2. /\ pc[t] = "user" /\ proc' = [proc EXCEPT ![p] = "exiting"]
      /\ pc' = [pc EXCEPT ![t] = "exit"]
      /\ \A s \in Threads \ {t} : ProcOf[s] = p => pc[s] = "none"
      /\ fds' = fds /\ file' = file /\ has' = has /\ slot' = slot
      /\ truncated' = truncated /\ torn' = torn
  BY <1>1, Zenon DEF exit, MayCall
<1>3. /\ proc'[p] = "exiting" /\ \A q \in Procs \ {p} : proc'[q] = proc[q]
      /\ pc'[t] = "exit" /\ \A s \in Threads \ {t} : pc'[s] = pc[s]
  BY <1>0, <1>2, Zenon DEF TypeOK
<1>4. has[t] = Null /\ proc[p] \notin Without BY <1>0, <1>1, <1>2, Zenon
  DEF Holding, Owners, Users, Living, Without
<1>5. \A f \in FileSlots : Untouched(f) BY <1>2, <1>3, <1>4, Zenon DEF Untouched, Ref
<1>6. \A f \in FileSlots : FileInv(f)' BY <1>0, <1>5, SameFile, Zenon
<1>7. TypeOK' BY <1>0, <1>2, Zenon DEF TypeOK
<1>8. Tables' /\ Sited' BY <1>0, <1>2, <1>3, <1>4, Zenon DEF Tables, Without, Intact, Sited
<1>9. Living' BY <1>0, <1>1, <1>2, <1>3 DEF Living
<1>10. Holding' BY <1>0, <1>2, <1>3, <1>4, Zenon DEF Holding, Owners, Users
<1> QED BY <1>6, <1>7, <1>8, <1>9, <1>10, Zenon DEF Intact

(* destroy closes one descriptor, or frees the table when it has none. *)
LEMMA DestroyStep ==
  ASSUME Intact, NEW t \in Threads, destroy(t)
  PROVE  Intact'
<1> USE FileFacts DEF Goto, Hold
<1>0. TypeOK /\ Tables /\ Living /\ Holding /\ \A f \in FileSlots : FileInv(f) BY Zenon DEF Intact
<1>r. /\ regtree' = regtree
      /\ \A h : Regions(h)' = Regions(h) /\ Cardinality(Regions(h)) \in Nat
  BY SameRegions, Zenon DEF destroy
<1> USE <1>r
<1>1. PICK p \in Procs : p = ProcOf[t] BY Zenon
<1>2. /\ pc[t] = "exit" /\ slot' = slot /\ truncated' = truncated /\ torn' = torn
      /\ has[t] = Null /\ proc[p] = "exiting"
  BY <1>0, <1>1, Zenon DEF destroy, Holding, Owners, Users
<1>3. ASSUME NEW i \in DOMAIN fds[p], fds[p][i] # Null, incUsages(fds[p][i]),
             Hold(t, fds[p][i]), Set(p, i, Null), Goto(t, "close"), proc' = proc
      PROVE  Intact'
  <2>1. PICK g \in FileSlots : g = fds[p][i] BY <1>3, TableTypes, Zenon
  <2>2. /\ file' = [file EXCEPT ![g].uses = @ + 1] /\ has' = [has EXCEPT ![t] = g]
        /\ pc' = [pc EXCEPT ![t] = "close"]
    BY <1>3, <2>1, Zenon DEF incUsages
  <2>3. /\ fds' \in [Procs -> Seq(FileSlots \cup {Null})]
        /\ Sized /\ Others(p, i)
        /\ \A f : (Ref(p, i, f)' <=> Null = f) /\ (Ref(p, i, f) <=> fds[p][i] = f)
    BY <1>3, SetEntry, Zenon
  <2>4. i \in 1..MaxFds BY TableTypes, Zenon
  <2>5. /\ pc'[t] = "close" /\ has'[t] = g
        /\ \A s \in Threads \ {t} : pc'[s] = pc[s] /\ has'[s] = has[s] /\ slot'[s] = slot[s]
    BY <1>0, <1>2, <2>2, Zenon DEF TypeOK
  <2>6. /\ file[g] \in [used : BOOLEAN, refs : Nat, uses : Nat]
        /\ file'[g] = [file[g] EXCEPT !.uses = @ + 1]
        /\ \A f \in FileSlots \ {g} : file'[f] = file[f]
    BY <1>0, <2>2, Zenon DEF TypeOK
  <2>7. /\ file'[g].used = file[g].used /\ file'[g].refs = file[g].refs
        /\ file'[g].uses = file[g].uses + 1 /\ file[g].uses \in Nat
        /\ file'[g] \in [used : BOOLEAN, refs : Nat, uses : Nat]
    BY <2>6
  <2>8. OneFile(t, p, i, g)
    <3>1. ASSUME NEW q \in Procs, NEW j \in 1..MaxFds, NEW f \in FileSlots,
                 q # p \/ j # i \/ f # g
          PROVE  Ref(q, j, f)' <=> Ref(q, j, f)
      <4>1. CASE q # p \/ j # i BY <2>3, <4>1, Zenon DEF Others
      <4>2. CASE q = p /\ j = i /\ f # g BY <2>1, <2>3, <4>2, Zenon
      <4> QED BY <3>1, <4>1, <4>2, Zenon
    <3>2. {has[t], has'[t]} \subseteq {g, Null} BY <1>2, <2>5, Zenon
    <3> QED BY <2>5, <2>6, <3>1, <3>2, Zenon DEF OneFile
  <2>9. Ref(p, i, g) /\ ~Ref(p, i, g)' BY <2>1, <2>3, Zenon
  <2>10. /\ Cardinality(At(g, Counted)) \in Nat /\ Cardinality(At(g, Users)) \in Nat
         /\ Cardinality(Descs(g)) \in Nat
         /\ Cardinality(Descs(g)') = Cardinality(Descs(g)) - 1
         /\ Cardinality(At(g, Counted)') = Cardinality(At(g, Counted)) + 1
         /\ Cardinality(At(g, Users)') = Cardinality(At(g, Users)) + 1
    <3>1. pc'[t] \in Counted /\ pc'[t] \in Users /\ has[t] # g BY <1>2, <2>5, Zenon
      DEF Counted, Users
    <3> QED BY <1>0, <2>4, <2>5, <2>8, <2>9, <3>1, OneFileStep DEF Num
  <2>11. file[g].used /\ \A s \in Threads : has[s] = g => pc[s] \notin Owners
    BY <2>4, <2>9, Described, Zenon
  <2>12. FileInv(g)'
    <3>1. FileInv(g) BY <1>0, Zenon
    <3>2. file'[g].refs = Cardinality(Descs(g)') + Cardinality(Regions(g)')
                          + Cardinality(At(g, Counted)')
      BY <2>7, <2>10, <3>1 DEF FileInv
    <3>3. file'[g].uses >= Cardinality(At(g, Users)') BY <2>7, <2>10, <3>1 DEF FileInv
    <3>4. \A s \in Threads : has'[s] = g => pc'[s] \notin Owners
      BY <2>5, <2>11, Zenon DEF Owners
    <3> QED BY <2>7, <2>11, <3>2, <3>3, <3>4, Zenon DEF FileInv
  <2>13. TypeOK'
    <3>1. file' \in [FileSlots -> [used : BOOLEAN, refs : Nat, uses : Nat]]
      BY <1>0, <2>2, <2>6, <2>7, Zenon DEF TypeOK
    <3>2. /\ has' \in [Threads -> FileSlots \cup {Null}]
          /\ pc' \in [Threads -> {"none", "user", "opened", "openFailed", "release",
                                 "truncate", "unassoc", "close", "map", "exit"}]
      BY <1>0, <2>2, Zenon DEF TypeOK
    <3>3. /\ proc' \in [Procs -> {"none", "alive", "exiting", "unmapping"}]
          /\ slot' \in [Threads -> 0..MaxFds] /\ truncated' \in SUBSET FileSlots
          /\ torn' \in SUBSET Threads
          /\ regtree' \in [Procs -> [Addrs -> FileSlots \cup {Null}]]
      BY <1>0, <1>2, <1>3, Zenon DEF TypeOK
    <3> QED BY ONLY <2>3, <3>1, <3>2, <3>3, Zenon DEF TypeOK, Sized
  <2>14. Moves(t) BY <1>1, <1>2, <1>3, <2>3, <2>5, Zenon DEF Moves, Sized, Owners, Users
  <2> QED BY <2>4, <2>8, <2>12, <2>13, <2>14, StepOf, Zenon
<1>4. CASE /\ \A i \in DOMAIN fds[p] : fds[p][i] = Null
           /\ fds' = [fds EXCEPT ![p] = <<>>]
           /\ proc' = [proc EXCEPT ![p] = "unmapping"]
           /\ UNCHANGED <<file, has, pc>>
  <2>1. /\ proc'[p] = "unmapping" /\ \A q \in Procs \ {p} : proc'[q] = proc[q]
        /\ fds'[p] = <<>> /\ \A q \in Procs \ {p} : fds'[q] = fds[q]
        /\ pc' = pc
    BY <1>0, <1>4, Zenon DEF TypeOK
  <2>2. \A s \in Threads \ {t} : ProcOf[s] = p => pc[s] = "none"
    BY <1>0, <1>1, <1>2, Zenon DEF Living
  <2>3. ASSUME NEW f \in FileSlots PROVE Untouched(f)
    <3>1. ASSUME NEW q \in Procs, NEW j \in 1..MaxFds PROVE Ref(q, j, f)' <=> Ref(q, j, f)
      <4>1. CASE q = p BY <1>4, <2>1, <4>1 DEF Ref
      <4>2. CASE q # p BY <2>1, <4>2, Zenon DEF Ref
      <4> QED BY <4>1, <4>2, Zenon
    <3> QED BY <1>4, <3>1, Zenon DEF Untouched
  <2>4. \A f \in FileSlots : FileInv(f)' BY <1>0, <2>3, SameFile, Zenon
  <2>5. TypeOK'
    <3>1. fds' \in [Procs -> Seq(FileSlots \cup {Null})] /\ \A q \in Procs : Len(fds'[q]) <= MaxFds
      BY <1>0, <1>4, <2>1 DEF TypeOK
    <3> QED BY <1>0, <1>2, <1>4, <3>1, Zenon DEF TypeOK
  <2>6. Tables' /\ Sited' BY <1>0, <2>1, Zenon DEF Tables, Without, Intact, Sited
  <2>7. Living' BY <1>0, <1>1, <1>2, <2>1, <2>2 DEF Living
  <2>8. Holding' BY <1>0, <1>2, <1>4, <2>1, <2>2, Zenon DEF Holding, Owners, Users
  <2> QED BY <2>4, <2>5, <2>6, <2>7, <2>8, Zenon DEF Intact
<1> QED BY <1>1, <1>3, <1>4, Zenon DEF destroy, Set

(* A region that refers to a file keeps it. *)
LEMMA Regioned ==
  ASSUME Intact, NEW p \in Procs, NEW a \in Addrs, NEW f \in FileSlots, regtree[p][a] = f
  PROVE  /\ file[f].used /\ file[f].refs >= 1 /\ file[f].refs \in Nat
         /\ Cardinality(Regions(f)) \in Nat /\ Cardinality(Regions(f)) >= 1
         /\ \A s \in Threads : has[s] = f => pc[s] \notin Owners
<1>0. FileInv(f) /\ file[f].refs \in Nat BY Zenon DEF Intact, TypeOK
<1>1. <<p, a>> \in Regions(f) BY Zenon DEF Regions
<1>2. /\ IsFiniteSet(Regions(f)) /\ Cardinality(At(f, Counted)) \in Nat
      /\ Cardinality(Descs(f)) \in Nat
  BY Finite, Zenon
<1>3. Cardinality(Regions(f)) \in Nat /\ Cardinality(Regions(f)) >= 1
  BY <1>1, <1>2, Small, Zenon
<1>4. file[f].refs >= 1 BY <1>0, <1>2, <1>3 DEF FileInv
<1> QED BY <1>0, <1>1, <1>3, <1>4, Zenon DEF FileInv

(***************************************************************************)
(* map: the region gets a reference of its own, even if the descriptor has *)
(* been closed meanwhile, because the thread uses the file.                *)
(***************************************************************************)
LEMMA MapStep ==
  ASSUME Intact, NEW t \in Threads, map(t), torn' = {}
  PROVE  Intact'
<1> USE FileFacts DEF Goto
<1>0. TypeOK /\ Tables /\ Living /\ Holding /\ \A f \in FileSlots : FileInv(f) BY Zenon DEF Intact
<1>1. /\ pc[t] = "map" /\ proc' = proc /\ fds' = fds /\ has' = has /\ slot' = slot
      /\ pc' = [pc EXCEPT ![t] = "release"] /\ truncated' = truncated
      /\ torn' \in SUBSET Threads
  BY Zenon DEF map
<1>2. PICK g \in FileSlots : has[t] = g BY <1>0, <1>1, Zenon DEF TypeOK, Holding, Owners, Users
<1>3. FileInv(g) /\ file[g].used BY <1>0, <1>2, Zenon DEF FileInv
<1>4. /\ fds' \in [Procs -> Seq(FileSlots \cup {Null})] /\ Sized
      /\ (\A q, j, f : Ref(q, j, f)' <=> Ref(q, j, f)) /\ \A f : Descs(f)' = Descs(f)
  BY <1>1, SameTables, Zenon
<1>5. /\ pc'[t] = "release" /\ has'[t] = g
      /\ \A s \in Threads \ {t} : pc'[s] = pc[s] /\ has'[s] = has[s] /\ slot'[s] = slot[s]
  BY <1>0, <1>1, <1>2, Zenon DEF TypeOK
<1>6. \A s \in Threads : has[s] = g => pc[s] \in Users
  BY <1>1, <1>2, OnlyUser, Zenon DEF Users
<1>7. At(g, Counted)' = At(g, Counted) /\ At(g, Users)' = At(g, Users)
  BY <1>1, <1>5, Zenon DEF At, Counted, Users
<1>8. \A s \in Threads : has'[s] = g => pc'[s] \notin Owners
  BY <1>5, <1>6, Zenon DEF Owners, Users
<1>9. Moves(t) BY <1>1, <1>4, <1>5, Zenon DEF Moves, Sized, Owners, Users
<1>10. Tables' /\ Living' /\ Holding' BY <1>9, MovesStep, Zenon
<1>11. pc' \in [Threads -> {"none", "user", "opened", "openFailed", "release",
                           "truncate", "unassoc", "close", "map", "exit"}]
  BY <1>0, <1>1, Zenon DEF TypeOK
<1>12. CASE UNCHANGED <<regtree, file>>
  <2>1. Regions(g)' = Regions(g) BY <1>12, SameRegions, Zenon
  <2>2. FileInv(g)' BY <1>3, <1>4, <1>7, <1>8, <1>12, <2>1, Zenon DEF FileInv
  <2>3. OneFile(t, First, 1, g) BY <1>2, <1>4, <1>5, <1>12, Zenon DEF OneFile
  <2>4. TypeOK' BY <1>0, <1>1, <1>4, <1>11, <1>12, Zenon DEF TypeOK, Sized
  <2> QED BY <1>9, <2>2, <2>3, <2>4, StepOf, Zenon
<1>13. ASSUME NEW a \in Addrs, regtree[ProcOf[t]][a] = Null,
              regtree' = [regtree EXCEPT ![ProcOf[t]][a] = has[t]],
              file' = [file EXCEPT ![has[t]].refs = @ + 1]
       PROVE  Intact'
  <2>1. PICK p \in Procs : p = ProcOf[t] BY Zenon
  <2>2. /\ regtree' \in [Procs -> [Addrs -> FileSlots \cup {Null}]]
        /\ regtree'[p][a] = g /\ regtree[p][a] = Null
        /\ \A q \in Procs, b \in Addrs : q # p \/ b # a => regtree'[q][b] = regtree[q][b]
        /\ \A q \in Procs \ {p} : regtree'[q] = regtree[q]
    <3>1. regtree \in [Procs -> [Addrs -> FileSlots \cup {Null}]] BY <1>0, Zenon DEF TypeOK
    <3>2. regtree' = [regtree EXCEPT ![p] = [regtree[p] EXCEPT ![a] = g]]
      BY <1>2, <1>13, <2>1, <3>1, Zenon
    <3>3. regtree[p] \in [Addrs -> FileSlots \cup {Null}] BY <3>1, Zenon
    <3>4. /\ regtree'[p] = [regtree[p] EXCEPT ![a] = g]
          /\ \A q \in Procs \ {p} : regtree'[q] = regtree[q]
      BY <3>1, <3>2, Zenon
    <3>5. /\ [regtree[p] EXCEPT ![a] = g] \in [Addrs -> FileSlots \cup {Null}]
          /\ [regtree[p] EXCEPT ![a] = g][a] = g
          /\ \A b \in Addrs \ {a} : [regtree[p] EXCEPT ![a] = g][b] = regtree[p][b]
      BY <3>3, Zenon
    <3>6. regtree' \in [Procs -> [Addrs -> FileSlots \cup {Null}]] BY <3>1, <3>2, <3>5, Zenon
    <3> QED BY <1>13, <2>1, <3>4, <3>5, <3>6, Zenon
  <2>3. /\ file[g] \in [used : BOOLEAN, refs : Nat, uses : Nat]
        /\ file'[g] = [file[g] EXCEPT !.refs = @ + 1]
        /\ \A f \in FileSlots \ {g} : file'[f] = file[f]
    BY <1>0, <1>2, <1>13, Zenon DEF TypeOK
  <2>4. /\ file'[g].used = file[g].used /\ file'[g].uses = file[g].uses
        /\ file'[g].refs = file[g].refs + 1 /\ file[g].refs \in Nat
        /\ file'[g] \in [used : BOOLEAN, refs : Nat, uses : Nat]
    BY <2>3
  <2>5. Cardinality(Regions(g)) \in Nat /\ Cardinality(Regions(g)') = Cardinality(Regions(g)) + 1
    <3>1. /\ Cardinality(Regions(g)) \in Nat
          /\ Cardinality(Regions(g)') = Cardinality(Regions(g))
               + Num(regtree'[p][a] = g) - Num(regtree[p][a] = g)
      <4>1. \A q \in Procs, b \in Addrs :
              q # p \/ b # a => (regtree'[q][b] = g <=> regtree[q][b] = g)
        BY <2>2, Zenon
      <4> QED BY ONLY <4>1, RegionCount
    <3>2. regtree'[p][a] = g /\ regtree[p][a] # g BY <2>2, Zenon
    <3> QED BY <3>1, <3>2 DEF Num
  <2>6. Cardinality(Descs(g)) \in Nat /\ Cardinality(At(g, Counted)) \in Nat BY Finite, Zenon
  <2>7. file'[g].refs = Cardinality(Descs(g)') + Cardinality(Regions(g)')
                        + Cardinality(At(g, Counted)')
    BY <1>3, <1>4, <1>7, <2>4, <2>5, <2>6 DEF FileInv
  <2>8. FileInv(g)' BY <1>3, <1>7, <1>8, <2>4, <2>7, Zenon DEF FileInv
  <2>9. ASSUME NEW f \in FileSlots \ {g} PROVE FileInv(f)'
    <3>1. ASSUME NEW q \in Procs, NEW b \in Addrs PROVE regtree'[q][b] = f <=> regtree[q][b] = f
      <4>1. CASE q # p \/ b # a BY <2>2, <4>1, Zenon
      <4>2. CASE q = p /\ b = a BY <2>2, <4>2, Zenon
      <4> QED BY <4>1, <4>2, Zenon
    <3>2. \A s \in Threads : /\ has'[s] = f <=> has[s] = f
                             /\ has[s] = f => pc'[s] = pc[s]
      BY <1>2, <1>5, Zenon
    <3>3. Untouched(f) BY <1>4, <2>3, <3>1, <3>2, Zenon DEF Untouched
    <3> QED BY <1>0, <3>3, SameFile, Zenon
  <2>10. TypeOK'
    <3>1. file' \in [FileSlots -> [used : BOOLEAN, refs : Nat, uses : Nat]]
      BY <1>0, <1>2, <1>13, <2>3, <2>4, Zenon DEF TypeOK
    <3> QED BY <1>0, <1>1, <1>4, <1>11, <2>2, <3>1, Zenon DEF TypeOK, Sized
  <2>11. Sited'
    <3>1. proc[p] # "none" BY <1>0, <1>1, <2>1, Zenon DEF Living
    <3> QED BY <1>1, <2>2, <3>1, Zenon DEF Intact, Sited
  <2> QED BY <1>10, <2>8, <2>9, <2>10, <2>11, Zenon DEF Intact
<1>14. ASSUME UNCHANGED regtree,
              file' = [[file EXCEPT ![has[t]].refs = @ + 1] EXCEPT ![has[t]] = doClose(@)],
              torn' = torn \cup Bereft([file EXCEPT ![has[t]].refs = @ + 1], has[t])
       PROVE  UNCHANGED <<regtree, file>>
  <2>1. PICK r \in [used : BOOLEAN, refs : Nat, uses : Nat] : r = file[g]
    BY <1>0, <1>2, Zenon DEF TypeOK
  <2> DEFINE m == [r EXCEPT !.refs = @ + 1]
             more == [file EXCEPT ![g] = m]
  <2>2. more = [file EXCEPT ![has[t]].refs = @ + 1] BY <1>2, <2>1, Zenon
  <2>3. more[g] = m /\ more \in [FileSlots -> [used : BOOLEAN, refs : Nat, uses : Nat]]
    <3>1. m \in [used : BOOLEAN, refs : Nat, uses : Nat] BY <2>1
    <3>2. file \in [FileSlots -> [used : BOOLEAN, refs : Nat, uses : Nat]] BY <1>0, Zenon DEF TypeOK
    <3> HIDE DEF m
    <3> QED BY <3>1, <3>2, Zenon
  <2>4. m.refs # 1
    <3>1. Bereft(more, g) = {} BY <1>2, <1>14, <2>2, Zenon
    <3>2. more[g].refs # 1 BY <1>2, <3>1, Zenon DEF Bereft
    <3> QED BY <2>3, <3>2, Zenon
  <2>5. doClose(m) = r
    <3>1. r \in [used : BOOLEAN, refs : Nat, uses : Nat] /\ r.refs \in Nat BY <2>1
    <3>2. m.refs = r.refs + 1 BY <3>1
    <3>3. r.refs > 0 /\ m.refs > 0 /\ m.refs - 1 = r.refs BY ONLY <2>4, <3>1, <3>2
    <3>4. doClose(m) = [m EXCEPT !.refs = r.refs]
      <4> HIDE DEF m
      <4>1. m.refs - 1 # 0 BY ONLY <3>3
      <4> QED BY ONLY <3>3, <4>1, Zenon DEF doClose
    <3>5. [m EXCEPT !.refs = r.refs] = r
      <4>1. r = [used |-> r.used, refs |-> r.refs, uses |-> r.uses] BY ONLY <3>1
      <4>2. m = [used |-> r.used, refs |-> r.refs + 1, uses |-> r.uses] BY ONLY <4>1
      <4> HIDE DEF m
      <4>3. [m EXCEPT !.refs = r.refs] = [used |-> r.used, refs |-> r.refs, uses |-> r.uses]
        BY ONLY <4>2
      <4> QED BY ONLY <4>1, <4>3, Zenon
    <3> QED BY <3>4, <3>5, Zenon
  <2>6. file' = [more EXCEPT ![g] = doClose(more[g])] BY <1>2, <1>14, <2>2, Zenon
  <2>7. file' = [more EXCEPT ![g] = file[g]]
    <3>1. doClose(more[g]) = file[g] BY <2>1, <2>3, <2>5, Zenon
    <3> HIDE DEF more
    <3> QED BY ONLY <2>6, <3>1, Zenon
  <2>8. file' = file
    <3>1. file \in [FileSlots -> [used : BOOLEAN, refs : Nat, uses : Nat]] BY <1>0, Zenon DEF TypeOK
    <3> HIDE DEF m
    <3>2. \A f \in FileSlots : [more EXCEPT ![g] = file[g]][f] = file[f] BY <3>1, Zenon
    <3>3. DOMAIN [more EXCEPT ![g] = file[g]] = FileSlots BY <3>1, Zenon
    <3> QED BY ONLY <2>7, <3>1, <3>2, <3>3
  <2> QED BY <1>14, <2>8, Zenon
<1> QED BY <1>12, <1>13, <1>14, Zenon DEF map

(***************************************************************************)
(* VMTree::remove: the region is gone, and its file is closed without a    *)
(* usage.  If that was the last reference then no thread has got the file, *)
(* because nothing is torn.                                                *)
(***************************************************************************)
LEMMA RemoveStep ==
  ASSUME Intact, NEW p \in Procs, NEW a \in Addrs, remove(p, a), torn' = {},
         UNCHANGED <<proc, fds, pc, has, slot, truncated>>
  PROVE  Intact'
<1> USE FileFacts
<1>0. TypeOK /\ Tables /\ Living /\ Holding /\ \A f \in FileSlots : FileInv(f) BY Zenon DEF Intact
<1>t. /\ proc' = proc /\ fds' = fds /\ pc' = pc /\ has' = has /\ slot' = slot
      /\ truncated' = truncated
  BY Zenon
<1>1. PICK g \in FileSlots : g = regtree[p][a]
  <2>0. regtree \in [Procs -> [Addrs -> FileSlots \cup {Null}]] BY <1>0, Zenon DEF TypeOK
  <2>1. regtree[p][a] \in FileSlots \cup {Null} BY ONLY <2>0
  <2> QED BY <2>1, Zenon DEF remove
<1>2. /\ file' = [file EXCEPT ![g] = doClose(@)]
      /\ regtree' = [regtree EXCEPT ![p][a] = Null]
      /\ torn' = torn \cup Bereft(file, g)
  BY <1>1, Zenon DEF remove
<1>3. /\ regtree' \in [Procs -> [Addrs -> FileSlots \cup {Null}]]
      /\ regtree'[p][a] = Null
      /\ \A q \in Procs, b \in Addrs : q # p \/ b # a => regtree'[q][b] = regtree[q][b]
      /\ \A q \in Procs \ {p} : regtree'[q] = regtree[q]
  <2>1. regtree \in [Procs -> [Addrs -> FileSlots \cup {Null}]] BY <1>0, Zenon DEF TypeOK
  <2>2. regtree' = [regtree EXCEPT ![p] = [regtree[p] EXCEPT ![a] = Null]]
    BY <1>2, <2>1, Zenon
  <2>3. regtree[p] \in [Addrs -> FileSlots \cup {Null}] BY <2>1, Zenon
  <2>4. /\ regtree'[p] = [regtree[p] EXCEPT ![a] = Null]
        /\ \A q \in Procs \ {p} : regtree'[q] = regtree[q]
    BY <2>1, <2>2, Zenon
  <2>5. /\ [regtree[p] EXCEPT ![a] = Null] \in [Addrs -> FileSlots \cup {Null}]
        /\ [regtree[p] EXCEPT ![a] = Null][a] = Null
        /\ \A b \in Addrs \ {a} : [regtree[p] EXCEPT ![a] = Null][b] = regtree[p][b]
    BY <2>3, Zenon
  <2>6. regtree' \in [Procs -> [Addrs -> FileSlots \cup {Null}]] BY <2>1, <2>2, <2>5, Zenon
  <2> QED BY <2>4, <2>5, <2>6, Zenon
<1>4. /\ FileInv(g) /\ file[g].used /\ file[g].refs >= 1 /\ file[g].refs \in Nat
      /\ Cardinality(Regions(g)) \in Nat /\ Cardinality(Regions(g)) >= 1
      /\ \A s \in Threads : has[s] = g => pc[s] \notin Owners
  BY <1>0, <1>1, Regioned, Zenon
<1>5. Cardinality(Regions(g)') = Cardinality(Regions(g)) - 1
  <2>1. Cardinality(Regions(g)') = Cardinality(Regions(g))
          + Num(regtree'[p][a] = g) - Num(regtree[p][a] = g)
    <3>1. \A q \in Procs, b \in Addrs :
            q # p \/ b # a => (regtree'[q][b] = g <=> regtree[q][b] = g)
      BY <1>3, Zenon
    <3> QED BY ONLY <3>1, RegionCount
  <2>2. regtree'[p][a] # g /\ regtree[p][a] = g BY <1>1, <1>3, Zenon
  <2> QED BY <1>4, <2>1, <2>2 DEF Num
<1>6. /\ file \in [FileSlots -> [used : BOOLEAN, refs : Nat, uses : Nat]]
      /\ file[g] \in [used : BOOLEAN, refs : Nat, uses : Nat]
      /\ file'[g] = doClose(file[g])
      /\ \A f \in FileSlots \ {g} : file'[f] = file[f]
  BY <1>0, <1>2, Zenon DEF TypeOK
<1>7. /\ \A f : Descs(f)' = Descs(f)
      /\ At(g, Counted)' = At(g, Counted) /\ At(g, Users)' = At(g, Users)
  BY <1>t, Zenon DEF Descs, At
<1>8. Cardinality(Descs(g)) \in Nat /\ Cardinality(At(g, Counted)) \in Nat BY Finite, Zenon
<1>9. \/ file'[g] = Free /\ file[g].refs = 1
      \/ file'[g] = [file[g] EXCEPT !.refs = file[g].refs - 1]
  BY <1>4, <1>6 DEF doClose
<1>10. FileInv(g)' /\ file'[g] \in [used : BOOLEAN, refs : Nat, uses : Nat]
  <2>1. CASE file'[g] = Free /\ file[g].refs = 1
    <3>1. /\ file'[g].refs = 0 /\ file'[g].uses = 0 /\ ~file'[g].used
          /\ file'[g] \in [used : BOOLEAN, refs : Nat, uses : Nat]
      BY <2>1 DEF Free
    <3>2. \A s \in Threads : has'[s] # g BY <1>t, <1>2, <2>1, Zenon DEF Bereft
    <3>3. At(g, Counted)' = {} /\ At(g, Users)' = {} BY <3>2, Zenon DEF At
    <3>4. Cardinality(Regions(g)) = 1 /\ Cardinality(Descs(g)) = 0
      <4>1. file[g].refs = Cardinality(Descs(g)) + Cardinality(Regions(g))
                           + Cardinality(At(g, Counted))
        BY <1>4, Zenon DEF FileInv
      <4>2. file[g].refs = 1 BY <2>1, Zenon
      <4> QED BY ONLY <1>4, <1>8, <4>1, <4>2
    <3>5. Descs(g)' = {}
      <4>1. IsFiniteSet(Descs(g)) BY Finite, Zenon
      <4> QED BY <1>7, <3>4, <4>1, Small, Zenon
    <3>6. Regions(g)' = {}
      <4>1. Regions(g)' \subseteq Regions(g) BY <1>1, <1>3 DEF Regions
      <4>2. IsFiniteSet(Regions(g)') BY <4>1, Finite, FS_Subset, Zenon
      <4>3. Cardinality(Regions(g)') = 0 BY <1>5, <3>4
      <4> QED BY <4>2, <4>3, Small, Zenon
    <3>7. /\ Cardinality(Descs(g)') = 0 /\ Cardinality(Regions(g)') = 0
          /\ Cardinality(At(g, Counted)') = 0 /\ Cardinality(At(g, Users)') = 0
      BY <3>3, <3>5, <3>6, NoElement, Zenon
    <3> QED BY <2>1, <3>1, <3>2, <3>5, <3>6, <3>7 DEF FileInv
  <2>2. CASE file'[g] = [file[g] EXCEPT !.refs = file[g].refs - 1]
    <3>1. /\ file'[g].refs = file[g].refs - 1 /\ file'[g].uses = file[g].uses /\ file'[g].used
          /\ file'[g] \in [used : BOOLEAN, refs : Nat, uses : Nat]
      BY <1>4, <1>6, <2>2
    <3>2. file'[g].refs = Cardinality(Descs(g)') + Cardinality(Regions(g)')
                          + Cardinality(At(g, Counted)')
      BY <1>4, <1>5, <1>7, <1>8, <3>1 DEF FileInv
    <3>3. FileInv(g)' BY <1>t, <1>4, <1>7, <3>1, <3>2, Zenon DEF FileInv
    <3> QED BY <3>1, <3>3, Zenon
  <2> QED BY <1>9, <2>1, <2>2, Zenon
<1>11. ASSUME NEW f \in FileSlots \ {g} PROVE FileInv(f)'
  <2>1. ASSUME NEW q \in Procs, NEW b \in Addrs PROVE regtree'[q][b] = f <=> regtree[q][b] = f
    <3>1. CASE q # p \/ b # a BY <1>3, <3>1, Zenon
    <3>2. CASE q = p /\ b = a BY <1>1, <1>3, <3>2, Zenon
    <3> QED BY <3>1, <3>2, Zenon
  <2>2. Untouched(f) BY <1>t, <1>6, <2>1, Zenon DEF Untouched, Ref
  <2> QED BY <1>0, <2>2, SameFile, Zenon
<1>12. TypeOK'
  <2>1. file' \in [FileSlots -> [used : BOOLEAN, refs : Nat, uses : Nat]]
    BY <1>2, <1>6, <1>10, Zenon
  <2>2. torn' \in SUBSET Threads BY Zenon
  <2> QED BY <1>0, <1>t, <1>3, <2>1, <2>2, Zenon DEF TypeOK
<1>13. Tables' /\ Living' /\ Holding' BY <1>0, <1>t, Zenon DEF Tables, Living, Holding
<1>14. Sited'
  <2>1. proc[p] # "none"
    <3>1. SUFFICES ASSUME proc[p] = "none" PROVE FALSE BY Zenon
    <3>2. regtree[p] = NoRegions BY <3>1, Zenon DEF Intact, Sited
    <3>3. regtree[p][a] = Null BY <3>2, Zenon DEF NoRegions
    <3> QED BY <1>1, <3>3, Zenon
  <2> QED BY <1>t, <1>3, <2>1, Zenon DEF Intact, Sited
<1> QED BY <1>10, <1>11, <1>12, <1>13, <1>14, Zenon DEF Intact

(* doRemoveRegions removes one region, or ends the process without any. *)
LEMMA DoRemoveRegionsStep ==
  ASSUME Intact, NEW t \in Threads, doRemoveRegions(t), torn' = {}
  PROVE  Intact'
<1> USE FileFacts DEF Goto
<1>0. TypeOK /\ Tables /\ Living /\ Holding /\ \A f \in FileSlots : FileInv(f) BY Zenon DEF Intact
<1>1. PICK p \in Procs : p = ProcOf[t] BY Zenon
<1>2. /\ pc[t] = "exit" /\ proc[p] = "unmapping"
      /\ fds' = fds /\ has' = has /\ slot' = slot /\ truncated' = truncated
  BY <1>1, Zenon DEF doRemoveRegions
<1>3. CASE (\E a \in Addrs : remove(p, a)) /\ UNCHANGED <<proc, pc>>
  BY <1>2, <1>3, RemoveStep, Zenon
<1>4. CASE /\ regtree[p] = NoRegions /\ proc' = [proc EXCEPT ![p] = "none"]
           /\ Goto(t, "none") /\ UNCHANGED <<regtree, file, torn>>
  <2>1. /\ proc'[p] = "none" /\ \A q \in Procs \ {p} : proc'[q] = proc[q]
        /\ pc'[t] = "none" /\ \A s \in Threads \ {t} : pc'[s] = pc[s]
    BY <1>0, <1>4, Zenon DEF TypeOK
  <2>2. \A s \in Threads \ {t} : ProcOf[s] = p => pc[s] = "none"
    BY <1>0, <1>1, <1>2, Zenon DEF Living
  <2>3. has[t] = Null BY <1>0, <1>2, Zenon DEF Holding, Owners, Users
  <2>4. \A f \in FileSlots : Untouched(f) BY <1>2, <1>4, <2>1, <2>3, Zenon DEF Untouched, Ref
  <2>5. \A f \in FileSlots : FileInv(f)' BY <1>0, <2>4, SameFile, Zenon
  <2>6. TypeOK' BY <1>0, <1>2, <1>4, Zenon DEF TypeOK
  <2>7. Tables' /\ Sited' BY <1>0, <1>2, <1>4, <2>1, Zenon DEF Tables, Without, Intact, Sited
  <2>8. Living' BY <1>0, <2>1, <2>2 DEF Living
  <2>9. Holding' BY <1>0, <1>2, <2>1, <2>3, Zenon DEF Holding, Owners, Users
  <2> QED BY <2>5, <2>6, <2>7, <2>8, <2>9, Zenon DEF Intact
<1> QED BY <1>1, <1>3, <1>4, Zenon DEF doRemoveRegions

-----------------------------------------------------------------------------
(* At the beginning there is one process with an empty table. *)
LEMMA InitFiles == Init => FilesInv
<1> SUFFICES ASSUME Init PROVE Intact BY Zenon DEF FilesInv
<1> USE FileFacts, FilesAssumption
<1> DEFINE none == [i \in 1..InitFds |-> Null]
<1>1. none \in Seq(FileSlots \cup {Null}) /\ Len(none) = InitFds
  <2>1. none \in [1..InitFds -> FileSlots \cup {Null}] BY Zenon
  <2> HIDE DEF none
  <2> QED BY <2>1
<1>2. /\ fds[First] = none /\ \A p \in Procs \ {First} : fds[p] = <<>>
      /\ fds \in [Procs -> Seq(FileSlots \cup {Null})]
  BY <1>1 DEF Init
<1>3. InitFds \in 1..MaxFds BY FileFacts, Zenon
<1>4. \A p \in Procs : Len(fds[p]) <= MaxFds BY <1>1, <1>2, <1>3
<1>5. TypeOK
  <2>1. file \in [FileSlots -> [used : BOOLEAN, refs : Nat, uses : Nat]] BY Zenon DEF Init, Free
  <2>2. slot \in [Threads -> 0..MaxFds] BY DEF Init
  <2>3. regtree \in [Procs -> [Addrs -> FileSlots \cup {Null}]] BY Zenon DEF Init, NoRegions
  <2> QED BY <1>2, <1>4, <2>1, <2>2, <2>3, Zenon DEF Init, TypeOK
<1>6. Tables /\ Sited BY <1>1, <1>2, Zenon DEF Init, Tables, Without, Sited
<1>7. Living BY Zenon DEF Init, Living
<1>8. Holding BY Zenon DEF Init, Holding, Owners, Users
<1>9. ASSUME NEW f \in FileSlots PROVE FileInv(f)
  <2>1. Descs(f) = {} BY <1>2 DEF Descs
  <2>2. At(f, Counted) = {} /\ At(f, Users) = {} BY Zenon DEF Init, At
  <2>3. file[f] = Free /\ file[f].refs = 0 /\ file[f].uses = 0 BY Zenon DEF Init, Free
  <2>4. \A t \in Threads : has[t] # f BY Zenon DEF Init
  <2>5. Regions(f) = {} BY DEF Init, NoRegions, Regions
  <2> QED BY <2>1, <2>2, <2>3, <2>4, <2>5, NoElement DEF FileInv
<1> QED BY <1>5, <1>6, <1>7, <1>8, <1>9, Zenon DEF Intact

(* Every step keeps the counts as long as nothing is torn. *)
LEMMA NextFiles == FilesInv /\ [Next]_vars => FilesInv'
<1> SUFFICES ASSUME FilesInv, [Next]_vars, torn' = {} PROVE Intact'
  BY Zenon DEF FilesInv, NothingTorn
<1>1. CASE UNCHANGED vars
  <2>1. Intact BY <1>1, Zenon DEF FilesInv, NothingTorn, vars
  <2>2. \A f \in FileSlots : Untouched(f) BY <1>1, Zenon DEF vars, Untouched, Ref
  <2>3. \A f \in FileSlots : FileInv(f)' BY <2>1, <2>2, SameFile, Zenon DEF Intact
  <2>4. TypeOK' /\ Tables' /\ Sited' /\ Living' /\ Holding'
    BY <1>1, <2>1, Zenon DEF Intact, vars, TypeOK, Tables, Sited, Living, Holding
  <2> QED BY <2>3, <2>4, Zenon DEF Intact
<1>2. ASSUME NEW t \in Threads, Call(t) \/ Kernel(t) PROVE Intact'
  <2>1. torn = {}
    <3>1. CASE Call(t)
      <4>1. CASE open(t) \/ clone(t) \/ exit(t) BY <4>1, Zenon DEF open, clone, exit
      <4>2. ASSUME NEW fd \in 1..MaxFds,
                   \/ use(t, fd) \/ truncate(t, fd) \/ close(t, fd)
                   \/ dup(t, fd) \/ mmap(t, fd)
            PROVE  torn = {}
        BY <4>2, Zenon DEF use, truncate, close, dup, mmap
      <4>3. ASSUME NEW src \in 1..MaxFds, NEW dst \in 1..MaxFds, redirect(t, src, dst)
            PROVE  torn = {}
        <5>1. torn \subseteq torn' BY <4>3, Zenon DEF redirect
        <5> QED BY <5>1, Zenon
      <4>4. ASSUME NEW a \in Addrs, munmap(t, a) PROVE torn = {}
        <5>1. torn \subseteq torn' BY <4>4, Zenon DEF munmap, remove
        <5> QED BY <5>1, Zenon
      <4> QED BY <3>1, <4>1, <4>2, <4>3, <4>4, Zenon DEF Call
    <3>2. CASE Kernel(t)
      <4>1. CASE doRemoveRegions(t)
        <5>1. torn \subseteq torn' BY <4>1, Zenon DEF doRemoveRegions, remove
        <5> QED BY <5>1, Zenon
      <4>2. CASE \/ assoc(t) \/ openFailed(t) \/ release(t) \/ truncateEnd(t)
                 \/ unassoc(t) \/ closeFile(t) \/ destroy(t)
        BY <4>2, Zenon
          DEF assoc, openFailed, release, truncateEnd, unassoc, closeFile, destroy
      <4>3. CASE map(t)
        <5>1. torn \subseteq torn' BY <4>3, Zenon DEF map
        <5> QED BY <5>1, Zenon
      <4> QED BY <3>2, <4>1, <4>2, <4>3, Zenon DEF Kernel
    <3> QED BY <1>2, <3>1, <3>2, Zenon
  <2>2. Intact BY <2>1, Zenon DEF FilesInv, NothingTorn
  <2>3. CASE open(t) BY <2>2, <2>3, OpenStep, Zenon
  <2>4. CASE clone(t) BY <2>2, <2>4, CloneStep, Zenon
  <2>5. CASE exit(t) BY <2>2, <2>5, ExitStep, Zenon
  <2>6. ASSUME NEW fd \in 1..MaxFds, use(t, fd) PROVE Intact'
    BY <2>2, <2>6, RequestStep, Zenon DEF use, MayCall, Users
  <2>7. ASSUME NEW fd \in 1..MaxFds, truncate(t, fd) PROVE Intact'
    BY <2>2, <2>7, RequestStep, Zenon DEF truncate, MayCall, Users
  <2>8. ASSUME NEW fd \in 1..MaxFds, close(t, fd) PROVE Intact'
    <3>1. /\ pc[t] = "user" /\ request(t, fd, "unassoc") /\ truncated' = truncated
          /\ torn' = torn /\ slot' = [slot EXCEPT ![t] = fd]
      BY <2>8, Zenon DEF close, MayCall
    <3>2. "unassoc" \in Users \ {"close"} BY Zenon DEF Users
    <3> QED BY ONLY <2>2, <3>1, <3>2, RequestStep, Zenon
  <2>9. ASSUME NEW fd \in 1..MaxFds, dup(t, fd) PROVE Intact'
    BY <2>2, <2>9, DupStep, Zenon
  <2>10. ASSUME NEW src \in 1..MaxFds, NEW dst \in 1..MaxFds, redirect(t, src, dst)
         PROVE  Intact'
    BY <2>2, <2>10, RedirectStep, Zenon
  <2>11. CASE assoc(t) BY <2>2, <2>11, AssocStep, Zenon
  <2>12. CASE openFailed(t) BY <2>2, <2>12, OpenFailedStep, Zenon
  <2>13. CASE release(t) BY <2>2, <2>13, ReleaseStep, Zenon
  <2>14. CASE truncateEnd(t) BY <2>2, <2>14, TruncateEndStep, Zenon
  <2>15. CASE unassoc(t) BY <2>2, <2>15, UnassocStep, Zenon
  <2>16. CASE closeFile(t) BY <2>2, <2>16, CloseFileStep, Zenon
  <2>17. CASE destroy(t) BY <2>2, <2>17, DestroyStep, Zenon
  <2>18. CASE map(t) BY <2>2, <2>18, MapStep, Zenon
  <2>19. CASE doRemoveRegions(t) BY <2>2, <2>19, DoRemoveRegionsStep, Zenon
  <2>20. ASSUME NEW fd \in 1..MaxFds, mmap(t, fd) PROVE Intact'
    BY <2>2, <2>20, RequestStep, Zenon DEF mmap, MayCall, Users
  <2>21. ASSUME NEW a \in Addrs, munmap(t, a) PROVE Intact'
    <3>1. PICK p \in Procs : p = ProcOf[t] BY FileFacts, Zenon
    <3> QED BY <2>2, <2>21, <3>1, RemoveStep, Zenon DEF munmap
  <2>22. CASE Call(t)
    BY <2>3, <2>4, <2>5, <2>6, <2>7, <2>8, <2>9, <2>10, <2>20, <2>21, <2>22, Zenon DEF Call
  <2>23. CASE Kernel(t)
    BY <2>11, <2>12, <2>13, <2>14, <2>15, <2>16, <2>17, <2>18, <2>19, <2>23, Zenon DEF Kernel
  <2> QED BY <1>2, <2>22, <2>23, Zenon
<1> QED BY <1>1, <1>2, Zenon DEF Next

(* The counts of files are right as long as nothing is torn. *)
LEMMA FilesCounted == Spec => []FilesInv
<1>1. Init /\ [][Next]_vars => []FilesInv BY InitFiles, NextFiles, PTL
<1> QED BY <1>1, PTL DEF Spec

(***************************************************************************)
(* No table of descriptors gets more than MAX_FD_COUNT entries and all the *)
(* state has its type, as long as nothing is torn.                         *)
(***************************************************************************)
THEOREM FileTypes == Spec => [](NothingTorn => TypeOK)
<1>1. FilesInv => (NothingTorn => TypeOK) BY Zenon DEF FilesInv, Intact
<1> QED BY <1>1, FilesCounted, PTL

(***************************************************************************)
(* The reference count that OpenFile keeps is exactly the number of the    *)
(* descriptors and the regions, of all processes, that refer to the file   *)
(* and of the threads that have opened it or are about to close it, as     *)
(* long as nothing is torn.                                                *)
(***************************************************************************)
THEOREM ReferencesCounted == Spec => []RefsCounted
<1>1. FilesInv => RefsCounted BY Zenon DEF FilesInv, Intact, FileInv, RefsCounted, Counted
<1> QED BY <1>1, FilesCounted, PTL

(***************************************************************************)
(* OpenFile::doClose and decUsages free no file that a descriptor or a     *)
(* region refers to or that a thread works on, as long as nothing is torn: *)
(* while redirect and VMTree::remove, which close without a usage, never   *)
(* drop the last reference of a file in use, as the comment in doClose     *)
(* takes for granted, and no two threads close the same descriptor.        *)
(***************************************************************************)
THEOREM UsedFilesKept == Spec => []NotFreedInUse
<1>1. FilesInv => NotFreedInUse
  <2> SUFFICES ASSUME Intact, NothingTorn PROVE NotFreedInUse BY Zenon DEF FilesInv, NotFreedInUse
  <2>1. ASSUME NEW p \in Procs, NEW i \in 1..MaxFds, Valid(p, i) PROVE file[fds[p][i]].used
    <3>1. PICK f \in FileSlots : f = fds[p][i] /\ i \in DOMAIN fds[p]
      BY <2>1, TableTypes, Zenon DEF Valid
    <3>2. Ref(p, i, f) BY <3>1, Zenon DEF Ref
    <3> QED BY <3>1, <3>2, Described, Zenon
  <2>2. ASSUME NEW t \in Threads, has[t] # Null PROVE file[has[t]].used
    <3>1. has[t] \in FileSlots BY <2>2, Zenon DEF Intact, TypeOK
    <3> QED BY <3>1, Zenon DEF Intact, FileInv
  <2>3. ASSUME NEW p \in Procs, NEW a \in Addrs, regtree[p][a] # Null
        PROVE  file[regtree[p][a]].used
    <3>0. regtree \in [Procs -> [Addrs -> FileSlots \cup {Null}]] BY Zenon DEF Intact, TypeOK
    <3>1. PICK f \in FileSlots : f = regtree[p][a] BY ONLY <2>3, <3>0
    <3> QED BY <3>1, Regioned, Zenon
  <2> QED BY <2>1, <2>2, <2>3, Zenon DEF NotFreedInUse
<1> QED BY <1>1, FilesCounted, PTL
====
