---------------------------- MODULE TimerProofs ----------------------------
(***************************************************************************)
(* Proofs about the timer: the delta list keeps the time left of every     *)
(* entry, and so implements Countdown.                                     *)
(***************************************************************************)
EXTENDS Timer, TLAPS, WellFoundedInduction

-----------------------------------------------------------------------------
(* A non-empty set of natural numbers has a smallest element.  It stands   *)
(* for induction in the lemmas on sums.                                    *)
LEMMA SmallestOf ==
  ASSUME NEW T, T \subseteq Nat, T # {}
  PROVE  \E x \in T : \A y \in T : x <= y
<1> DEFINE R == {ss \in Nat \X Nat : ss[1] < ss[2]}
<1>1. IsWellFoundedOn(R, Nat)
  BY NatLessThanWellFounded, Zenon DEF OpToRel
<1>2. PICK x \in T : \A y \in T : ~(<<y, x>> \in R)
  <2> HIDE DEF R
  <2> QED
    BY <1>1, WFMin, Zenon
<1>3. ASSUME NEW y \in T PROVE x <= y
  <2>1. ~(y < x)
    BY <1>2, Zenon
  <2> QED
    BY <2>1
<1> QED
  BY <1>3, Zenon

(* f holds the sums of the times of s up to its n-th entry. *)
IsDue(s, n, f) ==
  /\ f \in [0..n -> Int]
  /\ f[0] = 0
  /\ \A i \in 1..n : f[i] = f[i - 1] + s[i].time

(* There is at most one function of sums.                                  *)
LEMMA DueUnique ==
  ASSUME NEW s, NEW n \in Nat, NEW f, NEW g, IsDue(s, n, f), IsDue(s, n, g)
  PROVE  f = g
<1> DEFINE T == {i \in 0..n : f[i] # g[i]}
<1>1. SUFFICES ASSUME T # {} PROVE FALSE
  <2>1. T = {} => \A i \in 0..n : f[i] = g[i]
    BY Zenon
  <2> QED
    BY <2>1 DEF IsDue
<1>2. T \subseteq Nat
  OBVIOUS
<1>3. PICK m \in T : \A y \in T : m <= y
  <2> HIDE DEF T
  <2> QED
    BY <1>1, <1>2, SmallestOf, Zenon
<1>4. m # 0 /\ m \in 1..n
  BY DEF IsDue
<1>5. m - 1 \notin T /\ m - 1 \in 0..n
  BY <1>2, <1>3, <1>4
<1>6. f[m - 1] = g[m - 1]
  BY <1>5, Zenon
<1> QED
  BY <1>4, <1>6, Zenon DEF IsDue

(* There is a function of sums.                                            *)
LEMMA DueExists ==
  ASSUME NEW s, NEW n \in Nat, \A i \in 1..n : s[i].time \in Int
  PROVE  \E f : IsDue(s, n, f)
<1> DEFINE T == {k \in 0..n : ~ \E f : IsDue(s, k, f)}
<1>1. SUFFICES ASSUME T # {} PROVE FALSE
  <2>1. n \in 0..n
    OBVIOUS
  <2> QED
    BY <2>1, Zenon
<1>2. T \subseteq Nat
  OBVIOUS
<1>3. PICK m \in T : \A y \in T : m <= y
  <2> HIDE DEF T
  <2> QED
    BY <1>1, <1>2, SmallestOf, Zenon
<1>4. m # 0
  <2>1. IsDue(s, 0, [i \in 0..0 |-> 0])
    BY DEF IsDue
  <2> QED
    BY <2>1, Zenon
<1>5. m \in 1..n /\ m - 1 \in 0..n
  BY <1>4
<1>6. m - 1 \notin T
  BY <1>2, <1>3, <1>5
<1>7. PICK f : IsDue(s, m - 1, f)
  BY <1>5, <1>6, Zenon
<1> DEFINE g == [i \in 0..m |-> IF i = m THEN f[m - 1] + s[m].time ELSE f[i]]
<1>8. g \in [0..m -> Int]
  <2>1. \A i \in 0..(m - 1) : f[i] \in Int
    BY <1>7, Zenon DEF IsDue
  <2>2. f[m - 1] + s[m].time \in Int
    BY <1>5, <2>1
  <2> QED
    BY <1>5, <2>1, <2>2
<1>9. g[0] = 0
  BY <1>5, <1>7 DEF IsDue
<1>10. ASSUME NEW i \in 1..m PROVE g[i] = g[i - 1] + s[i].time
  <2>1. CASE i = m
    BY <1>5, <2>1
  <2>2. CASE i # m
    <3>1. f[i] = f[i - 1] + s[i].time
      BY <1>5, <1>7, <2>2 DEF IsDue
    <3> QED
      BY <1>5, <2>2, <3>1
  <2> QED
    BY <2>1, <2>2, Zenon
<1>11. IsDue(s, m, g)
  <2> HIDE DEF g
  <2> QED
    BY <1>8, <1>9, <1>10, Zenon DEF IsDue
<1> QED
  BY <1>11, Zenon

(* Entries with any number as time; Due is the function of their sums.     *)
LEMMA DueIs ==
  ASSUME NEW s, Len(s) \in Nat, \A i \in 1..Len(s) : s[i].time \in Int
  PROVE  IsDue(s, Len(s), Due(s))
<1> DEFINE F(f) == [i \in 0..Len(s) |-> IF i = 0 THEN 0 ELSE f[i - 1] + s[i].time]
<1>1. PICK f : IsDue(s, Len(s), f)
  BY DueExists, Zenon
<1>2. f = F(f)
  BY <1>1 DEF IsDue
<1>3. Due(s) = F(Due(s))
  BY <1>2, Zenon DEF Due
<1> DEFINE D == Due(s)
           T == {i \in 0..Len(s) : D[i] \notin Int}
<1>4. D[0] = 0 /\ \A i \in 1..Len(s) : D[i] = D[i - 1] + s[i].time
  BY <1>3
<1>5. T = {}
  <2>1. SUFFICES ASSUME T # {} PROVE FALSE
    BY Zenon
  <2> HIDE DEF D
  <2>2. T \subseteq Nat
    OBVIOUS
  <2>3. PICK m \in T : \A y \in T : m <= y
    <3> HIDE DEF T
    <3> QED
      BY <2>1, <2>2, SmallestOf, Zenon
  <2>4. m \in 1..Len(s) /\ m - 1 \in 0..Len(s)
    BY <1>4
  <2>5. m - 1 \notin T
    BY <2>2, <2>3, <2>4
  <2> QED
    BY <1>4, <2>4, <2>5
<1>6. D \in [0..Len(s) -> Int]
  BY <1>3, <1>5, Zenon
<1> HIDE DEF D
<1>7. IsDue(s, Len(s), D)
  BY <1>4, <1>6, Zenon DEF IsDue
<1> QED
  BY <1>7, Zenon DEF D

(* Whatever satisfies the equations of the sums is Due.                    *)
LEMMA DueEquals ==
  ASSUME NEW s, Len(s) \in Nat, \A i \in 1..Len(s) : s[i].time \in Int,
         NEW g, IsDue(s, Len(s), g)
  PROVE  Due(s) = g
BY DueIs, DueUnique, Zenon

(* A list of entries, and one whose sums are in the range of a time_t.     *)
LEMMA DueOfList ==
  ASSUME NEW s \in Seq(Listener)
  PROVE  /\ Len(s) \in Nat
         /\ \A i \in 1..Len(s) : s[i] \in Listener /\ s[i].time \in 0..MaxMsecs
                                 /\ s[i].time \in Nat
         /\ Due(s) \in [0..Len(s) -> Int]
         /\ Due(s)[0] = 0
         /\ \A i \in 1..Len(s) : Due(s)[i] = Due(s)[i - 1] + s[i].time
<1>1. Len(s) \in Nat /\ \A i \in 1..Len(s) : s[i] \in Listener
  OBVIOUS
<1>2. \A i \in 1..Len(s) : s[i].time \in 0..MaxMsecs /\ s[i].time \in Nat
  BY <1>1, TimerAssumption DEF Listener
<1>3. IsDue(s, Len(s), Due(s))
  BY <1>1, <1>2, DueIs
<1> QED
  BY <1>1, <1>2, <1>3, Zenon DEF IsDue

(* The sums grow along the list.                                           *)
LEMMA DueGrows ==
  ASSUME NEW s \in Seq(Listener), NEW i \in 0..Len(s), NEW j \in i..Len(s)
  PROVE  Due(s)[i] <= Due(s)[j]
<1> DEFINE D == Due(s)
           T == {k \in i..Len(s) : ~(D[i] <= D[k])}
<1>1. /\ Len(s) \in Nat
      /\ \A k \in 1..Len(s) : s[k].time \in Nat /\ D[k] = D[k - 1] + s[k].time
      /\ D \in [0..Len(s) -> Int]
  BY DueOfList, Zenon
<1> HIDE DEF D
<1>2. SUFFICES ASSUME T # {} PROVE FALSE
  BY <1>1, Zenon DEF D
<1>3. T \subseteq Nat
  OBVIOUS
<1>4. PICK m \in T : \A y \in T : m <= y
  <2> HIDE DEF T
  <2> QED
    BY <1>2, <1>3, SmallestOf, Zenon
<1>5. m # i /\ m \in 1..Len(s) /\ m - 1 \in i..Len(s) /\ m - 1 \in 0..Len(s)
  BY <1>1, SMTT(30)
<1>6. m - 1 \notin T
  BY <1>3, <1>4, <1>5
<1>7. D[i] <= D[m - 1]
  BY <1>5, <1>6, Zenon
<1>8. D[i] \in Int /\ D[m - 1] \in Int /\ D[m] = D[m - 1] + s[m].time /\ s[m].time \in Nat
  BY <1>1, <1>5, Zenon
<1> QED
  BY <1>7, <1>8

-----------------------------------------------------------------------------
(* A function on 1..n is a sequence.                                       *)
LEMMA SeqOf ==
  ASSUME NEW S, NEW n \in Nat, NEW r \in [1..n -> S]
  PROVE  r \in Seq(S) /\ Len(r) = n
OBVIOUS

(* A list whose times are the differences of g has g as its sums.          *)
LEMMA DueOfDifferences ==
  ASSUME NEW n \in Nat, NEW r, r = [j \in 1..n |-> r[j]],
         NEW g \in [0..n -> Int], g[0] = 0,
         \A j \in 1..n : r[j] \in Listener /\ r[j].time = g[j] - g[j - 1]
  PROVE  r \in Seq(Listener) /\ Len(r) = n /\ Due(r) = g
<1>1. r \in [1..n -> Listener]
  BY Zenon
<1>2. r \in Seq(Listener) /\ Len(r) = n
  BY <1>1, SeqOf, Zenon
<1>3. IsDue(r, n, g)
  <2>1. \A j \in 1..n : g[j] \in Int /\ g[j - 1] \in Int
    OBVIOUS
  <2> QED
    BY <2>1 DEF IsDue
<1>4. \A j \in 1..Len(r) : r[j].time \in Int
  BY <1>2, DueOfList
<1> QED
  BY <1>2, <1>3, <1>4, DueEquals, Zenon

(* The time left of every entry of s is in the range of a time_t. *)
InRange(s) == \A i \in 0..Len(s) : Due(s)[i] \in 0..MaxMsecs

(* One step of the sums of such a list.                                    *)
LEMMA DueStep ==
  ASSUME NEW s \in Seq(Listener), InRange(s), NEW k \in 1..Len(s)
  PROVE  /\ s[k] \in Listener
         /\ s[k].time \in Nat
         /\ Due(s)[k] \in Nat /\ Due(s)[k - 1] \in Nat /\ Due(s)[k] <= MaxMsecs
         /\ s[k].time = Due(s)[k] - Due(s)[k - 1]
<1>1. /\ s[k] \in Listener /\ s[k].time \in Nat
      /\ Due(s)[k] = Due(s)[k - 1] + s[k].time
  BY DueOfList, Zenon
<1>2. k - 1 \in 0..Len(s) /\ k \in 0..Len(s) /\ MaxMsecs \in Nat
  BY TimerAssumption, DueOfList
<1>3. /\ Due(s)[k] \in Nat /\ Due(s)[k - 1] \in Nat /\ Due(s)[k] <= MaxMsecs
  BY <1>2 DEF InRange
<1> QED
  BY <1>1, <1>3

(* sleepFor: the new entry has the time it asked for left, the others keep *)
(* theirs.                                                                 *)
LEMMA InsertedDue ==
  ASSUME NEW s \in Seq(Listener), InRange(s), NEW i \in 1..(Len(s) + 1),
         NEW t \in Threads, NEW d \in 0..MaxMsecs, NEW b \in BOOLEAN,
         \A j \in 1..(i - 1) : Due(s)[j] <= d,
         i <= Len(s) => Due(s)[i] > d
  PROVE  LET r == inserted(s, i, t, d, b) IN
         /\ r \in Seq(Listener)
         /\ Len(r) = Len(s) + 1
         /\ Due(r) = [k \in 0..(Len(s) + 1) |->
                        IF k < i THEN Due(s)[k] ELSE IF k = i THEN d
                        ELSE Due(s)[k - 1]]
<1> DEFINE D == Due(s)
           n == Len(s)
           r == inserted(s, i, t, d, b)
           g == [k \in 0..(n + 1) |->
                   IF k < i THEN D[k] ELSE IF k = i THEN d ELSE D[k - 1]]
<1>1. /\ n \in Nat /\ i \in 1..(n + 1)
      /\ \A k \in 1..n : s[k] \in Listener /\ s[k].time \in 0..MaxMsecs
      /\ D[0] = 0
      /\ \A k \in 1..n : D[k] = D[k - 1] + s[k].time
      /\ \A k \in 0..n : D[k] \in 0..MaxMsecs
  BY DueOfList, Zenon DEF InRange
<1>2. D[i - 1] <= d /\ D[i - 1] \in 0..MaxMsecs /\ MaxMsecs \in Nat
  BY <1>1, TimerAssumption
<1>3. i <= n => D[i] > d /\ D[i] = D[i - 1] + s[i].time /\ D[i] \in 0..MaxMsecs
  BY <1>1
<1>4. r = [j \in 1..(n + 1) |->
             IF j < i THEN s[j]
             ELSE IF j = i THEN [tid |-> t, time |-> d - D[i - 1], block |-> b]
             ELSE IF j = i + 1 THEN [s[i] EXCEPT !.time = @ - (d - D[i - 1])]
             ELSE s[j - 1]]
  BY Zenon DEF inserted
<1> HIDE DEF D, n, r
<1>5. d - D[i - 1] \in 0..MaxMsecs
  BY <1>2
<1>6. i <= n => [s[i] EXCEPT !.time = @ - (d - D[i - 1])] \in Listener
             /\ [s[i] EXCEPT !.time = @ - (d - D[i - 1])].time = D[i] - d
  <2>1. SUFFICES ASSUME i <= n
                 PROVE  /\ [s[i] EXCEPT !.time = @ - (d - D[i - 1])] \in Listener
                        /\ [s[i] EXCEPT !.time = @ - (d - D[i - 1])].time = D[i] - d
    BY Zenon
  <2>2. s[i] \in Listener /\ s[i].time \in 0..MaxMsecs
    BY <1>1, <2>1
  <2>3. s[i].time - (d - D[i - 1]) = D[i] - d /\ D[i] - d \in 0..MaxMsecs
    <3>1. /\ s[i].time \in Int /\ D[i - 1] \in Int /\ D[i] \in Int /\ d \in Int
          /\ D[i] > d /\ D[i] <= MaxMsecs /\ d >= 0 /\ MaxMsecs \in Int
          /\ D[i] = D[i - 1] + s[i].time
      BY <1>2, <1>3, <2>1, <2>2
    <3> QED
      BY <3>1
  <2> QED
    BY <2>2, <2>3, Zenon DEF Listener
<1>7. ASSUME NEW j \in 1..(n + 1) PROVE r[j] \in Listener /\ r[j].time = g[j] - g[j - 1]
  <2>1. CASE j < i
    <3>1. j \in 1..n /\ j - 1 \in 0..n /\ r[j] = s[j]
      BY <1>1, <1>4, <2>1
    <3>2. g[j] = D[j] /\ g[j - 1] = D[j - 1]
      BY <1>1, <2>1, <3>1
    <3> HIDE DEF g
    <3> QED
      BY <1>1, <3>1, <3>2, SMTT(30)
  <2>2. CASE j = i
    BY <1>1, <1>4, <1>5, <2>2 DEF Listener
  <2>3. CASE j = i + 1
    BY <1>1, <1>4, <1>6, <2>3
  <2>4. CASE j > i + 1
    <3>1. j - 1 \in 1..n /\ j - 2 \in 0..n /\ r[j] = s[j - 1]
      BY <1>1, <1>4, <2>4, SMTT(30)
    <3>2. g[j] = D[j - 1] /\ g[j - 1] = D[j - 2]
      BY <1>1, <2>4, <3>1
    <3> HIDE DEF g
    <3> QED
      BY <1>1, <3>1, <3>2, SMTT(30)
  <2> QED
    BY <1>1, <2>1, <2>2, <2>3, <2>4
<1>8. n + 1 \in Nat
  BY <1>1
<1>9. r = [j \in 1..(n + 1) |-> r[j]]
  BY <1>4, Zenon
<1>10. g \in [0..(n + 1) -> Int] /\ g[0] = 0
  BY <1>1
<1>11. r \in Seq(Listener) /\ Len(r) = n + 1 /\ Due(r) = g
  <2> HIDE DEF g
  <2> QED
    BY <1>7, <1>8, <1>9, <1>10, DueOfDifferences, Zenon
<1> QED
  BY <1>11, Zenon DEF D, n, r

(* removeThread: the entries that stay keep the time they have left.       *)
LEMMA RemovedDue ==
  ASSUME NEW s \in Seq(Listener), InRange(s), NEW i \in 1..Len(s)
  PROVE  LET r == removed(s, i) IN
         /\ r \in Seq(Listener)
         /\ Len(r) = Len(s) - 1
         /\ Due(r) = [k \in 0..(Len(s) - 1) |->
                        IF k < i THEN Due(s)[k] ELSE Due(s)[k + 1]]
<1> DEFINE D == Due(s)
           n == Len(s)
           r == removed(s, i)
           g == [k \in 0..(n - 1) |-> IF k < i THEN D[k] ELSE D[k + 1]]
<1>1. /\ n \in Nat /\ i \in 1..n
      /\ \A k \in 0..n : D[k] \in Int
      /\ D[0] = 0
  BY DueOfList, Zenon
<1>2. ASSUME NEW k \in 1..n
       PROVE  /\ s[k] \in Listener
              /\ s[k].time \in Nat
              /\ D[k] \in Nat /\ D[k - 1] \in Nat /\ D[k] <= MaxMsecs
              /\ s[k].time = D[k] - D[k - 1]
  BY DueStep, Zenon
<1>3. r = [j \in 1..(n - 1) |->
             IF j < i THEN s[j]
             ELSE IF j = i THEN [s[i + 1] EXCEPT !.time = @ + s[i].time]
             ELSE s[j + 1]]
  BY Zenon DEF removed
<1> HIDE DEF D, n, r
<1>4. ASSUME NEW j \in 1..(n - 1) PROVE r[j] \in Listener /\ r[j].time = g[j] - g[j - 1]
  <2>1. CASE j < i
    <3>1. j \in 1..n /\ j - 1 \in 0..n /\ r[j] = s[j]
      BY <1>1, <1>3, <2>1
    <3>2. g[j] = D[j] /\ g[j - 1] = D[j - 1]
      BY <1>1, <2>1, <3>1
    <3> HIDE DEF g
    <3> QED
      BY <1>2, <3>1, <3>2, Zenon
  <2>2. CASE j = i
    <3>1. /\ i + 1 \in 1..n /\ i - 1 \in 0..n
          /\ r[j] = [s[i + 1] EXCEPT !.time = @ + s[i].time]
      BY <1>1, <1>3, <2>2
    <3>2. g[j] = D[i + 1] /\ g[j - 1] = D[i - 1]
      BY <1>1, <2>2, <3>1
    <3> HIDE DEF g
    <3>3. /\ s[i + 1] \in Listener /\ s[i + 1].time \in Nat
          /\ D[i + 1] \in Nat /\ D[i + 1] <= MaxMsecs
          /\ s[i + 1].time = D[i + 1] - D[i]
      <4>1. (i + 1) - 1 = i
        BY <1>1
      <4> QED
        BY <1>2, <3>1, <4>1, Zenon
    <3>4. s[i].time \in Nat /\ s[i].time = D[i] - D[i - 1] /\ D[i] \in Nat /\ D[i - 1] \in Nat
      BY <1>1, <1>2, Zenon
    <3>5. /\ s[i + 1].time + s[i].time = D[i + 1] - D[i - 1]
          /\ s[i + 1].time + s[i].time \in 0..MaxMsecs
      <4> DEFINE a == s[i + 1].time  x == D[i + 1]  y == D[i]  z == D[i - 1]
      <4>1. a \in Nat /\ x \in Nat /\ y \in Nat /\ z \in Nat /\ x <= MaxMsecs
            /\ MaxMsecs \in Nat /\ s[i].time \in Nat /\ a = x - y /\ s[i].time = y - z
        BY <3>3, <3>4, TimerAssumption, Zenon
      <4> HIDE DEF a, x, y, z
      <4>2. a + s[i].time = x - z /\ a + s[i].time \in 0..MaxMsecs
        BY <4>1
      <4> QED
        BY <4>2, Zenon DEF a, x, z
    <3> QED
      BY <3>1, <3>2, <3>3, <3>5, Zenon DEF Listener
  <2>3. CASE j > i
    <3>1. j + 1 \in 1..n /\ j \in 0..n /\ r[j] = s[j + 1]
      BY <1>1, <1>3, <2>3
    <3>2. g[j] = D[j + 1] /\ g[j - 1] = D[j]
      BY <1>1, <2>3, <3>1
    <3> HIDE DEF g
    <3> QED
      BY <1>2, <3>1, <3>2
  <2> QED
    BY <1>1, <2>1, <2>2, <2>3
<1>5. n - 1 \in Nat
  BY <1>1
<1>6. r = [j \in 1..(n - 1) |-> r[j]]
  BY <1>3, Zenon
<1>7. g \in [0..(n - 1) -> Int] /\ g[0] = 0
  BY <1>1
<1>8. r \in Seq(Listener) /\ Len(r) = n - 1 /\ Due(r) = g
  <2> HIDE DEF g
  <2> QED
    BY <1>4, <1>5, <1>6, <1>7, DueOfDifferences, Zenon
<1> QED
  BY <1>8, Zenon DEF D, n, r

(* intrpt: the entries that stay have TimeInc less left.                   *)
LEMMA PassedDue ==
  ASSUME NEW s \in Seq(Listener), InRange(s), NEW m \in 0..Len(s),
         \A j \in 1..m : Due(s)[j] <= TimeInc,
         m < Len(s) => Due(s)[m + 1] > TimeInc
  PROVE  LET r == passed(s, m) IN
         /\ r \in Seq(Listener)
         /\ Len(r) = Len(s) - m
         /\ Due(r) = [k \in 0..(Len(s) - m) |->
                        IF k = 0 THEN 0 ELSE Due(s)[m + k] - TimeInc]
<1> DEFINE D == Due(s)
           n == Len(s)
           r == passed(s, m)
           g == [k \in 0..(n - m) |-> IF k = 0 THEN 0 ELSE D[m + k] - TimeInc]
<1>1. /\ n \in Nat /\ m \in 0..n
      /\ \A k \in 0..n : D[k] \in Int
      /\ TimeInc \in Nat
  BY DueOfList, TimerAssumption, Zenon
<1>2. ASSUME NEW k \in 1..n
      PROVE  /\ s[k] \in Listener
             /\ s[k].time \in Nat
             /\ D[k] \in Nat /\ D[k - 1] \in Nat /\ D[k] <= MaxMsecs
             /\ s[k].time = D[k] - D[k - 1]
  BY DueStep, Zenon
<1>3. r = [i \in 1..(n - m) |->
             IF i = 1 THEN [s[m + 1] EXCEPT !.time = @ - (TimeInc - D[m])]
             ELSE s[m + i]]
  BY Zenon DEF passed
<1>4. m < n => D[m + 1] > TimeInc
  BY Zenon
<1> HIDE DEF D, n, r
<1>5. ASSUME NEW j \in 1..(n - m) PROVE r[j] \in Listener /\ r[j].time = g[j] - g[j - 1]
  <2>1. CASE j = 1
    <3>1. /\ m + 1 \in 1..n /\ (m + 1) - 1 = m /\ m < n
          /\ r[j] = [s[m + 1] EXCEPT !.time = @ - (TimeInc - D[m])]
      <4>1. m + 1 \in 1..n /\ (m + 1) - 1 = m /\ m < n
        BY <1>1, <2>1
      <4>2. r[j] = [s[m + 1] EXCEPT !.time = @ - (TimeInc - D[m])]
        BY <1>3, <2>1, Zenon
      <4> QED
        BY <4>1, <4>2, Zenon
    <3>2. g[j] = D[m + 1] - TimeInc /\ g[j - 1] = 0
      BY <1>1, <2>1, <3>1
    <3> HIDE DEF g
    <3>3. /\ s[m + 1] \in Listener /\ s[m + 1].time \in Nat
          /\ D[m + 1] \in Nat /\ D[m] \in Nat /\ D[m + 1] <= MaxMsecs
          /\ s[m + 1].time = D[m + 1] - D[m]
          /\ D[m + 1] > TimeInc
      BY <1>2, <1>4, <3>1, Zenon
    <3> DEFINE x == D[m + 1]  y == D[m]  a == s[m + 1].time
    <3>4. /\ x \in Nat /\ y \in Nat /\ a \in Nat /\ x <= MaxMsecs /\ a = x - y
          /\ x > TimeInc /\ MaxMsecs \in Nat /\ TimeInc \in Nat
      BY <1>1, <3>3, TimerAssumption, Zenon
    <3> HIDE DEF x, y, a
    <3>5. a - (TimeInc - y) = x - TimeInc /\ x - TimeInc \in 0..MaxMsecs
          /\ (x - TimeInc) - 0 = x - TimeInc
      BY <3>4
    <3>6. s[m + 1].time - (TimeInc - D[m]) = x - TimeInc
      BY <3>5, Zenon DEF x, y, a
    <3>7. r[j] \in Listener /\ r[j].time = x - TimeInc
      BY <3>1, <3>3, <3>5, <3>6, Zenon DEF Listener
    <3>8. g[j] - g[j - 1] = (x - TimeInc) - 0
      BY <3>2, Zenon DEF x
    <3> QED
      BY <3>5, <3>7, <3>8, Zenon
  <2>2. CASE j # 1
    <3>1. m + j \in 1..n /\ (m + j) - 1 = m + (j - 1) /\ r[j] = s[m + j]
      BY <1>1, <1>3, <2>2
    <3>2. g[j] = D[m + j] - TimeInc /\ g[j - 1] = D[m + (j - 1)] - TimeInc
      BY <1>1, <2>2, <3>1
    <3> HIDE DEF g
    <3>3. /\ s[m + j] \in Listener
          /\ D[m + j] \in Nat /\ D[m + (j - 1)] \in Nat
          /\ s[m + j].time = D[m + j] - D[m + (j - 1)]
      BY <1>2, <3>1, Zenon
    <3> DEFINE x == D[m + j]  y == D[m + (j - 1)]
    <3>4. x \in Nat /\ y \in Nat /\ TimeInc \in Nat
      BY <1>1, <3>3, Zenon
    <3> HIDE DEF x, y
    <3>5. (x - TimeInc) - (y - TimeInc) = x - y
      BY <3>4
    <3>6. g[j] - g[j - 1] = D[m + j] - D[m + (j - 1)]
      BY <3>2, <3>5, Zenon DEF x, y
    <3> QED
      BY <3>1, <3>3, <3>6, Zenon
  <2> QED
    BY <2>1, <2>2, Zenon
<1>6. n - m \in Nat
  BY <1>1
<1>7. r = [j \in 1..(n - m) |-> r[j]]
  BY <1>3, Zenon
<1>8. g \in [0..(n - m) -> Int] /\ g[0] = 0
  <2>1. ASSUME NEW k \in 0..(n - m) PROVE k # 0 => D[m + k] - TimeInc \in Int
    BY <1>1
  <2> QED
    BY <1>6, <2>1
<1>9. r \in Seq(Listener) /\ Len(r) = n - m /\ Due(r) = g
  <2> HIDE DEF g
  <2> QED
    BY <1>5, <1>6, <1>7, <1>8, DueOfDifferences, Zenon
<1> QED
  BY <1>9, Zenon DEF D, n, r

-----------------------------------------------------------------------------
(* Owner and purpose of the entries after each of the three operations.    *)
LEMMA InsertedOwners ==
  ASSUME NEW s \in Seq(Listener), NEW i \in 1..(Len(s) + 1),
         NEW t \in Threads, NEW d \in 0..MaxMsecs, NEW b \in BOOLEAN,
         NEW j \in 1..(Len(s) + 1)
  PROVE  LET r == inserted(s, i, t, d, b) IN
         /\ j < i => j \in 1..Len(s) /\ r[j].tid = s[j].tid /\ r[j].block = s[j].block
         /\ j = i => r[j].tid = t /\ r[j].block = b
         /\ j > i => /\ j - 1 \in 1..Len(s)
                     /\ r[j].tid = s[j - 1].tid /\ r[j].block = s[j - 1].block
<1> DEFINE r == inserted(s, i, t, d, b)
<1>1. Len(s) \in Nat /\ \A k \in 1..Len(s) : s[k] \in Listener
  OBVIOUS
<1>2. CASE j < i
  <2>1. j \in 1..Len(s) /\ r[j] = s[j]
    BY <1>1, <1>2 DEF inserted
  <2> HIDE DEF r
  <2> QED
    BY <1>2, <2>1 DEF r
<1>3. CASE j = i
  <2>1. r[j] = [tid |-> t, time |-> d - Due(s)[i - 1], block |-> b]
    BY <1>3 DEF inserted
  <2> HIDE DEF r
  <2>2. r[j].tid = t /\ r[j].block = b
    BY <2>1
  <2> QED
    BY <1>3, <2>2 DEF r
<1>4. CASE j = i + 1
  <2>1. i \in 1..Len(s) /\ j - 1 = i
    BY <1>1, <1>4
  <2>2. r[j] = [s[i] EXCEPT !.time = @ - (d - Due(s)[i - 1])]
    BY <1>4 DEF inserted
  <2> HIDE DEF r
  <2>3. s[i] \in Listener
    BY <1>1, <2>1, Zenon
  <2>4. r[j].tid = s[i].tid /\ r[j].block = s[i].block
    BY <2>2, <2>3, Zenon DEF Listener
  <2> QED
    BY <1>4, <2>1, <2>4 DEF r
<1>5. CASE j > i + 1
  <2>1. j - 1 \in 1..Len(s) /\ r[j] = s[j - 1]
    BY <1>1, <1>5 DEF inserted
  <2> HIDE DEF r
  <2> QED
    BY <1>5, <2>1 DEF r
<1> QED
  BY <1>1, <1>2, <1>3, <1>4, <1>5

(* removeThread: every entry that stays is one of the old list. *)
LEMMA RemovedOwners ==
  ASSUME NEW s \in Seq(Listener), NEW i \in 1..Len(s), NEW j \in 1..(Len(s) - 1)
  PROVE  LET r == removed(s, i)
             k == IF j < i THEN j ELSE j + 1
         IN  k \in 1..Len(s) /\ r[j].tid = s[k].tid /\ r[j].block = s[k].block
<1> DEFINE r == removed(s, i)
<1>1. Len(s) \in Nat /\ \A k \in 1..Len(s) : s[k] \in Listener
  OBVIOUS
<1>2. CASE j < i
  <2>1. j \in 1..Len(s) /\ r[j] = s[j]
    BY <1>1, <1>2 DEF removed
  <2> QED
    BY <1>2, <2>1, Zenon
<1>3. CASE j = i
  <2>1. i + 1 \in 1..Len(s) /\ r[j] = [s[i + 1] EXCEPT !.time = @ + s[i].time]
    BY <1>1, <1>3 DEF removed
  <2> HIDE DEF r
  <2>2. s[i + 1] \in Listener
    BY <1>1, <2>1, Zenon
  <2>3. r[j].tid = s[i + 1].tid /\ r[j].block = s[i + 1].block
    BY <2>1, <2>2, Zenon DEF Listener
  <2> QED
    BY <1>3, <2>1, <2>3 DEF r
<1>4. CASE j > i
  <2>1. j + 1 \in 1..Len(s) /\ r[j] = s[j + 1]
    BY <1>1, <1>4 DEF removed
  <2> QED
    BY <1>4, <2>1
<1> QED
  BY <1>2, <1>3, <1>4

(* A tick: every entry that stays is one of the old list. *)
LEMMA PassedOwners ==
  ASSUME NEW s \in Seq(Listener), NEW m \in 0..Len(s), NEW j \in 1..(Len(s) - m)
  PROVE  LET r == passed(s, m) IN
         m + j \in 1..Len(s) /\ r[j].tid = s[m + j].tid /\ r[j].block = s[m + j].block
<1> DEFINE r == passed(s, m)
<1>1. Len(s) \in Nat /\ \A k \in 1..Len(s) : s[k] \in Listener
  OBVIOUS
<1>2. m + j \in 1..Len(s)
  BY <1>1
<1>3. CASE j = 1
  <2>1. r[j] = [s[m + 1] EXCEPT !.time = @ - (TimeInc - Due(s)[m])]
    BY <1>3, Zenon DEF passed
  <2> HIDE DEF r
  <2>2. s[m + 1] \in Listener
    BY <1>1, <1>2, <1>3, Zenon
  <2>3. r[j].tid = s[m + 1].tid /\ r[j].block = s[m + 1].block
    BY <2>1, <2>2, Zenon DEF Listener
  <2> QED
    BY <1>2, <1>3, <2>3, Zenon DEF r
<1>4. CASE j # 1
  <2>1. r[j] = s[m + j]
    BY <1>4, Zenon DEF passed
  <2> QED
    BY <1>2, <2>1, Zenon
<1> QED
  BY <1>3, <1>4, Zenon

-----------------------------------------------------------------------------
(* What the three operations leave as list: entries, not too many, with    *)
(* sums in range.                                                          *)
ListOK == /\ listener \in Seq(Listener)
          /\ Len(listener) <= ListenerCount
          /\ InRange(listener)

(* sleepFor keeps the list well-formed and in range. *)
LEMMA SleepForList ==
  ASSUME ListOK, NEW t \in Threads, NEW d \in Durations, NEW b \in BOOLEAN,
         sleepFor(t, d, b)
  PROVE  ListOK'
<1>1. PICK i \in 1..(Len(listener) + 1) :
        /\ \A j \in 1..(i - 1) : Due(listener)[j] <= d
        /\ i <= Len(listener) => Due(listener)[i] > d
        /\ listener' = inserted(listener, i, t, d, b)
  BY Zenon DEF sleepFor
<1> DEFINE s == listener
           r == listener'
<1>2. /\ s \in Seq(Listener) /\ Len(s) \in Nat /\ InRange(s) /\ d \in 0..MaxMsecs
      /\ Len(s) < ListenerCount /\ ListenerCount \in Nat
  BY TimerAssumption DEF ListOK, sleepFor
<1>3. /\ r \in Seq(Listener)
      /\ Len(r) = Len(s) + 1
      /\ Due(r) = [k \in 0..(Len(s) + 1) |->
                     IF k < i THEN Due(s)[k] ELSE IF k = i THEN d ELSE Due(s)[k - 1]]
  BY <1>1, <1>2, InsertedDue
<1>4. InRange(r)
  <2>1. ASSUME NEW k \in 0..(Len(s) + 1) PROVE Due(r)[k] \in 0..MaxMsecs
    <3>1. CASE k < i
      BY <1>2, <1>3, <3>1 DEF InRange
    <3>2. CASE k = i
      BY <1>2, <1>3, <3>2
    <3>3. CASE k > i
      <4>1. Due(r)[k] = Due(s)[k - 1] /\ k - 1 \in 0..Len(s)
        BY <1>2, <1>3, <3>3
      <4> QED
        BY <1>2, <4>1, Zenon DEF InRange
    <3> QED
      BY <3>1, <3>2, <3>3
  <2> QED
    BY <1>3, <2>1, Zenon DEF InRange
<1>5. Len(r) <= ListenerCount
  BY <1>2, <1>3
<1> QED
  BY <1>3, <1>4, <1>5, Zenon DEF ListOK

(* removeThread keeps the list well-formed and in range. *)
LEMMA RemoveThreadList ==
  ASSUME ListOK, NEW t \in Threads, removeThread(t)
  PROVE  ListOK'
<1> DEFINE s == listener
           r == listener'
<1>1. CASE UNCHANGED listener
  BY <1>1, Zenon DEF ListOK
<1>2. ASSUME NEW i \in 1..Len(listener), listener' = removed(listener, i)
      PROVE  ListOK'
  <2>1. /\ s \in Seq(Listener) /\ Len(s) \in Nat /\ InRange(s)
        /\ Len(s) <= ListenerCount /\ ListenerCount \in Nat
    BY TimerAssumption DEF ListOK
  <2>2. /\ r \in Seq(Listener)
        /\ Len(r) = Len(s) - 1
        /\ Due(r) = [k \in 0..(Len(s) - 1) |-> IF k < i THEN Due(s)[k] ELSE Due(s)[k + 1]]
    BY <1>2, <2>1, RemovedDue, Zenon
  <2>3. InRange(r)
    <3>1. ASSUME NEW k \in 0..(Len(s) - 1) PROVE Due(r)[k] \in 0..MaxMsecs
      <4>1. k \in 0..Len(s) /\ k + 1 \in 0..Len(s)
        BY <2>1
      <4>2. Due(r)[k] = Due(s)[k] \/ Due(r)[k] = Due(s)[k + 1]
        BY <2>2, Zenon
      <4> QED
        BY <2>1, <4>1, <4>2, Zenon DEF InRange
    <3> QED
      BY <2>2, <3>1, Zenon DEF InRange
  <2>4. Len(r) <= ListenerCount
    BY <2>1, <2>2
  <2> QED
    BY <2>2, <2>3, <2>4, Zenon DEF ListOK
<1> QED
  BY <1>1, <1>2, Zenon DEF removeThread

(* A tick keeps the list well-formed and in range. *)
LEMMA TickList ==
  ASSUME ListOK, intrptFirst
  PROVE  ListOK'
<1> DEFINE s == listener
           r == listener'
<1>1. PICK m \in 0..Len(listener) :
        /\ \A j \in 1..m : Due(listener)[j] <= TimeInc
        /\ m < Len(listener) => Due(listener)[m + 1] > TimeInc
        /\ listener' = passed(listener, m)
  BY Zenon DEF intrptFirst
<1>2. /\ s \in Seq(Listener) /\ Len(s) \in Nat /\ InRange(s)
      /\ Len(s) <= ListenerCount /\ ListenerCount \in Nat
      /\ TimeInc \in Nat /\ MaxMsecs \in Nat
  BY TimerAssumption DEF ListOK
<1>3. /\ r \in Seq(Listener)
      /\ Len(r) = Len(s) - m
      /\ Due(r) = [k \in 0..(Len(s) - m) |->
                     IF k = 0 THEN 0 ELSE Due(s)[m + k] - TimeInc]
  BY <1>1, <1>2, PassedDue, Zenon
<1>4. InRange(r)
  <2>1. ASSUME NEW k \in 0..(Len(s) - m) PROVE Due(r)[k] \in 0..MaxMsecs
    <3>1. CASE k = 0
      BY <1>2, <1>3, <3>1
    <3>2. CASE k # 0
      <4>1. /\ m + 1 \in 0..Len(s) /\ m + k \in (m + 1)..Len(s) /\ m + k \in 0..Len(s)
            /\ m < Len(s)
        BY <1>2, <3>2
      <4>2. Due(s)[m + 1] <= Due(s)[m + k]
        BY <1>2, <4>1, DueGrows, Zenon
      <4>3. Due(s)[m + 1] \in 0..MaxMsecs /\ Due(s)[m + k] \in 0..MaxMsecs
        BY <1>2, <4>1, Zenon DEF InRange
      <4>4. Due(s)[m + 1] > TimeInc /\ Due(r)[k] = Due(s)[m + k] - TimeInc
        BY <1>1, <1>3, <3>2, <4>1, Zenon
      <4> QED
        BY <1>2, <4>2, <4>3, <4>4
    <3> QED
      BY <3>1, <3>2, Zenon
  <2> QED
    BY <1>3, <2>1, Zenon DEF InRange
<1>5. Len(r) <= ListenerCount
  BY <1>2, <1>3
<1> QED
  BY <1>3, <1>4, <1>5, Zenon DEF ListOK

(* The part of the invariant about types and sums, and what keeps it: an   *)
(* allowed change of the list, and typed values of the other variables.    *)
TypeInv == TypeOK /\ DueInRange

VarsOK == /\ pc \in [Threads -> PC]
          /\ sigs \in [Threads -> SUBSET Signal]
          /\ handler \in [Threads -> BOOLEAN]
          /\ slice \in [CPUs -> 0..(TimeSlice - 1)]

(* The part of the list and the part of the other variables. *)
LEMMA TypeInvParts == TypeInv <=> ListOK /\ VarsOK
BY Zenon DEF TypeInv, TypeOK, DueInRange, ListOK, InRange, VarsOK

(* A CPU is told to reschedule before its time slice is exceeded. *)
LEMMA RescheduleType ==
  ASSUME slice \in [CPUs -> 0..(TimeSlice - 1)], NEW c \in CPUs, NEW f \in BOOLEAN,
         reschedule(c, f)
  PROVE  slice' \in [CPUs -> 0..(TimeSlice - 1)]
<1>1. TimeInc \in Nat /\ TimeInc >= 1 /\ TimeSlice \in Nat /\ TimeSlice >= 1
  BY TimerAssumption
<1> DEFINE v == IF f \/ slice[c] + TimeInc >= TimeSlice THEN 0 ELSE slice[c] + TimeInc
<1>2. slice[c] \in 0..(TimeSlice - 1)
  BY Zenon
<1>3. v \in 0..(TimeSlice - 1)
  BY <1>1, <1>2
<1>4. slice' = [slice EXCEPT ![c] = v]
  BY Zenon DEF reschedule
<1> HIDE DEF v
<1> QED
  BY <1>3, <1>4, Zenon

(* The timer interrupt keeps the types. *)
LEMMA IntrptType ==
  ASSUME TypeInv, NEW c \in CPUs, intrpt(c)
  PROVE  TypeInv'
<1>1. ListOK /\ VarsOK
  BY TypeInvParts, Zenon
<1>2. CASE c = CPU0 /\ intrptFirst
  <2>1. ListOK'
    BY <1>1, <1>2, TickList, Zenon
  <2>2. PICK m \in 0..Len(listener) :
          /\ sigs' = [t \in Threads |->
                        IF t \in Over(m, FALSE) /\ handler[t]
                        THEN sigs[t] \cup {"SIGALRM"} ELSE sigs[t]]
          /\ pc' = [t \in Threads |->
                      IF pc[t] = "sleep" /\ t \in unblocked(m) THEN "ready" ELSE pc[t]]
          /\ reschedule(CPU0, Over(m, TRUE) # {})
          /\ UNCHANGED handler
    BY <1>2, Zenon DEF intrptFirst
  <2>3. sigs' \in [Threads -> SUBSET Signal]
    BY <1>1, <2>2, Zenon DEF VarsOK, Signal
  <2>4. pc' \in [Threads -> PC]
    BY <1>1, <2>2, Zenon DEF VarsOK, PC
  <2>5. slice' \in [CPUs -> 0..(TimeSlice - 1)]
    <3>1. (Over(m, TRUE) # {}) \in BOOLEAN /\ CPU0 \in CPUs
      BY TimerAssumption, Zenon
    <3>2. slice \in [CPUs -> 0..(TimeSlice - 1)]
      BY <1>1, Zenon DEF VarsOK
    <3> QED
      BY <2>2, <3>1, <3>2, RescheduleType, Zenon
  <2>6. VarsOK'
    BY <1>1, <2>2, <2>3, <2>4, <2>5, Zenon DEF VarsOK
  <2> QED
    BY <2>1, <2>6, TypeInvParts, PTL
<1>3. CASE c # CPU0 /\ reschedule(c, FALSE) /\ UNCHANGED <<listener, pc, sigs, handler>>
  <2>1. slice \in [CPUs -> 0..(TimeSlice - 1)]
    BY <1>1, Zenon DEF VarsOK
  <2>2. slice' \in [CPUs -> 0..(TimeSlice - 1)]
    BY <1>3, <2>1, RescheduleType, Zenon
  <2>3. ListOK'
    BY <1>1, <1>3, Zenon DEF ListOK
  <2>4. VarsOK'
    BY <1>1, <1>3, <2>2, Zenon DEF VarsOK
  <2> QED
    BY <2>3, <2>4, TypeInvParts, PTL
<1> QED
  BY <1>2, <1>3, Zenon DEF intrpt

(* The steps of threads keep the types. *)
LEMMA ThreadType ==
  ASSUME TypeInv, NEW t \in Threads, ThreadNext(t)
  PROVE  TypeInv'
<1>1. ListOK /\ VarsOK
  BY TypeInvParts, Zenon
<1>2. SUFFICES ListOK' /\ VarsOK'
  BY TypeInvParts, PTL
<1>3. ASSUME NEW d \in Durations, alarmSet(t, d) PROVE ListOK' /\ VarsOK'
  <2>1. ListOK'
    <3>1. CASE UNCHANGED listener
      BY <1>1, <3>1, Zenon DEF ListOK
    <3> QED
      BY <1>1, <1>3, <3>1, SleepForList, Zenon DEF alarmSet
  <2> QED
    BY <1>1, <1>3, <2>1, Zenon DEF alarmSet, VarsOK, PC
<1>4. ASSUME NEW d \in Durations, sleep(t, d) PROVE ListOK' /\ VarsOK'
  <2>1. ListOK'
    <3>1. CASE UNCHANGED listener
      BY <1>1, <3>1, Zenon DEF ListOK
    <3> QED
      BY <1>1, <1>4, <3>1, SleepForList, Zenon DEF sleep
  <2> QED
    BY <1>1, <1>4, <2>1, Zenon DEF sleep, VarsOK, PC
<1>5. CASE alarm(t) \/ sleepEnd(t) \/ terminate(t)
  <2>1. removeThread(t) /\ UNCHANGED <<sigs, handler, slice>>
        /\ \E p \in PC : pc' = [pc EXCEPT ![t] = p]
    BY <1>5, Zenon DEF alarm, sleepEnd, terminate, PC
  <2>2. ListOK'
    BY <1>1, <2>1, RemoveThreadList, Zenon
  <2> QED
    BY <1>1, <2>1, <2>2, Zenon DEF VarsOK
<1>6. ASSUME UNCHANGED listener PROVE ListOK'
  BY <1>1, <1>6, Zenon DEF ListOK
<1>7. ASSUME NEW h \in BOOLEAN, setHandler(t, h) PROVE ListOK' /\ VarsOK'
  BY <1>1, <1>6, <1>7, Zenon DEF setHandler, VarsOK
<1>8. ASSUME NEW g \in Signal, checkAndStart(t, g) PROVE ListOK' /\ VarsOK'
  BY <1>1, <1>6, <1>8, Zenon DEF checkAndStart, VarsOK
<1>9. CASE addSignalFor(t)
  BY <1>1, <1>6, <1>9, Zenon DEF addSignalFor, VarsOK, PC, Signal
<1>10. CASE kill(t)
  BY <1>1, <1>6, <1>10, Zenon DEF kill, VarsOK, PC
<1>11. CASE create(t)
  BY <1>1, <1>6, <1>11, Zenon DEF create, VarsOK, PC
<1> QED
  BY <1>3, <1>4, <1>5, <1>7, <1>8, <1>9, <1>10, <1>11, Zenon DEF ThreadNext

(* The types hold in the beginning. *)
LEMMA InitType == Init => TypeInv
<1>1. SUFFICES ASSUME Init PROVE ListOK /\ VarsOK
  BY TypeInvParts, Zenon
<1>2. listener = <<>> /\ listener \in Seq(Listener) /\ Len(listener) = 0
  BY <1>1 DEF Init
<1>3. Due(listener)[0] = 0 /\ MaxMsecs \in Nat
  BY <1>2, DueOfList, TimerAssumption, Zenon
<1>4. InRange(listener)
  BY <1>2, <1>3 DEF InRange
<1>5. ListOK
  BY <1>2, <1>4, TimerAssumption DEF ListOK
<1>6. 0 \in 0..(TimeSlice - 1)
  BY TimerAssumption
<1>7. VarsOK
  BY <1>1, <1>6, Zenon DEF Init, VarsOK, PC
<1> QED
  BY <1>5, <1>7, Zenon

(* Types: times stay in a time_t and slices within TIMESLICE (TypeOK); the *)
(* sums that sleepFor computes stay in a time_t (DueInRange).              *)
THEOREM TimerTypeCorrect == Spec => [](TypeOK /\ DueInRange)
<1>1. Init => TypeInv
  BY InitType, Zenon
<1>2. TypeInv /\ [Next]_vars => TypeInv'
  <2>1. SUFFICES ASSUME TypeInv, [Next]_vars PROVE TypeInv'
    BY Zenon
  <2>2. CASE UNCHANGED vars
    BY <2>1, <2>2, Zenon DEF TypeInv, TypeOK, DueInRange, vars
  <2> QED
    BY <2>1, <2>2, IntrptType, ThreadType, Zenon DEF Next
<1> QED
  BY <1>1, <1>2, PTL DEF Spec, TypeInv

(* No time in the list of TimerBase leaves the range of a time_t, and the  *)
(* list never has more entries than there are listeners.                   *)
THEOREM TimerTypes == Spec => []TypeOK
BY TimerTypeCorrect, PTL

-----------------------------------------------------------------------------
(***************************************************************************)
(* The entries of one thread, as many as make GoneHasNoEntry inductive:    *)
(* none while alarm() replaces it and after the end of the thread, one in  *)
(* user mode, one more while it sleeps; and SleeperHasEntry for it.        *)
(***************************************************************************)
EntriesFor(u) ==
  /\ pc[u] \in {"alarm", "zombie", "dead"} => Entries(u) = {}
  /\ pc[u] = "user" => \A i, j \in Entries(u) : i = j
  /\ pc[u] \in {"sleep", "ready"} =>
       \A i, j, k \in Entries(u) : i = j \/ j = k \/ i = k
SleeperFor(u) ==
  pc[u] = "sleep" => /\ sigs[u] = {}
                     /\ \E i \in Entries(u) : listener[i].block

(* Both properties about owners, thread by thread. *)
LEMMA OwnersParts ==
  /\ (\A u \in Threads : EntriesFor(u)) => GoneHasNoEntry
  /\ SleeperHasEntry <=> \A u \in Threads : SleeperFor(u)
BY Zenon DEF GoneHasNoEntry, EntriesFor, SleeperHasEntry, SleeperFor

(* sleepFor: all entries but the new one come from the old list.           *)
LEMMA SleepForOwners ==
  ASSUME ListOK, NEW t \in Threads, NEW d \in Durations, NEW b \in BOOLEAN,
         sleepFor(t, d, b)
  PROVE  \E i \in 1..Len(listener') :
           /\ Len(listener) \in Nat /\ Len(listener') = Len(listener) + 1
           /\ listener'[i].tid = t /\ listener'[i].block = b
           /\ \A j \in 1..Len(listener') : j # i =>
                LET k == IF j < i THEN j ELSE j - 1 IN
                /\ k \in 1..Len(listener)
                /\ listener'[j].tid = listener[k].tid
                /\ listener'[j].block = listener[k].block
<1>1. PICK i \in 1..(Len(listener) + 1) :
        /\ \A j \in 1..(i - 1) : Due(listener)[j] <= d
        /\ i <= Len(listener) => Due(listener)[i] > d
        /\ listener' = inserted(listener, i, t, d, b)
  BY Zenon DEF sleepFor
<1>2. /\ listener \in Seq(Listener) /\ Len(listener) \in Nat /\ InRange(listener)
      /\ d \in 0..MaxMsecs
  BY TimerAssumption DEF ListOK
<1>3. Len(listener') = Len(listener) + 1
  BY <1>1, <1>2, InsertedDue, Zenon
<1>4. ASSUME NEW j \in 1..(Len(listener) + 1)
      PROVE  /\ j < i => /\ j \in 1..Len(listener) /\ listener'[j].tid = listener[j].tid
                         /\ listener'[j].block = listener[j].block
             /\ j = i => listener'[j].tid = t /\ listener'[j].block = b
             /\ j > i => /\ j - 1 \in 1..Len(listener)
                         /\ listener'[j].tid = listener[j - 1].tid
                         /\ listener'[j].block = listener[j - 1].block
  BY <1>1, <1>2, InsertedOwners
<1>5. ASSUME NEW j \in 1..(Len(listener) + 1), j # i
      PROVE  LET k == IF j < i THEN j ELSE j - 1 IN
             /\ k \in 1..Len(listener)
             /\ listener'[j].tid = listener[k].tid
             /\ listener'[j].block = listener[k].block
  <2>1. CASE j < i
    BY <1>4, <2>1, Zenon
  <2>2. CASE j > i
    BY <1>4, <2>2, Zenon
  <2> QED
    BY <1>5, <2>1, <2>2
<1> QED
  BY <1>2, <1>3, <1>4, <1>5, Zenon

(* removeThread: all entries come from the old list, without the first one *)
(* of the thread.                                                          *)
LEMMA RemoveThreadOwners ==
  ASSUME ListOK, NEW t \in Threads, removeThread(t)
  PROVE  \/ Entries(t) = {} /\ UNCHANGED listener
         \/ \E i \in Entries(t) :
              /\ Len(listener) \in Nat /\ Len(listener') = Len(listener) - 1
              /\ \A j \in 1..Len(listener') :
                   LET k == IF j < i THEN j ELSE j + 1 IN
                   /\ k \in 1..Len(listener)
                   /\ listener'[j].tid = listener[k].tid
                   /\ listener'[j].block = listener[k].block
<1>1. ASSUME NEW i \in 1..Len(listener), listener[i].tid = t,
             listener' = removed(listener, i)
      PROVE  \E e \in Entries(t) :
               /\ Len(listener) \in Nat /\ Len(listener') = Len(listener) - 1
               /\ \A j \in 1..Len(listener') :
                    LET k == IF j < e THEN j ELSE j + 1 IN
                    /\ k \in 1..Len(listener)
                    /\ listener'[j].tid = listener[k].tid
                    /\ listener'[j].block = listener[k].block
  <2>1. listener \in Seq(Listener) /\ Len(listener) \in Nat /\ InRange(listener)
    BY DEF ListOK
  <2>2. Len(listener') = Len(listener) - 1
    BY <1>1, <2>1, RemovedDue, Zenon
  <2>3. ASSUME NEW j \in 1..(Len(listener) - 1)
        PROVE  LET k == IF j < i THEN j ELSE j + 1 IN
               /\ k \in 1..Len(listener)
               /\ listener'[j].tid = listener[k].tid
               /\ listener'[j].block = listener[k].block
    BY <1>1, <2>1, RemovedOwners, Zenon
  <2>4. i \in Entries(t)
    BY <1>1, Zenon DEF Entries
  <2> QED
    BY <2>1, <2>2, <2>3, <2>4, Zenon
<1>2. \/ \E i \in 1..Len(listener) : listener[i].tid = t /\ listener' = removed(listener, i)
      \/ (\A i \in 1..Len(listener) : listener[i].tid # t) /\ UNCHANGED listener
  BY Zenon DEF removeThread
<1>3. CASE (\A i \in 1..Len(listener) : listener[i].tid # t) /\ UNCHANGED listener
  BY <1>3, SMTT(30) DEF Entries
<1> QED
  BY <1>1, <1>2, <1>3, Zenon

(* sleepFor keeps the entries of the others; the thread has one more.      *)
LEMMA SleepForEntries ==
  ASSUME ListOK, NEW t \in Threads, NEW d \in Durations, NEW b \in BOOLEAN,
         sleepFor(t, d, b), NEW u \in Threads,
         pc \in [Threads -> PC], NEW p \in PC, pc' = [pc EXCEPT ![t] = p],
         EntriesFor(u), SleeperFor(u), sigs' = sigs
  PROVE  /\ u # t => EntriesFor(u)' /\ SleeperFor(u)'
         /\ Entries(t) = {} => \A j, k \in Entries(t)' : j = k
         /\ (\A j, k \in Entries(t) : j = k) =>
              \A j, k, l \in Entries(t)' : j = k \/ k = l \/ j = l
         /\ \E e \in Entries(t)' : listener'[e].block = b
<1>1. PICK i \in 1..Len(listener') :
        /\ Len(listener) \in Nat /\ Len(listener') = Len(listener) + 1
        /\ listener'[i].tid = t /\ listener'[i].block = b
        /\ \A j \in 1..Len(listener') : j # i =>
             LET k == IF j < i THEN j ELSE j - 1 IN
             /\ k \in 1..Len(listener)
             /\ listener'[j].tid = listener[k].tid
             /\ listener'[j].block = listener[k].block
  BY SleepForOwners
<1> DEFINE old(j) == IF j < i THEN j ELSE j - 1
<1>2. ASSUME NEW w \in Threads, NEW j \in Entries(w)', j # i
      PROVE  old(j) \in Entries(w)
  BY <1>1, <1>2, Zenon DEF Entries
<1>3. ASSUME NEW j \in 1..Len(listener'), NEW k \in 1..Len(listener'), j # i, k # i,
             old(j) = old(k)
      PROVE  j = k
  BY <1>1, <1>3
<1>4. ASSUME NEW w \in Threads, w # t, NEW j \in Entries(w)' PROVE j # i
  BY <1>1, <1>4, Zenon DEF Entries
<1>5. ASSUME NEW w \in Threads, NEW j \in Entries(w)' PROVE j \in 1..Len(listener')
  BY <1>5, Zenon DEF Entries
<1> HIDE DEF old
<1>6. ASSUME u # t PROVE EntriesFor(u)'
  <2>1. pc'[u] = pc[u]
    BY <1>6, Zenon
  <2>2. \A j, k \in Entries(u)' : old(j) = old(k) => j = k
    BY <1>3, <1>4, <1>5, <1>6, Zenon
  <2>3. \A j \in Entries(u)' : old(j) \in Entries(u)
    BY <1>2, <1>4, <1>6, Zenon
  <2> QED
    BY <2>1, <2>2, <2>3 DEF EntriesFor
<1>7. ASSUME u # t PROVE SleeperFor(u)'
  <2>1. pc'[u] = pc[u]
    BY <1>7, Zenon
  <2>2. SUFFICES ASSUME pc[u] = "sleep"
                 PROVE  \E e \in Entries(u)' : listener'[e].block
    BY <2>1, Zenon DEF SleeperFor
  <2>3. PICK e \in Entries(u) : listener[e].block
    BY <2>2, Zenon DEF SleeperFor
  <2> DEFINE n == IF e < i THEN e ELSE e + 1
  <2>4. e \in 1..Len(listener) /\ listener[e].tid = u
    BY <2>3, Zenon DEF Entries
  <2>5. n \in 1..Len(listener') /\ n # i /\ (IF n < i THEN n ELSE n - 1) = e
    BY <1>1, <2>4
  <2> HIDE DEF n
  <2>6. listener'[n].tid = u /\ listener'[n].block = listener[e].block
    BY <1>1, <2>4, <2>5, Zenon
  <2>7. n \in Entries(u)'
    BY <2>5, <2>6, Zenon DEF Entries
  <2> QED
    BY <2>3, <2>6, <2>7, Zenon
<1>8. Entries(t) = {} => \A j, k \in Entries(t)' : j = k
  BY <1>2, Zenon
<1>9. (\A j, k \in Entries(t) : j = k) =>
         \A j, k, l \in Entries(t)' : j = k \/ k = l \/ j = l
  <2>1. \A j, k \in Entries(t)' : j # i /\ k # i /\ old(j) = old(k) => j = k
    BY <1>3, <1>5, Zenon
  <2> QED
    BY <1>2, <2>1
<1>10. i \in Entries(t)'
  BY <1>1, Zenon DEF Entries
<1> QED
  BY <1>1, <1>6, <1>7, <1>8, <1>9, <1>10, Zenon

(* removeThread keeps the entries of the others; the thread has one less,  *)
(* if it had any.                                                          *)
LEMMA RemoveThreadEntries ==
  ASSUME ListOK, NEW t \in Threads, removeThread(t), NEW u \in Threads,
         pc \in [Threads -> PC], \E p \in PC : pc' = [pc EXCEPT ![t] = p],
         EntriesFor(u), SleeperFor(u), sigs' = sigs
  PROVE  /\ u # t => EntriesFor(u)' /\ SleeperFor(u)'
         /\ (\A j, k \in Entries(t) : j = k) => Entries(t)' = {}
         /\ (\A j, k, l \in Entries(t) : j = k \/ k = l \/ j = l) =>
              \A j, k \in Entries(t)' : j = k
<1>1. CASE Entries(t) = {} /\ UNCHANGED listener
  <2>1. \A w \in Threads : Entries(w)' = Entries(w)
    BY <1>1, Zenon DEF Entries
  <2>2. ASSUME u # t PROVE EntriesFor(u)' /\ SleeperFor(u)'
    <3>1. pc'[u] = pc[u] /\ listener' = listener /\ Entries(u)' = Entries(u)
      BY <1>1, <2>1, <2>2, Zenon
    <3> QED
      BY <3>1 DEF EntriesFor, SleeperFor
  <2> QED
    BY <1>1, <2>1, <2>2
<1>2. ASSUME NEW i \in Entries(t),
             Len(listener) \in Nat /\ Len(listener') = Len(listener) - 1,
             \A j \in 1..Len(listener') :
               LET k == IF j < i THEN j ELSE j + 1 IN
               /\ k \in 1..Len(listener)
               /\ listener'[j].tid = listener[k].tid
               /\ listener'[j].block = listener[k].block
      PROVE  /\ u # t => EntriesFor(u)' /\ SleeperFor(u)'
             /\ (\A j, k \in Entries(t) : j = k) => Entries(t)' = {}
             /\ (\A j, k, l \in Entries(t) : j = k \/ k = l \/ j = l) =>
                  \A j, k \in Entries(t)' : j = k
  <2> DEFINE old(j) == IF j < i THEN j ELSE j + 1
  <2>0. i \in 1..Len(listener) /\ listener[i].tid = t
    BY SMTT(30) DEF Entries
  <2>1. ASSUME NEW w \in Threads, NEW j \in Entries(w)'
        PROVE  old(j) \in Entries(w) /\ old(j) # i /\ j \in 1..Len(listener')
    BY <1>2, <2>0, <2>1, SMTT(30) DEF Entries
  <2>2. ASSUME NEW j \in 1..Len(listener'), NEW k \in 1..Len(listener'), old(j) = old(k)
        PROVE  j = k
    BY <1>2, <2>0, <2>2
  <2> HIDE DEF old
  <2>3. ASSUME u # t PROVE EntriesFor(u)'
    <3>1. pc'[u] = pc[u]
      BY <2>3, Zenon
    <3>2. \A j, k \in Entries(u)' : old(j) = old(k) => j = k
      BY <2>1, <2>2, Zenon
    <3>3. \A j \in Entries(u)' : old(j) \in Entries(u)
      BY <2>1, Zenon
    <3> QED
      BY <3>1, <3>2, <3>3 DEF EntriesFor
  <2>4. ASSUME u # t PROVE SleeperFor(u)'
    <3>1. pc'[u] = pc[u]
      BY <2>4, Zenon
    <3>2. SUFFICES ASSUME pc[u] = "sleep"
                   PROVE  \E e \in Entries(u)' : listener'[e].block
      BY <3>1, Zenon DEF SleeperFor
    <3>3. PICK e \in Entries(u) : listener[e].block
      BY <3>2, Zenon DEF SleeperFor
    <3> DEFINE n == IF e < i THEN e ELSE e - 1
    <3>4. e \in 1..Len(listener) /\ listener[e].tid = u /\ e # i
      BY <2>0, <2>4, <3>3, Zenon DEF Entries
    <3>5. n \in 1..Len(listener') /\ (IF n < i THEN n ELSE n + 1) = e
      BY <1>2, <2>0, <3>4
    <3> HIDE DEF n
    <3>6. listener'[n].tid = u /\ listener'[n].block = listener[e].block
      BY <1>2, <3>4, <3>5, Zenon
    <3>7. n \in Entries(u)'
      BY <3>5, <3>6, Zenon DEF Entries
    <3> QED
      BY <3>3, <3>6, <3>7, Zenon
  <2>5. (\A j, k \in Entries(t) : j = k) => Entries(t)' = {}
    BY <1>2, <2>1, Zenon
  <2>6. (\A j, k, l \in Entries(t) : j = k \/ k = l \/ j = l) =>
           \A j, k \in Entries(t)' : j = k
    BY <1>2, <2>1, <2>2
  <2> QED
    BY <2>3, <2>4, <2>5, <2>6, Zenon
<1> QED
  BY <1>1, <1>2, RemoveThreadOwners, Zenon

(* A tick takes the first entries out of the list and ends the sleep of    *)
(* every thread whose last entry was among them.                           *)
LEMMA TickEntries ==
  ASSUME ListOK, VarsOK, intrptFirst, NEW u \in Threads, EntriesFor(u), SleeperFor(u)
  PROVE  EntriesFor(u)' /\ SleeperFor(u)'
<1>1. PICK m \in 0..Len(listener) :
        /\ \A j \in 1..m : Due(listener)[j] <= TimeInc
        /\ m < Len(listener) => Due(listener)[m + 1] > TimeInc
        /\ listener' = passed(listener, m)
        /\ sigs' = [t \in Threads |->
                      IF t \in Over(m, FALSE) /\ handler[t]
                      THEN sigs[t] \cup {"SIGALRM"} ELSE sigs[t]]
        /\ pc' = [t \in Threads |->
                    IF pc[t] = "sleep" /\ t \in unblocked(m) THEN "ready" ELSE pc[t]]
  BY Zenon DEF intrptFirst
<1>2. listener \in Seq(Listener) /\ Len(listener) \in Nat /\ InRange(listener)
  BY DEF ListOK
<1>3. Len(listener') = Len(listener) - m
  BY <1>1, <1>2, PassedDue, Zenon
<1>4. ASSUME NEW j \in 1..Len(listener')
      PROVE  /\ m + j \in 1..Len(listener)
             /\ listener'[j].tid = listener[m + j].tid
             /\ listener'[j].block = listener[m + j].block
  BY <1>1, <1>2, <1>3, <1>4, PassedOwners, Zenon
<1>5. ASSUME NEW j \in Entries(u)' PROVE m + j \in Entries(u) /\ j \in Nat
  BY <1>4, <1>5, SMTT(30) DEF Entries
<1>6. \A j, k \in Entries(u)' : m + j = m + k => j = k
  BY <1>5, <1>1
<1>7. EntriesFor(u)'
  <2>1. pc'[u] = pc[u] \/ (pc[u] = "sleep" /\ pc'[u] = "ready")
    BY <1>1, Zenon
  <2> QED
    BY <1>5, <1>6, <2>1, SMTT(30) DEF EntriesFor
<1>8. SleeperFor(u)'
  <2>1. SUFFICES ASSUME pc'[u] = "sleep"
                 PROVE  /\ sigs'[u] = {}
                        /\ \E e \in Entries(u)' : listener'[e].block
    BY Zenon DEF SleeperFor
  <2>2. pc[u] = "sleep" /\ u \notin unblocked(m)
    BY <1>1, <2>1, Zenon
  <2>3. sigs'[u] = {}
    BY <1>1, <2>2, Zenon DEF SleeperFor, unblocked
  <2>4. PICK e \in Entries(u) : listener[e].block
    BY <2>2, Zenon DEF SleeperFor
  <2>5. e \in 1..Len(listener) /\ listener[e].tid = u /\ listener[e].block = TRUE
    <3>1. e \in 1..Len(listener) /\ listener[e].tid = u
      BY <2>4, Zenon DEF Entries
    <3>2. listener[e] \in Listener
      BY <1>2, <3>1
    <3>3. listener[e].block \in BOOLEAN
      BY <3>2, Zenon DEF Listener
    <3> QED
      BY <2>4, <3>1, <3>3, Zenon
  <2>6. e > m
    <3>1. SUFFICES ASSUME e \in 1..m PROVE FALSE
      BY <1>2, <2>5
    <3>2. u \in Over(m, TRUE)
      BY <2>5, <3>1, Zenon DEF Over
    <3> QED
      BY <2>2, <3>2, Zenon DEF unblocked
  <2> DEFINE n == e - m
  <2>7. n \in 1..Len(listener') /\ m + n = e
    BY <1>2, <1>3, <2>5, <2>6
  <2> HIDE DEF n
  <2>8. listener'[n].tid = u /\ listener'[n].block
    BY <1>4, <2>4, <2>5, <2>7, Zenon
  <2>9. n \in Entries(u)'
    BY <2>7, <2>8, Zenon DEF Entries
  <2> QED
    BY <2>3, <2>8, <2>9, Zenon
<1> QED
  BY <1>7, <1>8, Zenon

(* The inductive invariant: types, sums, and the entries of every thread.  *)
OwnersInv == TypeInv /\ \A u \in Threads : EntriesFor(u) /\ SleeperFor(u)

(* The steps of threads keep the number of entries of every thread. *)
LEMMA ThreadEntries ==
  ASSUME OwnersInv, NEW t \in Threads, ThreadNext(t), NEW u \in Threads
  PROVE  EntriesFor(u)' /\ SleeperFor(u)'
<1>1. ListOK /\ VarsOK /\ EntriesFor(u) /\ SleeperFor(u) /\ EntriesFor(t) /\ SleeperFor(t)
  BY TypeInvParts, Zenon DEF OwnersInv
<1>2. pc \in [Threads -> PC] /\ sigs \in [Threads -> SUBSET Signal]
  BY <1>1, Zenon DEF VarsOK
<1>3. ASSUME NEW d \in Durations, sleepFor(t, d, FALSE), sigs' = sigs,
             pc' = [pc EXCEPT ![t] = "user"]
      PROVE  /\ u # t => EntriesFor(u)' /\ SleeperFor(u)'
             /\ Entries(t) = {} => \A j, k \in Entries(t)' : j = k
  <2>1. "user" \in PC /\ FALSE \in BOOLEAN
    BY SMTT(30) DEF PC
  <2> QED
    BY <1>1, <1>2, <1>3, <2>1, SleepForEntries, Zenon
<1>4. ASSUME UNCHANGED listener, UNCHANGED pc, UNCHANGED sigs
      PROVE  EntriesFor(u)' /\ SleeperFor(u)'
  BY <1>1, <1>4 DEF EntriesFor, SleeperFor, Entries
<1>5. ASSUME UNCHANGED listener PROVE Entries(u)' = Entries(u)
  BY <1>5, Zenon DEF Entries
<1>6. ASSUME NEW d \in Durations, alarmSet(t, d) PROVE EntriesFor(u)' /\ SleeperFor(u)'
  <2>1. pc[t] = "alarm" /\ pc' = [pc EXCEPT ![t] = "user"] /\ sigs' = sigs /\ pc'[t] = "user"
        /\ "user" \in PC
    BY <1>2, <1>6, Zenon DEF alarmSet, PC
  <2>2. Entries(t) = {}
    BY <1>1, <2>1, Zenon DEF EntriesFor
  <2>3. CASE sleepFor(t, d, FALSE)
    <3>1. CASE u # t
      BY <1>3, <2>1, <2>3, <3>1, Zenon
    <3>2. CASE u = t
      <4>1. \A j, k \in Entries(t)' : j = k
        BY <1>3, <2>1, <2>2, <2>3, Zenon
      <4> QED
        BY <2>1, <3>2, <4>1, Zenon DEF EntriesFor, SleeperFor
    <3> QED
      BY <3>1, <3>2, Zenon
  <2>4. CASE UNCHANGED listener
    BY <1>1, <1>2, <1>5, <2>1, <2>2, <2>4 DEF EntriesFor, SleeperFor
  <2> QED
    BY <1>6, <2>3, <2>4, Zenon DEF alarmSet
<1>7. ASSUME NEW d \in Durations, sleep(t, d) PROVE EntriesFor(u)' /\ SleeperFor(u)'
  <2>1. CASE sleepFor(t, d, TRUE)
             /\ pc' = [pc EXCEPT ![t] = IF sigs[t] = {} THEN "sleep" ELSE "ready"]
    <3> DEFINE p == IF sigs[t] = {} THEN "sleep" ELSE "ready"
    <3>1. pc[t] = "user" /\ pc' = [pc EXCEPT ![t] = p] /\ sigs' = sigs /\ pc'[t] = p
          /\ p \in PC
      BY <1>2, <1>7, <2>1, Zenon DEF sleep, PC
    <3>2. \A j, k \in Entries(t) : j = k
      BY <1>1, <3>1, Zenon DEF EntriesFor
    <3>3. p \in {"sleep", "ready"} /\ (p = "sleep" => sigs[t] = {})
      BY Zenon
    <3> HIDE DEF p
    <3>4. /\ u # t => EntriesFor(u)' /\ SleeperFor(u)'
          /\ \A j, k, l \in Entries(t)' : j = k \/ k = l \/ j = l
          /\ \E e \in Entries(t)' : listener'[e].block = TRUE
      <4>1. TRUE \in BOOLEAN
        BY Zenon
      <4> QED
        BY <1>1, <1>2, <1>7, <2>1, <3>1, <3>2, <4>1, SleepForEntries, Zenon
    <3>5. CASE u = t
      <4>1. /\ \A j, k, l \in Entries(t)' : j = k \/ k = l \/ j = l
            /\ \E e \in Entries(t)' : listener'[e].block = TRUE
        BY <3>4, Zenon
      <4>2. EntriesFor(t)'
        BY <3>1, <3>3, <4>1, Zenon DEF EntriesFor
      <4>3. SleeperFor(t)'
        BY <3>1, <3>3, <4>1, Zenon DEF SleeperFor
      <4> QED
        BY <3>5, <4>2, <4>3, Zenon
    <3> QED
      BY <3>4, <3>5, Zenon
  <2>2. CASE UNCHANGED <<listener, pc>>
    BY <1>4, <1>7, <2>2, Zenon DEF sleep
  <2> QED
    BY <1>7, <2>1, <2>2, Zenon DEF sleep
<1>8. CASE alarm(t) \/ sleepEnd(t) \/ terminate(t)
  <2>1. PICK p \in {"alarm", "user", "zombie"} :
          /\ removeThread(t) /\ sigs' = sigs
          /\ pc' = [pc EXCEPT ![t] = p]
          /\ pc[t] = "user" \/ (pc[t] = "ready" /\ p = "user")
    BY <1>8, Zenon DEF alarm, sleepEnd, terminate
  <2>2. p \in PC /\ pc'[t] = p
    BY <1>2, <2>1, Zenon DEF PC
  <2>3. /\ u # t => EntriesFor(u)' /\ SleeperFor(u)'
        /\ (\A j, k \in Entries(t) : j = k) => Entries(t)' = {}
        /\ (\A j, k, l \in Entries(t) : j = k \/ k = l \/ j = l) =>
             \A j, k \in Entries(t)' : j = k
    BY <1>1, <1>2, <2>1, <2>2, RemoveThreadEntries, Zenon
  <2>4. CASE u = t
    BY <1>1, <2>1, <2>2, <2>3, <2>4, Zenon DEF EntriesFor, SleeperFor
  <2> QED
    BY <2>3, <2>4, Zenon
<1>9. ASSUME NEW h \in BOOLEAN, setHandler(t, h) PROVE EntriesFor(u)' /\ SleeperFor(u)'
  BY <1>4, <1>9, Zenon DEF setHandler
<1>10. ASSUME NEW g \in Signal, checkAndStart(t, g) PROVE EntriesFor(u)' /\ SleeperFor(u)'
  BY <1>1, <1>2, <1>5, <1>10 DEF checkAndStart, EntriesFor, SleeperFor
<1>11. CASE addSignalFor(t)
  BY <1>1, <1>2, <1>5, <1>11 DEF addSignalFor, EntriesFor, SleeperFor
<1>12. CASE kill(t)
  BY <1>1, <1>2, <1>5, <1>12 DEF kill, EntriesFor, SleeperFor
<1>13. CASE create(t)
  BY <1>1, <1>2, <1>5, <1>13 DEF create, EntriesFor, SleeperFor
<1> QED
  BY <1>6, <1>7, <1>8, <1>9, <1>10, <1>11, <1>12, <1>13, Zenon DEF ThreadNext

(* Every step keeps the invariant about owners. *)
LEMMA OwnersStep == OwnersInv /\ [Next]_vars => OwnersInv'
<1>1. SUFFICES ASSUME OwnersInv, [Next]_vars PROVE OwnersInv'
  BY Zenon
<1>2. CASE UNCHANGED vars
  BY <1>1, <1>2 DEF OwnersInv, TypeInv, TypeOK, DueInRange, EntriesFor, SleeperFor,
                    Entries, vars
<1>3. ASSUME NEW t \in Threads, ThreadNext(t) PROVE OwnersInv'
  BY <1>1, <1>3, ThreadType, ThreadEntries, Zenon DEF OwnersInv
<1>4. ASSUME NEW c \in CPUs, intrpt(c) PROVE OwnersInv'
  <2>1. TypeInv'
    BY <1>1, <1>4, IntrptType, Zenon DEF OwnersInv
  <2>2. ASSUME NEW u \in Threads PROVE EntriesFor(u)' /\ SleeperFor(u)'
    <3>1. ListOK /\ VarsOK /\ EntriesFor(u) /\ SleeperFor(u)
      BY <1>1, TypeInvParts, Zenon DEF OwnersInv
    <3>2. CASE intrptFirst
      BY <3>1, <3>2, TickEntries, Zenon
    <3>3. CASE UNCHANGED <<listener, pc, sigs, handler>>
      BY <3>1, <3>3 DEF EntriesFor, SleeperFor, Entries
    <3> QED
      BY <1>4, <3>2, <3>3, Zenon DEF intrpt
  <2> QED
    BY <2>1, <2>2, Zenon DEF OwnersInv
<1> QED
  BY <1>1, <1>2, <1>3, <1>4, Zenon DEF Next

(* The invariant about owners holds in the beginning. *)
LEMMA OwnersInit == Init => OwnersInv
<1>1. SUFFICES ASSUME Init PROVE OwnersInv
  BY Zenon
<1>2. TypeInv
  BY <1>1, InitType, Zenon
<1>3. ASSUME NEW u \in Threads PROVE EntriesFor(u) /\ SleeperFor(u)
  <2>1. pc[u] = "user" /\ Entries(u) = {}
    BY <1>1 DEF Init, Entries
  <2> QED
    BY <2>1, Zenon DEF EntriesFor, SleeperFor
<1> QED
  BY <1>2, <1>3, Zenon DEF OwnersInv

(* No thread that has ended has an entry in the list, for any number of    *)
(* threads and listeners (GoneHasNoEntry).                                 *)
THEOREM TimerEntries == Spec => []GoneHasNoEntry
<1>1. OwnersInv => GoneHasNoEntry
  BY OwnersParts, Zenon DEF OwnersInv
<1> QED
  BY <1>1, OwnersInit, OwnersStep, PTL DEF Spec

(* A sleeper has an entry that will unblock it (SleeperHasEntry).          *)
THEOREM TimerSleepers == Spec => []SleeperHasEntry
<1>1. OwnersInv => SleeperHasEntry
  BY OwnersParts, Zenon DEF OwnersInv
<1> QED
  BY <1>1, OwnersInit, OwnersStep, PTL DEF Spec

-----------------------------------------------------------------------------
(* The list as Countdown sees it.                                          *)
View(s) == [i \in 1..Len(s) |->
              [tid |-> s[i].tid, left |-> Due(s)[i], block |-> s[i].block]]

(* The view of a list has one timer per entry. *)
LEMMA ViewLen ==
  ASSUME NEW s \in Seq(Listener)
  PROVE  /\ Len(View(s)) = Len(s) /\ Len(s) \in Nat
         /\ \A j \in 1..Len(s) :
              View(s)[j] = [tid |-> s[j].tid, left |-> Due(s)[j], block |-> s[j].block]
<1> DEFINE n == Len(s)
           T == {View(s)[j] : j \in 1..n}
<1>1. n \in Nat
  OBVIOUS
<1>2. View(s) \in [1..n -> T]
  BY Zenon DEF View
<1> HIDE DEF T
<1>3. Len(View(s)) = n
  BY <1>1, <1>2, SeqOf, Zenon
<1>4. \A j \in 1..Len(s) :
        View(s)[j] = [tid |-> s[j].tid, left |-> Due(s)[j], block |-> s[j].block]
  BY Zenon DEF View
<1> QED
  BY <1>1, <1>3, <1>4, Zenon

(* sleepFor is the start of a timer. *)
LEMMA ViewInserted ==
  ASSUME NEW s \in Seq(Listener), InRange(s), NEW i \in 1..(Len(s) + 1),
         NEW t \in Threads, NEW d \in 0..MaxMsecs, NEW b \in BOOLEAN,
         \A j \in 1..(i - 1) : Due(s)[j] <= d,
         i <= Len(s) => Due(s)[i] > d
  PROVE  /\ View(inserted(s, i, t, d, b)) =
              C!With(View(s), i, [tid |-> t, left |-> d, block |-> b])
         /\ \A j \in 1..Len(s) : (j < i) <=> (View(s)[j].left <= d)
<1> DEFINE r == inserted(s, i, t, d, b)
           n == Len(s)
           e == [tid |-> t, left |-> d, block |-> b]
<1>1. /\ r \in Seq(Listener) /\ Len(r) = n + 1
      /\ Due(r) = [k \in 0..(n + 1) |->
                     IF k < i THEN Due(s)[k] ELSE IF k = i THEN d ELSE Due(s)[k - 1]]
  BY InsertedDue, SMTT(30)
<1>2. ASSUME NEW j \in 1..(n + 1)
      PROVE  /\ j < i => j \in 1..n /\ r[j].tid = s[j].tid /\ r[j].block = s[j].block
             /\ j = i => r[j].tid = t /\ r[j].block = b
             /\ j > i => /\ j - 1 \in 1..n
                         /\ r[j].tid = s[j - 1].tid /\ r[j].block = s[j - 1].block
  BY InsertedOwners, SMTT(30)
<1>3. Len(View(s)) = n /\ n \in Nat
      /\ \A j \in 1..n :
           View(s)[j] = [tid |-> s[j].tid, left |-> Due(s)[j], block |-> s[j].block]
  BY ViewLen, Zenon
<1>4. i \in 1..(n + 1)
  BY Zenon
<1> HIDE DEF r, n
<1>5. ASSUME NEW j \in 1..(n + 1)
      PROVE  [tid |-> r[j].tid, left |-> Due(r)[j], block |-> r[j].block] =
               IF j < i THEN View(s)[j] ELSE IF j = i THEN e ELSE View(s)[j - 1]
  <2>1. CASE j < i
    <3>1. j \in 1..n /\ r[j].tid = s[j].tid /\ r[j].block = s[j].block
      BY <1>2, <2>1, Zenon
    <3>2. Due(r)[j] = Due(s)[j]
      BY <1>1, <1>3, <2>1, SMTT(30)
    <3> QED
      BY <1>3, <2>1, <3>1, <3>2, SMTT(30)
  <2>2. CASE j = i
    <3>1. Due(r)[j] = d
      BY <1>1, <1>3, <2>2, SMTT(30)
    <3> QED
      BY <1>2, <1>4, <2>2, <3>1
  <2>3. CASE j > i
    <3>1. j - 1 \in 1..n /\ r[j].tid = s[j - 1].tid /\ r[j].block = s[j - 1].block
      BY <1>2, <2>3, Zenon
    <3>2. Due(r)[j] = Due(s)[j - 1]
      BY <1>1, <1>3, <1>4, <2>3, SMTT(30)
    <3>3. ~(j < i) /\ j # i
      BY <1>3, <1>4, <2>3, SMTT(30)
    <3> QED
      BY <1>3, <3>1, <3>2, <3>3, SMTT(30)
  <2> QED
    BY <1>3, <1>4, <2>1, <2>2, <2>3, SMTT(30)
<1>6. View(r) = [j \in 1..(n + 1) |->
                   IF j < i THEN View(s)[j] ELSE IF j = i THEN e ELSE View(s)[j - 1]]
  BY <1>1, <1>5, Zenon DEF View
<1>7. View(r) = C!With(View(s), i, e)
  BY <1>3, <1>6, Zenon DEF C!With
<1>8. ASSUME NEW j \in 1..n PROVE (j < i) <=> (View(s)[j].left <= d)
  <2>1. View(s)[j].left = Due(s)[j]
    BY <1>3
  <2>2. Due(s)[j] \in 0..MaxMsecs
    BY <1>3 DEF n, InRange
  <2>3. CASE j < i
    <3>1. j \in 1..(i - 1)
      BY <1>3, <1>4, <2>3
    <3> QED
      BY <2>1, <2>3, <3>1, Zenon
  <2>4. CASE ~(j < i)
    <3>1. i \in 0..n /\ j \in i..n /\ i <= n
      BY <1>3, <1>4, <2>4
    <3>2. Due(s)[i] <= Due(s)[j] /\ Due(s)[i] > d
      BY <3>1, DueGrows, Zenon DEF n
    <3>3. Due(s)[i] \in 0..MaxMsecs
      BY <3>1, Zenon DEF n, InRange
    <3>4. ~(Due(s)[j] <= d)
      BY <2>2, <3>2, <3>3, TimerAssumption
    <3> QED
      BY <2>1, <2>4, <3>4, Zenon
  <2> QED
    BY <2>3, <2>4, Zenon
<1> QED
  BY <1>7, <1>8, Zenon DEF r, n

(* removed is the cancellation of one timer. *)
LEMMA ViewRemoved ==
  ASSUME NEW s \in Seq(Listener), InRange(s), NEW i \in 1..Len(s)
  PROVE  View(removed(s, i)) = C!Without(View(s), i)
<1> DEFINE r == removed(s, i)
           n == Len(s)
<1>1. /\ r \in Seq(Listener) /\ Len(r) = n - 1
      /\ Due(r) = [k \in 0..(n - 1) |-> IF k < i THEN Due(s)[k] ELSE Due(s)[k + 1]]
  BY RemovedDue, Zenon
<1>2. ASSUME NEW j \in 1..(n - 1)
      PROVE  LET k == IF j < i THEN j ELSE j + 1
             IN  k \in 1..n /\ r[j].tid = s[k].tid /\ r[j].block = s[k].block
  BY RemovedOwners, Zenon
<1>3. Len(View(s)) = n /\ n \in Nat
      /\ \A j \in 1..n :
           View(s)[j] = [tid |-> s[j].tid, left |-> Due(s)[j], block |-> s[j].block]
  BY ViewLen, SMTT(30)
<1> HIDE DEF r, n
<1>4. ASSUME NEW j \in 1..(n - 1)
      PROVE  [tid |-> r[j].tid, left |-> Due(r)[j], block |-> r[j].block] =
               IF j < i THEN View(s)[j] ELSE View(s)[j + 1]
  <2> DEFINE k == IF j < i THEN j ELSE j + 1
  <2>1. Due(r)[j] = Due(s)[k]
    BY <1>1, <1>3
  <2>2. k \in 1..n /\ r[j].tid = s[k].tid /\ r[j].block = s[k].block
    BY <1>2, Zenon
  <2>3. View(s)[k] = IF j < i THEN View(s)[j] ELSE View(s)[j + 1]
    BY Zenon
  <2> HIDE DEF k
  <2> QED
    BY <1>3, <2>1, <2>2, <2>3, Zenon
<1>5. View(r) = [j \in 1..(n - 1) |-> IF j < i THEN View(s)[j] ELSE View(s)[j + 1]]
  BY <1>1, <1>4, Zenon DEF View
<1>6. View(r) = C!Without(View(s), i)
  BY <1>3, <1>5, Zenon DEF C!Without
<1> QED
  BY <1>6, Zenon DEF r

(* A tick takes its time from the timers that stay. *)
LEMMA ViewPassed ==
  ASSUME NEW s \in Seq(Listener), InRange(s), NEW m \in 0..Len(s),
         \A j \in 1..m : Due(s)[j] <= TimeInc,
         m < Len(s) => Due(s)[m + 1] > TimeInc
  PROVE  /\ View(passed(s, m)) =
              [j \in 1..(Len(s) - m) |-> [View(s)[j + m] EXCEPT !.left = @ - TimeInc]]
         /\ \A j \in 1..Len(s) : (j <= m) <=> (View(s)[j].left <= TimeInc)
<1> DEFINE r == passed(s, m)
           n == Len(s)
<1>1. /\ r \in Seq(Listener) /\ Len(r) = n - m
      /\ Due(r) = [k \in 0..(n - m) |-> IF k = 0 THEN 0 ELSE Due(s)[m + k] - TimeInc]
  BY PassedDue, Zenon
<1>2. ASSUME NEW j \in 1..(n - m)
      PROVE  m + j \in 1..n /\ r[j].tid = s[m + j].tid /\ r[j].block = s[m + j].block
  BY PassedOwners, Zenon
<1>3. Len(View(s)) = n /\ n \in Nat /\ m \in 0..n
      /\ \A j \in 1..n :
           View(s)[j] = [tid |-> s[j].tid, left |-> Due(s)[j], block |-> s[j].block]
  BY ViewLen, Zenon
<1> HIDE DEF r, n
<1>4. ASSUME NEW j \in 1..(n - m)
      PROVE  [tid |-> r[j].tid, left |-> Due(r)[j], block |-> r[j].block] =
               [View(s)[j + m] EXCEPT !.left = @ - TimeInc]
  <2>1. Due(r)[j] = Due(s)[m + j] - TimeInc
    BY <1>1, <1>3, SMTT(30)
  <2>2. j + m = m + j
    BY <1>3, SMTT(30)
  <2>3. View(s)[j + m] =
          [tid |-> s[m + j].tid, left |-> Due(s)[m + j], block |-> s[m + j].block]
    BY <1>2, <1>3, <2>2, Zenon
  <2> QED
    BY <1>2, <2>1, <2>3
<1>5. View(r) = [j \in 1..(n - m) |-> [View(s)[j + m] EXCEPT !.left = @ - TimeInc]]
  BY <1>1, <1>4, Zenon DEF View
<1>6. ASSUME NEW j \in 1..n PROVE (j <= m) <=> (View(s)[j].left <= TimeInc)
  <2>1. View(s)[j].left = Due(s)[j]
    BY <1>3
  <2>2. Due(s)[j] \in 0..MaxMsecs
    BY <1>3 DEF n, InRange
  <2>3. CASE j <= m
    <3>1. j \in 1..m
      BY <1>3, <2>3
    <3> QED
      BY <2>1, <2>3, <3>1, Zenon
  <2>4. CASE ~(j <= m)
    <3>1. m + 1 \in 0..n /\ j \in (m + 1)..n /\ m < n
      BY <1>3, <2>4
    <3>2. Due(s)[m + 1] <= Due(s)[j] /\ Due(s)[m + 1] > TimeInc
      BY <3>1, DueGrows, Zenon DEF n
    <3>3. Due(s)[m + 1] \in 0..MaxMsecs
      BY <3>1, Zenon DEF n, InRange
    <3>4. ~(Due(s)[j] <= TimeInc)
      BY <2>2, <3>2, <3>3, TimerAssumption
    <3> QED
      BY <2>1, <2>4, <3>4, Zenon
  <2> QED
    BY <2>3, <2>4, Zenon
<1> QED
  BY <1>5, <1>6, Zenon DEF r, n

(* The refinement mapping is the view of the list. *)
LEMMA LeftIsView == Left = View(listener)
BY Zenon DEF Left, View

(* The mapping keeps threads and kinds of the entries. *)
LEMMA LeftParts ==
  ASSUME ListOK
  PROVE  /\ Len(Left) = Len(listener)
         /\ \A j \in 1..Len(listener) :
              Left[j].tid = listener[j].tid /\ Left[j].block = listener[j].block
<1>1. listener \in Seq(Listener)
  BY Zenon DEF ListOK
<1>2. Len(Left) = Len(listener)
  BY <1>1, LeftIsView, ViewLen, Zenon
<1>3. ASSUME NEW j \in 1..Len(listener)
      PROVE  Left[j].tid = listener[j].tid /\ Left[j].block = listener[j].block
  <2>1. Left[j] = [tid |-> listener[j].tid, left |-> Due(listener)[j],
                   block |-> listener[j].block]
    BY SMTT(30) DEF Left
  <2> QED
    BY <2>1
<1> QED
  BY <1>2, <1>3, Zenon

(* sleepFor is the start of a timer, removeThread its end by the thread.   *)
LEMMA SleepForStarts ==
  ASSUME ListOK, NEW t \in Threads, NEW d \in Durations, NEW b \in BOOLEAN,
         sleepFor(t, d, b)
  PROVE  \E i \in 1..(Len(Left) + 1) :
           /\ \A j \in 1..Len(Left) : (j < i) <=> (Left[j].left <= d)
           /\ Left' = C!With(Left, i, [tid |-> t, left |-> d, block |-> b])
<1>1. PICK i \in 1..(Len(listener) + 1) :
        /\ \A j \in 1..(i - 1) : Due(listener)[j] <= d
        /\ i <= Len(listener) => Due(listener)[i] > d
        /\ listener' = inserted(listener, i, t, d, b)
  BY Zenon DEF sleepFor
<1>2. listener \in Seq(Listener) /\ InRange(listener) /\ d \in 0..MaxMsecs
  BY TimerAssumption, Zenon DEF ListOK
<1>3. /\ View(listener') = C!With(View(listener), i, [tid |-> t, left |-> d, block |-> b])
      /\ \A j \in 1..Len(listener) : (j < i) <=> (View(listener)[j].left <= d)
  BY <1>1, <1>2, ViewInserted, SMTT(60)
<1>4. Left = View(listener) /\ Left' = View(listener')
  BY LeftIsView, Zenon DEF Left, View
<1>5. Len(Left) = Len(listener)
  BY <1>2, <1>4, ViewLen, Zenon
<1> QED
  BY <1>1, <1>3, <1>4, <1>5, Zenon

(* removeThread cancels the first timer of the thread, or none. *)
LEMMA RemoveThreadCancels ==
  ASSUME ListOK, NEW t \in Threads, removeThread(t),
         UNCHANGED <<Asleep, Alarmed>>
  PROVE  C!Cancel(t)
<1>1. listener \in Seq(Listener) /\ InRange(listener)
  BY Zenon DEF ListOK
<1>2. Left = View(listener) /\ Left' = View(listener')
  BY LeftIsView, Zenon DEF Left, View
<1>3. /\ Len(Left) = Len(listener)
      /\ \A j \in 1..Len(listener) : Left[j].tid = listener[j].tid
  BY LeftParts, Zenon
<1>4. CASE (\A i \in 1..Len(listener) : listener[i].tid # t) /\ UNCHANGED listener
  <2>1. Left' = Left
    BY <1>2, <1>4, Zenon
  <2> QED
    BY <1>3, <1>4, <2>1, Zenon DEF C!Cancel
<1>5. ASSUME NEW i \in 1..Len(listener), listener[i].tid = t,
             \A j \in 1..(i - 1) : listener[j].tid # t,
             listener' = removed(listener, i)
      PROVE  C!Cancel(t)
  <2>1. Left' = C!Without(Left, i)
    BY <1>1, <1>2, <1>5, ViewRemoved, Zenon
  <2>2. \A j \in 1..(i - 1) : Left[j].tid # t
    <3>1. \A j \in 1..(i - 1) : j \in 1..Len(listener)
      BY <1>1
    <3> QED
      BY <1>3, <1>5, <3>1, Zenon
  <2>3. i \in 1..Len(Left) /\ Left[i].tid = t
    BY <1>3, <1>5, Zenon
  <2> QED
    BY <2>1, <2>2, <2>3, Zenon DEF C!Cancel
<1> QED
  BY <1>4, <1>5, Zenon DEF removeThread

(* The interrupt on the first CPU is a tick.                               *)
LEMMA IntrptTicks ==
  ASSUME ListOK, VarsOK, intrptFirst
  PROVE  C!Tick
<1>1. PICK m \in 0..Len(listener) :
        /\ \A j \in 1..m : Due(listener)[j] <= TimeInc
        /\ m < Len(listener) => Due(listener)[m + 1] > TimeInc
        /\ listener' = passed(listener, m)
        /\ sigs' = [t \in Threads |->
                      IF t \in Over(m, FALSE) /\ handler[t]
                      THEN sigs[t] \cup {"SIGALRM"} ELSE sigs[t]]
        /\ pc' = [t \in Threads |->
                    IF pc[t] = "sleep" /\ t \in unblocked(m) THEN "ready" ELSE pc[t]]
  BY Zenon DEF intrptFirst
<1>2. listener \in Seq(Listener) /\ InRange(listener) /\ Len(listener) \in Nat
  BY DEF ListOK
<1>3. Left = View(listener) /\ Left' = View(listener')
  BY LeftIsView, Zenon DEF Left, View
<1>4. /\ Len(Left) = Len(listener)
      /\ \A j \in 1..Len(listener) :
           Left[j].tid = listener[j].tid /\ Left[j].block = listener[j].block
  BY LeftParts, Zenon
<1>5. /\ Left' = [j \in 1..(Len(Left) - m) |-> [Left[j + m] EXCEPT !.left = @ - TimeInc]]
      /\ \A j \in 1..Len(Left) : (j <= m) <=> (Left[j].left <= TimeInc)
  BY <1>1, <1>2, <1>3, <1>4, ViewPassed, SMTT(30)
<1>6. \A k \in 1..m : k \in 1..Len(listener) /\ listener[k].block \in BOOLEAN
                      /\ listener[k].tid \in Threads
  <2>1. \A k \in 1..m : k \in 1..Len(listener)
    BY <1>2
  <2>2. \A k \in 1..Len(listener) : listener[k] \in Listener
    BY <1>2
  <2> QED
    BY <2>1, <2>2, Zenon DEF Listener
<1> DEFINE alarms == {Left[i].tid : i \in {k \in 1..m : ~Left[k].block}}
           sleeps == {Left[i].tid : i \in {k \in 1..m : Left[k].block}}
           heard == {t \in Over(m, FALSE) : handler[t]}
<1>7. Over(m, FALSE) = alarms /\ Over(m, FALSE) \subseteq Threads
  BY <1>4, <1>6 DEF Over
<1>8. Over(m, TRUE) = sleeps
  BY <1>4, <1>6 DEF Over
<1>9. heard \in SUBSET alarms
  BY <1>7, Zenon
<1>10. Alarmed' = Alarmed \cup heard
  <2>1. Alarmed' = {t \in Threads : "SIGALRM" \in sigs'[t]}
    BY DEF Alarmed
  <2>2. \A t \in Threads : "SIGALRM" \in sigs'[t] <=> ("SIGALRM" \in sigs[t] \/ t \in heard)
    BY <1>1, Zenon
  <2> QED
    BY <1>7, <2>1, <2>2, Zenon DEF Alarmed
<1>11. Asleep' = Asleep \ (heard \cup sleeps)
  <2>1. Asleep' = {t \in Threads : pc'[t] = "sleep"}
    BY DEF Asleep
  <2>2. \A t \in Threads : pc'[t] = "sleep" <=> (pc[t] = "sleep" /\ t \notin unblocked(m))
    BY <1>1
  <2>3. unblocked(m) = heard \cup sleeps
    BY <1>8, Zenon DEF unblocked
  <2> QED
    BY <2>1, <2>2, <2>3, Zenon DEF Asleep
<1>12. m \in 0..Len(Left)
  BY <1>4
<1> HIDE DEF heard, alarms, sleeps
<1>13. \E h \in SUBSET alarms : Alarmed' = Alarmed \cup h /\ Asleep' = Asleep \ (h \cup sleeps)
  BY <1>9, <1>10, <1>11, Zenon
<1> QED
  BY <1>5, <1>12, <1>13, Zenon DEF C!Tick, alarms, sleeps

(* Every step of a thread starts or ends a timer of its own, interrupts a  *)
(* sleep, delivers an alarm, or changes nothing that Countdown knows.      *)
LEMMA ThreadRefines ==
  ASSUME TypeInv, NEW t \in Threads, ThreadNext(t)
  PROVE  C!Next \/ UNCHANGED C!vars
<1>1. ListOK /\ VarsOK
  BY TypeInvParts
<1>2. pc \in [Threads -> PC] /\ sigs \in [Threads -> SUBSET Signal]
  BY <1>1 DEF VarsOK
<1>3. ASSUME UNCHANGED listener PROVE UNCHANGED Left
  BY <1>3 DEF Left
<1>4. ASSUME UNCHANGED sigs PROVE UNCHANGED Alarmed
  BY <1>4 DEF Alarmed
<1>5. ASSUME NEW p \in PC \ {"sleep"}, pc[t] # "sleep", pc' = [pc EXCEPT ![t] = p]
      PROVE  UNCHANGED Asleep
  BY <1>2, <1>5 DEF Asleep
<1>6. ASSUME NEW d \in Durations, alarmSet(t, d) PROVE C!Next \/ UNCHANGED C!vars
  <2>1. UNCHANGED <<Asleep, Alarmed>>
    BY <1>4, <1>5, <1>6, Zenon DEF alarmSet, PC
  <2>2. CASE sleepFor(t, d, FALSE)
    <3>1. FALSE \in BOOLEAN
      OBVIOUS
    <3>2. C!Start(t, d, FALSE)
      BY <1>1, <2>1, <2>2, <3>1, SleepForStarts, Zenon DEF C!Start
    <3> QED
      BY <3>1, <3>2, Zenon DEF C!Next
  <2>3. CASE UNCHANGED listener
    BY <1>3, <2>1, <2>3 DEF C!vars
  <2> QED
    BY <1>6, <2>2, <2>3, Zenon DEF alarmSet
<1>7. ASSUME NEW d \in Durations, sleep(t, d) PROVE C!Next \/ UNCHANGED C!vars
  <2>1. UNCHANGED Alarmed
    BY <1>4, <1>7 DEF sleep
  <2>2. CASE sleepFor(t, d, TRUE)
             /\ pc' = [pc EXCEPT ![t] = IF sigs[t] = {} THEN "sleep" ELSE "ready"]
    <3>1. TRUE \in BOOLEAN
      OBVIOUS
    <3>2. Asleep' = Asleep \/ Asleep' = Asleep \cup {t}
      BY <1>2, <1>7, <2>2 DEF Asleep, sleep
    <3>3. C!Start(t, d, TRUE)
      BY <1>1, <2>1, <2>2, <3>1, <3>2, SleepForStarts, Zenon DEF C!Start
    <3> QED
      BY <3>1, <3>3, Zenon DEF C!Next
  <2>3. CASE UNCHANGED <<listener, pc>>
    <3>1. UNCHANGED Asleep
      BY <2>3 DEF Asleep
    <3> QED
      BY <1>3, <2>1, <2>3, <3>1 DEF C!vars
  <2> QED
    BY <1>7, <2>2, <2>3, Zenon DEF sleep
<1>8. CASE alarm(t) \/ sleepEnd(t) \/ terminate(t)
  <2>1. PICK p \in {"alarm", "user", "zombie"} :
          /\ removeThread(t) /\ sigs' = sigs
          /\ pc' = [pc EXCEPT ![t] = p]
          /\ pc[t] = "user" \/ (pc[t] = "ready" /\ p = "user")
    BY <1>8 DEF alarm, sleepEnd, terminate
  <2>2. UNCHANGED <<Asleep, Alarmed>>
    BY <1>4, <1>5, <2>1, Zenon DEF PC
  <2>3. C!Cancel(t)
    BY <1>1, <2>1, <2>2, RemoveThreadCancels
  <2> QED
    BY <2>3 DEF C!Next
<1>9. ASSUME NEW h \in BOOLEAN, setHandler(t, h) PROVE UNCHANGED C!vars
  BY <1>9 DEF setHandler, C!vars, Left, Asleep, Alarmed
<1>10. ASSUME NEW g \in Signal, checkAndStart(t, g) PROVE C!Next \/ UNCHANGED C!vars
  <2>1. UNCHANGED <<Left, Asleep>>
    BY <1>10 DEF checkAndStart, Left, Asleep
  <2>2. CASE g = "SIGALRM"
    <3>1. Alarmed' = Alarmed \ {t}
      BY <1>2, <1>10, <2>2 DEF checkAndStart, Alarmed
    <3>2. C!Deliver(t)
      BY <2>1, <3>1 DEF C!Deliver
    <3> QED
      BY <3>2 DEF C!Next
  <2>3. CASE g # "SIGALRM"
    <3>1. UNCHANGED Alarmed
      BY <1>2, <1>10, <2>3 DEF checkAndStart, Alarmed
    <3> QED
      BY <2>1, <3>1 DEF C!vars
  <2> QED
    BY <2>2, <2>3
<1>11. CASE addSignalFor(t)
  <2>1. UNCHANGED <<Left, Alarmed>> /\ Asleep' = Asleep \ {t}
    BY <1>2, <1>11 DEF addSignalFor, Left, Alarmed, Asleep
  <2>2. C!Interrupt(t)
    BY <2>1 DEF C!Interrupt
  <2> QED
    BY <2>2 DEF C!Next
<1>12. CASE kill(t)
  <2>1. UNCHANGED Asleep
    BY <1>5, <1>12, Zenon DEF kill, PC
  <2> QED
    BY <1>3, <1>4, <1>12, <2>1 DEF kill, C!vars
<1>13. CASE create(t)
  <2>1. UNCHANGED <<Left, Asleep>> /\ Alarmed' = Alarmed \ {t}
    BY <1>2, <1>3, <1>5, <1>13, Zenon DEF create, PC, Alarmed
  <2>2. C!Deliver(t)
    BY <2>1 DEF C!Deliver
  <2> QED
    BY <2>2 DEF C!Next
<1> QED
  BY <1>6, <1>7, <1>8, <1>9, <1>10, <1>11, <1>12, <1>13 DEF ThreadNext

(* The delta list implements timers that count down (TimersCountDown): no  *)
(* insertion, removal or tick changes what the other timers have left, and *)
(* a tick ends exactly the timers whose time is over.                      *)
THEOREM TimerImplementsCountdown == Spec => TimersCountDown
<1>1. Init => C!Init
  BY DEF Init, C!Init, Left, Asleep, Alarmed
<1>2. TypeInv /\ [Next]_vars => [C!Next]_(C!vars)
  <2>1. SUFFICES ASSUME TypeInv, [Next]_vars PROVE C!Next \/ UNCHANGED C!vars
    OBVIOUS
  <2>2. CASE UNCHANGED vars
    BY <2>2 DEF vars, C!vars, Left, Asleep, Alarmed
  <2>3. ASSUME NEW t \in Threads, ThreadNext(t) PROVE C!Next \/ UNCHANGED C!vars
    BY <2>1, <2>3, ThreadRefines
  <2>4. ASSUME NEW c \in CPUs, intrpt(c) PROVE C!Next \/ UNCHANGED C!vars
    <3>1. CASE intrptFirst
      <4>1. C!Tick
        BY <2>1, <3>1, TypeInvParts, IntrptTicks
      <4> QED
        BY <4>1 DEF C!Next
    <3>2. CASE UNCHANGED <<listener, pc, sigs, handler>>
      BY <3>2 DEF C!vars, Left, Asleep, Alarmed
    <3> QED
      BY <2>4, <3>1, <3>2, Zenon DEF intrpt
  <2> QED
    BY <2>1, <2>2, <2>3, <2>4 DEF Next
<1>3. Spec => []TypeInv
  BY TimerTypeCorrect, PTL DEF TypeInv
<1> QED
  BY <1>1, <1>2, <1>3, PTL DEF Spec, TimersCountDown, C!Spec
=============================================================================
