----------------------- MODULE DedupTargetFiles_proof -----------------------
(***************************************************************************)
(* llvmbox-dedup-target-files, and the script that runs it, for any targets,*)
(* trees and failures: sorting puts a file at every place of the index, a   *)
(* file always has its directory, no directory that held a header is left   *)
(* empty; and, for orderly and complete layouts, no target ever misses or   *)
(* gains a header, equal headers are stored once, and the wrappers include  *)
(* what sysroots/include has for their targets.                             *)
(***************************************************************************)
EXTENDS TargetsDist, Induction_proof, SequenceTheorems, TLAPS

(* R orders the elements of U.                                              *)
Orders(R, U) ==
  /\ \A x \in U : <<x, x>> \notin R
  /\ \A x, y, z \in U : <<x, y>> \in R /\ <<y, z>> \in R => <<x, z>> \in R
  /\ \A x, y \in U : x = y \/ <<x, y>> \in R \/ <<y, x>> \in R

(* The elements of S that come before x, and the last of S.                 *)
Below(R, S, x) == {y \in S : <<y, x>> \in R}

Largest(R, S, m) == m \in S /\ \A x \in S : x = m \/ <<x, m>> \in R

HasLargest(R, S) == \E m : Largest(R, S, m)

(* Every number of predecessors is that of some element: sorting finds an   *)
(* element for every place.                                                 *)
HasPlaces(R, S) ==
  \A i \in 1..Cardinality(S) : \E x \in S : Cardinality(Below(R, S, x)) = i - 1

(* A finite set that is not empty has a last element, by induction over its *)
(* size.                                                                    *)
LEMMA LargestExists ==
  ASSUME NEW U, NEW R, Orders(R, U), NEW S \in SUBSET U, IsFiniteSet(S), S # {}
  PROVE  HasLargest(R, S)
<1> DEFINE Good == {n \in Nat : \A T \in SUBSET U :
                      IsFiniteSet(T) /\ Cardinality(T) = n /\ T # {} => HasLargest(R, T)}
<1>1. 0 \in Good
  <2> SUFFICES ASSUME NEW T \in SUBSET U, IsFiniteSet(T), Cardinality(T) = 0, T # {} PROVE FALSE
    OBVIOUS
  <2> QED
    BY FS_EmptySet
<1>2. ASSUME NEW n \in Nat, n \in Good PROVE n + 1 \in Good
  <2> SUFFICES ASSUME NEW T \in SUBSET U, IsFiniteSet(T), Cardinality(T) = n + 1, T # {}
               PROVE  HasLargest(R, T)
    OBVIOUS
  <2>1. PICK x \in T : TRUE
    OBVIOUS
  <2> DEFINE V == T \ {x}
  <2>2. IsFiniteSet(V) /\ Cardinality(V) = Cardinality(T) - 1
    BY <2>1, FS_RemoveElement
  <2>3. CASE V = {}
    BY <2>1, <2>3 DEF HasLargest, Largest
  <2>4. CASE V # {}
    <3>1. HasLargest(R, V)
      BY <1>2, <2>2, <2>4
    <3>2. PICK m : m \in V /\ \A y \in V : y = m \/ <<y, m>> \in R
      BY <3>1 DEF HasLargest, Largest
    <3>3. CASE <<m, x>> \in R
      <4>1. \A y \in T : y = x \/ <<y, x>> \in R
        BY <3>2, <3>3 DEF Orders
      <4> QED
        BY <4>1 DEF HasLargest, Largest
    <3>4. CASE <<x, m>> \in R
      <4>1. \A y \in T : y = m \/ <<y, m>> \in R
        BY <3>2, <3>4
      <4> QED
        BY <3>2, <4>1 DEF HasLargest, Largest
    <3> QED
      BY <3>2, <3>3, <3>4 DEF Orders
  <2> QED
    BY <2>3, <2>4
<1>3. \A n \in Nat : n \in Good
  <2> HIDE DEF Good
  <2> QED
    BY <1>1, <1>2, NatInd
<1> QED
  BY <1>3, FS_CardinalityType

(* The same for the places of its elements.                                 *)
LEMMA PlacesExist ==
  ASSUME NEW U, NEW R, Orders(R, U), NEW S \in SUBSET U, IsFiniteSet(S)
  PROVE  HasPlaces(R, S)
<1> DEFINE Good == {n \in Nat : \A T \in SUBSET U :
                      IsFiniteSet(T) /\ Cardinality(T) = n => HasPlaces(R, T)}
<1>1. 0 \in Good
  BY DEF HasPlaces
<1>2. ASSUME NEW n \in Nat, n \in Good PROVE n + 1 \in Good
  <2> SUFFICES ASSUME NEW T \in SUBSET U, IsFiniteSet(T), Cardinality(T) = n + 1
               PROVE  HasPlaces(R, T)
    OBVIOUS
  <2>1. T # {}
    BY FS_EmptySet
  <2>2. PICK m : m \in T /\ \A x \in T : x = m \/ <<x, m>> \in R
    BY <2>1, LargestExists DEF HasLargest, Largest
  <2> DEFINE V == T \ {m}
  <2>3. IsFiniteSet(V) /\ Cardinality(V) = n
    <3>1. IsFiniteSet(V) /\ Cardinality(V) = Cardinality(T) - 1
      BY <2>2, FS_RemoveElement
    <3> QED
      BY <3>1
  <2>4. \A i \in 1..n : \E x \in V : Cardinality(Below(R, V, x)) = i - 1
    BY <1>2, <2>3 DEF HasPlaces
  <2>5. \A x \in V : Below(R, T, x) = Below(R, V, x)
    <3> SUFFICES ASSUME NEW x \in V PROVE <<m, x>> \notin R
      BY DEF Below
    <3> QED
      BY <2>2 DEF Orders
  <2>6. Below(R, T, m) = V
    BY <2>2 DEF Below, Orders
  <2>7. ASSUME NEW i \in 1..(n + 1) PROVE \E x \in T : Cardinality(Below(R, T, x)) = i - 1
    <3>1. CASE i = n + 1
      BY <2>2, <2>3, <2>6, <3>1
    <3>2. CASE i # n + 1
      <4>1. i \in 1..n
        BY <3>2
      <4>2. PICK x \in V : Cardinality(Below(R, V, x)) = i - 1
        BY <2>4, <4>1
      <4> QED
        BY <2>5, <4>2
    <3> QED
      BY <3>1, <3>2
  <2> QED
    BY <2>7 DEF HasPlaces
<1>3. \A n \in Nat : n \in Good
  <2> HIDE DEF Good
  <2> QED
    BY <1>1, <1>2, NatInd
<1> QED
  BY <1>3, FS_CardinalityType

-----------------------------------------------------------------------------
(* The lexicographic order of tuples of n numbers.                          *)
Keys(n) == [1..n -> Int]

(* Tuples of n numbers are ordered.                                         *)
LEMMA LexOrders ==
  ASSUME NEW n \in Nat
  PROVE  /\ \A a \in Keys(n) : ~LexLess(a, a)
         /\ \A a, b, c \in Keys(n) : LexLess(a, b) /\ LexLess(b, c) => LexLess(a, c)
         /\ \A a, b \in Keys(n) : a = b \/ LexLess(a, b) \/ LexLess(b, a)
<1>1. \A a \in Keys(n) : ~LexLess(a, a)
  BY DEF LexLess, Keys
<1>2. ASSUME NEW a \in Keys(n), NEW b \in Keys(n), NEW c \in Keys(n), LexLess(a, b), LexLess(b, c)
      PROVE  LexLess(a, c)
  <2>1. PICK i \in 1..n : a[i] < b[i] /\ \A j \in 1..(i - 1) : a[j] = b[j]
    BY <1>2 DEF LexLess, Keys
  <2>2. PICK k \in 1..n : b[k] < c[k] /\ \A j \in 1..(k - 1) : b[j] = c[j]
    BY <1>2 DEF LexLess, Keys
  <2>3. CASE i < k
    <3>1. a[i] < c[i] /\ \A j \in 1..(i - 1) : a[j] = c[j]
      BY <2>1, <2>2, <2>3
    <3> QED
      BY <3>1 DEF LexLess, Keys
  <2>4. CASE i = k
    <3>1. a[i] < c[i] /\ \A j \in 1..(i - 1) : a[j] = c[j]
      BY <2>1, <2>2, <2>4 DEF Keys
    <3> QED
      BY <3>1 DEF LexLess, Keys
  <2>5. CASE k < i
    <3>1. a[k] < c[k] /\ \A j \in 1..(k - 1) : a[j] = c[j]
      BY <2>1, <2>2, <2>5
    <3> QED
      BY <3>1 DEF LexLess, Keys
  <2> QED
    BY <2>3, <2>4, <2>5
<1>3. ASSUME NEW a \in Keys(n), NEW b \in Keys(n), a # b PROVE LexLess(a, b) \/ LexLess(b, a)
  <2> DEFINE T == {i \in Nat : i \in 1..n /\ a[i] # b[i]}
  <2>1. T \in SUBSET Nat /\ T # {}
    BY <1>3, SMTT(60) DEF Keys
  <2>2. PICK i \in T : \A j \in T : i <= j
    BY <2>1, NatMin
  <2>3. i \in 1..n /\ a[i] # b[i] /\ \A j \in 1..(i - 1) : a[j] = b[j]
    BY <2>2
  <2>4. a[i] < b[i] \/ b[i] < a[i]
    BY <2>3 DEF Keys
  <2> QED
    BY <2>3, <2>4 DEF LexLess, Keys
<1> QED
  BY <1>1, <1>2, <1>3

(* The order of the elements of U by keys that tell them apart.             *)
By(key, U) == {r \in U \X U : LexLess(key[r[1]], key[r[2]])}

(* Elements are ordered if their keys tell them apart.                      *)
LEMMA KeyOrders ==
  ASSUME NEW U, NEW n \in Nat, NEW key \in [U -> Keys(n)],
         \A x, y \in U : key[x] = key[y] => x = y
  PROVE  Orders(By(key, U), U)
<1>1. \A x, y \in U : <<x, y>> \in By(key, U) <=> LexLess(key[x], key[y])
  BY DEF By
<1>2. \A x \in U : key[x] \in Keys(n)
  OBVIOUS
<1>3. /\ \A a \in Keys(n) : ~LexLess(a, a)
      /\ \A a, b, c \in Keys(n) : LexLess(a, b) /\ LexLess(b, c) => LexLess(a, c)
      /\ \A a, b \in Keys(n) : a = b \/ LexLess(a, b) \/ LexLess(b, a)
  BY LexOrders
<1>4. \A x \in U : <<x, x>> \notin By(key, U)
  BY <1>1, <1>2, <1>3
<1>5. \A x, y, z \in U : <<x, y>> \in By(key, U) /\ <<y, z>> \in By(key, U) => <<x, z>> \in By(key, U)
  BY <1>1, <1>2, <1>3
<1>6. \A x, y \in U : x = y \/ <<x, y>> \in By(key, U) \/ <<y, x>> \in By(key, U)
  BY <1>1, <1>2, <1>3
<1> QED
  BY <1>4, <1>5, <1>6 DEF Orders

-----------------------------------------------------------------------------

(* The rank of a word is a number and tells it from other words.            *)
LEMMA RankIs ==
  /\ \A s \in Word : Rank(s) \in Int
  /\ \A s, t \in Word : Rank(s) = Rank(t) => s = t
<1>1. ASSUME NEW s \in Word PROVE Rank(s) \in DOMAIN StrOrder /\ StrOrder[Rank(s)] = s
  <2>1. \E i \in DOMAIN StrOrder : StrOrder[i] = s
    BY DEF Word
  <2> QED
    BY <2>1 DEF Rank
<1>2. DOMAIN StrOrder \subseteq Int
  BY DEF StrOrder
<1> QED
  BY <1>1, <1>2

(* What a file of the index is.                                             *)
Entry == [target : target_t, relpath : Relpath, hash : Nat]

(* The key tfiles_cmp compares, as one tuple.                               *)
TheKey(f, sign) ==
  <<f.relpath, f.hash, Rank(f.target.sys),
    IF f.target.arch = "any" THEN 0 ELSE 1, IF f.target.sys = "any" THEN 0 ELSE 1,
    Rank(f.target.arch), Rank(f.target.sysver), sign * Rank(f.target.suffix)>>

(* Paths are numbered.                                                      *)
LEMMA RelpathInt == Relpath \subseteq Int
<1>1. DirOf \in Seq({"", "sys"})
  BY DirOfAssumption
<1>2. DOMAIN DirOf = 1..Len(DirOf) /\ Len(DirOf) \in Nat
  BY <1>1, LenProperties
<1> QED
  BY <1>2 DEF Relpath

(* The three parts of the key put together.                                 *)
LEMMA KeyJoined ==
  ASSUME NEW a1 \in Int, NEW a2 \in Int, NEW a3 \in Int, NEW a4 \in Int,
         NEW a5 \in Int, NEW a6 \in Int, NEW a7 \in Int, NEW a8 \in Int
  PROVE  <<a1, a2, a3>> \o <<a4, a5, a6, a7>> \o <<a8>> = <<a1, a2, a3, a4, a5, a6, a7, a8>>
<1> DEFINE u == <<a1, a2, a3>>
           v == <<a4, a5, a6, a7>>
           w == <<a8>>
<1>1. /\ u \in Seq(Int) /\ Len(u) = 3 /\ u[1] = a1 /\ u[2] = a2 /\ u[3] = a3
      /\ v \in Seq(Int) /\ Len(v) = 4 /\ v[1] = a4 /\ v[2] = a5 /\ v[3] = a6 /\ v[4] = a7
      /\ w \in Seq(Int) /\ Len(w) = 1 /\ w[1] = a8
  OBVIOUS
<1> HIDE DEF u, v, w
<1> DEFINE x == u \o v
<1>2. /\ x \in Seq(Int) /\ Len(x) = 7
      /\ \A i \in 1..7 : x[i] = IF i <= 3 THEN u[i] ELSE v[i - 3]
  <2>1. /\ x \in Seq(Int) /\ Len(x) = Len(u) + Len(v)
        /\ \A i \in 1..(Len(u) + Len(v)) : x[i] = IF i <= Len(u) THEN u[i] ELSE v[i - Len(u)]
    BY <1>1, ConcatProperties
  <2> HIDE DEF x
  <2> QED
    BY <1>1, <2>1
<1> DEFINE z == x \o w
           y == <<a1, a2, a3, a4, a5, a6, a7, a8>>
<1> HIDE DEF x
<1>4. /\ z \in Seq(Int) /\ Len(z) = 8
      /\ \A i \in 1..8 : z[i] = IF i <= 7 THEN x[i] ELSE w[i - 7]
  <2>1. /\ z \in Seq(Int) /\ Len(z) = Len(x) + Len(w)
        /\ \A i \in 1..(Len(x) + Len(w)) : z[i] = IF i <= Len(x) THEN x[i] ELSE w[i - Len(x)]
    BY <1>1, <1>2, ConcatProperties
  <2> HIDE DEF z
  <2> QED
    BY <1>1, <1>2, <2>1
<1> HIDE DEF z
<1>3. /\ x[1] = a1 /\ x[2] = a2 /\ x[3] = a3 /\ x[4] = a4 /\ x[5] = a5 /\ x[6] = a6 /\ x[7] = a7
  BY <1>1, <1>2
<1>5. /\ z[1] = a1 /\ z[2] = a2 /\ z[3] = a3 /\ z[4] = a4
      /\ z[5] = a5 /\ z[6] = a6 /\ z[7] = a7 /\ z[8] = a8
  BY <1>1, <1>3, <1>4, SMTT(60)
<1>6. y \in Seq(Int) /\ Len(y) = 8 /\ z \in Seq(Int) /\ Len(z) = 8
  BY <1>4
<1>7. /\ y[1] = a1 /\ y[2] = a2 /\ y[3] = a3 /\ y[4] = a4
      /\ y[5] = a5 /\ y[6] = a6 /\ y[7] = a7 /\ y[8] = a8
  OBVIOUS
<1> HIDE DEF y
<1>8. \A i \in 1..8 : z[i] = y[i]
  <2> SUFFICES ASSUME NEW i \in 1..8 PROVE z[i] = y[i]
    OBVIOUS
  <2>1. i = 1 \/ i = 2 \/ i = 3 \/ i = 4 \/ i = 5 \/ i = 6 \/ i = 7 \/ i = 8
    OBVIOUS
  <2> QED
    BY <1>5, <1>7, <2>1
<1>9. z = y
  <2>1. \A i \in 1..Len(z) : z[i] = y[i]
    BY <1>6, <1>8
  <2> QED
    BY <1>6, <2>1, SeqEqual
<1> QED
  BY <1>9 DEF u, v, w, x, y, z

(* The key of a file is a tuple of eight numbers.                           *)
LEMMA TfileKeyIs ==
  ASSUME NEW f \in Entry, NEW sign \in {1, -1}
  PROVE  TfileKey(f, sign) = TheKey(f, sign) /\ TheKey(f, sign) \in Keys(8)
<1>1. f.relpath \in Int /\ f.hash \in Int
  <2>1. f.relpath \in Relpath /\ f.hash \in Nat
    BY DEF Entry
  <2>2. f.relpath \in Int
    BY <2>1, RelpathInt
  <2> QED
    BY <2>1, <2>2
<1>2. /\ Rank(f.target.arch) \in Int /\ Rank(f.target.sys) \in Int
      /\ Rank(f.target.sysver) \in Int /\ Rank(f.target.suffix) \in Int
  BY RankIs DEF Entry, target_t
<1>3. sign * Rank(f.target.suffix) \in Int
  BY <1>2
<1>4. TheKey(f, sign) \in Keys(8)
  BY <1>1, <1>2, <1>3 DEF TheKey, Keys
<1>5. TfileKey(f, sign) = TheKey(f, sign)
  <2> DEFINE a1 == f.relpath
             a2 == f.hash
             a3 == Rank(f.target.sys)
             a4 == IF f.target.arch = "any" THEN 0 ELSE 1
             a5 == IF f.target.sys = "any" THEN 0 ELSE 1
             a6 == Rank(f.target.arch)
             a7 == Rank(f.target.sysver)
             a8 == sign * Rank(f.target.suffix)
  <2>1. a1 \in Int /\ a2 \in Int /\ a3 \in Int /\ a4 \in Int /\ a5 \in Int /\ a6 \in Int
        /\ a7 \in Int /\ a8 \in Int
    BY <1>1, <1>2, <1>3
  <2>2. /\ TfileKey(f, sign) = <<a1, a2, a3>> \o <<a4, a5, a6, a7>> \o <<a8>>
        /\ TheKey(f, sign) = <<a1, a2, a3, a4, a5, a6, a7, a8>>
    BY DEF TfileKey, TheKey, TargetKey
  <2> HIDE DEF a1, a2, a3, a4, a5, a6, a7, a8
  <2>3. <<a1, a2, a3>> \o <<a4, a5, a6, a7>> \o <<a8>> = <<a1, a2, a3, a4, a5, a6, a7, a8>>
    BY <2>1, KeyJoined, SMTT(60)
  <2> QED
    BY <2>2, <2>3
<1> QED
  BY <1>4, <1>5

(* Two files of the index have different keys.                              *)
LEMMA TfileKeyApart ==
  ASSUME NEW f \in Entry, NEW g \in Entry, NEW sign \in {1, -1},
         TheKey(f, sign) = TheKey(g, sign)
  PROVE  f = g
<1>1. f.relpath = g.relpath /\ f.hash = g.hash
  BY DEF TheKey
<1>2. Rank(f.target.sys) = Rank(g.target.sys) /\ Rank(f.target.arch) = Rank(g.target.arch)
  BY DEF TheKey
<1>3. Rank(f.target.sysver) = Rank(g.target.sysver)
  BY DEF TheKey
<1>4. sign * Rank(f.target.suffix) = sign * Rank(g.target.suffix)
  BY DEF TheKey
<1>5. Rank(f.target.suffix) \in Int /\ Rank(g.target.suffix) \in Int
  BY RankIs DEF Entry, target_t
<1>6. Rank(f.target.suffix) = Rank(g.target.suffix)
  BY <1>4, <1>5
<1>7. f.target = g.target
  BY <1>2, <1>3, <1>6, RankIs DEF Entry, target_t
<1> QED
  BY <1>1, <1>7 DEF Entry

(* The index is sorted: an entry at every place.                            *)
LEMMA SortedIs ==
  ASSUME NEW S \in SUBSET Entry, IsFiniteSet(S), NEW sign \in {1, -1}
  PROVE  /\ Sorted(S, sign) \in Seq(S)
         /\ Len(Sorted(S, sign)) = Cardinality(S)
<1> DEFINE key == [f \in Entry |-> TheKey(f, sign)]
           R == By(key, Entry)
           n == Cardinality(S)
<1>1. key \in [Entry -> Keys(8)] /\ \A f, g \in Entry : key[f] = key[g] => f = g
  BY TfileKeyIs, TfileKeyApart
<1>2. \A f \in Entry, g \in Entry : <<g, f>> \in R <=> LexLess(TfileKey(g, sign), TfileKey(f, sign))
  BY TfileKeyIs DEF By
<1> HIDE DEF key
<1>3. Orders(R, Entry)
  <2> DEFINE eight == 8
  <2>1. eight \in Nat /\ key \in [Entry -> Keys(eight)]
    BY <1>1
  <2> HIDE DEF eight
  <2> QED
    BY <1>1, <2>1, KeyOrders
<1> HIDE DEF R
<1>4. HasPlaces(R, S)
  BY <1>3, PlacesExist
<1>5. \A f \in S : {g \in S : LexLess(TfileKey(g, sign), TfileKey(f, sign))} = Below(R, S, f)
  BY <1>2 DEF Below
<1> DEFINE At(i) == CHOOSE f \in S : Cardinality({g \in S : LexLess(TfileKey(g, sign), TfileKey(f, sign))}) = i - 1
<1>6. \A i \in 1..n : At(i) \in S
  <2> SUFFICES ASSUME NEW i \in 1..n PROVE At(i) \in S
    OBVIOUS
  <2>1. PICK f \in S : Cardinality(Below(R, S, f)) = i - 1
    BY <1>4 DEF HasPlaces
  <2>2. Cardinality({g \in S : LexLess(TfileKey(g, sign), TfileKey(f, sign))}) = i - 1
    BY <1>5, <2>1
  <2> QED
    BY <2>2
<1>7. Sorted(S, sign) = [i \in 1..n |-> At(i)]
  BY DEF Sorted
<1>8. n \in Nat
  BY FS_CardinalityType
<1> HIDE DEF At, n
<1> QED
  BY <1>6, <1>7, <1>8 DEF n

-----------------------------------------------------------------------------

(* Ranges of two or more places from a to b.                                *)
Within(a, b) == {r \in (a..b) \X (a..b) : r[1] < r[2]}

(* Runs lists such ranges, if after every end but the last there is a       *)
(* start: two ranges with one start would have a start between their ends.  *)
LEMMA RunsIn ==
  ASSUME NEW a \in Nat, NEW b \in Nat, NEW starts \in SUBSET (a..b), NEW ends \in SUBSET (a..b),
         \A x \in ends : x + 1 \in starts \/ x = b
  PROVE  Runs(starts, ends) \in Seq(Within(a, b))
<1> DEFINE runs == {r \in starts \X ends :
                      r[1] < r[2] /\ \A s \in starts : ~(r[1] < s /\ s <= r[2])}
           R == {y \in runs \X runs : y[1][1] < y[2][1]}
           n == Cardinality(runs)
           Nth(i) == CHOOSE r \in runs : Cardinality({q \in runs : q[1] < r[1]}) = i - 1
<1>1. \A q, r \in runs : <<q, r>> \in R <=> q[1] < r[1]
  OBVIOUS
<1>2. \A r \in runs : r \in Within(a, b) /\ r[1] \in Int /\ r[2] \in Int /\ r = <<r[1], r[2]>>
  <2> SUFFICES ASSUME NEW r \in runs
               PROVE  r \in Within(a, b) /\ r[1] \in Int /\ r[2] \in Int /\ r = <<r[1], r[2]>>
    OBVIOUS
  <2>1. r \in starts \X ends /\ r[1] < r[2]
    OBVIOUS
  <2> HIDE DEF runs
  <2>2. r[1] \in starts /\ r[2] \in ends /\ r = <<r[1], r[2]>>
    BY <2>1
  <2>3. r[1] \in a..b /\ r[2] \in a..b
    BY <2>2
  <2> QED
    BY <2>1, <2>2, <2>3 DEF Within
<1>3. \A q, r \in runs : q[1] = r[1] => ~(q[2] < r[2])
  <2> SUFFICES ASSUME NEW q \in runs, NEW r \in runs, q[1] = r[1], q[2] < r[2] PROVE FALSE
    OBVIOUS
  <2>0. q \in starts \X ends /\ r \in starts \X ends /\ q[1] < q[2]
        /\ \A s \in starts : ~(r[1] < s /\ s <= r[2])
    OBVIOUS
  <2>1. q[2] \in ends /\ q[2] \in a..b /\ r[2] \in a..b /\ q[1] \in a..b
    BY <2>0
  <2>2. q[2] + 1 \in starts
    BY <2>1
  <2>3. r[1] < q[2] + 1 /\ q[2] + 1 <= r[2]
    BY <2>0, <2>1
  <2> QED
    BY <2>0, <2>2, <2>3
<1>4. IsFiniteSet(runs)
  <2>0. IsFiniteSet(a..b)
    BY FS_Interval
  <2>1. IsFiniteSet((a..b) \X (a..b))
    BY <2>0, FS_Product
  <2>2. runs \subseteq (a..b) \X (a..b)
    BY <1>2 DEF Within
  <2> HIDE DEF runs
  <2> QED
    BY <2>1, <2>2, FS_Subset
<1> HIDE DEF runs
<1>5. Orders(R, runs)
  <2>1. \A x \in runs : <<x, x>> \notin R
    BY <1>1, <1>2
  <2>2. \A x, y, z \in runs : <<x, y>> \in R /\ <<y, z>> \in R => <<x, z>> \in R
    BY <1>1, <1>2
  <2>3. \A x, y \in runs : x = y \/ <<x, y>> \in R \/ <<y, x>> \in R
    <3> SUFFICES ASSUME NEW x \in runs, NEW y \in runs
                 PROVE  x = y \/ <<x, y>> \in R \/ <<y, x>> \in R
      OBVIOUS
    <3>1. x[1] \in Int /\ y[1] \in Int /\ x[2] \in Int /\ y[2] \in Int
      BY <1>2
    <3>2. CASE x[1] # y[1]
      <4>1. x[1] < y[1] \/ y[1] < x[1]
        BY <3>1, <3>2
      <4> QED
        BY <1>1, <4>1
    <3>3. CASE x[1] = y[1]
      <4>1. x[2] = y[2]
        BY <1>3, <3>1, <3>3
      <4> QED
        BY <1>2, <3>3, <4>1
    <3> QED
      BY <3>2, <3>3
  <2> HIDE DEF R
  <2> QED
    BY <2>1, <2>2, <2>3 DEF Orders
<1> HIDE DEF R
<1>6. HasPlaces(R, runs)
  BY <1>4, <1>5, PlacesExist
<1>7. \A i \in 1..n : Nth(i) \in runs
  <2> SUFFICES ASSUME NEW i \in 1..n PROVE Nth(i) \in runs
    OBVIOUS
  <2>1. PICK r \in runs : Cardinality(Below(R, runs, r)) = i - 1
    BY <1>6 DEF HasPlaces
  <2>2. {q \in runs : q[1] < r[1]} = Below(R, runs, r)
    BY <1>1 DEF Below
  <2> QED
    BY <2>1, <2>2
<1>8. Runs(starts, ends) = [i \in 1..n |-> Nth(i)]
  BY DEF Runs, runs
<1>9. n \in Nat
  BY <1>4, FS_CardinalityType
<1> HIDE DEF Nth, n
<1>10. \A i \in 1..n : Nth(i) \in Within(a, b)
  BY <1>2, <1>7
<1> QED
  BY <1>8, <1>9, <1>10

-----------------------------------------------------------------------------
(* A cut of the index: its ranges lie in it and have two files or more.     *)
LEMMA SegmentsIn ==
  ASSUME NEW fs, NEW n \in Nat, Len(fs) = n, n >= 2
  PROVE  Segments(fs) \in Seq(Within(1, n))
<1> DEFINE one == 1
           Cut(i) == \/ fs[i].relpath # fs[i-1].relpath
                     \/ fs[i].target.sys # fs[i-1].target.sys
           cuts == {i \in 2..n : Cut(i)}
           starts == {1} \cup cuts
           ends == {i - 1 : i \in cuts} \cup {n}
<1>1. Segments(fs) = Runs(starts, ends)
  BY DEF Segments
<1>2. cuts \subseteq 2..n
  OBVIOUS
<1> HIDE DEF cuts
<1>3. starts \in SUBSET (1..n) /\ ends \in SUBSET (1..n)
  BY <1>2
<1>4. \A x \in ends : x + 1 \in starts \/ x = n
  <2> SUFFICES ASSUME NEW i \in cuts PROVE (i - 1) + 1 \in starts
    OBVIOUS
  <2> QED
    BY <1>2
<1> HIDE DEF starts, ends
<1>5. Runs(starts, ends) \in Seq(Within(one, n))
  <2>1. one \in Nat /\ starts \in SUBSET (one..n) /\ ends \in SUBSET (one..n)
    BY <1>3
  <2> HIDE DEF one
  <2> QED
    BY <1>4, <2>1, RunsIn
<1> QED
  BY <1>1, <1>5

(* The places of a range.                                                   *)
LEMMA WithinIs ==
  ASSUME NEW n \in Nat, NEW r \in Within(1, n)
  PROVE  r[1] \in 1..n /\ r[2] \in 1..n /\ r[1] < r[2]
  BY DEF Within

(* The ranges process_tfiles1 cuts a segment into lie in the index.         *)
LEMMA VersionRangesIn ==
  ASSUME NEW n \in Nat, NEW s \in 1..n, NEW e \in 1..n, s < e
  PROVE  VersionRanges(s, e) \in Seq(Within(1, n))
<1> DEFINE Unversioned(i) == tfiles[i].target.sysver = ""
           Break(i) == \/ tfiles[i].hash # tfiles[i-1].hash
                       \/ tfiles[i].target.arch # tfiles[i-1].target.arch
           breaks == {i \in (s + 1)..e : ~Unversioned(i) /\ Break(i)}
           bare == {i \in (s + 1)..e : Unversioned(i)}
           first == IF Unversioned(s) THEN s + 1 ELSE s
           starts == {first} \cup breaks \cup bare
           ends == {i - 1 : i \in breaks} \cup {e}
<1>1. VersionRanges(s, e) = Runs(starts, ends)
  BY DEF VersionRanges
<1>2. breaks \subseteq (s + 1)..e /\ bare \subseteq (s + 1)..e /\ first \in {s, s + 1}
  OBVIOUS
<1> HIDE DEF breaks, bare, first
<1>3. s \in Nat /\ e \in Nat /\ 1 <= s /\ e <= n
  OBVIOUS
<1>4. starts \in SUBSET (s..e)
  BY <1>2, <1>3
<1>5. ends \in SUBSET (s..e)
  BY <1>2, <1>3
<1>6. \A x \in ends : x + 1 \in starts \/ x = e
  <2> SUFFICES ASSUME NEW i \in breaks PROVE (i - 1) + 1 \in starts
    OBVIOUS
  <2> QED
    BY <1>2, <1>3
<1> HIDE DEF starts, ends
<1>7. Runs(starts, ends) \in Seq(Within(s, e))
  BY <1>3, <1>4, <1>5, <1>6, RunsIn
<1>8. Within(s, e) \subseteq Within(1, n)
  BY <1>3 DEF Within
<1>9. Runs(starts, ends) \in Seq(Within(1, n))
  BY <1>7, <1>8
<1> QED
  BY <1>1, <1>9

(* The files of a range of the index.                                       *)
LEMMA PartIn ==
  ASSUME NEW fs \in Seq(Entry), NEW r \in Within(1, Len(fs))
  PROVE  /\ SubSeq(fs, r[1], r[2]) \in Seq(Entry)
         /\ Len(SubSeq(fs, r[1], r[2])) >= 1
<1>1. r[1] \in 1..Len(fs) /\ r[2] \in 1..Len(fs) /\ r[1] < r[2]
  BY WithinIs, LenProperties
<1> DEFINE a == r[1]
           b == r[2]
<1>2. a \in 1..Len(fs) /\ b \in 1..Len(fs) /\ a < b
  BY <1>1
<1> HIDE DEF a, b
<1>3. SubSeq(fs, a, b) \in Seq(Entry) /\ Len(SubSeq(fs, a, b)) = b - a + 1
  BY <1>2, SubSeqProperties
<1>4. Len(SubSeq(fs, a, b)) >= 1
  BY <1>2, <1>3
<1> QED
  BY <1>3, <1>4 DEF a, b

-----------------------------------------------------------------------------
(* The operations of dedup_tfiles: a file moves only to a directory that    *)
(* exists.                                                                  *)
OpT(ds) ==
  {o \in [what : {"mv", "rm", "keep", "skip"}, from : target_t,
          to : target_t \cup {d[1] : d \in ds}, relpath : Relpath] :
     o.what = "mv" => DirsOf({<<o.to, o.relpath>>}) \subseteq ds}

(* Inductive: the index and what is left of its ranges, the operations of   *)
(* dedup_tfiles, and that a file on disk has its directories. A rename      *)
(* finds the directory it needs: dedup_tfiles has made it.                  *)
TypeInv ==
  /\ pc \in {"index", "segments", "ranges", "ops", "rmdirs", "done", "exit"}
  /\ fails \in 0..MaxFail
  /\ pc = "index" => tree \in Layouts /\ ranges = <<>>
  /\ \A x \in DOMAIN tree : x = <<x[1], x[2]>> /\ x[2] \in Relpath /\ tree[x] \in Nat
  /\ DirsOf(DOMAIN tree) \subseteq dirs
  /\ tfiles \in Seq(Entry)
  /\ segs \in Seq(Within(1, Len(tfiles)))
  /\ ranges \in Seq(Within(1, Len(tfiles)))
  /\ pc = "ops" => ops \in Seq(OpT(dirs))
  /\ IsFiniteSet(mvdirs) /\ mvdirs \subseteq target_t \X {"", "sys"}

(* The directories of files.                                                *)
LEMMA DirsOfIs ==
  ASSUME NEW F, NEW d
  PROVE  d \in DirsOf(F) <=> \E x \in F : d = <<x[1], DirOf[x[2]]>> \/ d = <<x[1], "">>
  BY DEF DirsOf

(* The operations that merge files into one.                                *)
LEMMA MergeOpsIn ==
  ASSUME NEW files \in Seq(Entry), NEW ctarget, NEW ds, Len(files) >= 1,
         DirsOf({<<ctarget, files[1].relpath>>}) \subseteq ds
  PROVE  MergeOps(files, ctarget) \in Seq(OpT(ds))
<1>1. Len(files) \in Nat /\ DOMAIN files = 1..Len(files) /\ \A i \in 1..Len(files) : files[i] \in Entry
  BY LenProperties
<1>2. ctarget \in {d[1] : d \in ds}
  <2>1. <<ctarget, "">> \in ds
    BY DirsOfIs
  <2>2. <<ctarget, "">>[1] = ctarget
    OBVIOUS
  <2> QED
    BY <2>1, <2>2
<1> DEFINE w(i) == IF i > 1 THEN "rm" ELSE IF files[i].target = ctarget THEN "keep" ELSE "mv"
           n == Len(files)
<1>3. \A i \in 1..n : Op(w(i), files[i], ctarget) \in OpT(ds)
  <2> SUFFICES ASSUME NEW i \in 1..n PROVE Op(w(i), files[i], ctarget) \in OpT(ds)
    OBVIOUS
  <2> DEFINE v == w(i)
  <2>1. v \in {"rm", "keep", "mv"}
    OBVIOUS
  <2>2. files[i] \in Entry
    BY <1>1
  <2>3. files[i].target \in target_t /\ files[i].relpath \in Relpath
    BY <2>2 DEF Entry
  <2>4. v = "mv" => i = 1
    OBVIOUS
  <2> HIDE DEF v
  <2>5. Op(v, files[i], ctarget) \in [what : {"mv", "rm", "keep", "skip"}, from : target_t,
          to : target_t \cup {d[1] : d \in ds}, relpath : Relpath]
    BY <1>2, <2>1, <2>3 DEF Op
  <2>6. /\ Op(v, files[i], ctarget).to = ctarget
        /\ Op(v, files[i], ctarget).what = "mv" => Op(v, files[i], ctarget).relpath = files[1].relpath
    BY <2>4 DEF Op
  <2>7. Op(v, files[i], ctarget) \in OpT(ds)
    BY <2>5, <2>6 DEF OpT
  <2> QED
    BY <2>7 DEF v
<1>4. MergeOps(files, ctarget) = [i \in 1..n |-> Op(w(i), files[i], ctarget)]
  BY <1>1 DEF MergeOps
<1>5. n \in Nat
  BY <1>1
<1> HIDE DEF w, n
<1> QED
  BY <1>3, <1>4, <1>5

(* The operations that remove versioned files.                              *)
LEMMA LowerLayerOpsIn ==
  ASSUME NEW files \in Seq(Entry), NEW ds
  PROVE  LowerLayerOps(files) \in Seq(OpT(ds))
<1>1. Len(files) \in Nat /\ DOMAIN files = 1..Len(files) /\ \A i \in 1..Len(files) : files[i] \in Entry
  BY LenProperties
<1> DEFINE NoVersion(f) == f.target.sysver = "" /\ f.target.sys # "any"
           Versioned(f) == f.target.sysver # "" /\ f.target.sys # "any"
           w(i) == IF Versioned(files[i]) THEN "rm" ELSE "skip"
           n == Len(files)
           all == [i \in 1..n |-> Op(w(i), files[i], files[i].target)]
<1>2. LowerLayerOps(files) \in {<<>>, all}
  BY <1>1 DEF LowerLayerOps
<1>3. \A i \in 1..n : Op(w(i), files[i], files[i].target) \in OpT(ds)
  <2> SUFFICES ASSUME NEW i \in 1..n PROVE Op(w(i), files[i], files[i].target) \in OpT(ds)
    OBVIOUS
  <2> DEFINE v == w(i)
  <2>1. v \in {"rm", "skip"}
    OBVIOUS
  <2>2. files[i] \in Entry
    BY <1>1
  <2>3. files[i].target \in target_t /\ files[i].relpath \in Relpath
    BY <2>2 DEF Entry
  <2> HIDE DEF v
  <2>5. Op(v, files[i], files[i].target) \in [what : {"mv", "rm", "keep", "skip"}, from : target_t,
          to : target_t \cup {d[1] : d \in ds}, relpath : Relpath]
    BY <2>1, <2>3 DEF Op
  <2>6. Op(v, files[i], files[i].target).what # "mv"
    BY <2>1 DEF Op
  <2>7. Op(v, files[i], files[i].target) \in OpT(ds)
    BY <2>5, <2>6 DEF OpT
  <2> QED
    BY <2>7 DEF v
<1>5. n \in Nat
  BY <1>1
<1>6. all \in Seq(OpT(ds))
  <2> HIDE DEF w, n
  <2> QED
    BY <1>3, <1>5
<1>7. <<>> \in Seq(OpT(ds))
  BY EmptySeq
<1> HIDE DEF all
<1> QED
  BY <1>2, <1>6, <1>7

-----------------------------------------------------------------------------

(* Failures are counted up to the bound.                                    *)
LEMMA FailsUp ==
  ASSUME TypeInv, fails < MaxFail
  PROVE  fails + 1 \in 0..MaxFail
<1>1. fails \in 0..MaxFail
  BY DEF TypeInv
<1> QED
  BY <1>1, MaxFailAssumption

(* The directories of some files are among those of more files.             *)
LEMMA DirsOfGrows ==
  ASSUME NEW A, NEW B, NEW C, A \subseteq B \cup C
  PROVE  DirsOf(A) \subseteq DirsOf(B) \cup DirsOf(C)
  BY DEF DirsOf

(* What dedup_tfiles does to the state, whatever it decides.                *)
LEMMA DedupStep ==
  ASSUME TypeInv, NEW files \in Seq(Entry), Len(files) >= 1, NEW ctarget,
         Dedup(files, ctarget)
  PROVE  /\ pc' \in {"ops", "exit"} /\ tree' = tree /\ dirs \subseteq dirs'
         /\ fails' \in 0..MaxFail
         /\ pc' = "ops" => ops' \in Seq(OpT(dirs'))
<1>1. CASE MkdirsFail
  <2>1. /\ fails < MaxFail /\ fails' = fails + 1 /\ pc' = "exit" /\ tree' = tree /\ dirs' = dirs
    BY <1>1 DEF MkdirsFail, disk
  <2>2. fails' \in 0..MaxFail
    BY <2>1, FailsUp
  <2> QED
    BY <2>1, <2>2
<1>2. CASE /\ dirs' = dirs \cup DirsOf({<<ctarget, files[1].relpath>>})
           /\ ops' = MergeOps(files, ctarget)
           /\ ok' = TRUE /\ pc' = "ops"
           /\ UNCHANGED <<tree, fails>>
  <2>1. ops' \in Seq(OpT(dirs'))
    BY <1>2, MergeOpsIn
  <2> QED
    BY <1>2, <2>1 DEF TypeInv
<1>3. CASE /\ ops' = LowerLayerOps(files)
           /\ ok' = TRUE /\ pc' = "ops"
           /\ UNCHANGED <<disk, fails>>
  <2>1. ops' \in Seq(OpT(dirs'))
    BY <1>3, LowerLayerOpsIn
  <2> QED
    BY <1>3, <2>1 DEF TypeInv, disk
<1> QED
  BY <1>1, <1>2, <1>3 DEF Dedup

(* A file lies in the target's directory or in its one subdirectory.        *)
LEMMA DirIs == \A r \in Relpath : DirOf[r] \in {"", "sys"}
<1>1. DirOf \in Seq({"", "sys"})
  BY DirOfAssumption
<1>2. DOMAIN DirOf = 1..Len(DirOf) /\ \A r \in 1..Len(DirOf) : DirOf[r] \in {"", "sys"}
  BY <1>1, LenProperties
<1> QED
  BY <1>2 DEF Relpath

LEMMA TypeInit == Init => TypeInv
<1> SUFFICES ASSUME Init PROVE TypeInv
  OBVIOUS
<1>1. tree \in Layouts /\ pc = "index" /\ fails = 0 /\ dirs = DirsOf(DOMAIN tree)
  BY DEF Init
<1>2. \A x \in DOMAIN tree : x \in target_t \X Relpath /\ tree[x] \in Nat \ {NoFile}
  BY <1>1, LayoutsAssumption
<1>3. \A x \in DOMAIN tree : x = <<x[1], x[2]>> /\ x[2] \in Relpath /\ tree[x] \in Nat
  BY <1>2
<1>6. ranges = <<>>
  BY DEF Init
<1>7. fails \in 0..MaxFail
  BY <1>1, MaxFailAssumption
<1>4. tfiles \in Seq(Entry) /\ segs \in Seq(Within(1, Len(tfiles))) /\ ranges \in Seq(Within(1, Len(tfiles)))
  BY EmptySeq DEF Init
<1>5. IsFiniteSet(mvdirs) /\ mvdirs \subseteq target_t \X {"", "sys"}
  BY FS_EmptySet DEF Init
<1> QED
  BY <1>1, <1>3, <1>4, <1>5, <1>6, <1>7 DEF TypeInv

(* The index lists the files of the tree.                                   *)
LEMMA IndexedIn ==
  ASSUME TypeInv, pc = "index", NEW sign \in {1, -1}
  PROVE  Sorted({Tfile(x) : x \in DOMAIN tree}, sign) \in Seq(Entry)
<1> DEFINE S == {Tfile(x) : x \in DOMAIN tree}
<1>1. IsFiniteSet(DOMAIN tree) /\ \A x \in DOMAIN tree : x \in target_t \X Relpath /\ tree[x] \in Nat
  BY LayoutsAssumption DEF TypeInv
<1>2. S \in SUBSET Entry
  <2> SUFFICES ASSUME NEW x \in DOMAIN tree PROVE Tfile(x) \in Entry
    OBVIOUS
  <2>1. x[1] \in target_t /\ x[2] \in Relpath /\ tree[x] \in Nat
    BY <1>1
  <2> QED
    BY <2>1 DEF Tfile, Entry
<1>3. IsFiniteSet(S)
  <2> DEFINE f == [x \in DOMAIN tree |-> Tfile(x)]
  <2>1. f \in Surjection(DOMAIN tree, S)
    BY DEF Surjection
  <2> HIDE DEF f, S
  <2> QED
    BY <1>1, <2>1, FS_Surjection
<1> HIDE DEF S
<1>4. Sorted(S, sign) \in Seq(S)
  BY <1>2, <1>3, SortedIs
<1>5. Sorted(S, sign) \in Seq(Entry)
  BY <1>2, <1>4
<1> QED
  BY <1>5 DEF S

(* Every step keeps the invariant.                                          *)
LEMMA TypeStep == TypeInv /\ [Next]_vars => TypeInv'
<1> SUFFICES ASSUME TypeInv, [Next]_vars PROVE TypeInv'
  OBVIOUS
<1> USE DEF disk, plan, history
<1>1. CASE Index
  <2>1. PICK sign \in {1, -1} : tfiles' = Sorted({Tfile(x) : x \in DOMAIN tree}, sign)
    BY <1>1 DEF Index
  <2>2. tfiles' \in Seq(Entry)
    BY <1>1, <2>1, IndexedIn DEF Index
  <2>3. Len(tfiles') \in Nat
    BY <2>2, LenProperties
  <2>4. segs' \in Seq(Within(1, Len(tfiles')))
    <3>1. CASE Len(tfiles') < 2
      BY <1>1, <3>1, EmptySeq DEF Index
    <3>2. CASE Len(tfiles') >= 2
      <4>1. segs' = Segments(tfiles')
        BY <1>1, <2>3, <3>2 DEF Index
      <4>2. Segments(tfiles') \in Seq(Within(1, Len(tfiles')))
        BY <2>3, <3>2, SegmentsIn
      <4> QED
        BY <4>1, <4>2
    <3> QED
      BY <2>3, <3>1, <3>2
  <2>5. ranges' \in Seq(Within(1, Len(tfiles')))
    <3>1. ranges = <<>>
      BY <1>1 DEF TypeInv, Index
    <3> QED
      BY <1>1, <3>1, EmptySeq DEF Index
  <2> QED
    BY <1>1, <2>2, <2>4, <2>5 DEF Index, TypeInv
<1>2. CASE Segment
  <2>1. segs # <<>> /\ pc = "segments" /\ Len(tfiles) \in Nat
    BY <1>2, LenProperties DEF Segment, TypeInv
  <2> DEFINE r == Head(segs)
  <2>2. r \in Within(1, Len(tfiles)) /\ Tail(segs) \in Seq(Within(1, Len(tfiles)))
    BY <2>1, HeadTailProperties DEF TypeInv
  <2>3. CASE /\ Identical(r[1], r[2])
             /\ Dedup(SubSeq(tfiles, r[1], r[2]), Common(r[1], r[2]))
             /\ ranges' = <<>>
    <3> HIDE DEF r
    <3>1. SubSeq(tfiles, r[1], r[2]) \in Seq(Entry) /\ Len(SubSeq(tfiles, r[1], r[2])) >= 1
      BY <2>2, PartIn DEF TypeInv
    <3>2. /\ pc' \in {"ops", "exit"} /\ tree' = tree /\ dirs \subseteq dirs'
          /\ fails' \in 0..MaxFail
          /\ pc' = "ops" => ops' \in Seq(OpT(dirs'))
      BY <2>3, <3>1, DedupStep
    <3>3. ranges' \in Seq(Within(1, Len(tfiles')))
      BY <2>3, EmptySeq
    <3>4. UNCHANGED <<tfiles, mvdirs>> /\ segs' = Tail(segs)
      BY <1>2 DEF Segment
    <3> QED
      BY <2>2, <3>2, <3>3, <3>4 DEF TypeInv
  <2>4. CASE /\ ~Identical(r[1], r[2])
             /\ ranges' = IF Common(r[1], r[2]).arch = "any" THEN VersionRanges(r[1], r[2]) ELSE <<>>
             /\ pc' = "ranges"
             /\ UNCHANGED <<disk, ops, ok, fails>>
    <3> HIDE DEF r
    <3>1. VersionRanges(r[1], r[2]) \in Seq(Within(1, Len(tfiles)))
      <4>1. r[1] \in 1..Len(tfiles) /\ r[2] \in 1..Len(tfiles) /\ r[1] < r[2]
        BY <2>1, <2>2, WithinIs
      <4> QED
        BY <2>1, <4>1, VersionRangesIn
    <3>2. <<>> \in Seq(Within(1, Len(tfiles)))
      BY EmptySeq
    <3>4. UNCHANGED <<tfiles, mvdirs>> /\ segs' = Tail(segs)
      BY <1>2 DEF Segment
    <3>3. ranges' \in Seq(Within(1, Len(tfiles')))
      BY <2>4, <3>1, <3>2, <3>4
    <3> QED
      BY <2>2, <2>4, <3>3, <3>4 DEF TypeInv
  <2> QED
    BY <1>2, <2>3, <2>4 DEF Segment
<1>3. CASE Range2
  <2>1. ranges # <<>> /\ pc = "ranges" /\ Len(tfiles) \in Nat
    BY <1>3, LenProperties DEF Range2, TypeInv
  <2> DEFINE r == Head(ranges)
             ctarget == [tfiles[r[1]].target EXCEPT !.sysver = ""]
  <2>2. r \in Within(1, Len(tfiles)) /\ Tail(ranges) \in Seq(Within(1, Len(tfiles)))
    BY <2>1, HeadTailProperties DEF TypeInv
  <2>3. UNCHANGED <<tfiles, segs, mvdirs>> /\ ranges' = Tail(ranges)
    BY <1>3 DEF Range2
  <2>4. CASE UNCHANGED <<pc, disk, ops, ok, fails>>
    BY <2>1, <2>2, <2>3, <2>4 DEF TypeInv
  <2>5. CASE Dedup(SubSeq(tfiles, r[1], r[2]), ctarget)
    <3> HIDE DEF r, ctarget
    <3>1. SubSeq(tfiles, r[1], r[2]) \in Seq(Entry) /\ Len(SubSeq(tfiles, r[1], r[2])) >= 1
      BY <2>2, PartIn DEF TypeInv
    <3>2. /\ pc' \in {"ops", "exit"} /\ tree' = tree /\ dirs \subseteq dirs'
          /\ fails' \in 0..MaxFail
          /\ pc' = "ops" => ops' \in Seq(OpT(dirs'))
      BY <2>5, <3>1, DedupStep
    <3> QED
      BY <2>2, <2>3, <3>2 DEF TypeInv
  <2> QED
    BY <1>3, <2>4, <2>5 DEF Range2
<1>4. CASE SegmentEnd
  BY <1>4 DEF SegmentEnd, TypeInv
<1>5. CASE OpStep
  <2> DEFINE o == Head(ops)
             src == <<o.from, o.relpath>>
  <2>1. ops \in Seq(OpT(dirs)) /\ ops # <<>>
    BY <1>5 DEF OpStep, TypeInv
  <2>2. o \in OpT(dirs) /\ Tail(ops) \in Seq(OpT(dirs))
    BY <2>1, HeadTailProperties
  <2>3. UNCHANGED <<pc, dirs, tfiles, segs, ranges>> /\ ops' = Tail(ops) /\ pc = "ops"
    BY <1>5 DEF OpStep
  <2>4. mvdirs' = mvdirs \/ mvdirs' = mvdirs \cup {<<o.from, DirOf[o.relpath]>>}
    BY <1>5 DEF OpStep
  <2>5. \/ UNCHANGED <<tree, fails>>
        \/ o.what = "mv" /\ src \in DOMAIN tree /\ tree' = Moved(o) /\ fails' = fails
        \/ tree' = [x \in DOMAIN tree \ {src} |-> tree[x]] /\ fails' = fails
        \/ (fails < MaxFail \/ src \notin DOMAIN tree)
           /\ fails' = (IF src \in DOMAIN tree THEN fails + 1 ELSE fails) /\ UNCHANGED tree
    BY <1>5 DEF OpStep
  <2> HIDE DEF o
  <2>6. o.from \in target_t /\ o.relpath \in Relpath /\ DirOf[o.relpath] \in {"", "sys"}
    <3>1. o.from \in target_t /\ o.relpath \in Relpath
      BY <2>2 DEF OpT
    <3> QED
      BY <3>1, DirIs
  <2>7. IsFiniteSet(mvdirs') /\ mvdirs' \subseteq target_t \X {"", "sys"}
    <3>1. IsFiniteSet(mvdirs \cup {<<o.from, DirOf[o.relpath]>>})
      BY FS_AddElement DEF TypeInv
    <3>2. IsFiniteSet(mvdirs) /\ mvdirs \subseteq target_t \X {"", "sys"}
      BY DEF TypeInv
    <3>3. <<o.from, DirOf[o.relpath]>> \in target_t \X {"", "sys"}
      BY <2>6
    <3> QED
      BY <2>4, <3>1, <3>2, <3>3
  <2>8. fails' \in 0..MaxFail
    <3>1. fails \in 0..MaxFail
      BY DEF TypeInv
    <3>2. fails' = fails \/ (fails < MaxFail /\ fails' = fails + 1)
      BY <2>5
    <3> QED
      BY <3>1, <3>2, FailsUp
  <2>9. /\ \A x \in DOMAIN tree' : x = <<x[1], x[2]>> /\ x[2] \in Relpath /\ tree'[x] \in Nat
        /\ DirsOf(DOMAIN tree') \subseteq dirs
    <3>1. CASE UNCHANGED tree
      BY <3>1 DEF TypeInv
    <3>2. CASE o.what = "mv" /\ src \in DOMAIN tree /\ tree' = Moved(o)
      <4> DEFINE dst == <<o.to, o.relpath>>
      <4>1. DOMAIN tree' = (DOMAIN tree \ {src}) \cup {dst}
        BY <3>2 DEF Moved
      <4>2. \A x \in DOMAIN tree' : tree'[x] = IF x = dst THEN tree[src] ELSE tree[x]
        BY <3>2 DEF Moved
      <4>3. dst[1] = o.to /\ dst[2] = o.relpath /\ dst = <<dst[1], dst[2]>>
        OBVIOUS
      <4>4. DirsOf({dst}) \subseteq dirs
        BY <2>2, <3>2 DEF OpT
      <4> HIDE DEF dst
      <4>5. \A x \in DOMAIN tree' : x = <<x[1], x[2]>> /\ x[2] \in Relpath /\ tree'[x] \in Nat
        BY <2>6, <3>2, <4>1, <4>2, <4>3 DEF TypeInv
      <4>6. DirsOf(DOMAIN tree') \subseteq DirsOf(DOMAIN tree) \cup DirsOf({dst})
        <5>1. DOMAIN tree' \subseteq DOMAIN tree \cup {dst}
          BY <4>1
        <5> QED
          BY <5>1, DirsOfGrows
      <4> QED
        BY <4>4, <4>5, <4>6 DEF TypeInv
    <3>3. CASE tree' = [x \in DOMAIN tree \ {src} |-> tree[x]]
      <4>1. DOMAIN tree' = DOMAIN tree \ {src} /\ \A x \in DOMAIN tree' : tree'[x] = tree[x]
        BY <3>3
      <4>2. DirsOf(DOMAIN tree') \subseteq DirsOf(DOMAIN tree)
        <5>1. DOMAIN tree' \subseteq DOMAIN tree \cup DOMAIN tree
          BY <4>1
        <5> QED
          BY <5>1, DirsOfGrows
      <4> QED
        BY <4>1, <4>2 DEF TypeInv
    <3> QED
      BY <2>5, <3>1, <3>2, <3>3
  <2> QED
    BY <2>2, <2>3, <2>7, <2>8, <2>9 DEF TypeInv
<1>6. CASE OpsEnd
  BY <1>6 DEF OpsEnd, TypeInv
<1>7. CASE SegmentsOver
  BY <1>7 DEF SegmentsOver, TypeInv
<1>8. CASE RemoveDir
  <2> DEFINE d == CHOOSE d \in mvdirs : \A c \in mvdirs : c = d \/ LexLess(DirKey(c), DirKey(d))
  <2>1. /\ pc = "rmdirs" /\ mvdirs' = mvdirs \ {d}
        /\ UNCHANGED <<pc, tree, tfiles, segs, ranges>>
    BY <1>8 DEF RemoveDir
  <2>2. \/ EmptyDir(d) /\ dirs' = dirs \ {d} /\ fails' = fails
        \/ dirs' = dirs /\ fails' = fails
        \/ fails < MaxFail /\ fails' = fails + 1 /\ dirs' = dirs
    BY <1>8 DEF RemoveDir
  <2> HIDE DEF d
  <2>3. IsFiniteSet(mvdirs') /\ mvdirs' \subseteq target_t \X {"", "sys"}
    BY <2>1, FS_RemoveElement DEF TypeInv
  <2>4. fails' \in 0..MaxFail
    <3>1. fails \in 0..MaxFail
      BY DEF TypeInv
    <3> QED
      BY <2>2, <3>1, FailsUp
  <2>5. DirsOf(DOMAIN tree) \subseteq dirs'
    <3>1. CASE dirs' = dirs
      BY <3>1 DEF TypeInv
    <3>2. CASE EmptyDir(d) /\ dirs' = dirs \ {d}
      <4> SUFFICES d \notin DirsOf(DOMAIN tree)
        BY <3>2 DEF TypeInv
      <4> SUFFICES ASSUME NEW x \in DOMAIN tree, d = <<x[1], DirOf[x[2]]>> \/ d = <<x[1], "">>
                   PROVE  FALSE
        BY DirsOfIs
      <4>1. d # <<x[1], DirOf[x[2]]>>
        <5>1. <<x[1], DirOf[x[2]]>>[1] = x[1] /\ <<x[1], DirOf[x[2]]>>[2] = DirOf[x[2]]
          OBVIOUS
        <5> QED
          BY <3>2, <5>1 DEF EmptyDir
      <4>2. d = <<x[1], "">> /\ <<x[1], DirOf[x[2]]>> \in dirs
        BY <4>1, DirsOfIs DEF TypeInv
      <4> QED
        BY <3>2, <4>1, <4>2 DEF EmptyDir
    <3> QED
      BY <2>2, <3>1, <3>2
  <2> QED
    BY <2>1, <2>3, <2>4, <2>5 DEF TypeInv
<1>9. CASE Finish
  BY <1>9 DEF Finish, TypeInv
<1>10. CASE UNCHANGED vars
  BY <1>10 DEF vars, TypeInv
<1> QED
  BY <1>1, <1>2, <1>3, <1>4, <1>5, <1>6, <1>7, <1>8, <1>9, <1>10 DEF Next

LEMMA TypeCorrect == Spec => []TypeInv
<1> QED
  BY TypeInit, TypeStep, PTL DEF Spec

(* The types: every file on disk always has its directory and the directory *)
(* of its target, whatever is merged, removed or fails, and what is indexed *)
(* are files of the tree.                                                   *)
THEOREM TypeOKAlways == Spec => []TypeOK
<1>1. TypeInv => TypeOK
  <2> SUFFICES ASSUME TypeInv PROVE TypeOK
    OBVIOUS
  <2>1. \A i \in DOMAIN tfiles : tfiles[i].relpath \in Relpath
    <3>1. DOMAIN tfiles = 1..Len(tfiles) /\ \A i \in 1..Len(tfiles) : tfiles[i] \in Entry
      BY LenProperties DEF TypeInv
    <3> QED
      BY <3>1 DEF Entry
  <2> QED
    BY <2>1 DEF TypeInv, TypeOK
<1> QED
  BY <1>1, TypeCorrect, PTL

-----------------------------------------------------------------------------
(* A directory that lost a header is still to be visited, gone, or for good *)
(* not empty: by a file, or by a subdirectory that was visited before it.   *)
Settled(d) ==
  \/ d \in mvdirs
  \/ d \notin dirs
  \/ \E x \in DOMAIN tree : x[1] = d[1] /\ DirOf[x[2]] = d[2]
  \/ d[2] = "" /\ \E c \in dirs \ mvdirs : c[1] = d[1] /\ c # d

(* Inductive: until directories are removed, a file that was there is still *)
(* there or its directory is noted; after that, its directory is settled.   *)
LeftInv ==
  /\ pc \notin {"rmdirs", "done"} =>
       \A x \in DOMAIN before : x \in DOMAIN tree \/ <<x[1], DirOf[x[2]]>> \in mvdirs
  /\ pc \in {"rmdirs", "done"} /\ fails = 0 =>
       \A x \in DOMAIN before : Settled(<<x[1], DirOf[x[2]]>>)
  /\ pc = "done" => mvdirs = {}

(* The parts of a directory, and what tells the keys of directories apart.  *)
LEMMA PairIs ==
  ASSUME NEW A, NEW B, NEW c \in A \X B
  PROVE  c[1] \in A /\ c[2] \in B /\ c = <<c[1], c[2]>>
  OBVIOUS

LEMMA BitApart ==
  /\ \A v : (IF v = "" THEN 0 ELSE 1) \in Int
  /\ \A v, w \in {"", "sys"} : (IF v = "" THEN 0 ELSE 1) = (IF w = "" THEN 0 ELSE 1) => v = w
  OBVIOUS

LEMMA TargetApart ==
  ASSUME NEW s \in target_t, NEW t \in target_t,
         Rank(s.arch) = Rank(t.arch), Rank(s.sys) = Rank(t.sys),
         Rank(s.sysver) = Rank(t.sysver), Rank(s.suffix) = Rank(t.suffix)
  PROVE  s = t
<1>1. /\ s.arch \in Word /\ s.sys \in Word /\ s.sysver \in Word /\ s.suffix \in Word
      /\ t.arch \in Word /\ t.sys \in Word /\ t.sysver \in Word /\ t.suffix \in Word
  BY DEF target_t
<1>2. s.arch = t.arch /\ s.sys = t.sys /\ s.sysver = t.sysver /\ s.suffix = t.suffix
  BY <1>1, RankIs
<1> QED
  BY <1>2 DEF target_t

(* A key of five numbers, of which only the last tells the subdirectory     *)
(* from its parent.                                                         *)
LEMMA FiveIn ==
  ASSUME NEW a1 \in Int, NEW a2 \in Int, NEW a3 \in Int, NEW a4 \in Int, NEW a5 \in Int
  PROVE  <<a1, a2, a3, a4, a5>> \in Keys(5)
  BY DEF Keys

LEMMA LastOnly ==
  ASSUME NEW a1 \in Int, NEW a2 \in Int, NEW a3 \in Int, NEW a4 \in Int
  PROVE  ~LexLess(<<a1, a2, a3, a4, 1>>, <<a1, a2, a3, a4, 0>>)
<1> DEFINE a == <<a1, a2, a3, a4, 1>>
           b == <<a1, a2, a3, a4, 0>>
<1> SUFFICES ASSUME NEW i \in DOMAIN a, a[i] < b[i] PROVE FALSE
  BY DEF LexLess
<1>1. i = 1 \/ i = 2 \/ i = 3 \/ i = 4 \/ i = 5
  OBVIOUS
<1>2. /\ a[1] = a1 /\ a[2] = a2 /\ a[3] = a3 /\ a[4] = a4 /\ a[5] = 1
      /\ b[1] = a1 /\ b[2] = a2 /\ b[3] = a3 /\ b[4] = a4 /\ b[5] = 0
  OBVIOUS
<1> HIDE DEF a, b
<1> QED
  BY <1>1, <1>2

(* The key str_rcmp sorts directories by; it orders them.                   *)
DirKeyT == [d \in target_t \X {"", "sys"} |-> DirKey(d)]

LEMMA DirKeyOrders == Orders(By(DirKeyT, target_t \X {"", "sys"}), target_t \X {"", "sys"})
<1> DEFINE five == 5
           U == target_t \X {"", "sys"}
<1>1. \A d \in U : DirKey(d) \in Keys(five)
  <2> SUFFICES ASSUME NEW d \in U PROVE DirKey(d) \in Keys(five)
    OBVIOUS
  <2>1. d[1] \in target_t
    BY PairIs
  <2>3. (IF d[2] = "" THEN 0 ELSE 1) \in Int
    BY BitApart
  <2>2. /\ Rank(d[1].arch) \in Int /\ Rank(d[1].sys) \in Int
        /\ Rank(d[1].sysver) \in Int /\ Rank(d[1].suffix) \in Int
    BY <2>1, RankIs DEF target_t
  <2> QED
    BY <2>2, <2>3, FiveIn DEF DirKey
<1>2. ASSUME NEW c \in U, NEW d \in U, DirKey(c) = DirKey(d) PROVE c = d
  <2>1. /\ c[1] \in target_t /\ d[1] \in target_t /\ c[2] \in {"", "sys"} /\ d[2] \in {"", "sys"}
        /\ c = <<c[1], c[2]>> /\ d = <<d[1], d[2]>>
    BY PairIs
  <2>2. /\ Rank(c[1].arch) = Rank(d[1].arch) /\ Rank(c[1].sys) = Rank(d[1].sys)
        /\ Rank(c[1].sysver) = Rank(d[1].sysver) /\ Rank(c[1].suffix) = Rank(d[1].suffix)
        /\ (IF c[2] = "" THEN 0 ELSE 1) = (IF d[2] = "" THEN 0 ELSE 1)
    BY <1>2 DEF DirKey
  <2>3. c[2] = d[2]
    <3>1. (IF c[2] = "" THEN 0 ELSE 1) = (IF d[2] = "" THEN 0 ELSE 1)
      BY <2>2
    <3>2. c[2] \in {"", "sys"} /\ d[2] \in {"", "sys"}
      BY <2>1
    <3> QED
      BY <3>1, <3>2, BitApart
  <2>4. c[1] = d[1]
    BY <2>1, <2>2, TargetApart
  <2> QED
    BY <2>1, <2>3, <2>4
<1>3. /\ DirKeyT \in [U -> Keys(five)]
      /\ \A c, d \in U : DirKeyT[c] = DirKeyT[d] => c = d
  BY <1>1, <1>2 DEF DirKeyT
<1>4. five \in Nat
  OBVIOUS
<1> HIDE DEF five, U
<1>5. Orders(By(DirKeyT, U), U)
  BY <1>3, <1>4, KeyOrders
<1> QED
  BY <1>5 DEF U

(* RemoveDir takes the last directory; its subdirectory is not left.        *)
LastDir(d) == d \in mvdirs /\ \A c \in mvdirs : c = d \/ LexLess(DirKey(c), DirKey(d))

(* There is a last directory, so the loop takes one.                        *)
LEMMA LastExists ==
  ASSUME TypeInv, mvdirs # {}
  PROVE  \E d : LastDir(d)
<1> DEFINE U == target_t \X {"", "sys"}
           R == By(DirKeyT, U)
<1>1. mvdirs \in SUBSET U /\ IsFiniteSet(mvdirs)
  BY DEF TypeInv
<1>2. \A c \in U, d \in U : <<c, d>> \in R => LexLess(DirKey(c), DirKey(d))
  BY DEF By, DirKeyT
<1>3. Orders(R, U)
  BY DirKeyOrders
<1> HIDE DEF R, U
<1>4. HasLargest(R, mvdirs)
  BY <1>1, <1>3, LargestExists
<1> QED
  BY <1>1, <1>2, <1>4 DEF HasLargest, Largest, LastDir

(* If the last directory is the parent, the subdirectory is not noted any   *)
(* more: it was removed before.                                             *)
LEMMA SubdirFirst ==
  ASSUME NEW d, LastDir(d), TypeInv, NEW c, c[1] = d[1], c # d, d[2] = ""
  PROVE  c \notin mvdirs
<1> SUFFICES ASSUME c \in mvdirs PROVE FALSE
  OBVIOUS
<1>1. c \in target_t \X {"", "sys"} /\ d \in target_t \X {"", "sys"}
  BY DEF TypeInv, LastDir
<1>2. /\ c = <<c[1], c[2]>> /\ d = <<d[1], d[2]>> /\ c[2] \in {"", "sys"} /\ d[1] \in target_t
  BY <1>1, PairIs
<1>3. c[2] = "sys"
  BY <1>2
<1>4. LexLess(DirKey(c), DirKey(d))
  BY DEF LastDir
<1>5. /\ DirKey(c) = <<Rank(d[1].arch), Rank(d[1].sys), Rank(d[1].sysver), Rank(d[1].suffix), 1>>
      /\ DirKey(d) = <<Rank(d[1].arch), Rank(d[1].sys), Rank(d[1].sysver), Rank(d[1].suffix), 0>>
  BY <1>3 DEF DirKey
<1>6. /\ Rank(d[1].arch) \in Int /\ Rank(d[1].sys) \in Int
      /\ Rank(d[1].sysver) \in Int /\ Rank(d[1].suffix) \in Int
  BY <1>2, RankIs DEF target_t
<1> QED
  BY <1>4, <1>5, <1>6, LastOnly

(* Removing the last directory, or finding that it is not empty, settles it *)
(* and keeps the others settled.                                            *)
LEMMA SettledStep ==
  ASSUME TypeInv, NEW d, LastDir(d), NEW e, Settled(e),
         mvdirs' = mvdirs \ {d}, tree' = tree,
         (EmptyDir(d) /\ dirs' = dirs \ {d}) \/ (~EmptyDir(d) /\ dirs' = dirs)
  PROVE  Settled(e)'
<1>1. CASE e \in mvdirs /\ e # d
  BY <1>1 DEF Settled
<1>2. CASE e = d
  <2>1. CASE EmptyDir(d) /\ dirs' = dirs \ {d}
    BY <1>2, <2>1 DEF Settled
  <2>2. CASE ~EmptyDir(d) /\ dirs' = dirs
    <3>1. CASE \E y \in DOMAIN tree : y[1] = d[1] /\ DirOf[y[2]] = d[2]
      BY <1>2, <3>1 DEF Settled
    <3>2. CASE d[2] = "" /\ \E c \in dirs : c[1] = d[1] /\ c # d
      <4>1. PICK c \in dirs : c[1] = d[1] /\ c # d
        BY <3>2
      <4>2. c \notin mvdirs
        BY <3>2, <4>1, SubdirFirst
      <4>3. c \in dirs' \ mvdirs'
        BY <2>2, <4>1, <4>2
      <4> QED
        BY <1>2, <3>2, <4>1, <4>3 DEF Settled
    <3> QED
      BY <2>2, <3>1, <3>2 DEF EmptyDir
  <2> QED
    BY <2>1, <2>2
<1>3. CASE e \notin dirs
  BY <1>3 DEF Settled
<1>4. CASE \E y \in DOMAIN tree : y[1] = e[1] /\ DirOf[y[2]] = e[2]
  BY <1>4 DEF Settled
<1>5. CASE e[2] = "" /\ \E c \in dirs \ mvdirs : c[1] = e[1] /\ c # e
  <2>1. PICK c \in dirs \ mvdirs : c[1] = e[1] /\ c # e
    BY <1>5
  <2>2. c # d
    BY <2>1 DEF LastDir
  <2>3. c \in dirs' \ mvdirs'
    BY <2>1, <2>2
  <2> QED
    BY <1>5, <2>1, <2>3 DEF Settled
<1> QED
  BY <1>1, <1>2, <1>3, <1>4, <1>5 DEF Settled

LEMMA LeftInit == Init => LeftInv
  BY DEF Init, LeftInv

(* Before the directories are removed, a step takes a file away only when   *)
(* it notes its directory.                                                  *)
LEMMA StillKept ==
  ASSUME LeftInv, pc \notin {"rmdirs", "done"}, pc' \notin {"rmdirs", "done"}, before' = before,
         mvdirs \subseteq mvdirs',
         \A x \in DOMAIN tree : x \in DOMAIN tree' \/ <<x[1], DirOf[x[2]]>> \in mvdirs'
  PROVE  LeftInv'
<1>1. \A x \in DOMAIN before : x \in DOMAIN tree \/ <<x[1], DirOf[x[2]]>> \in mvdirs
  BY DEF LeftInv
<1>2. \A x \in DOMAIN before' : x \in DOMAIN tree' \/ <<x[1], DirOf[x[2]]>> \in mvdirs'
  BY <1>1
<1> QED
  BY <1>2 DEF LeftInv

(* Every step keeps the invariant.                                          *)
LEMMA LeftStep == TypeInv /\ LeftInv /\ [Next]_vars => LeftInv'
<1> SUFFICES ASSUME TypeInv, LeftInv, [Next]_vars PROVE LeftInv'
  OBVIOUS
<1> USE DEF disk, plan, history
<1>1. CASE Index
  BY <1>1, StillKept DEF Index
<1>2. CASE Segment
  <2>1. segs # <<>> /\ pc = "segments" /\ UNCHANGED <<mvdirs, before>>
    BY <1>2 DEF Segment
  <2> DEFINE r == Head(segs)
  <2>2. r \in Within(1, Len(tfiles))
    BY <2>1, HeadTailProperties DEF TypeInv
  <2>3. \/ Dedup(SubSeq(tfiles, r[1], r[2]), Common(r[1], r[2]))
        \/ pc' = "ranges" /\ UNCHANGED tree
    BY <1>2 DEF Segment
  <2> HIDE DEF r
  <2>4. SubSeq(tfiles, r[1], r[2]) \in Seq(Entry) /\ Len(SubSeq(tfiles, r[1], r[2])) >= 1
    BY <2>2, PartIn DEF TypeInv
  <2>5. pc' \in {"ops", "exit", "ranges"} /\ UNCHANGED tree
    BY <2>3, <2>4, DedupStep
  <2> QED
    BY <2>1, <2>5, StillKept
<1>3. CASE Range2
  <2>1. ranges # <<>> /\ pc = "ranges" /\ UNCHANGED <<mvdirs, before>>
    BY <1>3 DEF Range2
  <2> DEFINE r == Head(ranges)
             ctarget == [tfiles[r[1]].target EXCEPT !.sysver = ""]
  <2>2. r \in Within(1, Len(tfiles))
    BY <2>1, HeadTailProperties DEF TypeInv
  <2>3. \/ Dedup(SubSeq(tfiles, r[1], r[2]), ctarget)
        \/ UNCHANGED <<pc, tree>>
    BY <1>3 DEF Range2
  <2> HIDE DEF r, ctarget
  <2>4. SubSeq(tfiles, r[1], r[2]) \in Seq(Entry) /\ Len(SubSeq(tfiles, r[1], r[2])) >= 1
    BY <2>2, PartIn DEF TypeInv
  <2>5. pc' \in {"ops", "exit", "ranges"} /\ UNCHANGED tree
    BY <2>1, <2>3, <2>4, DedupStep
  <2> QED
    BY <2>1, <2>5, StillKept
<1>4. CASE SegmentEnd
  BY <1>4, StillKept DEF SegmentEnd
<1>5. CASE OpStep
  <2> DEFINE o == Head(ops)
             src == <<o.from, o.relpath>>
  <2>1. pc = "ops" /\ pc' = "ops" /\ before' = before
    BY <1>5 DEF OpStep
  <2>2. \/ UNCHANGED tree /\ mvdirs \subseteq mvdirs'
        \/ /\ DOMAIN tree \ {src} \subseteq DOMAIN tree'
           /\ mvdirs' = mvdirs \cup {<<o.from, DirOf[o.relpath]>>}
    <3>1. CASE o.what \in {"keep", "skip"} /\ UNCHANGED tree
      BY <1>5, <3>1 DEF OpStep
    <3>2. CASE o.what = "mv" /\ tree' = Moved(o)
      BY <1>5, <3>2 DEF OpStep, Moved
    <3>3. CASE o.what = "rm" /\ tree' = [x \in DOMAIN tree \ {src} |-> tree[x]]
      BY <1>5, <3>3 DEF OpStep
    <3>4. CASE o.what \in {"mv", "rm"} /\ UNCHANGED tree
      BY <1>5, <3>4 DEF OpStep
    <3> QED
      BY <1>5, <3>1, <3>2, <3>3, <3>4 DEF OpStep
  <2>3. mvdirs \subseteq mvdirs'
    BY <2>2
  <2>4. <<src[1], DirOf[src[2]]>> = <<o.from, DirOf[o.relpath]>>
    OBVIOUS
  <2>5. \A x \in DOMAIN tree : x \in DOMAIN tree' \/ <<x[1], DirOf[x[2]]>> \in mvdirs'
    <3> SUFFICES ASSUME NEW x \in DOMAIN tree, x \notin DOMAIN tree'
                 PROVE  <<x[1], DirOf[x[2]]>> \in mvdirs'
      OBVIOUS
    <3> HIDE DEF src
    <3>1. x = src /\ mvdirs' = mvdirs \cup {<<o.from, DirOf[o.relpath]>>}
      BY <2>2
    <3> QED
      BY <2>4, <3>1
  <2> QED
    BY <2>1, <2>3, <2>5, StillKept
<1>6. CASE OpsEnd
  BY <1>6, StillKept DEF OpsEnd
<1>7. CASE SegmentsOver
  <2>1. pc = "segments" /\ pc' = "rmdirs" /\ UNCHANGED <<tree, mvdirs, before>>
    BY <1>7 DEF SegmentsOver
  <2>2. \A x \in DOMAIN before : x \in DOMAIN tree \/ <<x[1], DirOf[x[2]]>> \in mvdirs
    BY <2>1 DEF LeftInv
  <2>3. ASSUME NEW x \in DOMAIN before PROVE Settled(<<x[1], DirOf[x[2]]>>)'
    <3>1. <<x[1], DirOf[x[2]]>>[1] = x[1] /\ <<x[1], DirOf[x[2]]>>[2] = DirOf[x[2]]
      OBVIOUS
    <3> QED
      BY <2>1, <2>2, <3>1 DEF Settled
  <2> QED
    BY <2>1, <2>3 DEF LeftInv
<1>8. CASE RemoveDir
  <2> DEFINE d == CHOOSE d \in mvdirs : \A c \in mvdirs : c = d \/ LexLess(DirKey(c), DirKey(d))
  <2>1. /\ pc = "rmdirs" /\ mvdirs # {} /\ mvdirs' = mvdirs \ {d}
        /\ UNCHANGED <<pc, tree, before>>
    BY <1>8 DEF RemoveDir
  <2>2. \/ EmptyDir(d) /\ dirs' = dirs \ {d} /\ fails' = fails
        \/ ~EmptyDir(d) /\ dirs' = dirs /\ fails' = fails
        \/ fails < MaxFail /\ fails' = fails + 1 /\ dirs' = dirs
    BY <1>8 DEF RemoveDir
  <2>3. LastDir(d)
    BY <2>1, LastExists DEF LastDir
  <2> HIDE DEF d
  <2> SUFFICES ASSUME fails' = 0, NEW x \in DOMAIN before
               PROVE  Settled(<<x[1], DirOf[x[2]]>>)'
    BY <2>1 DEF LeftInv
  <2>4. fails \in 0..MaxFail
    BY DEF TypeInv
  <2>5. /\ fails = 0
        /\ (EmptyDir(d) /\ dirs' = dirs \ {d}) \/ (~EmptyDir(d) /\ dirs' = dirs)
    BY <2>2, <2>4
  <2>6. Settled(<<x[1], DirOf[x[2]]>>)
    BY <2>1, <2>5 DEF LeftInv
  <2> QED
    BY <2>1, <2>3, <2>5, <2>6, SettledStep
<1>9. CASE Finish
  <2>1. pc = "rmdirs" /\ pc' = "done" /\ mvdirs = {} /\ UNCHANGED <<tree, dirs, mvdirs, fails, before>>
    BY <1>9 DEF Finish
  <2> QED
    BY <2>1 DEF LeftInv, Settled
<1>10. CASE UNCHANGED vars
  BY <1>10 DEF vars, LeftInv, Settled
<1> QED
  BY <1>1, <1>2, <1>3, <1>4, <1>5, <1>6, <1>7, <1>8, <1>9, <1>10 DEF Next

(* When the program has succeeded, no directory that held a header is left  *)
(* behind empty: remove_empty_dirs visits every directory that lost one, a  *)
(* subdirectory before its parent. For any trees, targets and merges, so    *)
(* also for those no run can list.                                          *)
THEOREM LeftoverDirsAlways == Spec => []LeftoverDirs
<1>1. LeftInv => LeftoverDirs
  <2> SUFFICES ASSUME LeftInv, pc = "done", fails = 0, NEW d \in dirs, EmptyDir(d),
                      NEW x \in DOMAIN before, <<x[1], DirOf[x[2]]>> = d
               PROVE  FALSE
    BY DEF LeftoverDirs
  <2>1. Settled(d) /\ mvdirs = {}
    BY DEF LeftInv
  <2> QED
    BY <2>1 DEF Settled, EmptyDir
<1> QED
  BY <1>1, TypeCorrect, LeftInit, LeftStep, PTL DEF Spec

-----------------------------------------------------------------------------
(* The arrays of dedup_tfiles: what the folds go through.                   *)
Memory == [st : [1..10 -> STRING \cup Word], len : Nat]

(* The words of the targets are words, and which of them come first.        *)
LEMMA WordsApart ==
  /\ "aarch64" \in Word /\ "x86_64" \in Word /\ "macos" \in Word /\ "any" \in Word
  /\ "10" \in Word /\ "11" \in Word /\ "" \in Word /\ "libc" \in Word
  /\ Rank("aarch64") < Rank("x86_64") /\ Rank("10") < Rank("11")
<1>1. /\ StrOrder[1] = "" /\ StrOrder[2] = "10" /\ StrOrder[3] = "11" /\ StrOrder[4] = "12"
      /\ StrOrder[5] = "13" /\ StrOrder[6] = "aarch64" /\ StrOrder[7] = "any" /\ StrOrder[8] = "arm"
      /\ StrOrder[9] = "i386" /\ StrOrder[10] = "libc" /\ StrOrder[11] = "linux" /\ StrOrder[12] = "macos"
      /\ StrOrder[13] = "riscv" /\ StrOrder[14] = "riscv32" /\ StrOrder[15] = "riscv64"
      /\ StrOrder[16] = "x86_64" /\ DOMAIN StrOrder = 1..16
  BY DEF StrOrder
<1>2. \A i \in 1..16 : StrOrder[i] \in Word
  BY <1>1 DEF Word
<1>3. /\ "aarch64" \in Word /\ "x86_64" \in Word /\ "macos" \in Word /\ "any" \in Word
      /\ "10" \in Word /\ "11" \in Word /\ "" \in Word /\ "libc" \in Word
  <2>1. 10 \in 1..16 /\ 1 \in 1..16 /\ 2 \in 1..16 /\ 3 \in 1..16 /\ 6 \in 1..16 /\ 7 \in 1..16 /\ 12 \in 1..16 /\ 16 \in 1..16
    OBVIOUS
  <2> QED
    BY <1>1, <1>2, <2>1
<1>4. Rank("aarch64") = 6
  <2> DEFINE w == "aarch64"
             at == 6
  <2>1. \A j \in 1..16 : StrOrder[j] = w => j = at
    <3> SUFFICES ASSUME NEW j \in 1..16, StrOrder[j] = w PROVE j = at
      OBVIOUS
    <3>1. j = 1 \/ j = 2 \/ j = 3 \/ j = 4 \/ j = 5 \/ j = 6 \/ j = 7 \/ j = 8
          \/ j = 9 \/ j = 10 \/ j = 11 \/ j = 12 \/ j = 13 \/ j = 14 \/ j = 15 \/ j = 16
      OBVIOUS
    <3> QED
      BY <1>1, <3>1
  <2>2. StrOrder[at] = w
    BY <1>1
  <2>4. at \in 1..16
    OBVIOUS
  <2> HIDE DEF w, at
  <2>3. Rank(w) = at
    BY <1>1, <2>1, <2>2, <2>4 DEF Rank
  <2> QED
    BY <2>3 DEF w, at
<1>5. Rank("x86_64") = 16
  <2> DEFINE w == "x86_64"
             at == 16
  <2>1. \A j \in 1..16 : StrOrder[j] = w => j = at
    <3> SUFFICES ASSUME NEW j \in 1..16, StrOrder[j] = w PROVE j = at
      OBVIOUS
    <3>1. j = 1 \/ j = 2 \/ j = 3 \/ j = 4 \/ j = 5 \/ j = 6 \/ j = 7 \/ j = 8
          \/ j = 9 \/ j = 10 \/ j = 11 \/ j = 12 \/ j = 13 \/ j = 14 \/ j = 15 \/ j = 16
      OBVIOUS
    <3> QED
      BY <1>1, <3>1
  <2>2. StrOrder[at] = w
    BY <1>1
  <2>4. at \in 1..16
    OBVIOUS
  <2> HIDE DEF w, at
  <2>3. Rank(w) = at
    BY <1>1, <2>1, <2>2, <2>4 DEF Rank
  <2> QED
    BY <2>3 DEF w, at
<1>6. Rank("10") = 2
  <2> DEFINE w == "10"
             at == 2
  <2>1. \A j \in 1..16 : StrOrder[j] = w => j = at
    <3> SUFFICES ASSUME NEW j \in 1..16, StrOrder[j] = w PROVE j = at
      OBVIOUS
    <3>1. j = 1 \/ j = 2 \/ j = 3 \/ j = 4 \/ j = 5 \/ j = 6 \/ j = 7 \/ j = 8
          \/ j = 9 \/ j = 10 \/ j = 11 \/ j = 12 \/ j = 13 \/ j = 14 \/ j = 15 \/ j = 16
      OBVIOUS
    <3> QED
      BY <1>1, <3>1
  <2>2. StrOrder[at] = w
    BY <1>1
  <2>4. at \in 1..16
    OBVIOUS
  <2> HIDE DEF w, at
  <2>3. Rank(w) = at
    BY <1>1, <2>1, <2>2, <2>4 DEF Rank
  <2> QED
    BY <2>3 DEF w, at
<1>7. Rank("11") = 3
  <2> DEFINE w == "11"
             at == 3
  <2>1. \A j \in 1..16 : StrOrder[j] = w => j = at
    <3> SUFFICES ASSUME NEW j \in 1..16, StrOrder[j] = w PROVE j = at
      OBVIOUS
    <3>1. j = 1 \/ j = 2 \/ j = 3 \/ j = 4 \/ j = 5 \/ j = 6 \/ j = 7 \/ j = 8
          \/ j = 9 \/ j = 10 \/ j = 11 \/ j = 12 \/ j = 13 \/ j = 14 \/ j = 15 \/ j = 16
      OBVIOUS
    <3> QED
      BY <1>1, <3>1
  <2>2. StrOrder[at] = w
    BY <1>1
  <2>4. at \in 1..16
    OBVIOUS
  <2> HIDE DEF w, at
  <2>3. Rank(w) = at
    BY <1>1, <2>1, <2>2, <2>4 DEF Rank
  <2> QED
    BY <2>3 DEF w, at
<1>8. Rank("aarch64") < Rank("x86_64") /\ Rank("10") < Rank("11")
  BY <1>4, <1>5, <1>6, <1>7
<1> QED
  BY <1>3, <1>8

-----------------------------------------------------------------------------
(* array_sortedset_assign with none or one value in the set.                *)
LEMMA AddFirst ==
  ASSUME NEW st \in [1..10 -> STRING \cup Word], NEW len, len = 0, NEW v
  PROVE  SortedAssign(st, len, v) = [st |-> [st EXCEPT ![1] = v], len |-> 1]
<1>1. {i \in 1..len : Rank(st[i]) < Rank(v)} = {} /\ ~(\E i \in 1..len : st[i] = v)
  OBVIOUS
<1>2. Cardinality({i \in 1..len : Rank(st[i]) < Rank(v)}) = 0
  BY <1>1, FS_EmptySet
<1>3. [i \in 1..10 |-> IF i = 1 THEN v ELSE IF 1 < i /\ i <= 1 THEN st[i-1] ELSE st[i]]
        = [st EXCEPT ![1] = v]
  <2> DEFINE f == [i \in 1..10 |-> IF i = 1 THEN v ELSE IF 1 < i /\ i <= 1 THEN st[i-1] ELSE st[i]]
             g == [st EXCEPT ![1] = v]
  <2>1. DOMAIN f = 1..10 /\ DOMAIN g = 1..10
    OBVIOUS
  <2>2. \A i \in 1..10 : f[i] = g[i]
    <3> SUFFICES ASSUME NEW i \in 1..10 PROVE f[i] = g[i]
      OBVIOUS
    <3>1. f[i] = IF i = 1 THEN v ELSE IF 1 < i /\ i <= 1 THEN st[i-1] ELSE st[i]
      OBVIOUS
    <3>2. g[i] = IF i = 1 THEN v ELSE st[i]
      OBVIOUS
    <3> HIDE DEF f, g
    <3> QED
      BY <3>1, <3>2
  <2>3. f = [i \in 1..10 |-> f[i]] /\ g = [i \in 1..10 |-> g[i]]
    OBVIOUS
  <2> HIDE DEF f, g
  <2>4. f = g
    BY <2>1, <2>2, <2>3
  <2> QED
    BY <2>4 DEF f, g
<1> QED
  BY <1>1, <1>2, <1>3 DEF SortedAssign

(* A value that is in the set is not added again.                           *)
LEMMA AddSame ==
  ASSUME NEW st, NEW len, NEW v, \E i \in 1..len : st[i] = v
  PROVE  SortedAssign(st, len, v) = [st |-> st, len |-> len]
  BY DEF SortedAssign

(* A second value that comes after the first goes to the second place.      *)
LEMMA AddSecond ==
  ASSUME NEW st \in [1..10 -> STRING \cup Word], NEW len, len = 1, NEW v, st[1] # v,
         Rank(st[1]) < Rank(v)
  PROVE  SortedAssign(st, len, v) = [st |-> [st EXCEPT ![2] = v], len |-> 2]
<1>1. {i \in 1..len : Rank(st[i]) < Rank(v)} = {1} /\ ~(\E i \in 1..len : st[i] = v)
  OBVIOUS
<1>2. Cardinality({i \in 1..len : Rank(st[i]) < Rank(v)}) = 1
  BY <1>1, FS_Singleton
<1>3. [i \in 1..10 |-> IF i = 2 THEN v ELSE IF 2 < i /\ i <= 2 THEN st[i-1] ELSE st[i]]
        = [st EXCEPT ![2] = v]
  <2> DEFINE f == [i \in 1..10 |-> IF i = 2 THEN v ELSE IF 2 < i /\ i <= 2 THEN st[i-1] ELSE st[i]]
             g == [st EXCEPT ![2] = v]
  <2>1. DOMAIN f = 1..10 /\ DOMAIN g = 1..10
    OBVIOUS
  <2>2. \A i \in 1..10 : f[i] = g[i]
    <3> SUFFICES ASSUME NEW i \in 1..10 PROVE f[i] = g[i]
      OBVIOUS
    <3>1. f[i] = IF i = 2 THEN v ELSE IF 2 < i /\ i <= 2 THEN st[i-1] ELSE st[i]
      OBVIOUS
    <3>2. g[i] = IF i = 2 THEN v ELSE st[i]
      OBVIOUS
    <3> HIDE DEF f, g
    <3> QED
      BY <3>1, <3>2
  <2>3. f = [i \in 1..10 |-> f[i]] /\ g = [i \in 1..10 |-> g[i]]
    OBVIOUS
  <2> HIDE DEF f, g
  <2>4. f = g
    BY <2>1, <2>2, <2>3
  <2> QED
    BY <2>4 DEF f, g
<1> QED
  BY <1>1, <1>2, <1>3 DEF SortedAssign

(* One that comes before it goes to the first place, and the other is lost: *)
(* the two arrays share a buffer.                                           *)
LEMMA AddBefore ==
  ASSUME NEW st \in [1..10 -> STRING \cup Word], NEW len, len = 1, NEW v, st[1] # v,
         ~(Rank(st[1]) < Rank(v))
  PROVE  SortedAssign(st, len, v) = [st |-> [st EXCEPT ![1] = v, ![2] = st[1]], len |-> 2]
<1>1. {i \in 1..len : Rank(st[i]) < Rank(v)} = {} /\ ~(\E i \in 1..len : st[i] = v)
  OBVIOUS
<1>2. Cardinality({i \in 1..len : Rank(st[i]) < Rank(v)}) = 0
  BY <1>1, FS_EmptySet
<1>3. [i \in 1..10 |-> IF i = 1 THEN v ELSE IF 1 < i /\ i <= 2 THEN st[i-1] ELSE st[i]]
        = [st EXCEPT ![1] = v, ![2] = st[1]]
  <2> DEFINE f == [i \in 1..10 |-> IF i = 1 THEN v ELSE IF 1 < i /\ i <= 2 THEN st[i-1] ELSE st[i]]
             g == [st EXCEPT ![1] = v, ![2] = st[1]]
  <2>1. DOMAIN f = 1..10 /\ DOMAIN g = 1..10
    OBVIOUS
  <2>2. \A i \in 1..10 : f[i] = g[i]
    <3> SUFFICES ASSUME NEW i \in 1..10 PROVE f[i] = g[i]
      OBVIOUS
    <3>1. f[i] = IF i = 1 THEN v ELSE IF 1 < i /\ i <= 2 THEN st[i-1] ELSE st[i]
      OBVIOUS
    <3>2. g[i] = IF i = 1 THEN v ELSE IF i = 2 THEN st[1] ELSE st[i]
      OBVIOUS
    <3> HIDE DEF f, g
    <3> QED
      BY <3>1, <3>2
  <2>3. f = [i \in 1..10 |-> f[i]] /\ g = [i \in 1..10 |-> g[i]]
    OBVIOUS
  <2> HIDE DEF f, g
  <2>4. f = g
    BY <2>1, <2>2, <2>3
  <2> QED
    BY <2>4 DEF f, g
<1> QED
  BY <1>1, <1>2, <1>3 DEF SortedAssign

(* It stays an array of words.                                              *)
LEMMA AddTyped ==
  ASSUME NEW a \in Memory, NEW v \in Word
  PROVE  SortedAssign(a.st, a.len, v) \in Memory
<1>1. a.st \in [1..10 -> STRING \cup Word] /\ a.len \in Nat
  BY DEF Memory
<1> DEFINE S == {i \in 1..a.len : Rank(a.st[i]) < Rank(v)}
<1>2. Cardinality(S) \in Nat
  <2>1. IsFiniteSet(1..a.len)
    BY <1>1, FS_Interval
  <2>2. IsFiniteSet(S)
    BY <2>1, FS_Subset
  <2> HIDE DEF S
  <2> QED
    BY <2>2, FS_CardinalityType
<1> DEFINE at == 1 + Cardinality(S)
<1>3. at \in Nat \ {0}
  BY <1>2
<1>4. SortedAssign(a.st, a.len, v) =
        IF \E i \in 1..a.len : a.st[i] = v THEN [st |-> a.st, len |-> a.len]
        ELSE [st  |-> [i \in DOMAIN a.st |-> IF i = at THEN v
                                             ELSE IF at < i /\ i <= a.len + 1 THEN a.st[i-1]
                                             ELSE a.st[i]],
              len |-> a.len + 1]
  BY DEF SortedAssign
<1> HIDE DEF at
<1>5. [i \in DOMAIN a.st |-> IF i = at THEN v
                             ELSE IF at < i /\ i <= a.len + 1 THEN a.st[i-1]
                             ELSE a.st[i]] \in [1..10 -> STRING \cup Word]
  <2> SUFFICES ASSUME NEW i \in 1..10
               PROVE  (IF i = at THEN v ELSE IF at < i /\ i <= a.len + 1 THEN a.st[i-1] ELSE a.st[i])
                        \in STRING \cup Word
    BY <1>1
  <2>1. at < i => i - 1 \in 1..10
    BY <1>3
  <2> QED
    BY <1>1, <2>1
<1> QED
  BY <1>1, <1>4, <1>5 DEF Memory

-----------------------------------------------------------------------------
(* The folds of dedup_tfiles, step by step.                                 *)
ArchStep(a, f) ==
  IF f.target.arch = "any" THEN a ELSE SortedAssign(a.st, a.len, f.target.arch)

ArchOp == [y \in Memory \X Entry |-> ArchStep(y[1], y[2])]

NoArchs == [st |-> ArraySt, len |-> 0]

(* The folds stay within arrays of words, so that the lemmas about folds    *)
(* apply.                                                                   *)
LEMMA ArchTyped ==
  /\ ArchOp \in [Memory \X Entry -> Memory] /\ NoArchs \in Memory
  /\ \A a \in Memory, f \in Entry : ArchOp[<<a, f>>] = ArchStep(a, f)
<1>1. ASSUME NEW a \in Memory, NEW f \in Entry PROVE ArchStep(a, f) \in Memory
  <2>1. f.target.arch \in Word
    BY DEF Entry, target_t
  <2> QED
    BY <2>1, AddTyped DEF ArchStep
<1>2. NoArchs \in Memory
  <2>1. ArraySt \in [1..10 -> STRING \cup Word]
    BY WordsApart DEF ArraySt
  <2> QED
    BY <2>1 DEF NoArchs, Memory
<1> QED
  BY <1>1, <1>2 DEF ArchOp

(* FoldLeft over the files is the step along them.                          *)
LEMMA ArchAlong ==
  ASSUME NEW s \in Seq(Entry)
  PROVE  ArchArray(s) = Along(ArchOp, NoArchs, s)
<1> DEFINE n == Len(s)
           base == NoArchs
           Body(f, t) == IF t = {} THEN base ELSE ArchStep(f[t \ {Max(t)}], s[Max(t)])
           it == CHOOSE f : f = [t \in SUBSET DOMAIN s |-> Body(f, t)]
<1>1. DOMAIN s = 1..n /\ n \in Nat /\ \A k \in 1..n : s[k] \in Entry
  BY LenProperties, ElementOfSeq
<1>2. ArchArray(s) = it[DOMAIN s]
  BY DEF ArchArray, FoldLeft, MapThenFoldSet, ArchStep, NoArchs
<1>3. /\ ArchOp \in [Memory \X Entry -> Memory] /\ base \in Memory
      /\ \A a \in Memory, c \in Entry : ArchOp[<<a, c>>] = ArchStep(a, c)
  BY ArchTyped
<1> HIDE DEF base
<1>4. PICK f \in [SUBSET (1..n) -> Memory] : Iterates(f, ArchOp, base, s)
  BY <1>3, IterExists
<1>5. \A t \in SUBSET (1..n) : f[t] = Body(f, t)
  <2> SUFFICES ASSUME NEW t \in SUBSET (1..n), t # {} PROVE f[t] = Body(f, t)
    BY <1>4 DEF Iterates
  <2>1. Max(t) = Greatest(t) /\ Max(t) \in t
    BY <1>1, GreatestOf DEF Max, Greatest
  <2>2. f[t \ {Max(t)}] \in Memory /\ s[Max(t)] \in Entry
    BY <1>1, <2>1
  <2> QED
    BY <1>3, <1>4, <2>1, <2>2 DEF Iterates
<1>6. \A t \in SUBSET (1..n) : it[t] = Body(it, t)
  <2> HIDE DEF Body
  <2>1. f = [t \in SUBSET DOMAIN s |-> Body(f, t)]
    BY <1>1, <1>5
  <2>2. it = [t \in SUBSET DOMAIN s |-> Body(it, t)]
    BY <2>1
  <2> HIDE DEF it
  <2> QED
    BY <1>1, <2>2
<1> HIDE DEF it
<1>7. IteratesIn(Memory, it, ArchOp, base, s)
  <2>1. it[{}] = base
    BY <1>6
  <2>2. ASSUME NEW t \in SUBSET (1..n), t # {}, it[t \ {Greatest(t)}] \in Memory
        PROVE  it[t] = ArchOp[<<it[t \ {Greatest(t)}], s[Greatest(t)]>>]
    <3>1. Max(t) = Greatest(t) /\ Max(t) \in t
      BY <1>1, <2>2, GreatestOf DEF Max, Greatest
    <3>2. it[t] = Body(it, t) /\ s[Greatest(t)] \in Entry
      BY <1>1, <1>6, <2>2, <3>1
    <3> QED
      BY <1>3, <2>2, <3>1, <3>2
  <2> QED
    BY <2>1, <2>2 DEF IteratesIn
<1>8. it[1..n] = Along(ArchOp, base, s)
  <2>1. IterLaw(Memory, Entry, it, ArchOp, base, s)
    BY <1>3, <1>7, IterAlong
  <2> QED
    BY <2>1 DEF IterLaw
<1> QED
  BY <1>1, <1>2, <1>8 DEF base

(* The versions a set of files is expected to cover.                        *)
Systems(files) == {files[i].target.sys : i \in DOMAIN files} \ {"any"}

VersionStep(files, a, t) ==
  IF /\ t.sys \in Systems(files)
     /\ \/ ArchArray(files).len = 0
        \/ \E j \in 1..ArchArray(files).len : a.st[j] = t.arch
     /\ t.sysver # ""
  THEN SortedAssign(a.st, a.len, t.sysver) ELSE a

VersionOp(files) == [y \in Memory \X target_t |-> VersionStep(files, y[1], y[2])]

NoVersions(files) == [st |-> ArchArray(files).st, len |-> 0]

(* There are nine supported targets with a version, written out.            *)
LEMMA SupportedIs ==
  /\ SupportedTargets \in Seq(target_t) /\ Len(SupportedTargets) = 9
  /\ SupportedTargets[1] = TargetT("aarch64", "linux", "", "")
  /\ SupportedTargets[2] = TargetT("x86_64", "linux", "", "")
  /\ SupportedTargets[3] = TargetT("aarch64", "macos", "11", "")
  /\ SupportedTargets[4] = TargetT("aarch64", "macos", "12", "")
  /\ SupportedTargets[5] = TargetT("aarch64", "macos", "13", "")
  /\ SupportedTargets[6] = TargetT("x86_64", "macos", "10", "")
  /\ SupportedTargets[7] = TargetT("x86_64", "macos", "11", "")
  /\ SupportedTargets[8] = TargetT("x86_64", "macos", "12", "")
  /\ SupportedTargets[9] = TargetT("x86_64", "macos", "13", "")
<1> DEFINE s == SupportedTargets
<1>1. /\ DOMAIN s = 1..9 /\ Len(s) = 9
      /\ s[1] = TargetT("aarch64", "linux", "", "")
      /\ s[2] = TargetT("x86_64", "linux", "", "")
      /\ s[3] = TargetT("aarch64", "macos", "11", "")
      /\ s[4] = TargetT("aarch64", "macos", "12", "")
      /\ s[5] = TargetT("aarch64", "macos", "13", "")
      /\ s[6] = TargetT("x86_64", "macos", "10", "")
      /\ s[7] = TargetT("x86_64", "macos", "11", "")
      /\ s[8] = TargetT("x86_64", "macos", "12", "")
      /\ s[9] = TargetT("x86_64", "macos", "13", "")
      /\ s = [i \in 1..9 |-> s[i]]
  BY DEF SupportedTargets
<1>2. /\ "linux" \in Word /\ "12" \in Word /\ "13" \in Word
  <2>1. /\ StrOrder[4] = "12" /\ StrOrder[5] = "13" /\ StrOrder[11] = "linux" /\ DOMAIN StrOrder = 1..16
    BY DEF StrOrder
  <2>2. 4 \in 1..16 /\ 5 \in 1..16 /\ 11 \in 1..16
    OBVIOUS
  <2> QED
    BY <2>1, <2>2 DEF Word
<1>3. \A i \in 1..9 : s[i] \in target_t
  <2> SUFFICES ASSUME NEW i \in 1..9 PROVE s[i] \in target_t
    OBVIOUS
  <2>1. i = 1 \/ i = 2 \/ i = 3 \/ i = 4 \/ i = 5 \/ i = 6 \/ i = 7 \/ i = 8 \/ i = 9
    OBVIOUS
  <2>3. "aarch64" \in Word /\ "x86_64" \in Word /\ "macos" \in Word /\ "10" \in Word
        /\ "11" \in Word /\ "" \in Word
    BY WordsApart
  <2> HIDE DEF s
  <2> DEFINE arm == "aarch64"
             intel == "x86_64"
             lin == "linux"
             mac == "macos"
             v10 == "10"
             v11 == "11"
             v12 == "12"
             v13 == "13"
             none == ""
  <2>5. /\ s[1] = TargetT(arm, lin, none, none) /\ s[2] = TargetT(intel, lin, none, none)
        /\ s[3] = TargetT(arm, mac, v11, none) /\ s[4] = TargetT(arm, mac, v12, none)
        /\ s[5] = TargetT(arm, mac, v13, none) /\ s[6] = TargetT(intel, mac, v10, none)
        /\ s[7] = TargetT(intel, mac, v11, none) /\ s[8] = TargetT(intel, mac, v12, none)
        /\ s[9] = TargetT(intel, mac, v13, none)
    BY <1>1
  <2>6. /\ arm \in Word /\ intel \in Word /\ lin \in Word /\ mac \in Word /\ v10 \in Word
        /\ v11 \in Word /\ v12 \in Word /\ v13 \in Word /\ none \in Word
    BY <1>2, <2>3
  <2> HIDE DEF arm, intel, lin, mac, v10, v11, v12, v13, none
  <2>7. \A a, b, c, d \in Word : TargetT(a, b, c, d) \in target_t
    BY DEF TargetT, target_t
  <2>4. /\ s[1] \in target_t /\ s[2] \in target_t /\ s[3] \in target_t
        /\ s[4] \in target_t /\ s[5] \in target_t /\ s[6] \in target_t
        /\ s[7] \in target_t /\ s[8] \in target_t /\ s[9] \in target_t
    BY <2>5, <2>6, <2>7
  <2> QED
    BY <2>1, <2>4
<1> HIDE DEF s
<1>4. s \in Seq(target_t)
  <2> DEFINE nine == 9
  <2>1. nine \in Nat /\ (\A i \in 1..nine : s[i] \in target_t) /\ s = [i \in 1..nine |-> s[i]]
    BY <1>1, <1>3
  <2> HIDE DEF nine
  <2>2. [i \in 1..nine |-> s[i]] \in Seq(target_t)
    BY <2>1
  <2> QED
    BY <2>1, <2>2
<1> QED
  BY <1>1, <1>4 DEF s

(* The array of versions stays an array of words.                           *)
LEMMA VersionTyped ==
  ASSUME NEW files \in Seq(Entry)
  PROVE  /\ VersionOp(files) \in [Memory \X target_t -> Memory] /\ NoVersions(files) \in Memory
         /\ \A a \in Memory, t \in target_t : VersionOp(files)[<<a, t>>] = VersionStep(files, a, t)
<1>1. ASSUME NEW a \in Memory, NEW t \in target_t PROVE VersionStep(files, a, t) \in Memory
  <2>1. t.sysver \in Word
    BY DEF target_t
  <2>2. SortedAssign(a.st, a.len, t.sysver) \in Memory
    BY <2>1, AddTyped
  <2> QED
    BY <2>2 DEF VersionStep
<1>2. NoVersions(files) \in Memory
  <2>1. Along(ArchOp, NoArchs, files) \in Memory
    <3>1. Stepwise(Memory, ArchOp, NoArchs, files)
      BY ArchTyped, AlongFollows
    <3>2. Len(files) \in 0..Len(files)
      BY LenProperties
    <3> QED
      BY <3>1, <3>2 DEF Stepwise
  <2>2. ArchArray(files) \in Memory
    BY <2>1, ArchAlong
  <2> QED
    BY <2>2 DEF NoVersions, Memory
<1> QED
  BY <1>1, <1>2 DEF VersionOp

(* FoldLeft over the supported targets is the step along them.              *)
LEMMA VersionsAlong ==
  ASSUME NEW files \in Seq(Entry)
  PROVE  Versions(files) =
           LET v == Along(VersionOp(files), NoVersions(files), SupportedTargets)
           IN {v.st[i] : i \in 1..v.len}
<1> DEFINE s == SupportedTargets
           n == Len(s)
           base == NoVersions(files)
           op == VersionOp(files)
           Body(f, t) == IF t = {} THEN base ELSE VersionStep(files, f[t \ {Max(t)}], s[Max(t)])
           it == CHOOSE f : f = [t \in SUBSET DOMAIN s |-> Body(f, t)]
<1>0. s \in Seq(target_t)
  BY SupportedIs
<1>1. DOMAIN s = 1..n /\ n \in Nat /\ \A k \in 1..n : s[k] \in target_t
  BY <1>0, LenProperties, ElementOfSeq
<1>2. Versions(files) = {it[DOMAIN s].st[i] : i \in 1..it[DOMAIN s].len}
  BY DEF Versions, FoldLeft, MapThenFoldSet, VersionStep, NoVersions, Systems
<1>3. /\ op \in [Memory \X target_t -> Memory] /\ base \in Memory
      /\ \A a \in Memory, c \in target_t : op[<<a, c>>] = VersionStep(files, a, c)
  BY VersionTyped
<1> HIDE DEF base, op, s
<1>4. PICK f \in [SUBSET (1..n) -> Memory] : Iterates(f, op, base, s)
  BY <1>0, <1>3, IterExists
<1>5. \A t \in SUBSET (1..n) : f[t] = Body(f, t)
  <2> SUFFICES ASSUME NEW t \in SUBSET (1..n), t # {} PROVE f[t] = Body(f, t)
    BY <1>4 DEF Iterates
  <2>1. Max(t) = Greatest(t) /\ Max(t) \in t
    BY <1>1, GreatestOf DEF Max, Greatest
  <2>2. f[t \ {Max(t)}] \in Memory /\ s[Max(t)] \in target_t
    BY <1>1, <2>1
  <2> QED
    BY <1>3, <1>4, <2>1, <2>2 DEF Iterates
<1>6. \A t \in SUBSET (1..n) : it[t] = Body(it, t)
  <2> HIDE DEF Body
  <2>1. f = [t \in SUBSET DOMAIN s |-> Body(f, t)]
    BY <1>1, <1>5
  <2>2. it = [t \in SUBSET DOMAIN s |-> Body(it, t)]
    BY <2>1
  <2> HIDE DEF it
  <2> QED
    BY <1>1, <2>2
<1> HIDE DEF it
<1>7. IteratesIn(Memory, it, op, base, s)
  <2>1. it[{}] = base
    BY <1>6
  <2>2. ASSUME NEW t \in SUBSET (1..n), t # {}, it[t \ {Greatest(t)}] \in Memory
        PROVE  it[t] = op[<<it[t \ {Greatest(t)}], s[Greatest(t)]>>]
    <3>1. Max(t) = Greatest(t) /\ Max(t) \in t
      BY <1>1, <2>2, GreatestOf DEF Max, Greatest
    <3>2. it[t] = Body(it, t) /\ s[Greatest(t)] \in target_t
      BY <1>1, <1>6, <2>2, <3>1
    <3> QED
      BY <1>3, <2>2, <3>1, <3>2
  <2> QED
    BY <2>1, <2>2 DEF IteratesIn
<1>8. it[1..n] = Along(op, base, s)
  <2>1. IterLaw(Memory, target_t, it, op, base, s)
    BY <1>0, <1>3, <1>7, IterAlong
  <2> QED
    BY <2>1 DEF IterLaw
<1> QED
  BY <1>1, <1>2, <1>8 DEF base, op, s

-----------------------------------------------------------------------------
(* One more value in an array of none or one.                               *)
LEMMA AddWord ==
  ASSUME NEW m \in Memory, NEW x, NEW n, n = SortedAssign(m.st, m.len, x)
  PROVE  /\ m.len = 0 => n.len = 1 /\ n.st[1] = x
         /\ m.len = 1 /\ m.st[1] # x /\ Rank(m.st[1]) < Rank(x) =>
              n.len = 2 /\ n.st[1] = m.st[1] /\ n.st[2] = x
         /\ m.len = 1 /\ m.st[1] # x /\ ~(Rank(m.st[1]) < Rank(x)) =>
              n.len = 2 /\ n.st[1] = x /\ n.st[2] = m.st[1]
<1> DEFINE st == m.st
           len == m.len
<1>1. st \in [1..10 -> STRING \cup Word] /\ n = SortedAssign(st, len, x)
  BY DEF Memory
<1> HIDE DEF st, len
<1>2. len = 0 => n.len = 1 /\ n.st[1] = x
  <2> SUFFICES ASSUME len = 0 PROVE n.len = 1 /\ n.st[1] = x
    OBVIOUS
  <2>1. n = [st |-> [st EXCEPT ![1] = x], len |-> 1]
    BY <1>1, AddFirst
  <2> QED
    BY <1>1, <2>1
<1>3. len = 1 /\ st[1] # x /\ Rank(st[1]) < Rank(x) => n.len = 2 /\ n.st[1] = st[1] /\ n.st[2] = x
  <2> SUFFICES ASSUME len = 1, st[1] # x, Rank(st[1]) < Rank(x)
               PROVE  n.len = 2 /\ n.st[1] = st[1] /\ n.st[2] = x
    OBVIOUS
  <2>1. n = [st |-> [st EXCEPT ![2] = x], len |-> 2]
    BY <1>1, AddSecond
  <2> QED
    BY <1>1, <2>1
<1>4. len = 1 /\ st[1] # x /\ ~(Rank(st[1]) < Rank(x)) => n.len = 2 /\ n.st[1] = x /\ n.st[2] = st[1]
  <2> SUFFICES ASSUME len = 1, st[1] # x, ~(Rank(st[1]) < Rank(x))
               PROVE  n.len = 2 /\ n.st[1] = x /\ n.st[2] = st[1]
    OBVIOUS
  <2>1. n = [st |-> [st EXCEPT ![1] = x, ![2] = st[1]], len |-> 2]
    BY <1>1, AddBefore
  <2> QED
    BY <1>1, <2>1
<1> QED
  BY <1>2, <1>3, <1>4 DEF st, len

(* The array of architectures of files of one architecture, and of two.     *)
LEMMA OneArray ==
  ASSUME NEW files \in Seq(Entry), Len(files) >= 1, NEW arch, arch # "any",
         \A i \in DOMAIN files : files[i].target.arch = arch
  PROVE  ArchArray(files) \in Memory /\ ArchArray(files).len = 1 /\ ArchArray(files).st[1] = arch
<1>1. DOMAIN files = 1..Len(files) /\ Len(files) \in Nat /\ \A i \in 1..Len(files) : files[i] \in Entry
  BY LenProperties
<1>2. PICK g \in [0..Len(files) -> Memory] :
        Follows(g, ArchOp, NoArchs, files) /\ Along(ArchOp, NoArchs, files) = g[Len(files)]
  <2>1. Stepwise(Memory, ArchOp, NoArchs, files)
    BY ArchTyped, AlongFollows
  <2> QED
    BY <2>1 DEF Stepwise
<1> DEFINE P(k) == g[k].len = 1 /\ g[k].st[1] = arch
           Good == {k \in Nat : k + 1 <= Len(files) => P(k + 1)}
<1>3. \A k \in 1..Len(files) : g[k] = ArchStep(g[k - 1], files[k])
  <2> SUFFICES ASSUME NEW k \in 1..Len(files) PROVE g[k] = ArchStep(g[k - 1], files[k])
    OBVIOUS
  <2>1. g[k - 1] \in Memory
    BY <1>1, <1>2
  <2>2. g[k] = ArchOp[<<g[k - 1], files[k]>>]
    BY <1>2 DEF Follows
  <2> QED
    BY <1>1, <2>1, <2>2, ArchTyped
<1>4. 0 \in Good
  <2>1. g[1] = SortedAssign(g[0].st, g[0].len, arch) /\ g[0] = NoArchs
    BY <1>1, <1>2, <1>3 DEF ArchStep, Follows
  <2>2. g[0].st = ArraySt /\ g[0].len = 0
    BY <2>1 DEF NoArchs
  <2>3. g[0].st \in [1..10 -> STRING \cup Word]
    BY <1>1, <1>2 DEF Memory
  <2>4. g[1] = [st |-> [g[0].st EXCEPT ![1] = arch], len |-> 1]
    BY <2>1, <2>2, <2>3, AddFirst
  <2>5. P(1)
    BY <2>3, <2>4
  <2> QED
    BY <2>5
<1>5. ASSUME NEW k \in Nat, k \in Good PROVE k + 1 \in Good
  <2> SUFFICES ASSUME (k + 1) + 1 <= Len(files) PROVE P((k + 1) + 1)
    OBVIOUS
  <2>1. P(k + 1) /\ k + 1 \in 1..Len(files) /\ (k + 1) + 1 \in 1..Len(files)
    BY <1>1, <1>5
  <2>2. g[(k + 1) + 1] = ArchStep(g[k + 1], files[(k + 1) + 1])
    <3>1. ((k + 1) + 1) - 1 = k + 1
      OBVIOUS
    <3> QED
      BY <1>3, <2>1, <3>1
  <2> DEFINE m == g[k + 1]
  <2>3. \E i \in 1..m.len : m.st[i] = arch
    BY <2>1
  <2>4. ArchStep(m, files[(k + 1) + 1]) = SortedAssign(m.st, m.len, arch)
    BY <1>1, <2>1 DEF ArchStep
  <2> HIDE DEF m
  <2>5. g[(k + 1) + 1] = [st |-> m.st, len |-> m.len]
    BY <2>2, <2>3, <2>4, AddSame DEF m
  <2> QED
    BY <2>1, <2>5 DEF m
<1>6. \A k \in Nat : k \in Good
  <2> HIDE DEF Good
  <2> QED
    BY <1>4, <1>5, NatInd
<1>7. P(Len(files))
  <2>1. Len(files) - 1 \in Nat /\ (Len(files) - 1) + 1 = Len(files)
    BY <1>1
  <2>2. Len(files) - 1 \in Good
    BY <1>6, <2>1
  <2> QED
    BY <1>1, <2>1, <2>2
<1>8. g[Len(files)] \in Memory
  BY <1>1, <1>2
<1> QED
  BY <1>2, <1>7, <1>8, ArchAlong

(* The array of two architectures holds both, in their order.               *)
LEMMA TwoArray ==
  ASSUME NEW files \in Seq(Entry), NEW a, NEW b, a # "any", b # "any", a # b,
         Rank(a) \in Int, Rank(b) \in Int, Rank(a) < Rank(b),
         \A i \in DOMAIN files : files[i].target.arch \in {a, b},
         \E i \in DOMAIN files : files[i].target.arch = a,
         \E i \in DOMAIN files : files[i].target.arch = b
  PROVE  /\ ArchArray(files) \in Memory /\ ArchArray(files).len = 2
         /\ ArchArray(files).st[1] = a /\ ArchArray(files).st[2] = b
<1>1. DOMAIN files = 1..Len(files) /\ Len(files) \in Nat /\ \A i \in 1..Len(files) : files[i] \in Entry
  BY LenProperties
<1>2. PICK g \in [0..Len(files) -> Memory] :
        Follows(g, ArchOp, NoArchs, files) /\ Along(ArchOp, NoArchs, files) = g[Len(files)]
  <2>1. Stepwise(Memory, ArchOp, NoArchs, files)
    BY ArchTyped, AlongFollows
  <2> QED
    BY <2>1 DEF Stepwise
<1> DEFINE Seen(k, x) == \E i \in 1..k : files[i].target.arch = x
           P(k) == /\ ~Seen(k, a) /\ ~Seen(k, b) => g[k].len = 0
                   /\ Seen(k, a) /\ ~Seen(k, b) => g[k].len = 1 /\ g[k].st[1] = a
                   /\ ~Seen(k, a) /\ Seen(k, b) => g[k].len = 1 /\ g[k].st[1] = b
                   /\ Seen(k, a) /\ Seen(k, b) => g[k].len = 2 /\ g[k].st[1] = a /\ g[k].st[2] = b
           Good == {k \in Nat : k <= Len(files) => P(k)}
<1>3. \A k \in 1..Len(files) : g[k] = ArchStep(g[k - 1], files[k])
  <2> SUFFICES ASSUME NEW k \in 1..Len(files) PROVE g[k] = ArchStep(g[k - 1], files[k])
    OBVIOUS
  <2>1. g[k - 1] \in Memory
    BY <1>1, <1>2
  <2>2. g[k] = ArchOp[<<g[k - 1], files[k]>>]
    BY <1>2 DEF Follows
  <2> QED
    BY <1>1, <2>1, <2>2, ArchTyped
<1>4. 0 \in Good
  <2>1. ~Seen(0, a) /\ ~Seen(0, b)
    OBVIOUS
  <2>2. g[0].len = 0
    BY <1>2 DEF Follows, NoArchs
  <2> QED
    BY <2>1, <2>2
<1>5. ASSUME NEW k \in Nat, k \in Good PROVE k + 1 \in Good
  <2> SUFFICES ASSUME k + 1 <= Len(files) PROVE P(k + 1)
    OBVIOUS
  <2>1. P(k) /\ k + 1 \in 1..Len(files) /\ k \in 0..Len(files)
    BY <1>1, <1>5
  <2> DEFINE m == g[k]
             x == files[k + 1].target.arch
  <2>2. g[k + 1] = ArchStep(m, files[k + 1])
    <3>1. (k + 1) - 1 = k
      OBVIOUS
    <3> QED
      BY <1>3, <2>1, <3>1
  <2>3. x \in {a, b} /\ g[k + 1] = SortedAssign(m.st, m.len, x)
    BY <1>1, <2>1, <2>2 DEF ArchStep
  <2>4. m \in Memory
    BY <1>2, <2>1
  <2>5. \A y : Seen(k + 1, y) <=> Seen(k, y) \/ x = y
    <3>1. \A i : i \in 1..(k + 1) <=> i \in 1..k \/ i = k + 1
      OBVIOUS
    <3> QED
      BY <3>1
  <2>6. P(k)
    BY <2>1
  <2> HIDE DEF Seen, x, m
  <2>7. CASE ~Seen(k, a) /\ ~Seen(k, b)
    <3>1. m.len = 0
      BY <2>6, <2>7 DEF m
    <3>3. g[k + 1].len = 1 /\ g[k + 1].st[1] = x
      BY <2>3, <2>4, <3>1, AddWord
    <3> QED
      BY <2>3, <2>5, <2>7, <3>3
  <2>8. CASE Seen(k, x)
    <3>1. \E i \in 1..m.len : m.st[i] = x
      BY <2>3, <2>6, <2>8 DEF m
    <3>2. g[k + 1] = [st |-> m.st, len |-> m.len]
      BY <2>3, <3>1, AddSame
    <3>3. g[k + 1].st = m.st /\ g[k + 1].len = m.len
      BY <3>2
    <3>4. \A y : Seen(k + 1, y) <=> Seen(k, y)
      BY <2>5, <2>8
    <3> QED
      BY <2>6, <3>3, <3>4 DEF m
  <2>9. CASE x = b /\ Seen(k, a) /\ ~Seen(k, b)
    <3>1. m.len = 1 /\ m.st[1] = a
      BY <2>6, <2>9 DEF m
    <3>3. g[k + 1].len = 2 /\ g[k + 1].st[1] = a /\ g[k + 1].st[2] = b
      BY <2>3, <2>4, <2>9, <3>1, AddWord
    <3> QED
      BY <2>5, <2>9, <3>3
  <2>10. CASE x = a /\ Seen(k, b) /\ ~Seen(k, a)
    <3>1. m.len = 1 /\ m.st[1] = b
      BY <2>6, <2>10 DEF m
    <3>1a. ~(Rank(b) < Rank(a))
      OBVIOUS
    <3>3. g[k + 1].len = 2 /\ g[k + 1].st[1] = a /\ g[k + 1].st[2] = b
      BY <2>3, <2>4, <2>10, <3>1, <3>1a, AddWord
    <3> QED
      BY <2>5, <2>10, <3>3
  <2> QED
    BY <2>3, <2>7, <2>8, <2>9, <2>10
<1>6. \A k \in Nat : k \in Good
  <2> HIDE DEF Good
  <2> QED
    BY <1>4, <1>5, NatInd
<1>7. P(Len(files))
  <2>1. Len(files) \in Good
    BY <1>1, <1>6
  <2> QED
    BY <1>1, <2>1
<1>8. Seen(Len(files), a) /\ Seen(Len(files), b)
  BY <1>1
<1>9. g[Len(files)] \in Memory
  BY <1>1, <1>2
<1> QED
  BY <1>2, <1>7, <1>8, <1>9, ArchAlong

-----------------------------------------------------------------------------
(* The versions are collected in nine steps, one per supported target.      *)
Collects(files, h) ==
  /\ h[0] = NoVersions(files)
  /\ h[1] = VersionStep(files, h[0], SupportedTargets[1])
  /\ h[2] = VersionStep(files, h[1], SupportedTargets[2])
  /\ h[3] = VersionStep(files, h[2], SupportedTargets[3])
  /\ h[4] = VersionStep(files, h[3], SupportedTargets[4])
  /\ h[5] = VersionStep(files, h[4], SupportedTargets[5])
  /\ h[6] = VersionStep(files, h[5], SupportedTargets[6])
  /\ h[7] = VersionStep(files, h[6], SupportedTargets[7])
  /\ h[8] = VersionStep(files, h[7], SupportedTargets[8])
  /\ h[9] = VersionStep(files, h[8], SupportedTargets[9])
  /\ Versions(files) = {h[9].st[i] : i \in 1..h[9].len}

(* What dedup_tfiles expects is what the nine steps collect.                *)
LEMMA VersionsCollected ==
  ASSUME NEW files \in Seq(Entry)
  PROVE  \E h \in [0..9 -> Memory] : Collects(files, h)
<1> DEFINE s == SupportedTargets
           base == NoVersions(files)
           op == VersionOp(files)
<1>1. s \in Seq(target_t) /\ Len(s) = 9
  BY SupportedIs
<1>2. /\ op \in [Memory \X target_t -> Memory] /\ base \in Memory
      /\ \A a \in Memory, c \in target_t : op[<<a, c>>] = VersionStep(files, a, c)
  BY VersionTyped
<1>3. Versions(files) = {Along(op, base, s).st[i] : i \in 1..Along(op, base, s).len}
  BY VersionsAlong
<1> HIDE DEF s, base, op
<1>4. PICK h \in [0..Len(s) -> Memory] : Follows(h, op, base, s) /\ Along(op, base, s) = h[Len(s)]
  <2>1. Stepwise(Memory, op, base, s)
    BY <1>1, <1>2, AlongFollows
  <2> QED
    BY <2>1 DEF Stepwise
<1>5. h \in [0..9 -> Memory] /\ h[0] = base
  BY <1>1, <1>4 DEF Follows
<1>6. ASSUME NEW k \in 1..9, NEW j, j = k - 1 PROVE h[k] = VersionStep(files, h[j], s[k])
  <2>1. h[k] = op[<<h[k - 1], s[k]>>]
    BY <1>1, <1>4 DEF Follows
  <2>2. j \in 0..9
    BY <1>6
  <2>3. s[k] \in target_t
    BY <1>1, LenProperties, ElementOfSeq
  <2>4. h[j] \in Memory
    BY <1>5, <2>2
  <2> QED
    BY <1>2, <1>6, <2>1, <2>3, <2>4
<1>7. Versions(files) = {h[9].st[i] : i \in 1..h[9].len}
  BY <1>1, <1>3, <1>4
<1>8. h[1] = VersionStep(files, h[0], s[1])
  BY <1>6
<1>9. h[2] = VersionStep(files, h[1], s[2])
  BY <1>6
<1>10. h[3] = VersionStep(files, h[2], s[3])
  BY <1>6
<1>11. h[4] = VersionStep(files, h[3], s[4])
  BY <1>6
<1>12. h[5] = VersionStep(files, h[4], s[5])
  BY <1>6
<1>13. h[6] = VersionStep(files, h[5], s[6])
  BY <1>6
<1>14. h[7] = VersionStep(files, h[6], s[7])
  BY <1>6
<1>15. h[8] = VersionStep(files, h[7], s[8])
  BY <1>6
<1>16. h[9] = VersionStep(files, h[8], s[9])
  BY <1>6
<1> QED
  BY <1>5, <1>7, <1>8, <1>9, <1>10, <1>11, <1>12, <1>13, <1>14, <1>15, <1>16 DEF Collects, s, base

(* A step adds the version of a target that matches, and no other.          *)
Matching(files, a, t) ==
  /\ t.sys \in Systems(files)
  /\ \/ ArchArray(files).len = 0
     \/ \E j \in 1..ArchArray(files).len : a.st[j] = t.arch
  /\ t.sysver # ""

(* A target that does not match changes nothing.                            *)
LEMMA StepMatching ==
  ASSUME NEW files, NEW a, NEW t
  PROVE  /\ ~Matching(files, a, t) => VersionStep(files, a, t) = a
         /\ Matching(files, a, t) => VersionStep(files, a, t) = SortedAssign(a.st, a.len, t.sysver)
  BY DEF VersionStep, Matching

(* The architectures, systems and versions of the supported targets.        *)
LEMMA SupportedAre ==
  /\ SupportedTargets[1].arch = "aarch64" /\ SupportedTargets[1].sys = "linux"
     /\ SupportedTargets[1].sysver = "" /\ SupportedTargets[1].suffix = ""
  /\ SupportedTargets[2].arch = "x86_64" /\ SupportedTargets[2].sys = "linux"
     /\ SupportedTargets[2].sysver = "" /\ SupportedTargets[2].suffix = ""
  /\ SupportedTargets[3].arch = "aarch64" /\ SupportedTargets[3].sys = "macos"
     /\ SupportedTargets[3].sysver = "11" /\ SupportedTargets[3].suffix = ""
  /\ SupportedTargets[4].arch = "aarch64" /\ SupportedTargets[4].sys = "macos"
     /\ SupportedTargets[4].sysver = "12" /\ SupportedTargets[4].suffix = ""
  /\ SupportedTargets[5].arch = "aarch64" /\ SupportedTargets[5].sys = "macos"
     /\ SupportedTargets[5].sysver = "13" /\ SupportedTargets[5].suffix = ""
  /\ SupportedTargets[6].arch = "x86_64" /\ SupportedTargets[6].sys = "macos"
     /\ SupportedTargets[6].sysver = "10" /\ SupportedTargets[6].suffix = ""
  /\ SupportedTargets[7].arch = "x86_64" /\ SupportedTargets[7].sys = "macos"
     /\ SupportedTargets[7].sysver = "11" /\ SupportedTargets[7].suffix = ""
  /\ SupportedTargets[8].arch = "x86_64" /\ SupportedTargets[8].sys = "macos"
     /\ SupportedTargets[8].sysver = "12" /\ SupportedTargets[8].suffix = ""
  /\ SupportedTargets[9].arch = "x86_64" /\ SupportedTargets[9].sys = "macos"
     /\ SupportedTargets[9].sysver = "13" /\ SupportedTargets[9].suffix = ""
<1>1. /\ SupportedTargets[1].arch = "aarch64" /\ SupportedTargets[1].sys = "linux"
      /\ SupportedTargets[1].sysver = "" /\ SupportedTargets[1].suffix = ""
  BY DEF SupportedTargets, TargetT
<1>2. /\ SupportedTargets[2].arch = "x86_64" /\ SupportedTargets[2].sys = "linux"
      /\ SupportedTargets[2].sysver = "" /\ SupportedTargets[2].suffix = ""
  BY DEF SupportedTargets, TargetT
<1>3. /\ SupportedTargets[3].arch = "aarch64" /\ SupportedTargets[3].sys = "macos"
      /\ SupportedTargets[3].sysver = "11" /\ SupportedTargets[3].suffix = ""
  BY DEF SupportedTargets, TargetT
<1>4. /\ SupportedTargets[4].arch = "aarch64" /\ SupportedTargets[4].sys = "macos"
      /\ SupportedTargets[4].sysver = "12" /\ SupportedTargets[4].suffix = ""
  BY DEF SupportedTargets, TargetT
<1>5. /\ SupportedTargets[5].arch = "aarch64" /\ SupportedTargets[5].sys = "macos"
      /\ SupportedTargets[5].sysver = "13" /\ SupportedTargets[5].suffix = ""
  BY DEF SupportedTargets, TargetT
<1>6. /\ SupportedTargets[6].arch = "x86_64" /\ SupportedTargets[6].sys = "macos"
      /\ SupportedTargets[6].sysver = "10" /\ SupportedTargets[6].suffix = ""
  BY DEF SupportedTargets, TargetT
<1>7. /\ SupportedTargets[7].arch = "x86_64" /\ SupportedTargets[7].sys = "macos"
      /\ SupportedTargets[7].sysver = "11" /\ SupportedTargets[7].suffix = ""
  BY DEF SupportedTargets, TargetT
<1>8. /\ SupportedTargets[8].arch = "x86_64" /\ SupportedTargets[8].sys = "macos"
      /\ SupportedTargets[8].sysver = "12" /\ SupportedTargets[8].suffix = ""
  BY DEF SupportedTargets, TargetT
<1>9. /\ SupportedTargets[9].arch = "x86_64" /\ SupportedTargets[9].sys = "macos"
      /\ SupportedTargets[9].sysver = "13" /\ SupportedTargets[9].suffix = ""
  BY DEF SupportedTargets, TargetT
<1> QED
  BY <1>1, <1>2, <1>3, <1>4, <1>5, <1>6, <1>7, <1>8, <1>9

(* Without a system that has versions, none is expected.                    *)
LEMMA VersionsNone ==
  ASSUME NEW files \in Seq(Entry), "macos" \notin Systems(files)
  PROVE  Versions(files) = {}
<1>1. PICK h \in [0..9 -> Memory] : Collects(files, h)
  BY VersionsCollected
<1>2. \A a, t : t.sysver = "" \/ t.sys = "macos" => VersionStep(files, a, t) = a
  BY DEF VersionStep
<1>3. h[1] = h[0]
  BY <1>1, <1>2, SupportedAre, ZenonT(60) DEF Collects
<1>4. h[2] = h[1]
  BY <1>1, <1>2, SupportedAre, ZenonT(60) DEF Collects
<1>5. h[3] = h[2]
  BY <1>1, <1>2, SupportedAre, ZenonT(60) DEF Collects
<1>6. h[4] = h[3]
  BY <1>1, <1>2, SupportedAre, ZenonT(60) DEF Collects
<1>7. h[5] = h[4]
  BY <1>1, <1>2, SupportedAre, ZenonT(60) DEF Collects
<1>8. h[6] = h[5]
  BY <1>1, <1>2, SupportedAre, ZenonT(60) DEF Collects
<1>9. h[7] = h[6]
  BY <1>1, <1>2, SupportedAre, ZenonT(60) DEF Collects
<1>10. h[8] = h[7]
  BY <1>1, <1>2, SupportedAre, ZenonT(60) DEF Collects
<1>11. h[9] = h[8]
  BY <1>1, <1>2, SupportedAre, ZenonT(60) DEF Collects
<1>12. h[9].len = 0
  BY <1>1, <1>3, <1>4, <1>5, <1>6, <1>7, <1>8, <1>9, <1>10, <1>11 DEF Collects, NoVersions
<1> QED
  BY <1>1, <1>12 DEF Collects

(* The first two places of the array.                                       *)
FirstOf(a) == a.st[1]
SecondOf(a) == a.st[2]

(* The files of one architecture are to cover its first version.            *)
LEMMA VersionsOne ==
  ASSUME NEW files \in Seq(Entry), Len(files) >= 1, NEW arch \in {"aarch64", "x86_64"},
         \A i \in DOMAIN files : files[i].target.arch = arch /\ files[i].target.sys = "macos"
  PROVE  Versions(files) = {IF arch = "aarch64" THEN "11" ELSE "10"}
<1>1. PICK h \in [0..9 -> Memory] : Collects(files, h)
  BY VersionsCollected
<1>21. h[1] = VersionStep(files, h[0], SupportedTargets[1])
  BY <1>1 DEF Collects
<1>31. SupportedTargets[1].arch = "aarch64" /\ SupportedTargets[1].sys = "linux" /\ SupportedTargets[1].sysver = ""
  BY SupportedAre
<1>22. h[2] = VersionStep(files, h[1], SupportedTargets[2])
  BY <1>1 DEF Collects
<1>32. SupportedTargets[2].arch = "x86_64" /\ SupportedTargets[2].sys = "linux" /\ SupportedTargets[2].sysver = ""
  BY SupportedAre
<1>23. h[3] = VersionStep(files, h[2], SupportedTargets[3])
  BY <1>1 DEF Collects
<1>33. SupportedTargets[3].arch = "aarch64" /\ SupportedTargets[3].sys = "macos" /\ SupportedTargets[3].sysver = "11"
  BY SupportedAre
<1>24. h[4] = VersionStep(files, h[3], SupportedTargets[4])
  BY <1>1 DEF Collects
<1>34. SupportedTargets[4].arch = "aarch64" /\ SupportedTargets[4].sys = "macos" /\ SupportedTargets[4].sysver = "12"
  BY SupportedAre
<1>25. h[5] = VersionStep(files, h[4], SupportedTargets[5])
  BY <1>1 DEF Collects
<1>35. SupportedTargets[5].arch = "aarch64" /\ SupportedTargets[5].sys = "macos" /\ SupportedTargets[5].sysver = "13"
  BY SupportedAre
<1>26. h[6] = VersionStep(files, h[5], SupportedTargets[6])
  BY <1>1 DEF Collects
<1>36. SupportedTargets[6].arch = "x86_64" /\ SupportedTargets[6].sys = "macos" /\ SupportedTargets[6].sysver = "10"
  BY SupportedAre
<1>27. h[7] = VersionStep(files, h[6], SupportedTargets[7])
  BY <1>1 DEF Collects
<1>37. SupportedTargets[7].arch = "x86_64" /\ SupportedTargets[7].sys = "macos" /\ SupportedTargets[7].sysver = "11"
  BY SupportedAre
<1>28. h[8] = VersionStep(files, h[7], SupportedTargets[8])
  BY <1>1 DEF Collects
<1>38. SupportedTargets[8].arch = "x86_64" /\ SupportedTargets[8].sys = "macos" /\ SupportedTargets[8].sysver = "12"
  BY SupportedAre
<1>29. h[9] = VersionStep(files, h[8], SupportedTargets[9])
  BY <1>1 DEF Collects
<1>39. SupportedTargets[9].arch = "x86_64" /\ SupportedTargets[9].sys = "macos" /\ SupportedTargets[9].sysver = "13"
  BY SupportedAre
<1>2. "macos" \in Systems(files)
  <2>1. 1 \in DOMAIN files
    BY LenProperties
  <2> QED
    BY <2>1 DEF Systems
<1>3. ArchArray(files).len = 1 /\ FirstOf(ArchArray(files)) = arch
  BY OneArray DEF FirstOf
<1>4. h[0] \in Memory /\ h[2] \in Memory /\ h[5] \in Memory
  OBVIOUS
<1>6. h[0].len = 0 /\ FirstOf(h[0]) = arch
  BY <1>1, <1>3 DEF Collects, NoVersions, FirstOf, SecondOf
<1>7. \A a, t : Matching(files, a, t) <=> t.sys \in Systems(files) /\ FirstOf(a) = t.arch /\ t.sysver # ""
  BY <1>3 DEF Matching, FirstOf
<1>8. \A a, t : FirstOf(a) # t.arch \/ t.sysver = "" => VersionStep(files, a, t) = a
  BY <1>7, StepMatching
<1>9. ASSUME NEW a \in Memory, NEW t, t.sys = "macos", t.sysver # "", t.arch = FirstOf(a)
      PROVE  a.len = 0 => VersionStep(files, a, t).len = 1 /\ FirstOf(VersionStep(files, a, t)) = t.sysver
  <2> DEFINE n == VersionStep(files, a, t)
  <2>1. Matching(files, a, t)
    BY <1>2, <1>7, <1>9
  <2>2. n = SortedAssign(a.st, a.len, t.sysver)
    BY <2>1, StepMatching
  <2> HIDE DEF n
  <2> DEFINE v == t.sysver
  <2>3. n = SortedAssign(a.st, a.len, v)
    BY <2>2
  <2> HIDE DEF v
  <2> DEFINE st == a.st
             len == a.len
  <2>5. st \in [1..10 -> STRING \cup Word] /\ n = SortedAssign(st, len, v)
    BY <2>3 DEF Memory
  <2> HIDE DEF st, len
  <2>4. len = 0 => n.len = 1 /\ FirstOf(n) = v
    <3> SUFFICES ASSUME len = 0 PROVE n.len = 1 /\ FirstOf(n) = v
      OBVIOUS
    <3>1. n = [st |-> [st EXCEPT ![1] = v], len |-> 1]
      BY <2>5, AddFirst
    <3> QED
      BY <2>5, <3>1 DEF FirstOf
  <2> QED
    BY <2>4 DEF n, v, len
<1>10. h[1] = h[0]
  BY <1>8, <1>21, <1>31
<1>11. h[2] = h[0]
  <2>1. h[2] = h[1]
    BY <1>8, <1>22, <1>32
  <2> QED
    BY <1>10, <2>1
<1>12. CASE arch = "aarch64"
  <2>3. h[3].len = 1 /\ FirstOf(h[3]) = "11"
    BY <1>4, <1>6, <1>9, <1>11, <1>12, <1>23, <1>33, ZenonT(60)
  <2>4. h[4] = h[3] /\ h[4].len = 1 /\ FirstOf(h[4]) = "11"
    <3>1. h[4] = h[3]
      BY <1>8, <2>3, <1>24, <1>34
    <3> QED
      BY <2>3, <3>1
  <2>5. h[5] = h[4] /\ h[5].len = 1 /\ FirstOf(h[5]) = "11"
    <3>1. h[5] = h[4]
      BY <1>8, <2>4, <1>25, <1>35
    <3> QED
      BY <2>4, <3>1
  <2>6. h[6] = h[5] /\ h[6].len = 1 /\ FirstOf(h[6]) = "11"
    <3>1. h[6] = h[5]
      BY <1>8, <2>5, <1>26, <1>36
    <3> QED
      BY <2>5, <3>1
  <2>7. h[7] = h[6] /\ h[7].len = 1 /\ FirstOf(h[7]) = "11"
    <3>1. h[7] = h[6]
      BY <1>8, <2>6, <1>27, <1>37
    <3> QED
      BY <2>6, <3>1
  <2>8. h[8] = h[7] /\ h[8].len = 1 /\ FirstOf(h[8]) = "11"
    <3>1. h[8] = h[7]
      BY <1>8, <2>7, <1>28, <1>38
    <3> QED
      BY <2>7, <3>1
  <2>9. h[9] = h[8] /\ h[9].len = 1 /\ FirstOf(h[9]) = "11"
    <3>1. h[9] = h[8]
      BY <1>8, <2>8, <1>29, <1>39
    <3> QED
      BY <2>8, <3>1
  <2>10. Versions(files) = {h[9].st[i] : i \in 1..1}
    BY <1>1, <2>9 DEF Collects
  <2>11. 1..1 = {1}
    OBVIOUS
  <2> QED
    BY <1>12, <2>9, <2>10, <2>11 DEF FirstOf
<1>13. CASE arch = "x86_64"
  <2>2. h[2].len = 0 /\ FirstOf(h[2]) = "x86_64"
    BY <1>6, <1>11, <1>13
  <2>3. h[3] = h[2] /\ h[3].len = 0 /\ FirstOf(h[3]) = "x86_64"
    <3>1. h[3] = h[2]
      BY <1>8, <2>2, <1>23, <1>33
    <3> QED
      BY <2>2, <3>1
  <2>4. h[4] = h[3] /\ h[4].len = 0 /\ FirstOf(h[4]) = "x86_64"
    <3>1. h[4] = h[3]
      BY <1>8, <2>3, <1>24, <1>34
    <3> QED
      BY <2>3, <3>1
  <2>5. h[5] = h[4] /\ h[5].len = 0 /\ FirstOf(h[5]) = "x86_64"
    <3>1. h[5] = h[4]
      BY <1>8, <2>4, <1>25, <1>35
    <3> QED
      BY <2>4, <3>1
  <2>6. h[6].len = 1 /\ FirstOf(h[6]) = "10"
    BY <1>4, <1>9, <2>5, <1>26, <1>36
  <2>7. h[7] = h[6] /\ h[7].len = 1 /\ FirstOf(h[7]) = "10"
    <3>1. h[7] = h[6]
      BY <1>8, <2>6, <1>27, <1>37
    <3> QED
      BY <2>6, <3>1
  <2>8. h[8] = h[7] /\ h[8].len = 1 /\ FirstOf(h[8]) = "10"
    <3>1. h[8] = h[7]
      BY <1>8, <2>7, <1>28, <1>38
    <3> QED
      BY <2>7, <3>1
  <2>9. h[9] = h[8] /\ h[9].len = 1 /\ FirstOf(h[9]) = "10"
    <3>1. h[9] = h[8]
      BY <1>8, <2>8, <1>29, <1>39
    <3> QED
      BY <2>8, <3>1
  <2>10. Versions(files) = {h[9].st[i] : i \in 1..1}
    BY <1>1, <2>9 DEF Collects
  <2>11. 1..1 = {1}
    OBVIOUS
  <2> QED
    BY <1>13, <2>9, <2>10, <2>11 DEF FirstOf
<1> QED
  BY <1>12, <1>13

(* Those of both architectures are to cover the first version of each; the  *)
(* version of the one has taken the place of the other in the array.        *)
LEMMA VersionsTwo ==
  ASSUME NEW files \in Seq(Entry),
         \A i \in DOMAIN files : files[i].target.arch \in {"aarch64", "x86_64"} /\ files[i].target.sys = "macos",
         \E i \in DOMAIN files : files[i].target.arch = "aarch64",
         \E i \in DOMAIN files : files[i].target.arch = "x86_64"
  PROVE  Versions(files) = {"10", "11"}
<1>1. PICK h \in [0..9 -> Memory] : Collects(files, h)
  BY VersionsCollected
<1>21. h[1] = VersionStep(files, h[0], SupportedTargets[1])
  BY <1>1 DEF Collects
<1>31. SupportedTargets[1].arch = "aarch64" /\ SupportedTargets[1].sys = "linux" /\ SupportedTargets[1].sysver = ""
  BY SupportedAre
<1>22. h[2] = VersionStep(files, h[1], SupportedTargets[2])
  BY <1>1 DEF Collects
<1>32. SupportedTargets[2].arch = "x86_64" /\ SupportedTargets[2].sys = "linux" /\ SupportedTargets[2].sysver = ""
  BY SupportedAre
<1>23. h[3] = VersionStep(files, h[2], SupportedTargets[3])
  BY <1>1 DEF Collects
<1>33. SupportedTargets[3].arch = "aarch64" /\ SupportedTargets[3].sys = "macos" /\ SupportedTargets[3].sysver = "11"
  BY SupportedAre
<1>24. h[4] = VersionStep(files, h[3], SupportedTargets[4])
  BY <1>1 DEF Collects
<1>34. SupportedTargets[4].arch = "aarch64" /\ SupportedTargets[4].sys = "macos" /\ SupportedTargets[4].sysver = "12"
  BY SupportedAre
<1>25. h[5] = VersionStep(files, h[4], SupportedTargets[5])
  BY <1>1 DEF Collects
<1>35. SupportedTargets[5].arch = "aarch64" /\ SupportedTargets[5].sys = "macos" /\ SupportedTargets[5].sysver = "13"
  BY SupportedAre
<1>26. h[6] = VersionStep(files, h[5], SupportedTargets[6])
  BY <1>1 DEF Collects
<1>36. SupportedTargets[6].arch = "x86_64" /\ SupportedTargets[6].sys = "macos" /\ SupportedTargets[6].sysver = "10"
  BY SupportedAre
<1>27. h[7] = VersionStep(files, h[6], SupportedTargets[7])
  BY <1>1 DEF Collects
<1>37. SupportedTargets[7].arch = "x86_64" /\ SupportedTargets[7].sys = "macos" /\ SupportedTargets[7].sysver = "11"
  BY SupportedAre
<1>28. h[8] = VersionStep(files, h[7], SupportedTargets[8])
  BY <1>1 DEF Collects
<1>38. SupportedTargets[8].arch = "x86_64" /\ SupportedTargets[8].sys = "macos" /\ SupportedTargets[8].sysver = "12"
  BY SupportedAre
<1>29. h[9] = VersionStep(files, h[8], SupportedTargets[9])
  BY <1>1 DEF Collects
<1>39. SupportedTargets[9].arch = "x86_64" /\ SupportedTargets[9].sys = "macos" /\ SupportedTargets[9].sysver = "13"
  BY SupportedAre
<1>2. "macos" \in Systems(files)
  BY DEF Systems
<1>3. ArchArray(files).len = 2 /\ FirstOf(ArchArray(files)) = "aarch64" /\ SecondOf(ArchArray(files)) = "x86_64"
  <2> DEFINE a == "aarch64"
             b == "x86_64"
  <2>1. a # "any" /\ b # "any" /\ a # b /\ Rank(a) \in Int /\ Rank(b) \in Int /\ Rank(a) < Rank(b)
    BY WordsApart, RankIs
  <2>2. \A i \in DOMAIN files : files[i].target.arch \in {a, b}
    OBVIOUS
  <2>3. (\E i \in DOMAIN files : files[i].target.arch = a) /\ (\E i \in DOMAIN files : files[i].target.arch = b)
    OBVIOUS
  <2> HIDE DEF a, b
  <2>4. ArchArray(files).len = 2 /\ FirstOf(ArchArray(files)) = a /\ SecondOf(ArchArray(files)) = b
    BY <2>1, <2>2, <2>3, TwoArray, SMTT(60) DEF FirstOf, SecondOf
  <2> QED
    BY <2>4 DEF a, b
<1>4. h[0] \in Memory /\ h[5] \in Memory
  OBVIOUS
<1>6. h[0].len = 0 /\ FirstOf(h[0]) = "aarch64" /\ SecondOf(h[0]) = "x86_64"
  BY <1>1, <1>3 DEF Collects, NoVersions, FirstOf, SecondOf
<1>7. \A a, t : Matching(files, a, t) <=>
                  t.sys \in Systems(files) /\ (FirstOf(a) = t.arch \/ SecondOf(a) = t.arch) /\ t.sysver # ""
  <2>1. 1..2 = {1, 2}
    OBVIOUS
  <2> QED
    BY <1>3, <2>1 DEF Matching, FirstOf, SecondOf
<1>8. \A a, t : (FirstOf(a) # t.arch /\ SecondOf(a) # t.arch) \/ t.sysver = "" => VersionStep(files, a, t) = a
  BY <1>7, StepMatching, ZenonT(60)
<1>9. \A a, t : t.sys = "macos" /\ t.sysver # "" /\ FirstOf(a) = t.arch =>
                  VersionStep(files, a, t) = SortedAssign(a.st, a.len, t.sysver)
  BY <1>2, <1>7, StepMatching
<1>20. \A a, t : t.sys = "macos" /\ t.sysver # "" /\ SecondOf(a) = t.arch =>
                  VersionStep(files, a, t) = SortedAssign(a.st, a.len, t.sysver)
  BY <1>2, <1>7, StepMatching, ZenonT(60)
<1>10. h[1] = h[0]
  BY <1>8, <1>21, <1>31
<1>11. h[2] = h[0]
  <2>1. h[2] = h[1]
    BY <1>8, <1>22, <1>32
  <2> QED
    BY <1>10, <2>1
<1>12. h[3].len = 1 /\ FirstOf(h[3]) = "11" /\ SecondOf(h[3]) = "x86_64"
  <2> DEFINE v == "11"
             st == h[2].st
             len == h[2].len
  <2>1. h[3] = SortedAssign(st, len, v) /\ len = 0
    <3>1. h[2].len = 0 /\ FirstOf(h[2]) = "aarch64"
      BY <1>6, <1>11
    <3>2. h[3] = SortedAssign(h[2].st, h[2].len, SupportedTargets[3].sysver)
      BY <1>9, <1>23, <1>33, <3>1, ZenonT(60)
    <3> QED
      BY <1>33, <3>1, <3>2
  <2>2. st[2] = "x86_64" /\ st \in [1..10 -> STRING \cup Word]
    BY <1>4, <1>6, <1>11 DEF Memory, SecondOf
  <2> HIDE DEF v, st, len
  <2>5. h[3] = [st |-> [st EXCEPT ![1] = v], len |-> 1]
    BY <2>1, <2>2, AddFirst
  <2>6. h[3].len = 1 /\ FirstOf(h[3]) = v /\ SecondOf(h[3]) = st[2]
    BY <2>2, <2>5 DEF FirstOf, SecondOf
  <2> QED
    BY <2>2, <2>6 DEF v
<1>13. h[4] = h[3] /\ h[4].len = 1 /\ FirstOf(h[4]) = "11" /\ SecondOf(h[4]) = "x86_64"
  <2>1. h[4] = h[3]
    BY <1>8, <1>12, <1>24, <1>34
  <2> QED
    BY <1>12, <2>1
<1>14. h[5] = h[4] /\ h[5].len = 1 /\ FirstOf(h[5]) = "11" /\ SecondOf(h[5]) = "x86_64"
  <2>1. h[5] = h[4]
    BY <1>8, <1>13, <1>25, <1>35, ZenonT(60)
  <2> QED
    BY <1>13, <2>1
<1>15. h[6].len = 2 /\ FirstOf(h[6]) = "10" /\ SecondOf(h[6]) = "11"
  <2> DEFINE v == "10"
             m == h[5]
  <2>1. h[6] = SortedAssign(m.st, m.len, v)
    <3>2. SecondOf(h[5]) = "x86_64"
      BY <1>14
    <3>1. h[6] = SortedAssign(h[5].st, h[5].len, SupportedTargets[6].sysver)
      BY <1>20, <1>26, <1>36, <3>2, ZenonT(60)
    <3> QED
      BY <1>36, <3>1
  <2>2. m \in Memory
    BY <1>4
  <2>3. m.len = 1 /\ m.st[1] = "11" /\ m.st[1] # v
    BY <1>14 DEF FirstOf
  <2>4. ~(Rank(m.st[1]) < Rank(v))
    <3>1. Rank("10") < Rank("11") /\ Rank("10") \in Int /\ Rank("11") \in Int
      BY WordsApart, RankIs
    <3>2. ~(Rank("11") < Rank("10"))
      BY <3>1
    <3> QED
      BY <2>3, <3>2
  <2> HIDE DEF v, m
  <2>5. h[6].len = 2 /\ FirstOf(h[6]) = v /\ SecondOf(h[6]) = m.st[1]
    BY <2>1, <2>2, <2>3, <2>4, AddWord DEF FirstOf, SecondOf
  <2> QED
    BY <2>3, <2>5 DEF v
<1>16. h[7] = h[6] /\ h[7].len = 2 /\ FirstOf(h[7]) = "10" /\ SecondOf(h[7]) = "11"
  <2>1. h[7] = h[6]
    BY <1>8, <1>15, <1>27, <1>37, ZenonT(60)
  <2> QED
    BY <1>15, <2>1
<1>17. h[8] = h[7] /\ h[8].len = 2 /\ FirstOf(h[8]) = "10" /\ SecondOf(h[8]) = "11"
  <2>1. h[8] = h[7]
    BY <1>8, <1>16, <1>28, <1>38, ZenonT(60)
  <2> QED
    BY <1>16, <2>1
<1>18. h[9] = h[8] /\ h[9].len = 2 /\ FirstOf(h[9]) = "10" /\ SecondOf(h[9]) = "11"
  <2>1. h[9] = h[8]
    BY <1>8, <1>17, <1>29, <1>39, ZenonT(60)
  <2> QED
    BY <1>17, <2>1
<1>19. Versions(files) = {h[9].st[i] : i \in {1, 2}}
  <2>1. 1..2 = {1, 2}
    OBVIOUS
  <2> QED
    BY <1>1, <1>18, <2>1 DEF Collects
<1> QED
  BY <1>18, <1>19 DEF FirstOf, SecondOf

-----------------------------------------------------------------------------
(* An element has more predecessors than those before it.                   *)
LEMMA BelowLess ==
  ASSUME NEW U, NEW R, Orders(R, U), NEW S \in SUBSET U, IsFiniteSet(S),
         NEW x \in S, NEW y \in S, <<x, y>> \in R
  PROVE  Cardinality(Below(R, S, x)) < Cardinality(Below(R, S, y))
<1> DEFINE A == Below(R, S, x)
           B == Below(R, S, y)
           C == B \ {x}
<1>1. A \subseteq C
  <2> SUFFICES ASSUME NEW z \in S, <<z, x>> \in R PROVE <<z, y>> \in R /\ z # x
    BY DEF Below
  <2> QED
    BY DEF Orders
<1>2. x \in B /\ A \subseteq S /\ B \subseteq S
  BY DEF Below
<1>3. IsFiniteSet(A) /\ IsFiniteSet(B)
  BY <1>2, FS_Subset
<1> HIDE DEF A, B
<1>4. IsFiniteSet(C) /\ Cardinality(C) = Cardinality(B) - 1
  BY <1>2, <1>3, FS_RemoveElement
<1> HIDE DEF C
<1>5. Cardinality(A) <= Cardinality(C)
  BY <1>1, <1>4, FS_Subset
<1>6. Cardinality(A) \in Nat /\ Cardinality(B) \in Nat
  BY <1>3, FS_CardinalityType
<1> DEFINE a == Cardinality(A)
           b == Cardinality(B)
           c == Cardinality(C)
<1>7. a \in Nat /\ b \in Nat /\ c = b - 1 /\ a <= c
  BY <1>4, <1>5, <1>6
<1> HIDE DEF a, b, c
<1>8. a < b
  BY <1>7
<1> QED
  BY <1>8 DEF a, b, A, B

(* So no two elements have the same number of predecessors.                 *)
LEMMA BelowCount ==
  ASSUME NEW R, NEW S, IsFiniteSet(S), NEW x \in S, <<x, x>> \notin R
  PROVE  Cardinality(Below(R, S, x)) + 1 \in 1..Cardinality(S)
<1> DEFINE A == Below(R, S, x)
           C == S \ {x}
<1>1. A \subseteq C
  BY DEF Below
<1>2. IsFiniteSet(C) /\ Cardinality(C) = Cardinality(S) - 1
  BY FS_RemoveElement
<1> HIDE DEF A, C
<1>3. IsFiniteSet(A) /\ Cardinality(A) <= Cardinality(C)
  BY <1>1, <1>2, FS_Subset
<1>4. Cardinality(A) \in Nat /\ Cardinality(S) \in Nat
  BY <1>3, FS_CardinalityType
<1> DEFINE a == Cardinality(A)
           s == Cardinality(S)
           c == Cardinality(C)
<1>5. a \in Nat /\ s \in Nat /\ c = s - 1 /\ a <= c
  BY <1>2, <1>3, <1>4
<1> HIDE DEF a, s, c
<1>6. a + 1 \in 1..s
  BY <1>5
<1> QED
  BY <1>6 DEF a, s, A

(* f lists the elements of S in their order.                                *)
Lists(f, R, S) ==
  /\ \A i, j \in 1..Cardinality(S) : i < j => <<f[i], f[j]>> \in R
  /\ \A x \in S : \E i \in 1..Cardinality(S) : f[i] = x

(* It does if each element is at the place of the number of its             *)
(* predecessors.                                                            *)
LEMMA PlacesList ==
  ASSUME NEW U, NEW R, Orders(R, U), NEW S \in SUBSET U, IsFiniteSet(S), NEW f,
         \A i \in 1..Cardinality(S) : f[i] \in S /\ Cardinality(Below(R, S, f[i])) = i - 1
  PROVE  Lists(f, R, S)
<1> DEFINE n == Cardinality(S)
<1>1. n \in Nat
  BY FS_CardinalityType
<1>2. ASSUME NEW i \in 1..n, NEW j \in 1..n, i < j PROVE <<f[i], f[j]>> \in R
  <2>1. f[i] \in S /\ f[j] \in S /\ Cardinality(Below(R, S, f[i])) = i - 1
        /\ Cardinality(Below(R, S, f[j])) = j - 1
    OBVIOUS
  <2>2. f[i] # f[j]
    BY <1>1, <1>2, <2>1
  <2>3. ~(<<f[j], f[i]>> \in R)
    <3> SUFFICES ASSUME <<f[j], f[i]>> \in R PROVE FALSE
      OBVIOUS
    <3>1. Cardinality(Below(R, S, f[j])) < Cardinality(Below(R, S, f[i]))
      BY <2>1, BelowLess
    <3>2. j - 1 < i - 1
      BY <2>1, <3>1
    <3> QED
      BY <1>1, <1>2, <3>2
  <2> QED
    BY <2>1, <2>2, <2>3 DEF Orders
<1>3. ASSUME NEW x \in S PROVE \E i \in 1..n : f[i] = x
  <2> DEFINE i == Cardinality(Below(R, S, x)) + 1
  <2>1. <<x, x>> \notin R
    BY DEF Orders
  <2>2. i \in 1..n
    BY <2>1, BelowCount
  <2>3. f[i] \in S /\ Cardinality(Below(R, S, f[i])) = i - 1
    BY <2>2
  <2>4. Cardinality(Below(R, S, x)) = i - 1
    <3> DEFINE c == Cardinality(Below(R, S, x))
    <3>1. c \in Nat
      <4>1. IsFiniteSet(Below(R, S, x))
        BY FS_Subset DEF Below
      <4> QED
        BY <4>1, FS_CardinalityType
    <3>2. i = c + 1
      OBVIOUS
    <3> HIDE DEF c, i
    <3>3. c = i - 1
      BY <3>1, <3>2
    <3> QED
      BY <3>3 DEF c
  <2> HIDE DEF i
  <2>5. ~(<<f[i], x>> \in R) /\ ~(<<x, f[i]>> \in R)
    <3>1. ASSUME NEW a \in S, NEW b \in S, Cardinality(Below(R, S, a)) = Cardinality(Below(R, S, b))
          PROVE  <<a, b>> \notin R
      <4> SUFFICES ASSUME <<a, b>> \in R PROVE FALSE
        OBVIOUS
      <4>1. Cardinality(Below(R, S, a)) < Cardinality(Below(R, S, b))
        BY BelowLess
      <4>2. Cardinality(Below(R, S, a)) \in Nat
        <5>1. IsFiniteSet(Below(R, S, a))
          BY FS_Subset DEF Below
        <5> QED
          BY <5>1, FS_CardinalityType
      <4> QED
        BY <3>1, <4>1, <4>2
    <3> QED
      BY <2>3, <2>4, <3>1
  <2>6. f[i] = x
    BY <2>3, <2>5 DEF Orders
  <2> QED
    BY <2>2, <2>6
<1> QED
  BY <1>2, <1>3 DEF Lists

-----------------------------------------------------------------------------
(* The index is in the order of the keys, and every file is in it.          *)
InOrder(f, S, sign) ==
  /\ \A i, j \in 1..Cardinality(S) : i < j => LexLess(TheKey(f[i], sign), TheKey(f[j], sign))
  /\ \A x \in S : \E i \in 1..Cardinality(S) : f[i] = x

(* The index that sorting leaves is in the order of the keys.               *)
LEMMA SortedOrder ==
  ASSUME NEW S \in SUBSET Entry, IsFiniteSet(S), NEW sign \in {1, -1}
  PROVE  InOrder(Sorted(S, sign), S, sign)
<1> DEFINE key == [f \in Entry |-> TheKey(f, sign)]
           R == By(key, Entry)
           n == Cardinality(S)
<1>1. key \in [Entry -> Keys(8)] /\ \A f, g \in Entry : key[f] = key[g] => f = g
  BY TfileKeyIs, TfileKeyApart
<1>2. \A f \in Entry, g \in Entry : <<g, f>> \in R <=> LexLess(TfileKey(g, sign), TfileKey(f, sign))
  BY TfileKeyIs DEF By
<1>2a. \A f \in Entry, g \in Entry : <<g, f>> \in R <=> LexLess(TheKey(g, sign), TheKey(f, sign))
  BY DEF By
<1> HIDE DEF key
<1>3. Orders(R, Entry)
  <2> DEFINE eight == 8
  <2>1. eight \in Nat /\ key \in [Entry -> Keys(eight)]
    BY <1>1
  <2> HIDE DEF eight
  <2> QED
    BY <1>1, <2>1, KeyOrders
<1> HIDE DEF R
<1>4. HasPlaces(R, S)
  BY <1>3, PlacesExist
<1>5. \A f \in S : {g \in S : LexLess(TfileKey(g, sign), TfileKey(f, sign))} = Below(R, S, f)
  BY <1>2 DEF Below
<1> DEFINE At(i) == CHOOSE f \in S : Cardinality({g \in S : LexLess(TfileKey(g, sign), TfileKey(f, sign))}) = i - 1
           q == Sorted(S, sign)
<1>6. \A i \in 1..n : At(i) \in S /\ Cardinality(Below(R, S, At(i))) = i - 1
  <2> SUFFICES ASSUME NEW i \in 1..n
               PROVE  At(i) \in S /\ Cardinality(Below(R, S, At(i))) = i - 1
    OBVIOUS
  <2>1. PICK f \in S : Cardinality(Below(R, S, f)) = i - 1
    BY <1>4 DEF HasPlaces
  <2>2. Cardinality({g \in S : LexLess(TfileKey(g, sign), TfileKey(f, sign))}) = i - 1
    BY <1>5, <2>1
  <2>3. At(i) \in S /\ Cardinality({g \in S : LexLess(TfileKey(g, sign), TfileKey(At(i), sign))}) = i - 1
    BY <2>2
  <2> QED
    BY <1>5, <2>3
<1>7. q = [i \in 1..n |-> At(i)]
  BY DEF Sorted
<1> HIDE DEF At, n, q
<1>8. \A i \in 1..n : q[i] \in S /\ Cardinality(Below(R, S, q[i])) = i - 1
  BY <1>6, <1>7
<1>9. Lists(q, R, S)
  BY <1>3, <1>8, PlacesList DEF n
<1>10. \A i, j \in 1..n : i < j => LexLess(TheKey(q[i], sign), TheKey(q[j], sign))
  <2> SUFFICES ASSUME NEW i \in 1..n, NEW j \in 1..n, i < j
               PROVE  LexLess(TheKey(q[i], sign), TheKey(q[j], sign))
    OBVIOUS
  <2>1. <<q[i], q[j]>> \in R
    BY <1>9 DEF Lists, n
  <2>2. q[i] \in Entry /\ q[j] \in Entry
    BY <1>8
  <2> QED
    BY <1>2a, <2>1, <2>2
<1> QED
  BY <1>9, <1>10 DEF Lists, InOrder, n, q

-----------------------------------------------------------------------------
(* The runs there are, and that q lists them from the left.                 *)
RunSet(starts, ends) ==
  {r \in starts \X ends : r[1] < r[2] /\ \A s \in starts : ~(r[1] < s /\ s <= r[2])}

(* The sequence q is the runs, from the left to the right.                  *)
ListsRuns(q, starts, ends) ==
  /\ \A i \in DOMAIN q : q[i] \in RunSet(starts, ends)
  /\ \A i, j \in DOMAIN q : i < j => q[i][2] < q[j][1]
  /\ \A r \in RunSet(starts, ends) : \E i \in DOMAIN q : q[i] = r

(* A run begins at a start and ends at the next end.                        *)
LEMMA RunIs ==
  ASSUME NEW starts, NEW ends, NEW r \in RunSet(starts, ends)
  PROVE  /\ r[1] \in starts /\ r[2] \in ends /\ r = <<r[1], r[2]>> /\ r[1] < r[2]
         /\ \A s \in starts : ~(r[1] < s /\ s <= r[2])
<1>1. r \in starts \X ends
  BY DEF RunSet
<1>2. r[1] \in starts /\ r[2] \in ends /\ r = <<r[1], r[2]>>
  BY <1>1, PairIs
<1> QED
  BY <1>2 DEF RunSet

(* RunsIn lists the runs in their order.                                    *)
LEMMA RunsAre ==
  ASSUME NEW a \in Nat, NEW b \in Nat, NEW starts \in SUBSET (a..b), NEW ends \in SUBSET (a..b),
         \A x \in ends : x + 1 \in starts \/ x = b
  PROVE  ListsRuns(Runs(starts, ends), starts, ends)
<1> DEFINE runs == RunSet(starts, ends)
           R == {y \in runs \X runs : y[1][1] < y[2][1]}
           n == Cardinality(runs)
           Nth(i) == CHOOSE r \in runs : Cardinality({q \in runs : q[1] < r[1]}) = i - 1
           q == Runs(starts, ends)
<1>1. \A p, r \in runs : <<p, r>> \in R <=> p[1] < r[1]
  OBVIOUS
<1>2. ASSUME NEW r \in runs
      PROVE  /\ r[1] \in Int /\ r[2] \in Int /\ r = <<r[1], r[2]>> /\ r[1] < r[2]
             /\ r[1] \in a..b /\ r[2] \in a..b /\ r[1] \in starts /\ r[2] \in ends
  <2>1. r[1] \in starts /\ r[2] \in ends /\ r = <<r[1], r[2]>> /\ r[1] < r[2]
    BY RunIs
  <2>2. r[1] \in a..b /\ r[2] \in a..b
    BY <2>1
  <2> QED
    BY <2>1, <2>2
<1>3. ASSUME NEW p \in runs, NEW r \in runs, p[1] = r[1] PROVE ~(p[2] < r[2])
  <2> SUFFICES ASSUME p[2] < r[2] PROVE FALSE
    OBVIOUS
  <2>1. p[1] < p[2] /\ p[2] \in ends /\ p[2] \in a..b /\ r[2] \in a..b /\ p[1] \in a..b
    BY <1>2
  <2>2. p[2] + 1 \in starts
    BY <2>1
  <2>3. r[1] < p[2] + 1 /\ p[2] + 1 <= r[2]
    BY <1>3, <2>1
  <2> QED
    BY <2>2, <2>3, RunIs
<1>4. IsFiniteSet(runs)
  <2>0. IsFiniteSet(a..b)
    BY FS_Interval
  <2>1. IsFiniteSet((a..b) \X (a..b))
    BY <2>0, FS_Product
  <2>2. runs \subseteq (a..b) \X (a..b)
    <3> SUFFICES ASSUME NEW r \in runs PROVE r \in (a..b) \X (a..b)
      OBVIOUS
    <3> HIDE DEF runs
    <3>1. r = <<r[1], r[2]>> /\ r[1] \in a..b /\ r[2] \in a..b
      BY <1>2
    <3> QED
      BY <3>1
  <2> HIDE DEF runs
  <2> QED
    BY <2>1, <2>2, FS_Subset
<1>5. Orders(R, runs)
  <2> HIDE DEF runs
  <2>1. \A x \in runs : <<x, x>> \notin R
    BY <1>1, <1>2
  <2>2. \A x, y, z \in runs : <<x, y>> \in R /\ <<y, z>> \in R => <<x, z>> \in R
    BY <1>1, <1>2
  <2>3. \A x, y \in runs : x = y \/ <<x, y>> \in R \/ <<y, x>> \in R
    <3> SUFFICES ASSUME NEW x \in runs, NEW y \in runs
                 PROVE  x = y \/ <<x, y>> \in R \/ <<y, x>> \in R
      OBVIOUS
    <3>1. x[1] \in Int /\ y[1] \in Int /\ x[2] \in Int /\ y[2] \in Int
      BY <1>2
    <3>2. CASE x[1] # y[1]
      <4>1. x[1] < y[1] \/ y[1] < x[1]
        BY <3>1, <3>2
      <4> QED
        BY <1>1, <4>1
    <3>3. CASE x[1] = y[1]
      <4>1. x[2] = y[2]
        BY <1>3, <3>1, <3>3
      <4>2. x = <<x[1], x[2]>> /\ y = <<y[1], y[2]>>
        BY <1>2
      <4> QED
        BY <3>3, <4>1, <4>2
    <3> QED
      BY <3>2, <3>3
  <2> HIDE DEF R
  <2> QED
    BY <2>1, <2>2, <2>3 DEF Orders
<1>8. q = [i \in 1..n |-> Nth(i)]
  BY DEF Runs, RunSet
<1> HIDE DEF R, runs
<1>6. HasPlaces(R, runs)
  BY <1>4, <1>5, PlacesExist
<1>7. \A i \in 1..n : Nth(i) \in runs /\ Cardinality(Below(R, runs, Nth(i))) = i - 1
  <2> SUFFICES ASSUME NEW i \in 1..n
               PROVE  Nth(i) \in runs /\ Cardinality(Below(R, runs, Nth(i))) = i - 1
    OBVIOUS
  <2>0. \A r \in runs : {p \in runs : p[1] < r[1]} = Below(R, runs, r)
    BY <1>1 DEF Below
  <2>1. PICK r \in runs : Cardinality(Below(R, runs, r)) = i - 1
    BY <1>6 DEF HasPlaces
  <2>2. Cardinality({p \in runs : p[1] < r[1]}) = i - 1
    BY <2>0, <2>1
  <2>3. Nth(i) \in runs /\ Cardinality({p \in runs : p[1] < Nth(i)[1]}) = i - 1
    BY <2>2
  <2> QED
    BY <2>0, <2>3
<1>9. n \in Nat
  BY <1>4, FS_CardinalityType
<1> HIDE DEF Nth, n, q
<1>10. DOMAIN q = 1..n /\ \A i \in 1..n : q[i] \in runs /\ Cardinality(Below(R, runs, q[i])) = i - 1
  BY <1>7, <1>8
<1>11. Lists(q, R, runs)
  BY <1>4, <1>5, <1>10, PlacesList DEF n
<1>12. ASSUME NEW i \in 1..n, NEW j \in 1..n, i < j PROVE q[i][2] < q[j][1]
  <2>1. q[i] \in runs /\ q[j] \in runs /\ <<q[i], q[j]>> \in R
    BY <1>10, <1>11, <1>12 DEF Lists, n
  <2>2. q[i][1] < q[j][1]
    BY <1>1, <2>1
  <2>3. q[j][1] \in starts /\ q[j][1] \in Int /\ q[i][2] \in Int
    BY <1>2, <2>1
  <2>4. ~(q[i][1] < q[j][1] /\ q[j][1] <= q[i][2])
    BY <2>1, <2>3, RunIs DEF runs
  <2> QED
    BY <2>2, <2>3, <2>4
<1> QED
  BY <1>10, <1>11, <1>12 DEF Lists, ListsRuns, runs, n, q

-----------------------------------------------------------------------------
(* What comes first in the index has the smaller path, of one path the      *)
(* smaller hash, and of both the system that comes first.                   *)
Precedes(f, g) ==
  \/ f.relpath < g.relpath
  \/ /\ f.relpath = g.relpath
     /\ f.hash < g.hash \/ (f.hash = g.hash /\ Rank(f.target.sys) <= Rank(g.target.sys))

(* The keys of two files are in the order of the files.                     *)
LEMMA KeyPrecedes ==
  ASSUME NEW f \in Entry, NEW g \in Entry, NEW sign \in {1, -1},
         LexLess(TheKey(f, sign), TheKey(g, sign))
  PROVE  Precedes(f, g)
<1> DEFINE a == TheKey(f, sign)
           b == TheKey(g, sign)
<1>1. /\ a[1] = f.relpath /\ a[2] = f.hash /\ a[3] = Rank(f.target.sys)
      /\ b[1] = g.relpath /\ b[2] = g.hash /\ b[3] = Rank(g.target.sys)
  BY DEF TheKey
<1>2. a \in Keys(8) /\ b \in Keys(8)
  BY TfileKeyIs
<1>3. PICK i \in 1..8 : a[i] < b[i] /\ \A j \in 1..(i - 1) : a[j] = b[j]
  BY <1>2 DEF LexLess, Keys
<1> HIDE DEF a, b
<1>4. /\ a[1] \in Int /\ a[2] \in Int /\ a[3] \in Int
      /\ b[1] \in Int /\ b[2] \in Int /\ b[3] \in Int
  BY <1>2 DEF Keys
<1>5. CASE i = 1
  BY <1>1, <1>3, <1>5 DEF Precedes
<1>6. CASE i = 2
  BY <1>1, <1>3, <1>6 DEF Precedes
<1>7. CASE i >= 3
  <2>1. a[1] = b[1] /\ a[2] = b[2]
    <3>1. 1 \in 1..(i - 1) /\ 2 \in 1..(i - 1)
      BY <1>7
    <3> QED
      BY <1>3, <3>1
  <2>2. a[3] <= b[3]
    <3>1. CASE i = 3
      BY <1>3, <1>4, <3>1
    <3>2. CASE i > 3
      <4>1. 3 \in 1..(i - 1)
        BY <3>2
      <4>2. a[3] = b[3]
        BY <1>3, <4>1
      <4> QED
        BY <1>4, <4>2
    <3> QED
      BY <1>7, <3>1, <3>2
  <2> QED
    BY <1>1, <2>1, <2>2 DEF Precedes
<1>8. i = 1 \/ i = 2 \/ i >= 3
  OBVIOUS
<1> QED
  BY <1>5, <1>6, <1>7, <1>8

(* fs is the index of a layout: every file once, in order.                  *)
FileOf(fs, k) == <<fs[k].target, fs[k].relpath>>

IndexOf(fs, layout) ==
  /\ fs \in Seq(Entry)
  /\ \A k \in DOMAIN fs : FileOf(fs, k) \in DOMAIN layout /\ layout[FileOf(fs, k)] = fs[k].hash
  /\ \A k, m \in DOMAIN fs : FileOf(fs, k) = FileOf(fs, m) => k = m
  /\ \A x \in DOMAIN layout : \E k \in DOMAIN fs : FileOf(fs, k) = x
  /\ \A k, m \in DOMAIN fs : k < m => Precedes(fs[k], fs[m])

(* Index makes an index of the layout: every file of it is at one place,    *)
(* and the places are in order.                                             *)
LEMMA Indexed ==
  ASSUME TypeInv, pc = "index", NEW sign \in {1, -1}
  PROVE  IndexOf(Sorted({Tfile(x) : x \in DOMAIN tree}, sign), tree)
<1> DEFINE S == {Tfile(x) : x \in DOMAIN tree}
           fs == Sorted(S, sign)
           n == Cardinality(S)
<1>1. IsFiniteSet(DOMAIN tree) /\ \A x \in DOMAIN tree : x \in target_t \X Relpath /\ tree[x] \in Nat
  BY LayoutsAssumption DEF TypeInv
<1>2. ASSUME NEW x \in DOMAIN tree
      PROVE  /\ Tfile(x) \in Entry /\ <<Tfile(x).target, Tfile(x).relpath>> = x
             /\ Tfile(x).hash = tree[x]
  <2>1. x[1] \in target_t /\ x[2] \in Relpath /\ tree[x] \in Nat /\ x = <<x[1], x[2]>>
    BY <1>1, PairIs
  <2> QED
    BY <2>1 DEF Tfile, Entry
<1>3. S \in SUBSET Entry
  BY <1>2
<1>4. IsFiniteSet(S)
  <2> DEFINE f == [x \in DOMAIN tree |-> Tfile(x)]
  <2>1. f \in Surjection(DOMAIN tree, S)
    BY DEF Surjection
  <2> HIDE DEF f, S
  <2> QED
    BY <1>1, <2>1, FS_Surjection
<1>5. \A f \in S : \E x \in DOMAIN tree : f = Tfile(x)
  OBVIOUS
<1>6. \A x \in DOMAIN tree : Tfile(x) \in S
  OBVIOUS
<1> HIDE DEF S
<1>7. fs \in Seq(S) /\ Len(fs) = n
  BY <1>3, <1>4, SortedIs
<1>8. InOrder(fs, S, sign)
  BY <1>3, <1>4, SortedOrder
<1>9. n \in Nat
  BY <1>4, FS_CardinalityType
<1> HIDE DEF fs, n
<1>10. DOMAIN fs = 1..n /\ \A k \in 1..n : fs[k] \in S
  BY <1>7, LenProperties, ElementOfSeq
<1>11. fs \in Seq(Entry) /\ \A k \in 1..n : fs[k] \in Entry
  BY <1>3, <1>7, <1>10
<1>12. \A k \in DOMAIN fs : FileOf(fs, k) \in DOMAIN tree /\ tree[FileOf(fs, k)] = fs[k].hash
                            /\ fs[k] = Tfile(FileOf(fs, k))
  <2> SUFFICES ASSUME NEW k \in DOMAIN fs
               PROVE  FileOf(fs, k) \in DOMAIN tree /\ tree[FileOf(fs, k)] = fs[k].hash
                      /\ fs[k] = Tfile(FileOf(fs, k))
    OBVIOUS
  <2>1. PICK x \in DOMAIN tree : fs[k] = Tfile(x)
    BY <1>5, <1>10
  <2>2. FileOf(fs, k) = x
    BY <1>2, <2>1 DEF FileOf
  <2> QED
    BY <1>2, <2>1, <2>2
<1>13. ASSUME NEW k \in DOMAIN fs, NEW m \in DOMAIN fs, k < m
       PROVE  LexLess(TheKey(fs[k], sign), TheKey(fs[m], sign)) /\ fs[k] # fs[m]
  <2>1. LexLess(TheKey(fs[k], sign), TheKey(fs[m], sign))
    BY <1>8, <1>10, <1>13 DEF InOrder, n
  <2>2. TheKey(fs[k], sign) \in Keys(8)
    BY <1>10, <1>11, TfileKeyIs
  <2>3. ~LexLess(TheKey(fs[k], sign), TheKey(fs[k], sign))
    <3> DEFINE eight == 8
    <3>1. eight \in Nat /\ TheKey(fs[k], sign) \in Keys(eight)
      BY <2>2
    <3> HIDE DEF eight
    <3> QED
      BY <3>1, LexOrders
  <2> QED
    BY <2>1, <2>3
<1>14. \A k, m \in DOMAIN fs : k < m => Precedes(fs[k], fs[m])
  BY <1>10, <1>11, <1>13, KeyPrecedes
<1>15. \A k, m \in DOMAIN fs : FileOf(fs, k) = FileOf(fs, m) => k = m
  <2> SUFFICES ASSUME NEW k \in DOMAIN fs, NEW m \in DOMAIN fs, FileOf(fs, k) = FileOf(fs, m), k # m
               PROVE  FALSE
    OBVIOUS
  <2>1. fs[k] = fs[m]
    BY <1>12
  <2>2. k < m \/ m < k
    BY <1>9, <1>10
  <2> QED
    BY <1>13, <2>1, <2>2
<1>16. \A x \in DOMAIN tree : \E k \in DOMAIN fs : FileOf(fs, k) = x
  <2> SUFFICES ASSUME NEW x \in DOMAIN tree PROVE \E k \in DOMAIN fs : FileOf(fs, k) = x
    OBVIOUS
  <2>1. PICK k \in 1..n : fs[k] = Tfile(x)
    BY <1>6, <1>8 DEF InOrder, n
  <2> QED
    BY <1>2, <1>10, <2>1 DEF FileOf
<1>17. IndexOf(fs, tree)
  BY <1>11, <1>12, <1>14, <1>15, <1>16 DEF IndexOf
<1> QED
  BY <1>17 DEF fs, S

-----------------------------------------------------------------------------
(* Files of one path and system, and what is between two of them.           *)
Akin(fs, k, m) == fs[k].relpath = fs[m].relpath /\ fs[k].target.sys = fs[m].target.sys

(* A place of the index holds a file of the layout and its content.         *)
LEMMA EntryIs ==
  ASSUME NEW f \in Entry
  PROVE  /\ f.relpath \in Int /\ f.relpath \in Relpath /\ f.hash \in Nat /\ f.target \in target_t
         /\ f.target.sys \in Word /\ f.target.arch \in Word /\ f.target.sysver \in Word
         /\ f.target.suffix \in Word /\ Rank(f.target.sys) \in Int
<1>1. f.relpath \in Relpath /\ f.hash \in Nat /\ f.target \in target_t
  BY DEF Entry
<1>2. f.relpath \in Int
  BY <1>1, RelpathInt
<1>3. /\ f.target.sys \in Word /\ f.target.arch \in Word /\ f.target.sysver \in Word
      /\ f.target.suffix \in Word
  BY <1>1 DEF target_t
<1> QED
  BY <1>1, <1>2, <1>3, RankIs

(* Every file of the layout is at a place of the index.                     *)
LEMMA InIndex ==
  ASSUME NEW fs, NEW layout, IndexOf(fs, layout), NEW k \in DOMAIN fs
  PROVE  fs[k] \in Entry /\ k \in Nat /\ k \in 1..Len(fs) /\ Len(fs) \in Nat
<1>1. DOMAIN fs = 1..Len(fs) /\ Len(fs) \in Nat
  BY LenProperties DEF IndexOf
<1>2. fs[k] \in Entry
  BY <1>1, ElementOfSeq DEF IndexOf
<1> QED
  BY <1>1, <1>2

(* What lies between two akin files is akin to them, if the layout keeps    *)
(* the contents of the system together.                                     *)
LEMMA Between ==
  ASSUME NEW fs, NEW layout, IndexOf(fs, layout),
         NEW k \in DOMAIN fs, NEW m \in DOMAIN fs, NEW n \in DOMAIN fs, k < m, m < n, Akin(fs, k, n),
         fs[k].hash = fs[n].hash \/ Undivided(layout, fs[k].relpath, fs[k].target.sys)
  PROVE  Akin(fs, m, k)
<1> DEFINE a == fs[k]
           b == fs[m]
           c == fs[n]
<1>1. a \in Entry /\ b \in Entry /\ c \in Entry
  BY InIndex
<1>2. Precedes(a, b) /\ Precedes(b, c)
  BY DEF IndexOf
<1>3. a.relpath = c.relpath /\ a.target.sys = c.target.sys
  BY DEF Akin
<1>4. /\ FileOf(fs, k) \in DOMAIN layout /\ layout[FileOf(fs, k)] = a.hash
      /\ FileOf(fs, m) \in DOMAIN layout /\ layout[FileOf(fs, m)] = b.hash
      /\ FileOf(fs, n) \in DOMAIN layout /\ layout[FileOf(fs, n)] = c.hash
  BY DEF IndexOf
<1>5. /\ FileOf(fs, k) = <<a.target, a.relpath>> /\ FileOf(fs, m) = <<b.target, b.relpath>>
      /\ FileOf(fs, n) = <<c.target, c.relpath>>
  BY DEF FileOf
<1>6. a.hash = c.hash \/ Undivided(layout, a.relpath, a.target.sys)
  OBVIOUS
<1> HIDE DEF a, b, c
<1>7. /\ a.relpath \in Int /\ b.relpath \in Int /\ a.hash \in Nat /\ b.hash \in Nat /\ c.hash \in Nat
      /\ Rank(a.target.sys) \in Int /\ Rank(b.target.sys) \in Int
      /\ a.target.sys \in Word /\ b.target.sys \in Word
  BY <1>1, EntryIs
<1>8. b.relpath = a.relpath /\ a.hash <= b.hash /\ b.hash <= c.hash
  BY <1>2, <1>3, <1>7 DEF Precedes
<1>9. b.target.sys = a.target.sys
  <2>1. CASE a.hash = c.hash
    <3>1. b.hash = a.hash
      BY <1>7, <1>8, <2>1
    <3>2. Rank(a.target.sys) <= Rank(b.target.sys) /\ Rank(b.target.sys) <= Rank(a.target.sys)
      BY <1>2, <1>3, <1>7, <1>8, <2>1, <3>1 DEF Precedes
    <3>3. Rank(a.target.sys) = Rank(b.target.sys)
      BY <1>7, <3>2
    <3> QED
      BY <1>7, <3>3, RankIs
  <2>2. CASE a.hash # c.hash
    <3> SUFFICES ASSUME b.target.sys # a.target.sys PROVE FALSE
      OBVIOUS
    <3>1. Undivided(layout, a.relpath, a.target.sys)
      BY <1>6, <2>2
    <3> DEFINE x == <<a.target, a.relpath>>
               y == <<c.target, c.relpath>>
               z == <<b.target, b.relpath>>
    <3>2. /\ x \in DOMAIN layout /\ y \in DOMAIN layout /\ z \in DOMAIN layout
          /\ layout[x] = a.hash /\ layout[y] = c.hash /\ layout[z] = b.hash
      BY <1>4, <1>5
    <3>3. /\ x[2] = a.relpath /\ y[2] = a.relpath /\ z[2] = a.relpath
          /\ x[1].sys = a.target.sys /\ y[1].sys = a.target.sys /\ z[1].sys # a.target.sys
      BY <1>3, <1>8
    <3> HIDE DEF x, y, z
    <3>4. layout[x] < layout[y] => layout[z] < layout[x] \/ layout[y] < layout[z]
      BY <3>1, <3>2, <3>3 DEF Undivided
    <3> QED
      BY <1>7, <1>8, <2>2, <3>2, <3>4
  <2> QED
    BY <2>1, <2>2
<1> QED
  BY <1>8, <1>9 DEF Akin, a, b

-----------------------------------------------------------------------------
(* If neighbours are alike, all are.                                        *)
LEMMA Alike ==
  ASSUME NEW s \in Nat, NEW e \in Nat, NEW f, \A k \in (s + 1)..e : f[k] = f[k - 1]
  PROVE  \A k \in s..e : f[k] = f[s]
<1> DEFINE Good == {d \in Nat : s + d <= e => f[s + d] = f[s]}
<1>1. 0 \in Good
  <2>1. s + 0 = s
    OBVIOUS
  <2> QED
    BY <2>1
<1>2. ASSUME NEW d \in Nat, d \in Good PROVE d + 1 \in Good
  <2> SUFFICES ASSUME s + (d + 1) <= e PROVE f[s + (d + 1)] = f[s]
    OBVIOUS
  <2> DEFINE k == s + (d + 1)
  <2>1. k \in (s + 1)..e /\ k - 1 = s + d /\ s + d <= e
    OBVIOUS
  <2>2. f[s + d] = f[s]
    BY <1>2, <2>1
  <2> HIDE DEF k
  <2>3. f[k] = f[k - 1]
    BY <2>1
  <2>4. f[k] = f[s]
    BY <2>1, <2>2, <2>3
  <2> QED
    BY <2>4 DEF k
<1>3. \A d \in Nat : d \in Good
  <2> HIDE DEF Good
  <2> QED
    BY <1>1, <1>2, NatInd
<1>4. ASSUME NEW k \in s..e PROVE f[k] = f[s]
  <2>1. k - s \in Nat /\ s + (k - s) = k /\ k <= e
    OBVIOUS
  <2>2. k - s \in Good
    BY <1>3, <2>1
  <2>3. s + (k - s) <= e => f[s + (k - s)] = f[s]
    BY <2>2
  <2> QED
    BY <2>1, <2>3
<1> QED
  BY <1>4

-----------------------------------------------------------------------------
(* s to e is a longest part of one path and system, of two files or more.   *)
IsSegment(fs, s, e) ==
  /\ s \in DOMAIN fs /\ e \in DOMAIN fs /\ s < e
  /\ \A k \in s..e : Akin(fs, k, s)
  /\ s > 1 => ~Akin(fs, s - 1, s)
  /\ e < Len(fs) => ~Akin(fs, e + 1, e)

(* The parts are apart from each other and in order.                        *)
Ascending(q) == \A i, j \in DOMAIN q : i < j => q[i][2] < q[j][1]

(* The successor of a number, and what lies below it.                       *)
LEMMA Next1 ==
  ASSUME NEW s \in Nat, NEW e \in Nat, s < e
  PROVE  /\ s \in s..e /\ s + 1 \in s..e /\ s + 1 \in (s + 1)..e /\ e \in s..e /\ e \in (s + 1)..e
         /\ \A i \in (s + 1)..e : i \in s..e /\ i - 1 \in s..e
         /\ \A n \in Nat : e <= n /\ 1 <= s => \A i \in s..e : i \in 1..n
  OBVIOUS

(* process_tfiles cuts the index into all its segments.                     *)
LEMMA SegmentsAre ==
  ASSUME NEW fs \in Seq(Entry), Len(fs) >= 2
  PROVE  /\ \A i \in DOMAIN Segments(fs) : IsSegment(fs, Segments(fs)[i][1], Segments(fs)[i][2])
         /\ Ascending(Segments(fs))
         /\ \A s, e : IsSegment(fs, s, e) => \E i \in DOMAIN Segments(fs) : Segments(fs)[i] = <<s, e>>
<1> DEFINE n == Len(fs)
           Cut(i) == fs[i].relpath # fs[i-1].relpath \/ fs[i].target.sys # fs[i-1].target.sys
           cuts == {i \in 2..n : Cut(i)}
           starts == {1} \cup cuts
           ends == {i - 1 : i \in cuts} \cup {n}
           q == Segments(fs)
           f == [k \in 1..n |-> <<fs[k].relpath, fs[k].target.sys>>]
<1>1. q = Runs(starts, ends)
  BY DEF Segments
<1>2. n \in Nat /\ n >= 2 /\ DOMAIN fs = 1..n
  BY LenProperties
<1>3. \A i \in 2..n : i \in cuts <=> f[i] # f[i-1]
  <2> SUFFICES ASSUME NEW i \in 2..n PROVE i \in cuts <=> f[i] # f[i-1]
    OBVIOUS
  <2>1. i \in 1..n /\ i - 1 \in 1..n
    BY <1>2
  <2>2. f[i] = <<fs[i].relpath, fs[i].target.sys>> /\ f[i-1] = <<fs[i-1].relpath, fs[i-1].target.sys>>
    BY <2>1
  <2> HIDE DEF f
  <2> QED
    BY <2>2
<1>4. \A k, m \in 1..n : Akin(fs, k, m) <=> f[k] = f[m]
  BY DEF Akin
<1>5. cuts \subseteq 2..n
  OBVIOUS
<1> HIDE DEF cuts, f, q
<1>6. starts \in SUBSET (1..n) /\ ends \in SUBSET (1..n) /\ \A x \in ends : x + 1 \in starts \/ x = n
  BY <1>2, <1>5
<1>7. \A x : x \in starts <=> x = 1 \/ x \in cuts
  OBVIOUS
<1>8. \A x : x \in ends <=> x = n \/ \E i \in cuts : x = i - 1
  BY SMTT(60)
<1> HIDE DEF starts, ends
<1>9. ListsRuns(q, starts, ends)
  <2> DEFINE one == 1
  <2>1. one \in Nat /\ starts \in SUBSET (one..n) /\ ends \in SUBSET (one..n)
    BY <1>6
  <2> HIDE DEF one
  <2> QED
    BY <1>1, <1>2, <1>6, <2>1, RunsAre
<1>10. ASSUME NEW r \in RunSet(starts, ends) PROVE IsSegment(fs, r[1], r[2])
  <2> DEFINE s == r[1]
             e == r[2]
  <2>1. s \in starts /\ e \in ends /\ s < e /\ \A x \in starts : ~(s < x /\ x <= e)
    BY RunIs
  <2> HIDE DEF s, e
  <2>2. s \in 1..n /\ e \in 1..n
    BY <1>6, <2>1
  <2>3. \A k \in (s + 1)..e : f[k] = f[k-1]
    BY <1>2, <1>3, <1>7, <2>1, <2>2
  <2>4. \A k \in s..e : f[k] = f[s]
    <3>1. s \in Nat /\ e \in Nat
      BY <2>2
    <3> QED
      BY <2>3, <3>1, Alike
  <2>5. \A k \in s..e : Akin(fs, k, s)
    BY <1>2, <1>4, <2>2, <2>4
  <2>6. s > 1 => ~Akin(fs, s - 1, s)
    <3> SUFFICES ASSUME s > 1 PROVE ~Akin(fs, s - 1, s)
      OBVIOUS
    <3>1. s \in 2..n /\ s - 1 \in 1..n /\ s \in cuts
      BY <1>2, <1>7, <2>1, <2>2
    <3> QED
      BY <1>3, <1>4, <2>2, <3>1
  <2>7. e < n => ~Akin(fs, e + 1, e)
    <3> SUFFICES ASSUME e < n PROVE ~Akin(fs, e + 1, e)
      OBVIOUS
    <3>1. PICK i \in cuts : e = i - 1
      BY <1>2, <1>8, <2>1, <2>2
    <3>2. i \in 2..n /\ i = e + 1 /\ e + 1 \in 1..n
      BY <1>2, <1>5, <3>1
    <3> QED
      BY <1>3, <1>4, <2>2, <3>1, <3>2
  <2> QED
    BY <1>2, <2>1, <2>2, <2>5, <2>6, <2>7 DEF IsSegment, n, s, e
<1>11. ASSUME NEW s, NEW e, IsSegment(fs, s, e) PROVE <<s, e>> \in RunSet(starts, ends)
  <2>1. s \in 1..n /\ e \in 1..n /\ s < e /\ (\A k \in s..e : Akin(fs, k, s))
        /\ (s > 1 => ~Akin(fs, s - 1, s)) /\ (e < n => ~Akin(fs, e + 1, e))
    BY <1>2, <1>11 DEF IsSegment, n
  <2>0. s \in Nat /\ e \in Nat /\ s >= 1 /\ e <= n /\ s < e
    BY <1>2, <2>1
  <2>2. s \in starts
    <3>1. CASE s = 1
      BY <1>7, <3>1
    <3>2. CASE s # 1
      <4>1. s \in 2..n /\ s - 1 \in 1..n /\ s > 1
        BY <1>2, <2>1, <3>2
      <4>2. f[s] # f[s-1]
        BY <1>4, <2>1, <4>1
      <4> QED
        BY <1>3, <1>7, <4>1, <4>2
    <3> QED
      BY <3>1, <3>2
  <2>3. e \in ends
    <3>1. CASE e = n
      BY <1>8, <3>1
    <3>2. CASE e # n
      <4>1. e + 1 \in 2..n /\ e + 1 \in 1..n /\ e < n /\ (e + 1) - 1 = e
        <5> HIDE DEF n
        <5> QED
          BY <1>2, <2>0, <3>2
      <4>2. f[e + 1] # f[e]
        BY <1>4, <2>1, <4>1
      <4>3. e + 1 \in cuts
        BY <1>3, <4>1, <4>2
      <4> QED
        BY <1>8, <4>1, <4>3
    <3> QED
      BY <3>1, <3>2
  <2>4. ASSUME NEW x \in starts, s < x, x <= e PROVE FALSE
    <3>0. x \in 1..n
      BY <1>6
    <3>1. x # 1 /\ x \in 2..n /\ x - 1 \in 1..n /\ x \in s..e /\ x - 1 \in s..e
      BY <1>2, <2>0, <2>4, <3>0
    <3>4. x \in cuts
      BY <1>7, <3>1
    <3>2. f[x] # f[x-1]
      BY <1>3, <3>1, <3>4
    <3>3. f[x] = f[s] /\ f[x-1] = f[s]
      BY <1>4, <2>1, <3>1
    <3> QED
      BY <3>2, <3>3
  <2> QED
    BY <2>1, <2>2, <2>3, <2>4 DEF RunSet
<1>12. (\A i \in DOMAIN q : IsSegment(fs, q[i][1], q[i][2])) /\ Ascending(q)
  BY <1>9, <1>10 DEF ListsRuns, Ascending
<1>13. \A s, e : IsSegment(fs, s, e) => \E i \in DOMAIN q : q[i] = <<s, e>>
  BY <1>9, <1>11 DEF ListsRuns
<1> QED
  BY <1>12, <1>13 DEF q

(* Where all files have a version, the ranges are of one architecture and   *)
(* content; where none has, there are none.                                 *)
OneArch(fs, s, e) == \A k \in s..e : fs[k].target.arch = fs[s].target.arch
OneHash(fs, s, e) == \A k \in s..e : fs[k].hash = fs[s].hash

(* identical_tfile_ranges cuts a segment into the parts of one content      *)
(* whose neighbours are alike.                                              *)
LEMMA RangesAre ==
  ASSUME tfiles \in Seq(Entry), NEW s \in DOMAIN tfiles, NEW e \in DOMAIN tfiles, s < e
  PROVE  /\ (\A k \in s..e : tfiles[k].target.sysver # "") =>
              /\ Ascending(VersionRanges(s, e))
              /\ \A i \in DOMAIN VersionRanges(s, e) :
                   LET r == VersionRanges(s, e)[i]
                   IN /\ r[1] \in s..e /\ r[2] \in s..e /\ r[1] < r[2]
                      /\ OneArch(tfiles, r[1], r[2]) /\ OneHash(tfiles, r[1], r[2])
         /\ (\A k \in s..e : tfiles[k].target.sysver = "") => DOMAIN VersionRanges(s, e) = {}
<1> DEFINE Unversioned(i) == tfiles[i].target.sysver = ""
           Break(i) == \/ tfiles[i].hash # tfiles[i-1].hash
                       \/ tfiles[i].target.arch # tfiles[i-1].target.arch
           breaks == {i \in (s + 1)..e : ~Unversioned(i) /\ Break(i)}
           starts == {IF Unversioned(s) THEN s + 1 ELSE s} \cup breaks
                       \cup {i \in (s + 1)..e : Unversioned(i)}
           ends == {i - 1 : i \in breaks} \cup {e}
           q == VersionRanges(s, e)
           n == Len(tfiles)
           f == [k \in 1..n |-> <<tfiles[k].hash, tfiles[k].target.arch>>]
<1>1. q = Runs(starts, ends)
  BY DEF VersionRanges
<1>2. n \in Nat /\ DOMAIN tfiles = 1..n /\ s \in 1..n /\ e \in 1..n /\ s \in Nat /\ e \in Nat
  BY LenProperties
<1>3. breaks \subseteq (s + 1)..e
  OBVIOUS
<1>0. s \in Nat /\ e \in Nat /\ s < e /\ 1 <= s /\ e <= n
  BY <1>2
<1>00. /\ s \in s..e /\ s + 1 \in s..e /\ s + 1 \in (s + 1)..e /\ e \in s..e /\ e \in (s + 1)..e
       /\ \A i \in (s + 1)..e : i \in s..e /\ i - 1 \in s..e
       /\ \A i \in s..e : i \in 1..n
  BY <1>0, <1>2, Next1
<1>4. starts \in SUBSET (s..e)
  <2>1. (IF Unversioned(s) THEN s + 1 ELSE s) \in s..e
    BY <1>00
  <2>2. \A i \in (s + 1)..e : i \in s..e
    BY <1>0
  <2> QED
    BY <1>3, <2>1, <2>2
<1>5. ends \in SUBSET (s..e) /\ \A x \in ends : x + 1 \in starts \/ x = e
  <2>1. \A x \in ends : x = e \/ \E i \in breaks : x = i - 1
    OBVIOUS
  <2>2. breaks \subseteq starts
    OBVIOUS
  <2> HIDE DEF breaks, starts, ends
  <2> QED
    BY <1>2, <1>3, <2>1, <2>2
<1>6. ListsRuns(q, starts, ends)
  <2> HIDE DEF starts, ends, q
  <2> QED
    BY <1>1, <1>2, <1>4, <1>5, RunsAre
<1>7. ASSUME \A k \in s..e : tfiles[k].target.sysver # "", NEW r \in RunSet(starts, ends)
      PROVE  /\ r[1] \in s..e /\ r[2] \in s..e /\ r[1] < r[2]
             /\ OneArch(tfiles, r[1], r[2]) /\ OneHash(tfiles, r[1], r[2])
  <2> DEFINE a == r[1]
             b == r[2]
  <2>1. \A i \in (s + 1)..e : (f[i] # f[i-1]) => i \in starts
    <3> SUFFICES ASSUME NEW i \in (s + 1)..e, f[i] # f[i-1] PROVE i \in breaks
      OBVIOUS
    <3>1. i \in 1..n /\ i - 1 \in 1..n /\ i \in s..e
      BY <1>00
    <3>2. f[i] = <<tfiles[i].hash, tfiles[i].target.arch>>
          /\ f[i-1] = <<tfiles[i-1].hash, tfiles[i-1].target.arch>>
      BY <3>1
    <3> HIDE DEF f
    <3>3. Break(i)
      BY <3>2
    <3> QED
      BY <1>7, <3>1, <3>3
  <2> HIDE DEF starts, ends
  <2>2. a \in starts /\ b \in ends /\ a < b /\ \A x \in starts : ~(a < x /\ x <= b)
    BY RunIs
  <2> HIDE DEF a, b
  <2>3. a \in s..e /\ b \in s..e
    BY <1>4, <1>5, <2>2
  <2>4. \A k \in (a + 1)..b : f[k] = f[k-1]
    <3> SUFFICES ASSUME NEW k \in (a + 1)..b PROVE f[k] = f[k-1]
      OBVIOUS
    <3>1. k \in (s + 1)..e /\ a < k /\ k <= b
      BY <1>0, <2>3
    <3> HIDE DEF f
    <3> QED
      BY <2>1, <2>2, <3>1
  <2>5. a \in Nat /\ b \in Nat
    BY <1>2, <2>3
  <2>6. \A k \in a..b : f[k] = f[a]
    <3> HIDE DEF f
    <3> QED
      BY <2>4, <2>5, Alike
  <2>7. \A k \in a..b : tfiles[k].hash = tfiles[a].hash /\ tfiles[k].target.arch = tfiles[a].target.arch
    <3> SUFFICES ASSUME NEW k \in a..b
                 PROVE  tfiles[k].hash = tfiles[a].hash /\ tfiles[k].target.arch = tfiles[a].target.arch
      OBVIOUS
    <3>1. k \in 1..n /\ a \in 1..n
      BY <1>2, <2>3
    <3>2. f[k] = f[a]
      BY <2>6
    <3>3. f[k] = <<tfiles[k].hash, tfiles[k].target.arch>> /\ f[a] = <<tfiles[a].hash, tfiles[a].target.arch>>
      BY <3>1
    <3> DEFINE g == <<tfiles[k].hash, tfiles[k].target.arch>>
               h == <<tfiles[a].hash, tfiles[a].target.arch>>
    <3>4. g[1] = tfiles[k].hash /\ g[2] = tfiles[k].target.arch
          /\ h[1] = tfiles[a].hash /\ h[2] = tfiles[a].target.arch
      OBVIOUS
    <3>5. g = h
      <4> HIDE DEF f
      <4> QED
        BY <3>2, <3>3
    <3> HIDE DEF g, h
    <3> QED
      BY <3>4, <3>5
  <2> QED
    BY <2>2, <2>3, <2>7 DEF OneArch, OneHash, a, b
<1>8. ASSUME \A k \in s..e : tfiles[k].target.sysver = "" PROVE RunSet(starts, ends) = {}
  <2> SUFFICES ASSUME NEW r \in RunSet(starts, ends) PROVE FALSE
    OBVIOUS
  <2>0. Unversioned(s) /\ \A x \in (s + 1)..e : Unversioned(x)
    BY <1>00, <1>8
  <2>1. \A x \in (s + 1)..e : x \in starts
    BY <2>0
  <2>2. \A x \in starts : x \in (s + 1)..e
    <3>1. s + 1 \in (s + 1)..e
      BY <1>00
    <3> QED
      BY <1>3, <2>0, <3>1
  <2> HIDE DEF starts, ends
  <2>3. r[1] \in starts /\ r[2] \in ends /\ r[1] < r[2] /\ \A x \in starts : ~(r[1] < x /\ x <= r[2])
    BY RunIs
  <2>4. r[1] \in s..e /\ r[2] \in s..e
    BY <1>4, <1>5, <2>3
  <2>5. r[2] \in (s + 1)..e
    <3> HIDE DEF n
    <3> QED
      BY <1>0, <2>3, <2>4
  <2> QED
    BY <1>0, <2>1, <2>3, <2>4, <2>5
<1> HIDE DEF starts, ends
<1>9. (\A k \in s..e : tfiles[k].target.sysver = "") => DOMAIN q = {}
  BY <1>6, <1>8 DEF ListsRuns
<1>10. ASSUME \A k \in s..e : tfiles[k].target.sysver # ""
       PROVE  /\ Ascending(q)
              /\ \A i \in DOMAIN q :
                   LET r == q[i]
                   IN /\ r[1] \in s..e /\ r[2] \in s..e /\ r[1] < r[2]
                      /\ OneArch(tfiles, r[1], r[2]) /\ OneHash(tfiles, r[1], r[2])
  <2> HIDE DEF q
  <2> QED
    BY <1>6, <1>7, <1>10 DEF ListsRuns, Ascending
<1> QED
  BY <1>9, <1>10

-----------------------------------------------------------------------------

(* All files of a header and a system have one content.                     *)
Uniform(fs, s) == \A k \in DOMAIN fs : Akin(fs, k, s) => fs[k].hash = fs[s].hash

(* What dedup_tfiles may merge: a segment of one content, or files of one   *)
(* architecture and content where the header has others.                    *)
Group(fs, s, e) ==
  /\ s \in DOMAIN fs /\ e \in DOMAIN fs /\ s < e
  /\ \A k \in s..e : Akin(fs, k, s)
  /\ OneHash(fs, s, e)
  /\ IsSegment(fs, s, e) \/ (OneArch(fs, s, e) /\ ~Uniform(fs, s))
  /\ Covered(SubSeq(fs, s, e))

(* The target of the common file of a group: any-SYSTEM if the group is of  *)
(* several architectures, else the architecture without a version.          *)
Goal(fs, s, e) ==
  [fs[s].target EXCEPT !.sysver = "", !.arch = IF OneArch(fs, s, e) THEN fs[s].target.arch ELSE "any"]

(* The common file of the group.                                            *)
Place(fs, s, e) == <<Goal(fs, s, e), fs[s].relpath>>

(* The k-th file is of a target with a version.                             *)
Versioned(fs, k) == fs[k].target.sysver # ""

(* A target is its four parts.                                              *)
LEMMA SameTarget ==
  ASSUME NEW t \in target_t, NEW u \in target_t, t.arch = u.arch, t.sys = u.sys,
         t.sysver = u.sysver, t.suffix = u.suffix
  PROVE  t = u
  BY DEF target_t

(* The numbers from one to nine, one by one.                                *)
LEMMA OneToNine ==
  ASSUME NEW i \in 1..9
  PROVE  i = 1 \/ i = 2 \/ i = 3 \/ i = 4 \/ i = 5 \/ i = 6 \/ i = 7 \/ i = 8 \/ i = 9
  OBVIOUS

(* Only macOS has versions among the supported targets.                     *)
LEMMA MacOnly ==
  ASSUME NEW t \in ToSet(SupportedTargets), t.sysver # ""
  PROVE  t.sys = "macos" /\ t.arch \in {"aarch64", "x86_64"} /\ t.suffix = ""
<1>1. PICK i \in DOMAIN SupportedTargets : t = SupportedTargets[i]
  BY DEF ToSet
<1>2. DOMAIN SupportedTargets = 1..9
  BY SupportedIs, LenProperties
<1>3. i \in 1..9
  BY <1>1, <1>2
<1>4. CASE i = 1
  BY <1>1, <1>4, SupportedAre
<1>5. CASE i = 2
  BY <1>1, <1>5, SupportedAre
<1>6. CASE i = 3
  BY <1>1, <1>6, SupportedAre
<1>7. CASE i = 4
  BY <1>1, <1>7, SupportedAre
<1>8. CASE i = 5
  BY <1>1, <1>8, SupportedAre
<1>9. CASE i = 6
  BY <1>1, <1>9, SupportedAre
<1>10. CASE i = 7
  BY <1>1, <1>10, SupportedAre
<1>11. CASE i = 8
  BY <1>1, <1>11, SupportedAre
<1>12. CASE i = 9
  BY <1>1, <1>12, SupportedAre
<1>13. i = 1 \/ i = 2 \/ i = 3 \/ i = 4 \/ i = 5 \/ i = 6 \/ i = 7 \/ i = 8 \/ i = 9
  BY <1>3, OneToNine
<1> QED
  BY <1>4, <1>5, <1>6, <1>7, <1>8, <1>9, <1>10, <1>11, <1>12, <1>13

(* What an orderly layout says of one file of the index.                    *)
LEMMA OrderlyFile ==
  ASSUME NEW fs, NEW layout, IndexOf(fs, layout), Orderly(layout), NEW k \in DOMAIN fs
  PROVE  /\ fs[k].target.arch # "any" /\ fs[k].target.sys # "any"
         /\ Versioned(fs, k) => fs[k].target.sys = "macos" /\ fs[k].target.arch \in {"aarch64", "x86_64"}
<1> DEFINE t == fs[k].target
           x == FileOf(fs, k)
           u == [x[1] EXCEPT !.suffix = ""]
<1>1. x \in DOMAIN layout /\ x[1] = t
  BY DEF IndexOf, FileOf
<1>2. t \in target_t
  BY InIndex, EntryIs
<1>3. /\ x[1].arch # "any" /\ x[1].sys # "any"
      /\ x[1].sysver # "" => [x[1] EXCEPT !.suffix = ""] \in ToSet(SupportedTargets)
  <2> HIDE DEF x
  <2> QED
    BY <1>1 DEF Orderly
<1>4. u.sysver = t.sysver /\ u.sys = t.sys /\ u.arch = t.arch
  BY <1>1, <1>2 DEF target_t
<1> HIDE DEF x, u
<1>5. ASSUME t.sysver # "" PROVE t.sys = "macos" /\ t.arch \in {"aarch64", "x86_64"}
  <2>1. u \in ToSet(SupportedTargets) /\ u.sysver # ""
    BY <1>1, <1>3, <1>4, <1>5 DEF u
  <2>2. u.sys = "macos" /\ u.arch \in {"aarch64", "x86_64"}
    BY <2>1, MacOnly
  <2> QED
    BY <1>4, <2>2
<1> QED
  BY <1>1, <1>3, <1>5 DEF Versioned

(* What it says of two akin files.                                          *)
LEMMA OrderlyAkin ==
  ASSUME NEW fs, NEW layout, IndexOf(fs, layout), Orderly(layout),
         NEW k \in DOMAIN fs, NEW m \in DOMAIN fs, Akin(fs, k, m)
  PROVE  fs[k].target.suffix = fs[m].target.suffix /\ (Versioned(fs, k) <=> Versioned(fs, m))
<1> DEFINE x == FileOf(fs, k)
           y == FileOf(fs, m)
<1>1. /\ x \in DOMAIN layout /\ x[1] = fs[k].target /\ x[2] = fs[k].relpath
      /\ y \in DOMAIN layout /\ y[1] = fs[m].target /\ y[2] = fs[m].relpath
  BY DEF IndexOf, FileOf
<1>2. x[2] = y[2] /\ x[1].sys = y[1].sys
  BY <1>1 DEF Akin
<1> HIDE DEF x, y
<1>3. x[1].suffix = y[1].suffix /\ (x[1].sysver = "" <=> y[1].sysver = "")
  BY <1>1, <1>2 DEF Orderly
<1> QED
  BY <1>1, <1>3 DEF Versioned

(* Akin files of one architecture and version are one.                      *)
LEMMA OneFile ==
  ASSUME NEW fs, NEW layout, IndexOf(fs, layout), Orderly(layout),
         NEW k \in DOMAIN fs, NEW m \in DOMAIN fs, Akin(fs, k, m),
         fs[k].target.arch = fs[m].target.arch, fs[k].target.sysver = fs[m].target.sysver
  PROVE  k = m
<1>1. fs[k].target \in target_t /\ fs[m].target \in target_t
  BY InIndex, EntryIs
<1>2. fs[k].target.suffix = fs[m].target.suffix
  BY OrderlyAkin
<1>3. fs[k].target.sys = fs[m].target.sys /\ fs[k].relpath = fs[m].relpath
  BY DEF Akin
<1>4. fs[k].target = fs[m].target
  BY <1>1, <1>2, <1>3, SameTarget
<1>5. FileOf(fs, k) = FileOf(fs, m)
  BY <1>3, <1>4 DEF FileOf
<1> QED
  BY <1>5 DEF IndexOf

(* Akin files of one target are the same place of the index.                *)
LEMMA AkinSame ==
  ASSUME NEW fs, NEW k, NEW m, NEW n
  PROVE  /\ Akin(fs, k, k)
         /\ Akin(fs, k, m) => Akin(fs, m, k)
         /\ Akin(fs, k, m) /\ Akin(fs, m, n) => Akin(fs, k, n)
  BY DEF Akin

(* The files given to dedup_tfiles are those of the index from s to e.      *)
LEMMA PartIs ==
  ASSUME NEW fs \in Seq(Entry), NEW s \in DOMAIN fs, NEW e \in DOMAIN fs, s < e
  PROVE  /\ SubSeq(fs, s, e) \in Seq(Entry) /\ Len(SubSeq(fs, s, e)) >= 2
         /\ \A i \in DOMAIN SubSeq(fs, s, e) :
              i \in Nat /\ s + i - 1 \in s..e /\ SubSeq(fs, s, e)[i] = fs[s + i - 1]
         /\ \A k \in s..e : k - s + 1 \in DOMAIN SubSeq(fs, s, e) /\ SubSeq(fs, s, e)[k - s + 1] = fs[k]
         /\ \A k \in s..e : k \in DOMAIN fs
<1>1. DOMAIN fs = 1..Len(fs) /\ Len(fs) \in Nat
  BY LenProperties
<1> DEFINE n == Len(fs)
           q == SubSeq(fs, s, e)
<1>2. s \in 1..n /\ e \in 1..n /\ n \in Nat
  BY <1>1
<1> HIDE DEF n
<1>3. s \in Nat /\ e \in Nat /\ e - s + 1 \in Nat /\ e - s + 1 >= 2 /\ s >= 1 /\ e <= n
  BY <1>2
<1>4. \A k \in s..e : k \in 1..n
  BY <1>2
<1>5. Len(q) = e - s + 1 /\ q \in Seq(Entry) /\ \A i \in 1..(e - s + 1) : q[i] = fs[s + i - 1]
  BY <1>1, <1>2, <1>3, <1>4, SubSeqProperties DEF n
<1>6. DOMAIN q = 1..(e - s + 1)
  BY <1>5, LenProperties
<1> HIDE DEF q
<1>7. \A i \in DOMAIN q : i \in Nat /\ s + i - 1 \in s..e /\ q[i] = fs[s + i - 1]
  BY <1>3, <1>5, <1>6, SMTT(60)
<1>8. \A k \in s..e : k - s + 1 \in DOMAIN q /\ q[k - s + 1] = fs[k]
  <2> SUFFICES ASSUME NEW k \in s..e PROVE k - s + 1 \in DOMAIN q /\ q[k - s + 1] = fs[k]
    OBVIOUS
  <2>1. k - s + 1 \in 1..(e - s + 1) /\ s + (k - s + 1) - 1 = k
    BY <1>3, SMTT(60)
  <2> QED
    BY <1>5, <1>6, <2>1
<1> QED
  BY <1>1, <1>3, <1>4, <1>5, <1>7, <1>8 DEF q, n

-----------------------------------------------------------------------------
(* What makes dedup_tfiles merge: unversioned files, or the files of one    *)
(* architecture with its first version, or of both with 10 and 11.          *)
FirstVersion(arch) == IF arch = "aarch64" THEN "11" ELSE "10"

(* The files of a group are akin, of one content and of real architectures. *)
LEMMA GroupFiles ==
  ASSUME NEW fs, NEW layout, IndexOf(fs, layout), Orderly(layout), NEW s, NEW e, Group(fs, s, e)
  PROVE  /\ s \in DOMAIN fs /\ e \in DOMAIN fs /\ s \in Nat /\ e \in Nat /\ s < e
         /\ s \in s..e /\ e \in s..e /\ s + 1 \in s..e
         /\ \A k \in s..e : k \in DOMAIN fs /\ Akin(fs, k, s) /\ fs[k].hash = fs[s].hash
                            /\ fs[k].target.suffix = fs[s].target.suffix
                            /\ (Versioned(fs, k) <=> Versioned(fs, s))
<1>1. s \in DOMAIN fs /\ e \in DOMAIN fs /\ s < e /\ fs \in Seq(Entry)
  BY DEF Group, IndexOf
<1>2. s \in Nat /\ e \in Nat
  BY <1>1, InIndex
<1>3. \A k \in s..e : k \in DOMAIN fs
  BY <1>1, PartIs
<1>4. \A k \in s..e : Akin(fs, k, s) /\ fs[k].hash = fs[s].hash
  BY DEF Group, OneHash
<1>5. \A k \in s..e : fs[k].target.suffix = fs[s].target.suffix /\ (Versioned(fs, k) <=> Versioned(fs, s))
  BY <1>1, <1>3, <1>4, OrderlyAkin
<1> QED
  BY <1>1, <1>2, <1>3, <1>4, <1>5, Next1

(* If dedup_tfiles goes on with a group, the versions have all come: those  *)
(* of the one architecture or of both.                                      *)
LEMMA GroupVersions ==
  ASSUME NEW fs, NEW layout, IndexOf(fs, layout), Orderly(layout), NEW s, NEW e, Group(fs, s, e),
         Versioned(fs, s)
  PROVE  /\ fs[s].target.sys = "macos"
         /\ OneArch(fs, s, e) =>
              \E k \in s..e : fs[k].target.sysver = FirstVersion(fs[s].target.arch)
         /\ ~OneArch(fs, s, e) =>
              /\ \E k \in s..e : fs[k].target.sysver = "10"
              /\ \E k \in s..e : fs[k].target.sysver = "11"
              /\ \E k \in s..e : fs[k].target.arch = "aarch64"
              /\ \E k \in s..e : fs[k].target.arch = "x86_64"
<1> DEFINE files == SubSeq(fs, s, e)
<1>1. /\ s \in DOMAIN fs /\ e \in DOMAIN fs /\ s \in Nat /\ e \in Nat /\ s < e
      /\ \A k \in s..e : k \in DOMAIN fs /\ Akin(fs, k, s) /\ (Versioned(fs, k) <=> Versioned(fs, s))
  BY GroupFiles
<1>2. s \in s..e
  BY <1>1
<1>3. /\ files \in Seq(Entry) /\ Len(files) >= 2
      /\ \A i \in DOMAIN files : s + i - 1 \in s..e /\ files[i] = fs[s + i - 1]
      /\ \A k \in s..e : k - s + 1 \in DOMAIN files /\ files[k - s + 1] = fs[k]
  BY <1>1, PartIs, SMTT(60) DEF IndexOf
<1>4. \A v \in Versions(files) : \E i \in DOMAIN files : files[i].target.sysver = v
  BY DEF Group, Covered
<1> HIDE DEF files
<1>5. \A k \in s..e : fs[k].target.sys = "macos" /\ fs[k].target.arch \in {"aarch64", "x86_64"}
  BY <1>1, OrderlyFile
<1>6. \A i \in DOMAIN files : files[i].target.sys = "macos" /\ files[i].target.arch \in {"aarch64", "x86_64"}
  BY <1>3, <1>5, SMTT(60)
<1>7. ASSUME NEW v \in Versions(files) PROVE \E k \in s..e : fs[k].target.sysver = v
  BY <1>3, <1>4, SMTT(60)
<1>8. CASE OneArch(fs, s, e)
  <2> DEFINE arch == fs[s].target.arch
             v == IF arch = "aarch64" THEN "11" ELSE "10"
  <2>1. \A i \in DOMAIN files : files[i].target.arch = arch
    BY <1>3, <1>8 DEF OneArch
  <2>2. arch \in {"aarch64", "x86_64"}
    BY <1>2, <1>5
  <2>3. v = FirstVersion(arch)
    BY DEF FirstVersion
  <2>4. Len(files) >= 1
    <3>1. Len(files) \in Nat
      BY <1>3, LenProperties
    <3> QED
      BY <1>3, <3>1
  <2> HIDE DEF arch
  <2>5. Versions(files) = {v}
    BY <1>3, <1>6, <2>1, <2>2, <2>4, VersionsOne
  <2>6. v \in Versions(files)
    BY <2>5
  <2>7. \E k \in s..e : fs[k].target.sysver = v
    BY <1>7, <2>6
  <2>8. \E k \in s..e : fs[k].target.sysver = FirstVersion(arch)
    BY <2>3, <2>7
  <2> QED
    BY <1>2, <1>5, <1>8, <2>8 DEF arch
<1>9. CASE ~OneArch(fs, s, e)
  <2>1. PICK k \in s..e : fs[k].target.arch # fs[s].target.arch
    BY <1>9 DEF OneArch
  <2>2. (\E m \in s..e : fs[m].target.arch = "aarch64") /\ (\E m \in s..e : fs[m].target.arch = "x86_64")
    BY <1>2, <1>5, <2>1
  <2>3. (\E i \in DOMAIN files : files[i].target.arch = "aarch64")
        /\ (\E i \in DOMAIN files : files[i].target.arch = "x86_64")
    <3>1. ASSUME NEW a, NEW m \in s..e, fs[m].target.arch = a
          PROVE  \E i \in DOMAIN files : files[i].target.arch = a
      <4> DEFINE i == m - s + 1
      <4>1. i \in DOMAIN files /\ files[i] = fs[m]
        BY <1>3
      <4> HIDE DEF i
      <4> QED
        BY <3>1, <4>1
    <3> QED
      BY <2>2, <3>1
  <2>4. Versions(files) = {"10", "11"}
    BY <1>3, <1>6, <2>3, VersionsTwo
  <2>5. "10" \in Versions(files) /\ "11" \in Versions(files)
    BY <2>4
  <2>6. (\E m \in s..e : fs[m].target.sysver = "10") /\ (\E m \in s..e : fs[m].target.sysver = "11")
    BY <1>7, <2>5
  <2> QED
    BY <1>2, <1>5, <1>9, <2>2, <2>6
<1> QED
  BY <1>8, <1>9

(* Files of one architecture are several only if they have versions.        *)
LEMMA OneArchVersioned ==
  ASSUME NEW fs, NEW layout, IndexOf(fs, layout), Orderly(layout), NEW s, NEW e, Group(fs, s, e),
         OneArch(fs, s, e)
  PROVE  Versioned(fs, s)
<1> SUFFICES ASSUME ~Versioned(fs, s) PROVE FALSE
  OBVIOUS
<1> DEFINE m == s + 1
<1>1. s \in Nat /\ s \in s..e /\ m \in s..e /\ s \in DOMAIN fs /\ m \in DOMAIN fs
  BY GroupFiles
<1>2. s # m
  BY <1>1
<1> HIDE DEF m
<1>3. Akin(fs, m, s) /\ ~Versioned(fs, m)
  BY <1>1, GroupFiles
<1>4. fs[m].target.arch = fs[s].target.arch
  BY <1>1 DEF OneArch
<1>5. fs[m].target.sysver = fs[s].target.sysver
  BY <1>3 DEF Versioned
<1> QED
  BY <1>1, <1>2, <1>3, <1>4, <1>5, OneFile

(* The common target is never the target of a file of the group, and it has *)
(* no version.                                                              *)
LEMMA GoalIs ==
  ASSUME NEW fs, NEW s \in DOMAIN fs, NEW e \in DOMAIN fs, fs[s].target \in target_t
  PROVE  /\ Goal(fs, s, e) \in target_t /\ Goal(fs, s, e).sysver = ""
         /\ Goal(fs, s, e).sys = fs[s].target.sys /\ Goal(fs, s, e).suffix = fs[s].target.suffix
         /\ OneArch(fs, s, e) => Goal(fs, s, e).arch = fs[s].target.arch
         /\ ~OneArch(fs, s, e) => Goal(fs, s, e).arch = "any"
<1> DEFINE t == fs[s].target
           a == IF OneArch(fs, s, e) THEN t.arch ELSE "any"
           g == [t EXCEPT !.sysver = "", !.arch = a]
<1>1. g = Goal(fs, s, e)
  BY DEF Goal
<1>2. t.arch \in Word /\ t.sys \in Word /\ t.suffix \in Word
  BY DEF target_t
<1>3. a \in Word /\ "" \in Word
  BY <1>2, WordsApart
<1> HIDE DEF a
<1>4. g \in target_t /\ g.sysver = "" /\ g.sys = t.sys /\ g.suffix = t.suffix /\ g.arch = a
  BY <1>2, <1>3 DEF target_t
<1> QED
  BY <1>1, <1>4 DEF a

(* The common file is none of the files there were.                         *)
LEMMA PlaceNew ==
  ASSUME NEW fs, NEW layout, IndexOf(fs, layout), Orderly(layout), NEW s, NEW e, Group(fs, s, e)
  PROVE  Place(fs, s, e) \notin DOMAIN layout
<1> SUFFICES ASSUME Place(fs, s, e) \in DOMAIN layout PROVE FALSE
  OBVIOUS
<1> DEFINE y == Place(fs, s, e)
           g == Goal(fs, s, e)
<1>1. y = <<g, fs[s].relpath>> /\ y[1] = g /\ y[2] = fs[s].relpath
  BY DEF Place
<1>2. s \in DOMAIN fs /\ e \in DOMAIN fs /\ fs[s].target \in target_t
  BY GroupFiles, InIndex, EntryIs
<1>3. PICK k \in DOMAIN fs : FileOf(fs, k) = y
  BY DEF IndexOf
<1>4. fs[k].target = g /\ fs[k].relpath = fs[s].relpath
  BY <1>1, <1>3 DEF FileOf
<1>5. g.sysver = "" /\ g.sys = fs[s].target.sys /\ (~OneArch(fs, s, e) => g.arch = "any")
  <2>1. Goal(fs, s, e).sysver = "" /\ Goal(fs, s, e).sys = fs[s].target.sys
        /\ (~OneArch(fs, s, e) => Goal(fs, s, e).arch = "any")
    <3>1. fs[s].target \in target_t
      BY <1>2
    <3> QED
      BY <1>2, <3>1, GoalIs
  <2> QED
    BY <2>1
<1> HIDE DEF g, y
<1>6. Akin(fs, k, s) /\ ~Versioned(fs, k)
  BY <1>4, <1>5 DEF Akin, Versioned
<1>7. fs[k].target.arch # "any"
  BY OrderlyFile
<1>8. OneArch(fs, s, e)
  BY <1>4, <1>5, <1>7
<1>9. Versioned(fs, s)
  BY <1>8, OneArchVersioned
<1> QED
  BY <1>2, <1>6, <1>9, OrderlyAkin

(* Two segments with a file of the same header and system in common are the *)
(* same.                                                                    *)
LEMMA SegmentsMeet ==
  ASSUME NEW fs, NEW layout, IndexOf(fs, layout), NEW s, NEW e, NEW c, NEW d,
         IsSegment(fs, s, e), c \in DOMAIN fs, e < c, Akin(fs, s, c),
         Undivided(layout, fs[s].relpath, fs[s].target.sys)
  PROVE  FALSE
<1>1. s \in DOMAIN fs /\ e \in DOMAIN fs /\ s < e /\ Akin(fs, e, s)
  <2>1. s \in DOMAIN fs /\ e \in DOMAIN fs /\ s < e
    BY DEF IsSegment
  <2>2. s \in Nat /\ e \in Nat
    BY <2>1, InIndex
  <2>3. e \in s..e
    BY <2>1, <2>2
  <2> QED
    BY <2>1, <2>3 DEF IsSegment
<1>2. /\ s \in Nat /\ e \in 1..Len(fs) /\ c \in 1..Len(fs) /\ Len(fs) \in Nat
      /\ DOMAIN fs = 1..Len(fs)
  BY <1>1, InIndex, LenProperties DEF IndexOf
<1> DEFINE m == e + 1
           n == Len(fs)
<1>3. e < n /\ m \in 1..n /\ s < m /\ (m = c \/ m < c)
  <2> HIDE DEF n
  <2>1. e \in Nat /\ c \in Nat /\ n \in Nat /\ e >= 1 /\ c <= n
    BY <1>2 DEF n
  <2> QED
    BY <1>1, <1>2, <2>1
<1>4. ~Akin(fs, m, e) /\ m \in DOMAIN fs
  BY <1>2, <1>3 DEF IsSegment
<1> HIDE DEF m, n
<1>5. Akin(fs, m, s)
  <2>1. CASE m = c
    BY <2>1, AkinSame
  <2>2. CASE m < c
    BY <1>1, <1>3, <1>4, <2>2, Between
  <2> QED
    BY <1>3, <2>1, <2>2
<1> QED
  BY <1>1, <1>4, <1>5, AkinSame

(* Groups with one common file have a file in common.                       *)
LEMMA PlaceApart ==
  ASSUME NEW fs, NEW layout, IndexOf(fs, layout), Orderly(layout),
         NEW s, NEW e, Group(fs, s, e), NEW c, NEW d, Group(fs, c, d),
         Place(fs, s, e) = Place(fs, c, d)
  PROVE  \E k \in s..e : k \in c..d
<1>1. /\ s \in DOMAIN fs /\ e \in DOMAIN fs /\ s \in Nat /\ e \in Nat /\ s < e /\ s \in s..e
      /\ \A k \in s..e : k \in DOMAIN fs /\ Akin(fs, k, s) /\ fs[k].hash = fs[s].hash
  BY GroupFiles
<1>2. /\ c \in DOMAIN fs /\ d \in DOMAIN fs /\ c \in Nat /\ d \in Nat /\ c < d /\ c \in c..d
      /\ \A k \in c..d : k \in DOMAIN fs /\ Akin(fs, k, c) /\ fs[k].hash = fs[c].hash
  BY GroupFiles
<1> DEFINE g == Goal(fs, s, e)
           h == Goal(fs, c, d)
<1>3. g = h /\ fs[s].relpath = fs[c].relpath
  BY DEF Place
<1>4. fs[s].target \in target_t /\ fs[c].target \in target_t
  BY <1>1, <1>2, InIndex, EntryIs
<1>5. /\ g.sys = fs[s].target.sys /\ (OneArch(fs, s, e) => g.arch = fs[s].target.arch)
      /\ (~OneArch(fs, s, e) => g.arch = "any")
      /\ h.sys = fs[c].target.sys /\ (OneArch(fs, c, d) => h.arch = fs[c].target.arch)
      /\ (~OneArch(fs, c, d) => h.arch = "any")
  <2>1. /\ g.sys = fs[s].target.sys /\ (OneArch(fs, s, e) => g.arch = fs[s].target.arch)
        /\ (~OneArch(fs, s, e) => g.arch = "any")
    <3>1. fs[s].target \in target_t
      BY <1>4
    <3> QED
      BY <1>1, <3>1, GoalIs
  <2>2. /\ h.sys = fs[c].target.sys /\ (OneArch(fs, c, d) => h.arch = fs[c].target.arch)
        /\ (~OneArch(fs, c, d) => h.arch = "any")
    <3>1. fs[c].target \in target_t
      BY <1>4
    <3> QED
      BY <1>2, <3>1, GoalIs
  <2> QED
    BY <2>1, <2>2
<1> HIDE DEF g, h
<1>6. Akin(fs, s, c) /\ Akin(fs, c, s)
  BY <1>3, <1>5 DEF Akin
<1>7. fs[s].target.arch # "any" /\ fs[c].target.arch # "any"
  BY <1>1, <1>2, OrderlyFile
<1>8. OneArch(fs, s, e) <=> OneArch(fs, c, d)
  BY <1>3, <1>5, <1>7
<1>9. CASE OneArch(fs, s, e)
  <2>1. OneArch(fs, c, d) /\ fs[s].target.arch = fs[c].target.arch
    BY <1>3, <1>5, <1>8, <1>9
  <2>2. Versioned(fs, s) /\ Versioned(fs, c)
    BY <1>9, <2>1, OneArchVersioned
  <2>3. PICK k \in s..e : fs[k].target.sysver = FirstVersion(fs[s].target.arch)
    BY <1>9, <2>2, GroupVersions
  <2>4. PICK m \in c..d : fs[m].target.sysver = FirstVersion(fs[c].target.arch)
    BY <2>1, <2>2, GroupVersions
  <2>5. fs[k].target.sysver = fs[m].target.sysver
    BY <2>1, <2>3, <2>4
  <2>6. fs[k].target.arch = fs[s].target.arch /\ fs[m].target.arch = fs[c].target.arch
    BY <1>9, <2>1 DEF OneArch
  <2>7. Akin(fs, k, m)
    <3>1. Akin(fs, k, s) /\ Akin(fs, m, c)
      BY <1>1, <1>2
    <3> QED
      BY <1>6, <3>1 DEF Akin
  <2>8. k = m
    BY <1>1, <1>2, <2>1, <2>5, <2>6, <2>7, OneFile
  <2> QED
    BY <2>8
<1>10. CASE ~OneArch(fs, s, e)
  <2>1. IsSegment(fs, s, e) /\ IsSegment(fs, c, d)
    BY <1>8, <1>10 DEF Group
  <2>2. PICK k \in s..e : fs[k].target.arch # fs[s].target.arch
    BY <1>10 DEF OneArch
  <2>3. Undivided(layout, fs[s].relpath, fs[s].target.sys)
    <3> DEFINE x == FileOf(fs, k)
               y == FileOf(fs, s)
    <3>1. /\ x \in DOMAIN layout /\ x[1] = fs[k].target /\ x[2] = fs[k].relpath
          /\ layout[x] = fs[k].hash
          /\ y \in DOMAIN layout /\ y[1] = fs[s].target /\ y[2] = fs[s].relpath
          /\ layout[y] = fs[s].hash
      BY <1>1 DEF IndexOf, FileOf
    <3>2. /\ x[2] = y[2] /\ x[1].sys = y[1].sys /\ x[1].arch # y[1].arch /\ layout[x] = layout[y]
      BY <1>1, <2>2, <3>1 DEF Akin
    <3> HIDE DEF x, y
    <3>3. ~ByArch(layout, y[2], y[1].sys)
      BY <3>1, <3>2 DEF ByArch
    <3>4. Undivided(layout, y[2], y[1].sys)
      BY <3>1, <3>3 DEF Orderly
    <3> QED
      BY <3>1, <3>4
  <2>4. Undivided(layout, fs[c].relpath, fs[c].target.sys)
    BY <1>3, <1>5, <2>3
  <2>5. ~(e < c)
    BY <1>2, <1>6, <2>1, <2>3, SegmentsMeet
  <2>6. ~(d < s)
    BY <1>1, <1>6, <2>1, <2>4, SegmentsMeet
  <2>7. s \in c..d \/ c \in s..e
    BY <1>1, <1>2, <2>5, <2>6
  <2> QED
    BY <1>1, <1>2, <2>7
<1> QED
  BY <1>9, <1>10

-----------------------------------------------------------------------------
(* The intersection of the targets from s to e, step by step.               *)
MeetOp == [y \in target_t \X DOMAIN tfiles |-> target_intersection(y[1], tfiles[y[2]].target)]
After(s, e) == [k \in 1..(e - s) |-> s + k]

(* It stays within the targets.                                             *)
LEMMA MeetTyped ==
  ASSUME tfiles \in Seq(Entry)
  PROVE  /\ MeetOp \in [target_t \X DOMAIN tfiles -> target_t]
         /\ \A t \in target_t, i \in DOMAIN tfiles :
              MeetOp[<<t, i>>] = target_intersection(t, tfiles[i].target)
<1>1. ASSUME NEW t \in target_t, NEW u \in target_t PROVE target_intersection(t, u) \in target_t
  <2>1. t.arch \in Word /\ t.sys \in Word /\ t.sysver \in Word /\ t.suffix \in Word
    BY DEF target_t
  <2> QED
    BY <2>1, WordsApart DEF target_intersection, target_t
<1>2. \A i \in DOMAIN tfiles : tfiles[i].target \in target_t
  BY LenProperties, ElementOfSeq, EntryIs
<1> QED
  BY <1>1, <1>2 DEF MeetOp

(* FoldLeft over the files of a group is the step along them.               *)
LEMMA CommonAlong ==
  ASSUME tfiles \in Seq(Entry), NEW a \in DOMAIN tfiles, NEW b \in DOMAIN tfiles, a < b
  PROVE  /\ Common(a, b) = Along(MeetOp, tfiles[a].target, After(a, b))
         /\ After(a, b) \in Seq(DOMAIN tfiles) /\ Len(After(a, b)) = b - a
         /\ b - a \in Nat /\ \A k \in 1..(b - a) : After(a, b)[k] = a + k
<1> DEFINE s == After(a, b)
           n == Len(s)
           base == tfiles[a].target
           Z == target_t
           E == DOMAIN tfiles
           Body(f, t) == IF t = {} THEN base
                         ELSE target_intersection(f[t \ {Max(t)}], tfiles[s[Max(t)]].target)
           it == CHOOSE f : f = [t \in SUBSET DOMAIN s |-> Body(f, t)]
<1>0. a \in Nat /\ b \in Nat /\ a >= 1 /\ b - a \in Nat /\ E = 1..Len(tfiles) /\ Len(tfiles) \in Nat
      /\ b <= Len(tfiles)
  <2>1. E = 1..Len(tfiles) /\ Len(tfiles) \in Nat
    BY LenProperties
  <2> QED
    BY <2>1
<1>a. \A k \in 1..(b - a) : a + k \in E
  BY <1>0
<1>b. s \in Seq(E) /\ n = b - a /\ \A k \in 1..(b - a) : s[k] = a + k
  <2>1. s \in [1..(b - a) -> E]
    BY <1>a DEF After
  <2> HIDE DEF E
  <2> QED
    BY <1>0, <2>1 DEF After
<1>1. DOMAIN s = 1..n /\ n \in Nat /\ \A k \in 1..n : s[k] \in E
  BY <1>b, <1>a, LenProperties
<1>2. Common(a, b) = it[DOMAIN s]
  BY DEF Common, FoldLeft, MapThenFoldSet, After
<1>3. /\ MeetOp \in [Z \X E -> Z] /\ base \in Z
      /\ \A t \in Z, c \in E : MeetOp[<<t, c>>] = target_intersection(t, tfiles[c].target)
  <2>1. tfiles[a].target \in target_t
    BY LenProperties, ElementOfSeq, EntryIs
  <2> QED
    BY <2>1, MeetTyped
<1> HIDE DEF base, s, Z, E
<1>4. PICK f \in [SUBSET (1..n) -> Z] : Iterates(f, MeetOp, base, s)
  BY <1>b, <1>3, IterExists
<1>5. \A t \in SUBSET (1..n) : f[t] = Body(f, t)
  <2> SUFFICES ASSUME NEW t \in SUBSET (1..n), t # {} PROVE f[t] = Body(f, t)
    BY <1>4 DEF Iterates
  <2>1. Max(t) = Greatest(t) /\ Max(t) \in t
    BY <1>1, GreatestOf DEF Max, Greatest
  <2>2. f[t \ {Max(t)}] \in Z /\ s[Max(t)] \in E
    BY <1>1, <2>1
  <2> QED
    BY <1>3, <1>4, <2>1, <2>2 DEF Iterates
<1>6. \A t \in SUBSET (1..n) : it[t] = Body(it, t)
  <2> HIDE DEF Body
  <2>1. f = [t \in SUBSET DOMAIN s |-> Body(f, t)]
    BY <1>1, <1>5
  <2>2. it = [t \in SUBSET DOMAIN s |-> Body(it, t)]
    BY <2>1
  <2> HIDE DEF it
  <2> QED
    BY <1>1, <2>2
<1> HIDE DEF it
<1>7. IteratesIn(Z, it, MeetOp, base, s)
  <2>1. it[{}] = base
    BY <1>6
  <2>2. ASSUME NEW t \in SUBSET (1..n), t # {}, it[t \ {Greatest(t)}] \in Z
        PROVE  it[t] = MeetOp[<<it[t \ {Greatest(t)}], s[Greatest(t)]>>]
    <3>1. Max(t) = Greatest(t) /\ Max(t) \in t
      BY <1>1, <2>2, GreatestOf DEF Max, Greatest
    <3>2. it[t] = Body(it, t) /\ s[Greatest(t)] \in E
      BY <1>1, <1>6, <2>2, <3>1
    <3> QED
      BY <1>3, <2>2, <3>1, <3>2
  <2> QED
    BY <2>1, <2>2 DEF IteratesIn
<1>8. it[1..n] = Along(MeetOp, base, s)
  <2>1. IterLaw(Z, E, it, MeetOp, base, s)
    BY <1>b, <1>3, <1>7, IterAlong
  <2> QED
    BY <2>1 DEF IterLaw
<1>9. Common(a, b) = Along(MeetOp, base, s)
  BY <1>1, <1>2, <1>8
<1> QED
  BY <1>0, <1>b, <1>9 DEF base, s, E

(* What two targets have in common.                                         *)
LEMMA MeetIs ==
  ASSUME NEW t \in target_t, NEW u \in target_t
  PROVE  /\ target_intersection(t, u).arch = IF t.arch = u.arch THEN t.arch ELSE "any"
         /\ t.sys = u.sys => target_intersection(t, u).sys = t.sys
         /\ t.suffix = u.suffix => target_intersection(t, u).suffix = t.suffix
         /\ t.sys = u.sys =>
              target_intersection(t, u).sysver = IF t.sysver = u.sysver THEN t.sysver ELSE ""
  BY DEF target_intersection

(* A number that is below another is at most the one before it.             *)
LEMMA NextOne ==
  ASSUME NEW a \in Nat, NEW k \in Nat
  PROVE  \A i : i \in a..(a + (k + 1)) <=> i \in a..(a + k) \/ i = a + (k + 1)
  OBVIOUS

(* common_target of a group is what its first target has in common with all *)
(* the others.                                                              *)
LEMMA CommonIs ==
  ASSUME tfiles \in Seq(Entry), NEW a \in DOMAIN tfiles, NEW b \in DOMAIN tfiles, a < b,
         \A k \in a..b : tfiles[k].target.sys = tfiles[a].target.sys
                         /\ tfiles[k].target.suffix = tfiles[a].target.suffix
  PROVE  /\ Common(a, b) \in target_t
         /\ Common(a, b).sys = tfiles[a].target.sys /\ Common(a, b).suffix = tfiles[a].target.suffix
         /\ OneArch(tfiles, a, b) => Common(a, b).arch = tfiles[a].target.arch
         /\ ~OneArch(tfiles, a, b) => Common(a, b).arch = "any"
         /\ (\E k \in a..b : tfiles[k].target.sysver # tfiles[a].target.sysver)
              \/ tfiles[a].target.sysver = "" => Common(a, b).sysver = ""
<1> DEFINE t == tfiles[a].target
           n == b - a
           q == After(a, b)
           AllArch(k) == \A m \in a..(a + k) : tfiles[m].target.arch = t.arch
           AllVer(k) == \A m \in a..(a + k) : tfiles[m].target.sysver = t.sysver
<1>1. /\ Common(a, b) = Along(MeetOp, t, q) /\ q \in Seq(DOMAIN tfiles) /\ Len(q) = n
      /\ n \in Nat /\ \A k \in 1..n : q[k] = a + k
  BY CommonAlong
<1>2. /\ a \in Nat /\ b \in Nat /\ \A k \in a..b : k \in DOMAIN tfiles /\ tfiles[k].target \in target_t
  <2>1. DOMAIN tfiles = 1..Len(tfiles) /\ Len(tfiles) \in Nat
    BY LenProperties
  <2>2. \A k \in a..b : k \in DOMAIN tfiles
    BY <2>1
  <2> QED
    BY <2>1, <2>2, ElementOfSeq, EntryIs
<1>3. PICK g \in [0..Len(q) -> target_t] :
        Follows(g, MeetOp, t, q) /\ Along(MeetOp, t, q) = g[Len(q)]
  <2>1. Stepwise(target_t, MeetOp, t, q)
    <3>1. t \in target_t
      BY LenProperties, ElementOfSeq, EntryIs
    <3>2. MeetOp \in [target_t \X DOMAIN tfiles -> target_t]
      BY MeetTyped
    <3> HIDE DEF t, q
    <3> QED
      BY <1>1, <3>1, <3>2, AlongFollows
  <2> QED
    BY <2>1 DEF Stepwise
<1>1a. a + n = b /\ n \in Nat
  BY <1>1, <1>2
<1> HIDE DEF q, n
<1> DEFINE P(k) == /\ g[k].sys = t.sys /\ g[k].suffix = t.suffix
                   /\ AllArch(k) => g[k].arch = t.arch
                   /\ ~AllArch(k) => g[k].arch = "any"
                   /\ AllVer(k) => g[k].sysver = t.sysver
                   /\ ~AllVer(k) => g[k].sysver = ""
           Good == {k \in Nat : k <= n => P(k)}
<1>4. 0 \in Good
  <2>1. g[0] = t
    BY <1>3 DEF Follows
  <2>2. \A m : m \in a..(a + 0) <=> m = a
    BY <1>2
  <2>3. AllArch(0) /\ AllVer(0)
    BY <2>2
  <2>4. P(0)
    BY <2>1, <2>3
  <2> QED
    BY <2>4
<1>5. ASSUME NEW k \in Nat, k \in Good PROVE k + 1 \in Good
  <2> SUFFICES ASSUME k + 1 <= n PROVE P(k + 1)
    <3> HIDE DEF P
    <3> QED
      OBVIOUS
  <2>1. P(k) /\ k + 1 \in 1..n /\ k \in 0..n /\ (k + 1) - 1 = k /\ k + 1 \in 1..Len(q)
    <3>1. k <= n
      BY <1>1a
    <3>2. P(k)
      BY <1>5, <3>1
    <3> HIDE DEF P
    <3> QED
      BY <1>1, <1>1a, <3>1, <3>2
  <2> DEFINE m == a + (k + 1)
             u == tfiles[m].target
  <2>2. m \in a..b /\ m \in DOMAIN tfiles
    <3>1. m \in a..b
      BY <1>1a, <1>2
    <3> QED
      BY <1>2, <3>1
  <2>3. q[k + 1] = m
    BY <1>1, <2>1
  <2>4. g[k + 1] = MeetOp[<<g[k], q[k + 1]>>]
    BY <1>3, <2>1 DEF Follows
  <2>5. g[k] \in target_t
    BY <1>1, <1>3, <2>1
  <2>6. g[k + 1] = target_intersection(g[k], u)
    BY <2>2, <2>3, <2>4, <2>5, MeetTyped
  <2>7. u.sys = t.sys /\ u.suffix = t.suffix
    BY <2>2
  <2>8. \A i : i \in a..(a + (k + 1)) <=> i \in a..(a + k) \/ i = m
    BY <1>2, NextOne
  <2>9. (AllArch(k + 1) <=> AllArch(k) /\ u.arch = t.arch)
        /\ (AllVer(k + 1) <=> AllVer(k) /\ u.sysver = t.sysver)
    BY <2>8
  <2> HIDE DEF AllArch, AllVer, m, u, t
  <2>10. /\ g[k + 1].arch = IF g[k].arch = u.arch THEN g[k].arch ELSE "any"
         /\ g[k + 1].sys = g[k].sys /\ g[k + 1].suffix = g[k].suffix
         /\ g[k + 1].sysver = IF g[k].sysver = u.sysver THEN g[k].sysver ELSE ""
    <3>1. g[k].sys = u.sys /\ g[k].suffix = u.suffix
      BY <2>1, <2>7
    <3> DEFINE v == g[k]
               w == g[k + 1]
    <3>2. w = target_intersection(v, u) /\ v.sys = u.sys /\ v.suffix = u.suffix
      BY <2>6, <3>1
    <3>4. v \in target_t
      BY <2>5
    <3>5. u \in target_t
      BY <1>2, <2>2 DEF u
    <3> HIDE DEF v, w
    <3>3. /\ w.arch = IF v.arch = u.arch THEN v.arch ELSE "any"
          /\ w.sys = v.sys /\ w.suffix = v.suffix
          /\ w.sysver = IF v.sysver = u.sysver THEN v.sysver ELSE ""
      BY <3>2, <3>4, <3>5, MeetIs
    <3> QED
      BY <3>3 DEF v, w
  <2> QED
    BY <2>1, <2>7, <2>9, <2>10
<1>6. \A k \in Nat : k \in Good
  <2> HIDE DEF Good
  <2> QED
    BY <1>4, <1>5, NatInd
<1>7. P(n)
  <2>1. n \in Good /\ n <= n
    <3> HIDE DEF Good
    <3> QED
      BY <1>1a, <1>6
  <2> QED
    BY <2>1
<1>8. Common(a, b) = g[n] /\ g[n] \in target_t /\ a + n = b
  BY <1>1, <1>1a, <1>3
<1>9. (AllArch(n) <=> OneArch(tfiles, a, b))
      /\ (AllVer(n) <=> \A k \in a..b : tfiles[k].target.sysver = t.sysver)
  BY <1>8 DEF OneArch
<1> HIDE DEF AllArch, AllVer, n
<1> QED
  BY <1>7, <1>8, <1>9

(* The common target of a segment dedup_tfiles merges.                      *)
LEMMA CommonGoal ==
  ASSUME NEW layout, IndexOf(tfiles, layout), Orderly(layout), NEW s, NEW e, Group(tfiles, s, e)
  PROVE  Common(s, e) = Goal(tfiles, s, e)
<1>1. /\ s \in DOMAIN tfiles /\ e \in DOMAIN tfiles /\ s \in Nat /\ e \in Nat /\ s < e
      /\ s \in s..e /\ s + 1 \in s..e
      /\ \A k \in s..e : k \in DOMAIN tfiles /\ Akin(tfiles, k, s)
                         /\ tfiles[k].target.suffix = tfiles[s].target.suffix
                         /\ (Versioned(tfiles, k) <=> Versioned(tfiles, s))
  BY GroupFiles
<1>2. tfiles \in Seq(Entry) /\ tfiles[s].target \in target_t
  BY <1>1, InIndex, EntryIs DEF IndexOf
<1>3. \A k \in s..e : tfiles[k].target.sys = tfiles[s].target.sys
                      /\ tfiles[k].target.suffix = tfiles[s].target.suffix
  BY <1>1 DEF Akin
<1>4. (\E k \in s..e : tfiles[k].target.sysver # tfiles[s].target.sysver) \/ tfiles[s].target.sysver = ""
  <2>1. CASE ~Versioned(tfiles, s)
    BY <2>1 DEF Versioned
  <2>2. CASE Versioned(tfiles, s) /\ OneArch(tfiles, s, e)
    <3> DEFINE m == s + 1
    <3>1. m \in s..e /\ m \in DOMAIN tfiles /\ m # s /\ Akin(tfiles, m, s)
      BY <1>1
    <3> HIDE DEF m
    <3>2. tfiles[m].target.arch = tfiles[s].target.arch
      BY <2>2, <3>1 DEF OneArch
    <3>3. tfiles[m].target.sysver # tfiles[s].target.sysver
      BY <1>1, <3>1, <3>2, OneFile
    <3> QED
      BY <3>1, <3>3
  <2>3. CASE Versioned(tfiles, s) /\ ~OneArch(tfiles, s, e)
    <3>1. (\E k \in s..e : tfiles[k].target.sysver = "10") /\ (\E k \in s..e : tfiles[k].target.sysver = "11")
      BY <2>3, GroupVersions
    <3>2. "10" # "11"
      OBVIOUS
    <3> QED
      BY <3>1, <3>2
  <2> QED
    BY <2>1, <2>2, <2>3
<1> DEFINE c == Common(s, e)
           g == Goal(tfiles, s, e)
           t == tfiles[s].target
<1>5. /\ c \in target_t /\ c.sys = t.sys /\ c.suffix = t.suffix
      /\ OneArch(tfiles, s, e) => c.arch = t.arch
      /\ ~OneArch(tfiles, s, e) => c.arch = "any"
      /\ c.sysver = ""
  BY <1>1, <1>2, <1>3, <1>4, CommonIs
<1>6. /\ g \in target_t /\ g.sysver = "" /\ g.sys = t.sys /\ g.suffix = t.suffix
      /\ OneArch(tfiles, s, e) => g.arch = t.arch
      /\ ~OneArch(tfiles, s, e) => g.arch = "any"
  BY <1>1, <1>2, GoalIs, ZenonT(60)
<1> HIDE DEF c, g, t
<1>7. c = g
  BY <1>5, <1>6, SameTarget
<1> QED
  BY <1>7 DEF c, g

-----------------------------------------------------------------------------
(* The k-th file is as it was, the common file of s to e is in place.       *)
Intact(k) == FileOf(tfiles, k) \in DOMAIN tree /\ tree[FileOf(tfiles, k)] = tfiles[k].hash

(* The common file of the group from s to e is on disk with the content of  *)
(* the group.                                                               *)
Stored(s, e) == Place(tfiles, s, e) \in DOMAIN tree /\ tree[Place(tfiles, s, e)] = tfiles[s].hash

(* The program has still to come to the k-th file, it has come past s to e. *)
In(q, k) == \E i \in DOMAIN q : k \in q[i][1]..q[i][2]
Pending(k) == In(segs, k) \/ In(ranges, k)

(* The group from s to e has its turn behind it.                            *)
Merged(s, e) == Group(tfiles, s, e) /\ \A k \in s..e : ~Pending(k)

(* What a range is: akin files of one content and one architecture, of a    *)
(* header that has other contents in the system.                            *)
Part(fs, s, e) ==
  /\ s \in DOMAIN fs /\ e \in DOMAIN fs /\ s < e
  /\ \A k \in s..e : Akin(fs, k, s)
  /\ OneHash(fs, s, e) /\ OneArch(fs, s, e) /\ ~Uniform(fs, s)

(* The segments and ranges to come are segments and ranges of the index,    *)
(* apart from each other.                                                   *)
PlanInv ==
  /\ \A i \in DOMAIN segs : IsSegment(tfiles, segs[i][1], segs[i][2])
  /\ \A i \in DOMAIN ranges : Part(tfiles, ranges[i][1], ranges[i][2])
  /\ Ascending(segs) /\ Ascending(ranges)
  /\ \A i \in DOMAIN ranges, j \in DOMAIN segs : ranges[i][2] < segs[j][1]

(* What the program has still to come to is as it was.                      *)
WaitInv == \A k \in DOMAIN tfiles : Pending(k) => Intact(k)

(* A file of the start is as it was, or it is in a group the program has    *)
(* come past, and the common file has its content, if the rename did not    *)
(* fail.                                                                    *)
FilesInv ==
  \A k \in DOMAIN tfiles :
    \/ Intact(k)
    \/ \E s, e \in DOMAIN tfiles : k \in s..e /\ Merged(s, e) /\ (mvFailed \/ Stored(s, e))

(* A file that was not there at the start is the common file of a group.    *)
NewInv ==
  \A y \in DOMAIN tree :
    \/ y \in DOMAIN before /\ tree[y] = before[y]
    \/ \E s, e \in DOMAIN tfiles : Merged(s, e) /\ Stored(s, e) /\ y = Place(tfiles, s, e)

(* What dedup_tfiles has left to do with the files from s to e.             *)
OpOn(fs, o, i, s, e, k) ==
  /\ o.from = fs[k].target /\ o.relpath = fs[k].relpath
  /\ o.what = "rm" \/ (o.what = "mv" /\ i = 1 /\ k = s /\ o.to = Goal(fs, s, e))

(* The operations of the group from s to e that are not done yet: a rename  *)
(* first, if the common file is not there, and removals.                    *)
Working(s, e) ==
  /\ \A i \in DOMAIN ops : \E k \in s..e : OpOn(tfiles, ops[i], i, s, e, k)
  /\ IF ops # << >> /\ ops[1].what = "mv"
     THEN Place(tfiles, s, e) \notin DOMAIN tree /\ \A k \in s..e : Intact(k)
     ELSE mvFailed \/ Stored(s, e)

(* While there are operations, they are those of one group.                 *)
OpsInv ==
  pc = "ops" =>
    \/ \A i \in DOMAIN ops : ops[i].what = "skip"
    \/ \E s, e \in DOMAIN tfiles : Merged(s, e) /\ Working(s, e)

(* The inductive invariant: the plan, the files to come, the files there    *)
(* were, the new files and the operations at hand.                          *)
ViewInv ==
  /\ pc = "index" => tree = before
  /\ pc # "index" => /\ IndexOf(tfiles, before) /\ PlanInv /\ WaitInv
                     /\ FilesInv /\ NewInv /\ OpsInv

(* Where neither the files nor the index change and less is pending.        *)
LEMMA StillIntact ==
  ASSUME WaitInv, FilesInv, NewInv, tree' = tree, tfiles' = tfiles, before' = before,
         mvFailed => mvFailed', \A k : Pending(k)' => Pending(k)
  PROVE  WaitInv' /\ FilesInv' /\ NewInv'
<1>1. \A k : Intact(k)' <=> Intact(k)
  BY DEF Intact
<1>2. \A s, e : Stored(s, e)' <=> Stored(s, e)
  BY DEF Stored
<1>3. \A s, e : Merged(s, e) => Merged(s, e)'
  BY DEF Merged
<1>4. WaitInv'
  BY <1>1 DEF WaitInv
<1>5. FilesInv'
  BY <1>1, <1>2, <1>3 DEF FilesInv
<1>6. NewInv'
  BY <1>2, <1>3 DEF NewInv
<1> QED
  BY <1>4, <1>5, <1>6

(* At the start nothing is indexed.                                         *)
LEMMA ViewInit == Init => ViewInv
  BY DEF Init, ViewInv

(* Indexing establishes it.                                                 *)
LEMMA ViewIndex ==
  ASSUME TypeInv, ViewInv, Index
  PROVE  ViewInv'
<1>1. pc = "index" /\ pc' = "segments" /\ tree = before /\ tree' = tree /\ before' = before
      /\ ranges' = ranges /\ ranges = << >>
  BY DEF Index, ViewInv, disk, history, TypeInv
<1>2. PICK sign \in {1, -1} : tfiles' = Sorted({Tfile(x) : x \in DOMAIN tree}, sign)
  BY DEF Index
<1>3. IndexOf(tfiles', before')
  BY <1>1, <1>2, Indexed
<1>4. segs' = IF Len(tfiles') < 2 THEN << >> ELSE Segments(tfiles')
  BY DEF Index
<1> DEFINE fs == tfiles'
<1>5. Len(fs) \in Nat /\ fs \in Seq(Entry)
  BY <1>3, LenProperties DEF IndexOf
<1>6. (\A i \in DOMAIN segs' : IsSegment(fs, segs'[i][1], segs'[i][2])) /\ Ascending(segs')
  <2>1. CASE Len(fs) < 2
    BY <1>4, <2>1 DEF Ascending
  <2>2. CASE Len(fs) >= 2
    <3>1. segs' = Segments(fs)
      BY <1>4, <1>5, <2>2
    <3> HIDE DEF fs
    <3> QED
      BY <1>5, <2>2, <3>1, SegmentsAre
  <2> QED
    BY <1>5, <2>1, <2>2
<1>7. PlanInv'
  <2>1. DOMAIN ranges' = {}
    BY <1>1
  <2> QED
    BY <1>6, <2>1 DEF PlanInv, Ascending
<1>8. \A k \in DOMAIN tfiles' : Intact(k)'
  BY <1>1, <1>3 DEF IndexOf, Intact
<1>9. WaitInv' /\ FilesInv'
  BY <1>8 DEF WaitInv, FilesInv
<1>10. NewInv'
  BY <1>1 DEF NewInv
<1>11. OpsInv'
  BY <1>1 DEF OpsInv
<1> QED
  BY <1>1, <1>3, <1>7, <1>9, <1>10, <1>11 DEF ViewInv

(* Steps that only go from one phase to the next.                           *)
LEMMA ViewOn ==
  ASSUME ViewInv, pc # "index", pc' \notin {"index", "ops"}, tree' = tree, tfiles' = tfiles,
         before' = before, mvFailed' = mvFailed, segs' = segs, ranges' = ranges
  PROVE  ViewInv'
<1>1. IndexOf(tfiles, before) /\ PlanInv /\ WaitInv /\ FilesInv /\ NewInv
  BY DEF ViewInv
<1>2. \A k : Pending(k)' => Pending(k)
  BY DEF Pending, In
<1>3. WaitInv' /\ FilesInv' /\ NewInv'
  BY <1>1, <1>2, StillIntact
<1>4. PlanInv'
  BY <1>1 DEF PlanInv
<1>5. OpsInv'
  BY DEF OpsInv
<1>6. IndexOf(tfiles', before')
  BY <1>1
<1> QED
  BY <1>3, <1>4, <1>5, <1>6 DEF ViewInv

-----------------------------------------------------------------------------
(* dedup_tfiles is called for files that are all there, and finds nothing   *)
(* in the way of the common file.                                           *)
LEMMA NothingThere ==
  ASSUME Orderly(before), IndexOf(tfiles, before), NewInv, NEW s, NEW e, Group(tfiles, s, e),
         \A k \in s..e : Pending(k)
  PROVE  Place(tfiles, s, e) \notin DOMAIN tree
<1> DEFINE y == Place(tfiles, s, e)
<1> SUFFICES ASSUME y \in DOMAIN tree PROVE FALSE
  OBVIOUS
<1>1. y \notin DOMAIN before
  BY PlaceNew
<1>2. PICK c, d \in DOMAIN tfiles : Merged(c, d) /\ y = Place(tfiles, c, d)
  BY <1>1 DEF NewInv
<1>3. \E k \in s..e : k \in c..d
  BY <1>2, PlaceApart DEF Merged
<1> QED
  BY <1>2, <1>3 DEF Merged

(* The operations of dedup_tfiles do the work of the group.                 *)
LEMMA MergeOpsWork ==
  ASSUME Orderly(before), IndexOf(tfiles, before), NEW s, NEW e, Group(tfiles, s, e),
         NEW i \in DOMAIN SubSeq(tfiles, s, e)
  PROVE  \E k \in s..e :
           /\ OpOn(tfiles, MergeOps(SubSeq(tfiles, s, e), Goal(tfiles, s, e))[i], i, s, e, k)
           /\ MergeOps(SubSeq(tfiles, s, e), Goal(tfiles, s, e))[i].what = IF i = 1 THEN "mv" ELSE "rm"
<1> DEFINE files == SubSeq(tfiles, s, e)
           g == Goal(tfiles, s, e)
           o == MergeOps(files, g)[i]
           k == s + i - 1
<1>1. /\ s \in DOMAIN tfiles /\ e \in DOMAIN tfiles /\ s \in Nat /\ s < e
  BY GroupFiles
<1>2. i \in Nat /\ k \in s..e /\ files[i] = tfiles[k]
  BY <1>1, PartIs, SMTT(60) DEF IndexOf
<1>3. i > 1 \/ i = 1
  <2>1. files \in Seq(Entry)
    BY <1>1, PartIs DEF IndexOf
  <2>2. DOMAIN files = 1..Len(files) /\ Len(files) \in Nat
    <3> HIDE DEF files
    <3> QED
      BY <2>1, LenProperties
  <2>3. i \in DOMAIN files
    OBVIOUS
  <2> HIDE DEF files
  <2> QED
    BY <2>2, <2>3
<1>4. i = 1 => k = s
  BY <1>1, <1>2
<1>5. o = Op(IF i > 1 THEN "rm" ELSE IF files[i].target = g THEN "keep" ELSE "mv", files[i], g)
  BY DEF MergeOps
<1>6. i = 1 => files[i].target # g
  <2> SUFFICES ASSUME i = 1, tfiles[s].target = g PROVE FALSE
    BY <1>2, <1>4
  <2>1. FileOf(tfiles, s) = Place(tfiles, s, e)
    BY DEF FileOf, Place
  <2>2. FileOf(tfiles, s) \in DOMAIN before
    BY <1>1 DEF IndexOf
  <2> QED
    BY <2>1, <2>2, PlaceNew
<1> HIDE DEF files, g, k, o
<1>7. o = Op(IF i = 1 THEN "mv" ELSE "rm", tfiles[k], g)
  BY <1>2, <1>3, <1>5, <1>6
<1>8. /\ o.from = tfiles[k].target /\ o.relpath = tfiles[k].relpath /\ o.to = g
      /\ o.what = IF i = 1 THEN "mv" ELSE "rm"
  BY <1>7 DEF Op
<1>9. OpOn(tfiles, o, i, s, e, k)
  BY <1>3, <1>4, <1>8 DEF OpOn, g
<1> QED
  BY <1>2, <1>8, <1>9 DEF o, files, g

(* If not all have come: either nothing is done, or nothing is removed.     *)
LEMMA LowerLayerSkips ==
  ASSUME Orderly(before), IndexOf(tfiles, before), NEW s \in DOMAIN tfiles, NEW e \in DOMAIN tfiles, s < e,
         \A k \in s..e : Akin(tfiles, k, s)
  PROVE  \A i \in DOMAIN LowerLayerOps(SubSeq(tfiles, s, e)) :
           LowerLayerOps(SubSeq(tfiles, s, e))[i].what = "skip"
<1> DEFINE files == SubSeq(tfiles, s, e)
           q == LowerLayerOps(files)
<1>1. \A i \in DOMAIN files : s + i - 1 \in s..e /\ files[i] = tfiles[s + i - 1]
  BY PartIs, SMTT(60) DEF IndexOf
<1>2. \A k \in s..e : k \in DOMAIN tfiles
  BY PartIs DEF IndexOf
<1>3. \A k \in s..e : Versioned(tfiles, k) <=> Versioned(tfiles, s)
  BY <1>2, OrderlyAkin
<1>4. \A i \in DOMAIN files : files[i].target.sysver # "" <=> Versioned(tfiles, s)
  BY <1>1, <1>3 DEF Versioned
<1> HIDE DEF files
<1>5. CASE Versioned(tfiles, s)
  <2>1. ~\E i \in DOMAIN files : files[i].target.sysver = "" /\ files[i].target.sys # "any"
    BY <1>4, <1>5
  <2>2. q = << >>
    BY <2>1 DEF LowerLayerOps
  <2> QED
    BY <2>2 DEF files
<1>6. CASE ~Versioned(tfiles, s)
  <2>1. \A i \in DOMAIN files : ~(files[i].target.sysver # "" /\ files[i].target.sys # "any")
    BY <1>4, <1>6
  <2>2. q = << >> \/ q = [i \in DOMAIN files |-> Op("skip", files[i], files[i].target)]
    BY <2>1 DEF LowerLayerOps
  <2>3. \A i \in DOMAIN q : q[i].what = "skip"
    BY <2>2 DEF Op
  <2> QED
    BY <2>3 DEF files
<1> QED
  BY <1>5, <1>6

-----------------------------------------------------------------------------

(* dedup_tfiles keeps the invariant, whichever of its branches it takes.    *)
LEMMA DedupWorks ==
  ASSUME Orderly(before), IndexOf(tfiles, before), NewInv, WaitInv, NEW s, NEW e, Part(tfiles, s, e) \/
         (IsSegment(tfiles, s, e) /\ OneHash(tfiles, s, e)),
         NEW ctarget, Group(tfiles, s, e) => ctarget = Goal(tfiles, s, e),
         \A k \in s..e : Pending(k),
         Dedup(SubSeq(tfiles, s, e), ctarget),
         tfiles' = tfiles, mvFailed' = mvFailed, pc # "index",
         \A k \in s..e : ~Pending(k)'
  PROVE  tree' = tree /\ OpsInv' /\ pc' # "index"
<1> DEFINE files == SubSeq(tfiles, s, e)
<1>1. /\ s \in DOMAIN tfiles /\ e \in DOMAIN tfiles /\ s < e
      /\ \A k \in s..e : Akin(tfiles, k, s)
  BY DEF Part, IsSegment
<1>2. CASE Covered(files) /\ MkdirsFail
  BY <1>2 DEF MkdirsFail, OpsInv, disk
<1>3. CASE ~Covered(files)
  <2>1. ops' = LowerLayerOps(files) /\ pc' = "ops" /\ tree' = tree
    BY <1>3 DEF Dedup, disk
  <2>2. \A i \in DOMAIN ops' : ops'[i].what = "skip"
    BY <1>1, <2>1, LowerLayerSkips
  <2> QED
    BY <2>1, <2>2 DEF OpsInv
<1>4. CASE Covered(files) /\ ~MkdirsFail
  <2>1. ops' = MergeOps(files, ctarget) /\ pc' = "ops" /\ tree' = tree
    BY <1>4 DEF Dedup
  <2>2. Group(tfiles, s, e)
    BY <1>1, <1>4 DEF Group, Part
  <2>3. ctarget = Goal(tfiles, s, e)
    BY <2>2
  <2>4. Place(tfiles, s, e) \notin DOMAIN tree
    BY <2>2, NothingThere
  <2>5. \A k \in s..e : Intact(k)
    <3>1. \A k \in s..e : k \in DOMAIN tfiles
      BY <2>2, GroupFiles
    <3> QED
      BY <3>1 DEF WaitInv
  <2>6. Merged(s, e)'
    BY <2>2 DEF Merged
  <2>7. DOMAIN ops' = DOMAIN files
    BY <2>1 DEF MergeOps
  <2>8. \A i \in DOMAIN files : \E k \in s..e :
          OpOn(tfiles, ops'[i], i, s, e, k) /\ ops'[i].what = IF i = 1 THEN "mv" ELSE "rm"
    <3> SUFFICES ASSUME NEW i \in DOMAIN files
                 PROVE  \E k \in s..e :
                          OpOn(tfiles, ops'[i], i, s, e, k) /\ ops'[i].what = IF i = 1 THEN "mv" ELSE "rm"
      OBVIOUS
    <3>1. \E k \in s..e :
            /\ OpOn(tfiles, MergeOps(files, Goal(tfiles, s, e))[i], i, s, e, k)
            /\ MergeOps(files, Goal(tfiles, s, e))[i].what = IF i = 1 THEN "mv" ELSE "rm"
      BY <2>2, MergeOpsWork
    <3> HIDE DEF files
    <3> QED
      BY <2>1, <2>3, <3>1
  <2>9. \A i \in DOMAIN ops' : \E k \in s..e : OpOn(tfiles', ops'[i], i, s, e, k)
    BY <2>7, <2>8
  <2>10. ops' # << >> /\ ops'[1].what = "mv"
    <3>1. s \in s..e
      BY <2>2, GroupFiles
    <3>2. s - s + 1 \in DOMAIN files
      BY <1>1, <3>1, PartIs DEF IndexOf
    <3>3. s - s + 1 = 1
      <4>1. s \in Nat
        BY <2>2, GroupFiles
      <4> QED
        BY <4>1
    <3>4. 1 \in DOMAIN ops'
      BY <2>7, <3>2, <3>3
    <3>5. ops' # << >>
      BY <3>4
    <3>6. ops'[1].what = IF 1 = 1 THEN "mv" ELSE "rm"
      BY <2>7, <2>8, <3>4
    <3> QED
      BY <3>5, <3>6
  <2>11. Working(s, e)'
    <3>1. \A k \in s..e : Intact(k)'
      BY <2>1, <2>5 DEF Intact
    <3>2. Place(tfiles', s, e) \notin DOMAIN tree'
      BY <2>1, <2>4
    <3> QED
      BY <2>9, <2>10, <3>1, <3>2 DEF Working
  <2>12. s \in DOMAIN tfiles' /\ e \in DOMAIN tfiles'
    BY <1>1
  <2> QED
    BY <2>1, <2>6, <2>11, <2>12 DEF OpsInv
<1> QED
  BY <1>2, <1>3, <1>4

(* Head and Tail by places.                                                 *)
LEMMA TailIs ==
  ASSUME NEW T, NEW q \in Seq(T), q # << >>
  PROVE  /\ Head(q) = q[1] /\ 1 \in DOMAIN q /\ Tail(q) \in Seq(T)
         /\ \A i \in DOMAIN Tail(q) : i \in Nat /\ i >= 1 /\ i + 1 \in DOMAIN q /\ Tail(q)[i] = q[i + 1]
<1>1. Len(q) \in Nat /\ Len(q) # 0 /\ DOMAIN q = 1..Len(q)
  BY LenProperties, EmptySeq
<1>2. Tail(q) \in Seq(T) /\ Len(Tail(q)) = Len(q) - 1 /\ \A i \in 1..(Len(q) - 1) : Tail(q)[i] = q[i + 1]
      /\ Head(q) = q[1]
  BY <1>1, HeadTailProperties
<1>3. DOMAIN Tail(q) = 1..(Len(q) - 1)
  BY <1>2, LenProperties
<1> QED
  BY <1>1, <1>2, <1>3

(* What remains of a plan is still in order.                                *)
LEMMA TailAscends ==
  ASSUME NEW T, NEW q \in Seq(T), q # << >>, Ascending(q)
  PROVE  /\ Ascending(Tail(q))
         /\ \A i \in DOMAIN Tail(q) : q[1][2] < Tail(q)[i][1]
<1>1. /\ Head(q) = q[1] /\ 1 \in DOMAIN q
      /\ \A i \in DOMAIN Tail(q) : i \in Nat /\ i >= 1 /\ i + 1 \in DOMAIN q /\ Tail(q)[i] = q[i + 1]
  BY TailIs
<1>2. ASSUME NEW i \in DOMAIN Tail(q), NEW j \in DOMAIN Tail(q), i < j
      PROVE  Tail(q)[i][2] < Tail(q)[j][1]
  <2>1. i + 1 \in DOMAIN q /\ j + 1 \in DOMAIN q /\ i + 1 < j + 1
    BY <1>1, <1>2
  <2>2. q[i + 1][2] < q[j + 1][1]
    BY <2>1 DEF Ascending
  <2> QED
    BY <1>1, <2>2
<1>3. ASSUME NEW i \in DOMAIN Tail(q) PROVE q[1][2] < Tail(q)[i][1]
  <2>1. i + 1 \in DOMAIN q /\ 1 < i + 1 /\ Tail(q)[i] = q[i + 1]
    BY <1>1
  <2> QED
    BY <1>1, <2>1 DEF Ascending
<1> QED
  BY <1>2, <1>3 DEF Ascending

(* The next segment or range is taken from what is pending.                 *)
LEMMA TailIn ==
  ASSUME NEW T, NEW q \in Seq(T), q # << >>, NEW k
  PROVE  In(Tail(q), k) => In(q, k)
<1>1. \A i \in DOMAIN Tail(q) : i + 1 \in DOMAIN q /\ Tail(q)[i] = q[i + 1]
  BY TailIs
<1> QED
  BY <1>1 DEF In

-----------------------------------------------------------------------------

(* identical means that all files of the segment have one content.          *)
LEMMA IdenticalIs ==
  ASSUME tfiles \in Seq(Entry), NEW s \in DOMAIN tfiles, NEW e \in DOMAIN tfiles, s < e, Identical(s, e)
  PROVE  OneHash(tfiles, s, e)
<1> DEFINE n == Len(tfiles)
           f == [k \in 1..n |-> tfiles[k].hash]
<1>1. DOMAIN tfiles = 1..n /\ n \in Nat
  BY LenProperties
<1> HIDE DEF n
<1>2. s \in Nat /\ e \in Nat /\ s >= 1 /\ e <= n
  BY <1>1
<1>3. /\ \A i \in (s + 1)..e : i \in s..e /\ i - 1 \in s..e
      /\ \A i \in s..e : i \in 1..n
  BY <1>1, <1>2, Next1
<1>4. \A i \in 1..n : f[i] = tfiles[i].hash
  OBVIOUS
<1> HIDE DEF f
<1>5. \A i \in (s + 1)..e : f[i] = f[i - 1]
  BY <1>3, <1>4 DEF Identical
<1>6. \A k \in s..e : f[k] = f[s]
  BY <1>2, <1>5, Alike
<1>7. s \in s..e
  BY <1>2
<1> QED
  BY <1>3, <1>4, <1>6, <1>7 DEF OneHash

(* The ranges of a segment whose files differ.                              *)
LEMMA RangesWork ==
  ASSUME Orderly(before), IndexOf(tfiles, before), NEW s, NEW e, IsSegment(tfiles, s, e), ~Identical(s, e)
  PROVE  /\ Ascending(VersionRanges(s, e))
         /\ \A i \in DOMAIN VersionRanges(s, e) :
              /\ Part(tfiles, VersionRanges(s, e)[i][1], VersionRanges(s, e)[i][2])
              /\ VersionRanges(s, e)[i][1] \in s..e /\ VersionRanges(s, e)[i][2] \in s..e
<1> DEFINE q == VersionRanges(s, e)
<1>1. tfiles \in Seq(Entry) /\ s \in DOMAIN tfiles /\ e \in DOMAIN tfiles /\ s < e
      /\ \A k \in s..e : Akin(tfiles, k, s)
  BY DEF IndexOf, IsSegment
<1>2. \A k \in s..e : k \in DOMAIN tfiles
  BY <1>1, PartIs
<1>3. \A k \in s..e : Versioned(tfiles, k) <=> Versioned(tfiles, s)
  BY <1>1, <1>2, OrderlyAkin
<1>4. CASE ~Versioned(tfiles, s)
  <2>1. \A k \in s..e : tfiles[k].target.sysver = ""
    BY <1>3, <1>4 DEF Versioned
  <2>2. DOMAIN q = {}
    BY <1>1, <2>1, RangesAre
  <2> QED
    BY <2>2 DEF Ascending
<1>5. CASE Versioned(tfiles, s)
  <2>1. \A k \in s..e : tfiles[k].target.sysver # ""
    BY <1>3, <1>5 DEF Versioned
  <2>2. /\ Ascending(q)
        /\ \A i \in DOMAIN q :
             LET r == q[i]
             IN /\ r[1] \in s..e /\ r[2] \in s..e /\ r[1] < r[2]
                /\ OneArch(tfiles, r[1], r[2]) /\ OneHash(tfiles, r[1], r[2])
    BY <1>1, <2>1, RangesAre
  <2> HIDE DEF q
  <2>3. ASSUME NEW i \in DOMAIN q
        PROVE  Part(tfiles, q[i][1], q[i][2]) /\ q[i][1] \in s..e /\ q[i][2] \in s..e
    <3> DEFINE a == q[i][1]
               b == q[i][2]
    <3>1. a \in s..e /\ b \in s..e /\ a < b /\ OneArch(tfiles, a, b) /\ OneHash(tfiles, a, b)
      BY <2>2
    <3> HIDE DEF a, b
    <3>2. a \in DOMAIN tfiles /\ b \in DOMAIN tfiles
      BY <1>2, <3>1
    <3>3. \A k \in a..b : k \in s..e
      <4>1. s \in Nat /\ e \in Nat
        BY <1>1, InIndex
      <4> QED
        BY <3>1, <4>1
    <3>4. \A k \in s..e : Akin(tfiles, k, a)
      BY <1>1, <3>1 DEF Akin
    <3>5. ~Uniform(tfiles, a)
      <4>1. PICK k \in (s + 1)..e : tfiles[k].hash # tfiles[k - 1].hash
        BY DEF Identical
      <4>2. k \in s..e /\ k - 1 \in s..e
        <5>1. s \in Nat /\ e \in Nat
          BY <1>1, InIndex
        <5> QED
          BY <1>1, <5>1, Next1
      <4>3. Akin(tfiles, k, a) /\ Akin(tfiles, k - 1, a) /\ k \in DOMAIN tfiles /\ k - 1 \in DOMAIN tfiles
        BY <1>2, <3>4, <4>2
      <4> QED
        BY <4>1, <4>3 DEF Uniform
    <3>6. Part(tfiles, a, b)
      BY <3>1, <3>2, <3>3, <3>4, <3>5 DEF Part
    <3> QED
      BY <3>1, <3>6 DEF a, b
  <2> QED
    BY <2>2, <2>3 DEF q
<1> QED
  BY <1>4, <1>5

(* Taking a segment keeps the invariant.                                    *)
LEMMA ViewSegment ==
  ASSUME TypeInv, Orderly(before), ViewInv, Segment
  PROVE  ViewInv'
<1> DEFINE s == Head(segs)[1]
           e == Head(segs)[2]
           T == Within(1, Len(tfiles))
<1>1. /\ pc = "segments" /\ segs # << >> /\ segs' = Tail(segs) /\ tfiles' = tfiles
      /\ before' = before /\ mvFailed' = mvFailed
  BY DEF Segment, history
<1>2. IndexOf(tfiles, before) /\ PlanInv /\ WaitInv /\ FilesInv /\ NewInv
  BY <1>1 DEF ViewInv
<1>3. segs \in Seq(T)
  BY DEF TypeInv
<1>4. /\ Head(segs) = segs[1] /\ 1 \in DOMAIN segs
      /\ \A i \in DOMAIN segs' : i + 1 \in DOMAIN segs /\ segs'[i] = segs[i + 1]
  BY <1>1, <1>3, TailIs
<1>5. /\ Ascending(segs') /\ \A i \in DOMAIN segs' : e < segs'[i][1]
  BY <1>1, <1>2, <1>3, <1>4, TailAscends DEF PlanInv
<1>6. IsSegment(tfiles, s, e) /\ \A i \in DOMAIN segs' : IsSegment(tfiles, segs'[i][1], segs'[i][2])
  BY <1>2, <1>4 DEF PlanInv
<1>7. \/ Identical(s, e) /\ Dedup(SubSeq(tfiles, s, e), Common(s, e)) /\ ranges' = << >>
      \/ /\ ~Identical(s, e) /\ pc' = "ranges" /\ tree' = tree
         /\ ranges' = VersionRanges(s, e) \/ ranges' = << >>
  BY DEF Segment, disk
<1>8. \A k : In(segs', k) => In(segs, k)
  BY <1>1, <1>3, TailIn
<1>9. \A k \in s..e : In(segs, k)
  BY <1>4 DEF In
<1>10. s \in DOMAIN tfiles /\ e \in DOMAIN tfiles /\ s < e /\ s \in Nat /\ e \in Nat
  <2>1. s \in DOMAIN tfiles /\ e \in DOMAIN tfiles /\ s < e
    BY <1>6 DEF IsSegment
  <2> QED
    BY <1>2, <2>1, InIndex
<1>11. ASSUME NEW i \in DOMAIN segs' PROVE segs'[i][1] \in Nat
  <2>1. segs'[i][1] \in DOMAIN tfiles
    BY <1>6 DEF IsSegment
  <2> QED
    BY <1>2, <2>1, InIndex
<1> HIDE DEF s, e
<1>12. \A k \in s..e : ~In(segs', k)
  BY <1>5, <1>10, <1>11 DEF In
<1>13. CASE Identical(s, e)
  <2>1. Dedup(SubSeq(tfiles, s, e), Common(s, e)) /\ ranges' = << >>
    BY <1>7, <1>13
  <2>2. \A k : Pending(k)' => Pending(k)
    BY <1>8, <2>1 DEF Pending, In
  <2>3. \A k \in s..e : ~Pending(k)'
    BY <1>12, <2>1 DEF Pending, In
  <2>4. \A k \in s..e : Pending(k)
    BY <1>9 DEF Pending
  <2>5. OneHash(tfiles, s, e)
    BY <1>2, <1>10, <1>13, IdenticalIs DEF IndexOf
  <2>6. Group(tfiles, s, e) => Common(s, e) = Goal(tfiles, s, e)
    BY <1>2, CommonGoal
  <2>7. tree' = tree /\ OpsInv' /\ pc' # "index"
    <3> DEFINE ctarget == Common(s, e)
    <3>1. Dedup(SubSeq(tfiles, s, e), ctarget) /\ (Group(tfiles, s, e) => ctarget = Goal(tfiles, s, e))
      BY <2>1, <2>6
    <3> HIDE DEF ctarget
    <3> QED
      BY <1>1, <1>2, <1>6, <2>3, <2>4, <2>5, <3>1, DedupWorks
  <2>8. WaitInv' /\ FilesInv' /\ NewInv'
    BY <1>1, <1>2, <2>2, <2>7, StillIntact
  <2>9. PlanInv'
    <3>1. DOMAIN ranges' = {}
      BY <2>1
    <3> QED
      BY <1>1, <1>5, <1>6, <3>1 DEF PlanInv, Ascending
  <2> QED
    BY <1>1, <1>2, <2>7, <2>8, <2>9 DEF ViewInv
<1>14. CASE ~Identical(s, e)
  <2>1. pc' = "ranges" /\ tree' = tree /\ (ranges' = VersionRanges(s, e) \/ ranges' = << >>)
    BY <1>7, <1>14
  <2>2. /\ Ascending(ranges')
        /\ \A i \in DOMAIN ranges' : Part(tfiles, ranges'[i][1], ranges'[i][2])
                                     /\ ranges'[i][1] \in s..e /\ ranges'[i][2] \in s..e
    <3>1. CASE ranges' = VersionRanges(s, e)
      BY <1>2, <1>6, <1>14, <3>1, RangesWork
    <3>2. CASE ranges' = << >>
      BY <3>2 DEF Ascending
    <3> QED
      BY <2>1, <3>1, <3>2
  <2>3. \A k : Pending(k)' => Pending(k)
    <3>1. \A k : In(ranges', k) => k \in s..e
      BY <1>10, <2>2 DEF In
    <3> QED
      BY <1>8, <1>9, <3>1 DEF Pending
  <2>4. WaitInv' /\ FilesInv' /\ NewInv'
    BY <1>1, <1>2, <2>1, <2>3, StillIntact
  <2>5. \A i \in DOMAIN ranges', j \in DOMAIN segs' : ranges'[i][2] < segs'[j][1]
    BY <1>5, <1>10, <1>11, <2>2
  <2>6. PlanInv'
    BY <1>1, <1>5, <1>6, <2>2, <2>5 DEF PlanInv
  <2>7. OpsInv'
    BY <2>1 DEF OpsInv
  <2> QED
    BY <1>1, <1>2, <2>1, <2>4, <2>6, <2>7 DEF ViewInv
<1> QED
  BY <1>13, <1>14

(* Taking a range keeps the invariant.                                      *)
LEMMA ViewRange ==
  ASSUME TypeInv, Orderly(before), ViewInv, Range2
  PROVE  ViewInv'
<1> DEFINE s == Head(ranges)[1]
           e == Head(ranges)[2]
           c == [tfiles[s].target EXCEPT !.sysver = ""]
           T == Within(1, Len(tfiles))
<1>1. /\ pc = "ranges" /\ ranges # << >> /\ ranges' = Tail(ranges) /\ tfiles' = tfiles
      /\ before' = before /\ mvFailed' = mvFailed /\ segs' = segs
  BY DEF Range2, history
<1>2. IndexOf(tfiles, before) /\ PlanInv /\ WaitInv /\ FilesInv /\ NewInv
  BY <1>1 DEF ViewInv
<1>3. ranges \in Seq(T)
  BY DEF TypeInv
<1>4. /\ Head(ranges) = ranges[1] /\ 1 \in DOMAIN ranges
      /\ \A i \in DOMAIN ranges' : i + 1 \in DOMAIN ranges /\ ranges'[i] = ranges[i + 1]
  BY <1>1, <1>3, TailIs
<1>5. Ascending(ranges') /\ \A i \in DOMAIN ranges' : e < ranges'[i][1]
  BY <1>1, <1>2, <1>3, <1>4, TailAscends DEF PlanInv
<1>6. Part(tfiles, s, e) /\ \A i \in DOMAIN ranges' : Part(tfiles, ranges'[i][1], ranges'[i][2])
  BY <1>2, <1>4 DEF PlanInv
<1>7. \/ tree' = tree /\ pc' = pc
      \/ Dedup(SubSeq(tfiles, s, e), c)
  BY DEF Range2, disk
<1>8. \A k : In(ranges', k) => In(ranges, k)
  BY <1>1, <1>3, TailIn
<1>9. \A k \in s..e : In(ranges, k)
  BY <1>4 DEF In
<1>10. s \in DOMAIN tfiles /\ e \in DOMAIN tfiles /\ s < e /\ s \in Nat /\ e \in Nat
  <2>1. s \in DOMAIN tfiles /\ e \in DOMAIN tfiles /\ s < e
    BY <1>6 DEF Part
  <2> QED
    BY <1>2, <2>1, InIndex
<1>11. ASSUME NEW i \in DOMAIN ranges' PROVE ranges'[i][1] \in Nat
  <2>1. ranges'[i][1] \in DOMAIN tfiles
    BY <1>6 DEF Part
  <2> QED
    BY <1>2, <2>1, InIndex
<1>12. ASSUME NEW i \in DOMAIN segs PROVE segs[i][1] \in Nat /\ e < segs[i][1]
  <2>1. segs[i][1] \in DOMAIN tfiles
    BY <1>2 DEF IsSegment, PlanInv
  <2>2. segs[i][1] \in Nat
    BY <1>2, <2>1, InIndex
  <2> QED
    BY <1>2, <1>4, <2>2 DEF PlanInv
<1>13. c \in target_t /\ (Group(tfiles, s, e) => c = Goal(tfiles, s, e))
  <2> DEFINE t == tfiles[s].target
             g == Goal(tfiles, s, e)
  <2>1. t \in target_t /\ OneArch(tfiles, s, e)
    BY <1>2, <1>6, <1>10, InIndex, EntryIs DEF Part
  <2>2. g \in target_t /\ g.sysver = "" /\ g.sys = t.sys /\ g.suffix = t.suffix /\ g.arch = t.arch
    BY <1>10, <2>1, GoalIs
  <2>3. "" \in Word
    BY WordsApart
  <2>4. c \in target_t /\ c.sysver = "" /\ c.sys = t.sys /\ c.suffix = t.suffix /\ c.arch = t.arch
    <3> HIDE DEF s
    <3> QED
      BY <2>1, <2>3 DEF target_t
  <2> HIDE DEF c, g, t
  <2>5. c = g
    BY <2>2, <2>4, SameTarget
  <2> QED
    BY <2>4, <2>5 DEF g
<1> HIDE DEF s, e, c
<1>14. \A k \in s..e : ~In(ranges', k) /\ ~In(segs, k)
  BY <1>5, <1>10, <1>11, <1>12 DEF In
<1>15. \A k : Pending(k)' => Pending(k)
  BY <1>1, <1>8 DEF Pending
<1>16. (\A k \in s..e : ~Pending(k)') /\ (\A k \in s..e : Pending(k))
  BY <1>1, <1>9, <1>14 DEF Pending
<1>17. tree' = tree /\ OpsInv' /\ pc' # "index"
  <2>1. CASE tree' = tree /\ pc' = pc
    BY <1>1, <2>1 DEF OpsInv
  <2>2. CASE Dedup(SubSeq(tfiles, s, e), c)
    BY <1>1, <1>2, <1>6, <1>13, <1>16, <2>2, DedupWorks
  <2> QED
    BY <1>7, <2>1, <2>2
<1>18. WaitInv' /\ FilesInv' /\ NewInv'
  BY <1>1, <1>2, <1>15, <1>17, StillIntact
<1>19. PlanInv'
  <2>1. \A i \in DOMAIN ranges', j \in DOMAIN segs' : ranges'[i][2] < segs'[j][1]
    BY <1>1, <1>2, <1>4 DEF PlanInv
  <2> QED
    BY <1>1, <1>2, <1>5, <1>6, <2>1 DEF PlanInv
<1> QED
  BY <1>1, <1>2, <1>17, <1>18, <1>19 DEF ViewInv

-----------------------------------------------------------------------------
(* A file goes whose copy is in place; the other files and copies stay.     *)
LEMMA ChangedFiles ==
  ASSUME Orderly(before), IndexOf(tfiles, before), WaitInv, FilesInv, NewInv,
         tfiles' = tfiles, segs' = segs, ranges' = ranges, before' = before, mvFailed' = mvFailed,
         NEW s, NEW e, Merged(s, e), NEW k \in s..e,
         \A x \in DOMAIN before : x # FileOf(tfiles, k) /\ x \in DOMAIN tree =>
           x \in DOMAIN tree' /\ tree'[x] = tree[x],
         \A y \in DOMAIN tree' :
           \/ y \in DOMAIN tree /\ tree'[y] = tree[y]
           \/ y = Place(tfiles, s, e) /\ Stored(s, e)',
         \A c, d : Group(tfiles, c, d) /\ Stored(c, d) => Stored(c, d)',
         mvFailed \/ Stored(s, e)'
  PROVE  WaitInv' /\ FilesInv' /\ NewInv' /\ Merged(s, e)'
<1>1. \A i : Pending(i)' <=> Pending(i)
  BY DEF Pending
<1>2. \A c, d : Merged(c, d)' <=> Merged(c, d)
  BY <1>1 DEF Merged
<1>3. s \in DOMAIN tfiles /\ e \in DOMAIN tfiles
  BY DEF Merged, Group
<1>4. ASSUME NEW i \in DOMAIN tfiles, Intact(i), i # k PROVE Intact(i)'
  <2>1. FileOf(tfiles, i) # FileOf(tfiles, k) /\ FileOf(tfiles, i) \in DOMAIN before
    <3>1. k \in DOMAIN tfiles
      BY GroupFiles DEF Merged
    <3> QED
      BY <1>4, <3>1 DEF IndexOf
  <2> QED
    BY <1>4, <2>1 DEF Intact
<1>5. WaitInv'
  <2> SUFFICES ASSUME NEW i \in DOMAIN tfiles, Pending(i) PROVE Intact(i)'
    BY <1>1 DEF WaitInv
  <2>1. i # k
    BY DEF Merged
  <2> QED
    BY <1>4, <2>1 DEF WaitInv
<1>6. FilesInv'
  <2> SUFFICES ASSUME NEW i \in DOMAIN tfiles
               PROVE  \/ Intact(i)'
                      \/ \E c, d \in DOMAIN tfiles : i \in c..d /\ Merged(c, d)' /\ (mvFailed' \/ Stored(c, d)')
    BY DEF FilesInv
  <2>1. CASE i = k
    BY <1>2, <1>3, <2>1
  <2>2. CASE i # k /\ Intact(i)
    BY <1>4, <2>2
  <2>3. CASE ~Intact(i)
    <3>1. PICK c, d \in DOMAIN tfiles : i \in c..d /\ Merged(c, d) /\ (mvFailed \/ Stored(c, d))
      BY <2>3 DEF FilesInv
    <3>2. mvFailed' \/ Stored(c, d)'
      BY <3>1 DEF Merged
    <3>3. Merged(c, d)'
      BY <1>2, <3>1
    <3> QED
      BY <3>1, <3>2, <3>3
  <2> QED
    BY <2>1, <2>2, <2>3
<1>7. NewInv'
  <2> SUFFICES ASSUME NEW y \in DOMAIN tree', ~(y \in DOMAIN before /\ tree'[y] = before[y])
               PROVE  \E c, d \in DOMAIN tfiles : Merged(c, d)' /\ Stored(c, d)' /\ y = Place(tfiles, c, d)
    BY DEF NewInv
  <2>1. CASE y \in DOMAIN tree /\ tree'[y] = tree[y]
    <3>1. PICK c, d \in DOMAIN tfiles : Merged(c, d) /\ Stored(c, d) /\ y = Place(tfiles, c, d)
      BY <2>1 DEF NewInv
    <3>2. Stored(c, d)' /\ Merged(c, d)'
      BY <1>2, <3>1 DEF Merged
    <3> QED
      BY <3>1, <3>2
  <2>2. CASE ~(y \in DOMAIN tree /\ tree'[y] = tree[y])
    BY <1>2, <1>3, <2>2
  <2> QED
    BY <2>1, <2>2
<1>8. Merged(s, e)'
  BY <1>2
<1> QED
  BY <1>5, <1>6, <1>7, <1>8

(* After the first operation there are only removals left.                  *)
LEMMA OnlyRemovals ==
  ASSUME TypeInv, pc = "ops", ops # << >>, ops' = Tail(ops), tfiles' = tfiles,
         NEW s, NEW e, s \in DOMAIN tfiles, e \in DOMAIN tfiles, Working(s, e), Merged(s, e)',
         mvFailed' \/ Stored(s, e)'
  PROVE  OpsInv'
<1>1. /\ \A i \in DOMAIN ops' : i \in Nat /\ i >= 1 /\ i + 1 \in DOMAIN ops /\ ops'[i] = ops[i + 1]
  <2>1. ops \in Seq(OpT(dirs))
    BY DEF TypeInv
  <2> QED
    BY <2>1, TailIs
<1>2. ASSUME NEW i \in DOMAIN ops'
      PROVE  (\E k \in s..e : OpOn(tfiles, ops'[i], i, s, e, k)) /\ ops'[i].what = "rm"
  <2>1. i + 1 # 1 /\ i + 1 \in DOMAIN ops /\ ops'[i] = ops[i + 1]
    BY <1>1
  <2>2. PICK k \in s..e : OpOn(tfiles, ops[i + 1], i + 1, s, e, k)
    BY <2>1 DEF Working
  <2>3. ops[i + 1].what = "rm" /\ ops[i + 1].from = tfiles[k].target /\ ops[i + 1].relpath = tfiles[k].relpath
    BY <2>1, <2>2 DEF OpOn
  <2> DEFINE o == ops[i + 1]
  <2>4. ops'[i] = o /\ o.what = "rm" /\ o.from = tfiles[k].target /\ o.relpath = tfiles[k].relpath
    BY <2>1, <2>3
  <2> HIDE DEF o
  <2>5. OpOn(tfiles, ops'[i], i, s, e, k)
    BY <2>4 DEF OpOn
  <2> QED
    BY <2>4, <2>5
<1>3. ops' # << >> => ops'[1].what = "rm"
  <2>1. ops' # << >> => 1 \in DOMAIN ops'
    <3>1. ops' \in Seq(OpT(dirs))
      BY TailIs DEF TypeInv
    <3>2. DOMAIN ops' = 1..Len(ops') /\ Len(ops') \in Nat /\ (ops' # << >> => Len(ops') # 0)
      BY <3>1, LenProperties, EmptySeq
    <3> QED
      BY <3>2
  <2> QED
    BY <1>2, <2>1
<1>4. Working(s, e)'
  <2>1. ~(ops' # << >> /\ ops'[1].what = "mv")
    BY <1>3
  <2> QED
    BY <1>2, <2>1 DEF Working
<1> QED
  BY <1>4 DEF OpsInv

(* One rename or removal keeps the invariant.                               *)
LEMMA ViewOp ==
  ASSUME TypeInv, Orderly(before), ViewInv, OpStep
  PROVE  ViewInv'
<1> DEFINE o == Head(ops)
           src == <<o.from, o.relpath>>
<1>1. /\ pc = "ops" /\ pc' = "ops" /\ ops # << >> /\ ops' = Tail(ops) /\ tfiles' = tfiles
      /\ before' = before /\ segs' = segs /\ ranges' = ranges
  BY DEF OpStep, plan
<1>2. IndexOf(tfiles, before) /\ PlanInv /\ WaitInv /\ FilesInv /\ NewInv /\ OpsInv
  BY <1>1 DEF ViewInv
<1>3. ops \in Seq(OpT(dirs))
  BY <1>1 DEF TypeInv
<1>4. /\ o = ops[1] /\ 1 \in DOMAIN ops
      /\ \A i \in DOMAIN ops' : i \in Nat /\ i + 1 \in DOMAIN ops /\ ops'[i] = ops[i + 1]
  BY <1>1, <1>3, TailIs
<1>5. \/ o.what \in {"keep", "skip"} /\ tree' = tree /\ mvFailed' = mvFailed
      \/ o.what = "mv" /\ src \in DOMAIN tree /\ tree' = Moved(o) /\ mvFailed' = mvFailed
      \/ /\ o.what = "rm" /\ src \in DOMAIN tree /\ tree' = [x \in DOMAIN tree \ {src} |-> tree[x]]
         /\ mvFailed' = mvFailed
      \/ o.what \in {"mv", "rm"} /\ tree' = tree /\ mvFailed' = (mvFailed \/ o.what = "mv")
  BY DEF OpStep
<1>6. \A i : Pending(i)' <=> Pending(i)
  BY <1>1 DEF Pending
<1>7. PlanInv'
  BY <1>1, <1>2 DEF PlanInv
<1>8. SUFFICES WaitInv' /\ FilesInv' /\ NewInv' /\ OpsInv'
  BY <1>1, <1>2, <1>7 DEF ViewInv
<1>9. ASSUME tree' = tree, mvFailed => mvFailed' PROVE WaitInv' /\ FilesInv' /\ NewInv'
  BY <1>1, <1>2, <1>6, <1>9, StillIntact
<1>10. CASE \A i \in DOMAIN ops : ops[i].what = "skip"
  <2>1. o.what = "skip"
    BY <1>4, <1>10
  <2>2. tree' = tree /\ mvFailed' = mvFailed
    BY <1>5, <2>1
  <2>3. \A i \in DOMAIN ops' : ops'[i].what = "skip"
    BY <1>4, <1>10
  <2> QED
    BY <1>9, <2>2, <2>3 DEF OpsInv
<1>11. CASE ~\A i \in DOMAIN ops : ops[i].what = "skip"
  <2>1. PICK s, e \in DOMAIN tfiles : Merged(s, e) /\ Working(s, e)
    BY <1>1, <1>2, <1>11 DEF OpsInv
  <2>2. PICK k \in s..e : OpOn(tfiles, o, 1, s, e, k)
    BY <1>4, <2>1 DEF Working
  <2> HIDE DEF o
  <2>3. src = FileOf(tfiles, k) /\ o.what \in {"mv", "rm"}
        /\ (o.what = "mv" => k = s /\ o.to = Goal(tfiles, s, e))
    BY <2>2 DEF OpOn, FileOf
  <2>4. /\ s \in s..e /\ Group(tfiles, s, e) /\ \A m \in s..e : m \in DOMAIN tfiles
    BY <1>2, <2>1, GroupFiles DEF Merged
  <2>5. FileOf(tfiles, k) \in DOMAIN before
    BY <1>2, <2>4 DEF IndexOf
  <2>6. ASSUME NEW c, NEW d, Group(tfiles, c, d)
        PROVE  Place(tfiles, c, d) # src
    <3>1. Place(tfiles, c, d) \notin DOMAIN before
      BY <1>2, <2>6, PlaceNew
    <3> QED
      BY <2>3, <2>5, <3>1
  <2>7. Merged(s, e)'
    BY <1>1, <1>6, <2>1 DEF Merged
  <2>8. CASE o.what \in {"mv", "rm"} /\ tree' = tree /\ mvFailed' = (mvFailed \/ o.what = "mv")
    <3>1. mvFailed' \/ Stored(s, e)'
      <4>1. CASE o.what = "mv"
        BY <2>8, <4>1
      <4>2. CASE o.what # "mv"
        <5>1. mvFailed \/ Stored(s, e)
          BY <1>4, <2>1, <4>2 DEF Working
        <5> QED
          BY <1>1, <2>8, <5>1 DEF Stored
      <4> QED
        BY <4>1, <4>2
    <3>2. WaitInv' /\ FilesInv' /\ NewInv'
      BY <1>9, <2>8
    <3> QED
      BY <1>1, <2>1, <2>7, <3>1, <3>2, OnlyRemovals
  <2>9. CASE o.what = "mv" /\ src \in DOMAIN tree /\ tree' = Moved(o) /\ mvFailed' = mvFailed
    <3> DEFINE y == Place(tfiles, s, e)
    <3>1. y \notin DOMAIN tree /\ Intact(s)
      BY <1>1, <1>4, <2>1, <2>4, <2>9 DEF Working
    <3>2. k = s /\ <<o.to, o.relpath>> = y
      BY <2>2, <2>3, <2>9 DEF Place, OpOn
    <3>3. tree' = [x \in (DOMAIN tree \ {src}) \cup {y} |-> IF x = y THEN tree[src] ELSE tree[x]]
      BY <2>9, <3>2 DEF Moved
    <3>4. tree[src] = tfiles[s].hash
      BY <2>3, <3>1, <3>2 DEF Intact
    <3>5. Stored(s, e)'
      BY <1>1, <3>3, <3>4 DEF Stored
    <3>6. \A x \in DOMAIN before : x # FileOf(tfiles, k) /\ x \in DOMAIN tree =>
            x \in DOMAIN tree' /\ tree'[x] = tree[x]
      BY <2>3, <3>1, <3>3
    <3>7. \A x \in DOMAIN tree' : (x \in DOMAIN tree /\ tree'[x] = tree[x])
                               \/ (x = Place(tfiles, s, e) /\ Stored(s, e)')
      BY <3>3, <3>5
    <3>8. ASSUME NEW c, NEW d, Group(tfiles, c, d), Stored(c, d) PROVE Stored(c, d)'
      <4>1. Place(tfiles, c, d) \in DOMAIN tree /\ Place(tfiles, c, d) # src /\ Place(tfiles, c, d) # y
        BY <2>6, <3>1, <3>8 DEF Stored
      <4> QED
        BY <1>1, <3>3, <3>8, <4>1 DEF Stored
    <3>9. WaitInv' /\ FilesInv' /\ NewInv'
      <4> HIDE DEF y, src
      <4> QED
        BY <1>1, <1>2, <2>1, <2>9, <3>5, <3>6, <3>7, <3>8, ChangedFiles
    <3> QED
      BY <1>1, <2>1, <2>7, <3>5, <3>9, OnlyRemovals
  <2>10. CASE /\ o.what = "rm" /\ src \in DOMAIN tree /\ tree' = [x \in DOMAIN tree \ {src} |-> tree[x]]
              /\ mvFailed' = mvFailed
    <3>1. mvFailed \/ Stored(s, e)
      BY <1>1, <1>4, <2>1, <2>10 DEF Working
    <3>2. DOMAIN tree' = DOMAIN tree \ {src} /\ \A x \in DOMAIN tree \ {src} : tree'[x] = tree[x]
      BY <2>10
    <3>3. ASSUME NEW c, NEW d, Group(tfiles, c, d), Stored(c, d) PROVE Stored(c, d)'
      <4>1. Place(tfiles, c, d) \in DOMAIN tree /\ Place(tfiles, c, d) # src
        BY <2>6, <3>3 DEF Stored
      <4> QED
        BY <1>1, <3>2, <3>3, <4>1 DEF Stored
    <3>4. mvFailed \/ Stored(s, e)'
      BY <2>4, <3>1, <3>3
    <3>5. \A x \in DOMAIN before : x # FileOf(tfiles, k) /\ x \in DOMAIN tree =>
            x \in DOMAIN tree' /\ tree'[x] = tree[x]
      BY <2>3, <3>2
    <3>6. \A x \in DOMAIN tree' : x \in DOMAIN tree /\ tree'[x] = tree[x]
      BY <3>2
    <3>7. WaitInv' /\ FilesInv' /\ NewInv'
      <4> HIDE DEF src
      <4> QED
        BY <1>1, <1>2, <2>1, <2>10, <3>3, <3>4, <3>5, <3>6, ChangedFiles
    <3> QED
      BY <1>1, <2>1, <2>7, <2>10, <3>4, <3>7, OnlyRemovals
  <2> QED
    BY <1>5, <2>3, <2>8, <2>9, <2>10
<1> QED
  BY <1>10, <1>11

(* Every step keeps the invariant.                                          *)
LEMMA ViewStep == TypeInv /\ Orderly(before) /\ ViewInv /\ [Next]_vars => ViewInv'
<1> SUFFICES ASSUME TypeInv, Orderly(before), ViewInv, [Next]_vars PROVE ViewInv'
  OBVIOUS
<1> USE DEF disk, plan, history
<1>1. CASE Index
  BY <1>1, ViewIndex
<1>2. CASE Segment
  BY <1>2, ViewSegment
<1>3. CASE Range2
  BY <1>3, ViewRange
<1>4. CASE SegmentEnd
  BY <1>4, ViewOn DEF SegmentEnd
<1>5. CASE OpStep
  BY <1>5, ViewOp
<1>6. CASE OpsEnd
  BY <1>6, ViewOn DEF OpsEnd
<1>7. CASE SegmentsOver
  BY <1>7, ViewOn DEF SegmentsOver
<1>8. CASE RemoveDir
  BY <1>8, ViewOn DEF RemoveDir
<1>9. CASE Finish
  BY <1>9, ViewOn DEF Finish
<1>10. CASE UNCHANGED vars
  <2>1. /\ pc' = pc /\ tree' = tree /\ tfiles' = tfiles /\ segs' = segs /\ ranges' = ranges
        /\ ops' = ops /\ before' = before /\ mvFailed' = mvFailed
    BY <1>10 DEF vars
  <2> QED
    BY <2>1 DEF ViewInv, PlanInv, WaitInv, FilesInv, NewInv, OpsInv, Intact, Stored, Pending, Merged, Working
<1> QED
  BY <1>1, <1>2, <1>3, <1>4, <1>5, <1>6, <1>7, <1>8, <1>9, <1>10 DEF Next

(* It holds in every state, for an orderly layout.                          *)
LEMMA ViewAlways == Spec => [](Orderly(before) => ViewInv)
<1>1. Init => (Orderly(before) => ViewInv)
  BY ViewInit
<1>2. TypeInv /\ (Orderly(before) => ViewInv) /\ [Next]_vars => (Orderly(before) => ViewInv)'
  <2>1. [Next]_vars => before' = before
    BY DEF Next, Index, Segment, Range2, SegmentEnd, OpStep, OpsEnd, SegmentsOver, RemoveDir, Finish, vars,
           history
  <2> QED
    BY <2>1, ViewStep
<1> QED
  BY <1>1, <1>2, TypeCorrect, PTL DEF Spec

-----------------------------------------------------------------------------
(* No rename of the dedup tool goes onto a file: what dedup_tfiles makes the *)
(* common file of a group is never there already, neither as one of the     *)
(* files of the start nor as the common file of another group. rename(2)    *)
(* would replace it without a word. For all layouts whose headers are       *)
(* Orderly, any number of targets and contents, and any failures.           *)
THEOREM NoOverwriteAlways == Spec => [](Orderly(before) => NoOverwrite)
<1>1. TypeInv /\ (Orderly(before) => ViewInv) => (Orderly(before) => NoOverwrite)
  <2> SUFFICES ASSUME TypeInv, ViewInv, pc = "ops", ops # << >>, Head(ops).what = "mv",
                      <<Head(ops).to, Head(ops).relpath>> \in DOMAIN tree
               PROVE  FALSE
    BY DEF NoOverwrite
  <2>1. Head(ops) = ops[1] /\ 1 \in DOMAIN ops
    <3>1. ops \in Seq(OpT(dirs))
      BY DEF TypeInv
    <3> QED
      BY <3>1, TailIs
  <2>2. ops[1].what = "mv"
    BY <2>1
  <2>3. PICK s, e \in DOMAIN tfiles : Working(s, e)
    BY <2>1, <2>2 DEF ViewInv, OpsInv
  <2>4. PICK k \in s..e : OpOn(tfiles, ops[1], 1, s, e, k)
    BY <2>1, <2>3 DEF Working
  <2>5. <<ops[1].to, ops[1].relpath>> = Place(tfiles, s, e)
    BY <2>2, <2>4 DEF OpOn, Place
  <2>6. Place(tfiles, s, e) \notin DOMAIN tree
    BY <2>2, <2>3 DEF Working
  <2> QED
    BY <2>1, <2>5, <2>6
<1> QED
  BY <1>1, ViewAlways, TypeCorrect, PTL

-----------------------------------------------------------------------------
(* What a target finds.                                                     *)
Hit(files, t, r, i) == <<SearchPath(t)[i], r>> \in DOMAIN files

(* The i-th directory of the search path is the first that has the header.  *)
FirstHit(files, t, r, i) == Hit(files, t, r, i) /\ \A j \in 1..3 : j < i => ~Hit(files, t, r, j)

(* The three directories a target searches.                                 *)
LEMMA PathIs ==
  ASSUME NEW t
  PROVE  /\ DOMAIN SearchPath(t) = 1..3 /\ SearchPath(t)[1] = t
         /\ SearchPath(t)[2] = [t EXCEPT !.sysver = ""]
         /\ SearchPath(t)[3] = TargetT("any", t.sys, "", t.suffix)
  BY DEF SearchPath

(* Lookup finds the header in the first directory that has it.              *)
LEMMA LookupFirst ==
  ASSUME NEW files, NEW t, NEW r, NEW i \in 1..3, FirstHit(files, t, r, i)
  PROVE  Lookup(files, t, r) = files[<<SearchPath(t)[i], r>>]
<1> DEFINE path == SearchPath(t)
           hits == {j \in DOMAIN path : <<path[j], r>> \in DOMAIN files}
           f == CHOOSE j \in hits : \A m \in hits : j <= m
<1>1. hits = {j \in 1..3 : Hit(files, t, r, j)}
  BY PathIs DEF Hit
<1>2. Lookup(files, t, r) = IF hits = {} THEN NoFile ELSE files[<<path[f], r>>]
  BY DEF Lookup
<1> HIDE DEF hits, path
<1>3. i \in hits /\ \A j \in hits : j \in 1..3 /\ ~(j < i)
  BY <1>1 DEF FirstHit
<1>4. \A j \in hits : i <= j
  BY <1>3
<1>5. \A m \in hits : (\A j \in hits : m <= j) => m = i
  BY <1>3, <1>4
<1>6. f = i /\ hits # {}
  BY <1>3, <1>4, <1>5
<1> HIDE DEF f
<1>7. Lookup(files, t, r) = files[<<path[i], r>>]
  BY <1>2, <1>6
<1> QED
  BY <1>7 DEF path

(* If no directory has it, it finds none.                                   *)
LEMMA LookupIs ==
  ASSUME NEW files, NEW t, NEW r
  PROVE  /\ (\A i \in 1..3 : ~Hit(files, t, r, i)) => Lookup(files, t, r) = NoFile
         /\ (\E i \in 1..3 : Hit(files, t, r, i)) => \E i \in 1..3 : FirstHit(files, t, r, i)
<1> DEFINE path == SearchPath(t)
           hits == {i \in DOMAIN path : <<path[i], r>> \in DOMAIN files}
           f == CHOOSE i \in hits : \A j \in hits : i <= j
<1>1. hits = {i \in 1..3 : Hit(files, t, r, i)}
  BY PathIs DEF Hit
<1>2. Lookup(files, t, r) = IF hits = {} THEN NoFile ELSE files[<<path[f], r>>]
  BY DEF Lookup
<1> HIDE DEF hits, path
<1>4. (\E i \in 1..3 : Hit(files, t, r, i)) => \E i \in 1..3 : FirstHit(files, t, r, i)
  <2>1. 1 \in 1..3 /\ 2 \in 1..3 /\ 3 \in 1..3
    OBVIOUS
  <2>2. CASE Hit(files, t, r, 1)
    <3>1. FirstHit(files, t, r, 1)
      BY <2>2 DEF FirstHit
    <3> QED
      BY <2>1, <3>1
  <2>3. CASE ~Hit(files, t, r, 1) /\ Hit(files, t, r, 2)
    <3>1. \A j \in 1..3 : j < 2 => j = 1
      OBVIOUS
    <3>2. FirstHit(files, t, r, 2)
      BY <2>3, <3>1 DEF FirstHit
    <3> QED
      BY <2>1, <3>2
  <2>4. CASE ~Hit(files, t, r, 1) /\ ~Hit(files, t, r, 2) /\ Hit(files, t, r, 3)
    <3>1. \A j \in 1..3 : j < 3 => j = 1 \/ j = 2
      OBVIOUS
    <3>2. FirstHit(files, t, r, 3)
      BY <2>4, <3>1 DEF FirstHit
    <3> QED
      BY <2>1, <3>2
  <2>5. \A i \in 1..3 : i = 1 \/ i = 2 \/ i = 3
    OBVIOUS
  <2> QED
    BY <2>2, <2>3, <2>4, <2>5
<1>6. (\A i \in 1..3 : ~Hit(files, t, r, i)) => Lookup(files, t, r) = NoFile
  BY <1>1, <1>2
<1> QED
  BY <1>4, <1>6

(* Where no other system's content is among a header's, its files are next  *)
(* to each other.                                                           *)
LEMMA WholeSegment ==
  ASSUME NEW fs, NEW layout, IndexOf(fs, layout), NEW s, NEW e, IsSegment(fs, s, e),
         Undivided(layout, fs[s].relpath, fs[s].target.sys)
  PROVE  \A m \in DOMAIN fs : Akin(fs, m, s) => m \in s..e
<1> SUFFICES ASSUME NEW m \in DOMAIN fs, Akin(fs, m, s), m \notin s..e PROVE FALSE
  OBVIOUS
<1>1. s \in DOMAIN fs /\ e \in DOMAIN fs /\ s < e
  BY DEF IsSegment
<1>2. s \in Nat /\ e \in Nat /\ s \in 1..Len(fs)
  BY <1>1, InIndex
<1>3. m \in Nat /\ m \in 1..Len(fs) /\ Len(fs) \in Nat /\ DOMAIN fs = 1..Len(fs)
  BY InIndex, LenProperties DEF IndexOf
<1>4. CASE e < m
  BY <1>4, SegmentsMeet, AkinSame
<1>5. CASE m < s
  <2> DEFINE n == s - 1
             top == Len(fs)
  <2>0. s \in 1..top
    BY <1>2
  <2> HIDE DEF top
  <2>1. n \in 1..top /\ (m = n \/ m < n) /\ n < s /\ s > 1
    BY <1>2, <1>3, <1>5, <2>0 DEF top
  <2>2. n \in DOMAIN fs /\ ~Akin(fs, n, s)
    BY <1>3, <2>1 DEF IsSegment, top
  <2> HIDE DEF n
  <2>3. Akin(fs, n, m)
    <3>1. CASE m = n
      BY <3>1, AkinSame
    <3>2. CASE m < n
      <4>1. Undivided(layout, fs[m].relpath, fs[m].target.sys)
        BY DEF Akin
      <4> QED
        BY <1>1, <2>1, <2>2, <3>2, <4>1, Between
    <3> QED
      BY <2>1, <3>1, <3>2
  <2> QED
    BY <2>2, <2>3, AkinSame
<1> QED
  BY <1>2, <1>3, <1>4, <1>5

(* All files of a header are in a group of several architectures.           *)
LEMMA WholeUniform ==
  ASSUME NEW fs, NEW layout, IndexOf(fs, layout), Orderly(layout), NEW s, NEW e, Group(fs, s, e),
         ~OneArch(fs, s, e)
  PROVE  \A m \in DOMAIN fs : Akin(fs, m, s) => m \in s..e
<1>1. /\ s \in DOMAIN fs /\ e \in DOMAIN fs /\ s \in Nat /\ e \in Nat /\ s < e /\ s \in s..e
      /\ \A k \in s..e : k \in DOMAIN fs /\ Akin(fs, k, s) /\ fs[k].hash = fs[s].hash
  BY GroupFiles
<1>2. IsSegment(fs, s, e)
  BY DEF Group
<1>3. PICK k \in s..e : fs[k].target.arch # fs[s].target.arch
  BY DEF OneArch
<1>4. Undivided(layout, fs[s].relpath, fs[s].target.sys)
  <2> DEFINE x == FileOf(fs, k)
             y == FileOf(fs, s)
  <2>1. /\ x \in DOMAIN layout /\ x[1] = fs[k].target /\ x[2] = fs[k].relpath
        /\ layout[x] = fs[k].hash
        /\ y \in DOMAIN layout /\ y[1] = fs[s].target /\ y[2] = fs[s].relpath
        /\ layout[y] = fs[s].hash
    BY <1>1 DEF IndexOf, FileOf
  <2>2. /\ x[2] = y[2] /\ x[1].sys = y[1].sys /\ x[1].arch # y[1].arch /\ layout[x] = layout[y]
    BY <1>1, <1>3, <2>1 DEF Akin
  <2> HIDE DEF x, y
  <2>3. ~ByArch(layout, y[2], y[1].sys)
    BY <2>1, <2>2 DEF ByArch
  <2>4. Undivided(layout, y[2], y[1].sys)
    BY <2>1, <2>3 DEF Orderly
  <2> QED
    BY <2>1, <2>4
<1> QED
  BY <1>2, <1>4, WholeSegment

-----------------------------------------------------------------------------

(* The directories of a search path by their parts.                         *)
LEMMA PathParts ==
  ASSUME NEW t \in target_t, NEW i \in 1..3
  PROVE  /\ SearchPath(t)[i] \in target_t
         /\ SearchPath(t)[i].sys = t.sys /\ SearchPath(t)[i].suffix = t.suffix
         /\ SearchPath(t)[i].arch = IF i = 3 THEN "any" ELSE t.arch
         /\ SearchPath(t)[i].sysver = IF i = 1 THEN t.sysver ELSE ""
<1>1. t.arch \in Word /\ t.sys \in Word /\ t.sysver \in Word /\ t.suffix \in Word
  BY DEF target_t
<1>2. "" \in Word /\ "any" \in Word
  BY WordsApart
<1> DEFINE t1 == t
           t2 == [t EXCEPT !.sysver = ""]
           t3 == TargetT("any", t.sys, "", t.suffix)
<1>3. SearchPath(t)[1] = t1 /\ SearchPath(t)[2] = t2 /\ SearchPath(t)[3] = t3
  BY PathIs
<1>4. /\ t2 \in target_t /\ t2.sys = t.sys /\ t2.suffix = t.suffix /\ t2.arch = t.arch /\ t2.sysver = ""
  BY <1>1, <1>2 DEF target_t
<1>5. /\ t3 \in target_t /\ t3.sys = t.sys /\ t3.suffix = t.suffix /\ t3.arch = "any" /\ t3.sysver = ""
  BY <1>1, <1>2 DEF target_t, TargetT
<1> HIDE DEF t2, t3
<1>6. CASE i = 1
  BY <1>3, <1>6
<1>7. CASE i = 2
  <2>1. SearchPath(t)[i] = t2 /\ i # 1 /\ i # 3
    BY <1>3, <1>7
  <2> QED
    BY <1>4, <2>1
<1>8. CASE i = 3
  BY <1>3, <1>5, <1>8
<1>9. i = 1 \/ i = 2 \/ i = 3
  OBVIOUS
<1> QED
  BY <1>6, <1>7, <1>8, <1>9

(* Of the three places, one held a file at the start.                       *)
LEMMA OnlyPlace ==
  ASSUME NEW layout, Orderly(layout), NEW t \in target_t, NEW r, NEW i \in 1..3, NEW j \in 1..3,
         Hit(layout, t, r, i)
  PROVE  /\ i # 3
         /\ Hit(layout, t, r, j) => SearchPath(t)[i] = SearchPath(t)[j]
<1> DEFINE a == SearchPath(t)[i]
           x == <<a, r>>
<1>0. x \in DOMAIN layout /\ x[1] = a /\ x[2] = r
  BY DEF Hit
<1>1. a \in target_t /\ a.arch = (IF i = 3 THEN "any" ELSE t.arch) /\ a.sys = t.sys /\ a.suffix = t.suffix
      /\ a.sysver = (IF i = 1 THEN t.sysver ELSE "")
  BY PathParts
<1> HIDE DEF a, x
<1>2. i # 3
  BY <1>0, <1>1 DEF Orderly
<1>3. ASSUME Hit(layout, t, r, j) PROVE a = SearchPath(t)[j]
  <2> DEFINE b == SearchPath(t)[j]
             y == <<b, r>>
  <2>1. y \in DOMAIN layout /\ y[1] = b /\ y[2] = r
    BY <1>3 DEF Hit
  <2>2. b \in target_t /\ b.arch = (IF j = 3 THEN "any" ELSE t.arch) /\ b.sys = t.sys /\ b.suffix = t.suffix
        /\ b.sysver = (IF j = 1 THEN t.sysver ELSE "")
    BY PathParts
  <2> HIDE DEF b, y
  <2>3. j # 3
    BY <2>1, <2>2 DEF Orderly
  <2>4. a.sysver = "" <=> b.sysver = ""
    BY <1>0, <1>1, <2>1, <2>2 DEF Orderly
  <2>5. a.sysver = b.sysver
    BY <1>1, <2>2, <2>4
  <2>6. a = b
    BY <1>1, <1>2, <2>2, <2>3, <2>5, SameTarget
  <2> QED
    BY <2>6 DEF b
<1> QED
  BY <1>2, <1>3 DEF a

(* The place of a group is one where the targets of its files look.         *)
LEMMA PlaceOnPath ==
  ASSUME NEW fs, NEW layout, IndexOf(fs, layout), Orderly(layout), NEW s, NEW e, Group(fs, s, e),
         NEW t \in target_t, fs[s].target.sys = t.sys, fs[s].target.suffix = t.suffix
  PROVE  /\ OneArch(fs, s, e) /\ fs[s].target.arch = t.arch => Goal(fs, s, e) = SearchPath(t)[2]
         /\ ~OneArch(fs, s, e) => Goal(fs, s, e) = SearchPath(t)[3]
         /\ Goal(fs, s, e).arch = "any" => ~OneArch(fs, s, e)
<1>1. s \in DOMAIN fs /\ e \in DOMAIN fs /\ fs[s].target \in target_t /\ fs[s].target.arch # "any"
  BY GroupFiles, InIndex, EntryIs, OrderlyFile
<1> DEFINE g == Goal(fs, s, e)
           u == fs[s].target
           t2 == SearchPath(t)[2]
           t3 == SearchPath(t)[3]
<1>2. /\ g \in target_t /\ g.sysver = "" /\ g.sys = u.sys /\ g.suffix = u.suffix
      /\ OneArch(fs, s, e) => g.arch = u.arch
      /\ ~OneArch(fs, s, e) => g.arch = "any"
  BY <1>1, GoalIs
<1>3. /\ t2 \in target_t /\ t2.sys = t.sys /\ t2.suffix = t.suffix /\ t2.arch = t.arch /\ t2.sysver = ""
  <2>1. 2 \in 1..3 /\ 2 # 3 /\ 2 # 1
    OBVIOUS
  <2> QED
    BY <2>1, PathParts
<1>4. /\ t3 \in target_t /\ t3.sys = t.sys /\ t3.suffix = t.suffix /\ t3.arch = "any" /\ t3.sysver = ""
  <2>1. 3 \in 1..3 /\ 3 # 1
    OBVIOUS
  <2> QED
    BY <2>1, PathParts
<1>5. u.sys = t.sys /\ u.suffix = t.suffix /\ u.arch # "any"
  BY <1>1
<1>6. (OneArch(fs, s, e) /\ u.arch = t.arch => g = t2) /\ (~OneArch(fs, s, e) => g = t3)
      /\ (g.arch = "any" => ~OneArch(fs, s, e))
  <2> HIDE DEF g, u, t2, t3
  <2>1. ASSUME OneArch(fs, s, e), u.arch = t.arch PROVE g = t2
    BY <1>2, <1>3, <1>5, <2>1, SameTarget
  <2>2. ASSUME ~OneArch(fs, s, e) PROVE g = t3
    BY <1>2, <1>4, <1>5, <2>2, SameTarget
  <2> QED
    BY <1>2, <1>5, <2>1, <2>2
<1> QED
  BY <1>6

(* The lookup in the tree, as the place that is found first says it.        *)
LEMMA TreeLookup ==
  ASSUME NEW t \in target_t, NEW r
  PROVE  \A m \in 1..3 : FirstHit(tree, t, r, m) => Lookup(tree, t, r) = tree[<<SearchPath(t)[m], r>>]
  BY LookupFirst DEF FirstHit, Hit

(* What a target found, it finds.                                           *)
LEMMA Found ==
  ASSUME ViewInv, Orderly(before), ~mvFailed, NEW t \in target_t, NEW r, Lookup(before, t, r) # NoFile
  PROVE  Lookup(tree, t, r) = Lookup(before, t, r)
<1> DEFINE path == SearchPath(t)
<1>1. CASE pc = "index"
  BY <1>1 DEF ViewInv
<1>2. CASE pc # "index"
  <2>1. IndexOf(tfiles, before) /\ FilesInv /\ NewInv
    BY <1>2 DEF ViewInv
  <2>2. PICK i \in 1..3 : FirstHit(before, t, r, i)
    BY LookupIs
  <2> DEFINE x == <<path[i], r>>
  <2>3. Lookup(before, t, r) = before[x] /\ Hit(before, t, r, i) /\ x \in DOMAIN before
    BY <2>2, LookupFirst DEF FirstHit, Hit
  <2>4. PICK k \in DOMAIN tfiles : FileOf(tfiles, k) = x
    BY <2>1, <2>3 DEF IndexOf
  <2> DEFINE h == tfiles[k].hash
  <2>5. before[x] = h /\ tfiles[k].target = path[i] /\ tfiles[k].relpath = r
    BY <2>1, <2>4 DEF IndexOf, FileOf
  <2>6. i # 3 /\ \A j \in 1..3 : Hit(before, t, r, j) => path[i] = path[j]
    BY <2>3, OnlyPlace
  <2>7. tfiles[k].target.sys = t.sys /\ tfiles[k].target.suffix = t.suffix /\ tfiles[k].target.arch = t.arch
    <3>1. path[i].sys = t.sys /\ path[i].suffix = t.suffix /\ path[i].arch = t.arch
      BY <2>6, PathParts
    <3> HIDE DEF path
    <3> QED
      BY <2>5, <3>1
  <2> SUFFICES Lookup(tree, t, r) = h
    BY <2>3, <2>5
  <2> HIDE DEF x, h, path
  \* a file at one of the three places that is not of the start is a common file
  <2>8. ASSUME NEW j \in 1..3, Hit(tree, t, r, j), ~Hit(before, t, r, j)
        PROVE  /\ path[j].sysver = ""
               /\ \E c, d \in DOMAIN tfiles :
                    /\ Group(tfiles, c, d) /\ tree[<<path[j], r>>] = tfiles[c].hash
                    /\ <<path[j], r>> = Place(tfiles, c, d)
    <3>1. PICK c, d \in DOMAIN tfiles : /\ Merged(c, d) /\ Stored(c, d) /\ <<path[j], r>> = Place(tfiles, c, d)
      BY <2>1, <2>8 DEF NewInv, Hit, path
    <3>2. tfiles[c].target \in target_t
      BY <2>1, InIndex, EntryIs
    <3>3. Goal(tfiles, c, d).sysver = ""
      BY <3>2, GoalIs
    <3>4. path[j] = Goal(tfiles, c, d)
      BY <3>1 DEF Place
    <3> QED
      BY <3>1, <3>3, <3>4 DEF Merged, Stored
  <2>9. PICK j \in 1..3 : /\ (\E m \in 1..3 : Hit(tree, t, r, m)) => FirstHit(tree, t, r, j)
                          /\ FirstHit(tree, t, r, j) => Lookup(tree, t, r) = tree[<<path[j], r>>]
    <3>1. \A m \in 1..3 : FirstHit(tree, t, r, m) => Lookup(tree, t, r) = tree[<<path[m], r>>]
      <4>1. \A m \in 1..3 : FirstHit(tree, t, r, m) => Lookup(tree, t, r) = tree[<<SearchPath(t)[m], r>>]
        BY TreeLookup
      <4> QED
        BY <4>1 DEF path
    <3>2. CASE \E m \in 1..3 : Hit(tree, t, r, m)
      <4>1. PICK m \in 1..3 : FirstHit(tree, t, r, m)
        BY <3>2, LookupIs
      <4> QED
        BY <3>1, <4>1
    <3>3. CASE ~\E m \in 1..3 : Hit(tree, t, r, m)
      <4>1. 1 \in 1..3
        OBVIOUS
      <4> QED
        BY <3>1, <3>3, <4>1
    <3> QED
      BY <3>2, <3>3
  <2>10. CASE Intact(k)
    <3>1. Hit(tree, t, r, i) /\ tree[x] = h
      BY <2>4, <2>10 DEF Intact, Hit, x, h, path
    <3>2. FirstHit(tree, t, r, j) /\ Lookup(tree, t, r) = tree[<<path[j], r>>]
      BY <2>9, <3>1
    <3>3. Hit(tree, t, r, j) /\ ~(i < j)
      BY <3>1, <3>2 DEF FirstHit
    <3>4. CASE j = i
      BY <3>1, <3>2, <3>4 DEF x
    <3>5. CASE j # i
      <4>1. j = 1 /\ i = 2
        BY <2>6, <3>3, <3>5
      <4>2. ~Hit(before, t, r, j)
        BY <2>2, <4>1 DEF FirstHit
      <4>3. path[1].sysver = ""
        BY <2>8, <3>3, <4>1, <4>2
      <4>4. path[1] = path[2]
        <5>1. path[1] \in target_t /\ path[1].sys = t.sys /\ path[1].suffix = t.suffix /\ path[1].arch = t.arch
          <6>1. 1 \in 1..3 /\ 1 # 3
            OBVIOUS
          <6> QED
            BY <6>1, PathParts DEF path
        <5>2. path[2] \in target_t /\ path[2].sys = t.sys /\ path[2].suffix = t.suffix /\ path[2].arch = t.arch
              /\ path[2].sysver = ""
          <6>1. 2 \in 1..3 /\ 2 # 3 /\ 2 # 1
            OBVIOUS
          <6> QED
            BY <6>1, PathParts DEF path
        <5> QED
          BY <4>3, <5>1, <5>2, SameTarget
      <4>5. path[j] = path[i]
        BY <4>1, <4>4
      <4> QED
        BY <3>1, <3>2, <4>5 DEF x
    <3> QED
      BY <3>4, <3>5
  <2>11. CASE ~Intact(k)
    <3>1. PICK s, e \in DOMAIN tfiles : k \in s..e /\ Group(tfiles, s, e) /\ Stored(s, e)
      BY <2>1, <2>11 DEF FilesInv, Merged
    <3>2. /\ tfiles[k].hash = tfiles[s].hash /\ Akin(tfiles, k, s)
          /\ tfiles[k].target.suffix = tfiles[s].target.suffix
      BY <2>1, <3>1, GroupFiles
    <3>3. tfiles[s].target.sys = t.sys /\ tfiles[s].target.suffix = t.suffix /\ tfiles[s].relpath = r
          /\ tfiles[s].hash = h
      BY <2>5, <2>7, <3>2 DEF Akin, h
    <3>4. ASSUME NEW m \in 1..3, Hit(tree, t, r, m) PROVE ~Hit(before, t, r, m)
      <4> SUFFICES ASSUME Hit(before, t, r, m) PROVE FALSE
        OBVIOUS
      <4>1. path[m] = path[i] /\ <<path[m], r>> = x
        BY <2>6 DEF x
      <4>2. x \in DOMAIN tree
        BY <3>4, <4>1 DEF Hit, path
      <4>3. tree[x] # h
        BY <2>4, <2>11, <4>2 DEF Intact, h
      <4>4. PICK c, d \in DOMAIN tfiles : Merged(c, d) /\ x = Place(tfiles, c, d)
        BY <2>1, <2>3, <2>5, <4>2, <4>3 DEF NewInv
      <4> QED
        BY <2>1, <2>3, <4>4, PlaceNew DEF Merged
    <3>5. /\ Place(tfiles, s, e) = <<Goal(tfiles, s, e), r>>
          /\ Place(tfiles, s, e) \in DOMAIN tree /\ tree[Place(tfiles, s, e)] = h
      BY <3>1, <3>3 DEF Stored, Place
    <3>6. 2 \in 1..3 /\ 3 \in 1..3
      OBVIOUS
    <3>7. CASE OneArch(tfiles, s, e)
      <4>1. tfiles[s].target.arch = t.arch
        BY <2>1, <2>7, <3>1, <3>7 DEF OneArch
      <4>2. Goal(tfiles, s, e) = path[2]
        BY <2>1, <3>1, <3>3, <3>7, <4>1, PlaceOnPath DEF path
      <4>3. Hit(tree, t, r, 2)
        BY <3>5, <4>2 DEF Hit, path
      <4>4. FirstHit(tree, t, r, j) /\ Hit(tree, t, r, j) /\ ~(2 < j) /\ Lookup(tree, t, r) = tree[<<path[j], r>>]
        BY <2>9, <3>6, <4>3 DEF FirstHit
      <4>5. j = 1 \/ j = 2
        BY <4>4
      <4>6. path[j].sysver = ""
        BY <2>8, <3>4, <4>4
      <4>7. path[j] = path[2]
        <5>1. path[j] \in target_t /\ path[j].sys = t.sys /\ path[j].suffix = t.suffix /\ path[j].arch = t.arch
          <6>1. j # 3
            BY <4>5
          <6> QED
            BY <6>1, PathParts DEF path
        <5>2. path[2] \in target_t /\ path[2].sys = t.sys /\ path[2].suffix = t.suffix /\ path[2].arch = t.arch
              /\ path[2].sysver = ""
          <6>1. 2 # 3 /\ 2 # 1
            OBVIOUS
          <6> QED
            BY <3>6, <6>1, PathParts DEF path
        <5> QED
          BY <4>6, <5>1, <5>2, SameTarget
      <4> QED
        BY <3>5, <4>2, <4>4, <4>7
    <3>8. CASE ~OneArch(tfiles, s, e)
      <4>1. Goal(tfiles, s, e) = path[3]
        BY <2>1, <3>1, <3>3, <3>8, PlaceOnPath DEF path
      <4>2. Hit(tree, t, r, 3)
        BY <3>5, <4>1 DEF Hit, path
      <4>3. FirstHit(tree, t, r, j) /\ Hit(tree, t, r, j) /\ Lookup(tree, t, r) = tree[<<path[j], r>>]
        BY <2>9, <3>6, <4>2 DEF FirstHit
      <4>4. PICK c, d \in DOMAIN tfiles :
              /\ Group(tfiles, c, d) /\ tree[<<path[j], r>>] = tfiles[c].hash
              /\ <<path[j], r>> = Place(tfiles, c, d)
        BY <2>8, <3>4, <4>3
      <4>5. path[j] = Goal(tfiles, c, d) /\ tfiles[c].relpath = r
        BY <4>4 DEF Place
      <4>6. Goal(tfiles, c, d).sys = tfiles[c].target.sys
        <5>1. tfiles[c].target \in target_t
          BY <2>1, InIndex, EntryIs
        <5> QED
          BY <5>1, GoalIs, ZenonT(60)
      <4>7. path[j].sys = t.sys
        BY PathParts DEF path
      <4>8. Akin(tfiles, c, s)
        BY <3>3, <4>5, <4>6, <4>7 DEF Akin
      <4>9. c \in s..e
        BY <2>1, <3>1, <3>8, <4>8, WholeUniform
      <4>10. tfiles[c].hash = h
        BY <2>1, <3>1, <3>3, <4>9, GroupFiles
      <4> QED
        BY <4>3, <4>4, <4>10
    <3> QED
      BY <3>7, <3>8
  <2> QED
    BY <2>10, <2>11
<1> QED
  BY <1>1, <1>2

(* The targets of the user are targets.                                     *)
LEMMA UserTargets ==
  ASSUME Orderly(before), ViewInv, before \in Layouts
  PROVE  Users \subseteq target_t
<1>1. ToSet(SupportedTargets) \subseteq target_t
  <2>1. DOMAIN SupportedTargets = 1..9 /\ \A i \in 1..9 : SupportedTargets[i] \in target_t
    BY SupportedIs, LenProperties, ElementOfSeq
  <2> QED
    BY <2>1 DEF ToSet
<1>2. \A x \in DOMAIN before : x[1] \in target_t
  <2>1. \A x \in DOMAIN before : x \in target_t \X Relpath
    BY LayoutsAssumption
  <2> QED
    BY <2>1, PairIs
<1> QED
  BY <1>1, <1>2 DEF Users

(* The program never changes what the tree was.                             *)
LEMMA BeforeIs == Spec => [](before \in Layouts)
<1>1. Init => before \in Layouts
  BY DEF Init
<1>2. before \in Layouts /\ [Next]_vars => (before \in Layouts)'
  BY DEF Next, Index, Segment, Range2, SegmentEnd, OpStep, OpsEnd, SegmentsOver, RemoveDir, Finish, vars,
         history
<1> QED
  BY <1>1, <1>2, PTL DEF Spec

(* The dedup tool never changes what a target sees: the header a compiler   *)
(* for the target found in sysroots/include before, in the first directory  *)
(* of its search path that has it, is what it finds at any time, between    *)
(* any two renames and removals as well as at the end, unless a rename      *)
(* failed. For all orderly layouts, so also for the whole of the headers    *)
(* there are, of which a run can list but two.                              *)
THEOREM ViewKeptAlways == Spec => [](Orderly(before) => ViewKept)
<1>1. before \in Layouts /\ (Orderly(before) => ViewInv) => (Orderly(before) => ViewKept)
  <2> SUFFICES ASSUME before \in Layouts, Orderly(before), ViewInv, ~mvFailed,
                      NEW t \in Users, NEW r \in Relpath, Lookup(before, t, r) # NoFile
               PROVE  Lookup(tree, t, r) = Lookup(before, t, r)
    BY DEF ViewKept
  <2>1. t \in target_t
    BY UserTargets
  <2> QED
    BY <2>1, Found
<1> QED
  BY <1>1, BeforeIs, ViewAlways, PTL

-----------------------------------------------------------------------------
(* A target that has versions is one the list knows, but for the suffix.    *)
LEMMA VersionedUser ==
  ASSUME Orderly(before), before \in Layouts, NEW t \in Users, t \in target_t, t.sysver # ""
  PROVE  /\ [t EXCEPT !.suffix = ""] \in ToSet(SupportedTargets)
         /\ t.arch \in {"aarch64", "x86_64"}
<1> DEFINE u == [t EXCEPT !.suffix = ""]
<1>0. u.sys = t.sys /\ u.arch = t.arch /\ u.sysver = t.sysver
  BY DEF target_t
<1>1. CASE t \in ToSet(SupportedTargets)
  <2>1. t.suffix = "" /\ t.arch \in {"aarch64", "x86_64"}
    BY <1>1, MacOnly
  <2>2. u = t
    BY <2>1 DEF target_t
  <2> HIDE DEF u
  <2> QED
    BY <1>1, <2>1, <2>2 DEF u
<1>2. CASE \E x \in DOMAIN before : t = x[1]
  <2>1. PICK x \in DOMAIN before : t = x[1]
    BY <1>2
  <2>2. [x[1] EXCEPT !.suffix = ""] \in ToSet(SupportedTargets)
    BY <2>1 DEF Orderly
  <2>3. u \in ToSet(SupportedTargets)
    BY <2>1, <2>2
  <2> HIDE DEF u
  <2>4. u.arch \in {"aarch64", "x86_64"}
    BY <1>0, <2>3, MacOnly
  <2> QED
    BY <1>0, <2>3, <2>4 DEF u
<1> QED
  BY <1>1, <1>2 DEF Users

(* The three places of a search path.                                       *)
LEMMA OneOfThree == 1 \in 1..3
  OBVIOUS

(* If Lookup finds nothing, no directory of the search path has the header. *)
LEMMA NoHit ==
  ASSUME before \in Layouts, NEW t \in target_t, NEW r, Lookup(before, t, r) = NoFile
  PROVE  \A i \in 1..3 : ~Hit(before, t, r, i)
<1> SUFFICES ASSUME NEW i \in 1..3, Hit(before, t, r, i) PROVE FALSE
  OBVIOUS
<1>1. PICK j \in 1..3 : FirstHit(before, t, r, j)
  BY LookupIs
<1> DEFINE x == <<SearchPath(t)[j], r>>
<1>2. Lookup(before, t, r) = before[x] /\ x \in DOMAIN before
  BY <1>1, LookupFirst DEF FirstHit, Hit
<1> HIDE DEF x
<1>3. before[x] # NoFile
  BY <1>2, LayoutsAssumption
<1> QED
  BY <1>2, <1>3

(* The group from s to e holds a file of the header that target t has.      *)
Has(fs, s, e, t, r) ==
  \E k \in s..e : /\ fs[k].target.arch = t.arch /\ fs[k].target.sys = t.sys
                  /\ fs[k].target.suffix = t.suffix /\ fs[k].relpath = r

(* A group whose common file t finds holds a file of t's architecture.      *)
LEMMA GroupHas ==
  ASSUME NEW fs, IndexOf(fs, before), Orderly(before), Complete(before), NEW s, NEW e, Group(fs, s, e),
         NEW t \in target_t, NEW u \in ToSet(SupportedTargets), u.sysver # "",
         u.sys = t.sys, u.arch = t.arch, t.arch \in {"aarch64", "x86_64"},
         NEW m \in 1..3, NEW r, Place(fs, s, e) = <<SearchPath(t)[m], r>>
  PROVE  Has(fs, s, e, t, r)
<1> SUFFICES \E k \in s..e : fs[k].target.arch = t.arch /\ fs[k].target.sys = t.sys
                             /\ fs[k].target.suffix = t.suffix /\ fs[k].relpath = r
  BY DEF Has
<1>1. /\ s \in DOMAIN fs /\ e \in DOMAIN fs /\ s \in s..e
      /\ \A k \in s..e : k \in DOMAIN fs /\ Akin(fs, k, s)
  BY GroupFiles
<1>0. \A k \in s..e : fs[k].target.suffix = fs[s].target.suffix
  <2> SUFFICES ASSUME NEW k \in s..e PROVE fs[k].target.suffix = fs[s].target.suffix
    OBVIOUS
  <2> QED
    BY <1>1, OrderlyAkin
<1> DEFINE p == SearchPath(t)[m]
           g == Goal(fs, s, e)
           x == FileOf(fs, s)
<1>2. fs[s].target \in target_t
  BY <1>1, InIndex, EntryIs
<1>3. p = g /\ fs[s].relpath = r
  BY DEF Place
<1>4. p.arch = (IF m = 3 THEN "any" ELSE t.arch) /\ p.sys = t.sys /\ p.suffix = t.suffix
  BY PathParts
<1>5. g.sys = fs[s].target.sys /\ g.suffix = fs[s].target.suffix
      /\ (OneArch(fs, s, e) => g.arch = fs[s].target.arch)
  BY <1>1, <1>2, GoalIs
<1>6. x \in DOMAIN before /\ x[1] = fs[s].target /\ x[2] = fs[s].relpath
  BY <1>1 DEF IndexOf, FileOf
<1> HIDE DEF p, g, x
<1>7. \A k \in s..e : fs[k].target.sys = t.sys /\ fs[k].target.suffix = t.suffix /\ fs[k].relpath = r
  BY <1>0, <1>1, <1>3, <1>4, <1>5 DEF Akin
<1>8. CASE OneArch(fs, s, e)
  <2>1. fs[s].target.arch # "any"
    BY <1>1, OrderlyFile
  <2>2. fs[s].target.arch = t.arch
    BY <1>3, <1>4, <1>5, <1>8, <2>1
  <2> QED
    BY <1>1, <1>7, <2>2
<1>9. CASE ~OneArch(fs, s, e)
  <2>1. x[1].sysver # ""
    BY <1>1, <1>6, <1>7 DEF Complete
  <2>2. Versioned(fs, s)
    BY <1>6, <2>1 DEF Versioned
  <2>3. /\ \E k \in s..e : fs[k].target.arch = "aarch64"
        /\ \E k \in s..e : fs[k].target.arch = "x86_64"
    BY <1>9, <2>2, GroupVersions, ZenonT(60)
  <2>4. \E k \in s..e : fs[k].target.arch = t.arch
    BY <2>3
  <2> QED
    BY <1>7, <2>4
<1> QED
  BY <1>8, <1>9

(* What a versioned target did not find it does not find.                   *)
LEMMA NoLeak ==
  ASSUME before \in Layouts, ViewInv, Orderly(before), Complete(before), NEW t \in target_t,
         [t EXCEPT !.suffix = ""] \in ToSet(SupportedTargets), t.sysver # "",
         NEW r, Lookup(before, t, r) = NoFile
  PROVE  \A i \in 1..3 : ~Hit(tree, t, r, i)
<1>1. CASE pc = "index"
  <2>1. tree = before
    BY <1>1 DEF ViewInv
  <2> QED
    BY <2>1, NoHit
<1>2. CASE pc # "index"
  <2>1. IndexOf(tfiles, before) /\ NewInv
    BY <1>2 DEF ViewInv
  <2>2. \A i \in 1..3 : ~Hit(before, t, r, i)
    BY NoHit
  <2> DEFINE u == [t EXCEPT !.suffix = ""]
  <2>4. u.sys = t.sys /\ u.arch = t.arch /\ u.sysver # ""
    BY DEF target_t
  <2>3. u \in ToSet(SupportedTargets) /\ t.arch \in {"aarch64", "x86_64"}
    <3>1. u \in ToSet(SupportedTargets)
      OBVIOUS
    <3> HIDE DEF u
    <3>2. u.arch \in {"aarch64", "x86_64"}
      BY <2>4, <3>1, MacOnly
    <3> QED
      BY <2>4, <3>1, <3>2
  <2>5. [u EXCEPT !.suffix = t.suffix] = t
    BY DEF target_t
  <2> HIDE DEF u
  <2>6. ASSUME NEW m \in 1..3, Hit(tree, t, r, m) PROVE FALSE
    <3> DEFINE y == <<SearchPath(t)[m], r>>
    <3>1. y \in DOMAIN tree /\ y \notin DOMAIN before
      BY <2>2, <2>6 DEF Hit
    <3>2. PICK s, e \in DOMAIN tfiles : Group(tfiles, s, e) /\ y = Place(tfiles, s, e)
      <4> HIDE DEF y
      <4> QED
        BY <2>1, <3>1 DEF NewInv, Merged
    <3>10. Place(tfiles, s, e) = <<SearchPath(t)[m], r>>
      BY <3>2
    <3> HIDE DEF y
    <3>3. PICK k \in s..e : /\ tfiles[k].target.arch = t.arch /\ tfiles[k].target.sys = t.sys
                            /\ tfiles[k].target.suffix = t.suffix /\ tfiles[k].relpath = r
      <4>1. Has(tfiles, s, e, t, r)
        BY <2>1, <2>3, <2>4, <3>2, <3>10, GroupHas
      <4> QED
        BY <4>1 DEF Has
    <3>4. k \in DOMAIN tfiles
      BY <2>1, <3>2, GroupFiles
    <3> DEFINE x == FileOf(tfiles, k)
    <3>5. x \in DOMAIN before /\ x[1] = tfiles[k].target /\ x[2] = r
      BY <2>1, <3>3, <3>4 DEF IndexOf, FileOf
    <3> HIDE DEF x
    <3>6. <<[u EXCEPT !.suffix = x[1].suffix], x[2]>> \in DOMAIN before
      BY <2>3, <2>4, <3>3, <3>5 DEF Complete
    <3>7. <<t, r>> \in DOMAIN before
      BY <2>5, <3>3, <3>5, <3>6
    <3>8. Hit(before, t, r, 1)
      BY <3>7, PathIs DEF Hit
    <3>9. 1 \in 1..3
      BY OneOfThree
    <3> QED
      BY <2>2, <3>8, <3>9
  <2> QED
    BY <2>6
<1> QED
  BY <1>1, <1>2

(* A target with a version never comes to see a header that its version     *)
(* does not have: dedup_tfiles moves files to where all versions look only  *)
(* when they have come from all of them. For orderly and complete layouts;  *)
(* in one that is not complete it does see it.                              *)
THEOREM NoVersionLeakAlways == Spec => [](Orderly(before) /\ Complete(before) => NoVersionLeak)
<1>1. before \in Layouts /\ (Orderly(before) => ViewInv) =>
        (Orderly(before) /\ Complete(before) => NoVersionLeak)
  <2> SUFFICES ASSUME before \in Layouts, Orderly(before), Complete(before), ViewInv,
                      NEW t \in Users, NEW r \in Relpath, t.sysver # "", Lookup(before, t, r) = NoFile
               PROVE  Lookup(tree, t, r) = NoFile
    BY DEF NoVersionLeak
  <2>1. t \in target_t
    BY UserTargets
  <2>2. [t EXCEPT !.suffix = ""] \in ToSet(SupportedTargets)
    BY <2>1, VersionedUser
  <2>3. \A i \in 1..3 : ~Hit(tree, t, r, i)
    BY <2>1, <2>2, NoLeak
  <2> QED
    BY <2>3, LookupIs
<1> QED
  BY <1>1, BeforeIs, ViewAlways, PTL

-----------------------------------------------------------------------------
(* If all files of a header and system are the same, nothing is among them. *)
LEMMA UniformUndivided ==
  ASSUME NEW fs, NEW layout, IndexOf(fs, layout), NEW k \in DOMAIN fs, Uniform(fs, k)
  PROVE  Undivided(layout, fs[k].relpath, fs[k].target.sys)
<1> SUFFICES ASSUME NEW x \in DOMAIN layout, NEW y \in DOMAIN layout,
                    x[2] = fs[k].relpath, y[2] = fs[k].relpath,
                    x[1].sys = fs[k].target.sys, y[1].sys = fs[k].target.sys, layout[x] < layout[y]
             PROVE  FALSE
  BY DEF Undivided
<1>1. PICK a \in DOMAIN fs : FileOf(fs, a) = x
  BY DEF IndexOf
<1>2. PICK b \in DOMAIN fs : FileOf(fs, b) = y
  BY DEF IndexOf
<1>3. layout[x] = fs[a].hash /\ layout[y] = fs[b].hash
  BY <1>1, <1>2 DEF IndexOf
<1>4. Akin(fs, a, k) /\ Akin(fs, b, k)
  BY <1>1, <1>2 DEF FileOf, Akin
<1>5. fs[a].hash = fs[b].hash
  BY <1>4 DEF Uniform
<1>6. fs[a] \in Entry
  BY InIndex
<1>7. fs[a].hash \in Nat
  BY <1>6, EntryIs
<1> QED
  BY <1>3, <1>5, <1>7

(* They are one segment.                                                    *)
LEMMA UniformSegment ==
  ASSUME NEW fs, NEW layout, IndexOf(fs, layout), NEW k \in DOMAIN fs, NEW m \in DOMAIN fs,
         m # k, Akin(fs, m, k), Uniform(fs, k)
  PROVE  \E s, e \in DOMAIN fs : IsSegment(fs, s, e) /\ k \in s..e
<1> DEFINE A == {i \in DOMAIN fs : Akin(fs, i, k)}
           n == Len(fs)
           e == Greatest(A)
<1>1. DOMAIN fs = 1..n /\ n \in Nat
  BY LenProperties DEF IndexOf
<1> HIDE DEF n
<1>2. A \in SUBSET (1..n) /\ A \in SUBSET Nat /\ k \in A /\ m \in A
  BY <1>1, AkinSame
<1>3. \A i \in A : Akin(fs, i, k) /\ i \in DOMAIN fs
  OBVIOUS
<1>4. \A i \in DOMAIN fs : Akin(fs, i, k) => i \in A
  OBVIOUS
<1> HIDE DEF A
<1>5. PICK s \in A : \A i \in A : s <= i
  BY <1>2, NatMin
<1>6. e \in A /\ \A i \in A : e >= i
  BY <1>1, <1>2, GreatestOf
<1> HIDE DEF e
<1>7. s \in 1..n /\ e \in 1..n /\ s < e /\ k \in s..e
  BY <1>1, <1>2, <1>5, <1>6
<1>8. ASSUME NEW i \in s..e PROVE Akin(fs, i, s)
  <2>1. i \in 1..n /\ (i = s \/ i = e \/ (s < i /\ i < e))
    BY <1>1, <1>7
  <2>2. Akin(fs, s, e) /\ Akin(fs, e, s)
    BY <1>3, <1>5, <1>6, AkinSame
  <2>3. fs[s].hash = fs[e].hash
    BY <1>3, <1>5, <1>6 DEF Uniform
  <2>4. CASE i = s
    BY <2>4, AkinSame
  <2>5. CASE i = e
    BY <2>2, <2>5
  <2>6. CASE s < i /\ i < e
    BY <1>1, <1>7, <2>1, <2>2, <2>3, <2>6, Between
  <2> QED
    BY <2>1, <2>4, <2>5, <2>6
<1>9. s > 1 => ~Akin(fs, s - 1, s)
  <2> SUFFICES ASSUME s > 1, Akin(fs, s - 1, s) PROVE FALSE
    OBVIOUS
  <2> DEFINE i == s - 1
  <2>1. i \in 1..n /\ ~(s <= i)
    BY <1>1, <1>7
  <2> HIDE DEF i
  <2>2. Akin(fs, i, k)
    BY <1>3, <1>5, AkinSame DEF i
  <2> QED
    BY <1>1, <1>4, <1>5, <2>1, <2>2
<1>10. e < n => ~Akin(fs, e + 1, e)
  <2> SUFFICES ASSUME e < n, Akin(fs, e + 1, e) PROVE FALSE
    OBVIOUS
  <2> DEFINE i == e + 1
  <2>1. i \in 1..n /\ ~(e >= i)
    BY <1>1, <1>7
  <2> HIDE DEF i
  <2>2. Akin(fs, i, k)
    BY <1>3, <1>6, AkinSame DEF i
  <2> QED
    BY <1>1, <1>4, <1>6, <2>1, <2>2
<1>11. IsSegment(fs, s, e)
  BY <1>1, <1>7, <1>8, <1>9, <1>10 DEF IsSegment, n
<1> QED
  BY <1>1, <1>7, <1>11

(* In a complete layout, the files that come together are of all versions.  *)
LEMMA HasVersion ==
  ASSUME Complete(before), IndexOf(tfiles, before), NEW k \in DOMAIN tfiles,
         NEW t \in ToSet(SupportedTargets), t.sysver # "", t.sys = tfiles[k].target.sys
  PROVE  /\ Versioned(tfiles, k)
         /\ t.arch = tfiles[k].target.arch =>
              \E m \in DOMAIN tfiles : Akin(tfiles, m, k) /\ tfiles[m].target.sysver = t.sysver
<1> DEFINE x == FileOf(tfiles, k)
           u == [t EXCEPT !.suffix = x[1].suffix]
           y == <<u, x[2]>>
<1>1. x \in DOMAIN before /\ x[1] = tfiles[k].target /\ x[2] = tfiles[k].relpath
  BY DEF IndexOf, FileOf
<1> HIDE DEF x
<1>2. x[1].sysver # "" /\ (t.arch = x[1].arch => y \in DOMAIN before)
  BY <1>1 DEF Complete
<1>3. t \in target_t
  <2>1. DOMAIN SupportedTargets = 1..9 /\ \A i \in 1..9 : SupportedTargets[i] \in target_t
    BY SupportedIs, LenProperties, ElementOfSeq
  <2> QED
    BY <2>1 DEF ToSet
<1>4. u.sys = t.sys /\ u.sysver = t.sysver /\ y[1] = u /\ y[2] = x[2]
  BY <1>3 DEF target_t
<1> HIDE DEF u, y
<1>5. ASSUME t.arch = tfiles[k].target.arch
      PROVE  \E m \in DOMAIN tfiles : Akin(tfiles, m, k) /\ tfiles[m].target.sysver = t.sysver
  <2>1. PICK m \in DOMAIN tfiles : FileOf(tfiles, m) = y
    BY <1>1, <1>2, <1>5 DEF IndexOf
  <2>2. tfiles[m].target = u /\ tfiles[m].relpath = x[2]
    BY <1>4, <2>1 DEF FileOf
  <2>3. Akin(tfiles, m, k)
    BY <1>1, <1>4, <2>2 DEF Akin
  <2> QED
    BY <1>4, <2>2, <2>3
<1> QED
  BY <1>1, <1>2, <1>5 DEF Versioned

(* A file of a system with versions is of a supported target, but for the   *)
(* suffix.                                                                  *)
LEMMA IsSupported ==
  /\ \E t \in ToSet(SupportedTargets) : t.arch = "aarch64" /\ t.sys = "macos" /\ t.sysver = "11"
  /\ \E t \in ToSet(SupportedTargets) : t.arch = "x86_64" /\ t.sys = "macos" /\ t.sysver = "10"
  /\ \E t \in ToSet(SupportedTargets) : t.arch = "x86_64" /\ t.sys = "macos" /\ t.sysver = "11"
<1>1. DOMAIN SupportedTargets = 1..9
  BY SupportedIs, LenProperties
<1>2. 3 \in 1..9 /\ 6 \in 1..9 /\ 7 \in 1..9
  OBVIOUS
<1>3. \A i \in 1..9 : SupportedTargets[i] \in ToSet(SupportedTargets)
  BY <1>1 DEF ToSet
<1>4. SupportedTargets[3] \in ToSet(SupportedTargets) /\ SupportedTargets[6] \in ToSet(SupportedTargets)
      /\ SupportedTargets[7] \in ToSet(SupportedTargets)
  BY <1>2, <1>3
<1>5. /\ SupportedTargets[3].arch = "aarch64" /\ SupportedTargets[3].sys = "macos"
      /\ SupportedTargets[3].sysver = "11"
  BY SupportedAre
<1>6. /\ SupportedTargets[6].arch = "x86_64" /\ SupportedTargets[6].sys = "macos"
      /\ SupportedTargets[6].sysver = "10"
  BY SupportedAre
<1>7. /\ SupportedTargets[7].arch = "x86_64" /\ SupportedTargets[7].sys = "macos"
      /\ SupportedTargets[7].sysver = "11"
  BY SupportedAre
<1> QED
  BY <1>4, <1>5, <1>6, <1>7

-----------------------------------------------------------------------------

(* In a complete layout dedup_tfiles never finds versions missing.          *)
LEMMA CompleteCovered ==
  ASSUME Orderly(before), Complete(before), IndexOf(tfiles, before),
         NEW s, NEW e, IsSegment(tfiles, s, e), Uniform(tfiles, s)
  PROVE  Covered(SubSeq(tfiles, s, e))
<1> DEFINE files == SubSeq(tfiles, s, e)
<1>1. s \in DOMAIN tfiles /\ e \in DOMAIN tfiles /\ s < e /\ tfiles \in Seq(Entry)
      /\ \A k \in s..e : Akin(tfiles, k, s)
  BY DEF IsSegment, IndexOf
<1>2. /\ files \in Seq(Entry) /\ Len(files) >= 2
      /\ \A i \in DOMAIN files : s + i - 1 \in s..e /\ files[i] = tfiles[s + i - 1]
      /\ \A k \in s..e : k - s + 1 \in DOMAIN files /\ files[k - s + 1] = tfiles[k]
      /\ \A k \in s..e : k \in DOMAIN tfiles
  BY <1>1, PartIs
<1>3. \A m \in DOMAIN tfiles : Akin(tfiles, m, s) => m \in s..e
  <2>1. Undivided(before, tfiles[s].relpath, tfiles[s].target.sys)
    BY <1>1, UniformUndivided
  <2> QED
    BY <2>1, WholeSegment
<1>4. \A k \in s..e : tfiles[k].target.sys = tfiles[s].target.sys
  BY <1>1 DEF Akin
<1>5. s \in s..e
  <2>1. s \in Nat /\ e \in Nat
    BY <1>1, InIndex
  <2> QED
    BY <1>1, <2>1
<1>6. \A i \in DOMAIN files : files[i].target.sys = tfiles[s].target.sys
  BY <1>2, <1>4
<1> SUFFICES ASSUME NEW v \in Versions(files) PROVE \E i \in DOMAIN files : files[i].target.sysver = v
  BY DEF Covered
<1>7. SUFFICES \E k \in s..e : tfiles[k].target.sysver = v
  <2>1. PICK k \in s..e : tfiles[k].target.sysver = v
    BY <1>7
  <2> DEFINE i == k - s + 1
  <2>2. i \in DOMAIN files /\ files[i] = tfiles[k]
    BY <1>2
  <2> HIDE DEF i, files
  <2>3. files[i].target.sysver = v
    BY <2>1, <2>2
  <2> QED
    BY <2>2, <2>3 DEF files
<1> HIDE DEF files
\* a file of the architecture, so one of its version
<1>8. ASSUME NEW k \in s..e, NEW t \in ToSet(SupportedTargets), t.sysver = v, v # "",
             t.sys = tfiles[k].target.sys, t.arch = tfiles[k].target.arch
      PROVE  \E m \in s..e : tfiles[m].target.sysver = v
  <2>1. k \in DOMAIN tfiles /\ Akin(tfiles, k, s)
    BY <1>1, <1>2
  <2>2. PICK m \in DOMAIN tfiles : Akin(tfiles, m, k) /\ tfiles[m].target.sysver = t.sysver
    BY <1>8, <2>1, HasVersion
  <2>3. m \in s..e
    BY <1>3, <2>1, <2>2, AkinSame
  <2> QED
    BY <1>8, <2>2, <2>3
<1>9. CASE tfiles[s].target.sys # "macos"
  <2>1. "macos" \notin Systems(files)
    BY <1>6, <1>9 DEF Systems
  <2>2. Versions(files) = {}
    BY <1>2, <2>1, VersionsNone
  <2> QED
    BY <2>2
<1>10. CASE tfiles[s].target.sys = "macos"
  <2>1. PICK t11 \in ToSet(SupportedTargets) : t11.arch = "aarch64" /\ t11.sys = "macos" /\ t11.sysver = "11"
    BY IsSupported
  <2>2. PICK x10 \in ToSet(SupportedTargets) : x10.arch = "x86_64" /\ x10.sys = "macos" /\ x10.sysver = "10"
    BY IsSupported
  <2>3. PICK x11 \in ToSet(SupportedTargets) : x11.arch = "x86_64" /\ x11.sys = "macos" /\ x11.sysver = "11"
    BY IsSupported
  <2>4. "10" # "" /\ "11" # "" /\ "aarch64" # "x86_64"
    OBVIOUS
  <2>5. \A k \in s..e : tfiles[k].target.sys = "macos" /\ Versioned(tfiles, k)
    BY <1>2, <1>4, <1>10, <2>1, <2>4, HasVersion
  <2>6. \A k \in s..e : tfiles[k].target.arch \in {"aarch64", "x86_64"}
    BY <1>2, <2>5, OrderlyFile
  <2>7. \A i \in DOMAIN files : files[i].target.arch \in {"aarch64", "x86_64"} /\ files[i].target.sys = "macos"
    BY <1>2, <2>5, <2>6
  <2>8. CASE OneArch(tfiles, s, e)
    <3> DEFINE arch == tfiles[s].target.arch
               w == IF arch = "aarch64" THEN "11" ELSE "10"
    <3>1. \A i \in DOMAIN files : files[i].target.arch = arch
      BY <1>2, <2>8 DEF OneArch
    <3>2. arch \in {"aarch64", "x86_64"}
      BY <1>5, <2>6
    <3>3. Len(files) >= 1
      <4>1. Len(files) \in Nat
        BY <1>2, LenProperties
      <4> QED
        BY <1>2, <4>1
    <3> HIDE DEF arch
    <3>4. Versions(files) = {w}
      BY <1>2, <2>7, <3>1, <3>2, <3>3, VersionsOne
    <3>5. v = w
      BY <3>4
    <3>6. CASE arch = "aarch64"
      <4>1. v = "11"
        BY <3>5, <3>6
      <4> QED
        BY <1>5, <1>8, <2>1, <2>4, <2>5, <3>6, <4>1 DEF arch
    <3>7. CASE arch = "x86_64"
      <4>1. v = "10"
        BY <2>4, <3>5, <3>7
      <4> QED
        BY <1>5, <1>8, <2>2, <2>4, <2>5, <3>7, <4>1 DEF arch
    <3> QED
      BY <3>2, <3>6, <3>7
  <2>9. CASE ~OneArch(tfiles, s, e)
    <3>1. PICK k \in s..e : tfiles[k].target.arch # tfiles[s].target.arch
      BY <2>9 DEF OneArch
    <3>2. PICK a \in s..e : tfiles[a].target.arch = "aarch64"
      BY <1>5, <2>6, <3>1
    <3>3. PICK b \in s..e : tfiles[b].target.arch = "x86_64"
      BY <1>5, <2>6, <3>1
    <3>4. ASSUME NEW m \in s..e PROVE \E i \in DOMAIN files : files[i].target.arch = tfiles[m].target.arch
      <4> DEFINE i == m - s + 1
      <4>1. i \in DOMAIN files /\ files[i] = tfiles[m]
        BY <1>2
      <4> HIDE DEF i
      <4> QED
        BY <4>1
    <3>5. (\E i \in DOMAIN files : files[i].target.arch = "aarch64")
          /\ (\E i \in DOMAIN files : files[i].target.arch = "x86_64")
      BY <3>2, <3>3, <3>4
    <3>6. Versions(files) = {"10", "11"}
      BY <1>2, <2>7, <3>5, VersionsTwo
    <3>7. v = "10" \/ v = "11"
      BY <3>6
    <3>8. CASE v = "10"
      BY <1>8, <2>2, <2>4, <2>5, <3>3, <3>8
    <3>9. CASE v = "11"
      BY <1>8, <2>3, <2>4, <2>5, <3>3, <3>9
    <3> QED
      BY <3>7, <3>8, <3>9
  <2> QED
    BY <2>8, <2>9
<1> QED
  BY <1>9, <1>10

(* dedup_tfiles moves or removes every file it merges.                      *)
Listed(q, fs, k) ==
  \E i \in DOMAIN q :
    q[i].what \in {"mv", "rm"} /\ q[i].from = fs[k].target /\ q[i].relpath = fs[k].relpath

(* Its operations name every file of the group.                             *)
LEMMA MergeLists ==
  ASSUME Orderly(before), IndexOf(tfiles, before), NEW s, NEW e, Group(tfiles, s, e), NEW k \in s..e
  PROVE  Listed(MergeOps(SubSeq(tfiles, s, e), Goal(tfiles, s, e)), tfiles, k)
<1> DEFINE files == SubSeq(tfiles, s, e)
           g == Goal(tfiles, s, e)
           q == MergeOps(files, g)
           i == k - s + 1
<1>1. /\ s \in DOMAIN tfiles /\ e \in DOMAIN tfiles /\ s \in Nat /\ s < e
  BY GroupFiles
<1>2. i \in DOMAIN files /\ files[i] = tfiles[k] /\ k \in DOMAIN tfiles
  BY <1>1, PartIs, SMTT(60) DEF IndexOf
<1>3. files[i].target # g
  <2> SUFFICES ASSUME tfiles[k].target = g PROVE FALSE
    BY <1>2
  <2>1. Akin(tfiles, k, s)
    BY GroupFiles
  <2>2. FileOf(tfiles, k) = Place(tfiles, s, e)
    BY <2>1 DEF FileOf, Place, Akin
  <2>3. FileOf(tfiles, k) \in DOMAIN before
    BY <1>2 DEF IndexOf
  <2> QED
    BY <2>2, <2>3, PlaceNew
<1> HIDE DEF files, g, i
<1>4. i \in DOMAIN q /\ q[i] = Op(IF i > 1 THEN "rm" ELSE IF files[i].target = g THEN "keep" ELSE "mv", files[i], g)
  BY <1>2 DEF MergeOps
<1>5. q[i].what \in {"mv", "rm"} /\ q[i].from = tfiles[k].target /\ q[i].relpath = tfiles[k].relpath
  BY <1>2, <1>3, <1>4 DEF Op
<1>6. Listed(q, tfiles, k)
  BY <1>4, <1>5 DEF Listed
<1> QED
  BY <1>6 DEF files, g

-----------------------------------------------------------------------------
(* As long as nothing has failed, a header that is the same for all targets *)
(* of a system is still to come, or its files are gone or on the list.      *)
Shared(fs, k) == Uniform(fs, k) /\ \E m \in DOMAIN fs : m # k /\ Akin(fs, m, k)

(* The k-th file is gone, or the operations at hand take it away.           *)
Handled(k) ==
  \/ In(segs, k)
  \/ FileOf(tfiles, k) \notin DOMAIN tree
  \/ pc = "ops" /\ Listed(ops, tfiles, k)

(* The program has not given up, and no operation of the group at hand has  *)
(* failed.                                                                  *)
Well == pc # "exit" /\ (pc = "ops" => ok)

(* The inductive invariant of StoredOnce: nothing fails, and the files of   *)
(* one content are still to come, on the list or gone.                      *)
OnceInv ==
  /\ pc = "index" => ~mvFailed
  /\ pc # "index" /\ Well =>
       /\ ~mvFailed
       /\ pc \in {"rmdirs", "done"} => segs = << >>
       /\ \A k \in DOMAIN tfiles : Shared(tfiles, k) => Handled(k)

(* At the start nothing is indexed.                                         *)
LEMMA OnceInit == Init => OnceInv
  BY DEF Init, OnceInv

(* Indexing establishes it.                                                 *)
LEMMA OnceIndex ==
  ASSUME Index, OnceInv, ViewInv'
  PROVE  OnceInv'
<1>1. pc' = "segments" /\ pc = "index" /\ mvFailed' = mvFailed
  BY DEF Index, history
<1>2. IndexOf(tfiles', before')
  BY <1>1 DEF ViewInv
<1>3. segs' = IF Len(tfiles') < 2 THEN << >> ELSE Segments(tfiles')
  BY DEF Index
<1> DEFINE fs == tfiles'
           q == segs'
           files == before'
<1> SUFFICES ASSUME NEW k \in DOMAIN fs, Shared(fs, k) PROVE In(q, k)
  BY <1>1 DEF OnceInv, Handled
<1>4. IndexOf(fs, files) /\ (q = IF Len(fs) < 2 THEN << >> ELSE Segments(fs))
  BY <1>2, <1>3
<1> HIDE DEF fs, q, files
<1>5. PICK m \in DOMAIN fs : m # k /\ Akin(fs, m, k)
  BY DEF Shared
<1>6. PICK s, e \in DOMAIN fs : IsSegment(fs, s, e) /\ k \in s..e
  BY <1>4, <1>5, UniformSegment DEF Shared
<1>7. fs \in Seq(Entry) /\ Len(fs) >= 2 /\ ~(Len(fs) < 2)
  <2>1. s < e /\ fs \in Seq(Entry)
    BY <1>4, <1>6 DEF IsSegment, IndexOf
  <2>2. s \in 1..Len(fs) /\ e \in 1..Len(fs) /\ Len(fs) \in Nat
    BY <1>4, InIndex
  <2> DEFINE n == Len(fs)
  <2>3. s \in 1..n /\ e \in 1..n /\ n \in Nat /\ s < e
    BY <2>1, <2>2
  <2> HIDE DEF n
  <2>4. n >= 2 /\ ~(n < 2)
    BY <2>3
  <2> QED
    BY <2>1, <2>4 DEF n
<1>8. PICK i \in DOMAIN q : q[i] = <<s, e>>
  BY <1>4, <1>6, <1>7, SegmentsAre
<1>9. q[i][1] = s /\ q[i][2] = e
  BY <1>8
<1> QED
  BY <1>6, <1>9 DEF In

(* Taking a segment whose files are the same lists them all.                *)
LEMMA OnceSegment ==
  ASSUME TypeInv, Orderly(before), Complete(before), ViewInv, OnceInv, Segment
  PROVE  OnceInv'
<1> DEFINE s == Head(segs)[1]
           e == Head(segs)[2]
           T == Within(1, Len(tfiles))
<1>1. /\ pc = "segments" /\ segs # << >> /\ segs' = Tail(segs) /\ tfiles' = tfiles
      /\ before' = before /\ mvFailed' = mvFailed
  BY DEF Segment, history
<1>2. IndexOf(tfiles, before) /\ PlanInv
  BY <1>1 DEF ViewInv
<1>3. segs \in Seq(T)
  BY DEF TypeInv
<1>4. /\ Head(segs) = segs[1] /\ 1 \in DOMAIN segs
      /\ \A i \in DOMAIN segs : i \in Nat /\ (i = 1 \/ (i - 1 \in DOMAIN segs' /\ segs'[i - 1] = segs[i]))
  <2>1. Head(segs) = segs[1] /\ 1 \in DOMAIN segs
    BY <1>1, <1>3, TailIs
  <2>2. Len(segs) \in Nat /\ Len(segs) # 0 /\ DOMAIN segs = 1..Len(segs)
    BY <1>1, <1>3, LenProperties, EmptySeq
  <2>3. segs' \in Seq(T) /\ Len(segs') = Len(segs) - 1
        /\ \A i \in 1..(Len(segs) - 1) : segs'[i] = segs[i + 1]
    BY <1>1, <1>3, <2>2, HeadTailProperties
  <2>4. DOMAIN segs' = 1..(Len(segs) - 1)
    BY <2>3, LenProperties
  <2>5. ASSUME NEW i \in DOMAIN segs, i # 1 PROVE i - 1 \in DOMAIN segs' /\ segs'[i - 1] = segs[i]
    <3> DEFINE n == Len(segs)
    <3>1. i \in 1..n /\ n \in Nat
      BY <2>2
    <3> HIDE DEF n
    <3>2. i - 1 \in 1..(n - 1) /\ (i - 1) + 1 = i
      BY <2>5, <3>1
    <3> QED
      BY <2>3, <2>4, <3>2 DEF n
  <2> QED
    BY <2>1, <2>2, <2>5
<1>5. IsSegment(tfiles, s, e)
  BY <1>2, <1>4 DEF PlanInv
<1>6. \/ Identical(s, e) /\ Dedup(SubSeq(tfiles, s, e), Common(s, e))
      \/ ~Identical(s, e) /\ pc' = "ranges" /\ tree' = tree
  BY DEF Segment, disk
<1>7. ~mvFailed /\ \A k \in DOMAIN tfiles : Shared(tfiles, k) => In(segs, k) \/ FileOf(tfiles, k) \notin DOMAIN tree
  BY <1>1 DEF OnceInv, Handled, Well
<1> HIDE DEF s, e
<1>8. ASSUME NEW k, In(segs, k) PROVE k \in s..e \/ In(segs', k)
  <2>1. PICK i \in DOMAIN segs : k \in segs[i][1]..segs[i][2]
    BY <1>8 DEF In
  <2>2. CASE i = 1
    BY <1>4, <2>1, <2>2 DEF s, e
  <2>3. CASE i # 1
    <3> DEFINE j == i - 1
    <3>1. j \in DOMAIN segs' /\ segs'[j] = segs[i]
      BY <1>4, <2>3
    <3> HIDE DEF j
    <3> QED
      BY <2>1, <3>1 DEF In
  <2> QED
    BY <2>2, <2>3
<1>9. tree' = tree /\ pc' \in {"ranges", "ops", "exit"}
  <2>1. CASE Dedup(SubSeq(tfiles, s, e), Common(s, e))
    BY <2>1 DEF Dedup, MkdirsFail, disk
  <2> QED
    BY <1>6, <2>1
<1> SUFFICES ASSUME pc' # "exit", NEW k \in DOMAIN tfiles, Shared(tfiles, k) PROVE Handled(k)'
  BY <1>1, <1>7, <1>9 DEF OnceInv, Well
<1>10. CASE In(segs', k) \/ FileOf(tfiles, k) \notin DOMAIN tree
  BY <1>1, <1>9, <1>10 DEF Handled
<1>11. CASE k \in s..e
  <2>1. s \in DOMAIN tfiles /\ e \in DOMAIN tfiles /\ s < e /\ \A m \in s..e : Akin(tfiles, m, s)
    BY <1>5 DEF IsSegment
  <2>2. \A m \in s..e : m \in DOMAIN tfiles
    BY <1>2, <2>1, PartIs DEF IndexOf
  <2>3. \A m \in DOMAIN tfiles : Akin(tfiles, m, s) => tfiles[m].hash = tfiles[k].hash
    BY <1>11, <2>1, <2>2, AkinSame DEF Shared, Uniform
  <2>4. Uniform(tfiles, s) /\ OneHash(tfiles, s, e)
    BY <2>1, <2>2, <2>3, AkinSame DEF Uniform, OneHash
  <2>5. Identical(s, e)
    <3> SUFFICES ASSUME NEW i \in (s + 1)..e PROVE tfiles[i].hash = tfiles[i-1].hash
      BY DEF Identical
    <3>1. s \in Nat /\ e \in Nat
      BY <1>2, <2>1, InIndex
    <3>2. i \in s..e /\ i - 1 \in s..e
      BY <2>1, <3>1, Next1
    <3> QED
      BY <2>4, <3>2 DEF OneHash
  <2>6. Covered(SubSeq(tfiles, s, e))
    BY <1>2, <1>5, <2>4, CompleteCovered
  <2>7. Group(tfiles, s, e)
    BY <1>5, <2>1, <2>4, <2>6 DEF Group
  <2>8. Common(s, e) = Goal(tfiles, s, e)
    BY <1>2, <2>7, CommonGoal
  <2>9. pc' = "ops" /\ ops' = MergeOps(SubSeq(tfiles, s, e), Goal(tfiles, s, e))
    <3> DEFINE files == SubSeq(tfiles, s, e)
               ctarget == Common(s, e)
    <3>1. Dedup(files, ctarget) /\ Covered(files)
      BY <1>6, <2>5, <2>6
    <3> HIDE DEF files, ctarget
    <3>2. pc' = "ops" /\ ops' = MergeOps(files, ctarget)
      BY <3>1 DEF Dedup, MkdirsFail
    <3> QED
      BY <2>8, <3>2 DEF files, ctarget
  <2>10. Listed(ops', tfiles, k)
    BY <1>2, <1>11, <2>7, <2>9, MergeLists
  <2> QED
    BY <1>1, <2>9, <2>10 DEF Handled
<1> QED
  BY <1>7, <1>8, <1>10, <1>11

(* One rename or removal keeps it.                                          *)
LEMMA OnceOp ==
  ASSUME TypeInv, Orderly(before), ViewInv, OnceInv, OpStep
  PROVE  OnceInv'
<1> DEFINE o == Head(ops)
           src == <<o.from, o.relpath>>
           dst == <<o.to, o.relpath>>
<1>1. /\ pc = "ops" /\ pc' = "ops" /\ ops # << >> /\ ops' = Tail(ops) /\ tfiles' = tfiles
      /\ before' = before /\ segs' = segs
  BY DEF OpStep, plan
<1>2. IndexOf(tfiles, before) /\ OpsInv
  BY <1>1 DEF ViewInv
<1>3. ops \in Seq(OpT(dirs))
  BY <1>1 DEF TypeInv
<1>4. /\ o = ops[1] /\ 1 \in DOMAIN ops
      /\ \A i \in DOMAIN ops : i = 1 \/ (i - 1 \in DOMAIN ops' /\ ops'[i - 1] = ops[i])
  <2>1. Head(ops) = ops[1] /\ 1 \in DOMAIN ops
    BY <1>1, <1>3, TailIs
  <2>2. Len(ops) \in Nat /\ Len(ops) # 0 /\ DOMAIN ops = 1..Len(ops)
    BY <1>1, <1>3, LenProperties, EmptySeq
  <2>3. ops' \in Seq(OpT(dirs)) /\ Len(ops') = Len(ops) - 1
        /\ \A i \in 1..(Len(ops) - 1) : ops'[i] = ops[i + 1]
    BY <1>1, <1>3, <2>2, HeadTailProperties
  <2>4. DOMAIN ops' = 1..(Len(ops) - 1)
    BY <2>3, LenProperties
  <2>5. ASSUME NEW i \in DOMAIN ops, i # 1 PROVE i - 1 \in DOMAIN ops' /\ ops'[i - 1] = ops[i]
    <3> DEFINE n == Len(ops)
    <3>1. i \in 1..n /\ n \in Nat
      BY <2>2
    <3> HIDE DEF n
    <3>2. i - 1 \in 1..(n - 1) /\ (i - 1) + 1 = i
      BY <2>5, <3>1
    <3> QED
      BY <2>3, <2>4, <3>2 DEF n
  <2> QED
    BY <2>1, <2>5
<1>5. \/ o.what \in {"keep", "skip"} /\ tree' = tree /\ mvFailed' = mvFailed /\ ok' = ok
      \/ o.what = "mv" /\ src \in DOMAIN tree /\ tree' = Moved(o) /\ mvFailed' = mvFailed /\ ok' = ok
      \/ /\ o.what = "rm" /\ src \in DOMAIN tree /\ tree' = [x \in DOMAIN tree \ {src} |-> tree[x]]
         /\ mvFailed' = mvFailed /\ ok' = ok
      \/ ok' = FALSE
  BY DEF OpStep
<1> SUFFICES ASSUME ok' PROVE ~mvFailed' /\ \A k \in DOMAIN tfiles : Shared(tfiles, k) => Handled(k)'
  BY <1>1 DEF OnceInv, Well
<1>6. ok /\ mvFailed' = mvFailed
  BY <1>5
<1>7. ~mvFailed /\ \A k \in DOMAIN tfiles : Shared(tfiles, k) => Handled(k)
  BY <1>1, <1>6 DEF OnceInv, Well
<1> SUFFICES ASSUME NEW k \in DOMAIN tfiles, Shared(tfiles, k) PROVE Handled(k)'
  BY <1>6, <1>7
<1>8. FileOf(tfiles, k) \in DOMAIN before
  BY <1>2 DEF IndexOf
\* nothing comes to be where a file was
<1>9. o.what = "mv" => dst \notin DOMAIN before
  <2> SUFFICES ASSUME o.what = "mv" PROVE dst \notin DOMAIN before
    OBVIOUS
  <2>1. ops[1].what # "skip"
    BY <1>4
  <2>2. PICK s, e \in DOMAIN tfiles : Merged(s, e) /\ Working(s, e)
    BY <1>1, <1>2, <1>4, <2>1 DEF OpsInv
  <2>3. PICK m \in s..e : OpOn(tfiles, ops[1], 1, s, e, m)
    BY <1>4, <2>2 DEF Working
  <2>4. dst = Place(tfiles, s, e)
    BY <1>4, <2>3 DEF OpOn, Place
  <2> QED
    BY <1>2, <2>2, <2>4, PlaceNew DEF Merged
<1>10. DOMAIN tree' \subseteq DOMAIN tree \cup {dst} /\ (o.what # "mv" => DOMAIN tree' \subseteq DOMAIN tree)
       /\ (o.what \in {"mv", "rm"} /\ src # dst => src \notin DOMAIN tree')
  BY <1>5 DEF Moved
<1>11. CASE In(segs, k)
  BY <1>1, <1>11 DEF Handled
<1>12. CASE FileOf(tfiles, k) \notin DOMAIN tree
  <2>1. FileOf(tfiles, k) \notin DOMAIN tree'
    BY <1>8, <1>9, <1>10, <1>12
  <2> QED
    BY <1>1, <2>1 DEF Handled
<1>13. CASE Listed(ops, tfiles, k)
  <2>1. PICK i \in DOMAIN ops : /\ ops[i].what \in {"mv", "rm"} /\ ops[i].from = tfiles[k].target
                                /\ ops[i].relpath = tfiles[k].relpath
    BY <1>13 DEF Listed
  <2>2. CASE i = 1
    <3>1. src = FileOf(tfiles, k) /\ o.what \in {"mv", "rm"}
      BY <1>4, <2>1, <2>2 DEF FileOf
    <3>2. src \notin DOMAIN tree'
      <4>1. CASE o.what = "mv"
        BY <1>8, <1>9, <1>10, <3>1, <4>1
      <4>2. CASE o.what = "rm"
        BY <1>5, <4>2
      <4> QED
        BY <3>1, <4>1, <4>2
    <3> QED
      BY <1>1, <3>1, <3>2 DEF Handled
  <2>3. CASE i # 1
    <3> DEFINE j == i - 1
    <3>1. j \in DOMAIN ops' /\ ops'[j] = ops[i]
      BY <1>4, <2>3
    <3> HIDE DEF j
    <3>2. Listed(ops', tfiles, k)
      BY <2>1, <3>1 DEF Listed
    <3> QED
      BY <1>1, <3>2 DEF Handled
  <2> QED
    BY <2>2, <2>3
<1> QED
  BY <1>1, <1>7, <1>11, <1>12, <1>13 DEF Handled

-----------------------------------------------------------------------------
(* Where no file comes or goes and no segment is taken.                     *)
LEMMA OnceOn ==
  ASSUME OnceInv, pc # "index", pc' # "index", pc # "exit", pc # "ops" \/ ok \/ pc' = "exit",
         tree' = tree, tfiles' = tfiles, segs' = segs, mvFailed' = mvFailed,
         pc' \in {"rmdirs", "done"} => segs = << >>,
         pc = "ops" => ops = << >>
  PROVE  OnceInv'
<1> SUFFICES ASSUME pc' # "exit"
             PROVE  ~mvFailed /\ \A k \in DOMAIN tfiles : Shared(tfiles, k) => Handled(k)'
  BY DEF OnceInv, Well
<1>1. ~mvFailed /\ \A k \in DOMAIN tfiles : Shared(tfiles, k) => Handled(k)
  BY DEF OnceInv, Well
<1>2. \A k : Handled(k) => In(segs, k) \/ FileOf(tfiles, k) \notin DOMAIN tree
  BY DEF Handled, Listed
<1> QED
  BY <1>1, <1>2 DEF Handled

(* Every step keeps it.                                                     *)
LEMMA OnceStep ==
  TypeInv /\ Orderly(before) /\ Complete(before) /\ ViewInv /\ ViewInv' /\ OnceInv /\ [Next]_vars => OnceInv'
<1> SUFFICES ASSUME TypeInv, Orderly(before), Complete(before), ViewInv, ViewInv', OnceInv, [Next]_vars
             PROVE  OnceInv'
  OBVIOUS
<1> USE DEF disk, plan, history
<1>1. CASE Index
  BY <1>1, OnceIndex
<1>2. CASE Segment
  BY <1>2, OnceSegment
<1>3. CASE Range2
  <2> DEFINE files == SubSeq(tfiles, Head(ranges)[1], Head(ranges)[2])
             ctarget == [tfiles[Head(ranges)[1]].target EXCEPT !.sysver = ""]
  <2>1. /\ pc = "ranges" /\ tfiles' = tfiles /\ segs' = segs /\ mvFailed' = mvFailed
        /\ \/ pc' = pc /\ tree' = tree
           \/ Dedup(files, ctarget)
    BY <1>3 DEF Range2
  <2> HIDE DEF files, ctarget
  <2>2. tree' = tree /\ pc' \in {"ranges", "ops", "exit"}
    BY <2>1 DEF Dedup, MkdirsFail
  <2> QED
    BY <2>1, <2>2, OnceOn
<1>4. CASE SegmentEnd
  BY <1>4, OnceOn DEF SegmentEnd
<1>5. CASE OpStep
  BY <1>5, OnceOp
<1>6. CASE OpsEnd
  BY <1>6, OnceOn DEF OpsEnd
<1>7. CASE SegmentsOver
  BY <1>7, OnceOn DEF SegmentsOver
<1>8. CASE RemoveDir
  <2>1. pc \in {"rmdirs", "done"} => segs = << >>
    BY <1>8 DEF OnceInv, Well, RemoveDir
  <2> QED
    BY <1>8, <2>1, OnceOn DEF RemoveDir
<1>9. CASE Finish
  <2>1. pc \in {"rmdirs", "done"} => segs = << >>
    BY <1>9 DEF OnceInv, Well, Finish
  <2> QED
    BY <1>9, <2>1, OnceOn DEF Finish
<1>10. CASE UNCHANGED vars
  BY <1>10 DEF vars, OnceInv, Well, Handled
<1> QED
  BY <1>1, <1>2, <1>3, <1>4, <1>5, <1>6, <1>7, <1>8, <1>9, <1>10 DEF Next

(* It holds in every state, for an orderly and complete layout.             *)
LEMMA OnceAlways == Spec => [](Orderly(before) /\ Complete(before) => OnceInv)
<1>1. Init => (Orderly(before) /\ Complete(before) => OnceInv)
  BY OnceInit
<1>2. /\ TypeInv /\ (Orderly(before) => ViewInv) /\ (Orderly(before) => ViewInv)'
      /\ (Orderly(before) /\ Complete(before) => OnceInv) /\ [Next]_vars
      => (Orderly(before) /\ Complete(before) => OnceInv)'
  <2>1. [Next]_vars => before' = before
    BY DEF Next, Index, Segment, Range2, SegmentEnd, OpStep, OpsEnd, SegmentsOver, RemoveDir, Finish, vars,
           history
  <2> QED
    BY <2>1, OnceStep
<1> QED
  BY <1>1, <1>2, TypeCorrect, ViewAlways, PTL DEF Spec

-----------------------------------------------------------------------------
(* The file of the tree that takes the place of the files akin to the k-th. *)
Sole(k, y) ==
  /\ y \in DOMAIN tree /\ y[2] = tfiles[k].relpath /\ y[1].sys = tfiles[k].target.sys
  /\ y[1].suffix = tfiles[k].target.suffix
  /\ \A z \in DOMAIN tree :
       z[2] = tfiles[k].relpath /\ z[1].sys = tfiles[k].target.sys
         /\ z[1].suffix = tfiles[k].target.suffix => z = y

(* A group of a header that is all the same is all its files.               *)
LEMMA WholeGroup ==
  ASSUME Orderly(before), IndexOf(tfiles, before), NEW k \in DOMAIN tfiles, Uniform(tfiles, k),
         NEW s, NEW e, Group(tfiles, s, e), Akin(tfiles, s, k)
  PROVE  \A m \in DOMAIN tfiles : m \in s..e <=> Akin(tfiles, m, k)
<1>1. /\ s \in DOMAIN tfiles
      /\ \A m \in s..e : m \in DOMAIN tfiles /\ Akin(tfiles, m, s)
  BY GroupFiles
<1>2. \A m \in DOMAIN tfiles : Akin(tfiles, m, s) <=> Akin(tfiles, m, k)
  BY AkinSame
<1>3. Uniform(tfiles, s)
  BY <1>1, <1>2 DEF Uniform
<1>4. IsSegment(tfiles, s, e)
  BY <1>3 DEF Group
<1>5. Undivided(before, tfiles[s].relpath, tfiles[s].target.sys)
  BY <1>1, <1>3, UniformUndivided
<1>6. \A m \in DOMAIN tfiles : Akin(tfiles, m, s) => m \in s..e
  BY <1>4, <1>5, WholeSegment
<1> QED
  BY <1>1, <1>2, <1>6

(* What is in the tree for a header is a file of the start or a common one. *)
LEMMA InTree ==
  ASSUME Orderly(before), IndexOf(tfiles, before), NewInv, NEW k \in DOMAIN tfiles, NEW z \in DOMAIN tree,
         z[2] = tfiles[k].relpath, z[1].sys = tfiles[k].target.sys
  PROVE  \/ \E m \in DOMAIN tfiles : Akin(tfiles, m, k) /\ z = FileOf(tfiles, m)
         \/ \E c, d \in DOMAIN tfiles : /\ Group(tfiles, c, d) /\ z = Place(tfiles, c, d)
                                        /\ Akin(tfiles, c, k)
<1>1. CASE z \in DOMAIN before
  <2>1. PICK m \in DOMAIN tfiles : FileOf(tfiles, m) = z
    BY <1>1 DEF IndexOf
  <2>2. z[1] = tfiles[m].target /\ z[2] = tfiles[m].relpath
    BY <2>1 DEF FileOf
  <2>3. Akin(tfiles, m, k)
    BY <2>2 DEF Akin
  <2> QED
    BY <2>1, <2>3
<1>2. CASE z \notin DOMAIN before
  <2>1. PICK c, d \in DOMAIN tfiles : Group(tfiles, c, d) /\ z = Place(tfiles, c, d)
    BY <1>2 DEF NewInv, Merged
  <2>2. z[1] = Goal(tfiles, c, d) /\ z[2] = tfiles[c].relpath
    BY <2>1 DEF Place
  <2>3. tfiles[c].target \in target_t
    BY InIndex, EntryIs
  <2>4. Goal(tfiles, c, d).sys = tfiles[c].target.sys
    BY <2>3, GoalIs
  <2>5. Akin(tfiles, c, k)
    BY <2>2, <2>4 DEF Akin
  <2> QED
    BY <2>1, <2>5
<1> QED
  BY <1>1, <1>2

(* In the end only the common file is left of them.                         *)
LEMMA SoleIs ==
  ASSUME Orderly(before), ViewInv, OnceInv, pc = "done", NEW k \in DOMAIN tfiles, Uniform(tfiles, k)
  PROVE  \E y : Sole(k, y)
<1>1. IndexOf(tfiles, before) /\ FilesInv /\ NewInv
  BY DEF ViewInv
<1>2. ~mvFailed /\ segs = << >>
      /\ \A m \in DOMAIN tfiles : Shared(tfiles, m) => Handled(m)
  BY DEF OnceInv, Well
<1>3. \A m \in DOMAIN tfiles : Shared(tfiles, m) => FileOf(tfiles, m) \notin DOMAIN tree
  BY <1>2 DEF Handled, In
<1>4. CASE \A m \in DOMAIN tfiles : Akin(tfiles, m, k) => m = k
  <2>1. ASSUME NEW c, NEW d, Group(tfiles, c, d), Akin(tfiles, c, k) PROVE FALSE
    <3>1. \A m \in DOMAIN tfiles : m \in c..d <=> Akin(tfiles, m, k)
      BY <1>1, <2>1, WholeGroup
    <3>2. c \in c..d /\ c + 1 \in c..d /\ c \in Nat /\ \A m \in c..d : m \in DOMAIN tfiles
      BY <1>1, <2>1, GroupFiles
    <3>3. c + 1 # c
      BY <3>2
    <3> QED
      BY <1>4, <3>1, <3>2, <3>3
  <2> DEFINE y == FileOf(tfiles, k)
  <2>2. Intact(k)
    <3> SUFFICES ASSUME ~Intact(k) PROVE FALSE
      OBVIOUS
    <3>1. PICK s, e \in DOMAIN tfiles : k \in s..e /\ Group(tfiles, s, e)
      BY <1>1 DEF FilesInv, Merged
    <3>2. Akin(tfiles, k, s)
      BY <1>1, <3>1, GroupFiles
    <3> QED
      BY <2>1, <3>1, <3>2, AkinSame
  <2>3. y \in DOMAIN tree
    BY <2>2 DEF Intact
  <2>4. y[1] = tfiles[k].target /\ y[2] = tfiles[k].relpath
    BY DEF FileOf
  <2> HIDE DEF y
  <2>5. ASSUME NEW z \in DOMAIN tree, z[2] = tfiles[k].relpath, z[1].sys = tfiles[k].target.sys
        PROVE  z = y
    <3>1. \E m \in DOMAIN tfiles : Akin(tfiles, m, k) /\ z = FileOf(tfiles, m)
      BY <1>1, <2>1, <2>5, InTree
    <3> QED
      BY <1>4, <3>1 DEF y
  <2>6. Sole(k, y)
    BY <2>3, <2>4, <2>5 DEF Sole
  <2> QED
    BY <2>6
<1>5. CASE \E m \in DOMAIN tfiles : m # k /\ Akin(tfiles, m, k)
  <2>1. ASSUME NEW m \in DOMAIN tfiles, Akin(tfiles, m, k) PROVE FileOf(tfiles, m) \notin DOMAIN tree
    <3>1. \A i \in DOMAIN tfiles : Akin(tfiles, i, m) <=> Akin(tfiles, i, k)
      BY <2>1, AkinSame
    <3>2. Uniform(tfiles, m)
      BY <2>1, <3>1 DEF Uniform
    <3>3. \E i \in DOMAIN tfiles : i # m /\ Akin(tfiles, i, m)
      BY <1>5, <3>1, AkinSame
    <3>4. Shared(tfiles, m)
      BY <3>2, <3>3 DEF Shared
    <3> QED
      BY <1>3, <3>4
  <2>2. FileOf(tfiles, k) \notin DOMAIN tree
    BY <2>1, AkinSame
  <2>3. PICK s, e \in DOMAIN tfiles : k \in s..e /\ Group(tfiles, s, e) /\ Stored(s, e)
    BY <1>1, <1>2, <2>2 DEF FilesInv, Merged, Intact
  <2>4. Akin(tfiles, k, s) /\ tfiles[k].target.suffix = tfiles[s].target.suffix
    BY <1>1, <2>3, GroupFiles
  <2>5. Akin(tfiles, s, k)
    BY <2>4, AkinSame
  <2> DEFINE y == Place(tfiles, s, e)
  <2>6. y \in DOMAIN tree /\ y[1] = Goal(tfiles, s, e) /\ y[2] = tfiles[s].relpath
    BY <2>3 DEF Stored, Place
  <2>7. Goal(tfiles, s, e).sys = tfiles[s].target.sys /\ Goal(tfiles, s, e).suffix = tfiles[s].target.suffix
    <3>1. tfiles[s].target \in target_t
      BY <1>1, InIndex, EntryIs
    <3> QED
      BY <3>1, GoalIs
  <2> HIDE DEF y
  <2>8. ASSUME NEW z \in DOMAIN tree, z[2] = tfiles[k].relpath, z[1].sys = tfiles[k].target.sys
        PROVE  z = y
    <3>1. PICK c, d \in DOMAIN tfiles : Group(tfiles, c, d) /\ z = Place(tfiles, c, d) /\ Akin(tfiles, c, k)
      BY <1>1, <2>1, <2>8, InTree
    <3>2. \A m \in DOMAIN tfiles : m \in c..d <=> Akin(tfiles, m, k)
      BY <1>1, <3>1, WholeGroup
    <3>3. \A m \in DOMAIN tfiles : m \in s..e <=> Akin(tfiles, m, k)
      BY <1>1, <2>3, <2>5, WholeGroup
    <3>4. c \in c..d /\ d \in c..d /\ c \in Nat /\ d \in Nat
      BY <1>1, <3>1, GroupFiles
    <3>5. s \in s..e /\ e \in s..e /\ s \in Nat /\ e \in Nat
      BY <1>1, <2>3, GroupFiles
    <3>6. c \in s..e /\ d \in s..e /\ s \in c..d /\ e \in c..d
      BY <2>3, <3>1, <3>2, <3>3, <3>4, <3>5
    <3>7. c = s /\ d = e
      BY <3>4, <3>5, <3>6
    <3> QED
      BY <3>1, <3>7 DEF y
  <2>9. Sole(k, y)
    BY <2>4, <2>6, <2>7, <2>8 DEF Sole, Akin
  <2> QED
    BY <2>9
<1> QED
  BY <1>4, <1>5

(* A set of values has one element if all of them are the same.             *)
LEMMA OneValue ==
  ASSUME NEW S, IsFiniteSet(S), NEW f
  PROVE  Cardinality({f[x] : x \in S}) = 1 => S # {} /\ \A x, y \in S : f[x] = f[y]
<1> DEFINE T == {f[x] : x \in S}
<1>1. IsFiniteSet(T)
  <2> DEFINE g == [x \in S |-> f[x]]
  <2>1. g \in Surjection(S, T)
    BY DEF Surjection
  <2> HIDE DEF g, T
  <2> QED
    BY <2>1, FS_Surjection
<1>2. \A x \in S : f[x] \in T
  OBVIOUS
<1>3. \A v \in T : \E x \in S : v = f[x]
  OBVIOUS
<1> HIDE DEF T
<1>4. ASSUME Cardinality(T) = 1 PROVE \E v : T = {v}
  BY <1>1, <1>4, FS_Singleton
<1>5. Cardinality(T) = 1 => S # {} /\ \A x, y \in S : f[x] = f[y]
  BY <1>2, <1>3, <1>4
<1> QED
  BY <1>5 DEF T

(* When the program has succeeded, a header whose content is the same for   *)
(* all targets of a system that have it is stored once: nothing the files   *)
(* of such a header meet on the way through segments, ranges and versions   *)
(* lets one of them be skipped. For all orderly and complete layouts.       *)
THEOREM StoredOnceAlways == Spec => [](Orderly(before) /\ Complete(before) => StoredOnce)
<1>1. /\ before \in Layouts /\ (Orderly(before) => ViewInv)
      /\ (Orderly(before) /\ Complete(before) => OnceInv)
      => (Orderly(before) /\ Complete(before) => StoredOnce)
  <2> DEFINE Same(files, x, r) ==
               {y \in DOMAIN files : y[2] = r /\ y[1].sys = x[1].sys /\ y[1].suffix = x[1].suffix}
  <2> SUFFICES ASSUME before \in Layouts, Orderly(before), Complete(before), ViewInv, OnceInv, pc = "done",
                      NEW r \in Relpath, NEW x \in DOMAIN before,
                      Cardinality({before[y] : y \in Same(before, x, r)}) = 1
               PROVE  Cardinality(Same(tree, x, r)) = 1
    BY DEF StoredOnce
  <2> DEFINE S == Same(before, x, r)
             T == Same(tree, x, r)
  <2>1. IndexOf(tfiles, before)
    BY DEF ViewInv
  <2>2. IsFiniteSet(S)
    <3>1. IsFiniteSet(DOMAIN before) /\ S \subseteq DOMAIN before
      BY LayoutsAssumption
    <3> HIDE DEF S
    <3> QED
      BY <3>1, FS_Subset
  <2>3. S # {} /\ \A y, z \in S : before[y] = before[z]
    <3>1. Cardinality({before[y] : y \in S}) = 1
      OBVIOUS
    <3> HIDE DEF S
    <3> QED
      BY <2>2, <3>1, OneValue
  <2>4. PICK y \in S : TRUE
    BY <2>3
  <2>5. y \in DOMAIN before /\ y[2] = r /\ y[1].sys = x[1].sys /\ y[1].suffix = x[1].suffix
    BY <2>4
  <2>6. PICK k \in DOMAIN tfiles : FileOf(tfiles, k) = y
    BY <2>1, <2>5 DEF IndexOf
  <2>7. tfiles[k].target = y[1] /\ tfiles[k].relpath = r
    BY <2>5, <2>6 DEF FileOf
  <2>8. Uniform(tfiles, k)
    <3> SUFFICES ASSUME NEW m \in DOMAIN tfiles, Akin(tfiles, m, k) PROVE tfiles[m].hash = tfiles[k].hash
      BY DEF Uniform
    <3> DEFINE z == FileOf(tfiles, m)
    <3>1. z \in DOMAIN before /\ before[z] = tfiles[m].hash /\ before[y] = tfiles[k].hash
      BY <2>1, <2>6 DEF IndexOf
    <3>2. z[1] = tfiles[m].target /\ z[2] = tfiles[m].relpath
      BY DEF FileOf
    <3>3. tfiles[m].target.suffix = tfiles[k].target.suffix
      BY <2>1, OrderlyAkin
    <3> HIDE DEF z
    <3>4. z \in S
      BY <2>5, <2>7, <3>1, <3>2, <3>3 DEF Akin
    <3>5. before[z] = before[y]
      BY <2>3, <2>4, <3>4
    <3> QED
      BY <3>1, <3>5
  <2>9. PICK w : Sole(k, w)
    BY <2>8, SoleIs
  <2>10. T = {w}
    BY <2>5, <2>7, <2>9 DEF Sole
  <2> HIDE DEF T
  <2>11. Cardinality(T) = 1
    BY <2>10, FS_Singleton
  <2> QED
    BY <2>11 DEF T
<1> QED
  BY <1>1, BeforeIs, ViewAlways, OnceAlways, PTL

-----------------------------------------------------------------------------
(* The script runs the dedup tool, and after it nothing of the tool's moves.*)
LEMMA DistMoves == [DistNext]_<<vars, distVars>> => [Next]_vars
<1> SUFFICES ASSUME [DistNext]_<<vars, distVars>>, ~UNCHANGED vars PROVE Next
  OBVIOUS
<1>1. DedupRuns
  BY DEF DistNext, DedupOver, ScriptFails, MergeSuffixed, MergeOver, Rename, StartLibs, LibCopied, Wait,
         GenWrappers
<1> QED
  BY <1>1 DEF DedupRuns

(* So whatever the tool always does, it does here.                          *)
LEMMA DistRuns == DistSpec => Spec
<1>1. DistInit => Init
  BY DEF DistInit
<1> QED
  BY <1>1, DistMoves, PTL DEF DistSpec, Spec

(* A file of the tree has system, suffix and path of one of the start.      *)
LEMMA TreeKin ==
  ASSUME Orderly(before), ViewInv, pc # "index", NEW y \in DOMAIN tree
  PROVE  \E x \in DOMAIN before : x[2] = y[2] /\ x[1].sys = y[1].sys /\ x[1].suffix = y[1].suffix
<1>1. IndexOf(tfiles, before) /\ NewInv
  BY DEF ViewInv
<1>2. CASE y \in DOMAIN before
  BY <1>2
<1>3. CASE y \notin DOMAIN before
  <2>1. PICK c, d \in DOMAIN tfiles : Group(tfiles, c, d) /\ y = Place(tfiles, c, d)
    BY <1>1, <1>3 DEF NewInv, Merged
  <2>2. y[1] = Goal(tfiles, c, d) /\ y[2] = tfiles[c].relpath
    BY <2>1 DEF Place
  <2>3. tfiles[c].target \in target_t
    BY <1>1, InIndex, EntryIs
  <2>4. Goal(tfiles, c, d).sys = tfiles[c].target.sys /\ Goal(tfiles, c, d).suffix = tfiles[c].target.suffix
    BY <2>3, GoalIs
  <2> DEFINE x == FileOf(tfiles, c)
  <2>5. x \in DOMAIN before
    BY <1>1 DEF IndexOf
  <2>6. x[1] = tfiles[c].target /\ x[2] = tfiles[c].relpath
    BY DEF FileOf
  <2> HIDE DEF x
  <2> QED
    BY <2>2, <2>4, <2>5, <2>6
<1> QED
  BY <1>2, <1>3

(* All files of a header and a system have one suffix.                      *)
Unmixed(files) ==
  \A x, y \in DOMAIN files : x[2] = y[2] /\ x[1].sys = y[1].sys => x[1].suffix = y[1].suffix

(* The tree of an orderly layout is unmixed, whatever is merged in it.      *)
LEMMA TreeUnmixed ==
  ASSUME Orderly(before), ViewInv, pc # "index"
  PROVE  Unmixed(tree)
<1> SUFFICES ASSUME NEW x \in DOMAIN tree, NEW y \in DOMAIN tree, x[2] = y[2], x[1].sys = y[1].sys
             PROVE  x[1].suffix = y[1].suffix
  BY DEF Unmixed
<1>1. PICK a \in DOMAIN before : a[2] = x[2] /\ a[1].sys = x[1].sys /\ a[1].suffix = x[1].suffix
  BY TreeKin
<1>2. PICK b \in DOMAIN before : b[2] = y[2] /\ b[1].sys = y[1].sys /\ b[1].suffix = y[1].suffix
  BY TreeKin
<1>3. a[1].suffix = b[1].suffix
  BY <1>1, <1>2 DEF Orderly
<1> QED
  BY <1>1, <1>2, <1>3

(* There is no other suffix.                                                *)
LEMMA TreeSuffix ==
  ASSUME Orderly(before), ViewInv, pc # "index", before \in Layouts, NEW y \in DOMAIN tree
  PROVE  y[1].suffix \in {"", "libc"}
<1>1. PICK a \in DOMAIN before : a[2] = y[2] /\ a[1].sys = y[1].sys /\ a[1].suffix = y[1].suffix
  BY TreeKin
<1>2. a[1].suffix \in {"", "libc"}
  BY DistAssumption
<1> QED
  BY <1>1, <1>2

-----------------------------------------------------------------------------

(* The files of the tree are of targets.                                    *)
LEMMA TreeTyped ==
  ASSUME TypeInv, before \in Layouts, ViewInv, pc # "index", NEW y \in DOMAIN tree
  PROVE  y = <<y[1], y[2]>> /\ y[1] \in target_t
<1>1. IndexOf(tfiles, before) /\ NewInv
  BY DEF ViewInv
<1>2. y = <<y[1], y[2]>>
  BY DEF TypeInv
<1>3. CASE y \in DOMAIN before
  <2>1. y \in target_t \X Relpath
    BY <1>3, LayoutsAssumption
  <2> QED
    BY <1>2, <2>1, PairIs
<1>4. CASE y \notin DOMAIN before
  <2>1. PICK c, d \in DOMAIN tfiles : Group(tfiles, c, d) /\ y = Place(tfiles, c, d)
    BY <1>1, <1>4 DEF NewInv, Merged
  <2>2. y[1] = Goal(tfiles, c, d)
    BY <2>1 DEF Place
  <2>3. tfiles[c].target \in target_t
    BY <1>1, InIndex, EntryIs
  <2> QED
    BY <1>2, <2>2, <2>3, GoalIs
<1> QED
  BY <1>3, <1>4

(* Where a file of the tree may be while directories are merged, and that   *)
(* all of them are there with their content.                                *)
Plain(t) == [t EXCEPT !.suffix = ""]
LandsAt(y, x) == x = y \/ x = <<Plain(y[1]), y[2]>>

(* All files of the tree are in the directories of the product, and nothing *)
(* else is.                                                                 *)
Carried(hs, fs) ==
  /\ \A y \in DOMAIN fs : \E x \in DOMAIN hs : LandsAt(y, x) /\ hs[x] = fs[y]
  /\ \A x \in DOMAIN hs : \E y \in DOMAIN fs : LandsAt(y, x) /\ hs[x] = fs[y]

(* A target without its suffix.                                             *)
LEMMA PlainIs ==
  ASSUME NEW t \in target_t
  PROVE  /\ Plain(t).suffix = "" /\ Plain(t).sys = t.sys /\ Plain(t).arch = t.arch
         /\ Plain(t).sysver = t.sysver /\ (t.suffix = "" => Plain(t) = t)
  BY DEF Plain, target_t

(* Targets of one suffix that are the same without it are the same.         *)
LEMMA PlainOnce ==
  ASSUME NEW t \in target_t, NEW u \in target_t, Plain(t) = Plain(u), t.suffix = u.suffix
  PROVE  t = u
<1>1. t.arch = u.arch /\ t.sys = u.sys /\ t.sysver = u.sysver
  <2>1. /\ Plain(t).arch = t.arch /\ Plain(t).sys = t.sys /\ Plain(t).sysver = t.sysver
        /\ Plain(u).arch = u.arch /\ Plain(u).sys = u.sys /\ Plain(u).sysver = u.sysver
    BY PlainIs
  <2> QED
    BY <2>1
<1>2. /\ t = [arch |-> t.arch, sys |-> t.sys, sysver |-> t.sysver, suffix |-> t.suffix]
      /\ u = [arch |-> u.arch, sys |-> u.sys, sysver |-> u.sysver, suffix |-> u.suffix]
  BY DEF target_t
<1> QED
  BY <1>1, <1>2

(* A directory is merged: no two files of the tree fall on one another.     *)
LEMMA MergeCarries ==
  ASSUME Carried(headers, tree), Unmixed(tree),
         \A y \in DOMAIN tree : y = <<y[1], y[2]>> /\ y[1] \in target_t,
         NEW from \in Suffixed
  PROVE  Carried(MergeInto(from, Plain(from)), tree)
<1> DEFINE to == Plain(from)
           moved == {x \in DOMAIN headers : x[1] = from}
           dom == (DOMAIN headers \ moved) \cup {<<to, y[2]>> : y \in moved}
           hs == MergeInto(from, to)
<1>1. from.suffix # "" /\ \E x \in DOMAIN headers : x[1] = from
  BY DEF Suffixed, Holders
<1>2. /\ DOMAIN hs = dom
      /\ \A x \in dom : hs[x] = IF x[1] = to /\ <<from, x[2]>> \in moved
                                THEN headers[<<from, x[2]>>] ELSE headers[x]
  BY DEF MergeInto
<1>3. \A x \in moved : x \in DOMAIN tree /\ headers[x] = tree[x] /\ x = <<from, x[2]>> /\ from \in target_t
  <2> SUFFICES ASSUME NEW x \in moved
               PROVE  x \in DOMAIN tree /\ headers[x] = tree[x] /\ x = <<from, x[2]>> /\ from \in target_t
    OBVIOUS
  <2>1. PICK y \in DOMAIN tree : LandsAt(y, x) /\ headers[x] = tree[y]
    BY DEF Carried
  <2>2. x[1] = from /\ y[1] \in target_t /\ y = <<y[1], y[2]>>
    OBVIOUS
  <2>3. x # <<Plain(y[1]), y[2]>>
    <3>1. Plain(y[1]).suffix = ""
      BY <2>2, PlainIs
    <3>2. x = <<Plain(y[1]), y[2]>> => x[1] = Plain(y[1])
      OBVIOUS
    <3>3. x[1].suffix # ""
      BY <1>1, <2>2
    <3> HIDE DEF moved
    <3> QED
      BY <3>1, <3>2, <3>3
  <2>4. x = y
    BY <2>1, <2>3 DEF LandsAt
  <2> QED
    BY <2>1, <2>2, <2>4
<1>4. from \in target_t /\ to # from /\ to.suffix = ""
  BY <1>1, <1>3, PlainIs
<1> HIDE DEF hs, to
<1>5. ASSUME NEW x \in DOMAIN hs PROVE \E y \in DOMAIN tree : LandsAt(y, x) /\ hs[x] = tree[y]
  <2>1. CASE x[1] = to /\ <<from, x[2]>> \in moved
    <3> DEFINE z == <<from, x[2]>>
    <3>1. z \in DOMAIN tree /\ headers[z] = tree[z]
      BY <1>3, <2>1
    <3>2. hs[x] = headers[z]
      BY <1>2, <1>5, <2>1
    <3>3. x = <<to, x[2]>>
      <4>1. CASE \E y \in moved : x = <<to, y[2]>>
        BY <4>1
      <4>2. CASE x \in DOMAIN headers
        <5>1. PICK y \in DOMAIN tree : LandsAt(y, x)
          BY <4>2 DEF Carried
        <5>2. y = <<y[1], y[2]>>
          OBVIOUS
        <5> QED
          BY <2>1, <5>1, <5>2 DEF LandsAt
      <4> QED
        BY <1>2, <1>5, <4>1, <4>2
    <3>4. LandsAt(z, x)
      BY <3>3 DEF LandsAt, to
    <3> QED
      BY <3>1, <3>2, <3>4
  <2>2. CASE ~(x[1] = to /\ <<from, x[2]>> \in moved)
    <3>1. x \in DOMAIN headers
      <4>1. ASSUME NEW y \in moved, x = <<to, y[2]>> PROVE FALSE
        <5>1. x[1] = to /\ x[2] = y[2]
          BY <4>1
        <5>2. y = <<from, x[2]>>
          BY <1>3, <4>1, <5>1
        <5> QED
          BY <2>2, <4>1, <5>1, <5>2
      <4> QED
        BY <1>2, <1>5, <4>1
    <3>2. hs[x] = headers[x]
      BY <1>2, <1>5, <2>2
    <3> QED
      BY <3>1, <3>2 DEF Carried
  <2> QED
    BY <2>1, <2>2
<1>6. ASSUME NEW y \in DOMAIN tree PROVE \E x \in DOMAIN hs : LandsAt(y, x) /\ hs[x] = tree[y]
  <2>1. PICK x \in DOMAIN headers : LandsAt(y, x) /\ headers[x] = tree[y]
    BY DEF Carried
  <2>2. y = <<y[1], y[2]>> /\ y[1] \in target_t
    OBVIOUS
  <2>3. CASE x \in moved
    <3> DEFINE w == <<to, x[2]>>
    <3>1. w \in DOMAIN hs /\ hs[w] = headers[x]
      <4>1. w \in DOMAIN hs
        BY <1>2, <2>3
      <4>2. w[1] = to /\ <<from, w[2]>> = x
        BY <1>3, <2>3
      <4> HIDE DEF w
      <4> QED
        BY <1>2, <2>3, <4>1, <4>2
    <3>2. x = y
      <4>1. x[1] = from
        BY <2>3
      <4>2. x # <<Plain(y[1]), y[2]>>
        <5>1. Plain(y[1]).suffix = ""
          BY <2>2, PlainIs
        <5>2. x = <<Plain(y[1]), y[2]>> => x[1] = Plain(y[1])
          OBVIOUS
        <5>3. x[1].suffix # ""
          BY <1>1, <4>1
        <5> HIDE DEF moved
        <5> QED
          BY <5>1, <5>2, <5>3
      <4> QED
        BY <2>1, <4>2 DEF LandsAt
    <3>3. LandsAt(y, w)
      <4>1. y[1] = from
        BY <2>3, <3>2
      <4> QED
        BY <3>2, <4>1 DEF LandsAt, to
    <3> QED
      BY <2>1, <3>1, <3>3
  <2>4. CASE x \notin moved /\ ~(x[1] = to /\ <<from, x[2]>> \in moved)
    <3>1. x \in DOMAIN hs /\ hs[x] = headers[x]
      BY <1>2, <2>4
    <3> QED
      BY <2>1, <3>1
  <2>5. CASE x \notin moved /\ x[1] = to /\ <<from, x[2]>> \in moved
    <3> DEFINE z == <<from, x[2]>>
    <3>1. z \in DOMAIN tree /\ headers[z] = tree[z] /\ z[1] = from /\ z[2] = x[2]
      BY <1>3, <2>5
    <3>2. x \in DOMAIN hs /\ hs[x] = headers[z]
      BY <1>2, <2>5
    <3>3. Plain(y[1]) = to /\ y[2] = x[2]
      <4>1. CASE x = y
        <5>1. y[1] = to
          BY <2>5, <4>1
        <5> QED
          BY <1>4, <2>2, <4>1, <5>1, PlainIs
      <4>2. CASE x = <<Plain(y[1]), y[2]>>
        BY <2>5, <4>2
      <4> QED
        BY <2>1, <4>1, <4>2 DEF LandsAt
    <3> HIDE DEF z
    <3>4. y[1].sys = to.sys /\ to.sys = from.sys
      <4>1. Plain(y[1]).sys = y[1].sys
        BY <2>2, PlainIs
      <4>2. Plain(from).sys = from.sys
        BY <1>4, PlainIs
      <4> QED
        BY <3>3, <4>1, <4>2 DEF to
    <3>5. y[1].suffix = from.suffix
      BY <3>1, <3>3, <3>4 DEF Unmixed
    <3>6. y[1] = from
      BY <1>4, <2>2, <3>3, <3>5, PlainOnce DEF to
    <3>7. y = z
      BY <2>2, <3>3, <3>6 DEF z
    <3> QED
      BY <2>1, <3>1, <3>2, <3>7
  <2> QED
    BY <2>3, <2>4, <2>5
<1> QED
  BY <1>5, <1>6 DEF Carried, hs, to

-----------------------------------------------------------------------------
(* What the script has made when it comes to a stage.                       *)
HeadersInv ==
  stage \notin {"dedup", "failed"} =>
    /\ pc = "done" /\ Carried(headers, tree)
    /\ stage # "merge" => Suffixed = {}
    /\ stage \notin {"merge", "rename"} => included = Holders

(* A library is there, or on the way, or its copy has failed; the wrappers  *)
(* are made when none is on the way, from what is there.                    *)
LibsInv ==
  /\ stage \in {"wait", "wrappers", "done"} => lostJob \/ LibTargets \subseteq jobs \cup libs
  /\ stage \in {"wrappers", "done"} => jobs = {}
  /\ stage = "done" => wrapper = [t \in DistTargets |-> [I |-> IncludeFlags(t), L |-> LibFlags(t)]]

(* Every step of the script keeps it.                                       *)
LEMMA HeadersStep ==
  ASSUME Orderly(before), before \in Layouts, TypeInv, ViewInv, HeadersInv,
         [DistNext]_<<vars, distVars>>
  PROVE  HeadersInv'
<1>1. CASE DedupRuns
  <2>1. stage' = "dedup"
    BY <1>1 DEF DedupRuns, distVars
  <2> QED
    BY <2>1 DEF HeadersInv
<1>2. CASE DedupOver
  <2>1. stage' = "merge" /\ headers' = tree /\ tree' = tree /\ pc' = "done"
    BY <1>2 DEF DedupOver, vars
  <2>2. Carried(tree, tree)
    BY DEF Carried, LandsAt
  <2>3. Carried(headers', tree')
    BY <2>1, <2>2
  <2> QED
    BY <2>1, <2>3 DEF HeadersInv
<1>3. CASE ScriptFails
  <2>1. stage' = "failed"
    BY <1>3 DEF ScriptFails
  <2> QED
    BY <2>1 DEF HeadersInv
<1>4. CASE MergeSuffixed
  <2> DEFINE from == CHOOSE t \in Suffixed : TRUE
  <2>1. /\ stage = "merge" /\ stage' = "merge" /\ from \in Suffixed /\ tree' = tree /\ pc' = pc
        /\ headers' = MergeInto(from, Plain(from))
    BY <1>4 DEF MergeSuffixed, vars, Plain
  <2> HIDE DEF from
  <2>2. pc = "done" /\ Carried(headers, tree)
    BY <2>1 DEF HeadersInv
  <2>3. Unmixed(tree) /\ \A y \in DOMAIN tree : y = <<y[1], y[2]>> /\ y[1] \in target_t
    BY <2>2, TreeUnmixed, TreeTyped
  <2>4. Carried(MergeInto(from, Plain(from)), tree)
    BY <2>1, <2>2, <2>3, MergeCarries
  <2>5. Carried(headers', tree')
    BY <2>1, <2>4
  <2> QED
    BY <2>1, <2>2, <2>5 DEF HeadersInv
<1>5. CASE MergeOver
  <2>1. /\ stage = "merge" /\ stage' = "rename" /\ headers' = headers /\ tree' = tree /\ pc' = pc
        /\ Suffixed = {}
    BY <1>5 DEF MergeOver, vars
  <2>2. Suffixed' = {}
    BY <2>1 DEF Suffixed, Holders
  <2>3. pc = "done" /\ Carried(headers, tree)
    BY <2>1 DEF HeadersInv
  <2>4. Carried(headers', tree')
    BY <2>1, <2>3
  <2> QED
    BY <2>1, <2>2, <2>3, <2>4 DEF HeadersInv
<1>6. CASE Rename
  <2>1. /\ stage = "rename" /\ stage' = "libs" /\ headers' = headers /\ tree' = tree /\ pc' = pc
        /\ included' = Holders
    BY <1>6 DEF Rename, vars
  <2>2. Suffixed = {} /\ pc = "done" /\ Carried(headers, tree)
    BY <2>1 DEF HeadersInv
  <2>3. Suffixed' = {} /\ Holders' = Holders
    BY <2>1, <2>2 DEF Suffixed, Holders
  <2>4. Carried(headers', tree')
    BY <2>1, <2>2
  <2> QED
    BY <2>1, <2>2, <2>3, <2>4 DEF HeadersInv
<1>7. CASE /\ stage \in {"libs", "wait", "wrappers"} /\ stage' \in {"wait", "wrappers", "done"}
           /\ headers' = headers /\ tree' = tree /\ pc' = pc /\ included' = included
  <2>1. Suffixed = {} /\ pc = "done" /\ Carried(headers, tree) /\ included = Holders
    BY <1>7 DEF HeadersInv
  <2>2. Suffixed' = {} /\ Holders' = Holders
    BY <1>7, <2>1 DEF Suffixed, Holders
  <2>3. Carried(headers', tree')
    BY <1>7, <2>1
  <2> QED
    BY <1>7, <2>1, <2>2, <2>3 DEF HeadersInv
<1>8. CASE /\ stage' = stage /\ headers' = headers /\ tree' = tree /\ pc' = pc
           /\ included' = included
  <2>1. Suffixed' = Suffixed /\ Holders' = Holders
    BY <1>8 DEF Suffixed, Holders
  <2>2. Carried(headers, tree) => Carried(headers', tree')
    BY <1>8
  <2> QED
    BY <1>8, <2>1, <2>2 DEF HeadersInv
<1>9. CASE StartLibs \/ Wait \/ GenWrappers
  <2>1. /\ stage \in {"libs", "wait", "wrappers"} /\ stage' \in {"wait", "wrappers", "done"}
        /\ headers' = headers /\ tree' = tree /\ pc' = pc /\ included' = included
    BY <1>9 DEF StartLibs, Wait, GenWrappers, vars
  <2> QED
    BY <1>7, <2>1
<1>10. CASE LibCopied \/ UNCHANGED <<vars, distVars>>
  <2>1. /\ stage' = stage /\ headers' = headers /\ tree' = tree /\ pc' = pc
        /\ included' = included
    BY <1>10 DEF LibCopied, vars, distVars
  <2> QED
    BY <1>8, <2>1
<1> QED
  BY <1>1, <1>2, <1>3, <1>4, <1>5, <1>6, <1>9, <1>10 DEF DistNext

(* Every step of the script keeps it, as the wrappers are made after the    *)
(* wait.                                                                    *)
LEMMA LibsStep ==
  ASSUME LibsInv, [DistNext]_<<vars, distVars>>
  PROVE  LibsInv'
<1>1. CASE stage' \in {"dedup", "merge", "rename", "libs", "failed"}
  BY <1>1 DEF LibsInv
<1>2. CASE StartLibs
  <2>1. stage' = "wait" /\ jobs' = LibTargets
    BY <1>2 DEF StartLibs
  <2> QED
    BY <2>1 DEF LibsInv
<1>3. CASE Wait
  <2>1. stage = "wait" /\ stage' = "wrappers" /\ jobs = {} /\ jobs' = jobs /\ libs' = libs /\ lostJob' = lostJob
    BY <1>3 DEF Wait, Waited
  <2> QED
    BY <2>1 DEF LibsInv
<1>4. CASE GenWrappers
  <2>1. /\ stage = "wrappers" /\ stage' = "done" /\ jobs' = jobs /\ libs' = libs /\ lostJob' = lostJob
        /\ included' = included
        /\ wrapper' = [t \in DistTargets |-> [I |-> IncludeFlags(t), L |-> LibFlags(t)]]
    BY <1>4 DEF GenWrappers
  <2>2. wrapper' = [t \in DistTargets |-> [I |-> IncludeFlags(t)', L |-> LibFlags(t)']]
    BY <2>1 DEF IncludeFlags, LibFlags, IfThere
  <2> QED
    BY <2>1, <2>2 DEF LibsInv
<1>5. CASE LibCopied
  <2>1. PICK t \in jobs : /\ jobs' = jobs \ {t}
                          /\ (libs' = libs \cup {t} /\ lostJob' = lostJob) \/ (lostJob' = TRUE /\ libs' = libs)
                          /\ stage' = stage
    BY <1>5 DEF LibCopied
  <2>2. jobs # {}
    OBVIOUS
  <2>3. stage \notin {"wrappers", "done"}
    BY <2>2 DEF LibsInv
  <2>4. stage = "wait" => lostJob' \/ LibTargets \subseteq jobs' \cup libs'
    BY <2>1 DEF LibsInv
  <2> QED
    BY <2>1, <2>3, <2>4 DEF LibsInv
<1>6. CASE UNCHANGED <<vars, distVars>>
  <2>1. /\ stage' = stage /\ jobs' = jobs /\ libs' = libs /\ lostJob' = lostJob /\ included' = included
        /\ wrapper' = wrapper
    BY <1>6 DEF distVars
  <2>2. stage = "done" => wrapper' = [t \in DistTargets |-> [I |-> IncludeFlags(t)', L |-> LibFlags(t)']]
    <3>1. \A t : IncludeFlags(t)' = IncludeFlags(t) /\ LibFlags(t)' = LibFlags(t)
      BY <2>1 DEF IncludeFlags, LibFlags, IfThere
    <3>2. stage = "done" => wrapper = [t \in DistTargets |-> [I |-> IncludeFlags(t), L |-> LibFlags(t)]]
      BY DEF LibsInv
    <3> QED
      BY <2>1, <3>1, <3>2
  <2> QED
    BY <2>1, <2>2 DEF LibsInv
<1>7. CASE DedupRuns \/ DedupOver \/ ScriptFails \/ MergeSuffixed \/ MergeOver \/ Rename
  <2>1. stage' \in {"dedup", "merge", "rename", "libs", "failed"}
    BY <1>7 DEF DedupRuns, DedupOver, ScriptFails, MergeSuffixed, MergeOver, Rename, distVars
  <2> QED
    BY <1>1, <2>1
<1> QED
  BY <1>2, <1>3, <1>4, <1>5, <1>6, <1>7 DEF DistNext

(* Both hold in every state.                                                *)
LEMMA DistAlways ==
  DistSpec => [](LibsInv /\ (Orderly(before) => HeadersInv))
<1>1. DistInit => LibsInv /\ HeadersInv
  BY DEF DistInit, LibsInv, HeadersInv
<1>2. /\ TypeInv /\ before \in Layouts /\ (Orderly(before) => ViewInv)
      /\ LibsInv /\ (Orderly(before) => HeadersInv) /\ [DistNext]_<<vars, distVars>>
      => (LibsInv /\ (Orderly(before) => HeadersInv))'
  <2>1. [DistNext]_<<vars, distVars>> => before' = before
    <3>1. [Next]_vars => before' = before
      BY DEF Next, Index, Segment, Range2, SegmentEnd, OpStep, OpsEnd, SegmentsOver, RemoveDir, Finish, vars,
             history
    <3>2. [DistNext]_<<vars, distVars>> => [Next]_vars
      BY DistMoves
    <3> QED
      BY <3>1, <3>2
  <2> QED
    BY <2>1, HeadersStep, LibsStep
<1> QED
  BY <1>1, <1>2, DistRuns, TypeCorrect, BeforeIs, ViewAlways, PTL DEF DistSpec

-----------------------------------------------------------------------------
(* What the compiler includes that searches the directories of a path.      *)
HitAt(path, files, r, i) == <<path[i], r>> \in DOMAIN files

FirstIn(path, files, r) ==
  LET hits == {i \in DOMAIN path : <<path[i], r>> \in DOMAIN files}
  IN IF hits = {} THEN NoFile
     ELSE files[<<path[CHOOSE i \in hits : \A j \in hits : i <= j], r>>]

(* It is found in the first directory that has it.                          *)
LEMMA FirstIs ==
  ASSUME NEW path \in Seq(target_t), NEW files, NEW r, NEW i \in DOMAIN path, HitAt(path, files, r, i),
         \A j \in DOMAIN path : j < i => ~HitAt(path, files, r, j)
  PROVE  FirstIn(path, files, r) = files[<<path[i], r>>]
<1> DEFINE hits == {k \in DOMAIN path : <<path[k], r>> \in DOMAIN files}
           f == CHOOSE k \in hits : \A j \in hits : k <= j
<1>1. DOMAIN path \subseteq Int
  BY LenProperties
<1>2. i \in hits /\ \A j \in hits : j \in Int /\ ~(j < i)
  BY <1>1 DEF HitAt
<1>3. FirstIn(path, files, r) = IF hits = {} THEN NoFile ELSE files[<<path[f], r>>]
  BY DEF FirstIn
<1> HIDE DEF hits
<1>4. \A j \in hits : i <= j
  BY <1>2
<1>5. \A m \in hits : (\A j \in hits : m <= j) => m = i
  BY <1>2, <1>4
<1>6. f = i /\ hits # {}
  BY <1>2, <1>4, <1>5
<1> HIDE DEF f
<1> QED
  BY <1>3, <1>6

(* If none has it, it is not found.                                         *)
LEMMA FirstNone ==
  ASSUME NEW path \in Seq(target_t), NEW files, NEW r, \A j \in DOMAIN path : ~HitAt(path, files, r, j)
  PROVE  FirstIn(path, files, r) = NoFile
  BY DEF FirstIn, HitAt

(* One more directory before the others, if it is there.                    *)
LEMMA FirstIfThere ==
  ASSUME NEW q \in Seq(target_t), NEW d \in target_t, NEW there, NEW files, NEW r,
         <<d, r>> \in DOMAIN files => d \in there
  PROVE  /\ IfThere(d, there) \o q \in Seq(target_t)
         /\ FirstIn(IfThere(d, there) \o q, files, r)
              = IF <<d, r>> \in DOMAIN files THEN files[<<d, r>>] ELSE FirstIn(q, files, r)
<1>1. CASE d \notin there
  <2>1. IfThere(d, there) \o q = q
    BY <1>1 DEF IfThere
  <2> QED
    BY <1>1, <2>1
<1>2. CASE d \in there
  <2> DEFINE p == <<d>> \o q
  <2>1. IfThere(d, there) \o q = p
    BY <1>2 DEF IfThere
  <2>2. /\ p \in Seq(target_t) /\ Len(p) = Len(q) + 1 /\ DOMAIN p = 1..(Len(q) + 1) /\ DOMAIN q = 1..Len(q)
        /\ Len(q) \in Nat /\ p[1] = d /\ \A i \in 1..Len(q) : p[i + 1] = q[i]
    OBVIOUS
  <2> HIDE DEF p
  <2>3. CASE <<d, r>> \in DOMAIN files
    <3>1. 1 \in DOMAIN p /\ HitAt(p, files, r, 1)
      BY <2>2, <2>3 DEF HitAt
    <3>2. \A j \in DOMAIN p : ~(j < 1)
      BY <2>2
    <3>3. FirstIn(p, files, r) = files[<<p[1], r>>]
      BY <2>2, <3>1, <3>2, FirstIs
    <3> QED
      BY <2>1, <2>2, <2>3, <3>3
  <2>4. CASE <<d, r>> \notin DOMAIN files
    <3>1. ~HitAt(p, files, r, 1)
      BY <2>2, <2>4 DEF HitAt
    <3>2. \A i \in 1..Len(q) : HitAt(p, files, r, i + 1) <=> HitAt(q, files, r, i)
      BY <2>2 DEF HitAt
    <3>3. \A j \in DOMAIN p : j = 1 \/ (j - 1 \in 1..Len(q) /\ j = (j - 1) + 1)
      BY <2>2
    <3>4. CASE \A i \in DOMAIN q : ~HitAt(q, files, r, i)
      <4>1. \A j \in DOMAIN p : ~HitAt(p, files, r, j)
        BY <2>2, <3>1, <3>2, <3>3, <3>4
      <4>2. FirstIn(p, files, r) = NoFile /\ FirstIn(q, files, r) = NoFile
        BY <2>2, <3>4, <4>1, FirstNone
      <4> QED
        BY <2>1, <2>2, <2>4, <4>2
    <3>5. CASE \E i \in DOMAIN q : HitAt(q, files, r, i)
      <4> DEFINE H == {i \in DOMAIN q : HitAt(q, files, r, i)}
      <4>1. H \in SUBSET Nat /\ H # {}
        BY <2>2, <3>5
      <4>2. PICK i \in H : \A k \in H : i <= k
        BY <4>1, NatMin
      <4>3. i \in 1..Len(q) /\ HitAt(q, files, r, i) /\ \A k \in DOMAIN q : k < i => ~HitAt(q, files, r, k)
        <5>1. \A k \in DOMAIN q : HitAt(q, files, r, k) => i <= k
          BY <4>2
        <5> QED
          BY <2>2, <4>2, <5>1
      <4> HIDE DEF H
      <4>4. FirstIn(q, files, r) = files[<<q[i], r>>]
        BY <2>2, <4>3, FirstIs
      <4>5. i + 1 \in DOMAIN p /\ HitAt(p, files, r, i + 1)
        BY <2>2, <3>2, <4>3
      <4>6. \A j \in DOMAIN p : j < i + 1 => ~HitAt(p, files, r, j)
        <5> SUFFICES ASSUME NEW j \in DOMAIN p, j < i + 1 PROVE ~HitAt(p, files, r, j)
          OBVIOUS
        <5>1. CASE j = 1
          BY <3>1, <5>1
        <5>2. CASE j - 1 \in 1..Len(q) /\ j = (j - 1) + 1
          <6> DEFINE k == j - 1
          <6>1. k \in DOMAIN q /\ k < i /\ j = k + 1
            BY <2>2, <4>3, <5>2
          <6> HIDE DEF k
          <6>2. ~HitAt(q, files, r, k)
            BY <4>3, <6>1
          <6>3. ~HitAt(p, files, r, k + 1)
            BY <2>2, <3>2, <6>1, <6>2
          <6> QED
            BY <6>1, <6>3
        <5> QED
          BY <3>3, <5>1, <5>2
      <4>7. FirstIn(p, files, r) = files[<<p[i + 1], r>>]
        BY <2>2, <4>5, <4>6, FirstIs
      <4> QED
        BY <2>1, <2>2, <2>4, <4>3, <4>4, <4>7
    <3> QED
      BY <3>4, <3>5
  <2> QED
    BY <2>3, <2>4
<1> QED
  BY <1>1, <1>2

-----------------------------------------------------------------------------

(* Lookup in the product's directories, by the place that is found first.   *)
LEMMA HeaderLookup ==
  ASSUME NEW t \in target_t, NEW r
  PROVE  \A m \in 1..3 : FirstHit(headers, t, r, m) =>
                         Lookup(headers, t, r) = headers[<<SearchPath(t)[m], r>>]
  BY LookupFirst DEF FirstHit, Hit

(* The flags of a wrapper find what Lookup finds in the directories.        *)
LEMMA IncludesIs ==
  ASSUME included = Holders, NEW t \in target_t, NEW r
  PROVE  FirstIn(IncludeFlags(t), headers, r) = Lookup(headers, t, r)
<1> DEFINE p1 == SearchPath(t)[1]
           p2 == SearchPath(t)[2]
           p3 == SearchPath(t)[3]
           nil == << >>
           In3 == IfThere(p3, included) \o nil
           In2 == IfThere(p2, included) \o In3
           In1 == IfThere(p1, included) \o In2
<1>1. 1 \in 1..3 /\ 2 \in 1..3 /\ 3 \in 1..3
  OBVIOUS
<1>2. p1 \in target_t /\ p2 \in target_t /\ p3 \in target_t
  BY <1>1, PathParts
<1>3. \A d : <<d, r>> \in DOMAIN headers => d \in included
  BY DEF Holders
<1>4. IncludeFlags(t) = In1
  <2>1. IncludeFlags(t) = IfThere(p1, included) \o (IfThere(p2, included) \o IfThere(p3, included))
    BY DEF IncludeFlags
  <2>2. In3 = IfThere(p3, included)
    BY <1>2 DEF IfThere
  <2> HIDE DEF p1, p2, p3
  <2> QED
    BY <2>1, <2>2
<1>5. /\ Hit(headers, t, r, 1) <=> <<p1, r>> \in DOMAIN headers
      /\ Hit(headers, t, r, 2) <=> <<p2, r>> \in DOMAIN headers
      /\ Hit(headers, t, r, 3) <=> <<p3, r>> \in DOMAIN headers
  BY DEF Hit
<1>6. /\ FirstHit(headers, t, r, 1) => Lookup(headers, t, r) = headers[<<p1, r>>]
      /\ FirstHit(headers, t, r, 2) => Lookup(headers, t, r) = headers[<<p2, r>>]
      /\ FirstHit(headers, t, r, 3) => Lookup(headers, t, r) = headers[<<p3, r>>]
  <2>1. \A i \in 1..3 : FirstHit(headers, t, r, i) => Lookup(headers, t, r) = headers[<<SearchPath(t)[i], r>>]
    BY HeaderLookup
  <2> QED
    BY <1>1, <2>1
<1>7. (\A i \in 1..3 : ~Hit(headers, t, r, i)) => Lookup(headers, t, r) = NoFile
  BY LookupIs
<1>8. /\ FirstHit(headers, t, r, 1) <=> Hit(headers, t, r, 1)
      /\ FirstHit(headers, t, r, 2) <=> Hit(headers, t, r, 2) /\ ~Hit(headers, t, r, 1)
      /\ FirstHit(headers, t, r, 3) <=> Hit(headers, t, r, 3) /\ ~Hit(headers, t, r, 1) /\ ~Hit(headers, t, r, 2)
      /\ (\A i \in 1..3 : ~Hit(headers, t, r, i)) <=>
           ~Hit(headers, t, r, 1) /\ ~Hit(headers, t, r, 2) /\ ~Hit(headers, t, r, 3)
  <2>1. \A i \in 1..3 : i = 1 \/ i = 2 \/ i = 3
    OBVIOUS
  <2>2. ~(1 < 1) /\ 1 < 2 /\ ~(2 < 2) /\ ~(3 < 3) /\ 2 < 3 /\ 1 < 3 /\ ~(2 < 1) /\ ~(3 < 1) /\ ~(3 < 2)
    OBVIOUS
  <2> QED
    BY <1>1, <2>1, <2>2 DEF FirstHit
<1> HIDE DEF p1, p2, p3
<1>9. nil \in Seq(target_t) /\ FirstIn(nil, headers, r) = NoFile
  <2>1. nil \in Seq(target_t) /\ DOMAIN nil = {}
    OBVIOUS
  <2> HIDE DEF nil
  <2>2. \A j \in DOMAIN nil : ~HitAt(nil, headers, r, j)
    BY <2>1
  <2> QED
    BY <2>1, <2>2, FirstNone
<1> HIDE DEF nil
<1>10. /\ In3 \in Seq(target_t)
       /\ FirstIn(In3, headers, r) = IF <<p3, r>> \in DOMAIN headers THEN headers[<<p3, r>>] ELSE NoFile
  BY <1>2, <1>3, <1>9, FirstIfThere
<1> HIDE DEF In3
<1>11. /\ In2 \in Seq(target_t)
       /\ FirstIn(In2, headers, r)
            = IF <<p2, r>> \in DOMAIN headers THEN headers[<<p2, r>>] ELSE FirstIn(In3, headers, r)
  BY <1>2, <1>3, <1>10, FirstIfThere
<1> HIDE DEF In2
<1>12. FirstIn(In1, headers, r)
            = IF <<p1, r>> \in DOMAIN headers THEN headers[<<p1, r>>] ELSE FirstIn(In2, headers, r)
  BY <1>2, <1>3, <1>11, FirstIfThere
<1> HIDE DEF In1
<1> QED
  BY <1>4, <1>5, <1>6, <1>7, <1>8, <1>10, <1>11, <1>12

(* The directories of a target with a suffix, without it.                   *)
LEMMA PlainPath ==
  ASSUME NEW t \in target_t, t.suffix = "", NEW u \in target_t, Plain(u) = t, NEW i \in 1..3
  PROVE  Plain(SearchPath(u)[i]) = SearchPath(t)[i]
<1>1. u.arch = t.arch /\ u.sys = t.sys /\ u.sysver = t.sysver
  BY PlainIs
<1> DEFINE a == SearchPath(u)[i]
           b == SearchPath(t)[i]
<1>2. a \in target_t /\ b \in target_t /\ b.suffix = "" /\ a.arch = b.arch /\ a.sys = b.sys /\ a.sysver = b.sysver
  <2>0. \A v \in target_t :
          /\ SearchPath(v)[i] \in target_t
          /\ SearchPath(v)[i].sys = v.sys /\ SearchPath(v)[i].suffix = v.suffix
          /\ SearchPath(v)[i].arch = (IF i = 3 THEN "any" ELSE v.arch)
          /\ SearchPath(v)[i].sysver = (IF i = 1 THEN v.sysver ELSE "")
    BY PathParts
  <2>1. /\ a \in target_t /\ a.sys = u.sys
        /\ a.arch = (IF i = 3 THEN "any" ELSE u.arch) /\ a.sysver = (IF i = 1 THEN u.sysver ELSE "")
    BY <2>0
  <2>2. /\ b \in target_t /\ b.sys = t.sys /\ b.suffix = t.suffix
        /\ b.arch = (IF i = 3 THEN "any" ELSE t.arch) /\ b.sysver = (IF i = 1 THEN t.sysver ELSE "")
    BY <2>0
  <2> HIDE DEF a, b
  <2> QED
    BY <1>1, <2>1, <2>2
<1> HIDE DEF a, b
<1>3. Plain(a) \in target_t /\ Plain(b) = b /\ Plain(a).suffix = "" /\ b.suffix = ""
      /\ Plain(a).arch = b.arch /\ Plain(a).sys = b.sys /\ Plain(a).sysver = b.sysver
  <2>1. "" \in Word
    BY WordsApart
  <2>2. Plain(a) \in target_t
    BY <1>2, <2>1 DEF Plain, target_t
  <2> QED
    BY <1>2, <2>2, PlainIs
<1>4. Plain(a) = b
  <2> DEFINE c == Plain(a)
  <2>1. c = [arch |-> c.arch, sys |-> c.sys, sysver |-> c.sysver, suffix |-> c.suffix]
    BY <1>3 DEF target_t
  <2>2. b = [arch |-> b.arch, sys |-> b.sys, sysver |-> b.sysver, suffix |-> b.suffix]
    BY <1>2 DEF target_t
  <2> HIDE DEF c
  <2>3. c.arch = b.arch /\ c.sys = b.sys /\ c.sysver = b.sysver /\ c.suffix = b.suffix
    BY <1>3 DEF c
  <2>4. c = b
    BY <2>1, <2>2, <2>3
  <2> QED
    BY <2>4 DEF c
<1> QED
  BY <1>4 DEF a, b

-----------------------------------------------------------------------------

(* The files of the tree are of targets with a suffix or without.           *)
TreeIs == \A y \in DOMAIN tree : y = <<y[1], y[2]>> /\ y[1] \in target_t /\ y[1].suffix \in {"", "libc"}

(* A header that is found after the merge is one of the tree, in the same   *)
(* place of the path of the target with that suffix.                        *)
Brought(hs, fs, t, r, i) ==
  \E y \in DOMAIN fs : /\ Plain(y[1]) = SearchPath(t)[i] /\ y[2] = r /\ y[1].sys = t.sys
                       /\ hs[<<SearchPath(t)[i], r>>] = fs[y]

LEMMA CarriedFrom ==
  ASSUME Carried(headers, tree), TreeIs, NEW t \in target_t, t.suffix = "", NEW r, NEW i \in 1..3,
         Hit(headers, t, r, i)
  PROVE  Brought(headers, tree, t, r, i)
<1> DEFINE p == SearchPath(t)[i]
           z == <<p, r>>
<1>1. z \in DOMAIN headers
  BY DEF Hit
<1>2. p \in target_t /\ p.suffix = "" /\ p.sys = t.sys
  BY PathParts, ZenonT(60)
<1> HIDE DEF p
<1>3. PICK y \in DOMAIN tree : LandsAt(y, z) /\ headers[z] = tree[y]
  BY <1>1 DEF Carried
<1>4. y = <<y[1], y[2]>> /\ y[1] \in target_t
  BY DEF TreeIs
<1>5. Plain(y[1]) = p /\ y[2] = r
  <2>1. CASE z = y
    <3>1. y[1] = p /\ y[2] = r
      BY <2>1
    <3> QED
      BY <1>2, <3>1, PlainIs
  <2>2. CASE z = <<Plain(y[1]), y[2]>>
    BY <2>2
  <2> QED
    BY <1>3, <2>1, <2>2 DEF LandsAt
<1>6. y[1].sys = t.sys
  <2>1. Plain(y[1]).sys = y[1].sys
    BY <1>4, PlainIs
  <2> QED
    BY <1>2, <1>5, <2>1
<1> QED
  BY <1>3, <1>5, <1>6 DEF p, Brought

(* If the tree has a header with one suffix, the target finds it where the  *)
(* target with that suffix found it.                                        *)
LEMMA CarriedHits ==
  ASSUME Carried(headers, tree), Unmixed(tree), Suffixed = {}, TreeIs,
         NEW t \in target_t, t.suffix = "", NEW u \in target_t, Plain(u) = t,
         NEW r, NEW k \in 1..3, Hit(tree, u, r, k), NEW i \in 1..3
  PROVE  /\ Hit(headers, t, r, i) <=> Hit(tree, u, r, i)
         /\ Hit(headers, t, r, i) =>
              headers[<<SearchPath(t)[i], r>>] = tree[<<SearchPath(u)[i], r>>]
<1> DEFINE a == SearchPath(u)[i]
           p == SearchPath(t)[i]
           w == <<SearchPath(u)[k], r>>
<1>1. u.sys = t.sys
  BY PlainIs
<1>2. a \in target_t /\ a.suffix = u.suffix /\ Plain(a) = p
  BY PathParts, PlainPath, ZenonT(60)
<1>3. w \in DOMAIN tree /\ w[1].sys = t.sys /\ w[1].suffix = u.suffix /\ w[2] = r
  <2>1. SearchPath(u)[k].sys = u.sys /\ SearchPath(u)[k].suffix = u.suffix
    BY PathParts
  <2> QED
    BY <1>1, <2>1 DEF Hit
<1>4. Hit(tree, u, r, i) <=> <<a, r>> \in DOMAIN tree
  BY DEF Hit
<1>5. Hit(headers, t, r, i) <=> <<p, r>> \in DOMAIN headers
  BY DEF Hit
<1>6. ASSUME Hit(headers, t, r, i) PROVE <<a, r>> \in DOMAIN tree /\ headers[<<p, r>>] = tree[<<a, r>>]
  <2>1. PICK y \in DOMAIN tree : /\ Plain(y[1]) = p /\ y[2] = r /\ y[1].sys = t.sys
                                 /\ headers[<<p, r>>] = tree[y]
    <3>1. Brought(headers, tree, t, r, i)
      BY <1>6, CarriedFrom
    <3> QED
      BY <3>1 DEF Brought
  <2> HIDE DEF a, p, w
  <2>2. y[1].suffix = a.suffix
    BY <1>2, <1>3, <2>1 DEF Unmixed
  <2>3. y = <<y[1], y[2]>> /\ y[1] \in target_t
    BY DEF TreeIs
  <2>4. y[1] = a
    BY <1>2, <2>1, <2>2, <2>3, PlainOnce
  <2> QED
    BY <2>1, <2>3, <2>4
<1>7. ASSUME <<a, r>> \in DOMAIN tree PROVE <<p, r>> \in DOMAIN headers
  <2> DEFINE y == <<a, r>>
  <2>1. y \in DOMAIN tree /\ y[1] = a /\ y[2] = r
    BY <1>7
  <2> HIDE DEF a, p, w, y
  <2>2. PICK x \in DOMAIN headers : LandsAt(y, x)
    BY <2>1 DEF Carried
  <2>3. x[1].suffix = ""
    BY DEF Suffixed, Holders
  <2>4. CASE x = y
    <3>1. Plain(a) = a
      BY <1>2, <2>1, <2>3, <2>4, PlainIs
    <3>2. x = <<p, r>>
      BY <1>2, <2>4, <3>1 DEF y
    <3> QED
      BY <3>2
  <2>5. CASE x = <<Plain(y[1]), y[2]>>
    BY <1>2, <2>1, <2>5
  <2> QED
    BY <2>2, <2>4, <2>5 DEF LandsAt
<1> QED
  BY <1>4, <1>5, <1>6, <1>7

(* And so it finds the same one.                                            *)
LEMMA CarriedLookup ==
  ASSUME Carried(headers, tree), Unmixed(tree), Suffixed = {}, TreeIs,
         NEW t \in target_t, t.suffix = "", NEW u \in target_t, Plain(u) = t,
         NEW r, NEW k \in 1..3, Hit(tree, u, r, k)
  PROVE  Lookup(headers, t, r) = Lookup(tree, u, r)
<1>1. PICK i \in 1..3 : FirstHit(tree, u, r, i)
  BY LookupIs
<1>2. \A j \in 1..3 : Hit(headers, t, r, j) <=> Hit(tree, u, r, j)
  BY CarriedHits
<1>3. FirstHit(headers, t, r, i)
  BY <1>1, <1>2 DEF FirstHit
<1>4. Lookup(headers, t, r) = headers[<<SearchPath(t)[i], r>>]
  <2>1. \A m \in 1..3 : FirstHit(headers, t, r, m) => Lookup(headers, t, r) = headers[<<SearchPath(t)[m], r>>]
    BY HeaderLookup
  <2> QED
    BY <1>3, <2>1
<1>5. Lookup(tree, u, r) = tree[<<SearchPath(u)[i], r>>]
  <2>1. \A m \in 1..3 : FirstHit(tree, u, r, m) => Lookup(tree, u, r) = tree[<<SearchPath(u)[m], r>>]
    BY TreeLookup
  <2> QED
    BY <1>1, <2>1
<1>6. headers[<<SearchPath(t)[i], r>>] = tree[<<SearchPath(u)[i], r>>]
  <2>1. Hit(headers, t, r, i)
    BY <1>3 DEF FirstHit
  <2> QED
    BY <2>1, CarriedHits
<1> QED
  BY <1>4, <1>5, <1>6

(* What neither target found is not found.                                  *)
LEMMA CarriedNone ==
  ASSUME Carried(headers, tree), TreeIs, NEW t \in target_t, t.suffix = "",
         NEW u \in target_t, Plain(u) = t, u.suffix = "libc", NEW r,
         \A i \in 1..3 : ~Hit(tree, t, r, i) /\ ~Hit(tree, u, r, i)
  PROVE  Lookup(headers, t, r) = NoFile
<1> SUFFICES ASSUME NEW i \in 1..3, Hit(headers, t, r, i) PROVE FALSE
  BY LookupIs
<1> DEFINE a == SearchPath(u)[i]
           p == SearchPath(t)[i]
<1>1. a \in target_t /\ a.suffix = "libc" /\ Plain(a) = p
  <2>1. a \in target_t /\ a.suffix = u.suffix
    BY PathParts
  <2>2. Plain(a) = p
    BY PlainPath
  <2> QED
    BY <2>1, <2>2
<1>2. p \in target_t /\ p.suffix = ""
  BY PathParts
<1>3. PICK y \in DOMAIN tree : Plain(y[1]) = p /\ y[2] = r
  <2>1. Brought(headers, tree, t, r, i)
    BY CarriedFrom
  <2> QED
    BY <2>1 DEF Brought
<1>4. y = <<y[1], y[2]>> /\ y[1] \in target_t /\ y[1].suffix \in {"", "libc"}
  BY DEF TreeIs
<1>5. y \in DOMAIN tree => (y # <<p, r>> /\ y # <<a, r>>)
  BY DEF Hit
<1> HIDE DEF a, p
<1>6. CASE y[1].suffix = ""
  <2>1. y[1] = p
    BY <1>3, <1>4, <1>6, PlainIs
  <2> QED
    BY <1>3, <1>4, <1>5, <2>1
<1>7. CASE y[1].suffix = "libc"
  <2>1. y[1] = a
    BY <1>1, <1>3, <1>4, <1>7, PlainOnce
  <2> QED
    BY <1>3, <1>4, <1>5, <2>1
<1> QED
  BY <1>4, <1>6, <1>7

-----------------------------------------------------------------------------

(* The elements of a concatenation.                                         *)
LEMMA InConcat ==
  ASSUME NEW S, NEW p \in Seq(S), NEW q \in Seq(S)
  PROVE  p \o q \in Seq(S) /\ \A x : x \in ToSet(p) \/ x \in ToSet(q) => x \in ToSet(p \o q)
<1>1. /\ p \o q \in Seq(S) /\ DOMAIN p = 1..Len(p) /\ DOMAIN q = 1..Len(q)
      /\ DOMAIN (p \o q) = 1..(Len(p) + Len(q)) /\ Len(p) \in Nat /\ Len(q) \in Nat
      /\ \A i \in 1..Len(p) : (p \o q)[i] = p[i]
      /\ \A i \in 1..Len(q) : (p \o q)[Len(p) + i] = q[i]
  OBVIOUS
<1> DEFINE s == p \o q
           n == Len(p)
<1> HIDE DEF s, n
<1>2. \A x : x \in ToSet(p) => x \in ToSet(s)
  <2> SUFFICES ASSUME NEW i \in 1..Len(p) PROVE \E j \in DOMAIN s : s[j] = p[i]
    BY <1>1 DEF ToSet
  <2>1. i \in DOMAIN s /\ s[i] = p[i]
    BY <1>1 DEF s, n
  <2> QED
    BY <2>1
<1>3. \A x : x \in ToSet(q) => x \in ToSet(s)
  <2> SUFFICES ASSUME NEW i \in 1..Len(q) PROVE \E j \in DOMAIN s : s[j] = q[i]
    BY <1>1 DEF ToSet
  <2>1. n + i \in DOMAIN s /\ s[n + i] = q[i]
    BY <1>1 DEF s, n
  <2> QED
    BY <2>1
<1> QED
  BY <1>1, <1>2, <1>3 DEF s

(* A directory that is there is on the path.                                *)
LEMMA ThereIs ==
  ASSUME NEW d \in target_t, NEW there
  PROVE  IfThere(d, there) \in Seq(target_t) /\ (d \in there => d \in ToSet(IfThere(d, there)))
  BY DEF IfThere, ToSet

(* The wrapper of a target has the directory with the library of its        *)
(* version.                                                                 *)
LEMMA LibFound ==
  ASSUME NEW t \in DistTargets, NEW l \in LibTargets, l.sys = t.sys, l.sysver = t.sysver, l \in libs
  PROVE  l \in ToSet(LibFlags(t))
<1>1. t \in target_t /\ t.suffix = "" /\ l \in target_t /\ l.arch = "any" /\ l.suffix = ""
  BY DistAssumption
<1>2. /\ l = [arch |-> "any", sys |-> t.sys, sysver |-> t.sysver, suffix |-> ""]
      /\ t = [arch |-> t.arch, sys |-> t.sys, sysver |-> t.sysver, suffix |-> ""]
  BY <1>1 DEF target_t
<1> DEFINE a == [t EXCEPT !.arch = "any"]
           b == [t EXCEPT !.sysver = ""]
           c == TargetT("any", t.sys, "", "")
           la == IfThere(a, libs)
           lb == IfThere(b, libs)
           lc == IfThere(c, libs)
           nil == << >>
<1>3. a \in target_t /\ b \in target_t /\ c \in target_t
  <2>1. "" \in Word /\ "any" \in Word
    BY WordsApart
  <2> QED
    BY <1>1, <2>1 DEF target_t, TargetT
<1>4. (t.sysver # "" => l = a) /\ (t.sysver = "" => l = c)
  BY <1>1, <1>2 DEF TargetT
<1>5. LibFlags(t) = (IF t.sysver = "" THEN nil ELSE la \o lb) \o lc
  BY DEF LibFlags
<1> HIDE DEF a, b, c
<1>6. /\ la \in Seq(target_t) /\ (a \in libs => a \in ToSet(la))
      /\ lb \in Seq(target_t)
      /\ lc \in Seq(target_t) /\ (c \in libs => c \in ToSet(lc))
  BY <1>3, ThereIs
<1>7. nil \in Seq(target_t)
  OBVIOUS
<1> HIDE DEF la, lb, lc, nil
<1>8. CASE t.sysver = ""
  <2>1. l \in ToSet(lc)
    BY <1>4, <1>6, <1>8
  <2>2. l \in ToSet(nil \o lc)
    BY <1>6, <1>7, <2>1, InConcat
  <2> QED
    BY <1>5, <1>8, <2>2
<1>9. CASE t.sysver # ""
  <2>1. l \in ToSet(la)
    BY <1>4, <1>6, <1>9
  <2>2. la \o lb \in Seq(target_t) /\ l \in ToSet(la \o lb)
    BY <1>6, <2>1, InConcat
  <2>3. l \in ToSet((la \o lb) \o lc)
    BY <1>6, <2>2, InConcat
  <2> QED
    BY <1>5, <1>9, <2>3
<1> QED
  BY <1>8, <1>9

(* What a target of the product finds in the merged directories.            *)
LEMMA HeadersServe ==
  ASSUME TypeInv, before \in Layouts, Orderly(before), Complete(before), ViewInv, ~mvFailed, pc = "done",
         Carried(headers, tree), Suffixed = {}, NEW t \in DistTargets, NEW r,
         Provided(t, r) # NoFile \/ t.sysver # ""
  PROVE  Lookup(headers, t, r) = Provided(t, r)
<1> DEFINE u == [t EXCEPT !.suffix = "libc"]
<1>1. t \in target_t /\ t.suffix = "" /\ (t.sysver # "" => t \in ToSet(SupportedTargets))
  BY DistAssumption
<1>2. u \in target_t /\ u.suffix = "libc" /\ Plain(u) = t /\ u.sysver = t.sysver
  <2>1. "libc" \in Word
    BY WordsApart
  <2> QED
    BY <1>1, <2>1 DEF Plain, target_t
<1>3. Provided(t, r) = IF Lookup(before, t, r) # NoFile THEN Lookup(before, t, r) ELSE Lookup(before, u, r)
  BY DEF Provided
<1> HIDE DEF u
<1>4. Unmixed(tree) /\ TreeIs
  <2>1. \A y \in DOMAIN tree : y = <<y[1], y[2]>> /\ y[1] \in target_t
    BY TreeTyped
  <2>2. \A y \in DOMAIN tree : y[1].suffix \in {"", "libc"}
    BY TreeSuffix
  <2> QED
    BY <2>1, <2>2, TreeUnmixed DEF TreeIs
<1>5. Plain(t) = t
  BY <1>1, PlainIs
<1>6. ASSUME NEW v \in {t, u}, Lookup(before, v, r) # NoFile
      PROVE  Lookup(headers, t, r) = Lookup(before, v, r)
  <2>1. v \in target_t /\ Plain(v) = t
    BY <1>1, <1>2, <1>5
  <2>2. Lookup(tree, v, r) = Lookup(before, v, r)
    BY <1>6, <2>1, Found
  <2>3. \E k \in 1..3 : Hit(tree, v, r, k)
    BY <1>6, <2>2, LookupIs
  <2>4. Lookup(headers, t, r) = Lookup(tree, v, r)
    BY <1>1, <1>4, <2>1, <2>3, CarriedLookup
  <2> QED
    BY <2>2, <2>4
<1>7. CASE Lookup(before, t, r) # NoFile
  BY <1>3, <1>6, <1>7
<1>8. CASE Lookup(before, t, r) = NoFile /\ Lookup(before, u, r) # NoFile
  BY <1>3, <1>6, <1>8
<1>9. CASE Lookup(before, t, r) = NoFile /\ Lookup(before, u, r) = NoFile
  <2>1. Provided(t, r) = NoFile /\ t.sysver # ""
    BY <1>3, <1>9
  <2>2. t \in ToSet(SupportedTargets)
    BY <1>1, <2>1
  <2>3. \A i \in 1..3 : ~Hit(tree, t, r, i)
    BY <1>1, <1>5, <1>9, <2>1, <2>2, NoLeak DEF Plain
  <2>4. \A i \in 1..3 : ~Hit(tree, u, r, i)
    BY <1>2, <1>9, <2>1, <2>2, NoLeak DEF Plain
  <2>5. Lookup(headers, t, r) = NoFile
    BY <1>1, <1>2, <1>4, <2>3, <2>4, CarriedNone
  <2> QED
    BY <2>1, <2>5
<1> QED
  BY <1>7, <1>8, <1>9

(* If the script succeeds, bin/clang-TARGET includes, for every target of   *)
(* the product and every header, the very file that sysroots/include has    *)
(* for the target, with or without -libc: neither the consolidation nor     *)
(* the merge of the -libc directories nor the choice of the directories     *)
(* that are there lets another one come first, and a target with a version  *)
(* sees no header of another version. It searches the directory with the    *)
(* library of its version, unless a copy in the background has failed. For  *)
(* all orderly and complete layouts and any failures.                       *)
THEOREM WrappersServeAlways == DistSpec => [](Orderly(before) /\ Complete(before) => WrappersServe)
<1>1. /\ TypeInv /\ before \in Layouts /\ (Orderly(before) => ViewInv)
      /\ (Orderly(before) /\ Complete(before) => OnceInv)
      /\ LibsInv /\ (Orderly(before) => HeadersInv)
      => (Orderly(before) /\ Complete(before) => WrappersServe)
  <2> SUFFICES ASSUME TypeInv, before \in Layouts, ViewInv, OnceInv, LibsInv, HeadersInv,
                      Orderly(before), Complete(before), stage = "done", NEW t \in DistTargets
               PROVE  /\ \A r \in Relpath :
                           Provided(t, r) # NoFile \/ t.sysver # "" => Includes(t, r) = Provided(t, r)
                      /\ \A l \in LibTargets :
                           l.sys = t.sys /\ l.sysver = t.sysver => l \in ToSet(wrapper[t].L) \/ lostJob
    BY DEF WrappersServe
  <2>1. pc = "done" /\ Carried(headers, tree) /\ Suffixed = {} /\ included = Holders
    BY DEF HeadersInv
  <2>2. ~mvFailed
    BY <2>1 DEF OnceInv, Well
  <2>3. wrapper[t].I = IncludeFlags(t) /\ wrapper[t].L = LibFlags(t)
    BY DEF LibsInv
  <2>4. t \in target_t
    BY DistAssumption
  <2>5. ASSUME NEW r \in Relpath, Provided(t, r) # NoFile \/ t.sysver # ""
        PROVE  Includes(t, r) = Provided(t, r)
    <3>1. Includes(t, r) = FirstIn(IncludeFlags(t), headers, r)
      BY <2>3 DEF Includes, FirstIn
    <3>2. FirstIn(IncludeFlags(t), headers, r) = Lookup(headers, t, r)
      BY <2>1, <2>4, IncludesIs
    <3>3. Lookup(headers, t, r) = Provided(t, r)
      BY <2>1, <2>2, <2>5, HeadersServe
    <3> QED
      BY <3>1, <3>2, <3>3
  <2>6. ASSUME NEW l \in LibTargets, l.sys = t.sys, l.sysver = t.sysver, ~lostJob
        PROVE  l \in ToSet(wrapper[t].L)
    <3>1. l \in libs
      BY <2>6 DEF LibsInv
    <3> QED
      BY <2>3, <2>6, <3>1, LibFound
  <2> QED
    BY <2>5, <2>6
<1> QED
  BY <1>1, DistRuns, DistAlways, TypeCorrect, BeforeIs, ViewAlways, OnceAlways, PTL
=============================================================================
