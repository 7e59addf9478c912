------------------------------ MODULE Lib_proof ------------------------------
(***************************************************************************)
(* llvmboxlib.c for all sizes: lists have room for their elements, what the *)
(* bump allocator has handed out does not overlap, sorted sets are sorted and*)
(* searched right, SHA-256 is given the whole message and its padding,      *)
(* path_cleann keeps where a path leads, check_dir_args finds one path in the*)
(* other, and target_parse reads back what target_str writes.               *)
(***************************************************************************)
EXTENDS Arrays, Sha256Stream, Names, Induction_proof

(* Inductive: a list that has grown has at least the first capacity, so     *)
(* that doubling it makes room for any request.                             *)
ListInv ==
  kind = "list" =>
    /\ cap \in Nat /\ Len(v) \in Nat
    /\ Len(v) <= cap
    /\ cap = 0 \/ cap >= FirstCap

(* A list that grows has room for what it grows for.                        *)
LEMMA GrownEnough ==
  ASSUME NEW n \in Requests, ListInv, kind = "list", ~Enough(n)
  PROVE  LET c == GrownCap(Len(v) + n - cap)
         IN c \in Nat /\ c >= FirstCap /\ Len(v) + n <= c
BY ArraysAssumption DEF ListInv, Enough, GrownCap

LEMMA AllocStep == ListInv /\ array_alloc => ListInv'
<1> SUFFICES ASSUME ListInv, array_alloc PROVE ListInv'
  OBVIOUS
<1>1. PICK n \in Requests : Reserve(n, [i \in 1..(Len(v) + n) |-> 0])
  BY DEF array_alloc
<1>2. /\ kind = "list" /\ kind' = "list" /\ n \in Nat
      /\ cap \in Nat /\ Len(v) \in Nat /\ Len(v) <= cap /\ (cap = 0 \/ cap >= FirstCap)
  BY ArraysAssumption DEF array_alloc, ListInv
<1> DEFINE new == [i \in 1..(Len(v) + n) |-> 0]
           c == GrownCap(Len(v) + n - cap)
<1>3. Len(new) = Len(v) + n
  BY <1>2
<1>4. \/ v' = new /\ cap' = cap /\ Enough(n)
      \/ v' = new /\ cap' = c /\ ~Enough(n)
      \/ v' = v /\ cap' = cap
  BY <1>1 DEF Reserve
<1> HIDE DEF new
<1>5. CASE v' = new /\ cap' = cap /\ Enough(n)
  BY <1>2, <1>3, <1>5 DEF Enough, ListInv
<1>6. CASE v' = new /\ cap' = c /\ ~Enough(n)
  <2>1. c \in Nat /\ c >= FirstCap /\ Len(v) + n <= c
    BY <1>2, <1>6, GrownEnough
  <2> HIDE DEF c
  <2> QED
    BY <1>2, <1>3, <1>6, <2>1 DEF ListInv
<1>7. CASE v' = v /\ cap' = cap
  BY <1>2, <1>7 DEF ListInv
<1> QED
  BY <1>4, <1>5, <1>6, <1>7

(* However many elements a tool asks for at a time, as long as a first      *)
(* block has room for them, and whether realloc fails, a list has the room. *)
THEOREM ListRoom == ArraySpec => [](kind = "list" => Room)
<1>1. ArrayInit => ListInv
  BY DEF ArrayInit, ListInv
<1>2. ListInv /\ [ArrayNext]_arrayVars => ListInv'
  <2> SUFFICES ASSUME ListInv, [ArrayNext]_arrayVars PROVE ListInv'
    OBVIOUS
  <2>1. CASE array_alloc
    BY <2>1, AllocStep
  <2>2. CASE \E x \in Values : array_sorted_assign(x)
    BY <2>2 DEF array_sorted_assign, ListInv
  <2>3. CASE UNCHANGED arrayVars
    BY <2>3 DEF arrayVars, ListInv
  <2> QED
    BY <2>1, <2>2, <2>3 DEF ArrayNext
<1>3. ListInv => (kind = "list" => Room)
  BY DEF ListInv, Room
<1> QED
  BY <1>1, <1>2, <1>3, PTL DEF ArraySpec

-----------------------------------------------------------------------------
BumpInv ==
  /\ next \in Nat /\ live \subseteq [at : Nat, size : Nat]
  /\ Disjoint

LEMMA Aligned == ASSUME NEW n \in Nat PROVE Align(n) \in Nat /\ Align(n) >= n
BY DEF Align

(* The allocation that is carved off lies beyond all others.                *)
LEMMA CarveStep ==
  ASSUME NEW n \in Nat, NEW size \in Nat, size <= n, BumpInv, Carve(n, size)
  PROVE  BumpInv'
<1>1. next \in Nat /\ BlockSize \in Nat /\ next <= BlockSize
  BY BumpAssumption DEF BumpInv, Disjoint
<1>2. CASE next + Align(n) <= BlockSize
  <2> DEFINE new == [at |-> next, size |-> size]
  <2>1. next' = Resized(next, n, size) /\ live' = live \cup {new}
    BY <1>2 DEF Carve
  <2>2. next' \in Nat /\ next + size <= next' /\ next' <= BlockSize
    BY <1>1, <1>2, <2>1, Aligned DEF Resized
  <2>3. new \in [at : Nat, size : Nat] /\ new.at = next /\ new.size = size
    BY <1>1
  <2> HIDE DEF new
  <2>4. \A a \in live : a.at \in Nat /\ a.size \in Nat /\ a.at + a.size <= next
    BY DEF BumpInv, Disjoint
  <2>5. \A a \in live' : a.at >= 0 /\ a.at + a.size <= next'
    BY <1>1, <2>1, <2>2, <2>3, <2>4
  <2>6. \A a, b \in live' :
          a = b \/ a.at + a.size <= b.at \/ b.at + b.size <= a.at
    BY <2>1, <2>3, <2>4 DEF BumpInv, Disjoint
  <2> QED
    BY <2>1, <2>2, <2>3, <2>5, <2>6 DEF BumpInv, Disjoint
<1>3. CASE ~(next + Align(n) <= BlockSize)
  <2>1. next' = BlockSize /\ live' = live
    BY <1>3 DEF Carve
  <2>2. \A a \in live : a.at \in Nat /\ a.size \in Nat /\ a.at + a.size <= next
    BY DEF BumpInv, Disjoint
  <2> QED
    BY <1>1, <2>1, <2>2 DEF BumpInv, Disjoint
<1> QED
  BY <1>2, <1>3

(* For every block, and whatever is copied into it and given back, no two   *)
(* strings overlap.                                                         *)
THEOREM DisjointAlways == BumpSpec => []Disjoint
<1>1. BumpInit => BumpInv
  BY BumpAssumption DEF BumpInit, BumpInv, Disjoint
<1>2. BumpInv /\ [BumpNext]_bumpVars => BumpInv'
  <2> SUFFICES ASSUME BumpInv, [BumpNext]_bumpVars PROVE BumpInv'
    OBVIOUS
  <2>1. CASE bumpalloc_strdup
    <3>1. PICK n \in Strings : Carve(n + 1, n + 1)
      BY <2>1 DEF bumpalloc_strdup
    <3>2. n + 1 \in Nat
      BY BumpAssumption
    <3> QED
      BY <3>1, <3>2, CarveStep
  <2>2. CASE path_join_dup
    <3>1. PICK n \in Strings \cup {-1} : n < PathMax /\ Carve(PathMax, n + 1)
      BY <2>2 DEF path_join_dup
    <3>2. PathMax \in Nat /\ n + 1 \in Nat /\ n + 1 <= PathMax
      BY <3>1, BumpAssumption
    <3> QED
      BY <3>1, <3>2, CarveStep
  <2>3. CASE reset
    BY <2>3, BumpAssumption DEF reset, BumpInv, Disjoint
  <2>4. CASE UNCHANGED bumpVars
    BY <2>4 DEF bumpVars, BumpInv, Disjoint
  <2> QED
    BY <2>1, <2>2, <2>3, <2>4 DEF BumpNext
<1>3. BumpInv => Disjoint
  BY DEF BumpInv
<1> QED
  BY <1>1, <1>2, <1>3, PTL DEF BumpSpec

-----------------------------------------------------------------------------

(* The elements of a set are in the order of cmpf, none twice.              *)
Ascending == \A i, j \in DOMAIN v : i < j => v[i] < v[j]

(* What the search answers.                                                 *)
Answers == [found : BOOLEAN, at : Nat]

(* The elements before low are smaller than x and those from high on        *)
(* greater.                                                                 *)
Around(x, low, high) ==
  /\ low <= high
  /\ \A i \in 1..low : v[i] < x
  /\ \A i \in (high + 1)..Len(v) : x < v[i]

(* x is at this place, or goes there.                                       *)
Right(x, a) ==
  IF a.found THEN a.at < Len(v) /\ v[a.at + 1] = x
  ELSE a.at <= Len(v) /\ Around(x, a.at, a.at)

(* The middle of an interval lies in it.                                    *)
LEMMA Middle ==
  ASSUME NEW low \in Nat, NEW high \in Nat, low < high
  PROVE  LET mid == (low + high) \div 2 IN mid \in Nat /\ low <= mid /\ mid < high
OBVIOUS

(* The halves of a range are smaller, and x is searched for in the one that *)
(* it must be in.                                                           *)
LEMMA SearchRight ==
  ASSUME NEW x \in Nat, v \in Seq(Nat), Ascending
  PROVE  Search(x) \in Answers /\ Right(x, Search(x))
<1> DEFINE n == Len(v)
           D == (0..n) \X (0..n)
           Body(f, r) ==
             LET low == r[1]
                 high == r[2]
                 mid == (low + high) \div 2
             IN IF low >= high THEN [found |-> FALSE, at |-> low]
                ELSE IF x = v[mid + 1] THEN [found |-> TRUE, at |-> mid]
                ELSE IF x < v[mid + 1] THEN f[<<low, mid>>]
                ELSE f[<<mid + 1, high>>]
           Z == Answers
           find == CHOOSE f : f = [r \in D |-> Body(f, r)]
           G == [y \in D \X [D -> Z] |-> Body(y[2], y[1])]
           size == [r \in D |-> IF r[1] < r[2] THEN r[2] - r[1] ELSE 0]
<1>1. n \in Nat /\ DOMAIN v = 1..n /\ \A i \in 1..n : v[i] \in Nat
  OBVIOUS
<1>2. Search(x) = find[<<0, n>>]
  BY DEF Search
<1>. HIDE DEF n
<1>3. ASSUME NEW r \in D
      PROVE  /\ r[1] \in 0..n /\ r[2] \in 0..n
             /\ r[1] < r[2] => LET mid == (r[1] + r[2]) \div 2
                               IN /\ mid \in Nat /\ r[1] <= mid /\ mid < r[2]
                                  /\ <<r[1], mid>> \in D /\ <<mid + 1, r[2]>> \in D
                                  /\ size[<<r[1], mid>>] < size[r]
                                  /\ size[<<mid + 1, r[2]>>] < size[r]
  <2>1. r[1] \in 0..n /\ r[2] \in 0..n /\ r[1] \in Nat /\ r[2] \in Nat
    BY <1>1
  <2>2. SUFFICES ASSUME r[1] < r[2]
               PROVE LET mid == (r[1] + r[2]) \div 2
                               IN /\ mid \in Nat /\ r[1] <= mid /\ mid < r[2]
                                  /\ <<r[1], mid>> \in D /\ <<mid + 1, r[2]>> \in D
                                  /\ size[<<r[1], mid>>] < size[r]
                                  /\ size[<<mid + 1, r[2]>>] < size[r]
    BY <2>1
  <2> DEFINE mid == (r[1] + r[2]) \div 2
  <2>3. mid \in Nat /\ r[1] <= mid /\ mid < r[2]
    BY <2>1, <2>2, Middle
  <2> HIDE DEF mid
  <2>4. <<r[1], mid>> \in D /\ <<mid + 1, r[2]>> \in D
    BY <1>1, <2>1, <2>2, <2>3
  <2>5. size[r] = r[2] - r[1]
    BY <2>2
  <2>6. size[<<r[1], mid>>] < size[r]
    BY <2>1, <2>2, <2>3, <2>4, <2>5
  <2>7. size[<<mid + 1, r[2]>>] < size[r]
    BY <2>1, <2>2, <2>3, <2>4, <2>5
  <2> QED
    BY <2>3, <2>4, <2>6, <2>7 DEF mid
<1>4. size \in [D -> 0..n]
  BY <1>1, <1>3
<1>5. ASSUME NEW r \in D, NEW f \in [D -> Z] PROVE Body(f, r) \in Z
  BY <1>1, <1>3, <1>5, SMTT(60) DEF Answers
<1>6. G \in [D \X [D -> Z] -> Z]
  <2> HIDE DEF Body, Z, D
  <2> QED
    BY <1>5
<1>7. ASSUME NEW r \in D, NEW f \in [D -> Z], NEW g \in [D -> Z],
             \A y \in D : size[y] < size[r] => f[y] = g[y]
      PROVE  G[<<r, f>>] = G[<<r, g>>]
  <2>1. Body(f, r) = Body(g, r)
    <3>1. CASE r[1] < r[2]
      <4> DEFINE mid == (r[1] + r[2]) \div 2
      <4>1. /\ <<r[1], mid>> \in D /\ <<mid + 1, r[2]>> \in D
            /\ size[<<r[1], mid>>] < size[r] /\ size[<<mid + 1, r[2]>>] < size[r]
        BY <1>3, <3>1
      <4>2. f[<<r[1], mid>>] = g[<<r[1], mid>>] /\ f[<<mid + 1, r[2]>>] = g[<<mid + 1, r[2]>>]
        BY <1>7, <4>1
      <4> QED
        BY <4>2
    <3>2. CASE ~(r[1] < r[2])
      <4>1. r[1] \in Nat /\ r[2] \in Nat /\ r[1] >= r[2]
        BY <1>1, <1>3, <3>2
      <4> QED
        BY <4>1
    <3> QED
      BY <3>1, <3>2
  <2> HIDE DEF Body, D, Z
  <2> QED
    BY <2>1
<1>8. Z # {}
  <2>1. [found |-> FALSE, at |-> 0] \in Answers
    BY DEF Answers
  <2> QED
    BY <2>1
<1>9. \E f \in [D -> Z] : Solves(f, G, D)
  <2> HIDE DEF G, D, Z, size
  <2>1. Shrinks(G, D, Z, size)
    BY <1>7 DEF Shrinks
  <2>2. size \in [D -> Nat]
    BY <1>4
  <2> QED
    BY <1>4, <1>6, <1>8, <2>1, <2>2, Recursion
<1>10. \A r \in D : find[r] = Body(find, r)
  <2>1. PICK f \in [D -> Z] : \A r \in D : f[r] = G[<<r, f>>]
    BY <1>9 DEF Solves
  <2> HIDE DEF Body, D, Z
  <2>2. f = [r \in D |-> Body(f, r)]
    BY <2>1
  <2>3. find = [r \in D |-> Body(find, r)]
    BY <2>2
  <2>. HIDE DEF find
  <2> QED
    BY <2>3, SMTT(60)
<1> DEFINE Good == {k \in Nat : \A r \in D : size[r] = k /\ Around(x, r[1], r[2]) =>
                                  find[r] \in Answers /\ Right(x, find[r])}
<1>. HIDE DEF find
<1>11. ASSUME NEW k \in Nat, \A m \in Nat : m < k => m \in Good PROVE k \in Good
  <2> SUFFICES ASSUME NEW r \in D, size[r] = k, Around(x, r[1], r[2])
               PROVE  find[r] \in Answers /\ Right(x, find[r])
    OBVIOUS
  <2>1. r[1] \in 0..n /\ r[2] \in 0..n /\ r[1] \in Nat /\ r[2] \in Nat
    BY <1>1, <1>3
  <2>2. find[r] = Body(find, r)
    BY <1>10
  <2>3. CASE ~(r[1] < r[2])
    <3>1. r[1] = r[2] /\ find[r] = [found |-> FALSE, at |-> r[1]]
      BY <2>1, <2>2, <2>3 DEF Around
    <3> QED
      BY <2>1, <3>1, <1>1 DEF Answers, Right, n
  <2>4. CASE r[1] < r[2]
    <3> DEFINE mid == (r[1] + r[2]) \div 2
    <3>1. /\ mid \in Nat /\ r[1] <= mid /\ mid < r[2]
          /\ <<r[1], mid>> \in D /\ <<mid + 1, r[2]>> \in D
          /\ size[<<r[1], mid>>] < k /\ size[<<mid + 1, r[2]>>] < k
      BY <1>3, <2>4
    <3>2. ~(r[1] >= r[2])
      BY <2>1, <2>4
    <3>3. find[r] = IF x = v[mid + 1] THEN [found |-> TRUE, at |-> mid]
                    ELSE IF x < v[mid + 1] THEN find[<<r[1], mid>>]
                    ELSE find[<<mid + 1, r[2]>>]
      BY <2>2, <3>2
    <3> HIDE DEF mid
    <3>4. mid + 1 \in 1..n /\ v[mid + 1] \in Nat
      BY <1>1, <2>1, <3>1
    <3>5. CASE x = v[mid + 1]
      BY <1>1, <2>1, <3>1, <3>3, <3>4, <3>5 DEF Answers, Right, n
    <3>6. CASE x < v[mid + 1]
      <4>1. Around(x, r[1], mid)
        <5>1. \A i \in (mid + 1)..n : v[mid + 1] <= v[i] /\ v[i] \in Nat
          <6> SUFFICES ASSUME NEW i \in (mid + 1)..n PROVE v[mid + 1] <= v[i] /\ v[i] \in Nat
            OBVIOUS
          <6>1. i \in 1..n /\ (i = mid + 1 \/ mid + 1 < i)
            BY <1>1, <3>1
          <6>2. v[i] \in Nat
            BY <1>1, <6>1
          <6>3. mid + 1 < i => v[mid + 1] < v[i]
            BY <1>1, <3>4, <6>1 DEF Ascending
          <6> QED
            BY <3>4, <6>1, <6>2, <6>3
        <5>2. \A i \in (mid + 1)..n : x < v[i]
          BY <3>4, <3>6, <5>1, SMTT(60)
        <5> QED
          BY <3>1, <5>2 DEF Around, n
      <4>2. size[<<r[1], mid>>] \in Nat
        BY <1>4, <3>1
      <4>3. find[r] = find[<<r[1], mid>>]
        BY <3>3, <3>4, <3>6
      <4> QED
        BY <1>11, <3>1, <4>1, <4>2, <4>3
    <3>7. CASE v[mid + 1] < x
      <4>1. Around(x, mid + 1, r[2])
        <5>1. \A i \in 1..(mid + 1) : v[i] <= v[mid + 1] /\ v[i] \in Nat
          <6> SUFFICES ASSUME NEW i \in 1..(mid + 1) PROVE v[i] <= v[mid + 1] /\ v[i] \in Nat
            OBVIOUS
          <6>1. i \in 1..n /\ (i = mid + 1 \/ i < mid + 1)
            BY <1>1, <3>1, <3>4, SMTT(60)
          <6>2. v[i] \in Nat
            BY <1>1, <6>1
          <6>3. i < mid + 1 => v[i] < v[mid + 1]
            BY <1>1, <3>4, <6>1 DEF Ascending
          <6> QED
            BY <3>4, <6>1, <6>2, <6>3
        <5>2. \A i \in 1..(mid + 1) : v[i] < x
          BY <3>4, <3>7, <5>1, SMTT(60)
        <5> QED
          BY <2>1, <3>1, <5>2 DEF Around, n
      <4>2. size[<<mid + 1, r[2]>>] \in Nat
        BY <1>4, <3>1
      <4>3. find[r] = find[<<mid + 1, r[2]>>]
        BY <3>3, <3>4, <3>7
      <4> QED
        BY <1>11, <3>1, <4>1, <4>2, <4>3
    <3> QED
      BY <3>4, <3>5, <3>6, <3>7
  <2> QED
    BY <2>3, <2>4
<1>12. \A k \in Nat : k \in Good
  <2> HIDE DEF Good
  <2> QED
    BY <1>11, StrongInd
<1>13. <<0, n>> \in D /\ Around(x, 0, n)
  BY <1>1 DEF Around, n
<1> QED
  <2>1. size[<<0, n>>] \in Nat
    BY <1>4, <1>13
  <2>2. <<0, n>>[1] = 0 /\ <<0, n>>[2] = n
    OBVIOUS
  <2> HIDE DEF D, size
  <2> QED
    BY <1>2, <1>12, <1>13, <2>1, <2>2

(* The sequence with x after the first at elements.                         *)
LEMMA InsertedSeq ==
  ASSUME NEW x \in Nat, NEW at \in 0..Len(v), v \in Seq(Nat)
  PROVE  /\ Inserted(x, at) \in Seq(Nat) /\ Len(Inserted(x, at)) = Len(v) + 1
         /\ \A i \in 1..at : Inserted(x, at)[i] = v[i]
         /\ Inserted(x, at)[at + 1] = x
         /\ \A i \in (at + 2)..(Len(v) + 1) : Inserted(x, at)[i] = v[i - 1]
<1> DEFINE a == SubSeq(v, 1, at)
           b == SubSeq(v, at + 1, Len(v))
<1>1. Len(v) \in Nat /\ at \in Nat /\ at <= Len(v)
  OBVIOUS
<1>2. a \in Seq(Nat) /\ Len(a) = at /\ \A i \in 1..at : a[i] = v[i]
  BY <1>1
<1>3. b \in Seq(Nat) /\ Len(b) = Len(v) - at /\ \A i \in 1..(Len(v) - at) : b[i] = v[at + i]
  BY <1>1
<1> HIDE DEF a, b
<1> DEFINE c == a \o <<x>>
<1>4. /\ c \in Seq(Nat) /\ Len(c) = at + 1
      /\ \A i \in 1..at : c[i] = v[i]
      /\ c[at + 1] = x
  BY <1>1, <1>2
<1> HIDE DEF c
<1>5. Inserted(x, at) = c \o b
  BY DEF Inserted, a, b, c
<1>6. /\ c \o b \in Seq(Nat) /\ Len(c \o b) = Len(v) + 1
      /\ \A i \in 1..(Len(v) + 1) :
           (c \o b)[i] = IF i <= at + 1 THEN c[i] ELSE b[i - (at + 1)]
  <2>1. Len(c) + Len(b) = Len(v) + 1
    BY <1>1, <1>3, <1>4
  <2>2. /\ c \o b \in Seq(Nat) /\ Len(c \o b) = Len(c) + Len(b)
        /\ \A i \in 1..(Len(c) + Len(b)) :
             (c \o b)[i] = IF i <= Len(c) THEN c[i] ELSE b[i - Len(c)]
    BY <1>3, <1>4, ConcatProperties
  <2>3. \A i \in 1..(Len(v) + 1) : (c \o b)[i] = IF i <= at + 1 THEN c[i] ELSE b[i - (at + 1)]
    BY <1>4, <2>1, <2>2
  <2> QED
    BY <2>1, <2>2, <2>3
<1>7. \A i \in 1..at : (c \o b)[i] = v[i]
  BY <1>1, <1>4, <1>6
<1>8. (c \o b)[at + 1] = x
  BY <1>1, <1>4, <1>6
<1>9. ASSUME NEW i \in (at + 2)..(Len(v) + 1) PROVE (c \o b)[i] = v[i - 1]
  <2>1. i - (at + 1) \in 1..(Len(v) - at) /\ at + (i - (at + 1)) = i - 1
    BY <1>1
  <2>2. b[i - (at + 1)] = v[i - 1]
    BY <1>3, <2>1
  <2>3. i \in 1..(Len(v) + 1) /\ ~(i <= at + 1)
    BY <1>1
  <2>4. (c \o b)[i] = b[i - (at + 1)]
    BY <1>6, <2>3
  <2> QED
    BY <2>2, <2>4
<1> QED
  BY <1>5, <1>6, <1>7, <1>8, <1>9

(* The elements of a sequence.                                              *)
Elements(s) == {s[i] : i \in DOMAIN s}

(* Inductive.                                                               *)
SetInv ==
  kind = "set" =>
    /\ v \in Seq(Nat) /\ Ascending
    /\ added \subseteq Values /\ aret \in {"ok", "null", "undefined"}
    /\ aret # "undefined" => Elements(v) = added
    /\ aret = "undefined" => Cardinality(added) >= StackCap
    /\ mem = "stack" => cap = StackCap

(* The elements of an ascending array are as many as its length.            *)
LEMMA AsManyElements ==
  ASSUME v \in Seq(Nat), Ascending
  PROVE  Cardinality(Elements(v)) = Len(v)
<1>1. Len(v) \in Nat /\ DOMAIN v = 1..Len(v) /\ \A i \in 1..Len(v) : v[i] \in Nat
  OBVIOUS
<1>2. v \in Bijection(1..Len(v), Elements(v))
  <2>1. v \in [1..Len(v) -> Elements(v)]
    BY <1>1 DEF Elements
  <2>2. \A i, j \in 1..Len(v) : v[i] = v[j] => i = j
    BY <1>1 DEF Ascending
  <2>3. \A e \in Elements(v) : \E i \in 1..Len(v) : v[i] = e
    BY <1>1 DEF Elements
  <2> QED
    BY <2>1, <2>2, <2>3 DEF Bijection, Injection, IsInjective, Surjection
<1>3. IsFiniteSet(1..Len(v)) /\ Cardinality(1..Len(v)) = Len(v)
  BY <1>1, FS_Interval, SMTT(60)
<1>4. ExistsBijection(1..Len(v), Elements(v))
  BY <1>2 DEF ExistsBijection
<1> QED
  BY <1>3, <1>4, FS_Bijection

(* Inserting an element where the search has found it to be missing keeps   *)
(* the order and adds just this element.                                    *)
LEMMA InsertKeeps ==
  ASSUME NEW x \in Nat, NEW at \in 0..Len(v), v \in Seq(Nat), Ascending, Around(x, at, at)
  PROVE  LET new == Inserted(x, at)
         IN /\ new \in Seq(Nat)
            /\ \A i, j \in DOMAIN new : i < j => new[i] < new[j]
            /\ Elements(new) = Elements(v) \cup {x}
<1> DEFINE new == Inserted(x, at)
<1>0. /\ new \in Seq(Nat) /\ Len(new) = Len(v) + 1
      /\ \A i \in 1..at : new[i] = v[i]
      /\ new[at + 1] = x
      /\ \A i \in (at + 2)..(Len(v) + 1) : new[i] = v[i - 1]
  BY InsertedSeq
<1>2. Len(v) \in Nat /\ at \in Nat /\ at <= Len(v) /\ DOMAIN v = 1..Len(v)
      /\ \A i \in 1..Len(v) : v[i] \in Nat
  OBVIOUS
<1> HIDE DEF new
<1>1. /\ new \in Seq(Nat) /\ Len(new) = Len(v) + 1 /\ DOMAIN new = 1..(Len(v) + 1)
      /\ \A i \in 1..at : new[i] = v[i]
      /\ new[at + 1] = x
      /\ \A i \in (at + 2)..(Len(v) + 1) : new[i] = v[i - 1]
  BY <1>0
<1>3. ASSUME NEW i \in 1..(Len(v) + 1), NEW j \in 1..(Len(v) + 1), i < j PROVE new[i] < new[j]
  <2>1. CASE j <= at
    <3>1. i \in 1..at /\ j \in 1..at /\ i \in DOMAIN v /\ j \in DOMAIN v
      BY <1>2, <1>3, <2>1
    <3>2. v[i] < v[j]
      BY <1>3, <3>1 DEF Ascending
    <3> QED
      BY <1>1, <3>1, <3>2
  <2>2. CASE j = at + 1
    BY <1>1, <1>2, <1>3, <2>2 DEF Around
  <2>3. CASE j > at + 1
    <3>1. j - 1 \in (at + 1)..Len(v) /\ new[j] = v[j - 1] /\ x < v[j - 1]
      BY <1>1, <1>2, <2>3 DEF Around
    <3>2. CASE i <= at
      <4>1. i < j - 1 /\ i \in DOMAIN v /\ j - 1 \in DOMAIN v
        BY <1>2, <2>3, <3>2
      <4> QED
        BY <1>1, <3>1, <3>2, <4>1 DEF Ascending
    <3>3. CASE i = at + 1
      BY <1>1, <1>2, <3>1, <3>3
    <3>4. CASE i > at + 1
      <4>1. i - 1 < j - 1 /\ i - 1 \in DOMAIN v /\ j - 1 \in DOMAIN v /\ new[i] = v[i - 1]
        BY <1>1, <1>2, <1>3, <3>4
      <4> QED
        BY <3>1, <4>1 DEF Ascending
    <3> QED
      BY <1>2, <3>2, <3>3, <3>4
  <2> QED
    BY <1>2, <2>1, <2>2, <2>3
<1>4. Elements(new) \subseteq Elements(v) \cup {x}
  <2> SUFFICES ASSUME NEW i \in 1..(Len(v) + 1) PROVE new[i] \in Elements(v) \cup {x}
    BY <1>1 DEF Elements
  <2>1. i <= at => i \in DOMAIN v
    BY <1>2
  <2>2. i > at + 1 => i - 1 \in DOMAIN v
    BY <1>2
  <2>3. CASE i <= at
    <3>1. i \in 1..at /\ new[i] = v[i]
      BY <1>1, <1>2, <2>3
    <3> QED
      BY <2>1, <2>3, <3>1 DEF Elements
  <2>4. CASE i = at + 1
    BY <1>1, <2>4
  <2>5. CASE i > at + 1
    <3>1. i \in (at + 2)..(Len(v) + 1) /\ new[i] = v[i - 1]
      BY <1>1, <1>2, <2>5
    <3> QED
      BY <2>2, <2>5, <3>1 DEF Elements
  <2> QED
    BY <1>2, <2>3, <2>4, <2>5
<1>5. Elements(v) \cup {x} \subseteq Elements(new)
  <2>1. x \in Elements(new)
    <3>1. at + 1 \in DOMAIN new /\ new[at + 1] = x
      BY <1>1, <1>2
    <3> QED
      BY <3>1 DEF Elements
  <2>2. ASSUME NEW i \in 1..Len(v) PROVE v[i] \in Elements(new)
    <3>1. CASE i <= at
      <4>1. i \in DOMAIN new /\ new[i] = v[i]
        BY <1>1, <1>2, <3>1
      <4> QED
        BY <4>1 DEF Elements
    <3>2. CASE i > at
      <4>1. i + 1 \in DOMAIN new /\ new[i + 1] = v[i]
        <5>1. i + 1 \in (at + 2)..(Len(v) + 1) /\ (i + 1) - 1 = i
          BY <1>2, <3>2
        <5>2. new[i + 1] = v[(i + 1) - 1]
          BY <1>1, <5>1
        <5>3. i + 1 \in 1..(Len(v) + 1)
          BY <1>2, <3>2
        <5> QED
          BY <1>1, <5>1, <5>2, <5>3
      <4> QED
        BY <4>1 DEF Elements
    <3> QED
      BY <1>2, <3>1, <3>2
  <2> QED
    BY <1>2, <2>1, <2>2 DEF Elements
<1> QED
  BY <1>1, <1>3, <1>4, <1>5 DEF new

(* array_sortedset_assign keeps the invariant, on the heap and on the       *)
(* stack.                                                                   *)
LEMMA AssignStep ==
  ASSUME NEW x \in Values, SetInv, array_sorted_assign(x)
  PROVE  SetInv'
<1>1. /\ kind = "set" /\ kind' = "set" /\ x \in Nat
      /\ v \in Seq(Nat) /\ Ascending /\ Elements(v) = added /\ added \subseteq Values
      /\ v \in Seq(Nat) => Len(v) \in Nat
      /\ mem = "stack" => cap = StackCap
  BY ValuesAssumption DEF SetInv, array_sorted_assign
<1>2. added' = IF aret' = "ok" THEN added \cup {x} ELSE added
  BY DEF array_sorted_assign
<1> DEFINE s == Search(x)
<1>3. s \in Answers /\ Right(x, s)
  BY <1>1, SearchRight
<1>4. IF s.found THEN aret' = "ok" /\ UNCHANGED <<mem, cap, v, lost>>
      ELSE Reserve(1, Inserted(x, s.at))
  BY DEF array_sorted_assign
<1> HIDE DEF s
<1>5. CASE s.found
  <2>1. x \in Elements(v)
    <3>1. s.at + 1 \in DOMAIN v /\ v[s.at + 1] = x
      BY <1>1, <1>3, <1>5 DEF Right, Answers
    <3> QED
      BY <3>1 DEF Elements
  <2>2. v' = v /\ mem' = mem /\ cap' = cap /\ aret' = "ok" /\ added' = added
    BY <1>1, <1>2, <1>4, <1>5, <2>1
  <2> QED
    BY <1>1, <2>2 DEF SetInv, Ascending, Elements
<1>6. CASE ~s.found
  <2> DEFINE new == Inserted(x, s.at)
  <2>1. s.at \in 0..Len(v) /\ Around(x, s.at, s.at) /\ Reserve(1, new)
    BY <1>1, <1>3, <1>4, <1>6 DEF Right, Answers
  <2>2. /\ new \in Seq(Nat)
        /\ \A i, j \in DOMAIN new : i < j => new[i] < new[j]
        /\ Elements(new) = Elements(v) \cup {x}
    BY <1>1, <2>1, InsertKeeps
  <2>3. x \notin Elements(v)
    <3> SUFFICES ASSUME NEW i \in 1..Len(v), v[i] = x PROVE FALSE
      BY <1>1 DEF Elements
    <3>1. i \in 1..s.at \/ i \in (s.at + 1)..Len(v)
      BY <2>1
    <3> QED
      BY <1>1, <2>1, <3>1 DEF Around
  <2> HIDE DEF new
  <2>5. \/ v' = new /\ aret' = "ok" /\ mem' = mem /\ cap' = cap
        \/ ~Enough(1) /\ v' = new /\ mem' = "heap" /\ aret' = IF mem = "stack" THEN "undefined" ELSE "ok"
        \/ v' = v /\ aret' = "null" /\ mem' = mem /\ cap' = cap
    BY <2>1 DEF Reserve
  <2>6. CASE v' = new /\ aret' = "ok" /\ mem' = mem /\ cap' = cap
    BY <1>1, <1>2, <2>2, <2>6 DEF SetInv, Ascending, Elements
  <2>7. CASE ~Enough(1) /\ v' = new /\ mem' = "heap" /\ aret' = IF mem = "stack" THEN "undefined" ELSE "ok"
    <3>1. CASE mem = "stack"
      <4>1. Cardinality(added) = Len(v) /\ ~(Len(v) + 1 <= StackCap)
        BY <1>1, <2>7, <3>1, AsManyElements DEF Enough
      <4>2. Cardinality(added) >= StackCap
        BY <1>1, <4>1, ArraysAssumption
      <4> QED
        BY <1>1, <1>2, <2>2, <2>7, <3>1, <4>2 DEF SetInv, Ascending, Elements
    <3>2. CASE mem # "stack"
      BY <1>1, <1>2, <2>2, <2>7, <3>2 DEF SetInv, Ascending, Elements
    <3> QED
      BY <3>1, <3>2
  <2>8. CASE v' = v /\ aret' = "null" /\ mem' = mem /\ cap' = cap
    BY <1>1, <1>2, <2>8 DEF SetInv, Ascending, Elements
  <2> QED
    BY <2>5, <2>6, <2>7, <2>8
<1> QED
  BY <1>5, <1>6

(* A sorted set holds exactly the values assigned to it, in order and       *)
(* without duplicates, and the binary search is right about every value it  *)
(* is asked for: for any values, by induction over the length of the        *)
(* interval that is searched.  An array on the stack reaches realloc only   *)
(* with StackCap values in it.                                              *)
THEOREM SortedSetAlways == ArraySpec => []SortedSet
<1>1. ArrayInit => SetInv
  BY DEF ArrayInit, SetInv, Ascending, Elements
<1>2. SetInv /\ [ArrayNext]_arrayVars => SetInv'
  <2> SUFFICES ASSUME SetInv, [ArrayNext]_arrayVars PROVE SetInv'
    OBVIOUS
  <2>1. CASE array_alloc
    BY <2>1 DEF array_alloc, SetInv
  <2>2. CASE \E x \in Values : array_sorted_assign(x)
    BY <2>2, AssignStep
  <2>3. CASE UNCHANGED arrayVars
    BY <2>3 DEF arrayVars, SetInv, Ascending, Elements
  <2> QED
    BY <2>1, <2>2, <2>3 DEF ArrayNext
<1>3. SetInv => SortedSet
  BY DEF SetInv, SortedSet, Ascending, Elements
<1> QED
  BY <1>1, <1>2, <1>3, PTL DEF ArraySpec

-----------------------------------------------------------------------------

(* The bytes of a message and of its padding, and buffers of them.          *)
Octet == {"data", "byte", "junk"} \X Int

Counters ==
  /\ chunk_pos \in Nat /\ space_left \in Nat /\ total_len \in Nat /\ p \in Nat /\ len \in Nat

Buffers == h \in Seq(Octet) /\ chunk \in [1..Chunk -> Octet]

(* A number of whole chunks.                                                *)
Chunked(n) == \E m \in Nat : n = m * Chunk

(* Inductive: Streamed, with the types of what it speaks of, and nothing is *)
(* left to read between two writes.                                         *)
StreamInv ==
  hpc # "closed" =>
    /\ hpc \in {"idle", "write"} /\ Counters /\ Buffers /\ Streamed
    /\ hpc = "idle" => len = 0
    /\ Chunked(Len(h))

LEMMA DataOctet == ASSUME NEW i \in Int PROVE Data(i) \in Octet
  BY DEF Data, Octet

LEMMA Another == ASSUME NEW n \in Nat, Chunked(n) PROVE Chunked(n + Chunk)
<1>1. PICK m \in Nat : n = m * Chunk
  BY DEF Chunked
<1>2. n + Chunk = (m + 1) * Chunk /\ m + 1 \in Nat
  BY <1>1, SizesAssumption
<1> QED
  BY <1>2 DEF Chunked

(* What h \o b has at its places, b being as long as a chunk.               *)
LEMMA Appended ==
  ASSUME NEW s \in Seq(Octet), NEW b \in [1..Chunk -> Octet]
  PROVE  /\ s \o b \in Seq(Octet)
         /\ Len(s \o b) = Len(s) + Chunk
         /\ \A i \in 1..Len(s) : (s \o b)[i] = s[i]
         /\ \A i \in 1..Chunk : (s \o b)[Len(s) + i] = b[i]
<1>1. b \in Seq(Octet) /\ Len(b) = Chunk
  BY SizesAssumption
<1> QED
  BY <1>1, SizesAssumption

(* A chunk of the message at the end of what was consumed.                  *)
LEMMA Continued ==
  ASSUME NEW s \in Seq(Octet), NEW b \in [1..Chunk -> Octet],
         \A i \in 1..Len(s) : s[i] = Data(i),
         \A i \in 1..Chunk : b[i] = Data(Len(s) + i)
  PROVE  \A i \in 1..Len(s \o b) : (s \o b)[i] = Data(i)
<1> SUFFICES ASSUME NEW i \in 1..(Len(s) + Chunk)
             PROVE  (s \o b)[i] = Data(i)
  BY Appended
<1>1. CASE i <= Len(s)
  BY <1>1, Appended
<1>2. CASE i > Len(s)
  <2>1. i - Len(s) \in 1..Chunk /\ i = Len(s) + (i - Len(s))
    BY <1>2, SizesAssumption
  <2> QED
    BY <2>1, Appended
<1> QED
  BY <1>1, <1>2, SizesAssumption

LEMMA StreamInit == HashInit => StreamInv
<1> SUFFICES ASSUME HashInit PROVE StreamInv
  OBVIOUS
<1>1. h = <<>> /\ Len(h) = 0 /\ h \in Seq(Octet)
  BY DEF HashInit
<1>2. Junk \in Octet
  BY DEF Junk, Octet
<1>3. chunk \in [1..Chunk -> Octet]
  BY <1>2 DEF HashInit
<1>4. Chunked(Len(h))
  <2>1. 0 = 0 * Chunk
    BY SizesAssumption
  <2> QED
    BY <1>1, <2>1 DEF Chunked
<1> QED
  BY <1>1, <1>3, <1>4, SizesAssumption DEF HashInit, StreamInv, Counters, Buffers, Streamed

LEMMA WholeStep == StreamInv /\ HashWhole => StreamInv'
<1> SUFFICES ASSUME StreamInv, HashWhole PROVE StreamInv'
  OBVIOUS
<1> DEFINE new == [i \in 1..Chunk |-> Data(p + i)]
<1>1. Counters /\ Buffers /\ Streamed /\ hpc = "write" /\ hpc' = "write"
  BY DEF StreamInv, HashWhole
<1>2. chunk_pos = 0 /\ space_left = Chunk /\ len >= Chunk /\ p = Len(h)
  BY <1>1, SizesAssumption DEF HashWhole, WholeChunk, Streamed, Counters, Buffers
<1>3. new \in [1..Chunk -> Octet] /\ \A i \in 1..Chunk : new[i] = Data(Len(h) + i)
  BY <1>1, <1>2, DataOctet DEF Counters
<1>4. h' = h \o new
  BY DEF HashWhole
<1> HIDE DEF new
<1>5. h' \in Seq(Octet) /\ Len(h') = Len(h) + Chunk
  BY <1>1, <1>3, <1>4, Appended DEF Buffers
<1>6. \A i \in 1..Len(h') : h'[i] = Data(i)
  BY <1>1, <1>3, <1>4, Continued DEF Buffers, Streamed
<1>7. Counters' /\ Buffers' /\ p' = Len(h') + chunk_pos'
  BY <1>1, <1>2, <1>5, SizesAssumption DEF HashWhole, Counters, Buffers
<1>8. /\ (p + len = total_len)' /\ chunk_pos' + space_left' = Chunk /\ space_left' > 0
      /\ chunk_pos' = 0
  BY <1>1, <1>2, SizesAssumption DEF HashWhole, Counters, Streamed
<1>9. Streamed'
  BY <1>1, <1>6, <1>7, <1>8 DEF Streamed
<1>10. Chunked(Len(h'))
  BY <1>1, <1>5, Another DEF Buffers, StreamInv
<1> QED
  BY <1>1, <1>7, <1>9, <1>10 DEF StreamInv

LEMMA PartStep == StreamInv /\ HashPart => StreamInv'
<1> SUFFICES ASSUME StreamInv, HashPart PROVE StreamInv'
  OBVIOUS
<1> DEFINE n == Consumed
           new == [i \in 1..Chunk |->
                     IF i > chunk_pos /\ i <= chunk_pos + n THEN Data(p + i - chunk_pos)
                     ELSE chunk[i]]
<1>1. Counters /\ Buffers /\ Streamed /\ hpc = "write" /\ hpc' = "write"
  BY DEF StreamInv, HashPart
<1>2. n \in Nat /\ n <= len /\ n <= space_left
  BY <1>1 DEF Consumed, Counters
<1>3. /\ chunk' = new /\ len' = len - n /\ p' = p + n /\ total_len' = total_len
      /\ \/ space_left = n /\ h' = h \o new /\ chunk_pos' = 0 /\ space_left' = Chunk
         \/ /\ space_left # n /\ h' = h
            /\ chunk_pos' = chunk_pos + n /\ space_left' = space_left - n
  BY DEF HashPart
<1>4. p = Len(h) + chunk_pos /\ chunk_pos + space_left = Chunk
  BY <1>1 DEF Streamed
<1>5. new \in [1..Chunk -> Octet]
  BY <1>1, <1>2, DataOctet, SizesAssumption DEF Counters, Buffers
<1>6. \A i \in 1..(chunk_pos + n) : i \in 1..Chunk /\ new[i] = Data(Len(h) + i)
  <2> SUFFICES ASSUME NEW i \in 1..(chunk_pos + n)
               PROVE  i \in 1..Chunk /\ new[i] = Data(Len(h) + i)
    OBVIOUS
  <2>1. i \in 1..Chunk /\ Len(h) \in Nat
    BY <1>1, <1>2, <1>4, SizesAssumption DEF Counters, Buffers
  <2>2. CASE i <= chunk_pos
    <3>1. chunk[i] = Data(Len(h) + i)
      BY <1>1, <2>1, <2>2 DEF Streamed, Counters
    <3> QED
      BY <1>1, <2>1, <2>2, <3>1 DEF Counters
  <2>3. CASE i > chunk_pos
    <3>1. p + i - chunk_pos = Len(h) + i
      BY <1>1, <1>4, <2>1 DEF Counters
    <3> QED
      BY <2>1, <2>3, <3>1
  <2> QED
    BY <1>1, <2>2, <2>3 DEF Counters
<1> HIDE DEF n, new
<1>7. CASE space_left = n
  <2>1. h' = h \o new /\ chunk_pos' = 0 /\ space_left' = Chunk
    BY <1>3, <1>7
  <2>2. \A i \in 1..Chunk : new[i] = Data(Len(h) + i)
    BY <1>4, <1>6, <1>7
  <2>3. h' \in Seq(Octet) /\ Len(h') = Len(h) + Chunk
    BY <1>1, <1>5, <2>1, Appended DEF Buffers
  <2>4. \A i \in 1..Len(h') : h'[i] = Data(i)
    BY <1>1, <1>5, <2>1, <2>2, Continued DEF Buffers, Streamed
  <2>5. p' = Len(h') + chunk_pos' /\ p' + len' = total_len'
    <3>1. p + len = total_len /\ Len(h) \in Nat
      BY <1>1 DEF Buffers, Streamed
    <3>2. p' = p + n /\ len' = len - n /\ total_len' = total_len
      BY <1>3
    <3>3. p' = Len(h) + Chunk
      BY <1>1, <1>4, <1>7, <3>1, <3>2 DEF Counters
    <3>4. p' + len' = total_len'
      BY <1>1, <1>2, <3>1, <3>2 DEF Counters
    <3> QED
      BY <2>1, <2>3, <3>1, <3>3, <3>4, SizesAssumption
  <2>6. Counters' /\ Buffers'
    BY <1>1, <1>2, <1>3, <1>5, <2>1, <2>3, SizesAssumption DEF Counters, Buffers
  <2>7. Streamed'
    BY <1>1, <2>1, <2>4, <2>5, SizesAssumption DEF Streamed
  <2>8. Chunked(Len(h'))
    BY <1>1, <2>3, Another DEF Buffers, StreamInv
  <2> QED
    BY <1>1, <2>6, <2>7, <2>8 DEF StreamInv
<1>8. CASE space_left # n
  <2>1. h' = h /\ chunk_pos' = chunk_pos + n /\ space_left' = space_left - n
    BY <1>3, <1>8
  <2>2. \A i \in 1..chunk_pos' : chunk'[i] = Data(Len(h') + i)
    BY <1>3, <1>6, <2>1
  <2>3. p' = Len(h') + chunk_pos' /\ p' + len' = total_len'
    BY <1>1, <1>2, <1>3, <1>4, <2>1 DEF Counters, Buffers, Streamed
  <2>4. Counters' /\ Buffers' /\ chunk_pos' + space_left' = Chunk /\ space_left' > 0
    BY <1>1, <1>2, <1>3, <1>4, <1>5, <1>8, <2>1, SizesAssumption DEF Counters, Buffers
  <2>5. \A i \in 1..Len(h') : h'[i] = Data(i)
    BY <1>1, <2>1 DEF Streamed
  <2>6. Streamed'
    BY <1>1, <2>2, <2>3, <2>4, <2>5 DEF Streamed
  <2>7. Chunked(Len(h'))
    BY <1>1, <2>1 DEF StreamInv
  <2> QED
    BY <1>1, <2>4, <2>6, <2>7 DEF StreamInv
<1> QED
  BY <1>7, <1>8

LEMMA StreamStep == StreamInv /\ [HashNext]_hashVars => StreamInv'
<1> SUFFICES ASSUME StreamInv, [HashNext]_hashVars PROVE StreamInv'
  OBVIOUS
<1>1. CASE HashWrite
  <2>1. PICK n \in 0..(MaxTotal - total_len) : len' = n /\ total_len' = total_len + n
    BY <1>1 DEF HashWrite
  <2>2. n \in Nat /\ hpc = "idle" /\ hpc' = "write" /\ len = 0
    BY <1>1 DEF HashWrite, StreamInv
  <2> QED
    BY <1>1, <2>1, <2>2 DEF HashWrite, StreamInv, Counters, Buffers, Streamed
<1>2. CASE HashWhole
  BY <1>2, WholeStep
<1>3. CASE HashPart
  BY <1>3, PartStep
<1>4. CASE HashWritten
  BY <1>4 DEF HashWritten, StreamInv, Counters, Buffers, Streamed
<1>5. CASE HashClose
  BY <1>5 DEF HashClose, StreamInv
<1>6. CASE UNCHANGED hashVars
  BY <1>6 DEF hashVars, StreamInv, Counters, Buffers, Streamed
<1> QED
  BY <1>1, <1>2, <1>3, <1>4, <1>5, <1>6 DEF HashNext

(* Whatever the sizes of chunks and writes, the chunks consumed and the     *)
(* buffer together are the bytes written, each once and in order.           *)
THEOREM StreamedAlways == HashSpec => []Streamed
<1>1. StreamInv => Streamed
  BY DEF StreamInv, Streamed
<1> QED
  BY StreamInit, StreamStep, <1>1, PTL DEF HashSpec

-----------------------------------------------------------------------------

(* The powers of two are what their recursion says, and positive.           *)
LEMMA Pow2Is ==
  /\ pow2 \in [Nat -> Nat \ {0}]
  /\ pow2[0] = 1
  /\ \A k \in Nat : pow2[k + 1] = 2 * pow2[k]
<1> DEFINE Z == Nat \ {0}
           size == [k \in Nat |-> k]
           Body(f, k) == IF k = 0 THEN 1 ELSE 2 * f[k - 1]
           G == [y \in Nat \X [Nat -> Z] |-> Body(y[2], y[1])]
<1>1. G \in [Nat \X [Nat -> Z] -> Z]
  OBVIOUS
<1>2. Shrinks(G, Nat, Z, size)
  <2> SUFFICES ASSUME NEW k \in Nat, NEW a \in [Nat -> Z], NEW b \in [Nat -> Z],
                      \A j \in Nat : size[j] < size[k] => a[j] = b[j]
               PROVE  G[<<k, a>>] = G[<<k, b>>]
    BY DEF Shrinks
  <2>1. k # 0 => a[k - 1] = b[k - 1]
    OBVIOUS
  <2> QED
    BY <2>1
<1>3. size \in [Nat -> Nat] /\ Z # {}
  OBVIOUS
<1>4. \E f \in [Nat -> Z] : Solves(f, G, Nat)
  <2> HIDE DEF G, Z, size
  <2> QED
    BY <1>1, <1>2, <1>3, Recursion
<1>5. PICK f \in [Nat -> Z] : \A k \in Nat : f[k] = G[<<k, f>>]
  BY <1>4 DEF Solves
<1>6. f = [k \in Nat |-> Body(f, k)]
  BY <1>5
<1>7. pow2 = CHOOSE g : g = [k \in Nat |-> Body(g, k)]
  BY DEF pow2
<1> HIDE DEF Body
<1>8. pow2 = [k \in Nat |-> Body(pow2, k)]
  BY <1>6, <1>7
<1>9. \A k \in Nat : pow2[k] = Body(pow2, k)
  BY <1>8
<1>10. pow2[0] = 1
  BY <1>9 DEF Body
<1>11. \A k \in Nat : pow2[k + 1] = 2 * pow2[k]
  BY <1>9 DEF Body
<1> DEFINE Good == {k \in Nat : pow2[k] \in Z}
<1>12. \A k \in Nat : k \in Good
  <2>1. 0 \in Good
    BY <1>10
  <2>2. ASSUME NEW k \in Nat, k \in Good PROVE k + 1 \in Good
    BY <1>11, <2>2
  <2> HIDE DEF Good
  <2> QED
    BY <2>1, <2>2, NatInd
<1>13. \A k \in Nat : pow2[k] \in Z
  BY <1>12
<1> HIDE DEF Z
<1>14. pow2 \in [Nat -> Z]
  BY <1>8, <1>13
<1> QED
  BY <1>10, <1>11, <1>14 DEF Z

(* Of a sum it is the product.                                              *)
LEMMA Pow2Sum == ASSUME NEW a \in Nat, NEW b \in Nat PROVE pow2[a + b] = pow2[a] * pow2[b]
<1> DEFINE Good == {k \in Nat : pow2[a + k] = pow2[a] * pow2[k]}
<1>1. 0 \in Good
  BY Pow2Is
<1>2. ASSUME NEW k \in Nat, k \in Good PROVE k + 1 \in Good
  <2>1. pow2[a + (k + 1)] = 2 * pow2[a + k] /\ pow2[k + 1] = 2 * pow2[k]
    <3>1. a + (k + 1) = (a + k) + 1 /\ a + k \in Nat
      OBVIOUS
    <3> QED
      BY <3>1, Pow2Is
  <2> DEFINE x == pow2[a]
             y == pow2[k]
             z == pow2[a + k]
  <2>2. x \in Nat /\ y \in Nat /\ z = x * y
    BY <1>2, Pow2Is
  <2> HIDE DEF x, y, z
  <2>3. 2 * z = x * (2 * y)
    BY <2>2
  <2> QED
    BY <2>1, <2>3 DEF x, y, z
<1>3. \A k \in Nat : k \in Good
  <2> HIDE DEF Good
  <2> QED
    BY <1>1, <1>2, NatInd
<1> QED
  BY <1>3

(* The bytes of the length, as the code shifts it, and as one number.       *)
LEMMA LengthByteIs ==
  ASSUME NEW j \in 1..LenBytes, total_len \in Nat
  PROVE  LengthByte(j) = ((total_len * 8) \div pow2[Bits * (LenBytes - j)]) % pow2[Bits]
<1> DEFINE n == total_len
<1>0. n \in Nat /\ Bits \in Nat /\ Bits >= 3 /\ LenBytes \in Nat
  BY SizesAssumption
<1>1. CASE j = LenBytes
  <2>1. Bits * (LenBytes - j) = 0
    BY <1>0, <1>1
  <2>2. (n * 8) \div pow2[Bits * (LenBytes - j)] = n * 8
    <3> DEFINE e == Bits * (LenBytes - j)
    <3>0. e = 0
      BY <2>1
    <3> HIDE DEF e
    <3>1. n * 8 \in Nat /\ pow2[e] = 1
      BY <1>0, <3>0, Pow2Is
    <3> DEFINE m == n * 8
               w == pow2[e]
    <3>2. m \in Nat /\ w = 1
      BY <3>1
    <3> HIDE DEF m, w
    <3>3. m \div w = m
      BY <3>2
    <3> QED
      BY <3>3 DEF m, w, e
  <2> HIDE DEF n
  <2> QED
    BY <1>1, <2>2 DEF LengthByte, n
<1>2. CASE j # LenBytes
  <2> DEFINE k == LenBytes - 1 - j
             u == pow2[Bits - 3]
             z == pow2[Bits * k]
  <2>1. k \in Nat /\ Bits * k \in Nat /\ Bits - 3 \in Nat
    BY <1>0, <1>2
  <2>2. Bits * (LenBytes - j) = (3 + (Bits - 3)) + Bits * k
    <3>1. LenBytes - j = k + 1 /\ 3 + (Bits - 3) = Bits
      BY <1>0
    <3> HIDE DEF k
    <3>2. Bits * (k + 1) = Bits + Bits * k
      BY <1>0, <2>1
    <3> QED
      BY <3>1, <3>2
  <2>3. u \in Nat \ {0} /\ z \in Nat \ {0}
    BY <2>1, Pow2Is
  <2>4. pow2[3] = 8
    <3>1. pow2[0 + 1] = 2 * pow2[0] /\ pow2[1 + 1] = 2 * pow2[1] /\ pow2[2 + 1] = 2 * pow2[2] /\ pow2[0] = 1
      BY Pow2Is
    <3> QED
      BY <3>1
  <2>5. pow2[3 + (Bits - 3)] = 8 * u
    <3> DEFINE three == 3
    <3>1. three \in Nat
      OBVIOUS
    <3> HIDE DEF three
    <3>2. pow2[three + (Bits - 3)] = pow2[three] * pow2[Bits - 3]
      BY <2>1, <3>1, Pow2Sum
    <3> QED
      BY <2>4, <3>2 DEF three
  <2>6. pow2[(3 + (Bits - 3)) + Bits * k] = (8 * u) * z
    <3>1. 3 + (Bits - 3) \in Nat
      BY <2>1
    <3> QED
      BY <2>1, <2>5, <3>1, Pow2Sum
  <2> HIDE DEF u, z, n, k
  <2>7. 8 * u \in Nat \ {0} /\ n * 8 \in Nat
    BY <1>0, <2>3
  <2>8. (n * 8) \div ((8 * u) * z) = ((n * 8) \div (8 * u)) \div z
    <3> DEFINE w == 8 * u
               m == n * 8
    <3>1. w \in Nat \ {0} /\ m \in Nat
      BY <2>7
    <3> HIDE DEF w, m
    <3>2. m \div (w * z) = (m \div w) \div z
      BY <2>3, <3>1
    <3> QED
      BY <3>2 DEF w, m
  <2>9. (n * 8) \div (8 * u) = n \div u
    <3>1. (n * 8) \div (8 * u) = ((n * 8) \div 8) \div u
      BY <1>0, <2>3
    <3>2. (n * 8) \div 8 = n
      BY <1>0
    <3> QED
      BY <3>1, <3>2
  <2>10. LengthByte(j) = ((n \div u) \div z) % pow2[Bits]
    BY <1>2 DEF LengthByte, u, z, n, k
  <2> QED
    BY <2>2, <2>6, <2>8, <2>9, <2>10 DEF n
<1> QED
  BY <1>1, <1>2

(* A number without remainder is a multiple.                                *)
LEMMA Multiple == ASSUME NEW C \in Nat \ {0}, NEW x \in Nat, x % C = 0 PROVE \E q \in Nat : x = q * C
  OBVIOUS

(* The padding: how many zeros there are, fewer than a chunk, so that what  *)
(* follows the message fills the chunks, and which byte is at each place.   *)
LEMMA PaddingIs ==
  ASSUME NEW n \in Nat, NEW k \in 0..(Chunk - 1), Chunked(n + 1 + k + LenBytes)
  PROVE  Padding(n) = LET size == n + 1 + k + LenBytes
                      IN [i \in 1..size |->
                            IF i <= n THEN Data(i)
                            ELSE IF i = n + 1 THEN Byte(128)
                            ELSE IF i <= size - LenBytes THEN Byte(0)
                            ELSE Byte(((n * 8) \div pow2[Bits * (size - i)]) % pow2[Bits])]
<1> DEFINE Full(z) == (n + 1 + z + LenBytes) % Chunk = 0
           zeros == CHOOSE z \in 0..(Chunk - 1) : Full(z)
<1>0. Chunk \in Nat \ {0} /\ LenBytes \in Nat
  BY SizesAssumption
<1>1. Full(k)
  <2>1. PICK m \in Nat : n + 1 + k + LenBytes = m * Chunk
    BY DEF Chunked
  <2>2. (m * Chunk) % Chunk = 0
    BY <1>0
  <2> QED
    BY <2>1, <2>2
<1>2. ASSUME NEW y \in 0..(Chunk - 1), NEW z \in 0..(Chunk - 1), Full(y), Full(z), y < z PROVE FALSE
  <2> DEFINE a == n + 1 + y + LenBytes
             b == n + 1 + z + LenBytes
  <2>1. a \in Nat /\ b \in Nat /\ a < b /\ b < a + Chunk /\ a % Chunk = 0 /\ b % Chunk = 0
    BY <1>0, <1>2
  <2> HIDE DEF a, b
  <2>2. PICK q \in Nat : a = q * Chunk
    BY <1>0, <2>1, Multiple
  <2>3. PICK r \in Nat : b = r * Chunk
    BY <1>0, <2>1, Multiple
  <2>4. r > q
    <3>1. r <= q => r * Chunk <= q * Chunk
      BY <1>0
    <3> QED
      BY <1>0, <2>1, <2>2, <2>3, <3>1
  <2>5. r * Chunk >= q * Chunk + Chunk
    BY <1>0, <2>4
  <2> QED
    BY <1>0, <2>1, <2>2, <2>3, <2>5
<1> HIDE DEF Full
<1>3. zeros \in 0..(Chunk - 1) /\ Full(zeros)
  BY <1>1
<1> HIDE DEF zeros
<1>4. zeros = k
  <2>1. ~(zeros < k) /\ ~(k < zeros)
    BY <1>1, <1>2, <1>3
  <2> QED
    BY <1>0, <1>3, <2>1
<1> DEFINE Made(z) == LET size == n + 1 + z + LenBytes
                      IN [i \in 1..size |->
                            IF i <= n THEN Data(i)
                            ELSE IF i = n + 1 THEN Byte(128)
                            ELSE IF i <= size - LenBytes THEN Byte(0)
                            ELSE Byte(((n * 8) \div pow2[Bits * (size - i)]) % pow2[Bits])]
<1>5. Padding(n) = Made(zeros)
  BY DEF Padding, zeros, Full
<1> HIDE DEF Made
<1>6. Padding(n) = Made(k)
  BY <1>4, <1>5
<1> QED
  BY <1>6 DEF Made

-----------------------------------------------------------------------------

(* The byte at place i of a padded message of n bytes.                      *)
ByteAt(n, size, i) ==
  IF i <= n THEN Data(i)
  ELSE IF i = n + 1 THEN Byte(128)
  ELSE IF i <= size - LenBytes THEN Byte(0)
  ELSE Byte(((n * 8) \div pow2[Bits * (size - i)]) % pow2[Bits])

(* Sequences of one length with the same elements are equal.                *)
LEMMA SeqIs ==
  ASSUME NEW s \in Seq(Octet), NEW n \in Nat, NEW size \in Nat, Len(s) = size,
         \A i \in 1..size : s[i] = ByteAt(n, size, i)
  PROVE  s = [i \in 1..size |-> ByteAt(n, size, i)]
<1>1. s \in [1..size -> Octet]
  BY LenProperties
<1> QED
  BY <1>1

(* sha256_close writes the padding, whether it fits the last chunk or needs *)
(* one more.                                                                *)
LEMMA PaddedClose ==
  ASSUME StreamInv, HashClose
  PROVE  h' = Padding(total_len')
<1> DEFINE at == chunk_pos + 1
           n == total_len
           two == NeedsSecond(space_left - 1)
           first == [i \in 1..Chunk |-> IF i = at THEN Byte(128)
                                   ELSE IF i > at /\ two THEN Byte(0)
                                   ELSE chunk[i]]
           from == IF two THEN 0 ELSE at
           last == [i \in 1..Chunk |-> IF i <= from THEN first[i]
                                  ELSE IF i <= Chunk - LenBytes THEN Byte(0)
                                  ELSE Byte(LengthByte(i - (Chunk - LenBytes)))]
<1>0. Chunk \in Nat \ {0} /\ LenBytes \in Nat \ {0} /\ Chunk > LenBytes
  BY SizesAssumption
<1>1. /\ Counters /\ Buffers /\ Streamed /\ Chunked(Len(h)) /\ hpc = "idle" /\ len = 0
  BY DEF StreamInv, HashClose
<1>2. /\ h' = h \o (IF two THEN first \o last ELSE last) /\ total_len' = n
  BY DEF HashClose
<1>3. /\ n = Len(h) + chunk_pos /\ chunk_pos + space_left = Chunk /\ space_left > 0
      /\ chunk_pos \in Nat /\ space_left \in Nat /\ n \in Nat /\ Len(h) \in Nat /\ h \in Seq(Octet)
      /\ \A i \in 1..Len(h) : h[i] = Data(i)
      /\ \A i \in 1..chunk_pos : chunk[i] = Data(Len(h) + i)
  BY <1>1 DEF Counters, Buffers, Streamed
<1>4. two <=> chunk_pos + 1 + LenBytes > Chunk
  BY <1>0, <1>3 DEF NeedsSecond
<1> HIDE DEF two
<1>5. \A j \in 1..LenBytes : LengthByte(j) = ((n * 8) \div pow2[Bits * (LenBytes - j)]) % pow2[Bits]
                             /\ LengthByte(j) \in Int
  <2> SUFFICES ASSUME NEW j \in 1..LenBytes
               PROVE  /\ LengthByte(j) = ((n * 8) \div pow2[Bits * (LenBytes - j)]) % pow2[Bits]
                      /\ LengthByte(j) \in Int
    OBVIOUS
  <2>1. LengthByte(j) = ((n * 8) \div pow2[Bits * (LenBytes - j)]) % pow2[Bits]
    BY <1>3, LengthByteIs
  <2> DEFINE e == Bits * (LenBytes - j)
             u == pow2[e]
             z == pow2[Bits]
             m == n * 8
  <2>2. e \in Nat
    <3>1. LenBytes - j \in Nat /\ Bits \in Nat
      BY SizesAssumption
    <3> QED
      BY <3>1
  <2> HIDE DEF e
  <2>3. u \in Nat \ {0} /\ z \in Nat \ {0} /\ m \in Nat
    <3>1. u \in Nat \ {0} /\ z \in Nat \ {0}
      BY <2>2, Pow2Is, SizesAssumption
    <3>2. m \in Nat
      BY <1>3
    <3> QED
      BY <3>1, <3>2
  <2> HIDE DEF u, z, m, n
  <2>4. (m \div u) % z \in Int
    BY <2>3
  <2> QED
    BY <2>1, <2>4 DEF u, z, m, e
<1>6. first \in [1..Chunk -> Octet]
  <2>1. Byte(128) \in Octet /\ Byte(0) \in Octet
    BY DEF Byte, Octet
  <2>2. chunk \in [1..Chunk -> Octet]
    BY <1>1 DEF Buffers
  <2> QED
    BY <2>1, <2>2
<1>7. last \in [1..Chunk -> Octet]
  <2> SUFFICES ASSUME NEW i \in 1..Chunk PROVE last[i] \in Octet
    OBVIOUS
  <2>1. CASE i <= from
    BY <1>6, <2>1
  <2>2. CASE ~(i <= from) /\ i <= Chunk - LenBytes
    <3>1. Byte(0) \in Octet
      BY DEF Byte, Octet
    <3> QED
      BY <2>2, <3>1
  <2>3. CASE ~(i <= from) /\ ~(i <= Chunk - LenBytes)
    <3>1. i - (Chunk - LenBytes) \in 1..LenBytes
      BY <1>0, <2>3
    <3>2. LengthByte(i - (Chunk - LenBytes)) \in Int
      BY <1>5, <3>1
    <3>3. Byte(LengthByte(i - (Chunk - LenBytes))) \in Octet
      BY <3>2 DEF Byte, Octet
    <3> QED
      BY <2>3, <3>3
  <2> QED
    BY <2>1, <2>2, <2>3
<1>8. \A i \in 1..Chunk :
        /\ first[i] = IF i = at THEN Byte(128) ELSE IF i > at /\ two THEN Byte(0) ELSE chunk[i]
        /\ last[i] = IF i <= from THEN first[i]
                     ELSE IF i <= Chunk - LenBytes THEN Byte(0)
                     ELSE Byte(LengthByte(i - (Chunk - LenBytes)))
  OBVIOUS
<1> HIDE DEF first, last
<1>9. \A i \in 1..chunk_pos : first[i] = Data(Len(h) + i)
  <2> SUFFICES ASSUME NEW i \in 1..chunk_pos PROVE first[i] = Data(Len(h) + i)
    OBVIOUS
  <2>1. i \in 1..Chunk /\ i # at /\ ~(i > at)
    BY <1>0, <1>3
  <2> QED
    BY <1>3, <1>8, <2>1
<1>10. CASE ~two
  <2> DEFINE k == Chunk - LenBytes - chunk_pos - 1
             size == n + 1 + k + LenBytes
  <2>1. k \in 0..(Chunk - 1) /\ size = Len(h) + Chunk
    BY <1>0, <1>3, <1>4, <1>10
  <2>2. Chunked(size)
    BY <1>1, <1>3, <2>1, Another
  <2>3. Padding(n) = [i \in 1..size |-> ByteAt(n, size, i)]
    BY <1>3, <2>1, <2>2, PaddingIs DEF ByteAt
  <2> HIDE DEF k, size, n
  <2>4. h' = h \o last
    BY <1>2, <1>10
  <2>5. /\ h' \in Seq(Octet) /\ Len(h') = size
        /\ \A i \in 1..Len(h) : h'[i] = h[i]
        /\ \A i \in 1..Chunk : h'[Len(h) + i] = last[i]
    BY <1>3, <1>7, <2>1, <2>4, Appended
  <2>6. ASSUME NEW i \in 1..size PROVE h'[i] = ByteAt(n, size, i)
    <3>1. CASE i <= Len(h)
      <4>1. i \in 1..Len(h) /\ i <= n
        BY <1>3, <3>1
      <4> QED
        BY <1>3, <2>5, <4>1 DEF ByteAt
    <3>2. CASE ~(i <= Len(h))
      <4> DEFINE j == i - Len(h)
      <4>1. j \in 1..Chunk /\ Len(h) + j = i
        BY <1>0, <1>3, <2>1, <3>2
      <4> HIDE DEF j
      <4>2. h'[i] = last[j]
        BY <2>5, <4>1
      <4>3. CASE j <= chunk_pos
        <5>1. j <= from /\ i <= n /\ last[j] = first[j] /\ first[j] = Data(i)
          BY <1>3, <1>8, <1>9, <1>10, <4>1, <4>3
        <5> QED
          BY <4>2, <5>1 DEF ByteAt
      <4>4. CASE j = at
        <5>1. ~(i <= n) /\ i = n + 1 /\ j <= from
          BY <1>3, <1>10, <4>1, <4>4
        <5>2. last[j] = Byte(128)
          BY <1>8, <4>1, <4>4, <5>1
        <5> QED
          BY <4>2, <5>1, <5>2 DEF ByteAt
      <4>5. CASE j > at
        <5>1. ~(i <= n) /\ i # n + 1 /\ ~(j <= from) /\ (i <= size - LenBytes <=> j <= Chunk - LenBytes)
          BY <1>0, <1>3, <1>10, <2>1, <4>1, <4>5
        <5>2. CASE j <= Chunk - LenBytes
          BY <1>8, <4>1, <4>2, <5>1, <5>2 DEF ByteAt
        <5>3. CASE ~(j <= Chunk - LenBytes)
          <6> DEFINE g == j - (Chunk - LenBytes)
          <6>1. g \in 1..LenBytes /\ LenBytes - g = size - i
            BY <1>0, <1>3, <2>1, <4>1, <5>3
          <6>2. last[j] = Byte(LengthByte(g))
            BY <1>8, <4>1, <5>1, <5>3
          <6> HIDE DEF g
          <6>3. LengthByte(g) = ((n * 8) \div pow2[Bits * (size - i)]) % pow2[Bits]
            BY <1>5, <6>1
          <6> QED
            BY <4>2, <5>1, <5>3, <6>2, <6>3 DEF ByteAt
        <5> QED
          BY <5>2, <5>3
      <4> QED
        BY <1>3, <4>1, <4>3, <4>4, <4>5
    <3> QED
      BY <3>1, <3>2
  <2>7. size \in Nat
    BY <1>0, <1>3, <2>1
  <2> QED
    BY <1>2, <1>3, <2>3, <2>5, <2>6, <2>7, SeqIs, ZenonT(60)
<1>11. CASE two
  <2> DEFINE k == 2 * Chunk - LenBytes - chunk_pos - 1
             size == n + 1 + k + LenBytes
  <2>1. k \in 0..(Chunk - 1) /\ size = Len(h) + Chunk + Chunk
    BY <1>0, <1>3, <1>4, <1>11
  <2>2. Chunked(size)
    <3>1. Len(h) + Chunk \in Nat /\ Chunked(Len(h) + Chunk)
      BY <1>0, <1>1, <1>3, Another
    <3> QED
      BY <2>1, <3>1, Another
  <2>3. Padding(n) = [i \in 1..size |-> ByteAt(n, size, i)]
    BY <1>3, <2>1, <2>2, PaddingIs DEF ByteAt
  <2> HIDE DEF k, size, n
  <2>4. h' = (h \o first) \o last
    <3>1. h' = h \o (first \o last)
      BY <1>2, <1>11
    <3>2. first \in Seq(Octet) /\ last \in Seq(Octet)
      BY <1>0, <1>6, <1>7
    <3> QED
      BY <1>3, <3>1, <3>2, ConcatAssociative, SMTT(60)
  <2> DEFINE m == h \o first
  <2>5. /\ m \in Seq(Octet) /\ Len(m) = Len(h) + Chunk
        /\ \A i \in 1..Len(h) : m[i] = h[i]
        /\ \A i \in 1..Chunk : m[Len(h) + i] = first[i]
    BY <1>3, <1>6, Appended
  <2> HIDE DEF m
  <2>6. /\ h' \in Seq(Octet) /\ Len(h') = size
        /\ \A i \in 1..Len(m) : h'[i] = m[i]
        /\ \A i \in 1..Chunk : h'[Len(m) + i] = last[i]
    BY <1>7, <2>1, <2>4, <2>5, Appended DEF m
  <2>7. ASSUME NEW i \in 1..size PROVE h'[i] = ByteAt(n, size, i)
    <3>1. CASE i <= Len(h)
      <4>1. i \in 1..Len(h) /\ i <= n /\ i \in 1..Len(m)
        BY <1>0, <1>3, <2>5, <3>1
      <4> QED
        BY <1>3, <2>5, <2>6, <4>1 DEF ByteAt
    <3>2. CASE ~(i <= Len(h)) /\ i <= Len(m)
      <4> DEFINE j == i - Len(h)
      <4>1. j \in 1..Chunk /\ Len(h) + j = i /\ i \in 1..Len(m)
        BY <1>0, <1>3, <2>5, <3>2
      <4> HIDE DEF j
      <4>2. h'[i] = first[j]
        BY <2>5, <2>6, <4>1
      <4>3. CASE j <= chunk_pos
        <5>1. i <= n /\ first[j] = Data(i)
          BY <1>3, <1>9, <4>1, <4>3
        <5> QED
          BY <4>2, <5>1 DEF ByteAt
      <4>4. CASE j = at
        <5>1. ~(i <= n) /\ i = n + 1
          BY <1>3, <4>1, <4>4
        <5>2. first[j] = Byte(128)
          BY <1>8, <4>1, <4>4
        <5> QED
          BY <4>2, <5>1, <5>2 DEF ByteAt
      <4>5. CASE j > at
        <5>1. ~(i <= n) /\ i # n + 1 /\ i <= size - LenBytes /\ j # at
          BY <1>0, <1>3, <2>1, <4>1, <4>5
        <5>2. first[j] = Byte(0)
          BY <1>8, <1>11, <4>1, <4>5, <5>1
        <5> QED
          BY <4>2, <5>1, <5>2 DEF ByteAt
      <4> QED
        BY <1>3, <4>1, <4>3, <4>4, <4>5
    <3>3. CASE ~(i <= Len(m))
      <4> DEFINE j == i - Len(m)
      <4>1. j \in 1..Chunk /\ Len(m) + j = i
        BY <1>0, <1>3, <2>1, <2>5, <3>3
      <4> HIDE DEF j
      <4>2. h'[i] = last[j]
        BY <2>6, <4>1
      <4>3. ~(i <= n) /\ i # n + 1 /\ ~(j <= from) /\ (i <= size - LenBytes <=> j <= Chunk - LenBytes)
        BY <1>0, <1>3, <1>11, <2>1, <2>5, <4>1
      <4>4. CASE j <= Chunk - LenBytes
        BY <1>8, <4>1, <4>2, <4>3, <4>4 DEF ByteAt
      <4>5. CASE ~(j <= Chunk - LenBytes)
        <5> DEFINE g == j - (Chunk - LenBytes)
        <5>1. g \in 1..LenBytes /\ LenBytes - g = size - i
          BY <1>0, <1>3, <2>1, <2>5, <4>1, <4>5, SMTT(60)
        <5>2. last[j] = Byte(LengthByte(g))
          BY <1>8, <4>1, <4>3, <4>5
        <5> HIDE DEF g
        <5>3. LengthByte(g) = ((n * 8) \div pow2[Bits * (size - i)]) % pow2[Bits]
          BY <1>5, <5>1
        <5> QED
          BY <4>2, <4>3, <4>5, <5>2, <5>3 DEF ByteAt
      <4> QED
        BY <4>4, <4>5
    <3> QED
      BY <3>1, <3>2, <3>3
  <2>8. size \in Nat
    BY <1>0, <1>3, <2>1
  <2> QED
    BY <1>2, <1>3, <2>3, <2>6, <2>7, <2>8, SeqIs, ZenonT(60)
<1> QED
  BY <1>10, <1>11

(* When the hash is closed, the compression function has been given the     *)
(* message, one 1 bit, the fewest zeros that make whole chunks, and the     *)
(* number of bits in eight big-endian bytes, which is the padding of        *)
(* SHA-256: for any message, any way it was cut into writes, and any size   *)
(* of a chunk that holds the length.                                        *)
THEOREM PaddedAlways == HashSpec => []Padded
<1>1. HashInit => Padded
  BY DEF HashInit, Padded
<1>2. StreamInv /\ Padded /\ [HashNext]_hashVars => Padded'
  <2> SUFFICES ASSUME StreamInv, Padded, [HashNext]_hashVars PROVE Padded'
    OBVIOUS
  <2>1. CASE HashClose
    BY <2>1, PaddedClose DEF Padded
  <2>2. CASE HashWrite \/ HashWhole \/ HashPart \/ HashWritten
    BY <2>2 DEF HashWrite, HashWhole, HashPart, HashWritten, Padded
  <2>3. CASE UNCHANGED hashVars
    BY <2>3 DEF hashVars, Padded
  <2> QED
    BY <2>1, <2>2, <2>3 DEF HashNext
<1> QED
  BY StreamInit, StreamStep, <1>1, <1>2, PTL DEF HashSpec

-----------------------------------------------------------------------------

(* What the folds over a path work on: places, the state of path_cleann,    *)
(* and their steps as functions of pairs, so that the lemmas about folds    *)
(* apply.                                                                   *)
Places == Seq(STRING \cup Comps)
Accs == [out : Seq(Comps), up : Nat, wl : Nat]
OpL == [y \in Places \X Comps |-> Enter(y[1], y[2])]
OpW == [y \in Nat \X Comps |-> y[1] + WidthOf(y[2])]
OpC == [b \in BOOLEAN |-> [y \in Accs \X Comps |-> Component(b, y[1], y[2])]]

(* Every component has a number of bytes.                                   *)
LEMMA CompsOk == \A c \in Comps : WidthOf(c) \in Nat
  BY WidthAssumption DEF Comps, WidthOf

(* Front takes the last element off, and Append puts it back.               *)
LEMMA FrontOf ==
  ASSUME NEW E, NEW s \in Seq(E), s # << >>
  PROVE  /\ Front(s) \in Seq(E) /\ Len(Front(s)) = Len(s) - 1 /\ Len(s) \in Nat \ {0}
         /\ \A i \in 1..(Len(s) - 1) : Front(s)[i] = s[i]
         /\ Last(s) \in E /\ Append(Front(s), Last(s)) = s
<1>1. Len(s) \in Nat \ {0} /\ DOMAIN s = 1..Len(s)
  BY EmptySeq, LenProperties
<1> DEFINE n == Len(s)
           f == SubSeq(s, 1, n - 1)
<1>2. f \in Seq(E) /\ Len(f) = n - 1 /\ \A i \in 1..(n - 1) : f[i] = s[i]
  BY <1>1, SubSeqProperties
<1>3. s[n] \in E
  BY <1>1, ElementOfSeq
<1> HIDE DEF f
<1>4. Append(f, s[n]) \in Seq(E) /\ Len(Append(f, s[n])) = n
  <2>1. Append(f, s[n]) \in Seq(E) /\ Len(Append(f, s[n])) = Len(f) + 1
    BY <1>2, <1>3, AppendProperties
  <2> QED
    BY <1>1, <1>2, <2>1
<1>5. \A i \in 1..Len(f) : Append(f, s[n])[i] = f[i]
  BY <1>2, <1>3, AppendProperties
<1>6. Append(f, s[n])[Len(f) + 1] = s[n]
  BY <1>2, <1>3, AppendProperties
<1>7. Append(f, s[n]) = s
  <2>1. \A i \in 1..n : Append(f, s[n])[i] = s[i]
    BY <1>1, <1>2, <1>5, <1>6
  <2> QED
    BY <1>1, <1>4, <2>1, SeqEqual
<1> QED
  BY <1>1, <1>2, <1>3, <1>7 DEF Front, Last, f

(* The steps stay within the states of path_cleann and within places.       *)
LEMMA PutOk ==
  ASSUME NEW a \in Accs, NEW c \in Comps
  PROVE  Put(a, c) \in Accs
<1>1. Append(a.out, c) \in Seq(Comps)
  BY AppendProperties DEF Accs
<1>2. WidthOf(c) \in Nat
  BY CompsOk
<1>3. a \in Accs /\ a.up \in Nat /\ a.wl \in Nat /\ a.out \in Seq(Comps)
  BY DEF Accs
<1> DEFINE wl == a.wl + WidthOf(c) + (IF a.out = <<>> THEN 0 ELSE 1)
           up == IF c = ".." THEN a.up + 1 ELSE a.up
           out == Append(a.out, c)
<1>4. wl \in Nat /\ up \in Nat
  BY <1>2, <1>3
<1>5. Put(a, c) = [[[a EXCEPT !.out = out] EXCEPT !.wl = wl] EXCEPT !.up = up]
  BY DEF Put, Accs
<1> HIDE DEF wl, up, out
<1> QED
  BY <1>1, <1>3, <1>4, <1>5 DEF Accs, out

LEMMA BackOk ==
  ASSUME NEW a \in Accs, Len(a.out) > a.up
  PROVE  Back(a) \in Accs
<1>1. a.out # << >>
  BY EmptySeq DEF Accs
<1>2. Front(a.out) \in Seq(Comps)
  BY <1>1, FrontOf DEF Accs
<1> QED
  BY <1>2 DEF Accs, Back

LEMMA TypedC ==
  ASSUME NEW b \in BOOLEAN
  PROVE /\ OpC[b] \in [Accs \X Comps -> Accs]
        /\ \A a \in Accs, c \in Comps : OpC[b][<<a, c>>] = Component(b, a, c)
        /\ Nothing(b) \in Accs
<1>1. ASSUME NEW a \in Accs, NEW c \in Comps PROVE Component(b, a, c) \in Accs
  <2>1. Put(a, c) \in Accs /\ (Len(a.out) > a.up => Back(a) \in Accs) /\ Put(a, "..") \in Accs
    BY PutOk, BackOk DEF Comps
  <2> QED
    BY <2>1 DEF Component, DotDot
<1>2. Nothing(b) \in Accs
  BY EmptySeq DEF Nothing, Accs
<1> QED
  BY <1>1, <1>2 DEF OpC

LEMMA TypedL ==
  /\ OpL \in [Places \X Comps -> Places]
  /\ \A d \in Places, c \in Comps : OpL[<<d, c>>] = Enter(d, c)
<1>1. ASSUME NEW d \in Places, NEW c \in Comps PROVE Enter(d, c) \in Places
  <2>1. Append(d, c) \in Places
    BY AppendProperties DEF Places
  <2>2. d # << >> => Front(d) \in Places
    BY FrontOf DEF Places
  <2> QED
    BY <2>1, <2>2 DEF Enter
<1> QED
  BY <1>1 DEF OpL

LEMMA TypedW ==
  OpW \in [Nat \X Comps -> Nat] /\ \A a \in Nat, c \in Comps : OpW[<<a, c>>] = a + WidthOf(c)
  BY CompsOk DEF OpW

(* FoldLeft of a path is the step along its components, for the three folds *)
(* of the module, and so of a path with one component more it is one step   *)
(* more.                                                                    *)
LEMMA SumAlong ==
  ASSUME NEW s \in Seq(Comps)
  PROVE  SumWidth(s) = Along(OpW, 0, s)
<1> DEFINE n == Len(s)
           base == 0
           Body(f, t) == IF t = {} THEN base ELSE f[t \ {Max(t)}] + WidthOf(s[Max(t)])
           it == CHOOSE f : f = [t \in SUBSET DOMAIN s |-> Body(f, t)]
<1>1. DOMAIN s = 1..n /\ n \in Nat /\ \A k \in 1..n : s[k] \in Comps
  BY LenProperties, ElementOfSeq
<1>2. SumWidth(s) = it[DOMAIN s]
  BY DEF SumWidth, FoldLeft, MapThenFoldSet
<1>3. /\ OpW \in [Nat \X Comps -> Nat] /\ base \in Nat
      /\ \A a \in Nat, c \in Comps : OpW[<<a, c>>] = a + WidthOf(c)
  BY TypedW
<1> HIDE DEF base
<1>4. PICK f \in [SUBSET (1..n) -> Nat] : Iterates(f, OpW, base, s)
  BY <1>3, IterExists
<1>5. \A t \in SUBSET (1..n) : f[t] = Body(f, t)
  <2> SUFFICES ASSUME NEW t \in SUBSET (1..n), t # {} PROVE f[t] = Body(f, t)
    BY <1>4 DEF Iterates
  <2>1. Max(t) = Greatest(t) /\ Max(t) \in t
    BY <1>1, GreatestOf DEF Max, Greatest
  <2>2. f[t \ {Max(t)}] \in Nat /\ s[Max(t)] \in Comps
    BY <1>1, <2>1
  <2> QED
    BY <1>3, <1>4, <2>1, <2>2 DEF Iterates
<1>6. \A t \in SUBSET (1..n) : it[t] = Body(it, t)
  <2> HIDE DEF Body
  <2>1. f = [t \in SUBSET DOMAIN s |-> Body(f, t)]
    BY <1>1, <1>5
  <2>2. it = [t \in SUBSET DOMAIN s |-> Body(it, t)]
    BY <2>1
  <2> HIDE DEF it
  <2> QED
    BY <1>1, <2>2
<1> HIDE DEF it
<1>7. IteratesIn(Nat, it, OpW, base, s)
  <2>1. it[{}] = base
    BY <1>6
  <2>2. ASSUME NEW t \in SUBSET (1..n), t # {}, it[t \ {Greatest(t)}] \in Nat
        PROVE  it[t] = OpW[<<it[t \ {Greatest(t)}], s[Greatest(t)]>>]
    <3>1. Max(t) = Greatest(t) /\ Max(t) \in t
      BY <1>1, <2>2, GreatestOf DEF Max, Greatest
    <3>2. it[t] = Body(it, t) /\ s[Greatest(t)] \in Comps
      BY <1>1, <1>6, <2>2, <3>1
    <3> QED
      BY <1>3, <2>2, <3>1, <3>2
  <2> QED
    BY <2>1, <2>2 DEF IteratesIn
<1>8. it[1..n] = Along(OpW, base, s)
  <2>1. IterLaw(Nat, Comps, it, OpW, base, s)
    BY <1>3, <1>7, IterAlong
  <2> QED
    BY <2>1 DEF IterLaw
<1> QED
  BY <1>1, <1>2, <1>8 DEF base

LEMMA SumAppend ==
  ASSUME NEW s \in Seq(Comps), NEW c \in Comps
  PROVE  /\ SumWidth(s) \in Nat
         /\ SumWidth(<< >>) = 0
         /\ SumWidth(Append(s, c)) = SumWidth(s) + WidthOf(c)
<1> DEFINE base == 0
<1>1. /\ OpW \in [Nat \X Comps -> Nat] /\ base \in Nat
      /\ \A a \in Nat : OpW[<<a, c>>] = a + WidthOf(c)
  BY TypedW
<1>2. << >> \in Seq(Comps) /\ Append(s, c) \in Seq(Comps)
  BY EmptySeq, AppendProperties
<1>3. OpW \in [Nat \X Comps -> Nat]
  BY <1>1
<1> HIDE DEF base
<1>4. AppendLaw(Nat, Comps, OpW, base, s, c)
  BY <1>1, <1>3, AlongAppend
<1>5. SumWidth(s) = Along(OpW, base, s)
  BY SumAlong DEF base
<1>6. SumWidth(<< >>) = Along(OpW, base, << >>)
  BY <1>2, SumAlong DEF base
<1>7. SumWidth(Append(s, c)) = Along(OpW, base, Append(s, c))
  BY <1>2, SumAlong DEF base
<1> QED
  BY <1>1, <1>4, <1>5, <1>6, <1>7 DEF AppendLaw, base

(* Where a path leads.                                                      *)
LEMMA LeadAlong ==
  ASSUME NEW s \in Seq(Comps), NEW d \in Places, NEW b \in BOOLEAN
  PROVE  Lead(d, b, s) = Along(OpL, (IF b THEN << >> ELSE d), s)
<1> DEFINE n == Len(s)
           base == (IF b THEN << >> ELSE d)
           Body(f, t) == IF t = {} THEN base ELSE Enter(f[t \ {Max(t)}], s[Max(t)])
           it == CHOOSE f : f = [t \in SUBSET DOMAIN s |-> Body(f, t)]
<1>1. DOMAIN s = 1..n /\ n \in Nat /\ \A k \in 1..n : s[k] \in Comps
  BY LenProperties, ElementOfSeq
<1>2. Lead(d, b, s) = it[DOMAIN s]
  BY DEF Lead, FoldLeft, MapThenFoldSet
<1>3. /\ OpL \in [Places \X Comps -> Places] /\ base \in Places
      /\ \A a \in Places, c \in Comps : OpL[<<a, c>>] = Enter(a, c)
  BY TypedL, EmptySeq DEF Places
<1> HIDE DEF base
<1>4. PICK f \in [SUBSET (1..n) -> Places] : Iterates(f, OpL, base, s)
  BY <1>3, IterExists
<1>5. \A t \in SUBSET (1..n) : f[t] = Body(f, t)
  <2> SUFFICES ASSUME NEW t \in SUBSET (1..n), t # {} PROVE f[t] = Body(f, t)
    BY <1>4 DEF Iterates
  <2>1. Max(t) = Greatest(t) /\ Max(t) \in t
    BY <1>1, GreatestOf DEF Max, Greatest
  <2>2. f[t \ {Max(t)}] \in Places /\ s[Max(t)] \in Comps
    BY <1>1, <2>1
  <2> QED
    BY <1>3, <1>4, <2>1, <2>2 DEF Iterates
<1>6. \A t \in SUBSET (1..n) : it[t] = Body(it, t)
  <2> HIDE DEF Body
  <2>1. f = [t \in SUBSET DOMAIN s |-> Body(f, t)]
    BY <1>1, <1>5
  <2>2. it = [t \in SUBSET DOMAIN s |-> Body(it, t)]
    BY <2>1
  <2> HIDE DEF it
  <2> QED
    BY <1>1, <2>2
<1> HIDE DEF it
<1>7. IteratesIn(Places, it, OpL, base, s)
  <2>1. it[{}] = base
    BY <1>6
  <2>2. ASSUME NEW t \in SUBSET (1..n), t # {}, it[t \ {Greatest(t)}] \in Places
        PROVE  it[t] = OpL[<<it[t \ {Greatest(t)}], s[Greatest(t)]>>]
    <3>1. Max(t) = Greatest(t) /\ Max(t) \in t
      BY <1>1, <2>2, GreatestOf DEF Max, Greatest
    <3>2. it[t] = Body(it, t) /\ s[Greatest(t)] \in Comps
      BY <1>1, <1>6, <2>2, <3>1
    <3> QED
      BY <1>3, <2>2, <3>1, <3>2
  <2> QED
    BY <2>1, <2>2 DEF IteratesIn
<1>8. it[1..n] = Along(OpL, base, s)
  <2>1. IterLaw(Places, Comps, it, OpL, base, s)
    BY <1>3, <1>7, IterAlong
  <2> QED
    BY <2>1 DEF IterLaw
<1> QED
  BY <1>1, <1>2, <1>8 DEF base

LEMMA LeadAppend ==
  ASSUME NEW s \in Seq(Comps), NEW c \in Comps, NEW d \in Places, NEW b \in BOOLEAN
  PROVE  /\ Lead(d, b, s) \in Places
         /\ Lead(d, b, << >>) = (IF b THEN << >> ELSE d)
         /\ Lead(d, b, Append(s, c)) = Enter(Lead(d, b, s), c)
<1> DEFINE base == (IF b THEN << >> ELSE d)
<1>1. /\ OpL \in [Places \X Comps -> Places] /\ base \in Places
      /\ \A a \in Places : OpL[<<a, c>>] = Enter(a, c)
  BY TypedL, EmptySeq DEF Places
<1>2. << >> \in Seq(Comps) /\ Append(s, c) \in Seq(Comps)
  BY EmptySeq, AppendProperties
<1>3. OpL \in [Places \X Comps -> Places]
  BY <1>1
<1> HIDE DEF base
<1>4. AppendLaw(Places, Comps, OpL, base, s, c)
  BY <1>1, <1>3, AlongAppend
<1>5. Lead(d, b, s) = Along(OpL, base, s)
  BY LeadAlong DEF base
<1>6. Lead(d, b, << >>) = Along(OpL, base, << >>)
  BY <1>2, LeadAlong DEF base
<1>7. Lead(d, b, Append(s, c)) = Along(OpL, base, Append(s, c))
  BY <1>2, LeadAlong DEF base
<1> QED
  BY <1>1, <1>4, <1>5, <1>6, <1>7 DEF AppendLaw, base

(* What path_cleann has after the components so far.                        *)
LEMMA CleanAlong ==
  ASSUME NEW s \in Seq(Comps), NEW b \in BOOLEAN
  PROVE  Components(b, s) = Along(OpC[b], Nothing(b), s)
<1> DEFINE n == Len(s)
           base == Nothing(b)
           Body(f, t) == IF t = {} THEN base ELSE Component(b, f[t \ {Max(t)}], s[Max(t)])
           it == CHOOSE f : f = [t \in SUBSET DOMAIN s |-> Body(f, t)]
<1>1. DOMAIN s = 1..n /\ n \in Nat /\ \A k \in 1..n : s[k] \in Comps
  BY LenProperties, ElementOfSeq
<1>2. Components(b, s) = it[DOMAIN s]
  BY DEF Components, FoldLeft, MapThenFoldSet
<1>3. /\ OpC[b] \in [Accs \X Comps -> Accs] /\ base \in Accs
      /\ \A a \in Accs, c \in Comps : OpC[b][<<a, c>>] = Component(b, a, c)
  BY TypedC
<1> HIDE DEF base
<1>4. PICK f \in [SUBSET (1..n) -> Accs] : Iterates(f, OpC[b], base, s)
  BY <1>3, IterExists
<1>5. \A t \in SUBSET (1..n) : f[t] = Body(f, t)
  <2> SUFFICES ASSUME NEW t \in SUBSET (1..n), t # {} PROVE f[t] = Body(f, t)
    BY <1>4 DEF Iterates
  <2>1. Max(t) = Greatest(t) /\ Max(t) \in t
    BY <1>1, GreatestOf DEF Max, Greatest
  <2>2. f[t \ {Max(t)}] \in Accs /\ s[Max(t)] \in Comps
    BY <1>1, <2>1
  <2> QED
    BY <1>3, <1>4, <2>1, <2>2 DEF Iterates
<1>6. \A t \in SUBSET (1..n) : it[t] = Body(it, t)
  <2> HIDE DEF Body
  <2>1. f = [t \in SUBSET DOMAIN s |-> Body(f, t)]
    BY <1>1, <1>5
  <2>2. it = [t \in SUBSET DOMAIN s |-> Body(it, t)]
    BY <2>1
  <2> HIDE DEF it
  <2> QED
    BY <1>1, <2>2
<1> HIDE DEF it
<1>7. IteratesIn(Accs, it, OpC[b], base, s)
  <2>1. it[{}] = base
    BY <1>6
  <2>2. ASSUME NEW t \in SUBSET (1..n), t # {}, it[t \ {Greatest(t)}] \in Accs
        PROVE  it[t] = OpC[b][<<it[t \ {Greatest(t)}], s[Greatest(t)]>>]
    <3>1. Max(t) = Greatest(t) /\ Max(t) \in t
      BY <1>1, <2>2, GreatestOf DEF Max, Greatest
    <3>2. it[t] = Body(it, t) /\ s[Greatest(t)] \in Comps
      BY <1>1, <1>6, <2>2, <3>1
    <3> QED
      BY <1>3, <2>2, <3>1, <3>2
  <2> QED
    BY <2>1, <2>2 DEF IteratesIn
<1>8. it[1..n] = Along(OpC[b], base, s)
  <2>1. IterLaw(Accs, Comps, it, OpC[b], base, s)
    BY <1>3, <1>7, IterAlong
  <2> QED
    BY <2>1 DEF IterLaw
<1> QED
  BY <1>1, <1>2, <1>8 DEF base

LEMMA CleanAppend ==
  ASSUME NEW s \in Seq(Comps), NEW c \in Comps, NEW b \in BOOLEAN
  PROVE  /\ Components(b, s) \in Accs
         /\ Components(b, << >>) = Nothing(b)
         /\ Components(b, Append(s, c)) = Component(b, Components(b, s), c)
<1> DEFINE base == Nothing(b)
<1>1. /\ OpC[b] \in [Accs \X Comps -> Accs] /\ base \in Accs
      /\ \A a \in Accs : OpC[b][<<a, c>>] = Component(b, a, c)
  BY TypedC
<1>2. << >> \in Seq(Comps) /\ Append(s, c) \in Seq(Comps)
  BY EmptySeq, AppendProperties
<1>3. OpC[b] \in [Accs \X Comps -> Accs]
  BY <1>1
<1> HIDE DEF base
<1>4. AppendLaw(Accs, Comps, OpC[b], base, s, c)
  BY <1>1, <1>3, AlongAppend
<1>5. Components(b, s) = Along(OpC[b], base, s)
  BY CleanAlong DEF base
<1>6. Components(b, << >>) = Along(OpC[b], base, << >>)
  BY <1>2, CleanAlong DEF base
<1>7. Components(b, Append(s, c)) = Along(OpC[b], base, Append(s, c))
  BY <1>2, CleanAlong DEF base
<1> QED
  BY <1>1, <1>4, <1>5, <1>6, <1>7 DEF AppendLaw, base

-----------------------------------------------------------------------------

(* A sequence is empty or one that has an element appended; what holds of   *)
(* the first and is kept by appending holds of all.                         *)
LEMMA AppendFront ==
  ASSUME NEW E, NEW s \in Seq(E), NEW c \in E
  PROVE  Append(s, c) # << >> /\ Len(Append(s, c)) = Len(s) + 1 /\ Front(Append(s, c)) = s
<1> DEFINE t == Append(s, c)
<1>0. Len(s) \in Nat
  BY LenProperties
<1>1. t \in Seq(E) /\ Len(t) = Len(s) + 1
  BY AppendProperties
<1>2. \A i \in 1..Len(s) : t[i] = s[i]
  BY AppendProperties
<1> HIDE DEF t
<1>3. t # << >>
  BY <1>0, <1>1, EmptySeq
<1>4. /\ Front(t) \in Seq(E) /\ Len(Front(t)) = Len(s)
      /\ \A i \in 1..Len(s) : Front(t)[i] = t[i]
  BY <1>0, <1>1, <1>3, FrontOf, SMTT(60)
<1>5. Front(t) = s
  BY <1>2, <1>4, SeqEqual
<1> QED
  BY <1>1, <1>3, <1>5 DEF t

LEMMA SeqInd ==
  ASSUME NEW E, NEW G, << >> \in G,
         \A s \in Seq(E), c \in E : s \in G => Append(s, c) \in G
  PROVE  \A s \in Seq(E) : s \in G
<1> DEFINE Good == {n \in Nat : \A s \in Seq(E) : Len(s) = n => s \in G}
<1>1. 0 \in Good
  BY EmptySeq
<1>2. ASSUME NEW n \in Nat, n \in Good PROVE n + 1 \in Good
  <2> SUFFICES ASSUME NEW s \in Seq(E), Len(s) = n + 1 PROVE s \in G
    OBVIOUS
  <2>1. s # << >>
    BY EmptySeq
  <2>2. Front(s) \in Seq(E) /\ Len(Front(s)) = n /\ Last(s) \in E /\ Append(Front(s), Last(s)) = s
    BY <2>1, FrontOf
  <2> QED
    BY <1>2, <2>2
<1>3. \A n \in Nat : n \in Good
  <2> HIDE DEF Good
  <2> QED
    BY <1>1, <1>2, NatInd
<1> QED
  BY <1>3, LenProperties

(* The names that are not special.                                          *)
Real == Comps \ {"", ".", ".."}

(* What is written: leading "..", up of them and none in a rooted path, and *)
(* then names only.                                                         *)
Shape(b, out, up) ==
  /\ up <= Len(out)
  /\ b => up = 0
  /\ \A i \in 1..Len(out) : IF i <= up THEN out[i] = ".." ELSE out[i] \in Real

(* The four things a component does to what is written: nothing, take back  *)
(* a name, add a "..", add a name.                                          *)
Putted(a, a1, c) ==
  /\ a1.out = Append(a.out, c)
  /\ a1.wl = a.wl + WidthOf(c) + (IF a.out = << >> THEN 0 ELSE 1)

(* Put is the third or the fourth of them.                                  *)
LEMMA PutIs ==
  ASSUME NEW a \in Accs, NEW c \in Comps
  PROVE  Putted(a, Put(a, c), c) /\ Put(a, c).up = IF c = ".." THEN a.up + 1 ELSE a.up
<1> DEFINE wl == a.wl + WidthOf(c) + (IF a.out = <<>> THEN 0 ELSE 1)
           up == IF c = ".." THEN a.up + 1 ELSE a.up
           out == Append(a.out, c)
<1>1. Put(a, c) = [[[a EXCEPT !.out = out] EXCEPT !.wl = wl] EXCEPT !.up = up]
  BY DEF Put, Accs
<1> HIDE DEF wl, up, out
<1>2. Put(a, c).out = out /\ Put(a, c).wl = wl /\ Put(a, c).up = up
  BY <1>1 DEF Accs
<1> QED
  BY <1>2 DEF wl, up, out, Putted

(* What a component does to what is written.                                *)
Kept(b, a, a1, c) ==
  a1 = a /\ (c \in {"", "."} \/ (c = ".." /\ b /\ a.out = << >>))

(* The component took back the name before it.                              *)
Taken(a, a1, c) ==
  /\ c = ".." /\ Len(a.out) > a.up /\ a.out # << >> /\ Last(a.out) \in Real
  /\ a1.out = Front(a.out) /\ a1.up = a.up /\ a1.wl = a.wl

(* The component is a ".." that nothing before it absorbs.                  *)
Upward(b, a, a1, c) ==
  c = ".." /\ ~b /\ Len(a.out) = a.up /\ Putted(a, a1, c) /\ a1.up = a.up + 1

(* The component is a name.                                                 *)
Named(a, a1, c) == c \in Real /\ Putted(a, a1, c) /\ a1.up = a.up

(* A component of a path does one of the four.                              *)
LEMMA ComponentCases ==
  ASSUME NEW b \in BOOLEAN, NEW a \in Accs, Shape(b, a.out, a.up), NEW c \in Comps
  PROVE  LET a1 == Component(b, a, c)
         IN Kept(b, a, a1, c) \/ Taken(a, a1, c) \/ Upward(b, a, a1, c) \/ Named(a, a1, c)
<1> DEFINE a1 == Component(b, a, c)
<1>0. a.out \in Seq(Comps) /\ a.up \in Nat /\ Len(a.out) \in Nat /\ a.up <= Len(a.out)
  BY LenProperties DEF Accs, Shape
<1>1. CASE c \in {"", "."}
  BY <1>1 DEF Component, Kept
<1>2. CASE c = ".." /\ Len(a.out) > a.up
  <2>1. a.out # << >>
    BY <1>0, <1>2, EmptySeq
  <2>2. Last(a.out) \in Real
    <3>1. Len(a.out) \in 1..Len(a.out) /\ ~(Len(a.out) <= a.up)
      BY <1>0, <1>2
    <3> QED
      BY <3>1 DEF Shape, Last
  <2>3. a1 = Back(a)
    BY <1>2 DEF Component, DotDot
  <2>4. Back(a).out = Front(a.out) /\ Back(a).up = a.up /\ Back(a).wl = a.wl
    BY DEF Back, Accs
  <2> QED
    BY <1>2, <2>1, <2>2, <2>3, <2>4 DEF Taken
<1>3. CASE c = ".." /\ ~(Len(a.out) > a.up) /\ b
  <2>1. a.out = << >>
    BY <1>0, <1>3, EmptySeq DEF Shape
  <2>2. a1 = a
    BY <1>3 DEF Component, DotDot
  <2> QED
    BY <1>3, <2>1, <2>2 DEF Kept
<1>4. CASE c = ".." /\ ~(Len(a.out) > a.up) /\ ~b
  <2>1. a1 = Put(a, c) /\ Len(a.out) = a.up
    BY <1>0, <1>4 DEF Component, DotDot
  <2> QED
    BY <1>4, <2>1, PutIs DEF Upward
<1>5. CASE c \in Real
  <2>1. a1 = Put(a, c) /\ c # ".."
    BY <1>5 DEF Component, Real
  <2> QED
    BY <1>5, <2>1, PutIs DEF Named
<1> QED
  BY <1>1, <1>2, <1>3, <1>4, <1>5 DEF Real

(* The shape is kept when a component is written.                           *)
LEMMA ShapePut ==
  ASSUME NEW b \in BOOLEAN, NEW a \in Accs, NEW a1 \in Accs, Shape(b, a.out, a.up), NEW c \in Comps,
         Upward(b, a, a1, c) \/ Named(a, a1, c)
  PROVE  Shape(b, a1.out, a1.up)
<1> DEFINE out == a.out
<1>0. out \in Seq(Comps) /\ Len(out) \in Nat /\ a.up \in Nat /\ a1.out = Append(out, c)
  BY LenProperties DEF Accs, Upward, Named, Putted
<1> HIDE DEF out
<1>1. Len(Append(out, c)) = Len(out) + 1
  BY <1>0, AppendProperties
<1>2. \A i \in 1..Len(out) : Append(out, c)[i] = out[i]
  BY <1>0, AppendProperties
<1>3. Append(out, c)[Len(out) + 1] = c
  BY <1>0, AppendProperties
<1>4. \A i \in 1..(Len(out) + 1) : i \in 1..Len(out) \/ i = Len(out) + 1
  BY <1>0
<1>5. CASE Upward(b, a, a1, c)
  BY <1>0, <1>1, <1>2, <1>3, <1>4, <1>5 DEF Upward, Shape, out
<1>6. CASE Named(a, a1, c)
  BY <1>0, <1>1, <1>2, <1>3, <1>4, <1>6 DEF Named, Shape, out
<1> QED
  BY <1>5, <1>6

(* The shape is kept by every component.                                    *)
LEMMA ComponentShape ==
  ASSUME NEW b \in BOOLEAN, NEW a \in Accs, Shape(b, a.out, a.up), NEW c \in Comps
  PROVE  Component(b, a, c) \in Accs /\ Shape(b, Component(b, a, c).out, Component(b, a, c).up)
<1> DEFINE a1 == Component(b, a, c)
<1>0. a1 \in Accs
  <2>1. OpC[b] \in [Accs \X Comps -> Accs] /\ OpC[b][<<a, c>>] = a1
    BY TypedC
  <2> HIDE DEF a1
  <2> QED
    BY <2>1
<1>1. Kept(b, a, a1, c) \/ Taken(a, a1, c) \/ Upward(b, a, a1, c) \/ Named(a, a1, c)
  BY ComponentCases
<1> SUFFICES a1 \in Accs /\ Shape(b, a1.out, a1.up)
  OBVIOUS
<1> HIDE DEF a1
<1>2. CASE Kept(b, a, a1, c)
  BY <1>0, <1>2 DEF Kept
<1>3. CASE Taken(a, a1, c)
  <2>1. a.out \in Seq(Comps) /\ a.out # << >> /\ a.up \in Nat
    BY <1>3 DEF Taken, Accs
  <2>2. /\ Len(Front(a.out)) = Len(a.out) - 1 /\ Len(a.out) \in Nat \ {0}
        /\ \A i \in 1..(Len(a.out) - 1) : Front(a.out)[i] = a.out[i]
    BY <2>1, FrontOf
  <2>3. \A i \in 1..(Len(a.out) - 1) : i \in 1..Len(a.out)
    BY <2>2
  <2> QED
    BY <1>0, <1>3, <2>1, <2>2, <2>3 DEF Taken, Shape
<1>4. CASE Upward(b, a, a1, c) \/ Named(a, a1, c)
  BY <1>0, <1>4, ShapePut
<1> QED
  BY <1>0, <1>1, <1>2, <1>3, <1>4

(* What path_cleann has written always has the shape.                       *)
LEMMA ShapeAlways ==
  ASSUME NEW b \in BOOLEAN
  PROVE  \A s \in Seq(Comps) :
           Components(b, s) \in Accs /\ Shape(b, Components(b, s).out, Components(b, s).up)
<1> DEFINE G == {s \in Seq(Comps) : Components(b, s) \in Accs /\ Shape(b, Components(b, s).out, Components(b, s).up)}
<1>1. << >> \in G
  <2>1. "" \in Comps /\ << >> \in Seq(Comps)
    BY EmptySeq DEF Comps
  <2>2. Components(b, << >>) = Nothing(b)
    BY <2>1, CleanAppend
  <2>3. Nothing(b) \in Accs /\ Nothing(b).out = << >> /\ Nothing(b).up = 0
    BY TypedC DEF Nothing
  <2>4. Shape(b, << >>, 0)
    BY EmptySeq DEF Shape
  <2> QED
    BY <2>1, <2>2, <2>3, <2>4
<1>2. ASSUME NEW s \in Seq(Comps), NEW c \in Comps, s \in G PROVE Append(s, c) \in G
  <2>1. Append(s, c) \in Seq(Comps)
    BY AppendProperties
  <2>2. Components(b, Append(s, c)) = Component(b, Components(b, s), c)
    BY CleanAppend
  <2> QED
    BY <1>2, <2>1, <2>2, ComponentShape
<1>3. \A s \in Seq(Comps) : s \in G
  <2> HIDE DEF G
  <2> QED
    BY <1>1, <1>2, SeqInd
<1> QED
  BY <1>3

-----------------------------------------------------------------------------

(* After any number of components, what is written leads to where the       *)
(* components led, from every place.                                        *)
LEMMA LeadSame ==
  ASSUME NEW b \in BOOLEAN, NEW d \in Places
  PROVE  \A s \in Seq(Comps) : Lead(d, b, Components(b, s).out) = Lead(d, b, s)
<1> DEFINE G == {s \in Seq(Comps) : Lead(d, b, Components(b, s).out) = Lead(d, b, s)}
<1>0. "" \in Comps /\ << >> \in Seq(Comps)
  BY EmptySeq DEF Comps
<1>1. << >> \in G
  <2>1. Components(b, << >>) = Nothing(b)
    BY <1>0, CleanAppend
  <2>2. Nothing(b).out = << >>
    BY DEF Nothing
  <2> QED
    BY <1>0, <2>1, <2>2
<1>2. ASSUME NEW s \in Seq(Comps), NEW c \in Comps, s \in G PROVE Append(s, c) \in G
  <2> DEFINE a == Components(b, s)
             a1 == Component(b, a, c)
             L(out) == Lead(d, b, out)
  <2>1. Append(s, c) \in Seq(Comps)
    BY AppendProperties
  <2>2. Components(b, Append(s, c)) = a1
    BY CleanAppend
  <2>3. a \in Accs /\ Shape(b, a.out, a.up)
    BY ShapeAlways
  <2>4. L(a.out) = L(s) /\ L(s) \in Places
    BY <1>2, LeadAppend
  <2>5. L(Append(s, c)) = Enter(L(s), c)
    BY LeadAppend
  <2>6. Kept(b, a, a1, c) \/ Taken(a, a1, c) \/ Upward(b, a, a1, c) \/ Named(a, a1, c)
    BY <2>3, ComponentCases
  <2>7. a.out \in Seq(Comps)
    BY <2>3 DEF Accs
  <2>8. L(<< >>) = IF b THEN << >> ELSE d
    BY <1>0, LeadAppend
  <2>9. SUFFICES L(a1.out) = Enter(L(s), c)
    BY <2>1, <2>2, <2>5
  <2> HIDE DEF a, a1
  <2>10. CASE Kept(b, a, a1, c)
    <3>1. CASE c \in {"", "."}
      BY <2>4, <2>10, <3>1 DEF Kept, Enter
    <3>2. CASE c = ".." /\ b /\ a.out = << >>
      <4>1. L(s) = << >>
        BY <2>4, <2>8, <3>2
      <4>2. Enter(L(s), c) = << >>
        BY <3>2, <4>1 DEF Enter
      <4> QED
        BY <2>4, <2>10, <4>1, <4>2 DEF Kept
    <3> QED
      BY <2>10, <3>1, <3>2 DEF Kept
  <2>11. CASE Taken(a, a1, c)
    <3> DEFINE f == Front(a.out)
               e == Last(a.out)
    <3>1. f \in Seq(Comps) /\ e \in Comps /\ Append(f, e) = a.out
      BY <2>7, <2>11, FrontOf DEF Taken
    <3>2. e \in Real /\ a1.out = f /\ c = ".."
      BY <2>11 DEF Taken
    <3> HIDE DEF f, e
    <3>3. L(f) \in Places /\ L(a.out) = Enter(L(f), e)
      <4>1. L(f) \in Places /\ L(Append(f, e)) = Enter(L(f), e)
        BY <3>1, LeadAppend, ZenonT(60)
      <4> HIDE DEF L
      <4> QED
        BY <3>1, <4>1
    <3>4. Enter(L(f), e) = Append(L(f), e)
      BY <3>2 DEF Enter, Real
    <3> DEFINE z == L(f)
    <3>5. z \in Places /\ L(s) = Append(z, e) /\ e \in STRING \cup Comps
      BY <2>4, <3>1, <3>3, <3>4
    <3> HIDE DEF z, L
    <3>6. Append(z, e) # << >> /\ Front(Append(z, e)) = z
      BY <3>5, AppendFront DEF Places
    <3>7. Enter(L(s), c) = z
      BY <3>2, <3>5, <3>6 DEF Enter
    <3> QED
      BY <3>2, <3>7 DEF z
  <2>12. CASE Upward(b, a, a1, c) \/ Named(a, a1, c)
    <3>1. a1.out = Append(a.out, c)
      BY <2>12 DEF Upward, Named, Putted
    <3>2. L(Append(a.out, c)) = Enter(L(a.out), c)
      BY <2>7, LeadAppend
    <3> QED
      BY <2>4, <3>1, <3>2
  <2> QED
    BY <2>6, <2>10, <2>11, <2>12
<1>3. \A s \in Seq(Comps) : s \in G
  <2> HIDE DEF G
  <2> QED
    BY <1>1, <1>2, SeqInd
<1> QED
  BY <1>3

(* The bytes of a path that a component is added to.                        *)
LEMMA BytesAppend ==
  ASSUME NEW b \in BOOLEAN, NEW s \in Seq(Comps), NEW c \in Comps
  PROVE  /\ Bytes(b, s) \in Nat /\ Bytes(b, << >>) = IF b THEN 1 ELSE 0
         /\ Bytes(b, Append(s, c)) = Bytes(b, s) + WidthOf(c) + (IF s = << >> THEN 0 ELSE 1)
<1>1. Append(s, c) # << >> /\ Len(Append(s, c)) = Len(s) + 1
  BY AppendFront
<1>2. Len(s) \in Nat /\ (s = << >> <=> Len(s) = 0)
  BY EmptySeq, LenProperties
<1>3. SumWidth(s) \in Nat /\ SumWidth(<< >>) = 0 /\ SumWidth(Append(s, c)) = SumWidth(s) + WidthOf(c)
  BY SumAppend
<1>4. WidthOf(c) \in Nat
  BY CompsOk
<1>5. Bytes(b, s) \in Nat
  BY <1>2, <1>3 DEF Bytes
<1>6. Bytes(b, << >>) = IF b THEN 1 ELSE 0
  BY <1>3 DEF Bytes
<1>7. Bytes(b, Append(s, c)) = (IF b THEN 1 ELSE 0) + SumWidth(s) + WidthOf(c) + Len(s)
  BY <1>1, <1>2, <1>3, <1>4 DEF Bytes
<1>8. Bytes(b, s) = (IF b THEN 1 ELSE 0) + SumWidth(s) + (IF s = <<>> THEN 0 ELSE Len(s) - 1)
  BY DEF Bytes
<1> QED
  BY <1>2, <1>3, <1>4, <1>5, <1>6, <1>7, <1>8

(* wl counts at least what is written and at most what was there; it is     *)
(* smaller by what was taken back if nothing is left.                       *)
Counts(b, s, a) ==
  /\ Bytes(b, a.out) <= a.wl /\ a.wl <= Bytes(b, s)
  /\ s = << >> => a.out = << >>
  /\ ~b /\ a.out = << >> /\ a.wl > 0 => a.wl + 3 <= Bytes(b, s)

(* The counts hold after any number of components.                          *)
LEMMA CountsAlways ==
  ASSUME NEW b \in BOOLEAN
  PROVE  \A s \in Seq(Comps) : Counts(b, s, Components(b, s))
<1> DEFINE G == {s \in Seq(Comps) : Counts(b, s, Components(b, s))}
<1>0. "" \in Comps /\ << >> \in Seq(Comps)
  BY EmptySeq DEF Comps
<1>1. << >> \in G
  <2>1. Components(b, << >>) = Nothing(b)
    BY <1>0, CleanAppend
  <2>2. Nothing(b).out = << >> /\ Nothing(b).wl = IF b THEN 1 ELSE 0
    BY DEF Nothing
  <2>3. Bytes(b, << >>) = IF b THEN 1 ELSE 0
    BY <1>0, BytesAppend
  <2> QED
    <3>1. Bytes(b, Nothing(b).out) = Nothing(b).wl /\ Nothing(b).wl = Bytes(b, << >>)
      BY <2>2, <2>3
    <3>2. Nothing(b).wl \in {0, 1} /\ (~b => Nothing(b).wl = 0)
      BY <2>2
    <3>3. Counts(b, << >>, Nothing(b))
      BY <2>2, <3>1, <3>2 DEF Counts
    <3> QED
      BY <1>0, <2>1, <3>3
<1>2. ASSUME NEW s \in Seq(Comps), NEW c \in Comps, s \in G PROVE Append(s, c) \in G
  <2> DEFINE a == Components(b, s)
             a1 == Component(b, a, c)
             t == Append(s, c)
  <2>1. t \in Seq(Comps) /\ t # << >>
    BY AppendProperties, AppendFront
  <2>2. Components(b, t) = a1
    BY CleanAppend
  <2>3. a \in Accs /\ Shape(b, a.out, a.up)
    BY ShapeAlways
  <2>4. Kept(b, a, a1, c) \/ Taken(a, a1, c) \/ Upward(b, a, a1, c) \/ Named(a, a1, c)
    BY <2>3, ComponentCases
  <2>5. a.out \in Seq(Comps) /\ a.wl \in Nat
    BY <2>3 DEF Accs
  <2>6. /\ Bytes(b, s) \in Nat
        /\ Bytes(b, t) = Bytes(b, s) + WidthOf(c) + (IF s = << >> THEN 0 ELSE 1)
    BY BytesAppend
  <2>7. WidthOf(c) \in Nat
    BY CompsOk
  <2>8. Counts(b, s, a)
    BY <1>2
  <2>9. SUFFICES Counts(b, t, a1)
    BY <2>1, <2>2
  <2> HIDE DEF a, a1, t
  <2>10. CASE Kept(b, a, a1, c)
    <3>1. a1 = a
      BY <2>10 DEF Kept
    <3> DEFINE m == Bytes(b, s)
               n == Bytes(b, t)
               k == Bytes(b, a.out)
    <3>2. m \in Nat /\ n \in Nat /\ m <= n
      BY <2>6, <2>7
    <3>3. k \in Nat
      BY <2>5, BytesAppend, <1>0
    <3> HIDE DEF m, n, k
    <3>4. k <= a.wl /\ a.wl <= m /\ (~b /\ a.out = << >> /\ a.wl > 0 => a.wl + 3 <= m)
      BY <2>8 DEF Counts, m, k
    <3>5. k <= a.wl /\ a.wl <= n /\ (~b /\ a.out = << >> /\ a.wl > 0 => a.wl + 3 <= n)
      BY <2>5, <3>2, <3>3, <3>4
    <3> QED
      BY <2>1, <3>1, <3>5 DEF Counts, n, k
  <2>11. CASE Taken(a, a1, c)
    <3> DEFINE f == Front(a.out)
               e == Last(a.out)
    <3>1. f \in Seq(Comps) /\ e \in Comps /\ Append(f, e) = a.out
      BY <2>5, <2>11, FrontOf DEF Taken
    <3>2. a1.out = f /\ c = ".." /\ a1.wl = a.wl /\ a.out # << >>
      BY <2>11 DEF Taken
    <3> HIDE DEF f, e
    <3>3. Bytes(b, f) \in Nat /\ Bytes(b, a.out) = Bytes(b, f) + WidthOf(e) + (IF f = << >> THEN 0 ELSE 1)
      BY <3>1, BytesAppend
    <3>4. WidthOf(e) \in Nat
      BY <3>1, CompsOk
    <3>5. s # << >> /\ WidthOf(c) = 2
      BY <2>8, <3>2, WidthAssumption DEF Counts, WidthOf
    <3> QED
      BY <2>1, <2>5, <2>6, <2>8, <3>2, <3>3, <3>4, <3>5, SMTT(60) DEF Counts
  <2>12. CASE Upward(b, a, a1, c) \/ Named(a, a1, c)
    <3>1. a1.out = Append(a.out, c) /\ a1.wl = a.wl + WidthOf(c) + (IF a.out = << >> THEN 0 ELSE 1)
      BY <2>12 DEF Upward, Named, Putted
    <3>2. /\ Bytes(b, a.out) \in Nat
          /\ Bytes(b, a1.out) = Bytes(b, a.out) + WidthOf(c) + (IF a.out = << >> THEN 0 ELSE 1)
      BY <2>5, <3>1, BytesAppend
    <3>3. a1.out # << >>
      BY <2>5, <3>1, AppendFront
    <3> QED
      <4> DEFINE m == Bytes(b, s)
                 n == Bytes(b, t)
                 k == Bytes(b, a.out)
                 k1 == Bytes(b, a1.out)
                 w == WidthOf(c)
                 one == IF a.out = << >> THEN 0 ELSE 1
                 sep == IF s = << >> THEN 0 ELSE 1
      <4>1. one \in 0..1 /\ sep \in 0..1 /\ one <= sep
        BY <2>8 DEF Counts
      <4>2. w \in Nat /\ m \in Nat /\ n = m + w + sep /\ k \in Nat /\ k1 = k + w + one /\ a1.wl = a.wl + w + one
        BY <2>6, <2>7, <3>1, <3>2
      <4>3. k <= a.wl /\ a.wl <= m
        BY <2>8 DEF Counts
      <4> HIDE DEF m, n, k, k1, w, one, sep
      <4>4. k1 <= a1.wl /\ a1.wl <= n
        BY <2>5, <4>1, <4>2, <4>3
      <4> QED
        BY <2>1, <3>3, <4>4 DEF Counts, k1, n
  <2> QED
    BY <2>4, <2>10, <2>11, <2>12
<1>3. \A s \in Seq(Comps) : s \in G
  <2> HIDE DEF G
  <2> QED
    BY <1>1, <1>2, SeqInd
<1> QED
  BY <1>3

-----------------------------------------------------------------------------

(* Cleaning what has the shape writes it unchanged.                         *)
LEMMA Recleaned ==
  ASSUME NEW b \in BOOLEAN
  PROVE  \A s \in Seq(Comps) : \A up \in Nat :
           Shape(b, s, up) => Components(b, s).out = s /\ Components(b, s).up = up
<1> DEFINE G == {s \in Seq(Comps) : \A up \in Nat :
                   Shape(b, s, up) => Components(b, s).out = s /\ Components(b, s).up = up}
<1>0. "" \in Comps /\ << >> \in Seq(Comps)
  BY EmptySeq DEF Comps
<1>1. << >> \in G
  <2>1. Components(b, << >>) = Nothing(b)
    BY <1>0, CleanAppend
  <2>2. Nothing(b).out = << >> /\ Nothing(b).up = 0
    BY DEF Nothing
  <2>3. \A up \in Nat : Shape(b, << >>, up) => up = 0
    BY EmptySeq DEF Shape
  <2> QED
    BY <1>0, <2>1, <2>2, <2>3
<1>2. ASSUME NEW s \in Seq(Comps), NEW c \in Comps, s \in G PROVE Append(s, c) \in G
  <2> DEFINE a == Components(b, s)
             a1 == Component(b, a, c)
             t == Append(s, c)
  <2>1. t \in Seq(Comps) /\ Len(t) = Len(s) + 1
    BY AppendProperties
  <2>2. \A i \in 1..Len(s) : t[i] = s[i]
    BY AppendProperties
  <2>3. t[Len(s) + 1] = c
    BY AppendProperties
  <2>4. Len(s) \in Nat
    BY LenProperties
  <2>5. Components(b, t) = a1
    BY CleanAppend
  <2>6. a \in Accs
    BY ShapeAlways
  <2>7. \A up \in Nat : Shape(b, s, up) => a.out = s /\ a.up = up
    BY <1>2
  <2>8. ASSUME NEW up \in Nat, Shape(b, t, up) PROVE a1.out = t /\ a1.up = up
    <3>1. CASE up <= Len(s)
      <4>1. Shape(b, s, up)
        BY <2>1, <2>2, <2>4, <2>8, <3>1 DEF Shape
      <4>2. Len(s) + 1 \in 1..Len(t) /\ ~(Len(s) + 1 <= up)
        BY <2>1, <2>4, <3>1
      <4>3. c \in Real
        BY <2>3, <2>8, <4>2 DEF Shape
      <4>4. a.out = s /\ a.up = up
        BY <2>7, <4>1
      <4>5. a1 = Put(a, c) /\ c # ".."
        BY <4>3 DEF Component, Real
      <4>6. Put(a, c).out = Append(a.out, c) /\ Put(a, c).up = a.up
        BY <2>6, <4>5, PutIs DEF Putted
      <4> QED
        BY <4>4, <4>5, <4>6
    <3>2. CASE ~(up <= Len(s))
      <4>1. up = Len(s) + 1 /\ ~b
        BY <2>1, <2>4, <2>8, <3>2 DEF Shape
      <4>2. Len(s) + 1 \in 1..Len(t) /\ Len(s) + 1 <= up
        BY <2>1, <2>4, <4>1
      <4>3. c = ".."
        BY <2>3, <2>8, <4>2 DEF Shape
      <4>4. Shape(b, s, Len(s))
        BY <2>1, <2>2, <2>4, <2>8, <4>1 DEF Shape
      <4>5. a.out = s /\ a.up = Len(s)
        BY <2>4, <2>7, <4>4
      <4>6. a1 = Put(a, c)
        BY <2>4, <4>1, <4>3, <4>5 DEF Component, DotDot
      <4>7. Put(a, c).out = Append(a.out, c) /\ Put(a, c).up = a.up + 1
        BY <2>6, <4>3, PutIs DEF Putted
      <4> QED
        BY <4>1, <4>5, <4>6, <4>7
    <3> QED
      BY <3>1, <3>2
  <2> HIDE DEF a1
  <2> QED
    BY <2>1, <2>5, <2>8
<1>3. \A s \in Seq(Comps) : s \in G
  <2> HIDE DEF G
  <2> QED
    BY <1>1, <1>2, SeqInd
<1> QED
  BY <1>3

(* The components of "." are none, and those of a cleaned path are clean.   *)
LEMMA CleanLaws ==
  ASSUME NEW b \in BOOLEAN, NEW s \in Seq(Comps)
  PROVE  LET r == path_cleann(b, s).out
         IN /\ r \in Seq(Comps)
            /\ \A d \in Places : Lead(d, b, r) = Lead(d, b, s)
            /\ path_cleann(b, r).out = r
            /\ path_cleann(b, s).wl >= Bytes(b, r)
            /\ Bytes(b, s) < PATH_MAX => ~(path_cleann(b, s).wl >= PATH_MAX)
<1> DEFINE a == Components(b, s)
           clean == path_cleann(b, s)
           r == clean.out
<1>1. a \in Accs /\ Shape(b, a.out, a.up)
  BY ShapeAlways
<1>2. a.out \in Seq(Comps) /\ a.up \in Nat /\ a.wl \in Nat
  BY <1>1 DEF Accs
<1>3. Counts(b, s, a)
  BY CountsAlways
<1>4. \A d \in Places : Lead(d, b, a.out) = Lead(d, b, s)
  BY LeadSame
<1>5. Components(b, a.out).out = a.out
  BY <1>1, <1>2, Recleaned
<1>6. Bytes(b, s) \in Nat /\ \A x \in Seq(Comps) : Bytes(b, x) \in Nat
  <2>1. "" \in Comps
    BY DEF Comps
  <2> QED
    BY <2>1, BytesAppend
<1> SUFFICES /\ r \in Seq(Comps)
             /\ \A d \in Places : Lead(d, b, r) = Lead(d, b, s)
             /\ path_cleann(b, r).out = r
             /\ clean.wl >= Bytes(b, r)
             /\ Bytes(b, s) < PATH_MAX => ~(clean.wl >= PATH_MAX)
  OBVIOUS
<1>7. CASE b \/ a.out # << >>
  <2>1. clean = a
    BY <1>7 DEF path_cleann
  <2>2. path_cleann(b, a.out).out = a.out
    BY <1>5, <1>7 DEF path_cleann
  <2>3. a.wl >= Bytes(b, a.out) /\ a.wl <= Bytes(b, s)
    BY <1>2, <1>3, <1>6 DEF Counts
  <2> HIDE DEF clean
  <2>4. Bytes(b, s) < PATH_MAX => ~(a.wl >= PATH_MAX)
    BY <1>2, <1>6, <2>3, PathMaxAssumption
  <2> QED
    BY <1>2, <1>4, <2>1, <2>2, <2>3, <2>4
<1>8. CASE ~b /\ a.out = << >>
  <2> DEFINE dot == <<".">>
  <2>1. clean = [[a EXCEPT !.out = dot] EXCEPT !.wl = a.wl + 1]
    BY <1>1, <1>8 DEF path_cleann, Accs
  <2>2. clean.out = dot /\ clean.wl = a.wl + 1
    BY <1>1, <2>1 DEF Accs
  <2>3. << >> \in Seq(Comps) /\ "." \in Comps /\ dot = Append(<< >>, ".")
    <3>1. << >> \in Seq(Comps) /\ "." \in Comps
      BY EmptySeq DEF Comps
    <3>2. <<".">> = Append(<< >>, ".")
      OBVIOUS
    <3> QED
      BY <3>1, <3>2
  <2>4. dot \in Seq(Comps)
    BY <2>3, AppendProperties
  <2>5. \A d \in Places : Lead(d, b, dot) = Lead(d, b, << >>)
    <3> SUFFICES ASSUME NEW d \in Places PROVE Lead(d, b, dot) = Lead(d, b, << >>)
      OBVIOUS
    <3> HIDE DEF dot
    <3>1. Lead(d, b, Append(<< >>, ".")) = Enter(Lead(d, b, << >>), ".")
      BY <2>3, LeadAppend
    <3>2. Enter(Lead(d, b, << >>), ".") = Lead(d, b, << >>)
      BY DEF Enter
    <3> QED
      BY <2>3, <3>1, <3>2
  <2>6. Components(b, << >>) = Nothing(b) /\ Components(b, dot) = Component(b, Nothing(b), ".")
    BY <2>3, CleanAppend
  <2>7. Components(b, dot) = Nothing(b) /\ Nothing(b).out = << >>
    BY <2>6 DEF Component, Nothing
  <2>8. path_cleann(b, dot).out = dot
    <3>1. Nothing(b) \in Accs
      BY TypedC
    <3>2. path_cleann(b, dot) = [[Nothing(b) EXCEPT !.out = dot] EXCEPT !.wl = Nothing(b).wl + 1]
      BY <1>8, <2>7, <3>1 DEF path_cleann, Accs
    <3> QED
      BY <3>1, <3>2 DEF Accs
  <2>9. Bytes(b, dot) = 1
    <3>1. WidthOf(".") = 1
      BY WidthAssumption DEF WidthOf
    <3>2. Bytes(b, dot) = Bytes(b, << >>) + WidthOf(".") + 0 /\ Bytes(b, << >>) = 0
      BY <1>8, <2>3, BytesAppend
    <3> QED
      BY <3>1, <3>2
  <2>10. Bytes(b, s) < PATH_MAX => ~(a.wl + 1 >= PATH_MAX)
    <3>1. a.wl > 0 => a.wl + 3 <= Bytes(b, s)
      BY <1>3, <1>8 DEF Counts
    <3> QED
      BY <1>2, <1>6, <3>1, PathMaxAssumption
  <2> HIDE DEF clean, dot, a
  <2> QED
    BY <1>2, <1>4, <1>8, <2>2, <2>4, <2>5, <2>8, <2>9, <2>10
<1> QED
  BY <1>7, <1>8

(* What path_join returns has the two properties.                           *)
LEMMA PathStep ==
  ASSUME path_join
  PROVE  CleanLeads' /\ JoinKeepsAll'
<1>1. PICK s \in SeqOf(Comps, MaxPath), b \in BOOLEAN :
        /\ Bytes(b, s) < PATH_MAX
        /\ call' = [f |-> "path", rooted |-> b, arg |-> s, res |-> path_cleann(b, s).out,
                    n |-> IF path_cleann(b, s).wl >= PATH_MAX THEN -1 ELSE path_cleann(b, s).wl]
  BY DEF path_join
<1> DEFINE clean == path_cleann(b, s)
           r == clean.out
           n == IF clean.wl >= PATH_MAX THEN -1 ELSE clean.wl
<1>2. s \in Seq(Comps)
  <2>1. PICK m \in 0..MaxPath : s \in [1..m -> Comps]
    BY DEF SeqOf
  <2> QED
    BY <2>1, MaxPathAssumption
<1>3. /\ \A d \in Places : Lead(d, b, r) = Lead(d, b, s)
      /\ path_cleann(b, r).out = r
      /\ clean.wl >= Bytes(b, r)
      /\ Bytes(b, s) < PATH_MAX => ~(clean.wl >= PATH_MAX)
  BY <1>2, CleanLaws
<1>4. call'.rooted = b /\ call'.arg = s /\ call'.res = r /\ call'.n = n
  BY <1>1
<1> HIDE DEF clean
<1>5. Cwds \subseteq Places
  <2>1. Seq(STRING) \subseteq Seq(STRING \cup Comps)
    BY SeqMonotonic
  <2> QED
    BY <2>1, CwdsAssumption DEF Places
<1>6. \A cwd \in Cwds : Lead(cwd, call'.rooted, call'.res) = Lead(cwd, call'.rooted, call'.arg)
  BY <1>3, <1>4, <1>5
<1>7. path_cleann(call'.rooted, call'.res).out = call'.res
  BY <1>3, <1>4
<1>8. call'.n >= Bytes(call'.rooted, call'.res)
  BY <1>1, <1>3, <1>4
<1> QED
  BY <1>6, <1>7, <1>8 DEF CleanLeads, JoinKeepsAll

(* Both properties of paths hold in every state.                            *)
LEMMA PathsAlways == NamesSpec => [](CleanLeads /\ JoinKeepsAll)
<1>1. NamesInit => CleanLeads /\ JoinKeepsAll
  BY DEF NamesInit, CleanLeads, JoinKeepsAll
<1>2. CleanLeads /\ JoinKeepsAll /\ [NamesNext]_call => (CleanLeads /\ JoinKeepsAll)'
  <2> SUFFICES ASSUME CleanLeads, JoinKeepsAll, [NamesNext]_call PROVE CleanLeads' /\ JoinKeepsAll'
    OBVIOUS
  <2>1. CASE path_join
    BY <2>1, PathStep
  <2>2. CASE check_dir_args \/ dedup_target
    <3>1. call'.f # "path"
      BY <2>2 DEF check_dir_args, dedup_target
    <3> QED
      BY <3>1 DEF CleanLeads, JoinKeepsAll
  <2>3. CASE UNCHANGED call
    BY <2>3 DEF CleanLeads, JoinKeepsAll
  <2> QED
    BY <2>1, <2>2, <2>3 DEF NamesNext
<1> QED
  BY <1>1, <1>2, PTL DEF NamesSpec

(* A path that path_cleann has cleaned leads to where it led before, from   *)
(* every directory, and cleaning it again changes nothing: for all names,   *)
(* widths and lengths of paths, by induction over the path.                 *)
THEOREM CleanLeadsAlways == NamesSpec => []CleanLeads
<1>1. CleanLeads /\ JoinKeepsAll => CleanLeads
  OBVIOUS
<1> QED
  BY <1>1, PathsAlways, PTL

(* The number of bytes path_join returns, which path_join_dup keeps, is     *)
(* never less than the bytes of the path, although it also counts what was  *)
(* taken back: for all paths that fit PATH_MAX.                             *)
THEOREM JoinKeepsAllAlways == NamesSpec => []JoinKeepsAll
<1>1. CleanLeads /\ JoinKeepsAll => JoinKeepsAll
  OBVIOUS
<1> QED
  BY <1>1, PathsAlways, PTL

-----------------------------------------------------------------------------

(* The arguments check_dir_args of llvmbox-cpmerge lets pass, if both exist *)
(* and neither is the root, are not inside each other: of all directories,  *)
(* though it only searches one path for the other.                          *)
THEOREM ArgsApartAlways == NamesSpec => []ArgsApart
<1>1. NamesInit => ArgsApart
  BY DEF NamesInit, ArgsApart
<1>2. ArgsApart /\ [NamesNext]_call => ArgsApart'
  <2> SUFFICES ASSUME ArgsApart, [NamesNext]_call PROVE ArgsApart'
    OBVIOUS
  <2>1. CASE check_dir_args
    <3>1. PICK src \in Dirs, dst \in Dirs, exists \in BOOLEAN :
            \E dst_abs \in IF exists THEN {dst} ELSE Dirs :
              call' = [f |-> "args", src |-> src, dst |-> dst, exists |-> exists,
                       ok |-> src # dst_abs /\ ~Inside(src, dst_abs) /\ ~Inside(dst_abs, src)]
      BY <2>1 DEF check_dir_args
    <3> SUFFICES ASSUME call'.ok, call'.exists, call'.src # <<>>, call'.dst # <<>>
                 PROVE  ~IsPrefix(call'.src, call'.dst) /\ ~IsPrefix(call'.dst, call'.src)
      BY DEF ArgsApart
    <3>2. call'.src = src /\ call'.dst = dst /\ exists = TRUE
      BY <3>1
    <3>3. ~Inside(src, dst) /\ ~Inside(dst, src)
      <4>1. PICK dst_abs \in IF exists THEN {dst} ELSE Dirs :
              call' = [f |-> "args", src |-> src, dst |-> dst, exists |-> exists,
                       ok |-> src # dst_abs /\ ~Inside(src, dst_abs) /\ ~Inside(dst_abs, src)]
        BY <3>1
      <4>2. dst_abs = dst
        BY <3>2, <4>1
      <4>3. call'.ok = (src # dst_abs /\ ~Inside(src, dst_abs) /\ ~Inside(dst_abs, src))
        BY <4>1
      <4> QED
        BY <4>2, <4>3
    <3>4. ASSUME NEW s \in Dirs, NEW t \in Dirs, IsPrefix(s, t), s # <<>> PROVE Inside(t, s)
      <4>1. Len(s) \in Nat /\ Len(t) \in Nat /\ SubSeq(s, 1, Len(s)) = s
        <5>1. s \in Seq(STRING) /\ t \in Seq(STRING)
          BY DirsAssumption
        <5>2. Len(s) \in Nat /\ Len(t) \in Nat
          BY <5>1, LenProperties
        <5>3. SubSeq(s, 1, Len(s)) \in Seq(STRING) /\ Len(SubSeq(s, 1, Len(s))) = Len(s)
              /\ \A i \in 1..Len(s) : SubSeq(s, 1, Len(s))[i] = s[i]
          BY <5>1, <5>2, SubSeqProperties
        <5>4. SubSeq(s, 1, Len(s)) = s
          BY <5>1, <5>3, SeqEqual
        <5> QED
          BY <5>2, <5>4
      <4>2. 0 \in 0..(Len(t) - Len(s)) /\ SubSeq(t, 0 + 1, 0 + Len(s)) = s
        BY <3>4, <4>1 DEF IsPrefix
      <4> QED
        BY <3>4, <4>2 DEF Inside, strstr
    <3> QED
      BY <3>2, <3>3, <3>4
  <2>2. CASE path_join \/ dedup_target
    <3>1. call'.f # "args"
      BY <2>2 DEF path_join, dedup_target
    <3> QED
      BY <3>1 DEF ArgsApart
  <2>3. CASE UNCHANGED call
    BY <2>3 DEF ArgsApart
  <2> QED
    BY <2>1, <2>2, <2>3 DEF NamesNext
<1> QED
  BY <1>1, <1>2, PTL DEF NamesSpec

-----------------------------------------------------------------------------

(* The words and separators a name of a target is made of, and words that   *)
(* hold no separator c.                                                     *)
Marks == STRING \cup {"-", ".", "a", "s", "1", "x", "y"}
Words == Seq(Marks)
Free(s, c) == \A i \in 1..Len(s) : s[i] # c

(* First finds the first place of a word, or there is none.                 *)
LEMMA FirstLaw ==
  ASSUME NEW s \in Words, NEW from \in Nat \ {0}, NEW c
  PROVE  LET fst == First(s, from, c)
         IN IF \E i \in from..Len(s) : s[i] = c
            THEN fst \in from..Len(s) /\ s[fst] = c /\ \A j \in from..(fst - 1) : s[j] # c
            ELSE fst = 0
<1>0. Len(s) \in Nat
  BY LenProperties DEF Words
<1>1. CASE \E i \in from..Len(s) : s[i] = c
  <2> DEFINE T == {i \in Nat : i \in from..Len(s) /\ s[i] = c}
             Is(i) == s[i] = c /\ \A j \in from..(i - 1) : s[j] # c
  <2>1. T \in SUBSET Nat /\ T # {}
    BY <1>0, <1>1
  <2>2. PICK i \in T : \A j \in T : i <= j
    BY <2>1, NatMin
  <2>3. i \in from..Len(s) /\ Is(i)
    BY <1>0, <2>2
  <2>4. First(s, from, c) = CHOOSE i1 \in from..Len(s) : Is(i1)
    BY <1>1 DEF First
  <2> HIDE DEF Is
  <2>5. First(s, from, c) \in from..Len(s) /\ Is(First(s, from, c))
    BY <2>3, <2>4
  <2> QED
    BY <1>1, <2>5 DEF Is
<1>2. CASE ~\E i \in from..Len(s) : s[i] = c
  BY <1>2 DEF First
<1> QED
  BY <1>1, <1>2

(* First is the place before which the word does not occur.                 *)
LEMMA FirstIs ==
  ASSUME NEW s \in Words, NEW from \in Nat \ {0}, NEW c
  PROVE  /\ \A k \in from..Len(s) :
              s[k] = c /\ (\A j \in from..(k - 1) : s[j] # c) => First(s, from, c) = k
         /\ (\A j \in from..Len(s) : s[j] # c) => First(s, from, c) = 0
<1> DEFINE fst == First(s, from, c)
<1>0. Len(s) \in Nat
  BY LenProperties DEF Words
<1>1. IF \E i \in from..Len(s) : s[i] = c
      THEN fst \in from..Len(s) /\ s[fst] = c /\ \A j \in from..(fst - 1) : s[j] # c
      ELSE fst = 0
  BY FirstLaw
<1> HIDE DEF fst
<1>2. ASSUME NEW k \in from..Len(s), s[k] = c, \A j \in from..(k - 1) : s[j] # c PROVE fst = k
  <2>1. fst \in from..Len(s) /\ s[fst] = c /\ \A j \in from..(fst - 1) : s[j] # c
    BY <1>1, <1>2
  <2>2. ~(fst < k) /\ ~(k < fst)
    BY <1>0, <1>2, <2>1
  <2> QED
    BY <1>0, <2>1, <2>2
<1> QED
  BY <1>1, <1>2 DEF fst

(* A part of a name is made of the words of the name.                       *)
LEMMA Cut ==
  ASSUME NEW s \in Words, NEW m \in Nat \ {0}, NEW n \in Nat, n <= Len(s), m <= n + 1
  PROVE  LET t == SubSeq(s, m, n)
         IN t \in Words /\ Len(t) = n - m + 1 /\ \A i \in 1..(n - m + 1) : t[i] = s[m + i - 1]
<1>0. Len(s) \in Nat
  BY LenProperties DEF Words
<1>1. \A i \in m..n : s[i] \in Marks
  BY <1>0, ElementOfSeq DEF Words
<1> QED
  BY <1>0, <1>1, SubSeqProperties DEF Words

(* A part of a name equals the words it holds one by one.                   *)
LEMMA Fit ==
  ASSUME NEW s \in Words, NEW m \in Nat \ {0}, NEW n \in Nat, n <= Len(s), m <= n + 1,
         NEW t \in Words, Len(t) = n - m + 1, \A i \in 1..Len(t) : s[m + i - 1] = t[i]
  PROVE  SubSeq(s, m, n) = t
  BY Cut, SeqEqual DEF Words

(* The words that a field is written with, after its separator.             *)
Part(sep, x) == IF x = << >> THEN << >> ELSE <<sep>> \o x

(* A word is a name of one word.                                            *)
LEMMA SingleWord ==
  ASSUME NEW c \in Marks
  PROVE  <<c>> \in Words /\ Len(<<c>>) = 1 /\ <<c>>[1] = c
  BY DEF Words

(* The words of an optional field, one by one.                              *)
LEMMA PartIs ==
  ASSUME NEW x \in Words, NEW c \in Marks
  PROVE  /\ Part(c, x) \in Words
         /\ x = << >> => Len(Part(c, x)) = 0
         /\ x # << >> => /\ Len(Part(c, x)) = Len(x) + 1 /\ Part(c, x)[1] = c
                         /\ \A j \in 1..Len(x) : Part(c, x)[j + 1] = x[j]
<1>0. Len(x) \in Nat
  BY LenProperties DEF Words
<1>1. <<c>> \in Words /\ Len(<<c>>) = 1 /\ <<c>>[1] = c
  BY SingleWord
<1> DEFINE w == <<c>>
           z == w \o x
<1> HIDE DEF w
<1>2. z \in Words /\ Len(z) = 1 + Len(x) /\ \A i \in 1..(1 + Len(x)) : z[i] = IF i <= 1 THEN w[1] ELSE x[i - 1]
  <2>1. w \in Words /\ Len(w) = 1
    BY <1>1 DEF w
  <2>2. /\ z \in Words /\ Len(z) = Len(w) + Len(x)
        /\ \A i \in 1 .. Len(w) + Len(x) : z[i] = IF i <= Len(w) THEN w[i] ELSE x[i - Len(w)]
    BY <2>1, ConcatProperties DEF Words
  <2> QED
    BY <1>0, <2>1, <2>2
<1> HIDE DEF z
<1>3. Len(z) = Len(x) + 1 /\ z[1] = c /\ \A j \in 1..Len(x) : z[j + 1] = x[j]
  <2>1. w[1] = c /\ 1 \in 1..(1 + Len(x)) /\ 1 <= 1
    BY <1>0, <1>1 DEF w
  <2>2. z[1] = c
    BY <1>2, <2>1
  <2>3. ASSUME NEW j \in 1..Len(x) PROVE z[j + 1] = x[j]
    <3>1. j + 1 \in 1..(1 + Len(x)) /\ ~(j + 1 <= 1) /\ (j + 1) - 1 = j
      BY <1>0
    <3> QED
      BY <1>2, <3>1
  <2> QED
    BY <1>0, <1>2, <2>2, <2>3
<1>4. << >> \in Words /\ Len(<< >>) = 0
  BY EmptySeq DEF Words
<1> QED
  BY <1>2, <1>3, <1>4 DEF Part, z, w

(* Where the parts of a target are in its name.                             *)
Laid(s, arch, sys, vs, x) ==
  LET a == Len(arch)
      y == Len(sys)
  IN /\ Len(s) = a + 1 + y + Len(vs) + Len(x)
     /\ \A i \in 1..a : s[i] = arch[i]
     /\ s[a + 1] = "-"
     /\ \A i \in 1..y : s[a + 1 + i] = sys[i]
     /\ \A i \in 1..Len(vs) : s[a + 1 + y + i] = vs[i]
     /\ \A i \in 1..Len(x) : s[a + 1 + y + Len(vs) + i] = x[i]

(* The words of two names put together, one by one.                         *)
LEMMA Joined ==
  ASSUME NEW s \in Words, NEW t \in Words
  PROVE  /\ s \o t \in Words /\ Len(s \o t) = Len(s) + Len(t)
         /\ Len(s) \in Nat /\ Len(t) \in Nat
         /\ \A i \in 1..Len(s) : (s \o t)[i] = s[i]
         /\ \A i \in 1..Len(t) : (s \o t)[Len(s) + i] = t[i]
<1>1. Len(s) \in Nat /\ Len(t) \in Nat
  BY LenProperties DEF Words
<1> DEFINE z == s \o t
<1>2. z \in Words /\ Len(z) = Len(s) + Len(t)
      /\ \A i \in 1 .. Len(s) + Len(t) : z[i] = IF i <= Len(s) THEN s[i] ELSE t[i - Len(s)]
  BY ConcatProperties DEF Words
<1> HIDE DEF z
<1>3. \A i \in 1..Len(s) : z[i] = s[i]
  BY <1>1, <1>2
<1>4. \A i \in 1..Len(t) : z[Len(s) + i] = t[i]
  <2> SUFFICES ASSUME NEW i \in 1..Len(t) PROVE z[Len(s) + i] = t[i]
    OBVIOUS
  <2>1. Len(s) + i \in 1..(Len(s) + Len(t)) /\ ~(Len(s) + i <= Len(s)) /\ (Len(s) + i) - Len(s) = i
    BY <1>1
  <2> QED
    BY <1>2, <2>1
<1> QED
  BY <1>1, <1>2, <1>3, <1>4 DEF z

(* Where the fields of a name that was put together lie in it.              *)
LEMMA LaidOut ==
  ASSUME NEW arch \in Words, NEW sys \in Words, NEW vs \in Words, NEW x \in Words
  PROVE  LET s == arch \o <<"-">> \o sys \o vs \o x
         IN s \in Words /\ Laid(s, arch, sys, vs, x)
<1> DEFINE d == <<"-">>
           pre == arch \o d
           q == pre \o sys
           r == q \o vs
           s == r \o x
           a == Len(arch)
           y == Len(sys)
<1>1. d \in Words /\ Len(d) = 1 /\ d[1] = "-"
  BY SingleWord DEF Marks
<1> HIDE DEF d
<1>2. pre \in Words /\ Len(pre) = a + 1 /\ a \in Nat /\ (\A i \in 1..a : pre[i] = arch[i]) /\ pre[a + 1] = "-"
  <2>1. /\ pre \in Words /\ Len(pre) = a + Len(d) /\ a \in Nat
        /\ (\A i \in 1..a : pre[i] = arch[i]) /\ \A i \in 1..Len(d) : pre[a + i] = d[i]
    BY <1>1, Joined
  <2> QED
    BY <1>1, <2>1
<1> HIDE DEF pre
<1>3. /\ q \in Words /\ Len(q) = a + 1 + y /\ y \in Nat
      /\ \A i \in 1..(a + 1) : q[i] = pre[i]
      /\ \A i \in 1..y : q[a + 1 + i] = sys[i]
  <2>1. /\ q \in Words /\ Len(q) = Len(pre) + y /\ y \in Nat
        /\ (\A i \in 1..Len(pre) : q[i] = pre[i]) /\ \A i \in 1..y : q[Len(pre) + i] = sys[i]
    BY <1>2, Joined
  <2> QED
    BY <1>2, <2>1
<1> HIDE DEF q
<1>4. /\ r \in Words /\ Len(r) = a + 1 + y + Len(vs) /\ Len(vs) \in Nat
      /\ \A i \in 1..(a + 1 + y) : r[i] = q[i]
      /\ \A i \in 1..Len(vs) : r[a + 1 + y + i] = vs[i]
  <2>1. /\ r \in Words /\ Len(r) = Len(q) + Len(vs) /\ Len(vs) \in Nat
        /\ (\A i \in 1..Len(q) : r[i] = q[i]) /\ \A i \in 1..Len(vs) : r[Len(q) + i] = vs[i]
    BY <1>3, Joined
  <2> QED
    BY <1>3, <2>1
<1> HIDE DEF r
<1>5. /\ s \in Words /\ Len(s) = a + 1 + y + Len(vs) + Len(x) /\ Len(x) \in Nat
      /\ \A i \in 1..(a + 1 + y + Len(vs)) : s[i] = r[i]
      /\ \A i \in 1..Len(x) : s[a + 1 + y + Len(vs) + i] = x[i]
  <2>1. /\ s \in Words /\ Len(s) = Len(r) + Len(x) /\ Len(x) \in Nat
        /\ (\A i \in 1..Len(r) : s[i] = r[i]) /\ \A i \in 1..Len(x) : s[Len(r) + i] = x[i]
    BY <1>4, Joined
  <2> HIDE DEF s
  <2> QED
    BY <1>4, <2>1
<1> SUFFICES s \in Words /\ Laid(s, arch, sys, vs, x)
  BY DEF pre, q, r, d
<1> HIDE DEF s
<1>6. \A i \in 1..a : i \in 1..(a + 1) /\ i \in 1..(a + 1 + y) /\ i \in 1..(a + 1 + y + Len(vs))
  BY <1>2, <1>3, <1>4
<1>7. a + 1 \in 1..(a + 1) /\ a + 1 \in 1..(a + 1 + y) /\ a + 1 \in 1..(a + 1 + y + Len(vs))
  BY <1>2, <1>3, <1>4
<1>8. \A i \in 1..y : a + 1 + i \in 1..(a + 1 + y) /\ a + 1 + i \in 1..(a + 1 + y + Len(vs))
  BY <1>2, <1>3, <1>4
<1>9. \A i \in 1..Len(vs) : a + 1 + y + i \in 1..(a + 1 + y + Len(vs))
  BY <1>2, <1>3, <1>4
<1>10. (\A i \in 1..a : s[i] = arch[i]) /\ s[a + 1] = "-"
  BY <1>2, <1>3, <1>4, <1>5, <1>6, <1>7
<1>11. (\A i \in 1..y : s[a + 1 + i] = sys[i]) /\ \A i \in 1..Len(vs) : s[a + 1 + y + i] = vs[i]
  BY <1>3, <1>4, <1>5, <1>8, <1>9
<1> QED
  BY <1>5, <1>10, <1>11 DEF Laid

-----------------------------------------------------------------------------

(* target_parse finds the fields of a name where target_str put them.       *)
LEMMA ParseBack ==
  ASSUME NEW arch \in Words, NEW sys \in Words, NEW ver \in Words, NEW suf \in Words,
         Free(arch, "-"), Free(sys, "-"), Free(sys, "."), Free(ver, "-"),
         ver # << >> \/ Free(suf, ".")
  PROVE  LET s == arch \o <<"-">> \o sys \o Part(".", ver) \o Part("-", suf)
             r == target_parse(s)
         IN s \in Words /\ r.ok /\ r.t = [arch |-> arch, sys |-> sys, sysver |-> ver, suffix |-> suf]
<1> DEFINE vs == Part(".", ver)
           x == Part("-", suf)
           s == arch \o <<"-">> \o sys \o vs \o x
           a == Len(arch)
           y == Len(sys)
<1>1. /\ vs \in Words
      /\ ver = << >> => Len(vs) = 0
      /\ ver # << >> => /\ Len(vs) = Len(ver) + 1 /\ vs[1] = "."
                        /\ \A j \in 1..Len(ver) : vs[j + 1] = ver[j]
  BY PartIs DEF Marks
<1>2. /\ x \in Words
      /\ suf = << >> => Len(x) = 0
      /\ suf # << >> => /\ Len(x) = Len(suf) + 1 /\ x[1] = "-"
                        /\ \A j \in 1..Len(suf) : x[j + 1] = suf[j]
  BY PartIs DEF Marks
<1> HIDE DEF vs, x
<1>3. s \in Words /\ Laid(s, arch, sys, vs, x)
  BY <1>1, <1>2, LaidOut
<1> HIDE DEF s
<1>4. a \in Nat /\ y \in Nat /\ Len(vs) \in Nat /\ Len(x) \in Nat /\ Len(ver) \in Nat /\ Len(suf) \in Nat
  BY <1>1, <1>2, LenProperties DEF Words
<1>5. Len(ver) = 0 <=> ver = << >>
  BY EmptySeq DEF Words
<1>6. Len(suf) = 0 <=> suf = << >>
  BY EmptySeq DEF Words
<1> DEFINE n == Len(s)
           vp == a + y + 2
           xp == a + 1 + y + Len(vs) + 1
<1>7. /\ n = a + 1 + y + Len(vs) + Len(x)
      /\ \A i \in 1..a : s[i] = arch[i]
      /\ s[a + 1] = "-"
      /\ \A i \in 1..y : s[a + 1 + i] = sys[i]
      /\ \A i \in 1..Len(vs) : s[a + 1 + y + i] = vs[i]
      /\ \A i \in 1..Len(x) : s[a + 1 + y + Len(vs) + i] = x[i]
  BY <1>3 DEF Laid
<1> HIDE DEF n
<1>8. First(s, 1, "-") = a + 1
  <2>1. a + 1 \in 1..n /\ \A j \in 1..((a + 1) - 1) : s[j] # "-"
    <3>1. (a + 1) - 1 = a /\ a + 1 \in 1..n
      BY <1>4, <1>7
    <3>2. \A j \in 1..a : s[j] # "-"
      BY <1>7 DEF Free
    <3> QED
      BY <3>1, <3>2
  <2> QED
    BY <1>3, <1>7, <2>1, FirstIs DEF n
<1>9. \A j \in (a + 2)..(a + 1 + y) : s[j] # "-" /\ s[j] # "."
  <2> SUFFICES ASSUME NEW j \in (a + 2)..(a + 1 + y) PROVE s[j] # "-" /\ s[j] # "."
    OBVIOUS
  <2> DEFINE i == j - (a + 1)
  <2>1. i \in 1..y /\ a + 1 + i = j
    BY <1>4
  <2> HIDE DEF i
  <2>2. s[j] = sys[i]
    BY <1>7, <2>1
  <2> QED
    BY <2>1, <2>2 DEF Free
<1>10. \A j \in (a + 2 + y)..(a + 1 + y + Len(vs)) : s[j] # "-"
  <2> SUFFICES ASSUME NEW j \in (a + 2 + y)..(a + 1 + y + Len(vs)) PROVE s[j] # "-"
    OBVIOUS
  <2> DEFINE i == j - (a + 1 + y)
  <2>1. i \in 1..Len(vs) /\ a + 1 + y + i = j
    BY <1>4
  <2> HIDE DEF i
  <2>2. s[j] = vs[i] /\ ver # << >>
    BY <1>1, <1>4, <1>7, <2>1, SMTT(60)
  <2>3. CASE i = 1
    BY <1>1, <2>2, <2>3
  <2>4. CASE i # 1
    <3>1. i - 1 \in 1..Len(ver) /\ (i - 1) + 1 = i
      BY <1>1, <1>4, <2>1, <2>2, <2>4
    <3>2. vs[i] = ver[i - 1]
      BY <1>1, <2>2, <3>1
    <3> QED
      BY <2>2, <3>1, <3>2 DEF Free
  <2> QED
    BY <2>3, <2>4
<1>11. ver = << >> => \A j \in (a + 2)..n : s[j] # "."
  <2> SUFFICES ASSUME ver = << >>, NEW j \in (a + 2)..n PROVE s[j] # "."
    OBVIOUS
  <2>1. CASE j <= a + 1 + y
    BY <1>4, <1>9, <2>1
  <2>2. CASE ~(j <= a + 1 + y)
    <3> DEFINE i == j - (a + 1 + y)
    <3>1. i \in 1..Len(x) /\ a + 1 + y + Len(vs) + i = j
      BY <1>1, <1>4, <1>7, <2>2
    <3> HIDE DEF i
    <3>2. s[j] = x[i] /\ suf # << >>
      BY <1>2, <1>4, <1>7, <3>1
    <3>3. CASE i = 1
      BY <1>2, <3>2, <3>3
    <3>4. CASE i # 1
      <4>1. i - 1 \in 1..Len(suf) /\ (i - 1) + 1 = i
        BY <1>2, <1>4, <3>1, <3>2, <3>4
      <4>2. x[i] = suf[i - 1]
        BY <1>2, <3>2, <4>1
      <4> QED
        BY <3>2, <4>1, <4>2 DEF Free
    <3> QED
      BY <3>3, <3>4
  <2> QED
    BY <2>1, <2>2
<1>12. First(s, a + 2, ".") = IF ver = << >> THEN 0 ELSE vp
  <2>1. CASE ver = << >>
    BY <1>3, <1>4, <1>11, <2>1, FirstIs DEF n
  <2>2. CASE ver # << >>
    <3>1. vp \in (a + 2)..n /\ 1 \in 1..Len(vs)
      BY <1>1, <1>4, <1>7, <2>2
    <3>2. s[a + 1 + y + 1] = vs[1] /\ a + 1 + y + 1 = vp
      BY <1>4, <1>7, <3>1
    <3>3. \A j \in (a + 2)..(vp - 1) : s[j] # "."
      <4>1. vp - 1 = a + 1 + y
        BY <1>4
      <4> QED
        BY <1>9, <4>1
    <3> HIDE DEF vp
    <3>4. s[vp] = "."
      BY <1>1, <2>2, <3>2
    <3>5. First(s, a + 2, ".") = vp
      BY <1>3, <1>4, <3>1, <3>3, <3>4, FirstIs DEF n
    <3> QED
      BY <2>2, <3>5
  <2> QED
    BY <2>1, <2>2
<1>13. \A j \in (a + 2)..(xp - 1) : s[j] # "-"
  <2> SUFFICES ASSUME NEW j \in (a + 2)..(xp - 1) PROVE s[j] # "-"
    OBVIOUS
  <2>1. j \in (a + 2)..(a + 1 + y) \/ j \in (a + 2 + y)..(a + 1 + y + Len(vs))
    BY <1>4
  <2> QED
    BY <1>9, <1>10, <2>1
<1>14. First(s, a + 2, "-") = IF suf = << >> THEN 0 ELSE xp
  <2>1. CASE suf = << >>
    <3>1. n = xp - 1
      BY <1>2, <1>4, <1>7, <2>1
    <3> QED
      BY <1>3, <1>4, <1>13, <2>1, <3>1, FirstIs DEF n
  <2>2. CASE suf # << >>
    <3>1. xp \in (a + 2)..n /\ 1 \in 1..Len(x)
      BY <1>2, <1>4, <1>7, <2>2
    <3>2. s[xp] = "-"
      BY <1>2, <1>7, <2>2, <3>1
    <3> HIDE DEF xp
    <3>3. First(s, a + 2, "-") = xp
      BY <1>3, <1>4, <1>13, <3>1, <3>2, FirstIs DEF n
    <3> QED
      BY <2>2, <3>3
  <2> QED
    BY <2>1, <2>2
<1> DEFINE verp == IF ver = << >> THEN 0 ELSE vp
           suffixp == IF suf = << >> THEN 0 ELSE xp
           sysend == IF verp # 0 THEN verp ELSE IF suffixp # 0 THEN suffixp ELSE n + 1
           verend == IF suffixp # 0 THEN suffixp ELSE n + 1
<1>15. vp # 0 /\ xp # 0 /\ sysend = a + y + 2 /\ verend = xp
  <2>1. vp # 0 /\ xp # 0
    BY <1>4
  <2>2. suf = << >> => n + 1 = xp
    BY <1>2, <1>4, <1>7
  <2>3. verend = xp
    BY <2>1, <2>2
  <2>4. ver = << >> => xp = a + y + 2
    BY <1>1, <1>4
  <2> QED
    BY <2>1, <2>2, <2>3, <2>4
<1>16. ver # << >> => ~(xp < vp + 1)
  BY <1>1, <1>4, <1>5
<1> DEFINE t == [arch   |-> SubSeq(s, 1, a),
                 sys    |-> SubSeq(s, a + 2, a + y + 1),
                 sysver |-> IF ver = << >> THEN << >> ELSE SubSeq(s, vp + 1, xp - 1),
                 suffix |-> IF suf = << >> THEN << >> ELSE SubSeq(s, xp + 1, n)]
<1>17. target_parse(s) = [ok |-> TRUE, t |-> t]
  <2>1. (a + 1) + 1 = a + 2 /\ (a + 1) - 1 = a /\ (a + y + 2) - 1 = a + y + 1 /\ a + 1 # 0
    BY <1>4
  <2> HIDE DEF vp, xp
  <2> QED
    BY <1>8, <1>12, <1>14, <1>15, <1>16, <2>1 DEF target_parse, Suffix, n
<1>18. SubSeq(s, 1, a) = arch
  <2>1. a <= Len(s) /\ 1 <= a + 1 /\ Len(arch) = a - 1 + 1 /\ \A i \in 1..Len(arch) : s[1 + i - 1] = arch[i]
    BY <1>4, <1>7 DEF n
  <2> QED
    BY <1>3, <1>4, <2>1, Fit, SMTT(60)
<1>19. SubSeq(s, a + 2, a + y + 1) = sys
  <2>1. \A i \in 1..y : a + 2 + i - 1 = a + 1 + i
    BY <1>4
  <2>2. \A i \in 1..Len(sys) : s[a + 2 + i - 1] = sys[i]
    BY <1>7, <2>1
  <2>3. /\ a + 2 \in Nat \ {0} /\ a + y + 1 \in Nat /\ a + y + 1 <= Len(s) /\ a + 2 <= (a + y + 1) + 1
        /\ Len(sys) = (a + y + 1) - (a + 2) + 1
    BY <1>4, <1>7 DEF n
  <2> QED
    BY <1>3, <2>2, <2>3, Fit
<1>20. ver # << >> => SubSeq(s, vp + 1, xp - 1) = ver
  <2> SUFFICES ASSUME ver # << >> PROVE SubSeq(s, vp + 1, xp - 1) = ver
    OBVIOUS
  <2>1. \A i \in 1..Len(ver) : i + 1 \in 1..Len(vs) /\ vp + 1 + i - 1 = a + 1 + y + (i + 1)
    BY <1>1, <1>4
  <2>2. \A i \in 1..Len(ver) : s[vp + 1 + i - 1] = ver[i]
    <3> SUFFICES ASSUME NEW i \in 1..Len(ver) PROVE s[vp + 1 + i - 1] = ver[i]
      OBVIOUS
    <3>1. s[a + 1 + y + (i + 1)] = vs[i + 1] /\ vs[i + 1] = ver[i]
      BY <1>1, <1>7, <2>1
    <3> QED
      BY <2>1, <3>1
  <2>3. /\ vp + 1 \in Nat \ {0} /\ xp - 1 \in Nat /\ xp - 1 <= Len(s) /\ vp + 1 <= (xp - 1) + 1
        /\ Len(ver) = (xp - 1) - (vp + 1) + 1
    <3>1. Len(vs) = Len(ver) + 1 /\ n = a + 1 + y + Len(vs) + Len(x)
      BY <1>1, <1>7
    <3>2. xp - 1 <= n
      BY <1>4, <3>1
    <3> QED
      BY <1>4, <3>1, <3>2 DEF n
  <2> HIDE DEF vp, xp
  <2> QED
    BY <1>3, <2>2, <2>3, Fit
<1>21. suf # << >> => SubSeq(s, xp + 1, n) = suf
  <2> SUFFICES ASSUME suf # << >> PROVE SubSeq(s, xp + 1, n) = suf
    OBVIOUS
  <2>1. \A i \in 1..Len(suf) : i + 1 \in 1..Len(x) /\ xp + 1 + i - 1 = a + 1 + y + Len(vs) + (i + 1)
    BY <1>2, <1>4
  <2>2. \A i \in 1..Len(suf) : s[xp + 1 + i - 1] = suf[i]
    <3> SUFFICES ASSUME NEW i \in 1..Len(suf) PROVE s[xp + 1 + i - 1] = suf[i]
      OBVIOUS
    <3>1. s[a + 1 + y + Len(vs) + (i + 1)] = x[i + 1] /\ x[i + 1] = suf[i]
      BY <1>2, <1>7, <2>1
    <3> QED
      BY <2>1, <3>1
  <2>3. /\ xp + 1 \in Nat \ {0} /\ n \in Nat /\ n <= Len(s) /\ xp + 1 <= n + 1
        /\ Len(suf) = n - (xp + 1) + 1
    BY <1>2, <1>4, <1>7 DEF n
  <2> HIDE DEF vp, xp
  <2> QED
    BY <1>3, <2>2, <2>3, Fit
<1>22. t = [arch |-> arch, sys |-> sys, sysver |-> ver, suffix |-> suf]
  <2>1. (IF ver = << >> THEN << >> ELSE SubSeq(s, vp + 1, xp - 1)) = ver
    BY <1>20
  <2>2. (IF suf = << >> THEN << >> ELSE SubSeq(s, xp + 1, n)) = suf
    BY <1>21
  <2> QED
    BY <1>18, <1>19, <2>1, <2>2
<1>23. target_parse(s).ok /\ target_parse(s).t = [arch |-> arch, sys |-> sys, sysver |-> ver, suffix |-> suf]
  <2> HIDE DEF t
  <2> QED
    BY <1>17, <1>22
<1> QED
  BY <1>3, <1>23 DEF s, vs, x

-----------------------------------------------------------------------------

(* Two names without a separator, put together, have none either.           *)
LEMMA FreeJoined ==
  ASSUME NEW s \in Words, NEW t \in Words, NEW c, Free(s, c), Free(t, c)
  PROVE  s \o t \in Words /\ Free(s \o t, c)
<1> DEFINE z == s \o t
<1>1. /\ z \in Words /\ Len(z) = Len(s) + Len(t) /\ Len(s) \in Nat /\ Len(t) \in Nat
      /\ \A i \in 1..Len(s) : z[i] = s[i]
      /\ \A i \in 1..Len(t) : z[Len(s) + i] = t[i]
  BY Joined
<1> HIDE DEF z
<1>2. ASSUME NEW i \in 1..Len(z) PROVE z[i] # c
  <2>1. CASE i <= Len(s)
    BY <1>1, <2>1 DEF Free
  <2>2. CASE ~(i <= Len(s))
    <3>1. i - Len(s) \in 1..Len(t) /\ Len(s) + (i - Len(s)) = i
      BY <1>1, <2>2
    <3>2. z[i] = t[i - Len(s)]
      BY <1>1, <3>1
    <3> QED
      BY <3>1, <3>2 DEF Free
  <2> QED
    BY <2>1, <2>2
<1> QED
  BY <1>1, <1>2 DEF Free, z

(* A part of a name up to the first separator has none.                     *)
LEMMA CutFree ==
  ASSUME NEW s \in Words, NEW m \in Nat \ {0}, NEW n \in Nat, n <= Len(s), m <= n + 1, NEW c,
         \A j \in m..n : s[j] # c
  PROVE  SubSeq(s, m, n) \in Words /\ Free(SubSeq(s, m, n), c)
<1> DEFINE t == SubSeq(s, m, n)
<1>1. t \in Words /\ Len(t) = n - m + 1 /\ \A i \in 1..(n - m + 1) : t[i] = s[m + i - 1]
  BY Cut
<1>2. \A i \in 1..(n - m + 1) : m + i - 1 \in m..n
  OBVIOUS
<1> HIDE DEF t
<1>3. Free(t, c)
  BY <1>1, <1>2 DEF Free
<1> QED
  BY <1>1, <1>3 DEF t

(* The fields target_parse returns hold no "-", the suffix apart.           *)
LEMMA FieldsFree ==
  ASSUME NEW s \in Words, target_parse(s).ok
  PROVE  LET t == target_parse(s).t
         IN /\ t.arch \in Words /\ t.sys \in Words /\ t.sysver \in Words
            /\ Free(t.arch, "-") /\ Free(t.sys, "-") /\ Free(t.sysver, "-")
<1> DEFINE n == Len(s)
           dash == First(s, 1, "-")
           verp == First(s, dash + 1, ".")
           suffixp == First(s, dash + 1, "-")
           sysend == IF verp # 0 THEN verp ELSE IF suffixp # 0 THEN suffixp ELSE n + 1
           verend == IF suffixp # 0 THEN suffixp ELSE n + 1
           t == [arch   |-> SubSeq(s, 1, dash - 1),
                 sys    |-> SubSeq(s, dash + 1, sysend - 1),
                 sysver |-> IF verp = 0 THEN <<>> ELSE SubSeq(s, verp + 1, verend - 1),
                 suffix |-> IF suffixp = 0 THEN <<>> ELSE SubSeq(s, suffixp + 1, n)]
           bad == dash = 0 \/ (verp # 0 /\ verend < verp + 1)
<1>0. n \in Nat
  BY LenProperties DEF Words
<1>1. target_parse(s) = IF bad THEN [ok |-> FALSE, t |-> NoTarget] ELSE [ok |-> TRUE, t |-> t]
  BY DEF target_parse, Suffix
<1> HIDE DEF t, bad
<1>2. ~bad /\ target_parse(s).t = t
  BY <1>1
<1>3. dash # 0 /\ (verp # 0 => ~(verend < verp + 1))
  BY <1>2 DEF bad
<1>4. IF \E i \in 1..n : s[i] = "-"
      THEN dash \in 1..n /\ s[dash] = "-" /\ \A j \in 1..(dash - 1) : s[j] # "-"
      ELSE dash = 0
  BY FirstLaw
<1>5. dash \in 1..n /\ \A j \in 1..(dash - 1) : s[j] # "-"
  BY <1>3, <1>4
<1> HIDE DEF dash
<1>6. dash + 1 \in Nat \ {0}
  BY <1>0, <1>5
<1>7. IF \E i \in (dash + 1)..n : s[i] = "."
      THEN verp \in (dash + 1)..n /\ s[verp] = "." /\ \A j \in (dash + 1)..(verp - 1) : s[j] # "."
      ELSE verp = 0
  BY <1>6, FirstLaw
<1>8. IF \E i \in (dash + 1)..n : s[i] = "-"
      THEN suffixp \in (dash + 1)..n /\ s[suffixp] = "-" /\ \A j \in (dash + 1)..(suffixp - 1) : s[j] # "-"
      ELSE suffixp = 0
  BY <1>6, FirstLaw
<1> HIDE DEF verp, suffixp
<1>9. verend \in (dash + 1)..(n + 1) /\ \A j \in (dash + 1)..(verend - 1) : s[j] # "-"
  <2>1. CASE suffixp = 0
    <3>1. verend = n + 1 /\ (n + 1) - 1 = n
      BY <1>0, <2>1
    <3>2. \A j \in (dash + 1)..n : s[j] # "-"
      BY <1>8, <1>0, <1>5, <2>1
    <3> QED
      BY <1>0, <1>5, <3>1, <3>2
  <2>2. CASE suffixp # 0
    <3>1. verend = suffixp
      BY <2>2
    <3> QED
      BY <1>0, <1>5, <1>8, <2>2, <3>1
  <2> QED
    BY <2>1, <2>2
<1>10. sysend \in (dash + 1)..(n + 1) /\ sysend <= verend
  <2>1. CASE verp = 0
    BY <1>9, <1>0, <1>5, <2>1
  <2>2. CASE verp # 0
    <3>1. sysend = verp /\ verp \in (dash + 1)..n /\ ~(verend < verp + 1)
      BY <1>3, <1>7, <2>2
    <3> HIDE DEF sysend, verend
    <3> QED
      BY <1>0, <1>5, <1>9, <3>1
  <2> QED
    BY <2>1, <2>2
<1>11. verp # 0 => verp \in (dash + 1)..n /\ verp + 1 <= verend
  <2> HIDE DEF verend
  <2> QED
    BY <1>0, <1>3, <1>5, <1>7, <1>9
<1> HIDE DEF verend, sysend
<1>12. SubSeq(s, 1, dash - 1) \in Words /\ Free(SubSeq(s, 1, dash - 1), "-")
  <2>1. dash - 1 \in Nat /\ dash - 1 <= n /\ 1 <= (dash - 1) + 1 /\ 1 \in Nat \ {0}
    BY <1>0, <1>5
  <2> QED
    BY <1>5, <2>1, CutFree
<1>13. SubSeq(s, dash + 1, sysend - 1) \in Words /\ Free(SubSeq(s, dash + 1, sysend - 1), "-")
  <2>1. sysend - 1 \in Nat /\ sysend - 1 <= n /\ dash + 1 <= (sysend - 1) + 1
        /\ \A j \in (dash + 1)..(sysend - 1) : s[j] # "-"
    BY <1>0, <1>5, <1>9, <1>10
  <2> QED
    BY <1>6, <2>1, CutFree
<1>14. verp # 0 => SubSeq(s, verp + 1, verend - 1) \in Words /\ Free(SubSeq(s, verp + 1, verend - 1), "-")
  <2> SUFFICES ASSUME verp # 0
               PROVE  SubSeq(s, verp + 1, verend - 1) \in Words /\ Free(SubSeq(s, verp + 1, verend - 1), "-")
    OBVIOUS
  <2>1. verp + 1 \in Nat \ {0} /\ verend - 1 \in Nat /\ verend - 1 <= n /\ verp + 1 <= (verend - 1) + 1
        /\ \A j \in (verp + 1)..(verend - 1) : s[j] # "-"
    BY <1>0, <1>5, <1>9, <1>11
  <2> QED
    BY <2>1, CutFree
<1>15. << >> \in Words /\ Free(<< >>, "-")
  BY EmptySeq DEF Words, Free
<1> QED
  BY <1>2, <1>12, <1>13, <1>14, <1>15 DEF t

(* target_parse reads back every target that target_str writes, of any      *)
(* words: if the architecture, the system and the version hold no "-", the  *)
(* system holds no dot, and the suffix of a target without version holds no *)
(* dot, which target_parse would take for the start of a version.           *)
THEOREM TargetRoundTrip ==
  ASSUME NEW arch \in Words, NEW sys \in Words, NEW ver \in Words, NEW suf \in Words,
         Free(arch, "-"), Free(sys, "-"), Free(sys, "."), Free(ver, "-"),
         ver # << >> \/ Free(suf, ".")
  PROVE  LET t == [arch |-> arch, sys |-> sys, sysver |-> ver, suffix |-> suf]
         IN target_parse(target_str(t)) = [ok |-> TRUE, t |-> t]
<1> DEFINE t == [arch |-> arch, sys |-> sys, sysver |-> ver, suffix |-> suf]
           z == arch \o <<"-">> \o sys \o Part(".", ver) \o Part("-", suf)
<1>1. target_str(t) = z
  BY DEF target_str, Part
<1> HIDE DEF z
<1>2. target_parse(z).ok /\ target_parse(z).t = t
  BY ParseBack DEF z
<1> HIDE DEF t
<1>3. \A u : target_parse(u) = [ok |-> target_parse(u).ok, t |-> target_parse(u).t]
        /\ target_parse(u).ok \in BOOLEAN
  BY DEF target_parse
<1>4. target_parse(z) = [ok |-> TRUE, t |-> t]
  BY <1>2, <1>3
<1> QED
  BY <1>1, <1>4 DEF t

(* The targets that TargetNamed writes out are such targets.                *)
LEMMA Examples ==
  /\ <<"a">> \in Words /\ Free(<<"a">>, "-")
  /\ <<"s">> \in Words /\ Free(<<"s">>, "-") /\ Free(<<"s">>, ".")
  /\ \A vs \in {<<>>, <<"1">>} : vs \in Words /\ Free(vs, "-")
  /\ \A x \in {<<>>, <<"x">>, <<"x", "-", "y">>} : x \in Words /\ Free(x, ".")
<1>1. << >> \in Words /\ Len(<< >>) = 0
  BY EmptySeq DEF Words
<1>2. \A c \in Marks : <<c>> \in Words /\ Len(<<c>>) = 1 /\ <<c>>[1] = c
  BY SingleWord
<1>3. "a" \in Marks /\ "s" \in Marks /\ "1" \in Marks /\ "x" \in Marks
  BY DEF Marks
<1>4. \A c \in Marks : c # "-" => Free(<<c>>, "-")
  BY <1>2 DEF Free
<1>5. \A c \in Marks : c # "." => Free(<<c>>, ".")
  BY <1>2 DEF Free
<1>6. Free(<< >>, "-") /\ Free(<< >>, ".")
  BY <1>1 DEF Free
<1>7. <<"x", "-", "y">> \in Words /\ Free(<<"x", "-", "y">>, ".")
  BY DEF Words, Marks, Free
<1> QED
  BY <1>1, <1>2, <1>3, <1>4, <1>5, <1>6, <1>7

(* The loop of llvmbox-dedup-target-files keeps the property.               *)
LEMMA TargetStep ==
  ASSUME dedup_target
  PROVE  TargetNamed'
<1>1. PICK s \in TargetNames :
        call' = [f |-> "target", name |-> s, t |-> target_parse(s).t,
                 kept |-> target_parse(s).ok /\ target_str(target_parse(s).t) = s]
  BY DEF dedup_target
<1> DEFINE parsed == target_parse(s)
           t == parsed.t
<1>2. s \in Words
  <2>1. s \in Seq(STRING) /\ STRING \subseteq Marks
    BY TargetNamesAssumption DEF Marks
  <2> QED
    BY <2>1, SeqMonotonic DEF Words
<1>3. call'.name = s /\ call'.t = t /\ call'.kept = (parsed.ok /\ target_str(t) = s)
  BY <1>1
<1>4. ASSUME call'.kept
      PROVE  "-" \notin ToSet(call'.t.arch \o call'.t.sys \o call'.t.sysver)
  <2>1. parsed.ok
    BY <1>3, <1>4
  <2>2. /\ t.arch \in Words /\ t.sys \in Words /\ t.sysver \in Words
        /\ Free(t.arch, "-") /\ Free(t.sys, "-") /\ Free(t.sysver, "-")
    BY <1>2, <2>1, FieldsFree
  <2> DEFINE q == t.arch \o t.sys
             r == q \o t.sysver
  <2>3. q \in Words /\ Free(q, "-")
    BY <2>2, FreeJoined
  <2> HIDE DEF q, t
  <2>4. r \in Words /\ Free(r, "-")
    BY <2>2, <2>3, FreeJoined
  <2> HIDE DEF r
  <2>5. "-" \notin ToSet(r)
    BY <2>4, LenProperties DEF Words, Free, ToSet
  <2> QED
    BY <1>3, <2>5 DEF r, q
<1>5. ASSUME NEW w \in [arch : {<<"a">>}, sys : {<<"s">>}, sysver : {<<>>, <<"1">>},
                        suffix : {<<>>, <<"x">>, <<"x", "-", "y">>}],
             target_str(w) = call'.name
      PROVE  call'.kept
  <2>1. /\ w.arch \in Words /\ w.sys \in Words /\ w.sysver \in Words /\ w.suffix \in Words
        /\ Free(w.arch, "-") /\ Free(w.sys, "-") /\ Free(w.sys, ".") /\ Free(w.sysver, "-")
        /\ Free(w.suffix, ".")
    BY Examples
  <2>2. w = [arch |-> w.arch, sys |-> w.sys, sysver |-> w.sysver, suffix |-> w.suffix]
    OBVIOUS
  <2> DEFINE arch == w.arch
             sys == w.sys
             ver == w.sysver
             suf == w.suffix
  <2>3. w = [arch |-> arch, sys |-> sys, sysver |-> ver, suffix |-> suf]
    BY <2>2
  <2>4. target_parse(target_str(w)) = [ok |-> TRUE, t |-> w]
    <3>1. arch \in Words /\ sys \in Words /\ ver \in Words /\ suf \in Words
          /\ Free(arch, "-") /\ Free(sys, "-") /\ Free(sys, ".") /\ Free(ver, "-") /\ Free(suf, ".")
      BY <2>1
    <3> HIDE DEF arch, sys, ver, suf
    <3> QED
      BY <2>3, <3>1, TargetRoundTrip
  <2>5. s = target_str(w)
    BY <1>3, <1>5
  <2>6. parsed.ok /\ t = w
    BY <2>4, <2>5
  <2> HIDE DEF parsed, t
  <2> QED
    BY <1>3, <2>5, <2>6
<1> QED
  BY <1>4, <1>5 DEF TargetNamed

(* A target directory that llvmbox-dedup-target-files keeps has fields      *)
(* without separators, and no directory named ARCH-SYS[.VER][-SUFFIX] is    *)
(* lost, of any set of names in the directory.                              *)
THEOREM TargetNamedAlways == NamesSpec => []TargetNamed
<1>1. NamesInit => TargetNamed
  BY DEF NamesInit, TargetNamed
<1>2. TargetNamed /\ [NamesNext]_call => TargetNamed'
  <2> SUFFICES ASSUME TargetNamed, [NamesNext]_call PROVE TargetNamed'
    OBVIOUS
  <2>1. CASE dedup_target
    BY <2>1, TargetStep
  <2>2. CASE path_join \/ check_dir_args
    <3>1. call'.f # "target"
      BY <2>2 DEF path_join, check_dir_args
    <3> QED
      BY <3>1 DEF TargetNamed
  <2>3. CASE UNCHANGED call
    BY <2>3 DEF TargetNamed
  <2> QED
    BY <2>1, <2>2, <2>3 DEF NamesNext
<1> QED
  BY <1>1, <1>2, PTL DEF NamesSpec
=============================================================================
