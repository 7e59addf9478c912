-------------------------- MODULE Smoothsort_proof --------------------------
(***************************************************************************)
(* lb_qsort sorts arrays of any length.  Its state is a forest of Leonardo  *)
(* heaps, known by a number and the order of its last heap; sift and trinkle*)
(* put such a forest in order and lose no element, and the numbers that the *)
(* two loops compute are those of the forests they make.                    *)
(***************************************************************************)
EXTENDS Smoothsort, Induction_proof, FunctionTheorems

(* The Leonardo numbers are defined, positive, and as the recursion says.   *)
LEMMA LpIs ==
  /\ lp \in [Nat -> Nat \ {0}]
  /\ lp[0] = 1 /\ lp[1] = 1
  /\ \A k \in Nat : k > 1 => lp[k] = lp[k - 2] + lp[k - 1] + 1
<1> DEFINE Z == Nat \ {0}
           size == [k \in Nat |-> k]
           Body(g, k) == IF k < 2 THEN 1 ELSE g[k - 2] + g[k - 1] + 1
           G == [y \in Nat \X [Nat -> Z] |-> Body(y[2], y[1])]
<1>1. G \in [Nat \X [Nat -> Z] -> Z]
  OBVIOUS
<1>2. Shrinks(G, Nat, Z, size)
  <2> SUFFICES ASSUME NEW k \in Nat, NEW a \in [Nat -> Z], NEW b \in [Nat -> Z],
                      \A j \in Nat : size[j] < size[k] => a[j] = b[j]
               PROVE  G[<<k, a>>] = G[<<k, b>>]
    BY DEF Shrinks
  <2>1. k >= 2 => a[k - 1] = b[k - 1] /\ a[k - 2] = b[k - 2]
    OBVIOUS
  <2> QED
    BY <2>1
<1>3. size \in [Nat -> Nat] /\ Z # {}
  OBVIOUS
<1>4. \E f \in [Nat -> Z] : Solves(f, G, Nat)
  <2> HIDE DEF G, Z, size
  <2> QED
    BY <1>1, <1>2, <1>3, Recursion
<1>5. PICK f \in [Nat -> Z] : \A k \in Nat : f[k] = G[<<k, f>>]
  BY <1>4 DEF Solves
<1>6. f = [k \in Nat |-> Body(f, k)]
  BY <1>5
<1>7. lp = CHOOSE g : g = [k \in Nat |-> Body(g, k)]
  BY DEF lp
<1> HIDE DEF Body
<1>8. lp = [k \in Nat |-> Body(lp, k)]
  BY <1>6, <1>7
<1>9. \A k \in Nat : lp[k] = Body(lp, k)
  BY <1>8
<1>10. lp[0] = 1 /\ lp[1] = 1
  BY <1>9 DEF Body
<1>11. \A k \in Nat : k > 1 => lp[k] = lp[k - 2] + lp[k - 1] + 1
  BY <1>9 DEF Body
<1> DEFINE Good == {k \in Nat : lp[k] \in Z}
<1>12. \A k \in Nat : k \in Good
  <2>1. ASSUME NEW k \in Nat, \A j \in Nat : j < k => j \in Good PROVE k \in Good
    <3>1. CASE k < 2
      BY <1>9, <3>1 DEF Body
    <3>2. CASE k >= 2
      <4>1. k - 2 \in Nat /\ k - 1 \in Nat /\ k - 2 < k /\ k - 1 < k /\ k > 1
        BY <3>2
      <4>2. lp[k - 2] \in Z /\ lp[k - 1] \in Z
        BY <2>1, <4>1
      <4> QED
        BY <1>11, <4>1, <4>2
    <3> QED
      BY <3>1, <3>2
  <2> HIDE DEF Good
  <2> QED
    BY <2>1, StrongInd
<1>13. \A k \in Nat : lp[k] \in Z
  BY <1>12
<1> HIDE DEF Z
<1>14. lp \in [Nat -> Z]
  BY <1>8, <1>13
<1> QED
  BY <1>10, <1>11, <1>14 DEF Z

(* They ascend.                                                             *)
LEMMA LpUp ==
  ASSUME NEW i \in Nat, NEW j \in Nat, i <= j
  PROVE  lp[i] <= lp[j]
<1> DEFINE Good == {d \in Nat : lp[i] <= lp[i + d]}
<1>1. \A k \in Nat : lp[k] \in Nat \ {0} /\ (k > 1 => lp[k] = lp[k - 2] + lp[k - 1] + 1)
  BY LpIs
<1>2. 0 \in Good
  BY <1>1
<1>3. ASSUME NEW d \in Nat, d \in Good PROVE d + 1 \in Good
  <2>1. i + d \in Nat /\ i + (d + 1) \in Nat /\ i + (d + 1) - 1 = i + d /\ (i + (d + 1) > 1 => i + (d + 1) - 2 \in Nat)
    OBVIOUS
  <2>2. lp[i] <= lp[i + d]
    BY <1>3
  <2>3. CASE i + (d + 1) > 1
    <3>1. lp[i + (d + 1)] = lp[i + (d + 1) - 2] + lp[i + d] + 1
      BY <1>1, <2>1, <2>3
    <3> QED
      BY <1>1, <2>1, <2>2, <2>3, <3>1
  <2>4. CASE i + (d + 1) = 1
    <3>1. i = 0 /\ i + (d + 1) = 1
      BY <2>4
    <3> QED
      BY <3>1, LpIs
  <2> QED
    BY <2>1, <2>3, <2>4
<1>4. \A d \in Nat : d \in Good
  <2> HIDE DEF Good
  <2> QED
    BY <1>2, <1>3, NatInd
<1>5. j - i \in Nat /\ i + (j - i) = j
  OBVIOUS
<1> QED
  BY <1>4, <1>5

(* What shl computes.                                                       *)
LEMMA ShlIs ==
  ASSUME NEW n \in Nat
  PROVE  /\ shl[0][n] = n
         /\ \A z \in Nat : shl[z][n] \in Nat /\ shl[z + 1][n] = 2 * shl[z][n]
<1> DEFINE Z == [Nat -> Nat]
           size == [k \in Nat |-> k]
           Body(g, k) == [m \in Nat |-> IF k = 0 THEN m ELSE 2 * g[k - 1][m]]
           G == [y \in Nat \X [Nat -> Z] |-> Body(y[2], y[1])]
<1>1. G \in [Nat \X [Nat -> Z] -> Z]
  <2>1. ASSUME NEW k \in Nat, NEW g \in [Nat -> Z] PROVE Body(g, k) \in Z
    <3>1. CASE k = 0
      BY <3>1
    <3>2. CASE k # 0
      <4>1. g[k - 1] \in [Nat -> Nat]
        BY <3>2
      <4>2. \A m \in Nat : 2 * g[k - 1][m] \in Nat
        <5>1. \A m \in Nat : g[k - 1][m] \in Nat
          BY <4>1
        <5>2. \A x \in Nat : 2 * x \in Nat
          OBVIOUS
        <5> QED
          BY <5>1, <5>2
      <4> QED
        BY <3>2, <4>2
    <3> QED
      BY <3>1, <3>2
  <2> HIDE DEF Body
  <2> QED
    BY <2>1
<1>2. Shrinks(G, Nat, Z, size)
  <2> SUFFICES ASSUME NEW k \in Nat, NEW a \in [Nat -> Z], NEW b \in [Nat -> Z],
                      \A j \in Nat : size[j] < size[k] => a[j] = b[j]
               PROVE  G[<<k, a>>] = G[<<k, b>>]
    BY DEF Shrinks
  <2>1. k # 0 => a[k - 1] = b[k - 1]
    OBVIOUS
  <2>2. Body(a, k) = Body(b, k)
    BY <2>1
  <2> QED
    BY <2>2
<1>3. size \in [Nat -> Nat] /\ Z # {}
  <2>1. [m \in Nat |-> m] \in Z
    OBVIOUS
  <2> QED
    BY <2>1
<1>4. \E f \in [Nat -> Z] : Solves(f, G, Nat)
  <2> HIDE DEF G, Z, size
  <2> QED
    BY <1>1, <1>2, <1>3, Recursion
<1>5. PICK f \in [Nat -> Z] : \A k \in Nat : f[k] = G[<<k, f>>]
  BY <1>4 DEF Solves
<1>6. f = [k \in Nat |-> Body(f, k)]
  BY <1>5
<1>7. shl = CHOOSE g : g = [k \in Nat |-> Body(g, k)]
  BY DEF shl
<1> HIDE DEF Body
<1>8. shl = [k \in Nat |-> Body(shl, k)]
  BY <1>6, <1>7
<1>9. \A k \in Nat : shl[k] = Body(shl, k)
  BY <1>8
<1>10. shl[0][n] = n
  BY <1>9 DEF Body
<1>11. ASSUME NEW k \in Nat PROVE shl[k + 1][n] = 2 * shl[k][n]
  <2>1. k + 1 \in Nat /\ k + 1 # 0 /\ (k + 1) - 1 = k
    OBVIOUS
  <2>2. shl[k + 1] = Body(shl, k + 1)
    BY <1>9, <2>1
  <2>3. Body(shl, k + 1) = [m \in Nat |-> 2 * shl[k][m]]
    BY <2>1 DEF Body
  <2> QED
    BY <2>2, <2>3
<1> DEFINE Good == {k \in Nat : shl[k][n] \in Nat}
<1>12. \A k \in Nat : k \in Good
  <2>1. 0 \in Good
    BY <1>10
  <2>2. ASSUME NEW k \in Nat, k \in Good PROVE k + 1 \in Good
    <3>1. shl[k + 1][n] = 2 * shl[k][n] /\ shl[k][n] \in Nat
      BY <1>11, <2>2
    <3>2. \A x \in Nat : 2 * x \in Nat
      OBVIOUS
    <3>3. 2 * shl[k][n] \in Nat
      BY <3>1, <3>2
    <3>4. shl[k + 1][n] \in Nat
      BY <3>1, <3>3
    <3> QED
      BY <3>4
  <2> HIDE DEF Good
  <2> QED
    BY <2>1, <2>2, NatInd
<1> QED
  BY <1>10, <1>11, <1>12

(* What shr computes.                                                       *)
LEMMA ShrIs ==
  ASSUME NEW n \in Nat
  PROVE  /\ shr[0][n] = n
         /\ \A z \in Nat : shr[z + 1][n] = shr[z][n \div 2]
<1> DEFINE Z == [Nat -> Nat]
           size == [k \in Nat |-> k]
           Body(g, k) == [m \in Nat |-> IF k = 0 THEN m ELSE g[k - 1][m \div 2]]
           G == [y \in Nat \X [Nat -> Z] |-> Body(y[2], y[1])]
<1>0. \A m \in Nat : m \div 2 \in Nat
  OBVIOUS
<1>1. G \in [Nat \X [Nat -> Z] -> Z]
  <2>1. ASSUME NEW k \in Nat, NEW g \in [Nat -> Z] PROVE Body(g, k) \in Z
    <3>1. k # 0 => g[k - 1] \in [Nat -> Nat]
      OBVIOUS
    <3> QED
      BY <1>0, <3>1
  <2> HIDE DEF Body
  <2> QED
    BY <2>1
<1>2. Shrinks(G, Nat, Z, size)
  <2> SUFFICES ASSUME NEW k \in Nat, NEW a \in [Nat -> Z], NEW b \in [Nat -> Z],
                      \A j \in Nat : size[j] < size[k] => a[j] = b[j]
               PROVE  G[<<k, a>>] = G[<<k, b>>]
    BY DEF Shrinks
  <2>1. k # 0 => a[k - 1] = b[k - 1]
    OBVIOUS
  <2>2. Body(a, k) = Body(b, k)
    BY <2>1
  <2> QED
    BY <2>2
<1>3. size \in [Nat -> Nat] /\ Z # {}
  <2>1. [m \in Nat |-> m] \in Z
    OBVIOUS
  <2> QED
    BY <2>1
<1>4. \E f \in [Nat -> Z] : Solves(f, G, Nat)
  <2> HIDE DEF G, Z, size
  <2> QED
    BY <1>1, <1>2, <1>3, Recursion
<1>5. PICK f \in [Nat -> Z] : \A k \in Nat : f[k] = G[<<k, f>>]
  BY <1>4 DEF Solves
<1>6. f = [k \in Nat |-> Body(f, k)]
  BY <1>5
<1>7. shr = CHOOSE g : g = [k \in Nat |-> Body(g, k)]
  BY DEF shr
<1> HIDE DEF Body
<1>8. shr = [k \in Nat |-> Body(shr, k)]
  BY <1>6, <1>7
<1>9. \A k \in Nat : shr[k] = Body(shr, k)
  BY <1>8
<1>10. shr[0][n] = n
  BY <1>9 DEF Body
<1>11. ASSUME NEW k \in Nat PROVE shr[k + 1][n] = shr[k][n \div 2]
  <2>1. k + 1 \in Nat /\ k + 1 # 0 /\ (k + 1) - 1 = k
    OBVIOUS
  <2>2. shr[k + 1] = Body(shr, k + 1)
    BY <1>9, <2>1
  <2>3. Body(shr, k + 1) = [m \in Nat |-> shr[k][m \div 2]]
    BY <2>1 DEF Body
  <2> QED
    BY <2>2, <2>3
<1> QED
  BY <1>10, <1>11

(* What lb_ctz computes.                                                    *)
LEMMA CtzIs ==
  ASSUME NEW n \in Nat
  PROVE  /\ lb_ctz[n] \in Nat
         /\ n % 2 = 1 => lb_ctz[n] = 0
         /\ n > 0 /\ n % 2 = 0 => lb_ctz[n] = 1 + lb_ctz[n \div 2]
<1> DEFINE Z == Nat
           size == [k \in Nat |-> k]
           Body(g, k) == IF k = 0 \/ k % 2 = 1 THEN 0 ELSE 1 + g[k \div 2]
           G == [y \in Nat \X [Nat -> Z] |-> Body(y[2], y[1])]
<1>0. \A k \in Nat : k \div 2 \in Nat /\ (k # 0 => k \div 2 < k)
  OBVIOUS
<1>1. G \in [Nat \X [Nat -> Z] -> Z]
  BY <1>0
<1>2. Shrinks(G, Nat, Z, size)
  <2> SUFFICES ASSUME NEW k \in Nat, NEW a \in [Nat -> Z], NEW b \in [Nat -> Z],
                      \A j \in Nat : size[j] < size[k] => a[j] = b[j]
               PROVE  G[<<k, a>>] = G[<<k, b>>]
    BY DEF Shrinks
  <2>1. k # 0 => a[k \div 2] = b[k \div 2]
    BY <1>0
  <2> QED
    BY <2>1
<1>3. size \in [Nat -> Nat] /\ Z # {}
  OBVIOUS
<1>4. \E f \in [Nat -> Z] : Solves(f, G, Nat)
  <2> HIDE DEF G, Z, size
  <2> QED
    BY <1>1, <1>2, <1>3, Recursion
<1>5. PICK f \in [Nat -> Z] : \A k \in Nat : f[k] = G[<<k, f>>]
  BY <1>4 DEF Solves
<1>6. f = [k \in Nat |-> Body(f, k)]
  BY <1>5
<1>7. lb_ctz = CHOOSE g : g = [k \in Nat |-> Body(g, k)]
  BY DEF lb_ctz
<1> HIDE DEF Body
<1>8. lb_ctz = [k \in Nat |-> Body(lb_ctz, k)]
  BY <1>6, <1>7
<1>9. \A k \in Nat : lb_ctz[k] = Body(lb_ctz, k)
  BY <1>8
<1> DEFINE Good == {k \in Nat : lb_ctz[k] \in Nat}
<1>12. \A k \in Nat : k \in Good
  <2>1. ASSUME NEW k \in Nat, \A j \in Nat : j < k => j \in Good PROVE k \in Good
    <3>1. CASE k = 0 \/ k % 2 = 1
      BY <1>9, <3>1 DEF Body
    <3>2. CASE ~(k = 0 \/ k % 2 = 1)
      <4>1. lb_ctz[k] = 1 + lb_ctz[k \div 2]
        BY <1>9, <3>2 DEF Body
      <4>2. k \div 2 \in Good
        BY <1>0, <2>1, <3>2
      <4> QED
        BY <4>1, <4>2
    <3> QED
      BY <3>1, <3>2
  <2> HIDE DEF Good
  <2> QED
    BY <2>1, StrongInd
<1>13. lb_ctz[n] \in Nat
  BY <1>12
<1>14. n % 2 = 1 => lb_ctz[n] = 0
  BY <1>9 DEF Body
<1>15. n > 0 /\ n % 2 = 0 => lb_ctz[n] = 1 + lb_ctz[n \div 2]
  BY <1>9 DEF Body
<1> QED
  BY <1>13, <1>14, <1>15

-----------------------------------------------------------------------------

(* The parts of a heap are heaps of smaller orders.                         *)
LEMMA Below ==
  ASSUME NEW t \in Heap
  PROVE  /\ t.root \in Int /\ t.k \in Nat /\ t = [root |-> t.root, k |-> t.k]
         /\ lp[t.k] \in Nat \ {0}
         /\ t.k > 1 => /\ Right(t) \in Heap /\ Right(t).root = t.root - 1 /\ Right(t).k = t.k - 2
                       /\ Left(t) \in Heap /\ Left(t).root = t.root - 1 - lp[t.k - 2] /\ Left(t).k = t.k - 1
<1>1. t.root \in Int /\ t.k \in Nat /\ t = [root |-> t.root, k |-> t.k]
  BY DEF Heap
<1>2. \A k \in Nat : lp[k] \in Nat \ {0}
  BY LpIs
<1>3. ASSUME t.k > 1
      PROVE  /\ Right(t) \in Heap /\ Right(t).root = t.root - 1 /\ Right(t).k = t.k - 2
             /\ Left(t) \in Heap /\ Left(t).root = t.root - 1 - lp[t.k - 2] /\ Left(t).k = t.k - 1
  <2>1. t.k - 2 \in Nat /\ t.k - 1 \in Nat /\ t.root - 1 \in Int
    BY <1>1, <1>3
  <2>2. lp[t.k - 2] \in Nat
    BY <1>2, <2>1
  <2>3. t.root - 1 - lp[t.k - 2] \in Int
    BY <1>1, <2>2
  <2> QED
    BY <2>1, <2>3 DEF Right, Left, Heap
<1> QED
  BY <1>1, <1>2, <1>3

(* The same place, and the place before a heap, with the next order.        *)
Up(t) == [root |-> t.root, k |-> t.k + 1]
Before(t) == [root |-> t.root - lp[t.k], k |-> t.k + 1]

(* Both are heaps.                                                          *)
LEMMA NextHeaps ==
  ASSUME NEW t \in Heap
  PROVE  /\ Up(t) \in Heap /\ Up(t).root = t.root /\ Up(t).k = t.k + 1
         /\ Before(t) \in Heap /\ Before(t).root = t.root - lp[t.k] /\ Before(t).k = t.k + 1
<1>1. t.root \in Int /\ t.k \in Nat /\ lp[t.k] \in Nat
  BY Below
<1>2. t.k + 1 \in Nat /\ t.root - lp[t.k] \in Int
  BY <1>1
<1> QED
  BY <1>1, <1>2 DEF Up, Before, Heap

(* The forest of a number, by its last bit.                                 *)
ForestLaw(t) ==
  /\ forest[0][t] = << >>
  /\ \A n \in Nat : n > 0 /\ n % 2 = 0 => forest[n][t] = forest[n \div 2][Up(t)]
  /\ \A n \in Nat : n % 2 = 1 => forest[n][t] = <<t>> \o forest[n \div 2][Before(t)]
  /\ \A n \in Nat : forest[n][t] \in Seq(Heap)

(* The law holds of every heap.                                             *)
LEMMA ForestIs ==
  ASSUME NEW t \in Heap
  PROVE  ForestLaw(t)
<1> DEFINE Z == [Heap -> Seq(Heap)]
           size == [n \in Nat |-> n]
           Body(g, n) == [s \in Heap |->
             IF n = 0 THEN <<>>
             ELSE IF n % 2 = 0 THEN g[n \div 2][[root |-> s.root, k |-> s.k + 1]]
             ELSE <<s>> \o g[n \div 2][[root |-> s.root - lp[s.k], k |-> s.k + 1]]]
           G == [y \in Nat \X [Nat -> Z] |-> Body(y[2], y[1])]
<1>0. \A n \in Nat : n \div 2 \in Nat /\ (n # 0 => n \div 2 < n)
  OBVIOUS
<1>1. ASSUME NEW n \in Nat, NEW g, n # 0 => g[n \div 2] \in Z PROVE Body(g, n) \in Z
  <2> SUFFICES ASSUME NEW s \in Heap PROVE Body(g, n)[s] \in Seq(Heap)
    OBVIOUS
  <2>1. CASE n = 0
    BY <2>1, EmptySeq
  <2>2. CASE n # 0
    <3>1. \A u \in Heap : g[n \div 2][u] \in Seq(Heap)
      BY <1>1, <2>2
    <3>2. Up(s) \in Heap /\ Before(s) \in Heap
      BY NextHeaps
    <3>3. g[n \div 2][Up(s)] \in Seq(Heap) /\ g[n \div 2][Before(s)] \in Seq(Heap)
      BY <3>1, <3>2
    <3>4. <<s>> \in Seq(Heap)
      OBVIOUS
    <3>5. <<s>> \o g[n \div 2][Before(s)] \in Seq(Heap)
      BY <3>3, <3>4, ConcatProperties
    <3> QED
      BY <2>2, <3>3, <3>5 DEF Up, Before
  <2> QED
    BY <2>1, <2>2
<1>2. G \in [Nat \X [Nat -> Z] -> Z]
  <2>1. ASSUME NEW n \in Nat, NEW g \in [Nat -> Z] PROVE Body(g, n) \in Z
    <3>1. g[n \div 2] \in Z
      BY <1>0, SMTT(60)
    <3> HIDE DEF Body, Z
    <3> QED
      BY <1>1, <3>1
  <2> HIDE DEF Body, Z
  <2> QED
    BY <2>1
<1>3. Shrinks(G, Nat, Z, size)
  <2> SUFFICES ASSUME NEW n \in Nat, NEW a \in [Nat -> Z], NEW b \in [Nat -> Z],
                      \A j \in Nat : size[j] < size[n] => a[j] = b[j]
               PROVE  G[<<n, a>>] = G[<<n, b>>]
    BY DEF Shrinks
  <2>1. n # 0 => a[n \div 2] = b[n \div 2]
    BY <1>0
  <2>2. Body(a, n) = Body(b, n)
    <3>1. CASE n = 0
      BY <3>1
    <3>2. CASE n # 0
      <4> DEFINE x == a[n \div 2]
                 y == b[n \div 2]
      <4>1. x = y
        BY <2>1, <3>2
      <4> HIDE DEF x, y
      <4>2. [s \in Heap |->
             IF n % 2 = 0 THEN x[[root |-> s.root, k |-> s.k + 1]]
             ELSE <<s>> \o x[[root |-> s.root - lp[s.k], k |-> s.k + 1]]]
            = [s \in Heap |->
             IF n % 2 = 0 THEN y[[root |-> s.root, k |-> s.k + 1]]
             ELSE <<s>> \o y[[root |-> s.root - lp[s.k], k |-> s.k + 1]]]
        BY <4>1
      <4> QED
        BY <3>2, <4>2 DEF x, y
    <3> QED
      BY <3>1, <3>2
  <2> QED
    BY <2>2, ZenonT(60)
<1>4. size \in [Nat -> Nat] /\ Z # {}
  <2>1. [s \in Heap |-> << >>] \in Z
    BY EmptySeq
  <2> QED
    BY <2>1
<1>5. \E f \in [Nat -> Z] : Solves(f, G, Nat)
  <2> HIDE DEF G, Z, size
  <2> QED
    BY <1>2, <1>3, <1>4, Recursion
<1>6. PICK f \in [Nat -> Z] : \A n \in Nat : f[n] = G[<<n, f>>]
  BY <1>5 DEF Solves
<1>7. f = [n \in Nat |-> Body(f, n)]
  BY <1>6
<1>8. forest = CHOOSE g : g = [n \in Nat |-> Body(g, n)]
  BY DEF forest
<1> HIDE DEF Body
<1>9. forest = [n \in Nat |-> Body(forest, n)]
  BY <1>7, <1>8
<1>10. \A n \in Nat : forest[n] = Body(forest, n)
  BY <1>9
<1> DEFINE Good == {n \in Nat : forest[n] \in Z}
<1>11. \A n \in Nat : n \in Good
  <2>1. ASSUME NEW n \in Nat, \A j \in Nat : j < n => j \in Good PROVE n \in Good
    <3>1. n # 0 => forest[n \div 2] \in Z
      BY <1>0, <2>1
    <3> HIDE DEF Z
    <3>2. Body(forest, n) \in Z
      BY <1>1, <3>1
    <3> QED
      BY <1>10, <3>2
  <2> HIDE DEF Good
  <2> QED
    BY <2>1, StrongInd
<1>12. \A n \in Nat : forest[n] \in Z
  BY <1>11
<1>13. \A n \in Nat : forest[n][t] \in Seq(Heap)
  BY <1>12
<1>14. forest[0][t] = << >>
  <2>1. forest[0] = Body(forest, 0)
    BY <1>10
  <2> QED
    BY <2>1 DEF Body
<1>15. ASSUME NEW n \in Nat, n > 0, n % 2 = 0 PROVE forest[n][t] = forest[n \div 2][Up(t)]
  <2>1. forest[n] = Body(forest, n)
    BY <1>10
  <2>2. Body(forest, n)[t] = forest[n \div 2][[root |-> t.root, k |-> t.k + 1]]
    BY <1>15 DEF Body
  <2> QED
    BY <2>1, <2>2 DEF Up
<1>16. ASSUME NEW n \in Nat, n % 2 = 1 PROVE forest[n][t] = <<t>> \o forest[n \div 2][Before(t)]
  <2>1. forest[n] = Body(forest, n)
    BY <1>10
  <2>2. Body(forest, n)[t] = <<t>> \o forest[n \div 2][[root |-> t.root - lp[t.k], k |-> t.k + 1]]
    BY <1>16, SMTT(60) DEF Body
  <2> QED
    BY <2>1, <2>2 DEF Before
<1> QED
  BY <1>13, <1>14, <1>15, <1>16 DEF ForestLaw

(* The heaps in a heap are itself and those of its two parts.               *)
LEMMA PartsIs ==
  ASSUME NEW t \in Heap
  PROVE  /\ t.k <= 1 => parts[t] = {t}
         /\ t.k > 1 => parts[t] = {t} \cup (parts[Right(t)] \cup parts[Left(t)])
<1> DEFINE Z == SUBSET Heap
           size == [s \in Heap |-> s.k]
           Body(g, s) == {s} \cup IF s.k <= 1 THEN {} ELSE g[Right(s)] \cup g[Left(s)]
           G == [y \in Heap \X [Heap -> Z] |-> Body(y[2], y[1])]
<1>0. \A s \in Heap : s.k \in Nat /\ (~(s.k <= 1) => Right(s) \in Heap /\ Left(s) \in Heap
                                      /\ Right(s).k < s.k /\ Left(s).k < s.k)
  <2> SUFFICES ASSUME NEW s \in Heap
               PROVE  s.k \in Nat /\ (~(s.k <= 1) => Right(s) \in Heap /\ Left(s) \in Heap
                                      /\ Right(s).k < s.k /\ Left(s).k < s.k)
    OBVIOUS
  <2> QED
    BY Below
<1>1. G \in [Heap \X [Heap -> Z] -> Z]
  <2>1. ASSUME NEW s \in Heap, NEW g \in [Heap -> Z] PROVE Body(g, s) \in Z
    BY <1>0
  <2> HIDE DEF Body
  <2> QED
    BY <2>1
<1>2. Shrinks(G, Heap, Z, size)
  <2> SUFFICES ASSUME NEW s \in Heap, NEW a \in [Heap -> Z], NEW b \in [Heap -> Z],
                      \A j \in Heap : size[j] < size[s] => a[j] = b[j]
               PROVE  G[<<s, a>>] = G[<<s, b>>]
    BY DEF Shrinks
  <2>1. ~(s.k <= 1) => a[Right(s)] = b[Right(s)] /\ a[Left(s)] = b[Left(s)]
    BY <1>0
  <2>2. Body(a, s) = Body(b, s)
    BY <2>1
  <2> HIDE DEF Body
  <2> QED
    BY <2>2
<1>3. size \in [Heap -> Nat] /\ Z # {}
  BY <1>0
<1>4. \E f \in [Heap -> Z] : Solves(f, G, Heap)
  <2> HIDE DEF G, Z, size
  <2> QED
    BY <1>1, <1>2, <1>3, Recursion
<1>5. PICK f \in [Heap -> Z] : \A s \in Heap : f[s] = G[<<s, f>>]
  BY <1>4 DEF Solves
<1>6. f = [s \in Heap |-> Body(f, s)]
  BY <1>5
<1>7. parts = CHOOSE g : g = [s \in Heap |-> Body(g, s)]
  BY DEF parts
<1> HIDE DEF Body
<1>8. parts = [s \in Heap |-> Body(parts, s)]
  BY <1>6, <1>7
<1>9. parts[t] = Body(parts, t)
  BY <1>8
<1>10. t.k \in Nat
  BY <1>0
<1> QED
  BY <1>9, <1>10 DEF Body

(* The path of the value x down the heaps of the array a.                   *)
Stays(a, x, s) == s.k <= 1 \/ (x >= a[Left(s).root] /\ x >= a[Right(s).root])
Greater(a, s) == IF a[Left(s).root] >= a[Right(s).root] THEN Left(s) ELSE Right(s)
PathLaw(P, a, x) ==
  /\ P \in [Heap -> Seq(Int)]
  /\ \A s \in Heap : P[s] = IF Stays(a, x, s) THEN <<s.root>> ELSE <<s.root>> \o P[Greater(a, s)]

(* SiftPath follows such a path.                                            *)
LEMMA PathIs ==
  ASSUME NEW a, NEW t \in Heap
  PROVE  \E P : PathLaw(P, a, a[t.root]) /\ SiftPath(a, t) = P[t]
<1> DEFINE x == a[t.root]
           Z == Seq(Int)
           size == [s \in Heap |-> s.k]
           Body(g, s) == IF Stays(a, x, s) THEN <<s.root>> ELSE <<s.root>> \o g[Greater(a, s)]
           G == [y \in Heap \X [Heap -> Z] |-> Body(y[2], y[1])]
           Raw(g, s) == LET rt == Right(s).root
                            lf == Left(s).root
                        IN IF s.k <= 1 \/ (a[t.root] >= a[lf] /\ a[t.root] >= a[rt]) THEN <<s.root>>
                           ELSE <<s.root>> \o g[IF a[lf] >= a[rt] THEN Left(s) ELSE Right(s)]
           p0 == CHOOSE g : g = [s \in Heap |-> Raw(g, s)]
<1>0. ASSUME NEW s \in Heap
      PROVE s.k \in Nat /\ s.root \in Int /\ (~Stays(a, x, s) => Greater(a, s) \in Heap /\ Greater(a, s).k < s.k)
  <2>1. s.k \in Nat /\ (s.k > 1 => Right(s) \in Heap /\ Left(s) \in Heap
                                      /\ Right(s).k = s.k - 2 /\ Left(s).k = s.k - 1) /\ s.root \in Int
    BY Below
  <2> QED
    BY <2>1 DEF Stays, Greater
<1>1. ASSUME NEW s \in Heap, NEW g, ~Stays(a, x, s) => g[Greater(a, s)] \in Z PROVE Body(g, s) \in Z
  <2>1. <<s.root>> \in Z
    BY <1>0
  <2>2. CASE Stays(a, x, s)
    BY <2>1, <2>2
  <2>3. CASE ~Stays(a, x, s)
    <3> DEFINE q == g[Greater(a, s)]
    <3>1. q \in Z
      BY <1>1, <2>3
    <3> HIDE DEF q
    <3>2. <<s.root>> \o q \in Z
      BY <2>1, <3>1, ConcatProperties
    <3> QED
      BY <2>3, <3>2 DEF q
  <2> QED
    BY <2>2, <2>3
<1>2. G \in [Heap \X [Heap -> Z] -> Z]
  <2>1. ASSUME NEW s \in Heap, NEW g \in [Heap -> Z] PROVE Body(g, s) \in Z
    <3> HIDE DEF Body, Z
    <3> QED
      BY <1>0, <1>1
  <2> HIDE DEF Body, Z
  <2> QED
    BY <2>1
<1>3. Shrinks(G, Heap, Z, size)
  <2> SUFFICES ASSUME NEW s \in Heap, NEW b \in [Heap -> Z], NEW c \in [Heap -> Z],
                      \A j \in Heap : size[j] < size[s] => b[j] = c[j]
               PROVE  G[<<s, b>>] = G[<<s, c>>]
    BY DEF Shrinks
  <2>1. ~Stays(a, x, s) => b[Greater(a, s)] = c[Greater(a, s)]
    BY <1>0
  <2>2. Body(b, s) = Body(c, s)
    BY <2>1
  <2> HIDE DEF Body, Z
  <2> QED
    BY <2>2
<1>4. size \in [Heap -> Nat] /\ Z # {}
  BY <1>0, EmptySeq
<1>5. \E f \in [Heap -> Z] : Solves(f, G, Heap)
  <2> HIDE DEF G, Z, size
  <2> QED
    BY <1>2, <1>3, <1>4, Recursion
<1>6. PICK f \in [Heap -> Z] : \A s \in Heap : f[s] = G[<<s, f>>]
  BY <1>5 DEF Solves
<1>7. \A s \in Heap : f[s] = Body(f, s)
  <2> HIDE DEF Body, Z
  <2> QED
    BY <1>6
<1>8. \A g, s : Raw(g, s) = Body(g, s)
  BY DEF Stays, Greater
<1>9. SiftPath(a, t) = p0[t]
  BY DEF SiftPath
<1> HIDE DEF Body, Raw
<1>10. f = [s \in Heap |-> Raw(f, s)]
  BY <1>7, <1>8
<1>11. p0 = [s \in Heap |-> Raw(p0, s)]
  BY <1>10
<1> HIDE DEF p0
<1>12. \A s \in Heap : p0[s] = Body(p0, s)
  BY <1>8, <1>11
<1> DEFINE Good == {n \in Nat : \A s \in Heap : s.k = n => p0[s] \in Z}
<1>13. \A n \in Nat : n \in Good
  <2>1. ASSUME NEW n \in Nat, \A j \in Nat : j < n => j \in Good PROVE n \in Good
    <3> SUFFICES ASSUME NEW s \in Heap, s.k = n PROVE p0[s] \in Z
      OBVIOUS
    <3> HIDE DEF Z
    <3>1. ASSUME ~Stays(a, x, s) PROVE p0[Greater(a, s)] \in Z
      <4>1. Greater(a, s) \in Heap /\ Greater(a, s).k < n /\ Greater(a, s).k \in Nat
        BY <1>0, <3>1
      <4>2. Greater(a, s).k \in Good
        BY <2>1, <4>1
      <4> QED
        BY <4>1, <4>2
    <3>2. Body(p0, s) \in Z
      BY <1>1, <3>1
    <3> QED
      BY <1>12, <3>2
  <2> HIDE DEF Good
  <2> QED
    BY <2>1, StrongInd
<1>14. \A s \in Heap : p0[s] \in Z
  <2> SUFFICES ASSUME NEW s \in Heap PROVE p0[s] \in Z
    OBVIOUS
  <2>1. s.k \in Good
    BY <1>0, <1>13
  <2> HIDE DEF Z
  <2> QED
    BY <2>1
<1>15. p0 \in [Heap -> Z]
  <2> HIDE DEF Z
  <2> QED
    BY <1>11, <1>14
<1>16. PathLaw(p0, a, x)
  BY <1>12, <1>15 DEF PathLaw, Body
<1> QED
  BY <1>9, <1>16

-----------------------------------------------------------------------------
(* A sequence with one more element in front.                               *)
ConsOf(S, x, s, t) ==
  /\ t \in Seq(S) /\ Len(t) = Len(s) + 1 /\ t[1] = x /\ Len(s) \in Nat
  /\ \A i \in 1..Len(s) : t[i + 1] = s[i]

(* Prepending is that.                                                      *)
LEMMA Cons ==
  ASSUME NEW S, NEW x \in S, NEW s \in Seq(S)
  PROVE  ConsOf(S, x, s, <<x>> \o s)
<1> DEFINE o == <<x>>
           t == o \o s
<1>1. o \in Seq(S) /\ Len(o) = 1 /\ o[1] = x
  OBVIOUS
<1> HIDE DEF o
<1>2. t \in Seq(S) /\ Len(t) = Len(o) + Len(s)
      /\ \A i \in 1..(Len(o) + Len(s)) : t[i] = IF i <= Len(o) THEN o[i] ELSE s[i - Len(o)]
  BY <1>1, ConcatProperties
<1>3. Len(s) \in Nat
  BY LenProperties
<1> HIDE DEF t
<1>4. t[1] = x
  BY <1>1, <1>2, <1>3
<1>5. ASSUME NEW i \in 1..Len(s) PROVE t[i + 1] = s[i]
  <2>1. i + 1 \in 1..(Len(o) + Len(s)) /\ ~(i + 1 <= Len(o)) /\ (i + 1) - Len(o) = i
    BY <1>1, <1>3
  <2> QED
    BY <1>2, <2>1
<1>6. Len(t) = Len(s) + 1
  BY <1>1, <1>2, <1>3
<1> QED
  BY <1>2, <1>3, <1>4, <1>5, <1>6 DEF ConsOf, o, t

(* b is a after one more round of cycle over the places ar.                 *)
Places(a, ar) ==
  /\ ar \in Seq(Int)
  /\ \A j \in 1..Len(ar) : ar[j] \in 1..Len(a)
  /\ \A i, j \in 1..Len(ar) : ar[i] = ar[j] => i = j

Cycled(a, ar, b) ==
  /\ b \in Seq(Int) /\ Len(b) = Len(a)
  /\ \A i \in 1..Len(a) : (\A j \in 1..Len(ar) : ar[j] # i) => b[i] = a[i]
  /\ \A j \in 1..Len(ar) : j < Len(ar) => b[ar[j]] = a[ar[j + 1]]
  /\ Len(ar) > 0 => b[ar[Len(ar)]] = a[ar[1]]

(* Nothing is lost, and the elements after the place m stay.                *)
Kept(a, b, m) ==
  /\ b \in Seq(Int) /\ Len(b) = Len(a)
  /\ \A i \in 1..Len(a) : i > m => b[i] = a[i]
  /\ \A i \in 1..Len(a) : i <= m => \E j \in 1..Len(a) : j <= m /\ b[i] = a[j]
  /\ \A x : Count(b, x) = Count(a, x)

(* Every element occurs as often after the places have been permuted.       *)
LEMMA SameCount ==
  ASSUME NEW n \in Nat, NEW a \in Seq(Int), NEW b \in Seq(Int), Len(a) = n, Len(b) = n,
         NEW f \in [1..n -> 1..n], \A i, j \in 1..n : f[i] = f[j] => i = j,
         \A i \in 1..n : b[i] = a[f[i]]
  PROVE  \A x : Count(b, x) = Count(a, x)
<1>1. IsFiniteSet(1..n)
  BY FS_Interval
<1>2. f \in Injection(1..n, 1..n)
  BY DEF Injection, IsInjective
<1>3. f \in Surjection(1..n, 1..n)
  BY <1>1, <1>2, FS_Injection
<1>4. \A y \in 1..n : \E i \in 1..n : f[i] = y
  BY <1>3 DEF Surjection
<1>5. DOMAIN a = 1..n /\ DOMAIN b = 1..n
  BY LenProperties
<1> TAKE x
<1> DEFINE B == {i \in 1..n : b[i] = x}
           A == {i \in 1..n : a[i] = x}
           g == [i \in B |-> f[i]]
<1>6. IsFiniteSet(B)
  BY <1>1, FS_Subset
<1>7. g \in [B -> A]
  OBVIOUS
<1>8. \A i, j \in B : g[i] = g[j] => i = j
  OBVIOUS
<1>9. \A y \in A : \E i \in B : g[i] = y
  BY <1>4
<1>10. g \in Bijection(B, A)
  <2> HIDE DEF g, A, B
  <2>1. g \in Injection(B, A)
    BY <1>7, <1>8 DEF Injection, IsInjective
  <2>2. g \in Surjection(B, A)
    BY <1>7, <1>9 DEF Surjection
  <2> QED
    BY <2>1, <2>2 DEF Bijection
<1>11. Cardinality(A) = Cardinality(B)
  <2> HIDE DEF g, A, B
  <2>1. ExistsBijection(B, A)
    BY <1>10 DEF ExistsBijection
  <2> QED
    BY <1>6, <2>1, FS_Bijection
<1> QED
  BY <1>5, <1>11 DEF Count

(* cycle is such a round, and it loses nothing.                             *)
LEMMA CycleIs ==
  ASSUME NEW a \in Seq(Int), NEW ar, Places(a, ar)
  PROVE  /\ Cycled(a, ar, cycle(a, ar))
         /\ \A m \in Int : (\A j \in 1..Len(ar) : ar[j] <= m) => Kept(a, cycle(a, ar), m)
<1> DEFINE n == Len(a)
           l == Len(ar)
           At(i) == CHOOSE j \in DOMAIN ar : ar[j] = i
           After(j) == IF j = Len(ar) THEN 1 ELSE j + 1
           In(i) == \E j \in DOMAIN ar : ar[j] = i
           f == [i \in 1..n |-> IF In(i) THEN ar[After(At(i))] ELSE i]
           b == cycle(a, ar)
<1>1. n \in Nat /\ DOMAIN a = 1..n /\ l \in Nat /\ DOMAIN ar = 1..l /\ a \in [1..n -> Int]
  BY LenProperties DEF Places
<1>2. /\ \A j \in 1..l : ar[j] \in 1..n
      /\ \A i, j \in 1..l : ar[i] = ar[j] => i = j
  BY DEF Places
<1>3. ASSUME NEW i \in 1..n, In(i) PROVE At(i) \in 1..l /\ ar[At(i)] = i /\ After(At(i)) \in 1..l
  <2>1. At(i) \in 1..l /\ ar[At(i)] = i
    BY <1>1, <1>3
  <2> HIDE DEF At
  <2> QED
    BY <1>1, <2>1
<1>4. ASSUME NEW i \in 1..n, NEW j \in 1..n, f[i] = f[j] PROVE i = j
  <2>1. CASE In(i) /\ In(j)
    <3>1. At(i) \in 1..l /\ ar[At(i)] = i /\ After(At(i)) \in 1..l
      BY <1>3, <2>1
    <3>2. At(j) \in 1..l /\ ar[At(j)] = j /\ After(At(j)) \in 1..l
      BY <1>3, <2>1
    <3>3. ar[After(At(i))] = ar[After(At(j))]
      BY <1>4, <2>1
    <3> HIDE DEF At
    <3>4. After(At(i)) = After(At(j))
      <4> HIDE DEF After
      <4> QED
        BY <1>2, <3>1, <3>2, <3>3
    <3>5. At(i) = At(j)
      BY <1>1, <3>1, <3>2, <3>4
    <3> QED
      BY <3>1, <3>2, <3>5
  <2>2. CASE In(i) /\ ~In(j)
    <3>1. After(At(i)) \in 1..l
      BY <1>3, <2>2
    <3>2. ar[After(At(i))] = j
      BY <1>4, <2>2
    <3> QED
      BY <1>1, <2>2, <3>1, <3>2
  <2>3. CASE ~In(i) /\ In(j)
    <3>1. After(At(j)) \in 1..l
      BY <1>3, <2>3
    <3>2. ar[After(At(j))] = i
      BY <1>4, <2>3
    <3> QED
      BY <1>1, <2>3, <3>1, <3>2
  <2>4. CASE ~In(i) /\ ~In(j)
    BY <1>4, <2>4
  <2> QED
    BY <2>1, <2>2, <2>3, <2>4
<1>5. ASSUME NEW i \in 1..n PROVE f[i] \in 1..n
  <2>1. CASE In(i)
    <3>1. After(At(i)) \in 1..l
      BY <1>3, <2>1
    <3> QED
      BY <1>2, <2>1, <3>1
  <2>2. CASE ~In(i)
    BY <2>2
  <2> QED
    BY <2>1, <2>2
<1>6. b = [i \in 1..n |-> IF In(i) THEN a[ar[After(At(i))]] ELSE a[i]]
  BY <1>1 DEF cycle
<1>7. \A i \in 1..n : b[i] = a[f[i]]
  <2> HIDE DEF In, At, After, b
  <2> QED
    BY <1>6
<1>8. b \in Seq(Int) /\ Len(b) = n
  <2>1. \A i \in 1..n : b[i] \in Int
    <3> HIDE DEF f, b
    <3> QED
      BY <1>1, <1>5, <1>7
  <2>2. DOMAIN b = 1..n
    BY <1>6
  <2>3. b = [i \in 1..n |-> b[i]]
    <3> HIDE DEF In, At, After, b
    <3> QED
      BY <1>6
  <2> HIDE DEF b
  <2>4. b \in [1..n -> Int]
    BY <2>1, <2>3
  <2> QED
    BY <1>1, <2>4
<1>9. ASSUME NEW i \in 1..n, \A j \in 1..l : ar[j] # i PROVE b[i] = a[i]
  <2>1. ~In(i)
    BY <1>1, <1>9
  <2> QED
    BY <1>6, <2>1
<1>10. ASSUME NEW j \in 1..l PROVE b[ar[j]] = a[ar[After(j)]]
  <2>1. ar[j] \in 1..n /\ In(ar[j])
    BY <1>1, <1>2
  <2>2. At(ar[j]) \in 1..l /\ ar[At(ar[j])] = ar[j]
    BY <1>3, <2>1
  <2>3. At(ar[j]) = j
    <3> HIDE DEF At
    <3> QED
      BY <1>2, <2>2
  <2>4. b[ar[j]] = a[ar[After(At(ar[j]))]]
    <3> HIDE DEF At, After, In, b
    <3> QED
      BY <1>6, <2>1
  <2> QED
    BY <2>3, <2>4
<1>11. Cycled(a, ar, b)
  <2>1. ASSUME NEW j \in 1..l, j < l PROVE b[ar[j]] = a[ar[j + 1]]
    <3>1. j # Len(ar)
      <4>1. l \in Nat /\ j \in Nat /\ j < l
        BY <1>1, <2>1
      <4>2. \A x, y \in Nat : x < y => x # y
        OBVIOUS
      <4> QED
        BY <4>1, <4>2
    <3>2. After(j) = j + 1
      BY <3>1
    <3>3. b[ar[j]] = a[ar[After(j)]]
      BY <1>10
    <3> HIDE DEF After, b
    <3> QED
      BY <3>2, <3>3
  <2>2. ASSUME l > 0 PROVE b[ar[l]] = a[ar[1]]
    <3>1. l \in 1..l /\ After(l) = 1
      BY <1>1, <2>2
    <3>2. b[ar[l]] = a[ar[After(l)]]
      BY <1>10, <3>1
    <3> QED
      BY <3>1, <3>2
  <2> HIDE DEF b
  <2> QED
    BY <1>8, <1>9, <2>1, <2>2 DEF Cycled
<1>12. \A x : Count(b, x) = Count(a, x)
  <2>1. f \in [1..n -> 1..n]
    <3> HIDE DEF In, At, After
    <3> QED
      BY <1>5
  <2>2. n \in Nat /\ Len(a) = n /\ Len(b) = n /\ b \in Seq(Int)
    BY <1>1, <1>8
  <2> HIDE DEF f, b, n
  <2>3. \A i, j \in 1..n : f[i] = f[j] => i = j
    BY <1>4
  <2> QED
    BY <1>7, <2>1, <2>2, <2>3, SameCount
<1>13. ASSUME NEW m \in Int, \A j \in 1..l : ar[j] <= m PROVE Kept(a, b, m)
  <2>1. ASSUME NEW i \in 1..n, i > m PROVE b[i] = a[i]
    <3>1. \A j \in 1..l : ar[j] # i
      BY <1>2, <1>13, <2>1
    <3> QED
      BY <1>9, <3>1
  <2>2. ASSUME NEW i \in 1..n, i <= m PROVE \E j \in 1..n : j <= m /\ b[i] = a[j]
    <3>1. f[i] \in 1..n /\ b[i] = a[f[i]]
      BY <1>5, <1>7
    <3>2. f[i] <= m
      <4>1. CASE In(i)
        <5>1. After(At(i)) \in 1..l
          BY <1>3, <4>1
        <5> QED
          BY <1>13, <4>1, <5>1
      <4>2. CASE ~In(i)
        BY <2>2, <4>2
      <4> QED
        BY <4>1, <4>2
    <3> HIDE DEF f, b
    <3> QED
      BY <3>1, <3>2
  <2> HIDE DEF b
  <2> QED
    BY <1>8, <1>12, <2>1, <2>2 DEF Kept
<1> QED
  BY <1>11, <1>13

(* No change keeps everything.                                              *)
LEMMA KeptSelf ==
  ASSUME NEW a \in Seq(Int), NEW m \in Int
  PROVE  Kept(a, a, m)
BY DEF Kept

(* Nor do two changes lose anything, the second within the first's places.  *)
LEMMA KeptTwice ==
  ASSUME NEW a \in Seq(Int), NEW b, NEW c, NEW m \in Int, NEW n \in Int,
         Kept(a, b, m), Kept(b, c, n), n <= m
  PROVE  Kept(a, c, m)
<1>1. Len(a) \in Nat /\ Len(b) = Len(a) /\ Len(c) = Len(a) /\ b \in Seq(Int) /\ c \in Seq(Int)
  BY LenProperties DEF Kept
<1>2. ASSUME NEW i \in 1..Len(a), i > m PROVE c[i] = a[i]
  BY <1>1, <1>2 DEF Kept
<1>3. ASSUME NEW i \in 1..Len(a), i <= m PROVE \E j \in 1..Len(a) : j <= m /\ c[i] = a[j]
  <2>1. \E j \in 1..Len(a) : j <= m /\ c[i] = b[j]
    <3>1. CASE i > n
      BY <1>1, <1>3, <3>1 DEF Kept
    <3>2. CASE i <= n
      <4>1. PICK j \in 1..Len(a) : j <= n /\ c[i] = b[j]
        BY <1>1, <3>2 DEF Kept
      <4> QED
        BY <1>1, <4>1
    <3> QED
      BY <1>1, <3>1, <3>2
  <2>2. PICK j \in 1..Len(a) : j <= m /\ c[i] = b[j]
    BY <2>1
  <2>3. PICK q \in 1..Len(a) : q <= m /\ b[j] = a[q]
    BY <2>2 DEF Kept
  <2> QED
    BY <2>2, <2>3
<1>4. \A x : Count(c, x) = Count(a, x)
  BY DEF Kept
<1> QED
  BY <1>1, <1>2, <1>3, <1>4 DEF Kept

-----------------------------------------------------------------------------
(* The places of a heap, the array it is in, and what makes its two parts   *)
(* heaps.                                                                   *)
InHeap(t, i) == i \in Int /\ t.root - lp[t.k] < i /\ i <= t.root
Fits(a, t) == a \in Seq(Int) /\ t \in Heap /\ lp[t.k] <= t.root /\ t.root <= Len(a)
SonsOk(a, t) == t.k > 1 => HeapAt(a, Right(t)) /\ HeapAt(a, Left(t))

(* The places of a heap are its root and those of its two parts, and the    *)
(* parts are apart.                                                         *)
LEMMA Divided ==
  ASSUME NEW t \in Heap, t.k > 1
  PROVE  /\ \A i : InHeap(t, i) <=> i = t.root \/ InHeap(Right(t), i) \/ InHeap(Left(t), i)
         /\ \A i : InHeap(Right(t), i) => i < t.root /\ i > Left(t).root
         /\ \A i : InHeap(Left(t), i) => i < t.root /\ i <= Left(t).root
         /\ Left(t).root < t.root /\ Right(t).root < t.root
         /\ InHeap(Left(t), Left(t).root) /\ InHeap(Right(t), Right(t).root)
<1> DEFINE r == t.root
           k == t.k
           p1 == lp[k - 1]
           p2 == lp[k - 2]
           p0 == lp[k]
<1>1. /\ t.root \in Int /\ t.k \in Nat
      /\ Right(t).root = r - 1 /\ Right(t).k = k - 2
      /\ Left(t).root = r - 1 - p2 /\ Left(t).k = k - 1
  BY Below
<1>2. p1 \in Nat \ {0} /\ p2 \in Nat \ {0} /\ p0 \in Nat \ {0} /\ p0 = p2 + p1 + 1
  <2>1. k - 1 \in Nat /\ k - 2 \in Nat
    BY <1>1
  <2> QED
    BY <1>1, <2>1, LpIs
<1>3. \A i : InHeap(t, i) <=> i \in Int /\ r - p0 < i /\ i <= r
  BY DEF InHeap
<1>4. \A i : InHeap(Right(t), i) <=> i \in Int /\ r - 1 - p2 < i /\ i <= r - 1
  BY <1>1 DEF InHeap
<1>5. \A i : InHeap(Left(t), i) <=> i \in Int /\ r - 1 - p2 - p1 < i /\ i <= r - 1 - p2
  BY <1>1 DEF InHeap
<1>6. r \in Int
  BY <1>1
<1> HIDE DEF p0, p1, p2, r, k
<1>7. \A i : InHeap(t, i) <=> i = r \/ InHeap(Right(t), i) \/ InHeap(Left(t), i)
  BY <1>2, <1>3, <1>4, <1>5, <1>6
<1>8. /\ \A i : InHeap(Right(t), i) => i < r /\ i > Left(t).root
      /\ \A i : InHeap(Left(t), i) => i < r /\ i <= Left(t).root
      /\ Left(t).root < r /\ Right(t).root < r
      /\ InHeap(Left(t), Left(t).root) /\ InHeap(Right(t), Right(t).root)
  BY <1>1, <1>2, <1>4, <1>5, <1>6
<1> QED
  BY <1>7, <1>8 DEF r

(* If a heap fits an array, its parts do.                                   *)
LEMMA FitsSons ==
  ASSUME NEW a, NEW t \in Heap, t.k > 1, Fits(a, t)
  PROVE  Fits(a, Right(t)) /\ Fits(a, Left(t))
<1> DEFINE r == t.root
           k == t.k
           p1 == lp[k - 1]
           p2 == lp[k - 2]
           p0 == lp[k]
<1>1. /\ t.root \in Int /\ t.k \in Nat
      /\ Right(t).root = r - 1 /\ Right(t).k = k - 2 /\ Right(t) \in Heap /\ Left(t) \in Heap
      /\ Left(t).root = r - 1 - p2 /\ Left(t).k = k - 1
  BY Below
<1>2. p1 \in Nat \ {0} /\ p2 \in Nat \ {0} /\ p0 \in Nat \ {0} /\ p0 = p2 + p1 + 1
  <2>1. k - 1 \in Nat /\ k - 2 \in Nat
    BY <1>1
  <2> QED
    BY <1>1, <2>1, LpIs
<1>3. r \in Int /\ p0 <= r /\ r <= Len(a) /\ Len(a) \in Nat /\ a \in Seq(Int)
  BY <1>1, LenProperties DEF Fits
<1> HIDE DEF p0, p1, p2, r, k
<1>4. p2 <= r - 1 /\ r - 1 <= Len(a) /\ p1 <= r - 1 - p2 /\ r - 1 - p2 <= Len(a)
  BY <1>2, <1>3
<1> QED
  BY <1>1, <1>3, <1>4 DEF Fits, p1, p2

(* A heap: the root is not less than the roots of its parts, and they are   *)
(* heaps.                                                                   *)
LEMMA HeapLaw ==
  ASSUME NEW a, NEW t \in Heap
  PROVE  HeapAt(a, t) <=> Above(a, t) /\ SonsOk(a, t)
<1>1. t.k \in Nat
  BY Below
<1>2. CASE t.k <= 1
  <2>1. parts[t] = {t}
    BY <1>2, PartsIs
  <2> QED
    BY <1>1, <1>2, <2>1 DEF HeapAt, SonsOk
<1>3. CASE t.k > 1
  <2>1. parts[t] = {t} \cup (parts[Right(t)] \cup parts[Left(t)])
    BY <1>3, PartsIs
  <2> QED
    BY <1>3, <2>1 DEF HeapAt, SonsOk
<1> QED
  BY <1>1, <1>2, <1>3

(* The root of a heap is the greatest of its elements.                      *)
LEMMA HeapMax ==
  ASSUME NEW a, NEW u \in Heap, Fits(a, u), HeapAt(a, u)
  PROVE  \A i : InHeap(u, i) => a[i] <= a[u.root]
<1> DEFINE Good == {n \in Nat : \A t \in Heap : t.k = n /\ Fits(a, t) /\ HeapAt(a, t) =>
                      \A i : InHeap(t, i) => a[i] <= a[t.root]}
<1>0. \A i \in 1..Len(a) : a[i] \in Int
  BY DEF Fits
<1>1. ASSUME NEW n \in Nat, \A j \in Nat : j < n => j \in Good PROVE n \in Good
  <2> SUFFICES ASSUME NEW t \in Heap, t.k = n, Fits(a, t), HeapAt(a, t), NEW i, InHeap(t, i)
               PROVE  a[i] <= a[t.root]
    OBVIOUS
  <2>1. t.root \in 1..Len(a) /\ a[t.root] \in Int /\ t.root \in Int /\ lp[t.k] \in Nat \ {0} /\ t.k \in Nat
    BY <1>0, Below DEF Fits
  <2>2. CASE i = t.root
    BY <2>1, <2>2
  <2>3. CASE n > 1 /\ i # t.root
    <3>1. Fits(a, Right(t)) /\ Fits(a, Left(t))
      BY <2>3, FitsSons
    <3>2. a[t.root] >= a[Right(t).root] /\ a[t.root] >= a[Left(t).root] /\ HeapAt(a, Right(t)) /\ HeapAt(a, Left(t))
      BY <2>3, HeapLaw DEF Above, SonsOk
    <3>3. Right(t) \in Heap /\ Right(t).k = n - 2 /\ Left(t) \in Heap /\ Left(t).k = n - 1
      BY <2>3, Below
    <3>4. n - 2 \in Nat /\ n - 1 \in Nat /\ n - 2 < n /\ n - 1 < n
      BY <2>3
    <3>5. n - 2 \in Good /\ n - 1 \in Good
      BY <1>1, <3>4
    <3>6. (InHeap(Right(t), i) => a[i] <= a[Right(t).root]) /\ (InHeap(Left(t), i) => a[i] <= a[Left(t).root])
      BY <3>1, <3>2, <3>3, <3>5
    <3>7. InHeap(Right(t), i) \/ InHeap(Left(t), i)
      BY <2>3, Divided
    <3>8. a[Right(t).root] \in Int /\ a[Left(t).root] \in Int /\ (i \in 1..Len(a) => a[i] \in Int)
      <4>1. \A s \in Heap : Fits(a, s) => s.root \in 1..Len(a)
        <5> SUFFICES ASSUME NEW s \in Heap, Fits(a, s) PROVE s.root \in 1..Len(a)
          OBVIOUS
        <5>1. lp[s.k] \in Nat \ {0} /\ s.root \in Int
          BY Below
        <5> QED
          BY <5>1 DEF Fits
      <4> QED
        BY <1>0, <3>1, <3>3, <4>1
    <3>9. i \in 1..Len(a)
      <4>1. i \in Int /\ t.root - lp[t.k] < i /\ i <= t.root /\ lp[t.k] <= t.root /\ t.root <= Len(a)
        BY DEF InHeap, Fits
      <4>2. Len(a) \in Nat
        BY LenProperties DEF Fits
      <4> QED
        BY <2>1, <4>1, <4>2
    <3> HIDE DEF Good
    <3> QED
      BY <2>1, <3>2, <3>6, <3>7, <3>8, <3>9, SMTT(60)
  <2>4. CASE n <= 1
    <3>0. t.k = 0 \/ t.k = 1
      BY <2>1, <2>4
    <3>1. lp[t.k] = 1
      BY <3>0, LpIs
    <3>2. i = t.root
      BY <2>1, <3>1 DEF InHeap
    <3> QED
      BY <2>1, <3>2
  <2> QED
    BY <2>2, <2>3, <2>4
<1>2. \A n \in Nat : n \in Good
  <2> HIDE DEF Good
  <2> QED
    BY <1>1, StrongInd
<1>3. u.k \in Good
  BY <1>2, Below
<1> QED
  BY <1>3

(* A heap is one in every array that has its elements.                      *)
LEMMA HeapSame ==
  ASSUME NEW a, NEW b, NEW u \in Heap, \A i : InHeap(u, i) => a[i] = b[i], HeapAt(a, u)
  PROVE  HeapAt(b, u)
<1> DEFINE Good == {n \in Nat : \A t \in Heap :
                      t.k = n /\ (\A i : InHeap(t, i) => a[i] = b[i]) /\ HeapAt(a, t) => HeapAt(b, t)}
<1>1. ASSUME NEW n \in Nat, \A j \in Nat : j < n => j \in Good PROVE n \in Good
  <2> SUFFICES ASSUME NEW t \in Heap, t.k = n, \A i : InHeap(t, i) => a[i] = b[i], HeapAt(a, t)
               PROVE  HeapAt(b, t)
    OBVIOUS
  <2>1. CASE n > 1
    <3>1. Right(t) \in Heap /\ Right(t).k = n - 2 /\ Left(t) \in Heap /\ Left(t).k = n - 1
      BY <2>1, Below
    <3>2. n - 2 \in Nat /\ n - 1 \in Nat /\ n - 2 < n /\ n - 1 < n
      BY <2>1
    <3>3. n - 2 \in Good /\ n - 1 \in Good
      BY <1>1, <3>2
    <3>4. Above(a, t) /\ HeapAt(a, Right(t)) /\ HeapAt(a, Left(t))
      BY <2>1, HeapLaw DEF SonsOk
    <3>5. (\A i : InHeap(Right(t), i) => a[i] = b[i]) /\ (\A i : InHeap(Left(t), i) => a[i] = b[i])
      BY <2>1, Divided
    <3>6. HeapAt(b, Right(t)) /\ HeapAt(b, Left(t))
      BY <3>1, <3>3, <3>4, <3>5
    <3>7. InHeap(t, t.root) /\ InHeap(t, Right(t).root) /\ InHeap(t, Left(t).root)
      BY <2>1, Divided
    <3>8. Above(b, t)
      BY <3>4, <3>7 DEF Above
    <3> QED
      BY <3>6, <3>8, HeapLaw DEF SonsOk
  <2>2. CASE ~(n > 1)
    <3>1. Above(b, t) /\ SonsOk(b, t)
      BY <2>2 DEF Above, SonsOk
    <3> QED
      BY <3>1, HeapLaw
  <2> QED
    BY <2>1, <2>2
<1>2. \A n \in Nat : n \in Good
  <2> HIDE DEF Good
  <2> QED
    BY <1>1, StrongInd
<1>3. u.k \in Good
  BY <1>2, Below
<1> QED
  BY <1>3

-----------------------------------------------------------------------------
(* The path of a value down a heap: it starts at the root and goes down.    *)
PathOk(t, q) ==
  /\ q \in Seq(Int) /\ Len(q) \in Nat \ {0} /\ q[1] = t.root
  /\ \A j \in 1..Len(q) : InHeap(t, q[j])
  /\ \A i, j \in 1..Len(q) : i < j => q[j] < q[i]

(* The greater part is a heap of smaller order, below the root.             *)
LEMMA GreaterIs ==
  ASSUME NEW a, NEW x, NEW t \in Heap, ~Stays(a, x, t)
  PROVE  /\ t.k > 1 /\ Greater(a, t) \in Heap /\ Greater(a, t).k \in Nat /\ Greater(a, t).k < t.k
         /\ Greater(a, t).root < t.root
         /\ \A i : InHeap(Greater(a, t), i) => InHeap(t, i) /\ i < t.root
<1>1. t.k > 1
  BY Below DEF Stays
<1>2. /\ Right(t) \in Heap /\ Right(t).k \in Nat /\ Right(t).k < t.k
      /\ Left(t) \in Heap /\ Left(t).k \in Nat /\ Left(t).k < t.k
  BY <1>1, Below
<1>3. /\ Left(t).root < t.root /\ Right(t).root < t.root
      /\ \A i : InHeap(Right(t), i) => InHeap(t, i) /\ i < t.root
      /\ \A i : InHeap(Left(t), i) => InHeap(t, i) /\ i < t.root
  BY <1>1, Divided
<1> QED
  BY <1>1, <1>2, <1>3 DEF Greater

(* By induction over the order: the path stays in the heap and goes down.   *)
LEMMA PathDown ==
  ASSUME NEW a, NEW x, NEW P, PathLaw(P, a, x), NEW u \in Heap
  PROVE  PathOk(u, P[u])
<1> DEFINE Good == {n \in Nat : \A t \in Heap : t.k = n => PathOk(t, P[t])}
<1>1. ASSUME NEW n \in Nat, \A j \in Nat : j < n => j \in Good PROVE n \in Good
  <2> SUFFICES ASSUME NEW t \in Heap, t.k = n PROVE PathOk(t, P[t])
    OBVIOUS
  <2>1. t.root \in Int /\ InHeap(t, t.root)
    BY Below DEF InHeap
  <2>2. CASE Stays(a, x, t)
    <3>1. P[t] = <<t.root>>
      BY <2>2 DEF PathLaw
    <3> QED
      BY <2>1, <3>1 DEF PathOk
  <2>3. CASE ~Stays(a, x, t)
    <3> DEFINE g == Greater(a, t)
               s == P[g]
               q == P[t]
    <3>1. g \in Heap /\ g.k \in Nat /\ g.k < n /\ g.root < t.root
          /\ \A i : InHeap(g, i) => InHeap(t, i) /\ i < t.root
      BY <2>3, GreaterIs
    <3>2. PathOk(g, s)
      <4>1. g.k \in Good
        BY <1>1, <3>1
      <4> QED
        BY <3>1, <4>1
    <3>3. q = <<t.root>> \o s
      BY <2>3 DEF PathLaw
    <3>4. ConsOf(Int, t.root, s, q)
      BY <2>1, <3>2, <3>3, Cons DEF PathOk
    <3> HIDE DEF g, s, q, Good
    <3>5. /\ q \in Seq(Int) /\ Len(q) = Len(s) + 1 /\ q[1] = t.root /\ Len(s) \in Nat
          /\ \A i \in 1..Len(s) : q[i + 1] = s[i]
      BY <3>4 DEF ConsOf
    <3>6. \A j \in 1..Len(q) : j # 1 => j - 1 \in 1..Len(s) /\ q[j] = s[j - 1]
      <4> SUFFICES ASSUME NEW j \in 1..Len(q), j # 1 PROVE j - 1 \in 1..Len(s) /\ q[j] = s[j - 1]
        OBVIOUS
      <4>1. j - 1 \in 1..Len(s) /\ (j - 1) + 1 = j
        BY <3>5
      <4> QED
        BY <3>5, <4>1
    <3>7. /\ \A j \in 1..Len(s) : InHeap(g, s[j])
          /\ \A i, j \in 1..Len(s) : i < j => s[j] < s[i]
      BY <3>2 DEF PathOk
    <3>8. \A j \in 1..Len(q) : InHeap(t, q[j]) /\ (j # 1 => q[j] < t.root)
      BY <2>1, <3>1, <3>5, <3>6, <3>7
    <3>9. ASSUME NEW i \in 1..Len(q), NEW j \in 1..Len(q), i < j PROVE q[j] < q[i]
      <4>1. j # 1
        BY <3>9
      <4>2. CASE i = 1
        BY <3>5, <3>8, <4>1, <4>2
      <4>3. CASE i # 1
        <5>1. j - 1 \in 1..Len(s) /\ q[j] = s[j - 1] /\ i - 1 \in 1..Len(s) /\ q[i] = s[i - 1]
          BY <3>6, <4>1, <4>3
        <5>2. i - 1 < j - 1
          BY <3>9
        <5> QED
          BY <3>7, <5>1, <5>2
      <4> QED
        BY <4>2, <4>3
    <3>10. Len(q) \in Nat \ {0}
      BY <3>5
    <3>11. PathOk(t, q)
      BY <3>5, <3>8, <3>9, <3>10 DEF PathOk
    <3> QED
      BY <3>11 DEF q
  <2> QED
    BY <2>2, <2>3
<1>2. \A n \in Nat : n \in Good
  <2> HIDE DEF Good
  <2> QED
    BY <1>1, StrongInd
<1>3. u.k \in Good
  BY <1>2, Below
<1> QED
  BY <1>3

(* In the heap t, b is a after every element of the path q has gone up by   *)
(* one place, and x is at the end.                                          *)
Slid(a, b, x, t, q) ==
  /\ \A i : InHeap(t, i) /\ (\A j \in 1..Len(q) : q[j] # i) => b[i] = a[i]
  /\ \A j \in 1..Len(q) : j < Len(q) => b[q[j]] = a[q[j + 1]]
  /\ b[q[Len(q)]] = x

(* Then t is a heap, and at its root is x or the greater of the two below,  *)
(* whichever is greatest.                                                   *)
Risen(a, b, x, t) ==
  /\ HeapAt(b, t) /\ b[t.root] >= x
  /\ t.k > 1 => b[t.root] >= a[Left(t).root] /\ b[t.root] >= a[Right(t).root]
  /\ b[t.root] = x \/ (t.k > 1 /\ (b[t.root] = a[Left(t).root] \/ b[t.root] = a[Right(t).root]))

(* A path that ends at the root leaves a heap.                              *)
LEMMA SlidStays ==
  ASSUME NEW a, NEW b, NEW x \in Int, NEW t \in Heap, Fits(a, t), SonsOk(a, t),
         Slid(a, b, x, t, <<t.root>>), Stays(a, x, t)
  PROVE  Risen(a, b, x, t)
<1> DEFINE q == <<t.root>>
<1>1. Len(q) = 1 /\ q[1] = t.root /\ t.root \in Int
  BY Below
<1>2. b[t.root] = x
  BY <1>1 DEF Slid
<1>3. \A i : InHeap(t, i) /\ i # t.root => b[i] = a[i]
  <2> SUFFICES ASSUME NEW i, InHeap(t, i), i # t.root PROVE b[i] = a[i]
    OBVIOUS
  <2>1. \A j \in 1..Len(q) : q[j] # i
    BY <1>1
  <2> HIDE DEF q
  <2> QED
    BY <2>1 DEF Slid, q
<1> HIDE DEF q
<1>4. CASE t.k > 1
  <2>1. x >= a[Left(t).root] /\ x >= a[Right(t).root] /\ HeapAt(a, Right(t)) /\ HeapAt(a, Left(t))
    BY <1>4, Below DEF Stays, SonsOk
  <2>2. /\ \A i : InHeap(Right(t), i) => InHeap(t, i) /\ i < t.root
        /\ \A i : InHeap(Left(t), i) => InHeap(t, i) /\ i < t.root
        /\ InHeap(Left(t), Left(t).root) /\ InHeap(Right(t), Right(t).root)
    BY <1>4, Divided
  <2>3. /\ \A i : InHeap(Right(t), i) => a[i] = b[i]
        /\ \A i : InHeap(Left(t), i) => a[i] = b[i]
    BY <1>1, <1>3, <2>2
  <2>4. Right(t) \in Heap /\ Left(t) \in Heap
    BY <1>4, Below
  <2>5. HeapAt(b, Right(t)) /\ HeapAt(b, Left(t))
    BY <2>1, <2>3, <2>4, HeapSame
  <2>6. Above(b, t)
    BY <1>2, <2>1, <2>2, <2>3 DEF Above
  <2>7. HeapAt(b, t)
    BY <2>5, <2>6, HeapLaw DEF SonsOk
  <2> QED
    BY <1>2, <2>1, <2>7 DEF Risen
<1>5. CASE ~(t.k > 1)
  <2>1. HeapAt(b, t)
    BY <1>5, HeapLaw DEF SonsOk, Above
  <2> QED
    BY <1>2, <1>5, <2>1 DEF Risen
<1> QED
  BY <1>4, <1>5

-----------------------------------------------------------------------------

(* One that goes on is a path in the greater part.                          *)
LEMMA SlidTail ==
  ASSUME NEW a, NEW b, NEW x \in Int, NEW t \in Heap, ~Stays(a, x, t),
         NEW s, PathOk(Greater(a, t), s), NEW q, ConsOf(Int, t.root, s, q), Slid(a, b, x, t, q)
  PROVE  /\ Slid(a, b, x, Greater(a, t), s)
         /\ b[t.root] = a[Greater(a, t).root]
         /\ \A i : InHeap(t, i) /\ i # t.root /\ ~InHeap(Greater(a, t), i) => b[i] = a[i]
<1> DEFINE g == Greater(a, t)
<1>1. /\ g \in Heap /\ g.root < t.root
      /\ \A i : InHeap(g, i) => InHeap(t, i) /\ i < t.root
  BY GreaterIs
<1> HIDE DEF g
<1>2. /\ Len(s) \in Nat \ {0} /\ s[1] = g.root
      /\ \A j \in 1..Len(s) : InHeap(g, s[j])
  BY DEF PathOk, g
<1>3. /\ Len(q) = Len(s) + 1 /\ q[1] = t.root
      /\ \A i \in 1..Len(s) : q[i + 1] = s[i]
  BY DEF ConsOf
<1>4. /\ \A i : InHeap(t, i) /\ (\A j \in 1..Len(q) : q[j] # i) => b[i] = a[i]
      /\ \A j \in 1..Len(q) : j < Len(q) => b[q[j]] = a[q[j + 1]]
      /\ b[q[Len(q)]] = x
  BY DEF Slid
<1>5. b[t.root] = a[g.root]
  <2>1. 1 \in 1..Len(q) /\ 1 < Len(q) /\ 1 \in 1..Len(s)
    BY <1>2, <1>3
  <2>2. b[q[1]] = a[q[1 + 1]] /\ q[1 + 1] = s[1]
    BY <1>3, <1>4, <2>1
  <2> QED
    BY <1>2, <1>3, <2>2
<1>6. ASSUME NEW i, InHeap(t, i), i # t.root, \A j \in 1..Len(s) : s[j] # i
      PROVE  b[i] = a[i]
  <2>1. ASSUME NEW j \in 1..Len(q) PROVE q[j] # i
    <3>1. CASE j = 1
      BY <1>3, <1>6, <3>1
    <3>2. CASE j # 1
      <4>1. j - 1 \in 1..Len(s) /\ (j - 1) + 1 = j
        BY <1>2, <1>3, <3>2
      <4> QED
        BY <1>3, <1>6, <4>1
    <3> QED
      BY <3>1, <3>2
  <2> QED
    BY <1>4, <1>6, <2>1
<1>7. Slid(a, b, x, g, s)
  <2>1. ASSUME NEW i, InHeap(g, i), \A j \in 1..Len(s) : s[j] # i PROVE b[i] = a[i]
    <3>1. InHeap(t, i) /\ i # t.root
      BY <1>1, <2>1, Below
    <3> QED
      BY <1>6, <2>1, <3>1
  <2>2. ASSUME NEW j \in 1..Len(s), j < Len(s) PROVE b[s[j]] = a[s[j + 1]]
    <3>1. j + 1 \in 1..Len(s) /\ j + 1 \in 1..Len(q) /\ j + 1 < Len(q)
      BY <1>2, <1>3, <2>2
    <3>2. b[q[j + 1]] = a[q[(j + 1) + 1]]
      BY <1>4, <3>1
    <3> QED
      BY <1>3, <2>2, <3>1, <3>2
  <2>3. b[s[Len(s)]] = x
    <3>1. Len(s) \in 1..Len(s)
      BY <1>2
    <3>2. q[Len(s) + 1] = s[Len(s)]
      BY <1>3, <3>1
    <3> QED
      BY <1>3, <1>4, <3>2
  <2> QED
    BY <2>1, <2>2, <2>3 DEF Slid
<1>8. \A i : InHeap(t, i) /\ i # t.root /\ ~InHeap(g, i) => b[i] = a[i]
  BY <1>2, <1>6
<1> QED
  BY <1>5, <1>7, <1>8 DEF g

(* If that part is a heap then, the whole is.                               *)
LEMMA SlidMoves ==
  ASSUME NEW a, NEW b, NEW x \in Int, NEW t \in Heap, Fits(a, t), SonsOk(a, t),
         ~Stays(a, x, t), Risen(a, b, x, Greater(a, t)),
         b[t.root] = a[Greater(a, t).root],
         \A i : InHeap(t, i) /\ i # t.root /\ ~InHeap(Greater(a, t), i) => b[i] = a[i]
  PROVE  Risen(a, b, x, t)
<1> DEFINE l == Left(t)
           r == Right(t)
           g == Greater(a, t)
<1>1. t.k > 1 /\ HeapAt(a, l) /\ HeapAt(a, r) /\ l \in Heap /\ r \in Heap
  <2>1. t.k > 1
    BY GreaterIs
  <2> QED
    BY <2>1, Below DEF SonsOk
<1>2. Fits(a, l) /\ Fits(a, r)
  BY <1>1, FitsSons
<1>3. \A s \in Heap : Fits(a, s) => a[s.root] \in Int
  <2> SUFFICES ASSUME NEW s \in Heap, Fits(a, s) PROVE a[s.root] \in Int
    OBVIOUS
  <2>1. lp[s.k] \in Nat \ {0} /\ s.root \in Int
    BY Below
  <2>2. s.root \in 1..Len(a)
    BY <2>1 DEF Fits
  <2> QED
    BY <2>2 DEF Fits
<1>4. a[l.root] \in Int /\ a[r.root] \in Int /\ a[t.root] \in Int
  BY <1>1, <1>2, <1>3
<1>5. /\ \A i : InHeap(r, i) => InHeap(t, i) /\ i < t.root /\ i > l.root
      /\ \A i : InHeap(l, i) => InHeap(t, i) /\ i < t.root /\ i <= l.root
      /\ InHeap(l, l.root) /\ InHeap(r, r.root)
  BY <1>1, Divided
<1>6. /\ g = (IF a[l.root] >= a[r.root] THEN l ELSE r)
      /\ ~(x >= a[l.root] /\ x >= a[r.root])
  BY <1>1 DEF Greater, Stays
<1>7. g \in Heap /\ Fits(a, g) /\ HeapAt(a, g)
  BY <1>1, <1>2, <1>6
<1>8. a[g.root] > x /\ a[g.root] >= a[l.root] /\ a[g.root] >= a[r.root]
      /\ (a[g.root] = a[l.root] \/ a[g.root] = a[r.root])
  <2> HIDE DEF g
  <2> QED
    BY <1>4, <1>6
<1>9. b[g.root] <= a[g.root]
  <2>1. CASE b[g.root] = x
    BY <1>3, <1>7, <1>8, <2>1
  <2>2. CASE b[g.root] # x
    <3> HIDE DEF g
    <3>1. g.k > 1 /\ (b[g.root] = a[Left(g).root] \/ b[g.root] = a[Right(g).root])
      BY <2>2 DEF Risen, g
    <3>2. Above(a, g)
      BY <1>7, HeapLaw
    <3>3. a[g.root] >= a[Right(g).root] /\ a[g.root] >= a[Left(g).root]
      BY <3>1, <3>2 DEF Above
    <3> QED
      BY <3>1, <3>3
  <2> QED
    BY <2>1, <2>2
<1>10. HeapAt(b, g)
  BY DEF Risen
<1>11. b[t.root] = a[g.root]
  OBVIOUS
<1>12. \A i : InHeap(t, i) /\ i # t.root /\ ~InHeap(g, i) => b[i] = a[i]
  OBVIOUS
<1> HIDE DEF g
<1>13. HeapAt(b, l) /\ HeapAt(b, r) /\ b[l.root] <= a[g.root] /\ b[r.root] <= a[g.root]
  <2>1. CASE g = l
    <3>1. \A i : InHeap(r, i) => a[i] = b[i]
      <4> SUFFICES ASSUME NEW i, InHeap(r, i) PROVE a[i] = b[i]
        OBVIOUS
      <4>1. InHeap(t, i) /\ i < t.root /\ i > l.root /\ i \in Int /\ l.root \in Int /\ t.root \in Int
        BY <1>1, <1>5, Below DEF InHeap
      <4>2. ~InHeap(l, i)
        BY <1>5, <4>1
      <4> QED
        BY <1>12, <2>1, <4>1, <4>2
    <3>2. HeapAt(b, r)
      <4> HIDE DEF r, l
      <4> QED
        BY <1>1, <3>1, HeapSame
    <3>3. b[r.root] = a[r.root]
      BY <1>5, <3>1
    <3> QED
      BY <1>8, <1>9, <1>10, <2>1, <3>2, <3>3
  <2>2. CASE g = r
    <3>1. \A i : InHeap(l, i) => a[i] = b[i]
      <4> SUFFICES ASSUME NEW i, InHeap(l, i) PROVE a[i] = b[i]
        OBVIOUS
      <4>1. InHeap(t, i) /\ i < t.root /\ i <= l.root /\ i \in Int /\ l.root \in Int /\ t.root \in Int
        BY <1>1, <1>5, Below DEF InHeap
      <4>2. ~InHeap(r, i)
        BY <1>5, <4>1
      <4> QED
        BY <1>12, <2>2, <4>1, <4>2
    <3>2. HeapAt(b, l)
      <4> HIDE DEF r, l
      <4> QED
        BY <1>1, <3>1, HeapSame
    <3>3. b[l.root] = a[l.root]
      BY <1>5, <3>1
    <3> QED
      BY <1>8, <1>9, <1>10, <2>2, <3>2, <3>3
  <2> QED
    BY <1>6, <2>1, <2>2
<1>14. Above(b, t)
  BY <1>11, <1>13 DEF Above
<1>15. HeapAt(b, t)
  BY <1>13, <1>14, HeapLaw DEF SonsOk
<1>16. b[t.root] >= x
  <2>1. a[g.root] \in Int
    BY <1>3, <1>7
  <2> QED
    BY <1>8, <1>11, <2>1
<1> QED
  BY <1>1, <1>8, <1>11, <1>15, <1>16 DEF Risen

(* By induction over the order: the path leaves a heap.                     *)
LEMMA SlideHeap ==
  ASSUME NEW a, NEW b, NEW x \in Int, NEW P, PathLaw(P, a, x),
         NEW u \in Heap, Fits(a, u), SonsOk(a, u), Slid(a, b, x, u, P[u])
  PROVE  Risen(a, b, x, u)
<1> DEFINE Good == {n \in Nat : \A t \in Heap :
             t.k = n /\ Fits(a, t) /\ SonsOk(a, t) /\ Slid(a, b, x, t, P[t]) => Risen(a, b, x, t)}
<1>1. ASSUME NEW n \in Nat, \A j \in Nat : j < n => j \in Good PROVE n \in Good
  <2> SUFFICES ASSUME NEW t \in Heap, t.k = n, Fits(a, t), SonsOk(a, t), Slid(a, b, x, t, P[t])
               PROVE  Risen(a, b, x, t)
    OBVIOUS
  <2>1. CASE Stays(a, x, t)
    <3>1. P[t] = <<t.root>>
      BY <2>1 DEF PathLaw
    <3>2. Slid(a, b, x, t, <<t.root>>)
      BY <3>1
    <3> QED
      BY <2>1, <3>2, SlidStays
  <2>2. CASE ~Stays(a, x, t)
    <3> DEFINE g == Greater(a, t)
    <3>1. g \in Heap /\ g.k \in Nat /\ g.k < n /\ t.k > 1
      BY <2>2, GreaterIs
    <3>2. P[t] = <<t.root>> \o P[g]
      BY <2>2 DEF PathLaw
    <3>3. PathOk(g, P[g])
      <4> HIDE DEF g
      <4> QED
        BY <3>1, PathDown
    <3>4. ConsOf(Int, t.root, P[g], P[t])
      <4>1. P[g] \in Seq(Int) /\ t.root \in Int
        BY <3>3, Below DEF PathOk
      <4> HIDE DEF g
      <4> QED
        BY <3>2, <4>1, Cons
    <3>5. /\ Slid(a, b, x, g, P[g])
          /\ b[t.root] = a[g.root]
          /\ \A i : InHeap(t, i) /\ i # t.root /\ ~InHeap(g, i) => b[i] = a[i]
      BY <2>2, <3>3, <3>4, SlidTail
    <3>6. Fits(a, g) /\ HeapAt(a, g)
      BY <3>1, FitsSons DEF SonsOk, Greater
    <3>7. SonsOk(a, g)
      <4> HIDE DEF g
      <4> QED
        BY <3>1, <3>6, HeapLaw
    <3>8. g.k \in Good
      BY <1>1, <3>1
    <3>9. Risen(a, b, x, g)
      <4> HIDE DEF g
      <4> QED
        BY <3>1, <3>5, <3>6, <3>7, <3>8
    <3> QED
      BY <2>2, <3>5, <3>9, SlidMoves
  <2> QED
    BY <2>1, <2>2
<1>2. \A n \in Nat : n \in Good
  <2> HIDE DEF Good
  <2> QED
    BY <1>1, StrongInd
<1>3. u.k \in Good
  BY <1>2, Below
<1> QED
  BY <1>3

(* What sift makes of an array whose heap t is one but for its root.        *)
Sifted(a, b, t) ==
  /\ Risen(a, b, a[t.root], t)
  /\ Kept(a, b, t.root)
  /\ \A i \in 1..Len(a) : ~InHeap(t, i) => b[i] = a[i]

(* So sift makes a heap of two heaps and a root, and loses nothing.         *)
LEMMA SiftIs ==
  ASSUME NEW a, NEW t \in Heap, Fits(a, t), SonsOk(a, t)
  PROVE  Sifted(a, sift(t)[a], t)
<1> DEFINE x == a[t.root]
           b == sift(t)[a]
<1>0. a \in Seq(Int) /\ Len(a) \in Nat /\ lp[t.k] \in Nat \ {0} /\ t.root \in Int /\ lp[t.k] <= t.root
      /\ t.root <= Len(a)
  BY Below, LenProperties DEF Fits
<1>1. PICK P : PathLaw(P, a, x) /\ SiftPath(a, t) = P[t]
  BY PathIs
<1> DEFINE q == P[t]
<1>2. b = cycle(a, q)
  BY <1>0, <1>1 DEF sift
<1>3. PathOk(t, q)
  BY <1>1, PathDown
<1>4. x \in Int
  <2>1. t.root \in 1..Len(a)
    BY <1>0
  <2> QED
    BY <1>0, <2>1
<1> HIDE DEF q, b
<1>5. /\ q \in Seq(Int) /\ Len(q) \in Nat \ {0} /\ q[1] = t.root
      /\ \A j \in 1..Len(q) : InHeap(t, q[j])
      /\ \A i, j \in 1..Len(q) : i < j => q[j] < q[i]
  BY <1>3 DEF PathOk
<1>6. \A i : InHeap(t, i) => i \in 1..Len(a) /\ i <= t.root
  BY <1>0 DEF InHeap
<1>7. Places(a, q)
  <2>1. \A i, j \in 1..Len(q) : q[i] \in Int /\ q[j] \in Int
    BY <1>5 DEF InHeap
  <2>2. \A i, j \in 1..Len(q) : q[i] = q[j] => i = j
    <3> SUFFICES ASSUME NEW i \in 1..Len(q), NEW j \in 1..Len(q), q[i] = q[j] PROVE i = j
      OBVIOUS
    <3>1. ~(i < j) /\ ~(j < i)
      BY <1>5, <2>1
    <3> QED
      BY <3>1
  <2> QED
    BY <1>5, <1>6, <2>2 DEF Places
<1>8. Cycled(a, q, b) /\ Kept(a, b, t.root)
  <2>1. \A j \in 1..Len(q) : q[j] <= t.root
    BY <1>5, <1>6
  <2> QED
    BY <1>0, <1>2, <1>7, <2>1, CycleIs
<1>9. \A i \in 1..Len(a) : ~InHeap(t, i) => b[i] = a[i]
  BY <1>5, <1>8 DEF Cycled
<1>10. Slid(a, b, x, t, q)
  <2>1. b[q[Len(q)]] = x
    BY <1>5, <1>8 DEF Cycled
  <2>2. \A i : InHeap(t, i) /\ (\A j \in 1..Len(q) : q[j] # i) => b[i] = a[i]
    BY <1>6, <1>8 DEF Cycled
  <2>3. \A j \in 1..Len(q) : j < Len(q) => b[q[j]] = a[q[j + 1]]
    BY <1>8 DEF Cycled
  <2> HIDE DEF x
  <2> QED
    BY <2>1, <2>2, <2>3 DEF Slid
<1>11. Risen(a, b, x, t)
  <2> HIDE DEF x
  <2> QED
    BY <1>1, <1>4, <1>10, SlideHeap DEF q
<1> QED
  BY <1>8, <1>9, <1>11 DEF Sifted, b

-----------------------------------------------------------------------------
(* A forest: each heap ends where the next one begins, the orders ascend,   *)
(* and the first one in the array is the last one here.                     *)
Chain(f) ==
  /\ f \in Seq(Heap)
  /\ \A i \in 1..Len(f) : i < Len(f) => f[i + 1].root = f[i].root - lp[f[i].k] /\ f[i].k < f[i + 1].k

Rooted(f) == Len(f) \in Nat \ {0} /\ f[Len(f)].root = lp[f[Len(f)].k]

Wood(a, f) == a \in Seq(Int) /\ Chain(f) /\ Rooted(f) /\ f[1].root <= Len(a)

StartsAt(t, f) == Len(f) \in Nat \ {0} /\ f[1].root = t.root /\ t.k <= f[1].k

(* The forest of every number is a chain, by induction over the number.     *)
LEMMA ForestChain ==
  ASSUME NEW n \in Nat, NEW u \in Heap
  PROVE  Chain(forest[n][u]) /\ (n > 0 => StartsAt(u, forest[n][u]))
<1> DEFINE Good == {m \in Nat : \A t \in Heap : Chain(forest[m][t]) /\ (m > 0 => StartsAt(t, forest[m][t]))}
<1>1. ASSUME NEW m \in Nat, \A j \in Nat : j < m => j \in Good PROVE m \in Good
  <2> SUFFICES ASSUME NEW t \in Heap PROVE Chain(forest[m][t]) /\ (m > 0 => StartsAt(t, forest[m][t]))
    OBVIOUS
  <2>1. /\ Up(t) \in Heap /\ Up(t).root = t.root /\ Up(t).k = t.k + 1
        /\ Before(t) \in Heap /\ Before(t).root = t.root - lp[t.k] /\ Before(t).k = t.k + 1
        /\ t.k \in Nat
    BY NextHeaps, Below
  <2>2. ForestLaw(t)
    BY ForestIs
  <2>3. m > 0 => m \div 2 \in Nat /\ m \div 2 \in Good
    <3>1. m > 0 => m \div 2 \in Nat /\ m \div 2 < m
      OBVIOUS
    <3> QED
      BY <1>1, <3>1
  <2>4. CASE m = 0
    <3>1. forest[0][t] = << >>
      BY <2>2 DEF ForestLaw
    <3>2. Chain(<< >>)
      BY EmptySeq DEF Chain
    <3> QED
      BY <2>4, <3>1, <3>2
  <2>5. CASE m > 0 /\ m % 2 = 0
    <3>1. forest[m][t] = forest[m \div 2][Up(t)]
      BY <2>2, <2>5 DEF ForestLaw
    <3>2. m \div 2 > 0
      BY <2>5
    <3>3. Chain(forest[m \div 2][Up(t)]) /\ StartsAt(Up(t), forest[m \div 2][Up(t)])
      BY <2>1, <2>3, <2>5, <3>2
    <3>4. ASSUME NEW f, StartsAt(Up(t), f), f \in Seq(Heap) PROVE StartsAt(t, f)
      <4>1. f[1] \in Heap
        BY <3>4 DEF StartsAt
      <4>2. f[1].k \in Nat
        BY <4>1, Below
      <4> QED
        BY <2>1, <3>4, <4>2 DEF StartsAt
    <3>5. StartsAt(t, forest[m \div 2][Up(t)])
      BY <3>3, <3>4 DEF Chain
    <3> HIDE DEF Good
    <3> QED
      BY <3>1, <3>3, <3>5
  <2>6. CASE m % 2 = 1
    <3> DEFINE s == forest[m \div 2][Before(t)]
               f == forest[m][t]
    <3>1. f = <<t>> \o s
      BY <2>2, <2>6 DEF ForestLaw
    <3>2. m > 0
      BY <2>6
    <3>3. Chain(s) /\ (m \div 2 > 0 => StartsAt(Before(t), s))
      BY <2>1, <2>3, <3>2
    <3>4. m \div 2 = 0 => s = << >>
      <4>1. ForestLaw(Before(t))
        BY <2>1, ForestIs
      <4> QED
        BY <4>1 DEF ForestLaw
    <3>5. ConsOf(Heap, t, s, f)
      BY <3>1, <3>3, Cons DEF Chain
    <3> HIDE DEF s, f, Good
    <3>6. /\ f \in Seq(Heap) /\ Len(f) = Len(s) + 1 /\ f[1] = t /\ Len(s) \in Nat
          /\ \A i \in 1..Len(s) : f[i + 1] = s[i]
      BY <3>5 DEF ConsOf
    <3>7. StartsAt(t, f)
      BY <2>1, <3>6 DEF StartsAt
    <3>8. ASSUME NEW i \in 1..Len(f), i < Len(f)
          PROVE  f[i + 1].root = f[i].root - lp[f[i].k] /\ f[i].k < f[i + 1].k
      <4>1. CASE i = 1
        <5>1. m \div 2 > 0
          <6>1. m \div 2 \in Nat /\ Len(<< >>) = 0 /\ Len(s) # 0
            BY <2>3, <3>2, <3>6, <3>8, <4>1
          <6> QED
            BY <3>4, <6>1
        <5>2. s[1].root = t.root - lp[t.k] /\ t.k + 1 <= s[1].k /\ Len(s) \in Nat \ {0}
          BY <2>1, <3>3, <5>1 DEF StartsAt
        <5>3. f[2] = s[1] /\ s[1] \in Heap
          BY <3>3, <3>6, <5>2 DEF Chain
        <5>4. s[1].k \in Nat
          BY <5>3, Below
        <5> QED
          BY <2>1, <3>6, <4>1, <5>2, <5>3, <5>4
      <4>2. CASE i # 1
        <5>1. i - 1 \in 1..Len(s) /\ i - 1 < Len(s) /\ i \in 1..Len(s) /\ (i - 1) + 1 = i
          BY <3>6, <3>8, <4>2
        <5>2. f[i] = s[i - 1] /\ f[i + 1] = s[i]
          BY <3>6, <5>1
        <5>3. s[(i - 1) + 1].root = s[i - 1].root - lp[s[i - 1].k] /\ s[i - 1].k < s[(i - 1) + 1].k
          BY <3>3, <5>1 DEF Chain
        <5> QED
          BY <5>1, <5>2, <5>3
      <4> QED
        BY <4>1, <4>2
    <3>9. Chain(f)
      BY <3>6, <3>8 DEF Chain
    <3> QED
      BY <3>7, <3>9 DEF f
  <2> HIDE DEF Good
  <2>7. m = 0 \/ (m > 0 /\ m % 2 = 0) \/ m % 2 = 1
    OBVIOUS
  <2> QED
    BY <2>4, <2>5, <2>6, <2>7
<1>2. \A m \in Nat : m \in Good
  <2> HIDE DEF Good
  <2> QED
    BY <1>1, StrongInd
<1> QED
  BY <1>2

(* In a chain, later heaps are before earlier ones in the array.            *)
LEMMA ChainApart ==
  ASSUME NEW f, Chain(f), NEW i \in 1..Len(f), NEW j \in 1..Len(f), i < j
  PROVE  f[j].root <= f[i].root - lp[f[i].k]
<1>0. \A m \in 1..Len(f) : f[m].root \in Int /\ lp[f[m].k] \in Nat \ {0}
  <2> SUFFICES ASSUME NEW m \in 1..Len(f) PROVE f[m].root \in Int /\ lp[f[m].k] \in Nat \ {0}
    OBVIOUS
  <2>1. f[m] \in Heap
    BY DEF Chain
  <2> QED
    BY <2>1, Below
<1>1. Len(f) \in Nat
  BY LenProperties DEF Chain
<1> DEFINE Good == {d \in Nat : i + 1 + d <= Len(f) => f[i + 1 + d].root <= f[i].root - lp[f[i].k]}
<1>2. 0 \in Good
  <2>1. i + 1 + 0 = i + 1
    OBVIOUS
  <2>2. i + 1 <= Len(f) => f[i + 1].root = f[i].root - lp[f[i].k]
    BY <1>1 DEF Chain
  <2> QED
    BY <1>0, <2>1, <2>2
<1>3. ASSUME NEW d \in Nat, d \in Good PROVE d + 1 \in Good
  <2> SUFFICES ASSUME i + 1 + (d + 1) <= Len(f)
               PROVE  f[i + 1 + (d + 1)].root <= f[i].root - lp[f[i].k]
    OBVIOUS
  <2> DEFINE m == i + 1 + d
  <2>1. m \in 1..Len(f) /\ m < Len(f) /\ m + 1 \in 1..Len(f) /\ i + 1 + (d + 1) = m + 1
    BY <1>1
  <2>2. f[m].root <= f[i].root - lp[f[i].k]
    BY <1>3, <2>1
  <2> HIDE DEF m
  <2>3. f[m + 1].root = f[m].root - lp[f[m].k]
    BY <2>1 DEF Chain
  <2>4. f[m + 1].root <= f[i].root - lp[f[i].k]
    BY <1>0, <2>1, <2>2, <2>3, SMTT(60)
  <2> QED
    BY <2>1, <2>4
<1>4. \A d \in Nat : d \in Good
  <2> HIDE DEF Good
  <2> QED
    BY <1>2, <1>3, NatInd
<1>5. j - (i + 1) \in Nat /\ i + 1 + (j - (i + 1)) = j
  OBVIOUS
<1>6. j - (i + 1) \in Good
  BY <1>4, <1>5
<1> QED
  BY <1>5, <1>6

-----------------------------------------------------------------------------

(* The types of a forest's parts.                                           *)
LEMMA WoodTypes ==
  ASSUME NEW a, NEW f, Wood(a, f)
  PROVE  /\ Len(a) \in Nat /\ Len(f) \in Nat \ {0}
         /\ \A i \in 1..Len(f) : /\ f[i] \in Heap /\ f[i].root \in Int /\ f[i].k \in Nat
                                 /\ lp[f[i].k] \in Nat \ {0}
<1>1. Len(a) \in Nat /\ Len(f) \in Nat \ {0}
  BY LenProperties DEF Wood, Rooted
<1>2. ASSUME NEW i \in 1..Len(f)
      PROVE  f[i] \in Heap /\ f[i].root \in Int /\ f[i].k \in Nat /\ lp[f[i].k] \in Nat \ {0}
  <2>1. f[i] \in Heap
    BY DEF Wood, Chain
  <2> QED
    BY <2>1, Below
<1> QED
  BY <1>1, <1>2

(* Each of its heaps fits the array.                                        *)
LEMMA WoodFits ==
  ASSUME NEW a, NEW f, Wood(a, f), NEW i \in 1..Len(f)
  PROVE  /\ Fits(a, f[i]) /\ f[i].root \in 1..Len(a) /\ f[i].root <= f[1].root
         /\ i > 1 => f[i].root < f[1].root
         /\ \A p : InHeap(f[i], p) => p \in 1..Len(a)
         /\ InHeap(f[i], f[i].root)
<1>0. /\ Len(a) \in Nat /\ Len(f) \in Nat \ {0}
      /\ \A j \in 1..Len(f) : f[j] \in Heap /\ f[j].root \in Int /\ f[j].k \in Nat /\ lp[f[j].k] \in Nat \ {0}
  BY WoodTypes
<1>1. f[i].root <= f[1].root /\ (i > 1 => f[i].root < f[1].root)
  <2>1. CASE i = 1
    BY <1>0, <2>1
  <2>2. CASE i # 1
    <3>1. 1 \in 1..Len(f) /\ 1 < i
      BY <1>0, <2>2
    <3>2. f[i].root <= f[1].root - lp[f[1].k]
      BY <3>1, ChainApart DEF Wood
    <3> QED
      BY <1>0, <3>1, <3>2
  <2> QED
    BY <2>1, <2>2
<1>2. lp[f[i].k] <= f[i].root
  <2>1. lp[f[Len(f)].k] = f[Len(f)].root /\ Len(f) \in 1..Len(f)
    BY <1>0 DEF Wood, Rooted
  <2>2. CASE i = Len(f)
    BY <1>0, <2>1, <2>2
  <2>3. CASE i # Len(f)
    <3>1. f[Len(f)].root <= f[i].root - lp[f[i].k]
      <4>1. i < Len(f)
        BY <1>0, <2>3
      <4> QED
        BY <2>1, <4>1, ChainApart DEF Wood
    <3> QED
      BY <1>0, <2>1, <3>1
  <2> QED
    BY <2>2, <2>3
<1>3. f[1].root <= Len(a) /\ 1 \in 1..Len(f)
  BY <1>0 DEF Wood
<1>4. f[i].root \in 1..Len(a) /\ f[i].root <= Len(a)
  BY <1>0, <1>1, <1>2, <1>3
<1>5. \A p : InHeap(f[i], p) => p \in 1..Len(a)
  BY <1>0, <1>2, <1>4 DEF InHeap
<1>6. InHeap(f[i], f[i].root)
  BY <1>0 DEF InHeap
<1>7. Fits(a, f[i])
  BY <1>0, <1>2, <1>4 DEF Fits, Wood
<1> QED
  BY <1>1, <1>4, <1>5, <1>6, <1>7

(* No place is in two heaps.                                                *)
LEMMA WoodApart ==
  ASSUME NEW a, NEW f, Wood(a, f), NEW i \in 1..Len(f), NEW j \in 1..Len(f), i # j
  PROVE  \A p : InHeap(f[i], p) => ~InHeap(f[j], p)
<1>0. /\ Len(f) \in Nat \ {0}
      /\ \A m \in 1..Len(f) : f[m].root \in Int /\ lp[f[m].k] \in Nat \ {0}
  BY WoodTypes
<1>1. CASE i < j
  <2>1. f[j].root <= f[i].root - lp[f[i].k]
    BY <1>1, ChainApart DEF Wood
  <2> QED
    BY <1>0, <2>1 DEF InHeap
<1>2. CASE j < i
  <2>1. f[i].root <= f[j].root - lp[f[j].k]
    BY <1>2, ChainApart DEF Wood
  <2> QED
    BY <1>0, <2>1 DEF InHeap
<1> QED
  BY <1>0, <1>1, <1>2

(* Every place up to the first root is in one.                              *)
LEMMA WoodCovers ==
  ASSUME NEW a, NEW f, Wood(a, f), NEW p \in Int, 1 <= p, p <= f[1].root
  PROVE  \E i \in 1..Len(f) : InHeap(f[i], p)
<1>0. /\ Len(f) \in Nat \ {0} /\ 1 \in 1..Len(f)
      /\ \A m \in 1..Len(f) : f[m].root \in Int /\ lp[f[m].k] \in Nat \ {0}
  BY WoodTypes
<1> DEFINE t == {i \in 1..Len(f) : p <= f[i].root}
<1>1. Greatest(t) \in t /\ \A y \in t : Greatest(t) >= y
  <2>1. 1 \in t
    BY <1>0
  <2>2. t \in SUBSET (1..Len(f)) /\ t # {} /\ Len(f) \in Nat
    BY <1>0, <2>1
  <2> HIDE DEF t
  <2> QED
    BY <2>2, GreatestOf
<1>2. PICK i : i \in t /\ \A y \in t : i >= y
  BY <1>1
<1>3. i \in 1..Len(f) /\ p <= f[i].root
  BY <1>2
<1>4. f[i].root - lp[f[i].k] < p
  <2>1. CASE i = Len(f)
    <3>1. f[i].root = lp[f[i].k]
      BY <2>1 DEF Wood, Rooted
    <3> QED
      BY <1>0, <1>3, <3>1
  <2>2. CASE i # Len(f)
    <3>1. i < Len(f) /\ i + 1 \in 1..Len(f) /\ i + 1 > i
      BY <1>0, <1>3, <2>2
    <3>2. f[i + 1].root = f[i].root - lp[f[i].k]
      BY <1>3, <3>1 DEF Wood, Chain
    <3>3. i + 1 \notin t
      BY <1>2, <1>3, <3>1
    <3>4. ~(p <= f[i + 1].root)
      BY <3>1, <3>3
    <3> QED
      BY <1>0, <1>3, <3>1, <3>2, <3>4
  <2> QED
    BY <2>1, <2>2
<1> QED
  BY <1>3, <1>4 DEF InHeap

(* From the heap i on all are heaps, and their roots ascend in the array.   *)
Heaps(a, f, i) == \A j \in 1..Len(f) : j >= i => HeapAt(a, f[j])
Ascend(a, f, i) == \A j \in 1..Len(f) : j >= i /\ j < Len(f) => a[f[j + 1].root] <= a[f[j].root]

(* If both hold of the whole forest, its first root is its greatest         *)
(* element.                                                                 *)
LEMMA WoodMax ==
  ASSUME NEW a, NEW f, Wood(a, f), Heaps(a, f, 1), Ascend(a, f, 1)
  PROVE  \A p \in Int : 1 <= p /\ p <= f[1].root => a[p] <= a[f[1].root]
<1>0. Len(f) \in Nat \ {0} /\ 1 \in 1..Len(f) /\ Len(a) \in Nat
  BY WoodTypes
<1>1. \A q \in 1..Len(a) : a[q] \in Int
  BY DEF Wood
<1>2. \A j \in 1..Len(f) : f[j].root \in 1..Len(a) /\ Fits(a, f[j]) /\ f[j] \in Heap
  BY WoodFits, WoodTypes
<1> DEFINE Good == {d \in Nat : d + 1 <= Len(f) => a[f[d + 1].root] <= a[f[1].root]}
<1>3. 0 \in Good
  BY <1>0, <1>1, <1>2
<1>4. ASSUME NEW d \in Nat, d \in Good PROVE d + 1 \in Good
  <2> SUFFICES ASSUME (d + 1) + 1 <= Len(f) PROVE a[f[(d + 1) + 1].root] <= a[f[1].root]
    OBVIOUS
  <2>1. d + 1 \in 1..Len(f) /\ d + 1 < Len(f) /\ (d + 1) + 1 \in 1..Len(f) /\ d + 1 >= 1
    BY <1>0
  <2>2. a[f[d + 1].root] <= a[f[1].root]
    BY <1>4, <2>1
  <2>3. a[f[(d + 1) + 1].root] <= a[f[d + 1].root]
    BY <2>1 DEF Ascend
  <2>4. a[f[(d + 1) + 1].root] \in Int /\ a[f[d + 1].root] \in Int /\ a[f[1].root] \in Int
    BY <1>0, <1>1, <1>2, <2>1
  <2> QED
    BY <2>2, <2>3, <2>4
<1>5. \A d \in Nat : d \in Good
  <2> HIDE DEF Good
  <2> QED
    BY <1>3, <1>4, NatInd
<1>6. \A j \in 1..Len(f) : a[f[j].root] <= a[f[1].root]
  <2> SUFFICES ASSUME NEW j \in 1..Len(f) PROVE a[f[j].root] <= a[f[1].root]
    OBVIOUS
  <2>1. j - 1 \in Nat /\ (j - 1) + 1 = j /\ j <= Len(f)
    BY <1>0
  <2>2. j - 1 \in Good
    BY <1>5, <2>1
  <2> QED
    BY <2>1, <2>2
<1> SUFFICES ASSUME NEW p \in Int, 1 <= p, p <= f[1].root PROVE a[p] <= a[f[1].root]
  OBVIOUS
<1>7. PICK i \in 1..Len(f) : InHeap(f[i], p)
  BY WoodCovers
<1>8. a[p] <= a[f[i].root]
  BY <1>2, <1>7, HeapMax DEF Heaps
<1>9. p \in 1..Len(a)
  BY <1>7, WoodFits
<1>10. a[p] \in Int /\ a[f[i].root] \in Int /\ a[f[1].root] \in Int
  BY <1>0, <1>1, <1>2, <1>9
<1> QED
  BY <1>6, <1>8, <1>10

-----------------------------------------------------------------------------
(* A forest in order but for its first root; if trusty, that one is in its  *)
(* place in its own heap.                                                   *)
Ready(a, f, trusty) ==
  /\ Wood(a, f) /\ Heaps(a, f, 2) /\ Ascend(a, f, 2)
  /\ SonsOk(a, f[1]) /\ (trusty => HeapAt(a, f[1]))

(* A forest in order, of the same elements.                                 *)
InOrder(a, b, f) == Kept(a, b, f[1].root) /\ Heaps(b, f, 1) /\ Ascend(b, f, 1)

(* Where trinkle stops on its way along the roots.                          *)
Stops(a, f, trusty, i) ==
  \/ i = Len(f) \/ a[f[i + 1].root] <= a[f[1].root]
  \/ /\ i > 1 \/ ~trusty
     /\ f[i].k > 1
     /\ a[Right(f[i]).root] >= a[f[i + 1].root] \/ a[Left(f[i]).root] >= a[f[i + 1].root]

(* c is a after the roots of the first m heaps have been moved by one.      *)
Rolled(a, f, m, c) ==
  /\ Kept(a, c, f[1].root)
  /\ \A j \in 1..m : j < m => c[f[j].root] = a[f[j + 1].root]
  /\ c[f[m].root] = a[f[1].root]
  /\ \A i \in 1..Len(f) : \A p : InHeap(f[i], p) /\ p # f[i].root => c[p] = a[p]
  /\ \A i \in 1..Len(f) : i > m => c[f[i].root] = a[f[i].root]

(* The first step of trinkle moves the roots.                               *)
LEMMA RollRoots ==
  ASSUME NEW a, NEW f, Wood(a, f), NEW m \in 1..Len(f)
  PROVE  Rolled(a, f, m, cycle(a, [i \in 1..m |-> f[i].root]))
<1> DEFINE ar == [i \in 1..m |-> f[i].root]
           c == cycle(a, ar)
<1>0. /\ Len(f) \in Nat \ {0} /\ 1 \in 1..Len(f) /\ m \in Nat \ {0} /\ a \in Seq(Int)
      /\ \A i \in 1..Len(f) : f[i].root \in Int /\ lp[f[i].k] \in Nat \ {0}
  BY WoodTypes DEF Wood
<1>1. \A i \in 1..Len(f) : f[i].root \in 1..Len(a) /\ f[i].root <= f[1].root /\ InHeap(f[i], f[i].root)
  BY WoodFits
<1>2. ar \in Seq(Int) /\ Len(ar) = m /\ \A i \in 1..m : ar[i] = f[i].root
  BY <1>0
<1>3. \A i, j \in 1..Len(f) : f[i].root = f[j].root => i = j
  <2> SUFFICES ASSUME NEW i \in 1..Len(f), NEW j \in 1..Len(f), i # j PROVE f[i].root # f[j].root
    OBVIOUS
  <2>1. ~InHeap(f[j], f[i].root)
    BY <1>1, WoodApart
  <2> QED
    BY <1>1, <2>1
<1> HIDE DEF ar
<1>4. Places(a, ar)
  <2>1. \A i \in 1..m : i \in 1..Len(f)
    BY <1>0
  <2> QED
    BY <1>1, <1>2, <1>3, <2>1 DEF Places
<1>5. Cycled(a, ar, c) /\ Kept(a, c, f[1].root)
  <2>1. \A j \in 1..Len(ar) : ar[j] <= f[1].root
    BY <1>0, <1>1, <1>2
  <2> QED
    BY <1>0, <1>4, <2>1, CycleIs
<1> HIDE DEF c
<1>6. ASSUME NEW j \in 1..m, j < m PROVE c[f[j].root] = a[f[j + 1].root]
  <2>1. j + 1 \in 1..m
    BY <1>0, <1>6
  <2>2. ar[j] = f[j].root /\ ar[j + 1] = f[j + 1].root
    BY <1>2, <2>1
  <2>3. c[ar[j]] = a[ar[j + 1]]
    BY <1>2, <1>5, <1>6 DEF Cycled
  <2> QED
    BY <2>2, <2>3
<1>7. c[f[m].root] = a[f[1].root]
  BY <1>0, <1>2, <1>5, SMTT(60) DEF Cycled
<1>8. ASSUME NEW i \in 1..Len(f), NEW p, InHeap(f[i], p), p # f[i].root PROVE c[p] = a[p]
  <2>1. \A j \in 1..Len(f) : f[j].root # p
    <3> SUFFICES ASSUME NEW j \in 1..Len(f), f[j].root = p PROVE FALSE
      OBVIOUS
    <3>1. i # j /\ InHeap(f[j], p)
      BY <1>1, <1>8
    <3> QED
      BY <1>8, <3>1, WoodApart
  <2>2. \A j \in 1..Len(ar) : ar[j] # p
    BY <1>0, <1>2, <2>1, SMTT(60)
  <2>3. p \in 1..Len(a)
    BY <1>8, WoodFits
  <2> QED
    BY <1>5, <2>2, <2>3 DEF Cycled
<1>9. ASSUME NEW i \in 1..Len(f), i > m PROVE c[f[i].root] = a[f[i].root]
  <2>1. \A j \in 1..Len(ar) : ar[j] # f[i].root
    <3> SUFFICES ASSUME NEW j \in 1..m, ar[j] = f[i].root PROVE FALSE
      BY <1>2
    <3>1. j \in 1..Len(f) /\ i # j
      BY <1>0, <1>9
    <3> QED
      BY <1>2, <1>3, <3>1
  <2> QED
    BY <1>1, <1>5, <2>1 DEF Cycled
<1> QED
  BY <1>5, <1>6, <1>7, <1>8, <1>9 DEF Rolled, c, ar

(* The parts of a heap are as before if only its root has changed.          *)
LEMMA SonsSame ==
  ASSUME NEW a, NEW c, NEW t \in Heap, SonsOk(a, t), \A p : InHeap(t, p) /\ p # t.root => c[p] = a[p]
  PROVE  /\ SonsOk(c, t)
         /\ t.k > 1 => c[Right(t).root] = a[Right(t).root] /\ c[Left(t).root] = a[Left(t).root]
<1> SUFFICES ASSUME t.k > 1
             PROVE  /\ HeapAt(c, Right(t)) /\ HeapAt(c, Left(t))
                    /\ c[Right(t).root] = a[Right(t).root] /\ c[Left(t).root] = a[Left(t).root]
  BY DEF SonsOk
<1>1. HeapAt(a, Right(t)) /\ HeapAt(a, Left(t)) /\ Right(t) \in Heap /\ Left(t) \in Heap /\ t.root \in Int
  BY Below DEF SonsOk
<1>2. /\ \A i : InHeap(Right(t), i) => InHeap(t, i) /\ i < t.root /\ i \in Int
      /\ \A i : InHeap(Left(t), i) => InHeap(t, i) /\ i < t.root /\ i \in Int
      /\ InHeap(Left(t), Left(t).root) /\ InHeap(Right(t), Right(t).root)
  BY Divided DEF InHeap
<1>3. /\ \A i : InHeap(Right(t), i) => a[i] = c[i]
      /\ \A i : InHeap(Left(t), i) => a[i] = c[i]
  BY <1>1, <1>2
<1>4. HeapAt(c, Right(t)) /\ HeapAt(c, Left(t))
  BY <1>1, <1>3, HeapSame
<1> QED
  BY <1>2, <1>3, <1>4

(* In a forest that is ready the parts of every heap are heaps.             *)
LEMMA ReadySons ==
  ASSUME NEW a, NEW f, NEW trusty \in BOOLEAN, Ready(a, f, trusty), NEW i \in 1..Len(f)
  PROVE  SonsOk(a, f[i])
<1>1. CASE i = 1
  BY <1>1 DEF Ready
<1>2. CASE i # 1
  <2>1. f[i] \in Heap /\ HeapAt(a, f[i])
    BY <1>2, WoodTypes DEF Ready, Heaps
  <2> QED
    BY <2>1, HeapLaw
<1> QED
  BY <1>1, <1>2

(* What the two steps of trinkle make of the array.                         *)
Trinkled(a, f, m, c, b) == Rolled(a, f, m, c) /\ Sifted(c, b, f[m])

(* The second step sifts the heap at which the first has stopped.           *)
LEMMA TrinkledIs ==
  ASSUME NEW a, NEW f, NEW trusty \in BOOLEAN, Ready(a, f, trusty), NEW m \in 1..Len(f),
         NEW c, Rolled(a, f, m, c)
  PROVE  Fits(c, f[m]) /\ Sifted(c, sift(f[m])[c], f[m])
<1>1. f[m] \in Heap /\ Fits(a, f[m])
  BY WoodTypes, WoodFits DEF Ready
<1>2. Fits(c, f[m])
  BY <1>1 DEF Fits, Rolled, Kept
<1>3. SonsOk(c, f[m])
  <2>1. SonsOk(a, f[m])
    BY ReadySons
  <2>2. \A p : InHeap(f[m], p) /\ p # f[m].root => c[p] = a[p]
    BY DEF Rolled
  <2> QED
    BY <1>1, <2>1, <2>2, SonsSame
<1> QED
  BY <1>1, <1>2, <1>3, SiftIs

(* Then all are heaps,                                                      *)
LEMMA TrinkledHeaps ==
  ASSUME NEW a, NEW f, NEW trusty \in BOOLEAN, Ready(a, f, trusty), NEW m \in 1..Len(f),
         \A j \in 1..(m - 1) : ~Stops(a, f, trusty, j),
         NEW b, NEW c, Trinkled(a, f, m, c, b)
  PROVE  /\ Heaps(b, f, 1)
         /\ \A i \in 1..Len(f) : i # m => b[f[i].root] = c[f[i].root]
<1>0. /\ Len(f) \in Nat \ {0} /\ 1 \in 1..Len(f) /\ m \in Nat \ {0} /\ Wood(a, f)
      /\ \A i \in 1..Len(f) : f[i] \in Heap
  BY WoodTypes DEF Ready
<1>1. \A i \in 1..Len(f) : i # m => \A p : InHeap(f[i], p) => b[p] = c[p]
  <2> SUFFICES ASSUME NEW i \in 1..Len(f), i # m, NEW p, InHeap(f[i], p) PROVE b[p] = c[p]
    OBVIOUS
  <2>1. ~InHeap(f[m], p)
    BY <1>0, WoodApart
  <2>2. p \in 1..Len(a)
    BY <1>0, WoodFits
  <2>3. Len(c) = Len(a)
    BY DEF Trinkled, Rolled, Kept
  <2> QED
    BY <2>1, <2>2, <2>3 DEF Trinkled, Sifted
<1>2. \A i \in 1..Len(f) : i # m => b[f[i].root] = c[f[i].root]
  <2>1. \A i \in 1..Len(f) : InHeap(f[i], f[i].root)
    BY <1>0, WoodFits
  <2> QED
    BY <1>1, <2>1
<1>3. ASSUME NEW i \in 1..Len(f) PROVE HeapAt(b, f[i])
  <2>1. CASE i = m
    BY <2>1 DEF Trinkled, Sifted, Risen
  <2>2. CASE i # m
    <3>1. HeapAt(c, f[i])
      <4>1. CASE i > m
        <5>1. HeapAt(a, f[i])
          BY <1>0, <4>1 DEF Ready, Heaps
        <5>2. \A p : InHeap(f[i], p) => a[p] = c[p]
          BY <4>1 DEF Trinkled, Rolled
        <5> QED
          BY <1>0, <5>1, <5>2, HeapSame
      <4>2. CASE i < m
        <5>1. SonsOk(a, f[i])
          BY ReadySons
        <5>2. \A p : InHeap(f[i], p) /\ p # f[i].root => c[p] = a[p]
          BY DEF Trinkled, Rolled
        <5>3. SonsOk(c, f[i]) /\ (f[i].k > 1 => c[Right(f[i]).root] = a[Right(f[i]).root]
                                               /\ c[Left(f[i]).root] = a[Left(f[i]).root])
          BY <1>0, <5>1, <5>2, SonsSame
        <5>4. c[f[i].root] = a[f[i + 1].root] /\ i \in 1..(m - 1) /\ i + 1 \in 1..Len(f)
          BY <1>0, <4>2 DEF Trinkled, Rolled
        <5>5. ~Stops(a, f, trusty, i)
          BY <5>4
        <5>6. f[i].k > 1 => /\ a[f[i].root] \in Int /\ a[f[i + 1].root] \in Int /\ a[f[1].root] \in Int
                            /\ a[Right(f[i]).root] \in Int /\ a[Left(f[i]).root] \in Int
          <6> SUFFICES ASSUME f[i].k > 1
                       PROVE  /\ a[f[i].root] \in Int /\ a[f[i + 1].root] \in Int /\ a[f[1].root] \in Int
                              /\ a[Right(f[i]).root] \in Int /\ a[Left(f[i]).root] \in Int
            OBVIOUS
          <6>1. \A p \in 1..Len(a) : a[p] \in Int
            BY <1>0 DEF Wood
          <6>2. f[i].root \in 1..Len(a) /\ f[i + 1].root \in 1..Len(a) /\ f[1].root \in 1..Len(a)
            BY <1>0, <5>4, WoodFits
          <6>3. InHeap(f[i], Right(f[i]).root) /\ InHeap(f[i], Left(f[i]).root)
            BY <1>0, Divided
          <6>4. Right(f[i]).root \in 1..Len(a) /\ Left(f[i]).root \in 1..Len(a)
            BY <1>0, <6>3, WoodFits
          <6> QED
            BY <6>1, <6>2, <6>4
        <5>7. Above(c, f[i])
          <6> SUFFICES ASSUME f[i].k > 1
                       PROVE  a[f[i + 1].root] >= a[Right(f[i]).root] /\ a[f[i + 1].root] >= a[Left(f[i]).root]
            BY <5>3, <5>4 DEF Above
          <6>1. CASE i > 1 \/ ~trusty
            BY <5>5, <5>6, <6>1 DEF Stops
          <6>2. CASE i = 1 /\ trusty
            <7>1. HeapAt(a, f[1])
              BY <6>2 DEF Ready
            <7>2. Above(a, f[1])
              BY <1>0, <7>1, HeapLaw
            <7>3. a[f[1].root] >= a[Right(f[1]).root] /\ a[f[1].root] >= a[Left(f[1]).root]
              BY <6>2, <7>2 DEF Above
            <7>4. a[f[i + 1].root] > a[f[1].root]
              BY <5>5, <5>6 DEF Stops
            <7> QED
              BY <5>6, <6>2, <7>3, <7>4
          <6> QED
            BY <6>1, <6>2
        <5> QED
          BY <1>0, <5>3, <5>7, HeapLaw
      <4> QED
        BY <1>0, <2>2, <4>1, <4>2
    <3>2. \A p : InHeap(f[i], p) => c[p] = b[p]
      BY <1>1, <2>2
    <3> QED
      BY <1>0, <3>1, <3>2, HeapSame
  <2> QED
    BY <2>1, <2>2
<1> QED
  BY <1>2, <1>3 DEF Heaps

-----------------------------------------------------------------------------

(* and their roots ascend.                                                  *)
LEMMA TrinkledAscend ==
  ASSUME NEW a, NEW f, NEW trusty \in BOOLEAN, Ready(a, f, trusty), NEW m \in 1..Len(f),
         Stops(a, f, trusty, m), \A j \in 1..(m - 1) : ~Stops(a, f, trusty, j),
         NEW b, NEW c, Trinkled(a, f, m, c, b),
         \A i \in 1..Len(f) : i # m => b[f[i].root] = c[f[i].root]
  PROVE  Ascend(b, f, 1)
<1>0. /\ Len(f) \in Nat \ {0} /\ 1 \in 1..Len(f) /\ m \in Nat \ {0} /\ Wood(a, f)
      /\ \A i \in 1..Len(f) : f[i] \in Heap
  BY WoodTypes DEF Ready
<1>1. /\ \A j \in 1..Len(f) : a[f[j].root] \in Int
      /\ \A p \in 1..Len(a) : a[p] \in Int
  <2>1. \A p \in 1..Len(a) : a[p] \in Int
    BY <1>0 DEF Wood
  <2>2. \A j \in 1..Len(f) : f[j].root \in 1..Len(a)
    BY <1>0, WoodFits
  <2> QED
    BY <2>1, <2>2
<1> DEFINE x == a[f[1].root]
           s == f[m]
<1>2. /\ \A j \in 1..m : j < m => c[f[j].root] = a[f[j + 1].root]
      /\ c[s.root] = x
      /\ \A i \in 1..Len(f) : i > m => c[f[i].root] = a[f[i].root]
  BY DEF Trinkled, Rolled
<1>3. \A j \in 1..Len(f) : j >= 2 /\ j < Len(f) => a[f[j + 1].root] <= a[f[j].root]
  BY DEF Ready, Ascend
<1>4. s.k > 1 => /\ c[Right(s).root] = a[Right(s).root] /\ c[Left(s).root] = a[Left(s).root]
                 /\ a[Right(s).root] \in Int /\ a[Left(s).root] \in Int
  <2> SUFFICES ASSUME s.k > 1
               PROVE  /\ c[Right(s).root] = a[Right(s).root] /\ c[Left(s).root] = a[Left(s).root]
                      /\ a[Right(s).root] \in Int /\ a[Left(s).root] \in Int
    OBVIOUS
  <2>1. s \in Heap
    BY <1>0
  <2>2. SonsOk(a, s)
    BY ReadySons
  <2>3. \A p : InHeap(s, p) /\ p # s.root => c[p] = a[p]
    BY DEF Trinkled, Rolled
  <2>4. InHeap(s, Right(s).root) /\ InHeap(s, Left(s).root)
    BY <2>1, Divided
  <2>5. Right(s).root \in 1..Len(a) /\ Left(s).root \in 1..Len(a)
    BY <1>0, <2>4, WoodFits
  <2>6. c[Right(s).root] = a[Right(s).root] /\ c[Left(s).root] = a[Left(s).root]
    <3>1. Right(s).root # s.root /\ Left(s).root # s.root
      <4>1. Right(s).root < s.root /\ Left(s).root < s.root
        BY <2>1, Divided
      <4>2. s.root \in Int /\ Right(s).root \in Int /\ Left(s).root \in Int
        BY <2>1, Below
      <4> QED
        BY <4>1, <4>2
    <3> QED
      BY <2>3, <2>4, <3>1
  <2>7. a[Right(s).root] \in Int /\ a[Left(s).root] \in Int
    BY <1>1, <2>5
  <2> QED
    BY <2>6, <2>7
<1>5. /\ b[s.root] >= x
      /\ s.k > 1 => b[s.root] >= a[Left(s).root] /\ b[s.root] >= a[Right(s).root]
      /\ b[s.root] = x \/ (s.k > 1 /\ (b[s.root] = a[Left(s).root] \/ b[s.root] = a[Right(s).root]))
  BY <1>2, <1>4 DEF Trinkled, Sifted, Risen
<1>6. b[s.root] \in Int
  BY <1>0, <1>1, <1>4, <1>5
<1> SUFFICES ASSUME NEW j \in 1..Len(f), j < Len(f) PROVE b[f[j + 1].root] <= b[f[j].root]
  BY DEF Ascend
<1>7. j + 1 \in 1..Len(f)
  BY <1>0
<1>8. CASE j + 1 < m
  <2>1. j \in 1..m /\ j < m /\ j + 1 \in 1..m /\ j # m /\ j + 1 # m /\ (j + 1) + 1 \in 1..Len(f)
        /\ j + 1 >= 2 /\ j + 1 < Len(f)
    BY <1>0, <1>8
  <2>2. b[f[j].root] = a[f[j + 1].root] /\ b[f[j + 1].root] = a[f[(j + 1) + 1].root]
    BY <1>2, <1>7, <1>8, <2>1
  <2> QED
    BY <1>3, <1>7, <2>1, <2>2
<1>9. CASE j + 1 = m
  <2>1. j \in 1..m /\ j < m /\ j \in 1..(m - 1) /\ j # m /\ m >= 2
    BY <1>0, <1>9
  <2>2. b[f[j].root] = a[s.root]
    BY <1>2, <1>9, <2>1
  <2>3. a[s.root] > x
    <3>1. ~(a[f[j + 1].root] <= x)
      BY <2>1 DEF Stops
    <3> QED
      BY <1>0, <1>1, <1>9, <3>1
  <2>4. s.k > 1 => a[s.root] >= a[Left(s).root] /\ a[s.root] >= a[Right(s).root]
    <3>1. HeapAt(a, s) /\ s \in Heap
      BY <1>0, <2>1 DEF Ready, Heaps
    <3> QED
      BY <3>1, HeapLaw DEF Above
  <2>5. a[s.root] \in Int /\ x \in Int
    BY <1>0, <1>1
  <2>6. b[s.root] <= a[s.root]
    <3> HIDE DEF s, x
    <3> QED
      BY <1>4, <1>5, <2>3, <2>4, <2>5
  <2> QED
    BY <1>9, <2>2, <2>6
<1>10. CASE j = m
  <2>1. b[f[j + 1].root] = a[f[j + 1].root]
    <3>1. j + 1 > m /\ j + 1 # m
      BY <1>0, <1>10
    <3> QED
      BY <1>2, <1>7, <3>1
  <2>2. \/ a[f[m + 1].root] <= x
        \/ s.k > 1 /\ (a[Right(s).root] >= a[f[m + 1].root] \/ a[Left(s).root] >= a[f[m + 1].root])
    BY <1>0, <1>10 DEF Stops
  <2>3. a[f[m + 1].root] \in Int /\ x \in Int
    BY <1>0, <1>1, <1>7, <1>10
  <2>4. a[f[m + 1].root] <= b[s.root]
    <3> HIDE DEF s, x
    <3> QED
      BY <1>4, <1>5, <1>6, <2>2, <2>3
  <2> QED
    BY <1>10, <2>1, <2>4
<1>11. CASE j > m
  <2>1. j + 1 > m /\ j + 1 # m /\ j # m /\ j >= 2
    BY <1>0, <1>11
  <2>2. b[f[j].root] = a[f[j].root] /\ b[f[j + 1].root] = a[f[j + 1].root]
    BY <1>2, <1>7, <1>11, <2>1
  <2> QED
    BY <1>3, <2>1, <2>2
<1>12. j + 1 < m \/ j + 1 = m \/ j = m \/ j > m
  BY <1>0
<1> QED
  BY <1>8, <1>9, <1>10, <1>11, <1>12

(* trinkle puts a forest that is ready for it in order.                     *)
LEMMA TrinkleIs ==
  ASSUME NEW a, NEW t \in Heap, NEW n \in Nat, NEW trusty \in BOOLEAN,
         forest[n][t][1] = t, Ready(a, forest[n][t], trusty)
  PROVE  InOrder(a, trinkle(t, n, trusty)[a], forest[n][t])
<1> DEFINE f == forest[n][t]
           stepson(i) == a[f[i + 1].root]
           Stop(i) ==
             \/ i = Len(f) \/ stepson(i) <= a[t.root]
             \/ /\ i > 1 \/ ~trusty
                /\ f[i].k > 1
                /\ a[Right(f[i]).root] >= stepson(i) \/ a[Left(f[i]).root] >= stepson(i)
           last == CHOOSE i \in DOMAIN f : Stop(i) /\ \A j \in 1..(i - 1) : ~Stop(j)
           b == trinkle(t, n, trusty)[a]
<1>0. /\ Len(f) \in Nat \ {0} /\ a \in Seq(Int) /\ Wood(a, f) /\ DOMAIN f = 1..Len(f)
      /\ \A i \in 1..Len(f) : f[i] \in Heap
  <2>1. Wood(a, f)
    BY DEF Ready
  <2>2. a \in Seq(Int) /\ f \in Seq(Heap)
    BY <2>1 DEF Wood, Chain
  <2> HIDE DEF f
  <2>3. DOMAIN f = 1..Len(f)
    BY <2>2, LenProperties, SMTT(60)
  <2> QED
    BY <2>1, <2>2, <2>3, WoodTypes
<1>1. b = IF trusty /\ last = 1 THEN a ELSE sift(f[last])[cycle(a, [i \in 1..last |-> f[i].root])]
  BY <1>0 DEF trinkle
<1>2. \A i : Stop(i) <=> Stops(a, f, trusty, i)
  BY DEF Stops
<1>3. \E i \in DOMAIN f : Stop(i) /\ \A j \in 1..(i - 1) : ~Stop(j)
  <2> HIDE DEF f
  <2> DEFINE T == {i \in 1..Len(f) : Stop(i)}
  <2>1. Len(f) \in T
    BY <1>0
  <2>2. T \in SUBSET Nat /\ T # {}
    BY <2>1
  <2>3. PICK i \in T : \A m \in T : i <= m
    <3> HIDE DEF T
    <3> QED
      BY <2>2, NatMin
  <2>4. i \in 1..Len(f) /\ Stop(i)
    BY <2>3
  <2>5. \A j \in 1..(i - 1) : ~Stop(j)
    <3> SUFFICES ASSUME NEW j \in 1..(i - 1), Stop(j) PROVE FALSE
      OBVIOUS
    <3>1. j \in 1..Len(f) /\ ~(i <= j)
      <4>1. Len(f) \in Nat /\ i \in 1..Len(f)
        BY <1>0, <2>4
      <4> HIDE DEF Stop
      <4> QED
        BY <4>1
    <3>2. j \in T
      BY <3>1
    <3> QED
      BY <2>3, <3>1, <3>2
  <2> HIDE DEF Stop
  <2> QED
    BY <1>0, <2>4, <2>5
<1>4. last \in 1..Len(f) /\ Stop(last) /\ \A j \in 1..(last - 1) : ~Stop(j)
  <2> HIDE DEF Stop, f
  <2> QED
    BY <1>0, <1>3
<1> SUFFICES InOrder(a, b, f)
  OBVIOUS
<1> HIDE DEF Stop, last, b
<1>5. last \in 1..Len(f) /\ Stops(a, f, trusty, last) /\ \A j \in 1..(last - 1) : ~Stops(a, f, trusty, j)
  BY <1>2, <1>4
<1>6. f[1] = t /\ Ready(a, f, trusty)
  OBVIOUS
<1> HIDE DEF f
<1>7. f[1].root \in Int /\ f[1].root \in 1..Len(a) /\ 1 \in 1..Len(f)
  BY <1>0, WoodFits
<1>8. CASE trusty /\ last = 1
  <2>1. b = a
    BY <1>1, <1>8
  <2>2. Kept(a, a, f[1].root)
    BY <1>0, <1>7, KeptSelf
  <2>3. Heaps(a, f, 1)
    BY <1>6, <1>8 DEF Ready, Heaps
  <2>4. Ascend(a, f, 1)
    <3> SUFFICES ASSUME NEW j \in 1..Len(f), j < Len(f) PROVE a[f[j + 1].root] <= a[f[j].root]
      BY DEF Ascend
    <3>1. CASE j = 1
      BY <1>0, <1>5, <1>8, <3>1, SMTT(60) DEF Stops
    <3>2. CASE j # 1
      BY <1>6, <3>2 DEF Ready, Ascend
    <3> QED
      BY <3>1, <3>2
  <2> QED
    BY <2>1, <2>2, <2>3, <2>4 DEF InOrder
<1>9. CASE ~(trusty /\ last = 1)
  <2> DEFINE c == cycle(a, [i \in 1..last |-> f[i].root])
  <2>1. b = sift(f[last])[c]
    BY <1>1, <1>9
  <2>2. Rolled(a, f, last, c)
    BY <1>0, <1>5, RollRoots
  <2> HIDE DEF c
  <2>3. Sifted(c, b, f[last])
    BY <1>5, <1>6, <2>1, <2>2, TrinkledIs
  <2>4. Trinkled(a, f, last, c, b)
    BY <2>2, <2>3 DEF Trinkled
  <2>5. Heaps(b, f, 1) /\ \A i \in 1..Len(f) : i # last => b[f[i].root] = c[f[i].root]
    BY <1>5, <1>6, <2>4, TrinkledHeaps
  <2>6. Ascend(b, f, 1)
    BY <1>5, <1>6, <2>4, <2>5, TrinkledAscend
  <2>7. Kept(a, b, f[1].root)
    <3>1. Kept(a, c, f[1].root) /\ Kept(c, b, f[last].root)
      BY <2>2, <2>3 DEF Rolled, Sifted
    <3>2. f[last].root \in Int /\ f[last].root <= f[1].root
      BY <1>0, <1>5, WoodFits
    <3> QED
      BY <1>0, <1>7, <3>1, <3>2, KeptTwice
  <2> QED
    BY <2>5, <2>6, <2>7 DEF InOrder
<1> QED
  BY <1>8, <1>9

-----------------------------------------------------------------------------

(* A zero at the end of the number is one order more.                       *)
LEMMA EvenForest ==
  ASSUME NEW n \in Nat, n % 2 = 0, NEW t \in Heap
  PROVE  forest[n][t] = forest[n \div 2][Up(t)]
<1>1. CASE n = 0
  <2>1. ForestLaw(t) /\ ForestLaw(Up(t))
    BY NextHeaps, ForestIs
  <2>2. 0 \div 2 = 0
    OBVIOUS
  <2> QED
    BY <1>1, <2>1, <2>2 DEF ForestLaw
<1>2. CASE n # 0
  <2>1. n > 0
    BY <1>2
  <2>2. ForestLaw(t)
    BY ForestIs
  <2> QED
    BY <2>1, <2>2 DEF ForestLaw
<1> QED
  BY <1>1, <1>2

(* If n is odd, t is the first heap; the others are those of its half.      *)
LEMMA OddForest ==
  ASSUME NEW n \in Nat, n % 2 = 1, NEW t \in Heap
  PROVE  ConsOf(Heap, t, forest[n \div 2][Before(t)], forest[n][t])
<1>1. forest[n][t] = <<t>> \o forest[n \div 2][Before(t)]
  BY ForestIs DEF ForestLaw
<1>2. forest[n \div 2][Before(t)] \in Seq(Heap)
  <2>1. n \div 2 \in Nat /\ Before(t) \in Heap
    BY NextHeaps
  <2> QED
    BY <2>1, ForestIs DEF ForestLaw
<1> QED
  BY <1>1, <1>2, Cons

(* A forest does not change when the number is shifted and the order is     *)
(* lower by as much.                                                        *)
LEMMA ShlForest ==
  ASSUME NEW n \in Nat, NEW r \in Int, NEW z \in Nat, NEW k \in Nat
  PROVE  forest[shl[z][n]][[root |-> r, k |-> k]] = forest[n][[root |-> r, k |-> k + z]]
<1> DEFINE Good == {y \in Nat : \A j \in Nat :
                      forest[shl[y][n]][[root |-> r, k |-> j]] = forest[n][[root |-> r, k |-> j + y]]}
<1>1. 0 \in Good
  <2>1. shl[0][n] = n /\ \A j \in Nat : j + 0 = j
    BY ShlIs
  <2> QED
    BY <2>1
<1>2. ASSUME NEW y \in Nat, y \in Good PROVE y + 1 \in Good
  <2> SUFFICES ASSUME NEW j \in Nat
               PROVE  forest[shl[y + 1][n]][[root |-> r, k |-> j]] = forest[n][[root |-> r, k |-> j + (y + 1)]]
    OBVIOUS
  <2> DEFINE s == shl[y][n]
             t == [root |-> r, k |-> j]
  <2>1. s \in Nat /\ shl[y + 1][n] = 2 * s
    BY ShlIs
  <2>2. t \in Heap /\ Up(t) = [root |-> r, k |-> j + 1]
    BY DEF Heap, Up
  <2>3. forest[s][[root |-> r, k |-> j + 1]] = forest[n][[root |-> r, k |-> (j + 1) + y]]
    BY <1>2
  <2>4. (j + 1) + y = j + (y + 1)
    OBVIOUS
  <2> HIDE DEF s, t, Good
  <2>5. 2 * s \in Nat /\ (2 * s) % 2 = 0 /\ (2 * s) \div 2 = s
    BY <2>1
  <2>6. forest[2 * s][t] = forest[s][Up(t)]
    BY <2>2, <2>5, EvenForest
  <2> QED
    BY <2>1, <2>2, <2>3, <2>4, <2>6 DEF t
<1>3. \A y \in Nat : y \in Good
  <2> HIDE DEF Good
  <2> QED
    BY <1>1, <1>2, NatInd
<1> QED
  BY <1>3

Stripped(m, t) ==
  /\ shr[lb_ctz[m]][m] \in Nat /\ shr[lb_ctz[m]][m] % 2 = 1
  /\ forest[m][t] = forest[shr[lb_ctz[m]][m]][[root |-> t.root, k |-> t.k + lb_ctz[m]]]

(* A forest does not change when the zeros that p ends with are shifted out. *)
LEMMA StripForest ==
  ASSUME NEW n \in Nat \ {0}, NEW u \in Heap
  PROVE  Stripped(n, u)
<1> DEFINE Good == {m \in Nat : m # 0 => \A t \in Heap : Stripped(m, t)}
<1>1. ASSUME NEW m \in Nat, \A j \in Nat : j < m => j \in Good PROVE m \in Good
  <2> SUFFICES ASSUME m # 0, NEW t \in Heap PROVE Stripped(m, t)
    OBVIOUS
  <2>1. CASE m % 2 = 1
    <3>1. lb_ctz[m] = 0 /\ shr[0][m] = m
      BY <2>1, CtzIs, ShrIs
    <3>2. [root |-> t.root, k |-> t.k + 0] = t
      BY Below
    <3> QED
      BY <2>1, <3>1, <3>2 DEF Stripped
  <2>2. CASE m % 2 = 0
    <3> DEFINE d == m \div 2
               c == lb_ctz[d]
    <3>1. d \in Nat /\ d # 0 /\ d < m
      BY <2>2
    <3>2. Up(t) \in Heap /\ Up(t).root = t.root /\ Up(t).k = t.k + 1 /\ t.k \in Nat
      BY NextHeaps, Below
    <3>3. Stripped(d, Up(t))
      BY <1>1, <3>1, <3>2
    <3>4. lb_ctz[m] = 1 + c /\ c \in Nat
      BY <2>2, <3>1, CtzIs
    <3>5. shr[c + 1][m] = shr[c][d]
      BY <3>4, ShrIs
    <3>6. forest[m][t] = forest[d][Up(t)]
      BY <2>2, EvenForest
    <3> HIDE DEF d, Good
    <3>7. 1 + c = c + 1 /\ (t.k + 1) + c = t.k + (1 + c)
      BY <3>2, <3>4
    <3> QED
      BY <3>2, <3>3, <3>4, <3>5, <3>6, <3>7 DEF Stripped
  <2>3. m % 2 = 0 \/ m % 2 = 1
    OBVIOUS
  <2> QED
    BY <2>1, <2>2, <2>3
<1>2. \A m \in Nat : m \in Good
  <2> HIDE DEF Good
  <2> QED
    BY <1>1, StrongInd
<1> QED
  BY <1>2

(* Two heaps become one with the place after them.                          *)
LEMMA MergeForest ==
  ASSUME NEW n \in Nat, n % 4 = 3, (n \div 4) % 2 = 0, NEW t \in Heap,
         NEW u, u = [root |-> t.root + 1, k |-> t.k + 2], NEW m, m = 2 * (n \div 8) + 1
  PROVE  /\ u \in Heap /\ m \in Nat /\ m % 2 = 1
         /\ \E s : /\ ConsOf(Heap, Before(t), s, forest[n \div 2][Before(t)])
                   /\ ConsOf(Heap, u, s, forest[m][u])
<1> DEFINE q == n \div 4
           e == n \div 8
           w == Before(t)
           x == Before(w)
<1>1. /\ e \in Nat /\ q \in Nat /\ q % 2 = 0 /\ q \div 2 = e
      /\ n % 2 = 1 /\ (n \div 2) % 2 = 1 /\ n \div 2 \in Nat /\ (n \div 2) \div 2 = q
  OBVIOUS
<1>2. m \in Nat /\ m % 2 = 1 /\ m \div 2 = e
  <2> HIDE DEF e
  <2> QED
    BY <1>1 DEF e
<1>3. /\ t.root \in Int /\ t.k \in Nat
      /\ w \in Heap /\ w.root = t.root - lp[t.k] /\ w.k = t.k + 1
      /\ x \in Heap /\ x.root = w.root - lp[w.k] /\ x.k = w.k + 1
  BY NextHeaps, Below
<1>4. u \in Heap /\ u.root = t.root + 1 /\ u.k = t.k + 2
  <2>1. t.root + 1 \in Int /\ t.k + 2 \in Nat
    BY <1>3
  <2> QED
    BY <2>1 DEF Heap
<1>5. Before(u) = Up(x)
  <2>1. lp[t.k + 2] = lp[t.k] + lp[t.k + 1] + 1
    <3>1. t.k + 2 \in Nat /\ t.k + 2 > 1 /\ (t.k + 2) - 2 = t.k /\ (t.k + 2) - 1 = t.k + 1
      BY <1>3
    <3> QED
      BY <3>1, LpIs
  <2>2. lp[t.k] \in Nat /\ lp[t.k + 1] \in Nat
    <3>1. t.k + 1 \in Nat
      BY <1>3
    <3> QED
      BY <1>3, <3>1, LpIs
  <2>3. u.root - lp[u.k] = x.root /\ u.k + 1 = x.k + 1
    BY <1>3, <1>4, <2>1, <2>2
  <2> HIDE DEF x
  <2> QED
    BY <2>3 DEF Before, Up
<1> HIDE DEF w, x, q, e
<1>6. ConsOf(Heap, w, forest[q][x], forest[n \div 2][w])
  BY <1>1, <1>3, OddForest DEF x
<1>7. ConsOf(Heap, u, forest[e][Before(u)], forest[m][u])
  BY <1>2, <1>4, OddForest
<1>8. forest[q][x] = forest[e][Up(x)]
  BY <1>1, <1>3, EvenForest
<1> QED
  BY <1>2, <1>4, <1>5, <1>6, <1>7, <1>8 DEF w

(* A heap of one element after the others.                                  *)
OneMore(t, n, u, m) ==
  /\ u = [root |-> t.root + 1, k |-> IF t.k = 1 THEN 0 ELSE 1]
  /\ m = shl[IF t.k = 1 THEN 1 ELSE t.k - 1][n] + 1

(* Then the forest has one more heap, and is else the same.                 *)
LEMMA SingleForest ==
  ASSUME NEW n \in Nat, NEW t \in Heap, t.k > 0, NEW u, NEW m, OneMore(t, n, u, m)
  PROVE  u \in Heap /\ m \in Nat /\ m % 2 = 1 /\ ConsOf(Heap, u, forest[n][t], forest[m][u])
<1> DEFINE z == IF t.k = 1 THEN 1 ELSE t.k - 1
           s == shl[z - 1][n]
<1>0. /\ u = [root |-> t.root + 1, k |-> IF t.k = 1 THEN 0 ELSE 1]
      /\ m = shl[z][n] + 1 /\ z = (IF t.k = 1 THEN 1 ELSE t.k - 1)
  BY DEF OneMore
<1> HIDE DEF z
<1>1. t.root \in Int /\ t.k \in Nat /\ t = [root |-> t.root, k |-> t.k]
  BY Below
<1>2. z - 1 \in Nat /\ (z - 1) + 1 = z
  BY <1>0, <1>1
<1>3. s \in Nat /\ shl[z][n] = 2 * s
  BY <1>2, ShlIs
<1> HIDE DEF s
<1>4. m \in Nat /\ m % 2 = 1 /\ m \div 2 = s
  BY <1>0, <1>3
<1>5. u \in Heap /\ u.root = t.root + 1 /\ u.k = (IF t.k = 1 THEN 0 ELSE 1)
  <2>1. t.root + 1 \in Int
    BY <1>1
  <2> QED
    BY <1>0, <2>1 DEF Heap
<1>6. ConsOf(Heap, u, forest[s][Before(u)], forest[m][u])
  BY <1>4, <1>5, OddForest
<1>7. Before(u) = [root |-> t.root, k |-> u.k + 1]
  <2>1. lp[u.k] = 1
    BY <1>5, LpIs
  <2>2. u.root - lp[u.k] = t.root
    BY <1>1, <1>5, <2>1
  <2> QED
    BY <2>2 DEF Before
<1>8. forest[s][[root |-> t.root, k |-> u.k + 1]] = forest[n][[root |-> t.root, k |-> (u.k + 1) + (z - 1)]]
  <2>1. u.k + 1 \in Nat
    BY <1>5
  <2> QED
    BY <1>1, <1>2, <2>1, ShlForest DEF s
<1>9. (u.k + 1) + (z - 1) = t.k
  BY <1>0, <1>1, <1>5
<1> QED
  BY <1>1, <1>4, <1>5, <1>6, <1>7, <1>8, <1>9

-----------------------------------------------------------------------------
(* The heap t will not be part of a greater one.                            *)
FinalAt(a, t) == lp[t.k - 1] >= Len(a) - t.root

(* If a heap leaves fewer elements than it needs to grow, a greater one     *)
(* before it does too.                                                      *)
LEMMA FinalSizes ==
  ASSUME NEW k \in Nat, NEW m \in Nat, k >= 1, m >= k + 2, NEW r \in Int, NEW n \in Int,
         lp[k - 1] >= n - r
  PROVE  lp[m - 1] >= n - (r - lp[k])
<1>1. k - 1 \in Nat /\ k + 1 \in Nat /\ m - 1 \in Nat /\ k + 1 <= m - 1
  OBVIOUS
<1>2. k + 1 > 1 /\ (k + 1) - 2 = k - 1 /\ (k + 1) - 1 = k
  OBVIOUS
<1>3. lp[k + 1] = lp[k - 1] + lp[k] + 1
  BY <1>1, <1>2, LpIs
<1>4. lp[k + 1] <= lp[m - 1]
  BY <1>1, LpUp
<1>5. lp[k - 1] \in Nat /\ lp[k] \in Nat /\ lp[k + 1] \in Nat /\ lp[m - 1] \in Nat
  BY <1>1, LpIs
<1> QED
  BY <1>3, <1>4, <1>5

(* The heap before a final one is final,                                    *)
LEMMA FinalNext ==
  ASSUME NEW a, NEW f, Wood(a, f), NEW i \in 1..Len(f), i < Len(f), f[i].k >= 1,
         f[i + 1].k >= f[i].k + 2, FinalAt(a, f[i])
  PROVE  FinalAt(a, f[i + 1])
<1>1. /\ Len(f) \in Nat \ {0} /\ Len(a) \in Int
      /\ f[i].root \in Int /\ f[i].k \in Nat /\ f[i + 1].root \in Int /\ f[i + 1].k \in Nat
  <2>1. /\ Len(f) \in Nat \ {0} /\ Len(a) \in Nat
        /\ \A j \in 1..Len(f) : f[j].root \in Int /\ f[j].k \in Nat
    BY WoodTypes
  <2>2. i + 1 \in 1..Len(f)
    BY <2>1
  <2> QED
    BY <2>1, <2>2
<1>2. f[i + 1].root = f[i].root - lp[f[i].k]
  BY DEF Wood, Chain
<1>3. lp[f[i].k - 1] >= Len(a) - f[i].root
  BY DEF FinalAt
<1>4. lp[f[i + 1].k - 1] >= Len(a) - (f[i].root - lp[f[i].k])
  BY <1>1, <1>3, FinalSizes
<1> QED
  BY <1>2, <1>4 DEF FinalAt

(* and so are all before it.                                                *)
LEMMA FinalAll ==
  ASSUME NEW a, NEW f, Wood(a, f), NEW s \in 1..Len(f), f[s].k >= 1, FinalAt(a, f[s]),
         \A i \in 1..Len(f) : i >= s /\ i < Len(f) => f[i + 1].k >= f[i].k + 2
  PROVE  \A i \in 1..Len(f) : i >= s => FinalAt(a, f[i])
<1>1. Len(f) \in Nat \ {0} /\ \A i \in 1..Len(f) : f[i].k \in Nat
  BY WoodTypes
<1> DEFINE Good == {d \in Nat : s + d <= Len(f) => f[s + d].k >= 1 /\ FinalAt(a, f[s + d])}
<1>2. 0 \in Good
  <2>1. s + 0 = s
    BY <1>1
  <2> QED
    BY <2>1
<1>3. ASSUME NEW d \in Nat, d \in Good PROVE d + 1 \in Good
  <2> SUFFICES ASSUME s + (d + 1) <= Len(f) PROVE f[s + (d + 1)].k >= 1 /\ FinalAt(a, f[s + (d + 1)])
    OBVIOUS
  <2>1. s + d \in 1..Len(f) /\ s + d >= s /\ s + d < Len(f) /\ s + (d + 1) = (s + d) + 1
        /\ s + (d + 1) \in 1..Len(f)
    BY <1>1
  <2>2. f[s + d].k >= 1 /\ FinalAt(a, f[s + d])
    BY <1>3, <2>1
  <2>3. f[s + (d + 1)].k >= f[s + d].k + 2
    BY <2>1
  <2>4. FinalAt(a, f[(s + d) + 1])
    BY <2>1, <2>2, <2>3, FinalNext
  <2>5. f[s + (d + 1)].k >= 1
    BY <1>1, <2>1, <2>2, <2>3, SMTT(60)
  <2> QED
    BY <2>1, <2>4, <2>5
<1>4. \A d \in Nat : d \in Good
  <2> HIDE DEF Good
  <2> QED
    BY <1>2, <1>3, NatInd
<1> SUFFICES ASSUME NEW i \in 1..Len(f), i >= s PROVE FinalAt(a, f[i])
  OBVIOUS
<1>5. i - s \in Nat /\ s + (i - s) = i
  BY <1>1
<1>6. i - s \in Good
  BY <1>4, <1>5
<1>7. s + (i - s) <= Len(f)
  BY <1>1, <1>5
<1> QED
  BY <1>5, <1>6, <1>7

(* While the forest is built: but for the two last, no heaps are of         *)
(* consecutive orders, and the root of one that is final has been trinkled. *)
Spaced(f) == \A i \in 1..Len(f) : i >= 2 /\ i < Len(f) => f[i + 1].k >= f[i].k + 2

Settled(a, f) ==
  \A i \in 1..Len(f) : i >= 2 /\ i < Len(f) /\ FinalAt(a, f[i]) => a[f[i + 1].root] <= a[f[i].root]

Growing(a, f) ==
  Wood(a, f) /\ Heaps(a, f, 2) /\ SonsOk(a, f[1]) /\ Spaced(f) /\ Settled(a, f)

(* If the last heap but one is final, trinkle can put the last in order.    *)
LEMMA GrowingReady ==
  ASSUME NEW a, NEW f, Growing(a, f), Len(f) >= 2 => FinalAt(a, f[2])
  PROVE  Ready(a, f, FALSE)
<1>1. Wood(a, f)
  BY DEF Growing
<1>2. Len(f) \in Nat \ {0} /\ \A i \in 1..Len(f) : f[i].k \in Nat
  BY <1>1, WoodTypes
<1>3. ASSUME Len(f) >= 2 PROVE \A i \in 1..Len(f) : i >= 2 => FinalAt(a, f[i])
  <2>1. 2 \in 1..Len(f) /\ 1 \in 1..Len(f) /\ 1 < Len(f)
    BY <1>2, <1>3
  <2>2. f[1].k < f[1 + 1].k
    BY <1>1, <2>1 DEF Wood, Chain
  <2>3. f[2].k >= 1
    BY <1>2, <2>1, <2>2
  <2>4. \A i \in 1..Len(f) : i >= 2 /\ i < Len(f) => f[i + 1].k >= f[i].k + 2
    BY DEF Growing, Spaced
  <2> QED
    BY <1>1, <1>3, <2>1, <2>3, <2>4, FinalAll
<1>4. Ascend(a, f, 2)
  <2> SUFFICES ASSUME NEW i \in 1..Len(f), i >= 2, i < Len(f) PROVE a[f[i + 1].root] <= a[f[i].root]
    BY DEF Ascend
  <2>1. FinalAt(a, f[i])
    BY <1>2, <1>3
  <2> QED
    BY <2>1 DEF Growing, Settled
<1> QED
  BY <1>1, <1>4 DEF Growing, Ready

(* Before the forest is taken apart, and before a final heap is followed by *)
(* another, it can be put in order.                                         *)
LEMMA LastReady ==
  ASSUME NEW a, NEW f, Growing(a, f), f[1].root = Len(a)
  PROVE  Ready(a, f, FALSE)
<1>1. Wood(a, f)
  BY DEF Growing
<1>2. Len(f) \in Nat \ {0} /\ \A i \in 1..Len(f) : f[i].root \in Int /\ f[i].k \in Nat
  BY <1>1, WoodTypes
<1>3. ASSUME Len(f) >= 2 PROVE FinalAt(a, f[2])
  <2>1. 2 \in 1..Len(f) /\ 1 \in 1..Len(f) /\ 1 < Len(f) /\ 1 + 1 = 2
    BY <1>2, <1>3
  <2>2. f[1 + 1].root = f[1].root - lp[f[1].k] /\ f[1].k < f[1 + 1].k
    BY <1>1, <2>1 DEF Wood, Chain
  <2>3. f[2].root = f[1].root - lp[f[1].k] /\ f[1].k < f[2].k
    BY <2>1, <2>2
  <2>4. f[1].k \in Nat /\ f[2].k \in Nat /\ f[2].k - 1 \in Nat /\ f[1].k <= f[2].k - 1
        /\ f[1].root \in Int
    BY <1>2, <2>1, <2>3
  <2>5. lp[f[1].k] <= lp[f[2].k - 1]
    BY <2>4, LpUp
  <2>6. lp[f[1].k] \in Nat /\ lp[f[2].k - 1] \in Nat
    BY <2>4, LpIs
  <2>7. Len(a) - f[2].root = lp[f[1].k]
    BY <2>3, <2>4, <2>6
  <2> QED
    BY <2>5, <2>6, <2>7 DEF FinalAt
<1> QED
  BY <1>3, GrowingReady

(* So it is when the last one is final.                                     *)
LEMMA FinalReady ==
  ASSUME NEW a, NEW f, Growing(a, f), f[1].k >= 1, FinalAt(a, f[1]),
         Len(f) >= 2 => f[2].k >= f[1].k + 2
  PROVE  Ready(a, f, FALSE)
<1>1. Wood(a, f)
  BY DEF Growing
<1>2. Len(f) \in Nat \ {0}
  BY <1>1, WoodTypes
<1>3. ASSUME Len(f) >= 2 PROVE FinalAt(a, f[2])
  <2>1. 1 \in 1..Len(f) /\ 1 < Len(f) /\ 1 + 1 = 2
    BY <1>2, <1>3
  <2>2. f[1 + 1].k >= f[1].k + 2
    BY <1>3, <2>1
  <2>3. FinalAt(a, f[1 + 1])
    BY <1>1, <2>1, <2>2, FinalNext
  <2> QED
    BY <2>1, <2>3
<1> QED
  BY <1>3, GrowingReady

-----------------------------------------------------------------------------

(* What stays after a place stays after a later one.                        *)
LEMMA KeptWider ==
  ASSUME NEW a, NEW b, NEW m \in Int, NEW n \in Int, Kept(a, b, m), m <= n, Len(a) \in Nat
  PROVE  Kept(a, b, n)
<1>1. \A i \in 1..Len(a) : i > n => b[i] = a[i]
  <2> SUFFICES ASSUME NEW i \in 1..Len(a), i > n PROVE b[i] = a[i]
    OBVIOUS
  <2>1. i > m
    OBVIOUS
  <2> QED
    BY <2>1 DEF Kept
<1>2. ASSUME NEW i \in 1..Len(a), i <= n PROVE \E j \in 1..Len(a) : j <= n /\ b[i] = a[j]
  <2>1. CASE i <= m
    <3>1. PICK j \in 1..Len(a) : j <= m /\ b[i] = a[j]
      BY <2>1 DEF Kept
    <3>2. j <= n
      BY <3>1
    <3> QED
      BY <3>1, <3>2
  <2>2. CASE i > m
    <3>1. b[i] = a[i]
      BY <2>2 DEF Kept
    <3> QED
      BY <1>2, <3>1
  <2> QED
    BY <2>1, <2>2
<1> QED
  BY <1>1, <1>2 DEF Kept

(* What holds of a forest from one heap on, holds of the rest of it from    *)
(* the one before on.                                                       *)
LEMMA ConsRest ==
  ASSUME NEW a, NEW u, NEW s, NEW g, ConsOf(Heap, u, s, g), NEW m \in Nat, m >= 1
  PROVE  /\ Heaps(a, g, m + 1) <=> Heaps(a, s, m)
         /\ Ascend(a, g, m + 1) <=> Ascend(a, s, m)
<1>1. Len(g) = Len(s) + 1 /\ Len(s) \in Nat /\ \A i \in 1..Len(s) : g[i + 1] = s[i]
  BY DEF ConsOf
<1>2. ASSUME NEW j \in 1..Len(g), j >= m + 1 PROVE j - 1 \in 1..Len(s) /\ g[j] = s[j - 1] /\ j - 1 >= m
  <2>1. j - 1 \in 1..Len(s) /\ (j - 1) + 1 = j /\ j - 1 >= m
    BY <1>1, <1>2
  <2> QED
    BY <1>1, <2>1
<1>3. ASSUME NEW j \in 1..Len(s), j >= m PROVE j + 1 \in 1..Len(g) /\ g[j + 1] = s[j] /\ j + 1 >= m + 1
  BY <1>1, <1>3
<1>4. Heaps(a, g, m + 1) => Heaps(a, s, m)
  <2> SUFFICES ASSUME Heaps(a, g, m + 1), NEW j \in 1..Len(s), j >= m PROVE HeapAt(a, s[j])
    BY DEF Heaps
  <2>1. j + 1 \in 1..Len(g) /\ g[j + 1] = s[j] /\ j + 1 >= m + 1
    BY <1>3
  <2> QED
    BY <2>1 DEF Heaps
<1>5. Heaps(a, s, m) => Heaps(a, g, m + 1)
  <2> SUFFICES ASSUME Heaps(a, s, m), NEW j \in 1..Len(g), j >= m + 1 PROVE HeapAt(a, g[j])
    BY DEF Heaps
  <2>1. j - 1 \in 1..Len(s) /\ g[j] = s[j - 1] /\ j - 1 >= m
    BY <1>2
  <2> QED
    BY <2>1 DEF Heaps
<1>6. Ascend(a, g, m + 1) => Ascend(a, s, m)
  <2> SUFFICES ASSUME Ascend(a, g, m + 1), NEW j \in 1..Len(s), j >= m, j < Len(s)
               PROVE  a[s[j + 1].root] <= a[s[j].root]
    BY DEF Ascend
  <2>1. j + 1 \in 1..Len(g) /\ g[j + 1] = s[j] /\ j + 1 >= m + 1
    BY <1>3
  <2>2. j + 1 \in 1..Len(s) /\ j + 1 >= m /\ j + 1 < Len(g)
    BY <1>1
  <2>3. g[(j + 1) + 1] = s[j + 1]
    BY <1>1, <2>2
  <2>4. a[g[(j + 1) + 1].root] <= a[g[j + 1].root]
    BY <2>1, <2>2 DEF Ascend
  <2> QED
    BY <2>1, <2>3, <2>4
<1>7. Ascend(a, s, m) => Ascend(a, g, m + 1)
  <2> SUFFICES ASSUME Ascend(a, s, m), NEW j \in 1..Len(g), j >= m + 1, j < Len(g)
               PROVE  a[g[j + 1].root] <= a[g[j].root]
    BY DEF Ascend
  <2>1. j - 1 \in 1..Len(s) /\ g[j] = s[j - 1] /\ j - 1 >= m
    BY <1>2
  <2>2. j \in 1..Len(s) /\ j - 1 < Len(s) /\ (j - 1) + 1 = j
    BY <1>1, <2>1
  <2>3. g[j + 1] = s[j]
    BY <1>1, <2>2
  <2>4. a[s[(j - 1) + 1].root] <= a[s[j - 1].root]
    BY <2>1, <2>2 DEF Ascend
  <2> QED
    BY <2>1, <2>2, <2>3, <2>4
<1> QED
  BY <1>4, <1>5, <1>6, <1>7

(* A forest with one more heap in front.                                    *)
LEMMA WoodAdd ==
  ASSUME NEW a \in Seq(Int), NEW u, NEW s, NEW g, ConsOf(Heap, u, s, g), Chain(g), u.root <= Len(a),
         Rooted(s) \/ (Len(s) = 0 /\ u.root = lp[u.k])
  PROVE  Wood(a, g)
<1>1. Len(g) = Len(s) + 1 /\ g[1] = u /\ Len(s) \in Nat /\ \A i \in 1..Len(s) : g[i + 1] = s[i]
  BY DEF ConsOf
<1>2. Rooted(g)
  <2>1. CASE Rooted(s)
    <3>1. Len(s) \in 1..Len(s) /\ s[Len(s)].root = lp[s[Len(s)].k]
      BY <1>1, <2>1 DEF Rooted
    <3>2. g[Len(g)] = s[Len(s)]
      BY <1>1, <3>1
    <3>3. Len(g) \in Nat \ {0}
      BY <1>1
    <3> QED
      BY <3>1, <3>2, <3>3 DEF Rooted
  <2>2. CASE Len(s) = 0 /\ u.root = lp[u.k]
    <3>1. Len(g) = 1
      BY <1>1, <2>2
    <3> QED
      BY <1>1, <2>2, <3>1 DEF Rooted
  <2> QED
    BY <2>1, <2>2
<1> QED
  BY <1>1, <1>2 DEF Wood

(* A forest without its first heap.                                         *)
LEMMA WoodRest ==
  ASSUME NEW a, NEW u, NEW s, NEW g, ConsOf(Heap, u, s, g), Wood(a, g), Chain(s), Len(s) > 0
  PROVE  /\ Wood(a, s) /\ Rooted(s) /\ s[1] = g[2]
         /\ s[1].root = u.root - lp[u.k] /\ u.k < s[1].k
<1>1. Len(g) = Len(s) + 1 /\ g[1] = u /\ Len(s) \in Nat /\ \A i \in 1..Len(s) : g[i + 1] = s[i]
  BY DEF ConsOf
<1>2. Rooted(s)
  <2>1. Len(s) \in 1..Len(s) /\ Len(s) \in Nat \ {0}
    BY <1>1
  <2>2. g[Len(g)] = s[Len(s)]
    BY <1>1, <2>1
  <2> QED
    BY <2>1, <2>2 DEF Wood, Rooted
<1>3. s[1] = g[2] /\ 2 \in 1..Len(g)
  <2>1. 1 \in 1..Len(s) /\ 1 + 1 = 2
    BY <1>1
  <2>2. g[1 + 1] = s[1]
    BY <1>1, <2>1
  <2> QED
    BY <1>1, <2>1, <2>2
<1>4. g[2].root = g[1].root - lp[g[1].k] /\ g[1].k < g[2].k
  <2>1. 1 \in 1..Len(g) /\ 1 < Len(g) /\ 1 + 1 = 2
    BY <1>1
  <2>2. g[1 + 1].root = g[1].root - lp[g[1].k] /\ g[1].k < g[1 + 1].k
    BY <2>1 DEF Wood, Chain
  <2> QED
    BY <2>1, <2>2
<1>5. s[1].root <= Len(a)
  <2>1. g[2].root \in 1..Len(a) /\ Len(a) \in Nat
    BY <1>3, WoodFits, WoodTypes
  <2> QED
    BY <1>3, <2>1
<1> QED
  BY <1>1, <1>2, <1>3, <1>4, <1>5 DEF Wood

-----------------------------------------------------------------------------

(* Sifting the first heap makes it one and leaves the others.               *)
LEMMA SiftFirst ==
  ASSUME NEW a, NEW f, NEW b, Growing(a, f), b = sift(f[1])[a]
  PROVE  /\ Kept(a, b, f[1].root) /\ Heaps(b, f, 1)
         /\ \A j \in 1..Len(f) : j >= 2 => b[f[j].root] = a[f[j].root]
<1>0. /\ Wood(a, f) /\ Len(f) \in Nat \ {0} /\ 1 \in 1..Len(f)
      /\ \A j \in 1..Len(f) : f[j] \in Heap /\ Fits(a, f[j]) /\ InHeap(f[j], f[j].root)
                              /\ \A q : InHeap(f[j], q) => q \in 1..Len(a)
  <2>1. Wood(a, f)
    BY DEF Growing
  <2> QED
    BY <2>1, WoodTypes, WoodFits
<1>1. Sifted(a, b, f[1])
  BY <1>0, SiftIs DEF Growing
<1>2. ASSUME NEW j \in 1..Len(f), j >= 2 PROVE \A q : InHeap(f[j], q) => a[q] = b[q]
  <2> SUFFICES ASSUME NEW q, InHeap(f[j], q) PROVE a[q] = b[q]
    OBVIOUS
  <2>1. ~InHeap(f[1], q)
    BY <1>0, <1>2, WoodApart
  <2>2. q \in 1..Len(a)
    BY <1>0
  <2> QED
    BY <1>1, <2>1, <2>2 DEF Sifted
<1>3. ASSUME NEW j \in 1..Len(f) PROVE HeapAt(b, f[j])
  <2>1. CASE j = 1
    BY <1>1, <2>1 DEF Sifted, Risen
  <2>2. CASE j # 1
    <3>1. j >= 2
      BY <1>0, <2>2
    <3>2. HeapAt(a, f[j])
      BY <3>1 DEF Growing, Heaps
    <3> QED
      BY <1>0, <1>2, <3>1, <3>2, HeapSame
  <2> QED
    BY <2>1, <2>2
<1>4. \A j \in 1..Len(f) : j >= 2 => b[f[j].root] = a[f[j].root]
  BY <1>0, <1>2
<1> QED
  BY <1>1, <1>3, <1>4 DEF Sifted, Heaps

(* The last heap of a forest is that of its rest.                           *)
LEMMA Rest ==
  ASSUME NEW u, NEW s, NEW g, ConsOf(Heap, u, s, g), Rooted(g), Len(s) > 0
  PROVE  Rooted(s)
<1>1. Len(g) = Len(s) + 1 /\ Len(s) \in Nat /\ \A i \in 1..Len(s) : g[i + 1] = s[i]
  BY DEF ConsOf
<1>2. Len(s) \in 1..Len(s) /\ Len(s) \in Nat \ {0}
  BY <1>1
<1>3. g[Len(g)] = s[Len(s)]
  BY <1>1, <1>2
<1> QED
  BY <1>2, <1>3 DEF Rooted

(* g is f after its first two heaps have become one.                        *)
Merged(t, u, w, s, v, f, g) ==
  /\ t \in Heap /\ u = [root |-> t.root + 1, k |-> t.k + 2] /\ w = Before(t)
  /\ ConsOf(Heap, t, v, f) /\ ConsOf(Heap, w, s, v) /\ ConsOf(Heap, u, s, g) /\ Chain(g)

(* The parts of the new heap are the two.                                   *)
LEMMA MergedParts ==
  ASSUME NEW t, NEW u, NEW w, NEW s, NEW v, NEW f, NEW g, Merged(t, u, w, s, v, f, g)
  PROVE  /\ u \in Heap /\ u.root = t.root + 1 /\ u.k = t.k + 2 /\ Right(u) = t /\ Left(u) = w
         /\ w.root = lp[w.k] => u.root = lp[u.k]
<1>1. /\ t.root \in Int /\ t.k \in Nat /\ lp[t.k] \in Nat /\ t = [root |-> t.root, k |-> t.k]
      /\ w = [root |-> t.root - lp[t.k], k |-> t.k + 1] /\ u = [root |-> t.root + 1, k |-> t.k + 2]
      /\ w.root = t.root - lp[t.k] /\ w.k = t.k + 1
  BY Below DEF Merged, Before
<1>2. u.root = t.root + 1 /\ u.k = t.k + 2
  BY <1>1
<1>3. u \in Heap
  <2>1. t.root + 1 \in Int /\ t.k + 2 \in Nat
    BY <1>1
  <2> QED
    BY <1>1, <2>1 DEF Heap
<1>4. u.root - 1 = t.root /\ u.k - 2 = t.k /\ u.root - 1 - lp[t.k] = t.root - lp[t.k] /\ u.k - 1 = t.k + 1
  BY <1>1, <1>2
<1>5. Right(u) = t
  BY <1>1, <1>4 DEF Right
<1>6. Left(u) = w
  BY <1>1, <1>4 DEF Left
<1>7. lp[t.k + 2] = lp[t.k] + lp[t.k + 1] + 1 /\ lp[t.k + 1] \in Nat
  <2>1. t.k + 2 \in Nat /\ t.k + 1 \in Nat /\ t.k + 2 > 1 /\ (t.k + 2) - 2 = t.k /\ (t.k + 2) - 1 = t.k + 1
    BY <1>1
  <2> QED
    BY <2>1, LpIs
<1>8. w.root = lp[w.k] => u.root = lp[u.k]
  BY <1>1, <1>2, <1>7
<1> QED
  BY <1>2, <1>3, <1>5, <1>6, <1>8

(* The forest is as it should be after a merge.                             *)
LEMMA MergeGrows ==
  ASSUME NEW a, NEW t, NEW u, NEW w, NEW s, NEW v, NEW f, NEW g, Merged(t, u, w, s, v, f, g),
         Growing(a, f), t.root < Len(a), NEW b, b = sift(t)[a]
  PROVE  Growing(b, g) /\ Kept(a, b, t.root)
<1>0. /\ Len(f) = Len(s) + 2 /\ Len(g) = Len(s) + 1 /\ Len(s) \in Nat
      /\ f[1] = t /\ f[2] = w /\ g[1] = u
      /\ \A i \in 1..Len(s) : f[i + 2] = s[i] /\ g[i + 1] = s[i]
  <2>1. /\ Len(f) = Len(v) + 1 /\ Len(v) = Len(s) + 1 /\ Len(g) = Len(s) + 1 /\ Len(s) \in Nat
        /\ f[1] = t /\ v[1] = w /\ g[1] = u
        /\ \A i \in 1..Len(v) : f[i + 1] = v[i]
        /\ \A i \in 1..Len(s) : v[i + 1] = s[i]
        /\ \A i \in 1..Len(s) : g[i + 1] = s[i]
    BY DEF Merged, ConsOf
  <2>2. f[2] = w
    <3>1. 1 \in 1..Len(v) /\ 1 + 1 = 2
      BY <2>1
    <3>2. f[1 + 1] = v[1]
      BY <2>1, <3>1
    <3> QED
      BY <2>1, <3>1, <3>2
  <2>3. \A i \in 1..Len(s) : f[i + 2] = s[i]
    <3> SUFFICES ASSUME NEW i \in 1..Len(s) PROVE f[i + 2] = s[i]
      OBVIOUS
    <3>1. i + 1 \in 1..Len(v) /\ (i + 1) + 1 = i + 2
      BY <2>1
    <3>2. f[(i + 1) + 1] = v[i + 1] /\ v[i + 1] = s[i]
      BY <2>1, <3>1
    <3> QED
      BY <3>1, <3>2
  <2>4. Len(f) = Len(s) + 2
    BY <2>1
  <2> QED
    BY <2>1, <2>2, <2>3, <2>4
<1>1. /\ Kept(a, b, t.root) /\ Heaps(b, f, 1)
      /\ \A j \in 1..Len(f) : j >= 2 => b[f[j].root] = a[f[j].root]
  BY <1>0, SiftFirst
<1>2. /\ u \in Heap /\ u.root = t.root + 1 /\ Right(u) = t /\ Left(u) = w /\ t.root \in Int
      /\ w.root = lp[w.k] => u.root = lp[u.k]
  <2>1. t.root \in Int
    BY Below DEF Merged
  <2> QED
    BY <2>1, MergedParts
<1>3. Rooted(s) \/ (Len(s) = 0 /\ u.root = lp[u.k])
  <2>1. Rooted(v)
    <3>1. Len(v) > 0
      BY <1>0 DEF Merged, ConsOf
    <3> QED
      BY <3>1, Rest DEF Merged, Growing, Wood
  <2>2. CASE Len(s) > 0
    BY <2>1, <2>2, Rest DEF Merged
  <2>3. CASE Len(s) = 0
    <3>1. Len(v) = 1 /\ v[1] = w
      BY <2>3 DEF Merged, ConsOf
    <3> QED
      BY <1>2, <2>1, <2>3, <3>1 DEF Rooted
  <2> QED
    BY <1>0, <2>2, <2>3
<1>4. Len(b) = Len(a) /\ b \in Seq(Int) /\ Len(a) \in Nat
  <2>1. Len(b) = Len(a) /\ b \in Seq(Int)
    BY <1>1 DEF Kept
  <2> QED
    BY <2>1, LenProperties
<1>5. Wood(b, g)
  <2>1. u.root <= Len(b)
    BY <1>2, <1>4
  <2> QED
    BY <1>3, <1>4, <2>1, WoodAdd DEF Merged
<1>6. Heaps(b, g, 2)
  <2> SUFFICES ASSUME NEW j \in 1..Len(g), j >= 2 PROVE HeapAt(b, g[j])
    BY DEF Heaps
  <2>1. j - 1 \in 1..Len(s) /\ (j - 1) + 1 = j /\ (j - 1) + 2 \in 1..Len(f) /\ (j - 1) + 2 >= 1
    BY <1>0
  <2>2. g[(j - 1) + 1] = f[(j - 1) + 2]
    BY <1>0, <2>1
  <2>3. HeapAt(b, f[(j - 1) + 2])
    BY <1>1, <2>1 DEF Heaps
  <2> QED
    BY <2>1, <2>2, <2>3
<1>7. SonsOk(b, g[1])
  <2>1. 1 \in 1..Len(f) /\ 2 \in 1..Len(f) /\ 1 >= 1 /\ 2 >= 1
    BY <1>0
  <2>2. HeapAt(b, t) /\ HeapAt(b, w)
    BY <1>0, <1>1, <2>1 DEF Heaps
  <2> QED
    BY <1>0, <1>2, <2>2 DEF SonsOk
<1>8. ASSUME NEW i \in 1..Len(g), i >= 2, i < Len(g)
      PROVE  /\ g[i] = f[i + 1] /\ g[i + 1] = f[(i + 1) + 1]
             /\ i + 1 \in 1..Len(f) /\ i + 1 >= 2 /\ i + 1 < Len(f)
             /\ (i + 1) + 1 \in 1..Len(f) /\ (i + 1) + 1 >= 2
  <2>1. i - 1 \in 1..Len(s) /\ i \in 1..Len(s) /\ (i - 1) + 1 = i /\ (i - 1) + 2 = i + 1 /\ i + 2 = (i + 1) + 1
    BY <1>0, <1>8
  <2>2. g[(i - 1) + 1] = f[(i - 1) + 2] /\ g[i + 1] = f[i + 2]
    BY <1>0, <2>1
  <2>3. i + 1 \in 1..Len(f) /\ i + 1 >= 2 /\ i + 1 < Len(f) /\ (i + 1) + 1 \in 1..Len(f) /\ (i + 1) + 1 >= 2
    BY <1>0, <1>8
  <2> QED
    BY <2>1, <2>2, <2>3
<1>9. Spaced(g)
  <2> SUFFICES ASSUME NEW i \in 1..Len(g), i >= 2, i < Len(g) PROVE g[i + 1].k >= g[i].k + 2
    BY DEF Spaced
  <2>1. f[(i + 1) + 1].k >= f[i + 1].k + 2
    BY <1>8 DEF Growing, Spaced
  <2> QED
    BY <1>8, <2>1
<1>10. Settled(b, g)
  <2> SUFFICES ASSUME NEW i \in 1..Len(g), i >= 2, i < Len(g), FinalAt(b, g[i])
               PROVE  b[g[i + 1].root] <= b[g[i].root]
    BY DEF Settled
  <2>1. FinalAt(a, f[i + 1])
    BY <1>4, <1>8 DEF FinalAt
  <2>2. a[f[(i + 1) + 1].root] <= a[f[i + 1].root]
    BY <1>8, <2>1 DEF Growing, Settled
  <2>3. b[f[(i + 1) + 1].root] = a[f[(i + 1) + 1].root] /\ b[f[i + 1].root] = a[f[i + 1].root]
    BY <1>1, <1>8
  <2> QED
    BY <1>8, <2>2, <2>3
<1> QED
  BY <1>1, <1>5, <1>6, <1>7, <1>9, <1>10 DEF Growing

-----------------------------------------------------------------------------
(* g is f with one more heap, of one element.                               *)
Added(u, f, g) == u \in Heap /\ u.k <= 1 /\ ConsOf(Heap, u, f, g) /\ Chain(g)

(* The forest is as it should be after another heap, once the one before it *)
(* is in order:                                                             *)
LEMMA SingleGrows ==
  ASSUME NEW a, NEW u, NEW f, NEW g, Added(u, f, g), Growing(a, f), u.root <= Len(a),
         Len(f) >= 2 => f[2].k >= f[1].k + 2,
         NEW b, Kept(a, b, f[1].root), Heaps(b, f, 1),
         \A j \in 1..Len(f) : j < Len(f) /\ FinalAt(b, f[j]) => b[f[j + 1].root] <= b[f[j].root]
  PROVE  Growing(b, g)
<1>0. /\ Len(g) = Len(f) + 1 /\ Len(f) \in Nat /\ g[1] = u
      /\ \A i \in 1..Len(f) : g[i + 1] = f[i]
  BY DEF Added, ConsOf
<1>1. Len(b) = Len(a) /\ b \in Seq(Int)
  BY DEF Kept
<1>2. Wood(b, g)
  <2>1. Rooted(f)
    BY DEF Growing, Wood
  <2>2. u.root <= Len(b)
    BY <1>1
  <2> QED
    BY <1>1, <2>1, <2>2, WoodAdd DEF Added
<1>3. Heaps(b, g, 2)
  <2>1. Heaps(b, g, 1 + 1)
    BY ConsRest DEF Added
  <2>2. 1 + 1 = 2
    OBVIOUS
  <2> QED
    BY <2>1, <2>2
<1>4. SonsOk(b, g[1])
  <2>1. u.k \in Nat
    BY Below DEF Added
  <2> QED
    BY <1>0, <2>1 DEF SonsOk, Added
<1>5. ASSUME NEW i \in 1..Len(g), i >= 2, i < Len(g)
      PROVE  /\ g[i] = f[i - 1] /\ g[i + 1] = f[(i - 1) + 1]
             /\ i - 1 \in 1..Len(f) /\ i - 1 < Len(f)
  <2>1. i - 1 \in 1..Len(f) /\ i \in 1..Len(f) /\ (i - 1) + 1 = i /\ i - 1 < Len(f)
    BY <1>0, <1>5
  <2>2. g[(i - 1) + 1] = f[i - 1] /\ g[i + 1] = f[i]
    BY <1>0, <2>1
  <2> QED
    BY <2>1, <2>2
<1>6. Spaced(g)
  <2> SUFFICES ASSUME NEW i \in 1..Len(g), i >= 2, i < Len(g) PROVE g[i + 1].k >= g[i].k + 2
    BY DEF Spaced
  <2>1. CASE i - 1 >= 2
    <3>1. f[(i - 1) + 1].k >= f[i - 1].k + 2
      BY <1>5, <2>1 DEF Growing, Spaced
    <3> QED
      BY <1>5, <3>1
  <2>2. CASE i = 2
    <3>1. i - 1 = 1 /\ (i - 1) + 1 = 2 /\ Len(f) >= 2
      BY <1>0, <2>2
    <3>2. f[2].k >= f[1].k + 2
      BY <3>1
    <3> QED
      BY <1>5, <3>1, <3>2
  <2>3. i - 1 >= 2 \/ i = 2
    OBVIOUS
  <2> QED
    BY <2>1, <2>2, <2>3
<1>7. Settled(b, g)
  <2> SUFFICES ASSUME NEW i \in 1..Len(g), i >= 2, i < Len(g), FinalAt(b, g[i])
               PROVE  b[g[i + 1].root] <= b[g[i].root]
    BY DEF Settled
  <2>1. FinalAt(b, f[i - 1])
    BY <1>5
  <2>2. b[f[(i - 1) + 1].root] <= b[f[i - 1].root]
    BY <1>5, <2>1
  <2> QED
    BY <1>5, <2>2
<1> QED
  BY <1>2, <1>3, <1>4, <1>6, <1>7 DEF Growing

(* if that is not final, it has been sifted,                                *)
LEMMA SingleSift ==
  ASSUME NEW a, NEW u, NEW f, NEW g, Added(u, f, g), Growing(a, f), u.root <= Len(a),
         Len(f) >= 2 => f[2].k >= f[1].k + 2, ~FinalAt(a, f[1]), NEW b, b = sift(f[1])[a]
  PROVE  Growing(b, g) /\ Kept(a, b, f[1].root)
<1>1. /\ Kept(a, b, f[1].root) /\ Heaps(b, f, 1)
      /\ \A j \in 1..Len(f) : j >= 2 => b[f[j].root] = a[f[j].root]
  BY SiftFirst
<1>2. ASSUME NEW j \in 1..Len(f), j < Len(f), FinalAt(b, f[j]) PROVE b[f[j + 1].root] <= b[f[j].root]
  <2>1. FinalAt(a, f[j])
    BY <1>1, <1>2 DEF FinalAt, Kept
  <2>2. Len(f) \in Nat
    BY DEF Added, ConsOf
  <2>3. j # 1
    BY <2>1
  <2>4. j >= 2 /\ j + 1 \in 1..Len(f) /\ j + 1 >= 2
    BY <1>2, <2>2, <2>3
  <2>5. a[f[j + 1].root] <= a[f[j].root]
    BY <1>2, <2>1, <2>4 DEF Growing, Settled
  <2>6. b[f[j + 1].root] = a[f[j + 1].root] /\ b[f[j].root] = a[f[j].root]
    BY <1>1, <2>4
  <2> QED
    BY <2>5, <2>6
<1> QED
  BY <1>1, <1>2, SingleGrows

(* and if it is, it has been trinkled.                                      *)
LEMMA SingleTrinkle ==
  ASSUME NEW a, NEW u, NEW f, NEW g, Added(u, f, g), Growing(a, f), u.root <= Len(a),
         Len(f) >= 2 => f[2].k >= f[1].k + 2, NEW b, InOrder(a, b, f)
  PROVE  Growing(b, g)
<1>1. Len(f) \in Nat
  BY DEF Added, ConsOf
<1>2. ASSUME NEW j \in 1..Len(f), j < Len(f) PROVE b[f[j + 1].root] <= b[f[j].root]
  <2>1. j >= 1
    OBVIOUS
  <2> QED
    BY <1>2, <2>1 DEF InOrder, Ascend
<1> QED
  BY <1>2, SingleGrows DEF InOrder

-----------------------------------------------------------------------------
(* The elements after the place h are the greatest ones, in order.          *)
TailSorted(a, h) == \A i, j \in 1..Len(a) : i < j /\ j > h => a[i] <= a[j]

(* While the forest is taken apart.                                         *)
Falling(a, f) == Wood(a, f) /\ Heaps(a, f, 1) /\ Ascend(a, f, 1) /\ TailSorted(a, f[1].root)

(* The first root, the greatest of its forest, joins the elements in order. *)
LEMMA TailGrows ==
  ASSUME NEW a, NEW f, Falling(a, f)
  PROVE  TailSorted(a, f[1].root - 1)
<1>0. Len(f) \in Nat \ {0} /\ 1 \in 1..Len(f) /\ Len(a) \in Nat /\ f[1].root \in Int
  BY WoodTypes DEF Falling
<1> SUFFICES ASSUME NEW i \in 1..Len(a), NEW j \in 1..Len(a), i < j, j > f[1].root - 1 PROVE a[i] <= a[j]
  BY DEF TailSorted
<1>1. CASE j = f[1].root
  <2>1. i \in Int /\ 1 <= i /\ i <= f[1].root
    BY <1>0, <1>1
  <2>2. a[i] <= a[f[1].root]
    BY <2>1, WoodMax DEF Falling
  <2> QED
    BY <1>1, <2>2
<1>2. CASE j > f[1].root
  BY <1>2 DEF Falling, TailSorted
<1> QED
  BY <1>0, <1>1, <1>2

(* They stay in order whatever happens before them.                         *)
LEMMA TailKept ==
  ASSUME NEW a \in Seq(Int), NEW b, NEW h \in Int, TailSorted(a, h), Kept(a, b, h)
  PROVE  TailSorted(b, h)
<1>0. Len(b) = Len(a) /\ Len(a) \in Nat
  <2>1. Len(b) = Len(a)
    BY DEF Kept
  <2> QED
    BY <2>1, LenProperties
<1> SUFFICES ASSUME NEW i \in 1..Len(a), NEW j \in 1..Len(a), i < j, j > h PROVE b[i] <= b[j]
  BY <1>0 DEF TailSorted
<1>1. b[j] = a[j]
  BY DEF Kept
<1>2. CASE i > h
  <2>1. b[i] = a[i] /\ a[i] <= a[j]
    BY <1>2 DEF Kept, TailSorted
  <2> QED
    BY <1>1, <2>1
<1>3. CASE i <= h
  <2>1. PICK m \in 1..Len(a) : m <= h /\ b[i] = a[m]
    BY <1>3 DEF Kept
  <2>2. m < j
    BY <1>0, <2>1
  <2>3. a[m] <= a[j]
    BY <2>2 DEF TailSorted
  <2> QED
    BY <1>1, <2>1, <2>3
<1> QED
  BY <1>2, <1>3

(* A heap of one element leaves the forest.                                 *)
LEMMA DropFalls ==
  ASSUME NEW a, NEW t, NEW s, NEW f, ConsOf(Heap, t, s, f), Chain(s), Len(s) > 0,
         Falling(a, f), lp[t.k] = 1
  PROVE  Falling(a, s) /\ s[1].root = t.root - 1
<1>1. f[1] = t
  BY DEF ConsOf
<1>2. Wood(a, s) /\ s[1].root = t.root - lp[t.k]
  BY WoodRest DEF Falling
<1>3. Heaps(a, s, 1) /\ Ascend(a, s, 1)
  <2>1. Len(f) \in Nat
    BY WoodTypes DEF Falling
  <2>2. Heaps(a, f, 1 + 1) /\ Ascend(a, f, 1 + 1)
    <3>1. ASSUME NEW j \in 1..Len(f), j >= 1 + 1 PROVE HeapAt(a, f[j])
      BY <2>1, <3>1 DEF Falling, Heaps
    <3>2. ASSUME NEW j \in 1..Len(f), j >= 1 + 1, j < Len(f) PROVE a[f[j + 1].root] <= a[f[j].root]
      <4>1. j >= 1
        BY <2>1
      <4> QED
        BY <3>2, <4>1 DEF Falling, Ascend
    <3> QED
      BY <3>1, <3>2 DEF Heaps, Ascend
  <2> QED
    BY <2>2, ConsRest
<1>4. TailSorted(a, t.root - 1)
  BY <1>1, TailGrows
<1>5. s[1].root = t.root - 1
  BY <1>2
<1> QED
  BY <1>2, <1>3, <1>4, <1>5 DEF Falling

(* The root t has gone, and its two parts are heaps of the forest.          *)
Parted(t, s, f, g, h) ==
  /\ t \in Heap /\ t.k > 1 /\ ConsOf(Heap, t, s, f)
  /\ ConsOf(Heap, Left(t), s, g) /\ Chain(g)
  /\ ConsOf(Heap, Right(t), g, h) /\ Chain(h)

(* Where the parts of a heap are.                                           *)
LEMMA PartsSizes ==
  ASSUME NEW t \in Heap, t.k > 1
  PROVE  /\ Right(t).root = t.root - 1 /\ Left(t).root = t.root - 1 - lp[t.k - 2]
         /\ Left(t).root \in Int /\ Right(t).root \in Int /\ Left(t).root <= t.root - 1
         /\ Left(t).root - lp[Left(t).k] = t.root - lp[t.k]
<1>1. /\ t.root \in Int /\ t.k \in Nat
      /\ Right(t).root = t.root - 1
      /\ Left(t).root = t.root - 1 - lp[t.k - 2] /\ Left(t).k = t.k - 1
  BY Below
<1>2. lp[t.k] = lp[t.k - 2] + lp[t.k - 1] + 1
  BY <1>1, LpIs
<1>3. lp[t.k - 2] \in Nat /\ lp[t.k - 1] \in Nat
  <2>1. t.k - 2 \in Nat /\ t.k - 1 \in Nat
    BY <1>1
  <2> QED
    BY <2>1, LpIs
<1>4. lp[Left(t).k] = lp[t.k - 1]
  BY <1>1
<1>5. Left(t).root - lp[Left(t).k] = t.root - lp[t.k]
  BY <1>1, <1>2, <1>3, <1>4
<1>6. Left(t).root \in Int /\ Right(t).root \in Int /\ Left(t).root <= t.root - 1
  BY <1>1, <1>3
<1> QED
  BY <1>1, <1>5, <1>6

(* After the root has gone, trinkle can put its left part in order,         *)
LEMMA SplitLeft ==
  ASSUME NEW a, NEW t, NEW s, NEW f, NEW g, NEW h, Parted(t, s, f, g, h), Falling(a, f)
  PROVE  Ready(a, g, TRUE) /\ HeapAt(a, Right(t))
<1>0. /\ f[1] = t /\ g[1] = Left(t) /\ Len(f) = Len(s) + 1 /\ Len(g) = Len(s) + 1 /\ Len(s) \in Nat
      /\ t \in Heap /\ t.k > 1
      /\ \A i \in 1..Len(s) : f[i + 1] = s[i]
  BY DEF Parted, ConsOf
<1>1. HeapAt(a, Left(t)) /\ HeapAt(a, Right(t)) /\ Left(t) \in Heap
  <2>1. 1 \in 1..Len(f) /\ 1 >= 1
    BY <1>0
  <2>2. HeapAt(a, t)
    BY <1>0, <2>1 DEF Falling, Heaps
  <2>3. SonsOk(a, t)
    BY <1>0, <2>2, HeapLaw
  <2> QED
    BY <1>0, <2>3, Below DEF SonsOk
<1>2. SonsOk(a, Left(t))
  BY <1>1, HeapLaw
<1>3. Heaps(a, g, 2) /\ Ascend(a, g, 2)
  <2>1. Heaps(a, f, 1 + 1) /\ Ascend(a, f, 1 + 1)
    <3>1. ASSUME NEW j \in 1..Len(f), j >= 1 + 1 PROVE HeapAt(a, f[j])
      BY <1>0, <3>1 DEF Falling, Heaps
    <3>2. ASSUME NEW j \in 1..Len(f), j >= 1 + 1, j < Len(f) PROVE a[f[j + 1].root] <= a[f[j].root]
      <4>1. j >= 1
        BY <1>0
      <4> QED
        BY <3>2, <4>1 DEF Falling, Ascend
    <3> QED
      BY <3>1, <3>2 DEF Heaps, Ascend
  <2>2. Heaps(a, s, 1) /\ Ascend(a, s, 1)
    BY <2>1, ConsRest DEF Parted
  <2>3. Heaps(a, g, 1 + 1) /\ Ascend(a, g, 1 + 1)
    BY <2>2, ConsRest DEF Parted
  <2>4. 1 + 1 = 2
    OBVIOUS
  <2> QED
    BY <2>3, <2>4
<1>4. Wood(a, g)
  <2>1. a \in Seq(Int) /\ Rooted(f) /\ t.root <= Len(a) /\ Len(a) \in Nat /\ t.root \in Int
    <3>1. a \in Seq(Int) /\ Rooted(f) /\ t.root <= Len(a)
      BY <1>0 DEF Falling, Wood
    <3> QED
      BY <1>0, <3>1, LenProperties, Below
  <2>2. Left(t).root <= Len(a)
    BY <1>0, <2>1, PartsSizes
  <2>3. CASE Len(s) > 0
    <3>1. Rooted(s)
      BY <2>1, <2>3, Rest DEF Parted
    <3> QED
      BY <2>1, <2>2, <3>1, WoodAdd DEF Parted
  <2>4. CASE Len(s) = 0
    <3>1. t.root = lp[t.k]
      BY <1>0, <2>1, <2>4 DEF Rooted
    <3>2. Left(t).root - lp[Left(t).k] = t.root - lp[t.k] /\ Left(t).root \in Int
      BY <1>0, PartsSizes
    <3>3. lp[Left(t).k] \in Nat /\ lp[t.k] \in Nat
      BY <1>0, <1>1, Below
    <3>4. Left(t).root = lp[Left(t).k]
      BY <2>1, <3>1, <3>2, <3>3
    <3> QED
      BY <2>1, <2>2, <2>4, <3>4, WoodAdd DEF Parted
  <2> QED
    BY <1>0, <2>3, <2>4
<1> QED
  BY <1>0, <1>1, <1>2, <1>3, <1>4 DEF Ready

(* then its right part,                                                     *)
LEMMA SplitRight ==
  ASSUME NEW a, NEW t, NEW s, NEW f, NEW g, NEW h, Parted(t, s, f, g, h), Falling(a, f),
         NEW b, InOrder(a, b, g)
  PROVE  Ready(b, h, TRUE) /\ Kept(a, b, t.root - 1)
<1>0. /\ f[1] = t /\ g[1] = Left(t) /\ h[1] = Right(t) /\ t \in Heap /\ t.k > 1
      /\ Right(t) \in Heap /\ Left(t) \in Heap
  <2>1. f[1] = t /\ g[1] = Left(t) /\ h[1] = Right(t) /\ t \in Heap /\ t.k > 1
    BY DEF Parted, ConsOf
  <2> QED
    BY <2>1, Below
<1>1. /\ Kept(a, b, Left(t).root) /\ Heaps(b, g, 1) /\ Ascend(b, g, 1)
  BY <1>0 DEF InOrder
<1>2. b \in Seq(Int) /\ Len(b) = Len(a) /\ Len(a) \in Nat
  <2>1. b \in Seq(Int) /\ Len(b) = Len(a)
    BY <1>1 DEF Kept
  <2> QED
    BY <2>1, LenProperties
<1>3. Heaps(b, h, 2) /\ Ascend(b, h, 2)
  <2>1. Heaps(b, h, 1 + 1) /\ Ascend(b, h, 1 + 1)
    BY <1>1, ConsRest DEF Parted
  <2>2. 1 + 1 = 2
    OBVIOUS
  <2> QED
    BY <2>1, <2>2
<1>4. /\ t.root \in Int /\ t.root \in 1..Len(a)
      /\ \A i : InHeap(t, i) => i \in 1..Len(a)
  <2>1. 1 \in 1..Len(f) /\ Wood(a, f)
    BY WoodTypes DEF Falling
  <2> QED
    BY <1>0, <2>1, WoodFits
<1>5. HeapAt(b, Right(t))
  <2>1. HeapAt(a, Right(t))
    BY SplitLeft
  <2>2. \A i : InHeap(Right(t), i) => a[i] = b[i]
    <3> SUFFICES ASSUME NEW i, InHeap(Right(t), i) PROVE a[i] = b[i]
      OBVIOUS
    <3>1. i > Left(t).root /\ InHeap(t, i)
      BY <1>0, Divided
    <3> QED
      BY <1>1, <1>4, <3>1 DEF Kept
  <2> QED
    BY <1>0, <2>1, <2>2, HeapSame
<1>6. SonsOk(b, Right(t))
  BY <1>0, <1>5, HeapLaw
<1>7. Wood(b, h)
  <2>1. Rooted(g)
    BY SplitLeft DEF Ready, Wood
  <2>2. Right(t).root <= Len(b)
    BY <1>0, <1>2, <1>4, PartsSizes
  <2> QED
    BY <1>2, <2>1, <2>2, WoodAdd DEF Parted
<1>8. Kept(a, b, t.root - 1)
  <2>1. Left(t).root \in Int /\ Left(t).root <= t.root - 1 /\ t.root - 1 \in Int
    BY <1>0, <1>4, PartsSizes
  <2> QED
    BY <1>1, <1>2, <2>1, KeptWider
<1> QED
  BY <1>0, <1>3, <1>5, <1>6, <1>7, <1>8 DEF Ready

(* and the forest is in order again.                                        *)
LEMMA SplitFalls ==
  ASSUME NEW a, NEW t, NEW s, NEW f, NEW g, NEW h, Parted(t, s, f, g, h), Falling(a, f),
         NEW b, InOrder(a, b, g), NEW c, InOrder(b, c, h)
  PROVE  Falling(c, h) /\ Kept(a, c, t.root - 1)
<1>0. /\ f[1] = t /\ h[1] = Right(t) /\ t \in Heap /\ t.k > 1 /\ t.root \in Int /\ a \in Seq(Int)
      /\ Right(t).root = t.root - 1
  <2>1. f[1] = t /\ h[1] = Right(t) /\ t \in Heap /\ t.k > 1 /\ a \in Seq(Int)
    BY DEF Parted, ConsOf, Falling, Wood
  <2> QED
    BY <2>1, Below
<1>1. Ready(b, h, TRUE) /\ Kept(a, b, t.root - 1)
  BY SplitRight
<1>2. Kept(b, c, t.root - 1) /\ Heaps(c, h, 1) /\ Ascend(c, h, 1)
  BY <1>0 DEF InOrder
<1>3. Kept(a, c, t.root - 1)
  <2>1. t.root - 1 \in Int /\ t.root - 1 <= t.root - 1
    BY <1>0
  <2> QED
    BY <1>0, <1>1, <1>2, <2>1, KeptTwice
<1>4. TailSorted(c, t.root - 1)
  <2>1. TailSorted(a, t.root - 1) /\ t.root - 1 \in Int
    BY <1>0, TailGrows
  <2> QED
    BY <1>0, <1>3, <2>1, TailKept
<1>5. Wood(c, h)
  <2>1. Wood(b, h)
    BY <1>1 DEF Ready
  <2>2. c \in Seq(Int) /\ Len(c) = Len(b)
    BY <1>2 DEF Kept
  <2> QED
    BY <2>1, <2>2 DEF Wood
<1> QED
  BY <1>0, <1>2, <1>3, <1>4, <1>5 DEF Falling

-----------------------------------------------------------------------------
(* g is the forest of p shifted by its trailing zeros, f with its first     *)
(* heap gone.                                                               *)
Dropped(t, u, m, f) ==
  /\ u \in Heap /\ m \in Nat /\ m % 2 = 1
  /\ ConsOf(Heap, t, forest[m][u], f) /\ Chain(forest[m][u]) /\ Len(forest[m][u]) > 0

(* The numbers lb_qsort computes when a heap of one element leaves describe *)
(* the rest of the forest.                                                  *)
LEMMA DropForest ==
  ASSUME NEW n \in Nat, n % 2 = 1, n > 1, NEW t \in Heap, t.k <= 1,
         NEW u, u = [root |-> t.root - 1, k |-> t.k + pntz(n)], NEW m, m = shr[pntz(n)][n]
  PROVE  Dropped(t, u, m, forest[n][t]) /\ u.k > 0
<1> DEFINE d == n \div 2
           z == lb_ctz[d]
           w == Before(t)
<1>1. /\ d \in Nat \ {0} /\ n - 1 \in Nat /\ n - 1 > 0 /\ (n - 1) % 2 = 0 /\ (n - 1) \div 2 = d
  OBVIOUS
<1>2. t.root \in Int /\ t.k \in Nat /\ lp[t.k] = 1
  <2>1. t.root \in Int /\ t.k \in Nat
    BY Below
  <2>2. t.k = 0 \/ t.k = 1
    BY <2>1
  <2> QED
    BY <2>1, <2>2, LpIs
<1>3. w \in Heap /\ w.root = t.root - 1 /\ w.k = t.k + 1
  BY <1>2, NextHeaps
<1>4. pntz(n) = 1 + z /\ z \in Nat
  BY <1>1, CtzIs DEF pntz
<1>5. shr[z + 1][n] = shr[z][d]
  BY <1>4, ShrIs
<1>6. Stripped(d, w)
  BY <1>1, <1>3, StripForest
<1> HIDE DEF d, z, w
<1>7. ConsOf(Heap, t, forest[d][w], forest[n][t])
  BY OddForest DEF d, w
<1>8. m = shr[z][d]
  <2>1. 1 + z = z + 1
    BY <1>4
  <2> QED
    BY <1>4, <1>5, <2>1
<1>9. u = [root |-> w.root, k |-> w.k + z] /\ u.k > 0 /\ u \in Heap
  <2>1. t.k + (1 + z) = w.k + z /\ t.k + (1 + z) \in Nat /\ t.k + (1 + z) > 0 /\ t.root - 1 \in Int
    BY <1>2, <1>3, <1>4
  <2> QED
    BY <1>3, <1>4, <2>1 DEF Heap
<1>10. m \in Nat /\ m % 2 = 1 /\ forest[m][u] = forest[d][w]
  BY <1>6, <1>8, <1>9 DEF Stripped, z
<1>11. Chain(forest[m][u]) /\ Len(forest[m][u]) > 0
  <2>1. m > 0
    BY <1>10
  <2>2. Chain(forest[m][u]) /\ StartsAt(u, forest[m][u])
    BY <1>9, <1>10, <2>1, ForestChain
  <2> QED
    BY <2>2 DEF StartsAt
<1> QED
  BY <1>7, <1>9, <1>10, <1>11 DEF Dropped

(* Those it computes when a root leaves describe the forest with its two    *)
(* parts.                                                                   *)
LEMMA SplitForest ==
  ASSUME NEW n \in Nat, n % 2 = 1, NEW t \in Heap, t.k > 1, NEW m, m = (4 * n - 1) \div 2
  PROVE  /\ m \in Nat /\ m % 2 = 1 /\ 2 * m + 1 \in Nat /\ (2 * m + 1) % 2 = 1
         /\ Parted(t, forest[n \div 2][Before(t)], forest[n][t], forest[m][Left(t)],
                   forest[2 * m + 1][Right(t)])
<1>1. /\ m \in Nat /\ m % 2 = 1 /\ m \div 2 = n - 1 /\ m = 2 * n - 1
      /\ n - 1 \in Nat /\ (n - 1) % 2 = 0 /\ (n - 1) \div 2 = n \div 2
  OBVIOUS
<1>2. 2 * m + 1 \in Nat /\ (2 * m + 1) % 2 = 1 /\ (2 * m + 1) \div 2 = m
  BY <1>1
<1>3. /\ Right(t) \in Heap /\ Left(t) \in Heap /\ t.root \in Int /\ t.k \in Nat
      /\ Right(t).root = t.root - 1 /\ Right(t).k = t.k - 2
      /\ Left(t).root = t.root - 1 - lp[t.k - 2] /\ Left(t).k = t.k - 1
  BY Below
<1>4. Left(t).root - lp[Left(t).k] = t.root - lp[t.k]
  BY PartsSizes
<1>5. Up(Before(Left(t))) = Before(t)
  <2>1. Before(Left(t)) = [root |-> t.root - lp[t.k], k |-> t.k]
    <3>1. Left(t).k + 1 = t.k
      BY <1>3
    <3> QED
      BY <1>4, <3>1 DEF Before
  <2>2. Up([root |-> t.root - lp[t.k], k |-> t.k]) = Before(t)
    BY DEF Up, Before
  <2> QED
    BY <2>1, <2>2
<1>6. Before(Right(t)) = Left(t)
  <2>1. Right(t).k + 1 = t.k - 1 /\ lp[Right(t).k] = lp[t.k - 2]
    BY <1>3
  <2> QED
    BY <1>3, <2>1 DEF Before, Left
<1>7. ConsOf(Heap, t, forest[n \div 2][Before(t)], forest[n][t])
  BY OddForest
<1>8. ConsOf(Heap, Left(t), forest[n - 1][Before(Left(t))], forest[m][Left(t)])
  BY <1>1, <1>3, OddForest
<1>9. forest[n - 1][Before(Left(t))] = forest[n \div 2][Before(t)]
  <2>1. Before(Left(t)) \in Heap
    BY <1>3, NextHeaps
  <2>2. forest[n - 1][Before(Left(t))] = forest[(n - 1) \div 2][Up(Before(Left(t)))]
    BY <1>1, <2>1, EvenForest
  <2> QED
    BY <1>1, <1>5, <2>2
<1>10. ConsOf(Heap, Right(t), forest[m][Left(t)], forest[2 * m + 1][Right(t)])
  <2>1. ConsOf(Heap, Right(t), forest[(2 * m + 1) \div 2][Before(Right(t))], forest[2 * m + 1][Right(t)])
    BY <1>2, <1>3, OddForest
  <2> QED
    BY <1>2, <1>6, <2>1
<1>11. Chain(forest[m][Left(t)]) /\ Chain(forest[2 * m + 1][Right(t)])
  BY <1>1, <1>2, <1>3, ForestChain
<1> QED
  BY <1>1, <1>2, <1>7, <1>8, <1>9, <1>10, <1>11 DEF Parted

(* The first heap is of order 0 only after one of order 1.                  *)
Zeroth(f) == f[1].k = 0 => Len(f) > 1 /\ f[2].k = 1

(* A forest by its number: while it is built, and while it is taken apart.  *)
OddHeap(t, n) == t \in Heap /\ n \in Nat /\ n % 2 = 1 /\ Zeroth(forest[n][t])
GrowsAt(a, t, n) == OddHeap(t, n) /\ Growing(a, forest[n][t])
FallsAt(a, t, n) == OddHeap(t, n) /\ Falling(a, forest[n][t])

(* The first heap of an odd number.                                         *)
LEMMA FirstIs ==
  ASSUME NEW n \in Nat, n % 2 = 1, NEW t \in Heap
  PROVE  forest[n][t][1] = t /\ Len(forest[n][t]) \in Nat \ {0} /\ Chain(forest[n][t])
<1>1. ConsOf(Heap, t, forest[n \div 2][Before(t)], forest[n][t])
  BY OddForest
<1>2. Len(forest[n][t]) \in Nat \ {0}
  BY <1>1 DEF ConsOf
<1> QED
  BY <1>1, <1>2, ForestChain DEF ConsOf

(* The forest of 1 is one heap.                                             *)
LEMMA OneHeap ==
  ASSUME NEW t \in Heap
  PROVE  Len(forest[1][t]) = 1 /\ forest[1][t][1] = t
<1>1. 1 \in Nat /\ 1 % 2 = 1 /\ 1 \div 2 = 0
  OBVIOUS
<1>2. ConsOf(Heap, t, forest[0][Before(t)], forest[1][t])
  BY <1>1, OddForest
<1>3. forest[0][Before(t)] = << >>
  BY NextHeaps, ForestIs DEF ForestLaw
<1> QED
  BY <1>2, <1>3 DEF ConsOf

-----------------------------------------------------------------------------
(* Between two heaps of consecutive orders and the next there is a gap.     *)
LEMMA GapAfter ==
  ASSUME NEW a, NEW t, NEW n, GrowsAt(a, t, n), n % 4 = 3
  PROVE  (n \div 4) % 2 = 0
<1> DEFINE w == Before(t)
           x == Before(w)
           q == n \div 4
           f == forest[n][t]
           v == forest[n \div 2][w]
           s == forest[q][x]
<1>0. t \in Heap /\ n \in Nat /\ n % 2 = 1 /\ Spaced(f)
  BY DEF GrowsAt, OddHeap, Growing
<1>1. q \in Nat /\ n \div 2 \in Nat /\ (n \div 2) % 2 = 1 /\ (n \div 2) \div 2 = q
  BY <1>0
<1>2. w \in Heap /\ x \in Heap /\ x.k = w.k + 1 /\ w.k \in Nat
  BY <1>0, NextHeaps, Below
<1> SUFFICES ASSUME q % 2 # 0 PROVE FALSE
  OBVIOUS
<1>3. q % 2 = 1
  BY <1>1
<1> HIDE DEF w, x, q
<1>4. ConsOf(Heap, t, v, f)
  BY <1>0, OddForest DEF w
<1>5. ConsOf(Heap, w, s, v)
  BY <1>1, <1>2, OddForest DEF x
<1>6. s[1] = x /\ Len(s) \in Nat \ {0}
  BY <1>1, <1>2, <1>3, FirstIs
<1> HIDE DEF f, v, s
<1>7. 2 \in 1..Len(f) /\ 2 < Len(f) /\ f[2] = w /\ f[2 + 1] = x
  <2>1. Len(f) = Len(v) + 1 /\ Len(v) = Len(s) + 1 /\ v[1] = w /\ Len(s) \in Nat \ {0}
        /\ (\A i \in 1..Len(v) : f[i + 1] = v[i]) /\ (\A i \in 1..Len(s) : v[i + 1] = s[i])
    BY <1>4, <1>5, <1>6 DEF ConsOf
  <2>2. 1 \in 1..Len(v) /\ 2 \in 1..Len(v) /\ 1 \in 1..Len(s) /\ 1 + 1 = 2
    BY <2>1
  <2>3. f[1 + 1] = v[1] /\ f[2 + 1] = v[2] /\ v[1 + 1] = s[1]
    BY <2>1, <2>2
  <2>4. 2 \in 1..Len(f) /\ 2 < Len(f)
    BY <2>1
  <2> QED
    BY <1>6, <2>1, <2>2, <2>3, <2>4
<1>8. f[2 + 1].k >= f[2].k + 2
  BY <1>0, <1>7 DEF Spaced
<1> QED
  BY <1>2, <1>7, <1>8

(* A heap that is not followed by one of the next order.                    *)
LEMMA GapBefore ==
  ASSUME NEW t, NEW n, OddHeap(t, n), n % 4 # 3
  PROVE  t.k > 0 /\ (Len(forest[n][t]) >= 2 => forest[n][t][2].k >= t.k + 2)
<1> DEFINE w == Before(t)
           x == Up(w)
           f == forest[n][t]
           v == forest[n \div 2][w]
<1>0. t \in Heap /\ n \in Nat /\ n % 2 = 1 /\ Zeroth(f) /\ t.k \in Nat
  BY Below DEF OddHeap
<1>1. n \div 2 \in Nat /\ (n \div 2) % 2 = 0 /\ (n \div 2) \div 2 \in Nat
      /\ (n \div 2 = 0 \/ (n \div 2) \div 2 > 0)
  BY <1>0
<1>2. w \in Heap /\ w.k = t.k + 1 /\ x \in Heap /\ x.k = t.k + 2
  <2>1. w \in Heap /\ w.k = t.k + 1 /\ x \in Heap /\ x.k = w.k + 1
    BY <1>0, NextHeaps
  <2> QED
    BY <1>0, <2>1
<1> HIDE DEF w, x
<1>3. ConsOf(Heap, t, v, f)
  BY <1>0, OddForest DEF w
<1>4. Len(v) > 0 => StartsAt(x, v)
  <2>1. CASE n \div 2 = 0
    <3>1. v = << >>
      BY <1>2, <2>1, ForestIs DEF ForestLaw
    <3> QED
      BY <3>1
  <2>2. CASE n \div 2 # 0
    <3>1. v = forest[(n \div 2) \div 2][x]
      BY <1>1, <1>2, EvenForest DEF x
    <3> QED
      BY <1>1, <1>2, <2>2, <3>1, ForestChain
  <2> QED
    BY <2>1, <2>2
<1> HIDE DEF f, v
<1>5. /\ f[1] = t /\ Len(f) = Len(v) + 1 /\ Len(v) \in Nat
      /\ \A i \in 1..Len(v) : f[i + 1] = v[i]
  BY <1>3 DEF ConsOf
<1>6. ASSUME Len(f) >= 2 PROVE f[2].k >= t.k + 2
  <2>1. 1 \in 1..Len(v) /\ 1 + 1 = 2 /\ Len(v) > 0
    BY <1>5, <1>6
  <2>2. f[1 + 1] = v[1] /\ t.k + 2 <= v[1].k
    BY <1>2, <1>4, <1>5, <2>1 DEF StartsAt
  <2>3. f[2] \in Heap
    <3>1. f \in Seq(Heap) /\ 2 \in 1..Len(f)
      BY <1>3, <1>5, <1>6 DEF ConsOf
    <3> QED
      BY <3>1
  <2>4. f[2].k \in Nat
    BY <2>3, Below
  <2>5. f[2] = v[1]
    BY <2>1, <2>2
  <2> QED
    BY <1>0, <2>2, <2>4, <2>5
<1>7. t.k > 0
  <2> SUFFICES ASSUME t.k = 0 PROVE FALSE
    BY <1>0
  <2>1. Len(f) > 1 /\ f[2].k = 1
    BY <1>0, <1>5 DEF Zeroth
  <2>2. Len(f) >= 2
    BY <1>5, <2>1
  <2> QED
    BY <1>6, <2>1, <2>2
<1> QED
  BY <1>6, <1>7 DEF f

(* The loop of lb_qsort starts with the first element, a heap of order 1.   *)
LEMMA StartGrows ==
  ASSUME NEW a \in Seq(Int), a # << >>
  PROVE  GrowsAt(a, [root |-> 1, k |-> 1], 1)
<1> DEFINE t == [root |-> 1, k |-> 1]
           f == forest[1][t]
<1>1. t \in Heap /\ t.root = 1 /\ t.k = 1
  BY DEF Heap
<1>2. Len(f) = 1 /\ f[1] = t
  BY <1>1, OneHeap
<1>3. Chain(f) /\ 1 % 2 = 1
  BY <1>1, ForestChain
<1>4. Len(a) \in Nat /\ Len(a) >= 1
  BY LenProperties, EmptySeq
<1>5. lp[1] = 1
  BY LpIs
<1> HIDE DEF f, t
<1>6. Rooted(f)
  BY <1>1, <1>2, <1>5 DEF Rooted
<1>7. Wood(a, f)
  BY <1>1, <1>2, <1>3, <1>4, <1>6 DEF Wood
<1>8. Heaps(a, f, 2) /\ Spaced(f) /\ Settled(a, f)
  BY <1>2 DEF Heaps, Spaced, Settled
<1>9. SonsOk(a, f[1]) /\ Zeroth(f)
  BY <1>1, <1>2 DEF SonsOk, Zeroth
<1> QED
  BY <1>1, <1>3, <1>7, <1>8, <1>9 DEF GrowsAt, OddHeap, Growing, f, t

(* A step of the first loop that merges,                                    *)
LEMMA MergeStep ==
  ASSUME NEW a, NEW t, NEW n, GrowsAt(a, t, n), n % 4 = 3, t.root < Len(a),
         NEW b, b = sift(t)[a],
         NEW u, u = [root |-> t.root + 1, k |-> t.k + 2], NEW m, m = 2 * (n \div 8) + 1
  PROVE  GrowsAt(b, u, m) /\ Kept(a, b, t.root)
<1> DEFINE w == Before(t)
           v == forest[n \div 2][w]
           f == forest[n][t]
           g == forest[m][u]
<1>0. t \in Heap /\ n \in Nat /\ n % 2 = 1 /\ Growing(a, f) /\ (n \div 4) % 2 = 0
  BY GapAfter DEF GrowsAt, OddHeap
<1>1. /\ u \in Heap /\ m \in Nat /\ m % 2 = 1
      /\ \E s : ConsOf(Heap, w, s, v) /\ ConsOf(Heap, u, s, g)
  BY <1>0, MergeForest
<1>2. PICK s : ConsOf(Heap, w, s, v) /\ ConsOf(Heap, u, s, g)
  BY <1>1
<1>3. ConsOf(Heap, t, v, f) /\ Chain(g)
  BY <1>0, <1>1, OddForest, ForestChain
<1> HIDE DEF v, f, g
<1>4. Merged(t, u, w, s, v, f, g)
  BY <1>0, <1>2, <1>3 DEF Merged
<1>5. Growing(b, g) /\ Kept(a, b, t.root)
  BY <1>0, <1>4, MergeGrows
<1>6. Zeroth(g)
  <2>1. g[1] = u /\ u.k = t.k + 2 /\ t.k \in Nat
    BY <1>0, <1>2, <1>4, MergedParts, Below DEF ConsOf
  <2>2. u.k # 0
    BY <2>1
  <2> QED
    BY <2>1, <2>2 DEF Zeroth
<1> QED
  BY <1>1, <1>5, <1>6 DEF GrowsAt, OddHeap, g

(* and one that does not.                                                   *)
LEMMA SingleStep ==
  ASSUME NEW a, NEW t, NEW n, GrowsAt(a, t, n), n % 4 # 3, t.root < Len(a),
         NEW b, b = (IF lp[t.k - 1] >= Len(a) - t.root THEN trinkle(t, n, FALSE)[a] ELSE sift(t)[a]),
         NEW u, NEW m, OneMore(t, n, u, m)
  PROVE  GrowsAt(b, u, m) /\ Kept(a, b, t.root)
<1> DEFINE f == forest[n][t]
           g == forest[m][u]
<1>0. t \in Heap /\ n \in Nat /\ n % 2 = 1 /\ Growing(a, f) /\ t.root \in Int /\ t.k \in Nat
  BY Below DEF GrowsAt, OddHeap
<1>1. f[1] = t /\ Len(f) \in Nat \ {0} /\ Chain(f)
  BY <1>0, FirstIs
<1>2. t.k > 0 /\ (Len(f) >= 2 => f[2].k >= t.k + 2)
  BY GapBefore DEF GrowsAt
<1>3. u \in Heap /\ m \in Nat /\ m % 2 = 1 /\ ConsOf(Heap, u, f, g)
  BY <1>0, <1>2, SingleForest
<1>4. u.root = t.root + 1 /\ u.k = (IF t.k = 1 THEN 0 ELSE 1)
  BY DEF OneMore
<1>5. Chain(g)
  BY <1>3, ForestChain
<1>6. Added(u, f, g)
  BY <1>3, <1>4, <1>5 DEF Added
<1>7. u.root <= Len(a)
  <2>1. Len(a) \in Nat
    BY <1>0, WoodTypes DEF Growing
  <2> QED
    BY <1>0, <1>4, <2>1
<1>8. Zeroth(g)
  <2> SUFFICES ASSUME g[1].k = 0 PROVE Len(g) > 1 /\ g[2].k = 1
    BY DEF Zeroth
  <2>1. g[1] = u /\ Len(g) = Len(f) + 1 /\ \A i \in 1..Len(f) : g[i + 1] = f[i]
    BY <1>3 DEF ConsOf
  <2>2. 1 \in 1..Len(f) /\ 1 + 1 = 2
    BY <1>1
  <2>3. g[1 + 1] = f[1]
    BY <2>1, <2>2
  <2>4. t.k = 1
    BY <1>4, <2>1
  <2>5. Len(g) > 1
    BY <1>1, <2>1
  <2> QED
    BY <1>1, <2>2, <2>3, <2>4, <2>5
<1>9. CASE FinalAt(a, t)
  <2>1. b = trinkle(t, n, FALSE)[a]
    BY <1>9 DEF FinalAt
  <2>2. Ready(a, f, FALSE)
    <3>1. f[1].k >= 1 /\ FinalAt(a, f[1])
      BY <1>0, <1>1, <1>2, <1>9
    <3>2. Len(f) >= 2 => f[2].k >= f[1].k + 2
      BY <1>1, <1>2
    <3> HIDE DEF f
    <3> QED
      BY <1>0, <3>1, <3>2, FinalReady
  <2>3. InOrder(a, b, f)
    BY <1>0, <1>1, <2>1, <2>2, TrinkleIs
  <2>4. Growing(b, g)
    BY <1>0, <1>1, <1>2, <1>6, <1>7, <2>3, SingleTrinkle
  <2>5. Kept(a, b, t.root)
    BY <1>1, <2>3 DEF InOrder
  <2> QED
    BY <1>3, <1>8, <2>4, <2>5 DEF GrowsAt, OddHeap
<1>10. CASE ~FinalAt(a, t)
  <2>1. b = sift(t)[a]
    BY <1>10 DEF FinalAt
  <2>2. Growing(b, g) /\ Kept(a, b, t.root)
    BY <1>0, <1>1, <1>2, <1>6, <1>7, <1>10, <2>1, SingleSift
  <2> QED
    BY <1>3, <1>8, <2>2 DEF GrowsAt, OddHeap
<1> QED
  BY <1>9, <1>10

-----------------------------------------------------------------------------

(* The call of trinkle between the loops.                                   *)
LEMMA LastStep ==
  ASSUME NEW a, NEW t, NEW n, GrowsAt(a, t, n), t.root = Len(a), NEW b, b = trinkle(t, n, FALSE)[a]
  PROVE  FallsAt(b, t, n) /\ Kept(a, b, t.root)
<1> DEFINE f == forest[n][t]
<1>0. t \in Heap /\ n \in Nat /\ n % 2 = 1 /\ Growing(a, f) /\ t.root \in Int
  BY Below DEF GrowsAt, OddHeap
<1>1. f[1] = t /\ Len(f) \in Nat \ {0}
  BY <1>0, FirstIs
<1>2. Ready(a, f, FALSE)
  <2> HIDE DEF f
  <2> QED
    BY <1>0, <1>1, LastReady
<1>3. InOrder(a, b, f)
  BY <1>0, <1>1, <1>2, TrinkleIs
<1> HIDE DEF f
<1>4. Kept(a, b, t.root) /\ Heaps(b, f, 1) /\ Ascend(b, f, 1)
  BY <1>1, <1>3 DEF InOrder
<1>5. Wood(b, f)
  <2>1. b \in Seq(Int) /\ Len(b) = Len(a) /\ Wood(a, f)
    BY <1>0, <1>4 DEF Kept, Growing
  <2> QED
    BY <2>1 DEF Wood
<1>6. TailSorted(b, f[1].root)
  <2>1. Len(b) = t.root
    BY <1>4 DEF Kept
  <2> SUFFICES ASSUME NEW i \in 1..Len(b), NEW j \in 1..Len(b), i < j, j > f[1].root
               PROVE  b[i] <= b[j]
    BY DEF TailSorted
  <2>2. f[1].root = t.root
    BY <1>1
  <2>3. j \in 1..t.root
    BY <2>1
  <2>4. j <= t.root /\ j > t.root /\ j \in Int
    BY <1>0, <2>2, <2>3
  <2> QED
    BY <1>0, <2>4
<1> QED
  BY <1>4, <1>5, <1>6 DEF GrowsAt, FallsAt, Falling, f

(* A step of the second loop with a heap of one element,                    *)
LEMMA DropStep ==
  ASSUME NEW a, NEW t, NEW n, FallsAt(a, t, n), t.k <= 1, t.k # 1 \/ n # 1,
         NEW u, u = [root |-> t.root - 1, k |-> t.k + pntz(n)], NEW m, m = shr[pntz(n)][n]
  PROVE  FallsAt(a, u, m)
<1> DEFINE f == forest[n][t]
           g == forest[m][u]
<1>0. t \in Heap /\ n \in Nat /\ n % 2 = 1 /\ Falling(a, f) /\ Zeroth(f) /\ t.k \in Nat
  BY Below DEF FallsAt, OddHeap
<1>1. n > 1
  <2> SUFFICES ASSUME n = 1 PROVE FALSE
    BY <1>0
  <2>1. t.k = 0
    BY <1>0
  <2>2. Len(f) = 1 /\ f[1] = t
    BY <1>0, OneHeap
  <2> QED
    BY <1>0, <2>1, <2>2 DEF Zeroth
<1>2. Dropped(t, u, m, f) /\ u.k > 0
  BY <1>0, <1>1, DropForest
<1>3. lp[t.k] = 1
  <2>1. t.k = 0 \/ t.k = 1
    BY <1>0
  <2> QED
    BY <2>1, LpIs
<1>4. /\ u \in Heap /\ m \in Nat /\ m % 2 = 1
      /\ ConsOf(Heap, t, g, f) /\ Chain(g) /\ Len(g) > 0
  BY <1>2 DEF Dropped
<1>5. Falling(a, g)
  <2> HIDE DEF f, g
  <2> QED
    BY <1>0, <1>3, <1>4, DropFalls
<1>6. g[1] = u
  BY <1>4, FirstIs
<1>7. Zeroth(g)
  BY <1>2, <1>6 DEF Zeroth
<1> QED
  BY <1>4, <1>5, <1>7 DEF FallsAt, OddHeap

(* and one with a greater heap.                                             *)
LEMMA SplitStep ==
  ASSUME NEW a, NEW t, NEW n, FallsAt(a, t, n), t.k > 1, NEW m, m = (4 * n - 1) \div 2,
         NEW b, b = trinkle(Left(t), m, TRUE)[a],
         NEW c, c = trinkle(Right(t), 2 * m + 1, TRUE)[b]
  PROVE  FallsAt(c, Right(t), 2 * m + 1) /\ Kept(a, c, t.root - 1)
<1> DEFINE f == forest[n][t]
           s == forest[n \div 2][Before(t)]
           g == forest[m][Left(t)]
           h == forest[2 * m + 1][Right(t)]
<1>0. t \in Heap /\ n \in Nat /\ n % 2 = 1 /\ Falling(a, f)
  BY DEF FallsAt, OddHeap
<1>1. /\ m \in Nat /\ m % 2 = 1 /\ 2 * m + 1 \in Nat /\ (2 * m + 1) % 2 = 1
      /\ Parted(t, s, f, g, h)
  BY <1>0, SplitForest
<1>2. Right(t) \in Heap /\ Left(t) \in Heap /\ Right(t).k = t.k - 2 /\ Left(t).k = t.k - 1
      /\ t.k \in Nat
  BY <1>0, Below
<1>3. g[1] = Left(t) /\ h[1] = Right(t)
  BY <1>1, <1>2, FirstIs
<1>4. Ready(a, g, TRUE)
  <2> HIDE DEF f, s, g, h
  <2> QED
    BY <1>0, <1>1, SplitLeft
<1>5. InOrder(a, b, g)
  BY <1>1, <1>2, <1>3, <1>4, TrinkleIs
<1>6. Ready(b, h, TRUE)
  <2> HIDE DEF f, s, g, h
  <2> QED
    BY <1>0, <1>1, <1>5, SplitRight
<1> DEFINE mm == 2 * m + 1
<1>7. mm \in Nat /\ c = trinkle(Right(t), mm, TRUE)[b] /\ h = forest[mm][Right(t)]
  BY <1>1
<1>8. InOrder(b, c, h)
  <2> HIDE DEF h, mm
  <2>1. forest[mm][Right(t)][1] = Right(t) /\ Ready(b, forest[mm][Right(t)], TRUE)
    BY <1>3, <1>6, <1>7
  <2>2. InOrder(b, trinkle(Right(t), mm, TRUE)[b], forest[mm][Right(t)])
    BY <1>2, <1>7, <2>1, TrinkleIs
  <2> QED
    BY <1>7, <2>2
<1>9. ASSUME NEW b1, InOrder(a, b1, g), NEW c1, InOrder(b1, c1, h)
      PROVE  Falling(c1, h) /\ Kept(a, c1, t.root - 1)
  <2>1. Parted(t, s, f, g, h) /\ Falling(a, f)
    BY <1>0, <1>1
  <2> HIDE DEF f, s, g, h, mm
  <2> QED
    BY <1>9, <2>1, SplitFalls
<1>10. Zeroth(h)
  <2> SUFFICES ASSUME h[1].k = 0 PROVE Len(h) > 1 /\ h[2].k = 1
    BY DEF Zeroth
  <2>1. t.k = 2
    BY <1>2, <1>3
  <2>2. ConsOf(Heap, Right(t), g, h) /\ Len(g) \in Nat \ {0}
    BY <1>1, <1>2, FirstIs DEF Parted
  <2> HIDE DEF f, s, g, h
  <2>3. Len(h) = Len(g) + 1 /\ \A i \in 1..Len(g) : h[i + 1] = g[i]
    BY <2>2 DEF ConsOf
  <2>4. 1 \in 1..Len(g) /\ 1 + 1 = 2 /\ Len(h) > 1
    BY <2>2, <2>3
  <2>5. h[1 + 1] = g[1]
    BY <2>3, <2>4
  <2> QED
    BY <1>2, <1>3, <2>1, <2>4, <2>5
<1>11. Falling(c, h) /\ Kept(a, c, t.root - 1)
  <2> HIDE DEF f, s, g, h, mm
  <2> QED
    BY <1>5, <1>8, <1>9
<1> QED
  BY <1>1, <1>2, <1>10, <1>11 DEF FallsAt, OddHeap

(* When one heap of one element is left the array is sorted.                *)
LEMMA ReturnStep ==
  ASSUME NEW a, NEW t, FallsAt(a, t, 1), t.k = 1
  PROVE  TailSorted(a, 1)
<1>1. Falling(a, forest[1][t]) /\ t \in Heap
  BY DEF FallsAt, OddHeap
<1>2. Len(forest[1][t]) = 1 /\ forest[1][t][1] = t
  BY <1>1, OneHeap
<1>3. t.root = 1
  <2>1. t.root = lp[t.k]
    BY <1>1, <1>2 DEF Falling, Wood, Rooted
  <2>2. lp[1] = 1
    BY LpIs
  <2> QED
    BY <2>1, <2>2
<1> QED
  BY <1>1, <1>2, <1>3 DEF Falling

-----------------------------------------------------------------------------

(* The inductive invariant: the forest grows, then falls, and then the      *)
(* array is sorted.                                                         *)
SameElements == \A x \in {input[i] : i \in DOMAIN input} : Count(base, x) = Count(input, x)

SortInv ==
  /\ spc \in {"call", "build", "shrink", "done"}
  /\ base \in Seq(Int) /\ SameElements
  /\ spc = "call" => base = << >> /\ head = 1 /\ bits = 1 /\ pshift = 1
  /\ spc = "build" => GrowsAt(base, HeadHeap, bits)
  /\ spc = "shrink" => FallsAt(base, HeadHeap, bits)
  /\ spc = "done" => TailSorted(base, 1)

(* It holds at the start,                                                   *)
LEMMA SortStarts == ASSUME SortInit PROVE SortInv
<1>1. spc = "call" /\ base = << >> /\ input = << >> /\ head = 1 /\ bits = 1 /\ pshift = 1
  BY DEF SortInit
<1>2. base \in Seq(Int)
  BY <1>1, EmptySeq
<1>3. SameElements
  BY <1>1 DEF SameElements
<1> QED
  BY <1>1, <1>2, <1>3 DEF SortInv

(* A step that keeps the elements of the array keeps those of the input.    *)
LEMMA ElementsStay ==
  ASSUME SameElements, input' = input, NEW m, Kept(base, base', m)
  PROVE  SameElements' /\ base' \in Seq(Int)
<1>1. \A x : Count(base', x) = Count(base, x)
  BY DEF Kept
<1>2. SameElements'
  BY <1>1 DEF SameElements
<1> QED
  BY <1>2 DEF Kept

(* and every step keeps it.                                                 *)
LEMMA CallSorts == ASSUME SortInv, SortCall PROVE SortInv'
<1>1. /\ spc = "call" /\ base' \in Seq(Int) /\ input' = base' /\ head' = 1 /\ bits' = 1 /\ pshift' = 1
      /\ spc' = IF base' = << >> THEN "done" ELSE "build"
  BY InputsAssumption DEF SortCall, SortInv
<1>2. SameElements'
  BY <1>1 DEF SameElements
<1>3. CASE base' = << >>
  <2>1. TailSorted(base', 1)
    BY <1>3 DEF TailSorted
  <2>2. spc' = "done"
    BY <1>1, <1>3
  <2> QED
    BY <1>1, <1>2, <2>1, <2>2 DEF SortInv
<1>4. CASE base' # << >>
  <2>1. GrowsAt(base', [root |-> 1, k |-> 1], 1)
    BY <1>1, <1>4, StartGrows
  <2>2. spc' = "build"
    BY <1>1, <1>4
  <2>3. HeadHeap' = [root |-> 1, k |-> 1]
    BY <1>1 DEF HeadHeap
  <2>4. GrowsAt(base', HeadHeap', bits')
    BY <1>1, <2>1, <2>3
  <2> QED
    BY <1>1, <1>2, <2>2, <2>4 DEF SortInv
<1> QED
  BY <1>3, <1>4

(* The last two heaps are merged.                                           *)
LEMMA MergeSorts == ASSUME SortInv, Merge PROVE SortInv'
<1>1. /\ spc = "build" /\ spc' = "build" /\ input' = input /\ bits % 4 = 3
      /\ base' = sift(HeadHeap)[base] /\ bits' = 2 * (bits \div 8) + 1
      /\ head < Len(base) /\ head' = head + 1 /\ pshift' = pshift + 2
  BY DEF Merge, high
<1>2. GrowsAt(base, HeadHeap, bits) /\ SameElements
  BY <1>1 DEF SortInv
<1>3. HeadHeap.root = head /\ HeadHeap.k = pshift /\ HeadHeap' = [root |-> head + 1, k |-> pshift + 2]
  BY <1>1 DEF HeadHeap
<1>4. GrowsAt(base', HeadHeap', bits') /\ Kept(base, base', head)
  BY <1>1, <1>2, <1>3, MergeStep
<1>5. SameElements' /\ base' \in Seq(Int)
  BY <1>1, <1>2, <1>4, ElementsStay
<1> QED
  BY <1>1, <1>4, <1>5 DEF SortInv

(* A heap of one element begins.                                            *)
LEMMA SingleSorts == ASSUME SortInv, Single PROVE SortInv'
<1>1. /\ spc = "build" /\ spc' = "build" /\ input' = input /\ bits % 4 # 3
      /\ base' = IF lp[pshift - 1] >= Len(base) - head THEN trinkle(HeadHeap, bits, FALSE)[base]
                                                       ELSE sift(HeadHeap)[base]
      /\ bits' = shl[IF pshift = 1 THEN 1 ELSE pshift - 1][bits] + 1
      /\ head < Len(base) /\ head' = head + 1 /\ pshift' = IF pshift = 1 THEN 0 ELSE 1
  BY DEF Single, Final, high
<1>2. GrowsAt(base, HeadHeap, bits) /\ SameElements
  BY <1>1 DEF SortInv
<1>3. HeadHeap.root = head /\ HeadHeap.k = pshift
  BY DEF HeadHeap
<1>4. OneMore(HeadHeap, bits, HeadHeap', bits')
  <2>1. HeadHeap' = [root |-> head', k |-> pshift']
    BY DEF HeadHeap
  <2> QED
    BY <1>1, <1>3, <2>1 DEF OneMore
<1>5. GrowsAt(base', HeadHeap', bits') /\ Kept(base, base', head)
  BY <1>1, <1>2, <1>3, <1>4, SingleStep
<1>6. SameElements' /\ base' \in Seq(Int)
  BY <1>1, <1>2, <1>5, ElementsStay
<1> QED
  BY <1>1, <1>5, <1>6 DEF SortInv

(* The forest is complete.                                                  *)
LEMMA LastSorts == ASSUME SortInv, LastHeap PROVE SortInv'
<1>1. /\ spc = "build" /\ spc' = "shrink" /\ input' = input /\ head = Len(base)
      /\ base' = trinkle(HeadHeap, bits, FALSE)[base] /\ bits' = bits /\ HeadHeap' = HeadHeap
  BY DEF LastHeap, high, HeadHeap
<1>2. GrowsAt(base, HeadHeap, bits) /\ SameElements
  BY <1>1 DEF SortInv
<1>3. HeadHeap.root = head
  BY DEF HeadHeap
<1>4. FallsAt(base', HeadHeap, bits) /\ Kept(base, base', head)
  BY <1>1, <1>2, <1>3, LastStep
<1>5. SameElements' /\ base' \in Seq(Int)
  BY <1>1, <1>2, <1>4, ElementsStay
<1>6. FallsAt(base', HeadHeap', bits')
  BY <1>1, <1>4
<1> QED
  BY <1>1, <1>5, <1>6 DEF SortInv

(* A heap of one element leaves.                                            *)
LEMMA DropSorts == ASSUME SortInv, ShrinkSingle PROVE SortInv'
<1>1. /\ spc = "shrink" /\ spc' = "shrink" /\ input' = input /\ base' = base
      /\ pshift <= 1 /\ (pshift # 1 \/ bits # 1)
      /\ bits' = shr[pntz(bits)][bits] /\ pshift' = pshift + pntz(bits) /\ head' = head - 1
  BY DEF ShrinkSingle, Drop
<1>2. FallsAt(base, HeadHeap, bits) /\ SameElements /\ base \in Seq(Int)
  BY <1>1 DEF SortInv
<1>3. HeadHeap.root = head /\ HeadHeap.k = pshift
      /\ HeadHeap' = [root |-> head - 1, k |-> pshift + pntz(bits)]
  BY <1>1 DEF HeadHeap
<1>4. FallsAt(base, HeadHeap', bits')
  BY <1>1, <1>2, <1>3, DropStep
<1>5. SameElements' /\ FallsAt(base', HeadHeap', bits')
  BY <1>1, <1>2, <1>4 DEF SameElements
<1> QED
  BY <1>1, <1>2, <1>5 DEF SortInv

(* A heap is split.                                                         *)
LEMMA SplitSorts == ASSUME SortInv, ShrinkSplit PROVE SortInv'
<1> DEFINE n == (4 * bits - 1) \div 2
           left == trinkle(Left(HeadHeap), n, TRUE)[base]
<1>1. /\ spc = "shrink" /\ spc' = "shrink" /\ input' = input /\ pshift > 1
      /\ base' = trinkle(Right(HeadHeap), 2 * n + 1, TRUE)[left]
      /\ bits' = 2 * n + 1 /\ pshift' = pshift - 2 /\ head' = head - 1
  BY DEF ShrinkSplit
<1>2. FallsAt(base, HeadHeap, bits) /\ SameElements
  BY <1>1 DEF SortInv
<1>3. HeadHeap.root = head /\ HeadHeap.k = pshift /\ HeadHeap' = Right(HeadHeap)
  <2>1. HeadHeap' = [root |-> head - 1, k |-> pshift - 2] /\ HeadHeap.root = head /\ HeadHeap.k = pshift
    BY <1>1 DEF HeadHeap
  <2> QED
    BY <2>1 DEF Right
<1>4. n = (4 * bits - 1) \div 2 /\ left = trinkle(Left(HeadHeap), n, TRUE)[base]
  OBVIOUS
<1> HIDE DEF n, left
<1>5. FallsAt(base', Right(HeadHeap), 2 * n + 1) /\ Kept(base, base', HeadHeap.root - 1)
  BY <1>1, <1>2, <1>3, <1>4, SplitStep
<1>6. SameElements' /\ base' \in Seq(Int)
  BY <1>1, <1>2, <1>5, ElementsStay
<1>7. FallsAt(base', HeadHeap', bits')
  BY <1>1, <1>3, <1>5
<1> QED
  BY <1>1, <1>6, <1>7 DEF SortInv

(* The call returns.                                                        *)
LEMMA ReturnSorts == ASSUME SortInv, SortReturn PROVE SortInv'
<1>1. /\ spc = "shrink" /\ spc' = "done" /\ pshift = 1 /\ bits = 1 /\ base' = base /\ input' = input
  BY DEF SortReturn
<1>2. FallsAt(base, HeadHeap, 1) /\ SameElements /\ base \in Seq(Int)
  BY <1>1 DEF SortInv
<1>3. TailSorted(base, 1)
  <2>1. HeadHeap.k = 1
    BY <1>1 DEF HeadHeap
  <2> QED
    BY <1>2, <2>1, ReturnStep
<1>4. SameElements' /\ TailSorted(base', 1) /\ base' \in Seq(Int)
  BY <1>1, <1>2, <1>3 DEF SameElements
<1> QED
  BY <1>1, <1>4 DEF SortInv

(* Nothing happens.                                                         *)
LEMMA SortStutters == ASSUME SortInv, UNCHANGED sortVars PROVE SortInv'
<1>1. /\ spc' = spc /\ base' = base /\ head' = head /\ bits' = bits /\ pshift' = pshift /\ input' = input
      /\ HeadHeap' = HeadHeap
  BY DEF sortVars, HeadHeap
<1>2. SameElements'
  BY <1>1 DEF SortInv, SameElements
<1> QED
  BY <1>1, <1>2 DEF SortInv

(* So it is inductive.                                                      *)
LEMMA SortInvStep == ASSUME SortInv, [SortNext]_sortVars PROVE SortInv'
<1>1. CASE SortCall
  BY <1>1, CallSorts
<1>2. CASE Merge
  BY <1>2, MergeSorts
<1>3. CASE Single
  BY <1>3, SingleSorts
<1>4. CASE LastHeap
  BY <1>4, LastSorts
<1>5. CASE ShrinkSingle
  BY <1>5, DropSorts
<1>6. CASE ShrinkSplit
  BY <1>6, SplitSorts
<1>7. CASE SortReturn
  BY <1>7, ReturnSorts
<1>8. CASE UNCHANGED sortVars
  BY <1>8, SortStutters
<1> QED
  BY <1>1, <1>2, <1>3, <1>4, <1>5, <1>6, <1>7, <1>8 DEF SortNext

(* It implies the property of the forest,                                   *)
LEMMA ForestHolds == ASSUME SortInv PROVE HeapForest
<1> SUFFICES ASSUME spc \in {"build", "shrink"} PROVE HeapForest
  BY DEF HeapForest
<1> DEFINE f == forest[bits][HeadHeap]
<1>1. HeadHeap \in Heap /\ bits \in Nat /\ bits % 2 = 1 /\ Zeroth(f) /\ Wood(base, f) /\ HeadHeap.k = pshift
  <2>1. OddHeap(HeadHeap, bits) /\ Wood(base, f)
    BY DEF SortInv, GrowsAt, FallsAt, Growing, Falling
  <2>2. HeadHeap.k = pshift
    BY DEF HeadHeap
  <2> QED
    BY <2>1, <2>2 DEF OddHeap
<1>2. Len(f) \in Nat \ {0} /\ f \in Seq(Heap)
  BY <1>1, WoodTypes DEF Wood, Chain
<1>3. DOMAIN f = 1..Len(f)
  BY <1>2, LenProperties
<1>4. f[Len(f)].root = lp[f[Len(f)].k]
  BY <1>1 DEF Wood, Rooted
<1>5. ASSUME NEW i \in DOMAIN f, i > 1 \/ spc = "shrink" PROVE HeapAt(base, f[i])
  <2>1. CASE spc = "build"
    <3>1. Heaps(base, f, 2)
      BY <2>1 DEF SortInv, GrowsAt, Growing
    <3>2. i \in 1..Len(f) /\ i >= 2
      BY <1>2, <1>3, <1>5, <2>1
    <3> QED
      BY <3>1, <3>2 DEF Heaps
  <2>2. CASE spc = "shrink"
    <3>1. Heaps(base, f, 1)
      BY <2>2 DEF SortInv, FallsAt, Falling
    <3>2. i \in 1..Len(f) /\ i >= 1
      BY <1>2, <1>3
    <3> QED
      BY <3>1, <3>2 DEF Heaps
  <2> QED
    BY <2>1, <2>2
<1>6. bits = 1 => pshift > 0
  <2> SUFFICES ASSUME bits = 1 PROVE pshift > 0
    OBVIOUS
  <2>1. Len(f) = 1 /\ f[1] = HeadHeap
    BY <1>1, OneHeap
  <2>2. pshift # 0
    BY <1>1, <2>1 DEF Zeroth
  <2>3. pshift \in Nat
    BY <1>1, Below
  <2> QED
    BY <2>2, <2>3
<1> QED
  BY <1>4, <1>5, <1>6 DEF HeapForest

(* and that of the array.                                                   *)
LEMMA TailHolds == ASSUME SortInv PROVE SortedTail
<1> DEFINE f == forest[bits][HeadHeap]
<1>0. DOMAIN base = 1..Len(base) /\ Len(base) \in Nat
  BY LenProperties DEF SortInv
<1>1. \A x \in {input[i] : i \in DOMAIN input} : Count(base, x) = Count(input, x)
  BY DEF SortInv, SameElements
<1>2. ASSUME spc = "shrink" PROVE /\ \A i \in 2..Len(f) : base[f[i].root] <= base[f[i - 1].root]
                                  /\ TailSorted(base, head)
  <2>1. Ascend(base, f, 1) /\ Wood(base, f) /\ TailSorted(base, f[1].root)
    BY <1>2 DEF SortInv, FallsAt, Falling
  <2>2. Len(f) \in Nat \ {0}
    BY <2>1, WoodTypes
  <2>3. f[1] = HeadHeap
    BY <1>2, FirstIs DEF SortInv, FallsAt, OddHeap
  <2>4. f[1].root = head
    BY <2>3 DEF HeadHeap
  <2> HIDE DEF f
  <2>5. ASSUME NEW i \in 2..Len(f) PROVE base[f[i].root] <= base[f[i - 1].root]
    <3>1. i - 1 \in 1..Len(f) /\ i - 1 >= 1 /\ i - 1 < Len(f) /\ (i - 1) + 1 = i
      BY <2>2
    <3>2. base[f[(i - 1) + 1].root] <= base[f[i - 1].root]
      BY <2>1, <3>1 DEF Ascend
    <3> QED
      BY <3>1, <3>2
  <2> QED
    BY <2>1, <2>4, <2>5
<1>3. ASSUME spc \in {"shrink", "done"}, NEW i \in DOMAIN base, NEW j \in DOMAIN base,
             i < j, j > head \/ spc = "done"
      PROVE  base[i] <= base[j]
  <2>1. CASE spc = "done"
    <3>1. TailSorted(base, 1)
      BY <2>1 DEF SortInv
    <3>2. j > 1 /\ i \in 1..Len(base) /\ j \in 1..Len(base)
      BY <1>0, <1>3
    <3> QED
      BY <1>3, <3>1, <3>2 DEF TailSorted
  <2>2. CASE spc = "shrink"
    <3>1. TailSorted(base, head)
      BY <1>2, <2>2
    <3>2. j > head
      BY <1>3, <2>2
    <3> QED
      BY <1>0, <1>3, <3>1, <3>2 DEF TailSorted
  <2> QED
    BY <1>3, <2>1, <2>2
<1> QED
  BY <1>1, <1>2, <1>3 DEF SortedTail

(* The array and p describe a forest of Leonardo heaps at every step, for   *)
(* arrays of any length: lb_qsort (llvmboxlib.c) never counts the zeros of  *)
(* a zero, and never reads outside of the array.                            *)
THEOREM HeapForestAlways == SortSpec => []HeapForest
<1>1. SortInit => SortInv
  BY SortStarts
<1>2. SortInv /\ [SortNext]_sortVars => SortInv'
  BY SortInvStep
<1>3. SortInv => HeapForest
  BY ForestHolds
<1> QED
  BY <1>1, <1>2, <1>3, PTL DEF SortSpec

(* lb_qsort sorts: the result of a call is a sorted permutation of its      *)
(* input, for arrays of any length.                                         *)
THEOREM SortedTailAlways == SortSpec => []SortedTail
<1>1. SortInit => SortInv
  BY SortStarts
<1>2. SortInv /\ [SortNext]_sortVars => SortInv'
  BY SortInvStep
<1>3. SortInv => SortedTail
  BY TailHolds
<1> QED
  BY <1>1, <1>2, <1>3, PTL DEF SortSpec
=============================================================================
