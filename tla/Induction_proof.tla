--------------------------- MODULE Induction_proof ---------------------------
(***************************************************************************)
(* Induction without operator parameters, for the proofs of the recursive   *)
(* functions and the folds of the specifications: a set of numbers has a    *)
(* least one, a recursive definition whose arguments become smaller is      *)
(* satisfied by a function, and FoldLeft takes a sequence step by step.     *)
(***************************************************************************)
EXTENDS Integers, Sequences, FiniteSets, FiniteSetTheorems, WellFoundedInduction,
        SequenceTheorems, TLAPS

(* Proofs by induction take the least of the numbers that are exceptions.   *)
LEMMA NatMin ==
  ASSUME NEW T \in SUBSET Nat, T # {}
  PROVE  \E n \in T : \A m \in T : n <= m
<1> DEFINE R == {ss \in Nat \X Nat : ss[1] < ss[2]}
<1>1. IsWellFoundedOn(R, Nat)
  BY NatLessThanWellFounded DEF OpToRel
<1>2. PICK n \in T : \A m \in T : <<m, n>> \notin R
  BY <1>1, WFMin
<1>3. ASSUME NEW m \in T PROVE n <= m
  <2>1. <<m, n>> \in Nat \X Nat /\ <<m, n>>[1] = m /\ <<m, n>>[2] = n
    BY <1>2
  <2>2. ~(m < n)
    BY <1>2, <2>1
  <2> QED
    BY <2>2, <1>2
<1> QED
  BY <1>2, <1>3

(* Induction, with the set of numbers that have the property.               *)
LEMMA NatInd ==
  ASSUME NEW S, 0 \in S, \A n \in Nat : n \in S => n + 1 \in S
  PROVE  \A n \in Nat : n \in S
<1> SUFFICES ASSUME NEW k \in Nat, k \notin S PROVE FALSE
  OBVIOUS
<1>1. Nat \ S \in SUBSET Nat /\ Nat \ S # {}
  OBVIOUS
<1>2. PICK n \in Nat \ S : \A m \in Nat \ S : n <= m
  BY <1>1, NatMin
<1>3. n # 0 /\ n - 1 \in Nat
  BY <1>2
<1>4. n - 1 \in S
  BY <1>2, <1>3
<1> QED
  BY <1>2, <1>3, <1>4

(* Induction in which the hypothesis is all smaller numbers.                *)
LEMMA StrongInd ==
  ASSUME NEW S, \A n \in Nat : (\A m \in Nat : m < n => m \in S) => n \in S
  PROVE  \A n \in Nat : n \in S
<1> SUFFICES ASSUME NEW k \in Nat, k \notin S PROVE FALSE
  OBVIOUS
<1>1. Nat \ S \in SUBSET Nat /\ Nat \ S # {}
  OBVIOUS
<1>2. PICK n \in Nat \ S : \A m \in Nat \ S : n <= m
  BY <1>1, NatMin
<1> QED
  BY <1>2

(* A recursive definition of a function on D: G makes its value at x of x   *)
(* and of the function.  It only looks at what has a smaller size than x.   *)
Shrinks(G, D, Z, size) ==
  \A x \in D : \A g, h \in [D -> Z] :
    (\A y \in D : size[y] < size[x] => g[y] = h[y]) => G[<<x, g>>] = G[<<x, h>>]

(* A function that satisfies the definition.                                *)
Solves(f, G, D) == \A x \in D : f[x] = G[<<x, f>>]

(* Some function satisfies the definition: after n rounds one is what it    *)
(* should be wherever the size is below n, and all these agree there.       *)
LEMMA Recursion ==
  ASSUME NEW D, NEW Z, Z # {}, NEW size \in [D -> Nat],
         NEW G \in [D \X [D -> Z] -> Z], Shrinks(G, D, Z, size)
  PROVE  \E f \in [D -> Z] : Solves(f, G, D)
<1> USE DEF Shrinks, Solves
<1> PICK z \in Z : TRUE
  OBVIOUS
<1> DEFINE Ok(n, g) == \A x \in D : size[x] < n => g[x] = G[<<x, g>>]
           Done == {n \in Nat : \E g \in [D -> Z] : Ok(n, g)}
<1>1. 0 \in Done
  <2>1. [x \in D |-> z] \in [D -> Z] /\ Ok(0, [x \in D |-> z])
    OBVIOUS
  <2> QED
    BY <2>1
<1>2. ASSUME NEW n \in Nat, n \in Done PROVE n + 1 \in Done
  <2>1. PICK g \in [D -> Z] : Ok(n, g)
    BY <1>2
  <2> DEFINE f == [x \in D |-> G[<<x, g>>]]
  <2>2. f \in [D -> Z]
    OBVIOUS
  <2>3. \A y \in D : size[y] < n => f[y] = g[y]
    BY <2>1
  <2>4. ASSUME NEW x \in D, size[x] < n + 1 PROVE f[x] = G[<<x, f>>]
    <3>1. \A y \in D : size[y] < size[x] => g[y] = f[y]
      <4> SUFFICES ASSUME NEW y \in D, size[y] < size[x] PROVE g[y] = f[y]
        OBVIOUS
      <4>1. size[y] \in Nat /\ size[x] \in Nat
        OBVIOUS
      <4>2. size[y] < n
        BY <2>4, <4>1
      <4> QED
        BY <2>3, <4>2
    <3>2. f[x] = G[<<x, g>>]
      OBVIOUS
    <3> HIDE DEF f
    <3>3. G[<<x, g>>] = G[<<x, f>>]
      BY <2>2, <3>1
    <3> QED
      BY <3>2, <3>3
  <2>5. Ok(n + 1, f)
    BY <2>4
  <2> HIDE DEF Ok, f
  <2> QED
    BY <2>2, <2>5
<1>3. \A n \in Nat : n \in Done
  <2> HIDE DEF Done
  <2> QED
    BY <1>1, <1>2, NatInd
<1>4. ASSUME NEW m \in Nat, NEW n \in Nat, NEW g \in [D -> Z], NEW h \in [D -> Z],
             Ok(m, g), Ok(n, h)
      PROVE  \A x \in D : size[x] < m /\ size[x] < n => g[x] = h[x]
  <2> DEFINE Same == {k \in Nat : \A x \in D : size[x] = k /\ k < m /\ k < n => g[x] = h[x]}
  <2>1. ASSUME NEW k \in Nat, \A j \in Nat : j < k => j \in Same PROVE k \in Same
    <3> SUFFICES ASSUME NEW x \in D, size[x] = k, k < m, k < n PROVE g[x] = h[x]
      OBVIOUS
    <3>1. \A y \in D : size[y] < size[x] => g[y] = h[y]
      <4> SUFFICES ASSUME NEW y \in D, size[y] < size[x] PROVE g[y] = h[y]
        OBVIOUS
      <4>1. size[y] \in Nat /\ size[y] < k /\ size[y] < m /\ size[y] < n
        OBVIOUS
      <4> QED
        BY <2>1, <4>1
    <3>2. G[<<x, g>>] = G[<<x, h>>]
      BY <3>1
    <3> QED
      BY <1>4, <3>2
  <2>2. \A k \in Nat : k \in Same
    <3> HIDE DEF Same
    <3> QED
      BY <2>1, StrongInd
  <2> QED
    BY <2>2
<1> DEFINE h == [n \in Nat |-> CHOOSE g : g \in [D -> Z] /\ Ok(n, g)]
<1>5. ASSUME NEW n \in Nat PROVE h[n] \in [D -> Z] /\ Ok(n, h[n])
  <2>1. \E g : g \in [D -> Z] /\ Ok(n, g)
    BY <1>3
  <2>2. h[n] = CHOOSE g : g \in [D -> Z] /\ Ok(n, g)
    OBVIOUS
  <2> HIDE DEF Ok, h
  <2> QED
    BY <2>1, <2>2
<1> HIDE DEF h
<1> DEFINE f == [x \in D |-> h[size[x] + 1][x]]
<1>6. f \in [D -> Z]
  BY <1>5
<1>7. ASSUME NEW x \in D PROVE f[x] = G[<<x, f>>]
  <2> DEFINE n == size[x] + 1
  <2>0. n \in Nat /\ size[x] < n
    OBVIOUS
  <2>1. n \in Nat /\ size[x] < n /\ h[n] \in [D -> Z] /\ Ok(n, h[n])
    <3> HIDE DEF n
    <3> QED
      BY <1>5, <2>0
  <2>2. ASSUME NEW y \in D, size[y] < size[x] PROVE h[n][y] = f[y]
    <3> DEFINE m == size[y] + 1
    <3>0. m \in Nat /\ size[y] < m /\ size[y] < n
      BY <2>2
    <3> HIDE DEF m, n, Ok
    <3>1. m \in Nat /\ h[m] \in [D -> Z] /\ Ok(m, h[m]) /\ size[y] < m /\ size[y] < n
      BY <1>5, <3>0
    <3>2. h[m][y] = h[n][y]
      BY <1>4, <2>1, <3>1
    <3> QED
      BY <3>2 DEF m
  <2>3. f[x] = h[n][x] /\ h[n][x] = G[<<x, h[n]>>]
    BY <2>1
  <2> HIDE DEF f, n
  <2>4. G[<<x, h[n]>>] = G[<<x, f>>]
    BY <1>6, <2>1, <2>2
  <2> QED
    BY <2>3, <2>4
<1> QED
  BY <1>6, <1>7

-----------------------------------------------------------------------------

(* The greatest of a set of numbers.                                        *)
Greatest(t) == CHOOSE x \in t : \A y \in t : x >= y

(* The greatest of 1..k is k, and what is left without it.                  *)
LEMMA Upto ==
  ASSUME NEW k \in Nat \ {0}
  PROVE  Greatest(1..k) = k /\ (1..k) \ {k} = 1..(k - 1) /\ 1..k # {}
<1>1. \E x \in 1..k : \A y \in 1..k : x >= y
  <2>1. k \in 1..k /\ \A y \in 1..k : k >= y
    OBVIOUS
  <2> QED
    BY <2>1
<1>2. Greatest(1..k) \in 1..k /\ \A y \in 1..k : Greatest(1..k) >= y
  BY <1>1 DEF Greatest
<1>3. k \in 1..k
  OBVIOUS
<1> HIDE DEF Greatest
<1>4. Greatest(1..k) = k
  BY <1>2, <1>3
<1>5. (1..k) \ {k} = 1..(k - 1)
  OBVIOUS
<1> QED
  BY <1>3, <1>4, <1>5

(* A set of indices that is not empty has a greatest one.                   *)
LEMMA GreatestOf ==
  ASSUME NEW n \in Nat, NEW t \in SUBSET (1..n), t # {}
  PROVE  Greatest(t) \in t /\ \A y \in t : Greatest(t) >= y
<1> DEFINE T == {m \in Nat : m <= n /\ n - m \in t}
<1>1. T \in SUBSET Nat /\ T # {}
  <2>1. PICK x \in t : TRUE
    OBVIOUS
  <2>2. n - x \in Nat /\ n - x <= n /\ n - (n - x) = x
    BY <2>1
  <2>3. n - x \in T
    BY <2>1, <2>2
  <2> QED
    BY <2>3
<1>2. PICK m \in T : \A k \in T : m <= k
  BY <1>1, NatMin
<1>3. ASSUME NEW y \in t PROVE n - m >= y
  <2>1. n - y \in Nat /\ n - y <= n /\ n - (n - y) = y
    BY <1>3
  <2>2. n - y \in T
    BY <2>1, <1>3
  <2>3. m <= n - y /\ m \in Nat
    BY <1>2, <2>2
  <2> QED
    BY <2>1, <2>3
<1>4. n - m \in t
  BY <1>2
<1>5. \E x \in t : \A y \in t : x >= y
  BY <1>3, <1>4
<1> QED
  BY <1>5 DEF Greatest

(* What an operation makes of the elements of a sequence, one by one.       *)
Along(Op, base, s) ==
  LET g[k \in 0..Len(s)] == IF k = 0 THEN base ELSE Op[<<g[k - 1], s[k]>>]
  IN g[Len(s)]

(* g is the value of the fold of the sequence s by Op from base, and        *)
(* Stepwise is what makes it so.                                            *)
Follows(g, Op, base, s) ==
  g[0] = base /\ \A k \in 1..Len(s) : g[k] = Op[<<g[k - 1], s[k]>>]

Stepwise(Z, Op, base, s) ==
  \E g \in [0..Len(s) -> Z] : Follows(g, Op, base, s) /\ Along(Op, base, s) = g[Len(s)]

(* Along follows the sequence.                                              *)
LEMMA AlongFollows ==
  ASSUME NEW Z, NEW E, NEW Op \in [Z \X E -> Z], NEW base \in Z, NEW s \in Seq(E)
  PROVE  Stepwise(Z, Op, base, s)
<1> DEFINE n == Len(s)
           D == 0..n
           size == [k \in D |-> k]
           Body(f, k) == IF k = 0 THEN base ELSE Op[<<f[k - 1], s[k]>>]
           G == [y \in D \X [D -> Z] |-> Body(y[2], y[1])]
           g == CHOOSE f : f = [k \in D |-> Body(f, k)]
<1>0. n \in Nat /\ DOMAIN s = 1..n /\ \A k \in 1..n : s[k] \in E
  BY LenProperties, ElementOfSeq
<1>1. Along(Op, base, s) = g[n]
  BY DEF Along
<1> HIDE DEF n
<1>2. ASSUME NEW k \in D, NEW f, k # 0 => f[k - 1] \in Z PROVE Body(f, k) \in Z
  <2>1. CASE k = 0
    BY <2>1
  <2>2. CASE k # 0
    <3>1. k \in 1..n
      BY <1>0, <2>2
    <3> QED
      BY <1>0, <1>2, <2>2, <3>1
  <2> QED
    BY <2>1, <2>2
<1>3. G \in [D \X [D -> Z] -> Z]
  <2>1. \A k \in D : k # 0 => k - 1 \in D
    BY <1>0
  <2> HIDE DEF Body, D
  <2> QED
    BY <1>2, <2>1
<1>4. ASSUME NEW k \in D, NEW a \in [D -> Z], NEW b \in [D -> Z],
             \A j \in D : size[j] < size[k] => a[j] = b[j]
      PROVE  G[<<k, a>>] = G[<<k, b>>]
  <2>1. k # 0 => a[k - 1] = b[k - 1]
    BY <1>0, <1>4
  <2>2. Body(a, k) = Body(b, k)
    BY <2>1
  <2> HIDE DEF Body
  <2> QED
    BY <2>2
<1>5. size \in [D -> Nat]
  BY <1>0
<1>6. \E f \in [D -> Z] : Solves(f, G, D)
  <2> HIDE DEF G, size, D
  <2>1. Shrinks(G, D, Z, size)
    BY <1>4 DEF Shrinks
  <2> QED
    BY <1>3, <1>5, <2>1, Recursion
<1>7. PICK f \in [D -> Z] : \A k \in D : f[k] = G[<<k, f>>]
  BY <1>6 DEF Solves
<1>8. g = [k \in D |-> Body(g, k)]
  <2> HIDE DEF Body
  <2>1. f = [k \in D |-> Body(f, k)]
    BY <1>7
  <2> QED
    BY <2>1
<1> HIDE DEF g
<1>9. \A k \in D : g[k] = Body(g, k)
  <2> HIDE DEF Body
  <2> QED
    BY <1>8
<1> DEFINE Good == {k \in Nat : k \in D => g[k] \in Z}
<1>10. \A k \in Nat : k \in Good
  <2>1. 0 \in Good
    BY <1>0, <1>9
  <2>2. ASSUME NEW k \in Nat, k \in Good PROVE k + 1 \in Good
    <3> SUFFICES ASSUME k + 1 \in D PROVE g[k + 1] \in Z
      OBVIOUS
    <3>1. k \in D /\ (k + 1) - 1 = k /\ k + 1 # 0
      BY <1>0
    <3>2. g[k] \in Z
      BY <2>2, <3>1
    <3>3. Body(g, k + 1) \in Z
      <4> HIDE DEF Body, D
      <4> QED
        BY <1>2, <3>1, <3>2
    <3> QED
      BY <1>9, <3>3
  <2> HIDE DEF Good
  <2> QED
    BY <2>1, <2>2, NatInd
<1>11. g \in [D -> Z]
  <2>1. \A k \in D : g[k] \in Z
    BY <1>0, <1>10
  <2> HIDE DEF Body
  <2> QED
    BY <1>8, <2>1
<1>12. Follows(g, Op, base, s)
  <2>1. g[0] = base
    <3>1. 0 \in D
      BY <1>0
    <3>2. g[0] = Body(g, 0)
      <4> HIDE DEF Body, D
      <4> QED
        BY <1>9, <3>1
    <3> QED
      BY <3>2
  <2>2. ASSUME NEW k \in 1..n PROVE g[k] = Op[<<g[k - 1], s[k]>>]
    <3>1. k \in D /\ k # 0
      BY <1>0
    <3> QED
      BY <1>9, <3>1
  <2> QED
    BY <2>1, <2>2 DEF Follows, n
<1> QED
  BY <1>1, <1>11, <1>12 DEF n, Stepwise

(* Nothing else does.                                                       *)
LEMMA FollowsOnce ==
  ASSUME NEW Op, NEW base, NEW s, NEW t, Len(s) \in Nat, Len(t) \in Nat,
         NEW g, NEW f, Follows(g, Op, base, s), Follows(f, Op, base, t),
         Len(s) <= Len(t), \A k \in 1..Len(s) : s[k] = t[k]
  PROVE  \A k \in 0..Len(s) : g[k] = f[k]
<1> DEFINE Good == {k \in Nat : k <= Len(s) => g[k] = f[k]}
<1>1. 0 \in Good
  BY DEF Follows
<1>2. ASSUME NEW k \in Nat, k \in Good PROVE k + 1 \in Good
  <2> SUFFICES ASSUME k + 1 <= Len(s) PROVE g[k + 1] = f[k + 1]
    OBVIOUS
  <2>1. k + 1 \in 1..Len(s) /\ k + 1 \in 1..Len(t) /\ (k + 1) - 1 = k
    OBVIOUS
  <2>2. g[k] = f[k] /\ s[k + 1] = t[k + 1]
    BY <1>2, <2>1
  <2>3. g[k + 1] = Op[<<g[k], s[k + 1]>>] /\ f[k + 1] = Op[<<f[k], t[k + 1]>>]
    BY <2>1 DEF Follows
  <2> QED
    BY <2>2, <2>3
<1>3. \A k \in Nat : k \in Good
  <2> HIDE DEF Good
  <2> QED
    BY <1>1, <1>2, NatInd
<1> QED
  BY <1>3

(* What a lemma says of functions on Z is an operator with the argument Z,  *)
(* which the provers need to find the instance.                             *)
AppendLaw(Z, E, Op, base, s, c) ==
  /\ Along(Op, base, s) \in Z
  /\ Along(Op, base, << >>) = base
  /\ Along(Op, base, Append(s, c)) = Op[<<Along(Op, base, s), c>>]

(* The fold of a sequence with one more element is one more step.           *)
LEMMA AlongAppend ==
  ASSUME NEW Z, NEW E, NEW Op \in [Z \X E -> Z], NEW base \in Z, NEW s \in Seq(E), NEW c \in E
  PROVE  AppendLaw(Z, E, Op, base, s, c)
<1> DEFINE t == Append(s, c)
<1>1. t \in Seq(E) /\ Len(t) = Len(s) + 1
  BY AppendProperties
<1>2. \A k \in 1..Len(s) : t[k] = s[k]
  BY AppendProperties
<1>3. t[Len(s) + 1] = c
  BY AppendProperties
<1> HIDE DEF t
<1>4. Len(s) \in Nat
  BY LenProperties
<1>5. PICK g \in [0..Len(s) -> Z] : Follows(g, Op, base, s) /\ Along(Op, base, s) = g[Len(s)]
  <2>1. Stepwise(Z, Op, base, s)
    BY AlongFollows
  <2> QED
    BY <2>1 DEF Stepwise
<1>6. PICK f \in [0..Len(t) -> Z] : Follows(f, Op, base, t) /\ Along(Op, base, t) = f[Len(t)]
  <2>1. Stepwise(Z, Op, base, t)
    BY <1>1, AlongFollows
  <2> QED
    BY <2>1 DEF Stepwise
<1>7. Along(Op, base, s) \in Z
  BY <1>4, <1>5
<1>8. g[Len(s)] = f[Len(s)]
  BY <1>1, <1>2, <1>4, <1>5, <1>6, FollowsOnce
<1>9. f[Len(s) + 1] = Op[<<f[Len(s)], c>>]
  <2>1. Len(s) + 1 \in 1..Len(t) /\ (Len(s) + 1) - 1 = Len(s)
    BY <1>1, <1>4
  <2> QED
    BY <1>3, <1>6, <2>1 DEF Follows
<1>10. Along(Op, base, << >>) = base
  <2>1. << >> \in Seq(E) /\ Len(<< >>) = 0
    BY EmptySeq
  <2>2. PICK e \in [0..Len(<< >>) -> Z] : Follows(e, Op, base, << >>) /\ Along(Op, base, << >>) = e[Len(<< >>)]
    <3>1. Stepwise(Z, Op, base, << >>)
      BY <2>1, AlongFollows
    <3> QED
      BY <3>1 DEF Stepwise
  <2> QED
    BY <2>1, <2>2 DEF Follows
<1> QED
  BY <1>1, <1>5, <1>6, <1>7, <1>8, <1>9, <1>10 DEF t, AppendLaw

-----------------------------------------------------------------------------
(* The folds of the community modules: it is their recursive function over  *)
(* sets of indices.                                                         *)
Iterates(it, Op, base, s) ==
  \A t \in SUBSET (1..Len(s)) :
    it[t] = IF t = {} THEN base ELSE Op[<<it[t \ {Greatest(t)}], s[Greatest(t)]>>]

(* The recursion over the subsets of the domain that the community modules  *)
(* define folds by has a solution.                                          *)
LEMMA IterExists ==
  ASSUME NEW Z, NEW E, NEW Op \in [Z \X E -> Z], NEW base \in Z, NEW s \in Seq(E)
  PROVE  \E it \in [SUBSET (1..Len(s)) -> Z] : Iterates(it, Op, base, s)
<1> DEFINE n == Len(s)
           D == SUBSET (1..n)
           size == [t \in D |-> Cardinality(t)]
           Body(f, t) == IF t = {} THEN base ELSE Op[<<f[t \ {Greatest(t)}], s[Greatest(t)]>>]
           G == [y \in D \X [D -> Z] |-> Body(y[2], y[1])]
<1>0. n \in Nat /\ DOMAIN s = 1..n /\ \A k \in 1..n : s[k] \in E
  BY LenProperties, ElementOfSeq
<1> HIDE DEF n
<1>1. \A t \in D : IsFiniteSet(t) /\ Cardinality(t) \in Nat
  <2>1. IsFiniteSet(1..n)
    BY <1>0, FS_Interval
  <2> QED
    BY <2>1, FS_Subset, FS_CardinalityType
<1>2. ASSUME NEW t \in D, t # {}
      PROVE  /\ Greatest(t) \in t /\ Greatest(t) \in 1..n /\ t \ {Greatest(t)} \in D
             /\ Cardinality(t \ {Greatest(t)}) < Cardinality(t)
  <2>1. Greatest(t) \in t
    BY <1>0, <1>2, GreatestOf
  <2>2. Cardinality(t \ {Greatest(t)}) = Cardinality(t) - 1 /\ Cardinality(t) \in Nat
    BY <1>1, <2>1, FS_RemoveElement
  <2>3. Cardinality(t \ {Greatest(t)}) < Cardinality(t)
    <3> DEFINE a == Cardinality(t \ {Greatest(t)})
               b == Cardinality(t)
    <3>1. a = b - 1 /\ b \in Nat
      BY <2>2
    <3> HIDE DEF a, b
    <3>2. a < b
      BY <3>1
    <3> QED
      BY <3>2 DEF a, b
  <2> QED
    BY <1>2, <2>1, <2>3
<1>3. ASSUME NEW t \in D, NEW f \in [D -> Z] PROVE Body(f, t) \in Z
  <2>1. CASE t # {}
    <3> DEFINE x == Greatest(t)
    <3>1. x \in 1..n /\ t \ {x} \in D
      BY <1>2, <2>1
    <3> HIDE DEF x
    <3>2. Op[<<f[t \ {x}], s[x]>>] \in Z
      BY <1>0, <3>1
    <3> QED
      BY <2>1, <3>2 DEF x
  <2> QED
    BY <2>1
<1>4. G \in [D \X [D -> Z] -> Z]
  <2> HIDE DEF Body, D
  <2> QED
    BY <1>3
<1>5. ASSUME NEW t \in D, NEW a \in [D -> Z], NEW b \in [D -> Z],
             \A u \in D : size[u] < size[t] => a[u] = b[u]
      PROVE  G[<<t, a>>] = G[<<t, b>>]
  <2>1. t # {} => a[t \ {Greatest(t)}] = b[t \ {Greatest(t)}]
    <3> SUFFICES ASSUME t # {} PROVE a[t \ {Greatest(t)}] = b[t \ {Greatest(t)}]
      OBVIOUS
    <3> DEFINE u == t \ {Greatest(t)}
    <3>1. u \in D /\ Cardinality(u) < Cardinality(t)
      BY <1>2
    <3> HIDE DEF u, D
    <3>2. a[u] = b[u]
      BY <1>5, <3>1
    <3> QED
      BY <3>2 DEF u
  <2>2. Body(a, t) = Body(b, t)
    BY <2>1
  <2> HIDE DEF Body
  <2> QED
    BY <2>2
<1>6. size \in [D -> Nat]
  BY <1>1
<1>7. \E f \in [D -> Z] : Solves(f, G, D)
  <2> HIDE DEF G, size, D
  <2>1. Shrinks(G, D, Z, size)
    BY <1>5 DEF Shrinks
  <2> QED
    BY <1>4, <1>6, <2>1, Recursion
<1>8. PICK f \in [D -> Z] : \A t \in D : f[t] = G[<<t, f>>]
  BY <1>7 DEF Solves
<1>9. \A t \in D : f[t] = Body(f, t)
  <2> HIDE DEF Body
  <2> QED
    BY <1>8
<1> QED
  BY <1>9 DEF Iterates, n

(* It need only do so as long as its values are in Z.                       *)
IteratesIn(Z, it, Op, base, s) ==
  /\ it[{}] = base
  /\ \A t \in SUBSET (1..Len(s)) : t # {} /\ it[t \ {Greatest(t)}] \in Z =>
       it[t] = Op[<<it[t \ {Greatest(t)}], s[Greatest(t)]>>]

(* What such a function computes is the fold along the sequence.            *)
IterLaw(Z, E, it, Op, base, s) == it[1..Len(s)] = Along(Op, base, s)

(* It does: by induction over the length, and so FoldLeft is Along.         *)
LEMMA IterAlong ==
  ASSUME NEW Z, NEW E, NEW Op \in [Z \X E -> Z], NEW base \in Z, NEW s \in Seq(E),
         NEW it, IteratesIn(Z, it, Op, base, s)
  PROVE  IterLaw(Z, E, it, Op, base, s)
<1> DEFINE n == Len(s)
           Good == {k \in Nat : \A g \in [0..n -> Z] :
                      k <= n /\ Follows(g, Op, base, s) => it[1..k] = g[k]}
<1>0. n \in Nat
  BY LenProperties
<1>1. 0 \in Good
  <2>1. 1..0 = {}
    OBVIOUS
  <2> QED
    BY <2>1 DEF Follows, IteratesIn
<1>2. ASSUME NEW k \in Nat, k \in Good PROVE k + 1 \in Good
  <2> SUFFICES ASSUME NEW g \in [0..n -> Z], k + 1 <= n, Follows(g, Op, base, s)
               PROVE  it[1..(k + 1)] = g[k + 1]
    OBVIOUS
  <2>1. it[1..k] = g[k] /\ k \in 0..n /\ k + 1 \in 1..n /\ (k + 1) - 1 = k
    BY <1>0, <1>2
  <2>2. Greatest(1..(k + 1)) = k + 1 /\ (1..(k + 1)) \ {k + 1} = 1..k /\ 1..(k + 1) # {}
    BY <2>1, Upto
  <2>3. 1..(k + 1) \in SUBSET (1..n) /\ g[k] \in Z
    BY <1>0, <2>1
  <2>4. it[1..(k + 1)] = Op[<<it[1..k], s[k + 1]>>]
    BY <2>1, <2>2, <2>3 DEF IteratesIn
  <2> QED
    BY <2>1, <2>4 DEF Follows
<1>3. \A k \in Nat : k \in Good
  <2> HIDE DEF Good
  <2> QED
    BY <1>1, <1>2, NatInd
<1>4. PICK g \in [0..n -> Z] : Follows(g, Op, base, s) /\ Along(Op, base, s) = g[n]
  <2>1. Stepwise(Z, Op, base, s)
    BY AlongFollows
  <2> QED
    BY <2>1 DEF Stepwise
<1>5. n \in Good
  BY <1>0, <1>3
<1> QED
  BY <1>0, <1>4, <1>5 DEF IterLaw
=============================================================================
