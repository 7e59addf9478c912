----------------------------- MODULE Smoothsort -----------------------------
(***************************************************************************)
(* lb_qsort of llvmboxlib.c, the smoothsort the tools sort their indexes    *)
(* with: the elements up to head form a forest of Leonardo heaps, whose     *)
(* orders are the bits of the number p, above the order pshift of the last. *)
(***************************************************************************)
EXTENDS Integers, Sequences, FiniteSets

CONSTANT Inputs  \* arrays to sort; index 1 is the address base

ASSUME InputsAssumption == Inputs \subseteq Seq(Int)

VARIABLES
  spc,     \* "call", "build", "shrink" or "done"
  base,    \* the array
  head,    \* index of the root of the last heap
  bits,    \* the number p
  pshift,  \* order of the last heap
  input    \* history: the array at the call

sortVars == <<spc, base, head, bits, pshift, input>>

SortInit ==
  /\ spc = "call" /\ base = <<>> /\ input = <<>>
  /\ head = 1 /\ bits = 1 /\ pshift = 1

(* Leonardo numbers: the sizes of heaps. *)
lp[k \in Nat] == IF k < 2 THEN 1 ELSE lp[k - 2] + lp[k - 1] + 1

high == Len(base)

(* A heap is known by the index of its root, its last element, and by its   *)
(* order k.  If k > 1 there are two heaps below the root.                   *)
Heap == [root : Int, k : Nat]
HeadHeap == [root |-> head, k |-> pshift]
Right(t) == [root |-> t.root - 1, k |-> t.k - 2]
Left(t) == [root |-> t.root - 1 - lp[t.k - 2], k |-> t.k - 1]

(* Shifts of p by z bits, and the zeros a number ends with.                 *)
shl[z \in Nat] == [n \in Nat |-> IF z = 0 THEN n ELSE 2 * shl[z - 1][n]]
shr[z \in Nat] == [n \in Nat |-> IF z = 0 THEN n ELSE shr[z - 1][n \div 2]]
lb_ctz[n \in Nat] == IF n = 0 \/ n % 2 = 1 THEN 0 ELSE 1 + lb_ctz[n \div 2]

pntz(n) == lb_ctz[n - 1]

cycle_Overwrite(a, ar) == \* mutant: the first element is lost
  LET At(i) == CHOOSE j \in DOMAIN ar : ar[j] = i
      After(j) == IF j = Len(ar) THEN j ELSE j + 1
  IN [i \in DOMAIN a |-> IF \E j \in DOMAIN ar : ar[j] = i THEN a[ar[After(At(i))]] ELSE a[i]]

(* Every place of ar takes the element of the next, the last one the first. *)
cycle(a, ar) ==
  LET At(i) == CHOOSE j \in DOMAIN ar : ar[j] = i
      After(j) == IF j = Len(ar) THEN 1 ELSE j + 1
  IN [i \in DOMAIN a |-> IF \E j \in DOMAIN ar : ar[j] = i THEN a[ar[After(At(i))]] ELSE a[i]]

SiftPath_None(a, t) == <<t.root>> \* mutant

(* The element at the root goes down its heap: the places it goes through.  *)
SiftPath(a, t) ==
  LET path[s \in Heap] ==
        LET rt == Right(s).root
            lf == Left(s).root
        IN IF s.k <= 1 \/ (a[t.root] >= a[lf] /\ a[t.root] >= a[rt]) THEN <<s.root>>
           ELSE <<s.root>> \o path[IF a[lf] >= a[rt] THEN Left(s) ELSE Right(s)]
  IN path[t]

(* What a call makes of the array.                                          *)
sift(t) == [a \in Seq(Int) |-> cycle(a, SiftPath(a, t))]

(* The heaps from t on: their orders are the bits of n, above the order of t. *)
forest[n \in Nat] ==
  [t \in Heap |->
     IF n = 0 THEN <<>>
     ELSE IF n % 2 = 0 THEN forest[n \div 2][[root |-> t.root, k |-> t.k + 1]]
     ELSE <<t>> \o forest[n \div 2][[root |-> t.root - lp[t.k], k |-> t.k + 1]]]

(* The root of t goes through the roots before it, the stepsons, while they *)
(* are greater than it and than the heap it then is in.                     *)
trinkle(t, n, trusty) ==
  [a \in Seq(Int) |->
     LET f == forest[n][t]
         stepson(i) == a[f[i + 1].root]
         Stop(i) ==
           \/ i = Len(f) \/ stepson(i) <= a[t.root]
           \/ /\ i > 1 \/ ~trusty
              /\ f[i].k > 1
              /\ a[Right(f[i]).root] >= stepson(i) \/ a[Left(f[i]).root] >= stepson(i)
         last == CHOOSE i \in DOMAIN f : Stop(i) /\ \A j \in 1..(i - 1) : ~Stop(j)
     IN IF trusty /\ last = 1 THEN a
        ELSE sift(f[last])[cycle(a, [i \in 1..last |-> f[i].root])]]

-----------------------------------------------------------------------------
SortCall ==
  /\ spc = "call"
  /\ base' \in Inputs /\ input' = base'
  /\ spc' = IF base' = <<>> THEN "done" ELSE "build"
  /\ UNCHANGED <<head, bits, pshift>>

(* The last two heaps and the element at head become one heap.              *)
Merge ==
  /\ spc = "build" /\ head < high /\ bits % 4 = 3
  /\ base' = sift(HeadHeap)[base]
  /\ bits' = 2 * (bits \div 8) + 1
  /\ pshift' = pshift + 2
  /\ head' = head + 1
  /\ UNCHANGED <<spc, input>>

(* The heap at head will not be part of a greater one.                      *)
Final == lp[pshift - 1] >= high - head

(* The next element is a heap of its own.                                   *)
Single ==
  /\ spc = "build" /\ head < high /\ bits % 4 # 3
  /\ base' = IF Final THEN trinkle(HeadHeap, bits, FALSE)[base]
                      ELSE sift(HeadHeap)[base]
  /\ bits' = shl[IF pshift = 1 THEN 1 ELSE pshift - 1][bits] + 1
  /\ pshift' = IF pshift = 1 THEN 0 ELSE 1
  /\ head' = head + 1
  /\ UNCHANGED <<spc, input>>

LastHeap ==
  /\ spc = "build" /\ head = high
  /\ base' = trinkle(HeadHeap, bits, FALSE)[base]
  /\ spc' = "shrink"
  /\ UNCHANGED <<head, bits, pshift, input>>

Drop_Stuck == UNCHANGED <<bits, pshift, head>> \* mutant

Drop ==
  /\ bits' = shr[pntz(bits)][bits]
  /\ pshift' = pshift + pntz(bits)
  /\ head' = head - 1

(* The element at head is in place; it was a heap of its own.               *)
ShrinkSingle ==
  /\ spc = "shrink" /\ pshift <= 1 /\ (pshift # 1 \/ bits # 1)
  /\ Drop
  /\ UNCHANGED <<spc, base, input>>

(* It was the root of a heap, whose two parts become heaps of the forest.   *)
ShrinkSplit ==
  LET n == (4 * bits - 1) \div 2  \* shl 2, xor 7, shr 1
      left == trinkle(Left(HeadHeap), n, TRUE)[base]
  IN /\ spc = "shrink" /\ pshift > 1
     /\ base' = trinkle(Right(HeadHeap), 2 * n + 1, TRUE)[left]
     /\ bits' = 2 * n + 1 /\ pshift' = pshift - 2 /\ head' = head - 1
     /\ UNCHANGED <<spc, input>>

SortReturn ==
  /\ spc = "shrink" /\ pshift = 1 /\ bits = 1
  /\ spc' = "done"
  /\ UNCHANGED <<base, head, bits, pshift, input>>

SortNext == SortCall \/ Merge \/ Single \/ LastHeap \/ ShrinkSingle \/ ShrinkSplit \/ SortReturn

SortSpec == SortInit /\ [][SortNext]_sortVars

-----------------------------------------------------------------------------
(* A heap and the heaps in it.                                              *)
parts[t \in Heap] == {t} \cup IF t.k <= 1 THEN {} ELSE parts[Right(t)] \cup parts[Left(t)]

(* The root of a heap is not less than those below it.                      *)
Above(a, t) == t.k > 1 => a[t.root] >= a[Right(t).root] /\ a[t.root] >= a[Left(t).root]

HeapAt(a, t) == \A s \in parts[t] : Above(a, s)

(* The number p and the order pshift describe a forest that covers exactly  *)
(* the elements up to head, all of them heaps but perhaps the last one.     *)
(* p is never 1 where its trailing zeros are counted ("If x is 0, the       *)
(* result is undefined", llvmboxlib.h:172).                                 *)
HeapForest ==
  spc \in {"build", "shrink"} =>
    LET f == forest[bits][HeadHeap]
        first == f[Len(f)]
    IN /\ first.root = lp[first.k]
       /\ \A i \in DOMAIN f : (i > 1 \/ spc = "shrink") => HeapAt(base, f[i])
       /\ bits = 1 => pshift > 0

Count(a, x) == Cardinality({i \in DOMAIN a : a[i] = x})

(* At every step the array is a permutation of the input.  Once the forest  *)
(* is complete its roots ascend, and the elements that left it are the      *)
(* greatest ones, in order; so the result is sorted.                        *)
SortedTail ==
  LET f == forest[bits][HeadHeap]
  IN /\ \A x \in {input[i] : i \in DOMAIN input} : Count(base, x) = Count(input, x)
     /\ spc = "shrink" => \A i \in 2..Len(f) : base[f[i].root] <= base[f[i - 1].root]
     /\ spc \in {"shrink", "done"} =>
          \A i, j \in DOMAIN base :
            i < j /\ (j > head \/ spc = "done") => base[i] <= base[j]

(* The sort comes to its end.                                               *)
SortEnds == spc = "build" ~> spc = "done"
=============================================================================
