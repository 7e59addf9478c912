------------------------------- MODULE Arrays -------------------------------
(***************************************************************************)
(* Memory in llvmboxlib.c: array_t, a list or a sorted set whose elements   *)
(* realloc moves, and bumpalloc_t, which carves strings out of a block.     *)
(***************************************************************************)
EXTENDS Integers, Sequences, FiniteSets

CONSTANTS
  FirstCap,  \* the first capacity _array_grow takes, 32
  MaxU32,    \* the greatest u32
  Requests,  \* numbers of elements array_alloc is called with; the tools: 1
  Values,    \* elements of sets, numbers in the order of cmpf
  StackCap,  \* countof(array_st) in dedup_tfiles, 10
  MaxLost,   \* bound: failures of realloc
  PathMax, BlockSize, Strings  \* of bumpalloc: PATH_MAX, the block, lengths to copy

ASSUME ArraysAssumption ==
  /\ FirstCap \in Nat \ {0} /\ MaxU32 \in Nat /\ StackCap \in Nat \ {0}
  /\ Requests \subseteq 1..FirstCap /\ MaxLost \in Nat
ASSUME ValuesAssumption == Values \subseteq Nat
ASSUME BumpAssumption ==
  BlockSize \in Nat /\ PathMax \in Nat /\ PathMax % 8 = 0 /\ Strings \subseteq Nat

VARIABLES
  mem,    \* "none", "heap" or "stack": where a->ptr points
  kind,   \* "list" or "set": what the array is used as
  cap, v, \* a->cap, and the elements; a->len is Len(v)
  aret,   \* of the last call: "ok", "null" (it failed), or "undefined"
  lost,   \* number of failures of realloc
  added,  \* history: values added to a set
  next,   \* ma->next, from ma->start
  live    \* history: the allocations handed out, [at, size]

arrayVars == <<mem, kind, cap, v, aret, lost, added>>
bumpVars == <<next, live>>

ArrayInit ==
  /\ \/ mem = "none" /\ kind \in {"list", "set"} /\ cap = 0
     \/ mem = "stack" /\ kind = "set" /\ cap = StackCap
  /\ v = <<>> /\ aret = "ok" /\ lost = 0 /\ added = {}

GrownCap(extra) ==
  IF cap = 0 THEN (IF extra > FirstCap THEN extra ELSE FirstCap) ELSE 2 * cap

Enough_OffByOne(n) == Len(v) + n <= cap + 1 \* mutant

Enough(n) == Len(v) + n <= cap

(* _array_reserve of n elements, then a change that needs them.  An array   *)
(* on the stack is given to realloc like any other.                         *)
Reserve(n, new) ==
  LET c == GrownCap(Len(v) + n - cap)
      grows == Len(v) + n <= MaxU32 /\ ~Enough(n) /\ c <= MaxU32
  IN \/ /\ Len(v) + n <= MaxU32 /\ Enough(n)
        /\ v' = new /\ aret' = "ok"
        /\ UNCHANGED <<mem, cap, lost>>
     \/ /\ grows
        /\ v' = new /\ cap' = c /\ mem' = "heap"
        /\ aret' = IF mem = "stack" THEN "undefined" ELSE "ok"
        /\ UNCHANGED lost
     \/ /\ grows /\ lost < MaxLost
        /\ lost' = lost + 1 /\ aret' = "null"
        /\ UNCHANGED <<mem, cap, v>>
     \/ /\ Len(v) + n > MaxU32 \/ (~Enough(n) /\ c > MaxU32)
        /\ aret' = "null"
        /\ UNCHANGED <<mem, cap, v, lost>>

array_alloc ==
  /\ kind = "list" /\ aret # "undefined"
  /\ \E n \in Requests : Reserve(n, [i \in 1..(Len(v) + n) |-> 0])
  /\ UNCHANGED <<kind, added>>

(* The binary search of _array_sorted_assign between low and high, counted  *)
(* from 0: where x is, or where it goes.                                    *)
Search_Right(x) == [found |-> FALSE, at |-> Cardinality({i \in DOMAIN v : v[i] <= x})] \* mutant

Search(x) ==
  LET find[r \in (0..Len(v)) \X (0..Len(v))] ==
        LET low == r[1]
            high == r[2]
            mid == (low + high) \div 2
        IN IF low >= high THEN [found |-> FALSE, at |-> low]
           ELSE IF x = v[mid + 1] THEN [found |-> TRUE, at |-> mid]
           ELSE IF x < v[mid + 1] THEN find[<<low, mid>>]
           ELSE find[<<mid + 1, high>>]
  IN find[<<0, Len(v)>>]

Inserted(x, at) == SubSeq(v, 1, at) \o <<x>> \o SubSeq(v, at + 1, Len(v))

(* array_sorted_add_str.  If there is no room memset gets a null pointer.   *)
array_sorted_assign(x) ==
  /\ kind = "set" /\ aret = "ok"
  /\ IF Search(x).found
       THEN aret' = "ok" /\ UNCHANGED <<mem, cap, v, lost>>
       ELSE Reserve(1, Inserted(x, Search(x).at))
  /\ added' = IF aret' = "ok" THEN added \cup {x} ELSE added
  /\ UNCHANGED kind

ArrayNext == array_alloc \/ \E x \in Values : array_sorted_assign(x)

ArraySpec == ArrayInit /\ [][ArrayNext]_arrayVars

(* The elements always have room.  _array_grow doubles the capacity         *)
(* whatever is asked for, which is enough as long as no more than FirstCap  *)
(* are asked for at a time.                                                 *)
Room == Len(v) <= cap

(* However elements come, a set is strictly ascending and holds what was    *)
(* added.  The only way out of it is the array of ten names on the stack of *)
(* dedup_tfiles, which realloc must not see: with ten names of systems, or  *)
(* of the directories of a system's architectures, in it and an eleventh to *)
(* come, which nothing in dedup_tfiles rules out, but not before.           *)
SortedSet ==
  kind = "set" =>
    /\ \A i \in 2..Len(v) : v[i - 1] < v[i]
    /\ IF aret = "undefined"
         THEN Cardinality(added) >= StackCap
         ELSE {v[i] : i \in DOMAIN v} = added

-----------------------------------------------------------------------------
BumpInit == next = 0 /\ live = {}

Align(n) == 8 * ((n + 7) \div 8)

(* bumpalloc: a block of n bytes, of which size are used in the end, and    *)
(* the rest given back by bumpalloc_resize, which only resizes the tail.    *)
Resized_Twice(at, n, size) == at + size - 8 \* mutant: gives back too much

Resized(at, n, size) == IF at = at + Align(n) - n THEN at + size ELSE at + Align(n)

Carve(n, size) ==
  IF next + Align(n) <= BlockSize
  THEN /\ next' = Resized(next, n, size)
       /\ live' = live \cup {[at |-> next, size |-> size]}
  ELSE next' = BlockSize /\ UNCHANGED live

bumpalloc_strdup == \E n \in Strings : Carve(n + 1, n + 1)

(* A string shorter than PATH_MAX; if the paths are too long all is given   *)
(* back.                                                                    *)
path_join_dup == \E n \in Strings \cup {-1} : n < PathMax /\ Carve(PathMax, n + 1)

reset == next' = 0 /\ live' = {}  \* mksysroot, before every target

BumpNext == bumpalloc_strdup \/ path_join_dup \/ reset

BumpSpec == BumpInit /\ [][BumpNext]_bumpVars

(* The strings handed out lie within the block and do not overlap, however  *)
(* allocations, shrinking and failures alternate.                           *)
Disjoint ==
  /\ next <= BlockSize
  /\ \A a \in live : a.at >= 0 /\ a.at + a.size <= next
  /\ \A a, b \in live :
       a = b \/ a.at + a.size <= b.at \/ b.at + b.size <= a.at
=============================================================================
