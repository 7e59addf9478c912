-------------------------- MODULE CopyMerge_proof ---------------------------
(***************************************************************************)
(* Proofs about CopyMerge, for any trees, links and number of runs.        *)
(***************************************************************************)
EXTENDS CopyMerge, Induction_proof, FiniteSetTheorems, SequenceTheorems, TLAPS

USE BoundsAssumption

-----------------------------------------------------------------------------
(* Paths.                                                                   *)

(* Sequences; split, because the provers do not find all at once.           *)
LEMMA AppendPath ==
  ASSUME NEW p \in Path, NEW n \in STRING
  PROVE  /\ Append(p, n) \in Path /\ Append(p, n) # << >>
         /\ Len(p) \in Nat /\ Len(Append(p, n)) = Len(p) + 1
         /\ \A i \in 1..Len(p) : Append(p, n)[i] = p[i]
         /\ Append(p, n)[Len(p) + 1] = n
<1>1. Append(p, n) \in Seq(STRING) /\ Append(p, n) # << >> /\ Len(Append(p, n)) = Len(p) + 1
  BY AppendProperties DEF Path
<1>2. \A i \in 1..Len(p) : Append(p, n)[i] = p[i]
  BY AppendProperties DEF Path
<1>3. Append(p, n)[Len(p) + 1] = n
  BY AppendProperties DEF Path
<1>4. Len(p) \in Nat
  BY LenProperties DEF Path
<1> QED
  BY <1>1, <1>2, <1>3, <1>4 DEF Path

LEMMA SamePath ==
  ASSUME NEW p \in Path, NEW q \in Path, Len(p) = Len(q), \A i \in 1..Len(p) : p[i] = q[i]
  PROVE  p = q
  BY SeqEqual DEF Path

LEMMA EmptyPath ==
  /\ << >> \in Path /\ Len(<< >>) = 0
  /\ \A p \in Path : Len(p) \in Nat /\ (p # << >> => Len(p) > 0)
  BY EmptySeq, LenProperties DEF Path

(* The beginning and the end of a path.                                     *)
LEMMA CutPath ==
  ASSUME NEW q \in Path, NEW i \in 0..Len(q)
  PROVE  /\ SubSeq(q, 1, i) \in Path /\ Len(SubSeq(q, 1, i)) = i
         /\ \A j \in 1..i : SubSeq(q, 1, i)[j] = q[j]
         /\ SubSeq(q, i + 1, Len(q)) \in Path
         /\ Len(SubSeq(q, i + 1, Len(q))) = Len(q) - i
         /\ \A j \in 1..(Len(q) - i) : SubSeq(q, i + 1, Len(q))[j] = q[i + j]
<1>1. q \in Seq(STRING) /\ Len(q) \in Nat
  BY LenProperties DEF Path
<1>2. \A j \in 1..Len(q) : q[j] \in STRING
  BY <1>1, ElementOfSeq
<1>3. /\ SubSeq(q, 1, i) \in Path /\ Len(SubSeq(q, 1, i)) = i
      /\ \A j \in 1..i : SubSeq(q, 1, i)[j] = q[j]
  BY <1>1, <1>2, SubSeqProperties DEF Path
<1>4. /\ SubSeq(q, i + 1, Len(q)) \in Seq(STRING)
      /\ Len(SubSeq(q, i + 1, Len(q))) = IF i + 1 <= Len(q) THEN Len(q) - (i + 1) + 1 ELSE 0
      /\ \A j \in 1..(Len(q) - (i + 1) + 1) : SubSeq(q, i + 1, Len(q))[j] = q[i + 1 + j - 1]
  <2>1. i + 1 \in Int /\ Len(q) \in Int /\ \A j \in (i + 1)..Len(q) : q[j] \in STRING
    BY <1>1, <1>2
  <2> QED
    BY <2>1, SubSeqProperties
<1> QED
  BY <1>1, <1>3, <1>4 DEF Path

LEMMA FrontPath ==
  ASSUME NEW q \in Path, q # << >>
  PROVE  /\ Front(q) \in Path /\ Last(q) \in STRING
         /\ Len(q) \in Nat \ {0} /\ Len(Front(q)) = Len(q) - 1
         /\ \A i \in 1..(Len(q) - 1) : Front(q)[i] = q[i]
         /\ q = Append(Front(q), Last(q))
<1>1. Len(q) \in Nat \ {0} /\ q \in Seq(STRING)
  BY EmptySeq DEF Path
<1>2. Len(q) - 1 \in 0..Len(q) /\ Len(q) \in 1..Len(q)
  BY <1>1
<1>3. Front(q) \in Path /\ Len(Front(q)) = Len(q) - 1 /\ \A i \in 1..(Len(q) - 1) : Front(q)[i] = q[i]
  BY <1>2, CutPath DEF Front
<1>4. Last(q) \in STRING /\ Last(q) = q[Len(q)]
  BY <1>1, <1>2, ElementOfSeq DEF Last
<1> DEFINE r == Append(Front(q), Last(q))
<1>5. r \in Path /\ Len(r) = Len(q) /\ \A i \in 1..(Len(q) - 1) : r[i] = Front(q)[i]
  <2>1. r \in Path /\ Len(r) = Len(Front(q)) + 1 /\ \A i \in 1..Len(Front(q)) : r[i] = Front(q)[i]
    BY <1>3, <1>4, AppendPath
  <2> HIDE DEF r
  <2> QED
    BY <1>1, <1>3, <2>1
<1>6. r[Len(q)] = Last(q)
  <2>1. Len(Front(q)) + 1 = Len(q)
    BY <1>1, <1>3
  <2> QED
    BY <2>1, <1>3, <1>4, AppendPath
<1> HIDE DEF r
<1>7. \A i \in 1..Len(q) : q[i] = r[i]
  BY <1>1, <1>3, <1>4, <1>5, <1>6
<1>8. q = r
  BY <1>5, <1>7, SamePath
<1> QED
  BY <1>1, <1>3, <1>4, <1>8 DEF r

LEMMA FrontAppend ==
  ASSUME NEW p \in Path, NEW n \in STRING
  PROVE  Front(Append(p, n)) = p /\ Last(Append(p, n)) = n
<1> DEFINE q == Append(p, n)
<1>1. /\ q \in Path /\ q # << >> /\ Len(p) \in Nat /\ Len(q) = Len(p) + 1
      /\ \A i \in 1..Len(p) : q[i] = p[i]
      /\ q[Len(p) + 1] = n
  BY AppendPath
<1> HIDE DEF q
<1>2. Last(q) = n
  BY <1>1 DEF Last
<1>3. Front(q) \in Path /\ Len(Front(q)) = Len(p) /\ \A i \in 1..Len(p) : Front(q)[i] = p[i]
  BY <1>1, FrontPath
<1>4. Front(q) = p
  BY <1>3, SamePath
<1> QED
  BY <1>2, <1>4 DEF q

LEMMA CutAppend ==
  ASSUME NEW p \in Path, NEW n \in STRING, NEW i \in 0..Len(p)
  PROVE  /\ SubSeq(Append(p, n), 1, i) = SubSeq(p, 1, i)
         /\ SubSeq(Append(p, n), i + 1, Len(p) + 1) = Append(SubSeq(p, i + 1, Len(p)), n)
<1> DEFINE q == Append(p, n)
           s == SubSeq(q, 1, i)
           t == SubSeq(q, i + 1, Len(q))
           u == SubSeq(p, i + 1, Len(p))
           v == Append(u, n)
           w == SubSeq(p, 1, i)
<1>1. /\ q \in Path /\ Len(p) \in Nat /\ Len(q) = Len(p) + 1
      /\ \A j \in 1..Len(p) : q[j] = p[j]
      /\ q[Len(p) + 1] = n
  BY AppendPath
<1> HIDE DEF q
<1>2. /\ s \in Path /\ Len(s) = i /\ (\A j \in 1..i : s[j] = q[j])
      /\ t \in Path /\ Len(t) = Len(p) + 1 - i
      /\ \A j \in 1..(Len(p) + 1 - i) : t[j] = q[i + j]
  <2>1. i \in 0..Len(q)
    BY <1>1
  <2> QED
    BY <1>1, <2>1, CutPath
<1>3. /\ w \in Path /\ Len(w) = i
      /\ (\A j \in 1..i : w[j] = p[j])
      /\ u \in Path /\ Len(u) = Len(p) - i
      /\ \A j \in 1..(Len(p) - i) : u[j] = p[i + j]
  BY CutPath
<1> HIDE DEF s, t, u, w
<1>4. s = w
  <2>1. \A j \in 1..Len(s) : s[j] = w[j]
    BY <1>1, <1>2, <1>3
  <2> QED
    BY <1>2, <1>3, <2>1, SamePath
<1>5. /\ v \in Path /\ Len(v) = Len(p) - i + 1
      /\ (\A j \in 1..(Len(p) - i) : v[j] = u[j])
      /\ v[Len(p) - i + 1] = n
  <2>1. /\ v \in Path /\ Len(v) = Len(u) + 1
        /\ (\A j \in 1..Len(u) : v[j] = u[j])
        /\ v[Len(u) + 1] = n
    BY <1>3, AppendPath
  <2> QED
    BY <1>3, <2>1
<1> HIDE DEF v
<1>6. \A j \in 1..Len(t) : t[j] = v[j]
  <2> SUFFICES ASSUME NEW j \in 1..(Len(p) + 1 - i) PROVE t[j] = v[j]
    BY <1>2
  <2>1. CASE j = Len(p) + 1 - i
    <3>1. i + j = Len(p) + 1 /\ Len(p) - i + 1 = j
      BY <1>1, <2>1
    <3> QED
      BY <1>1, <1>2, <1>5, <3>1
  <2>2. CASE j \in 1..(Len(p) - i)
    <3>1. i + j \in 1..Len(p)
      BY <1>1, <2>2
    <3> QED
      BY <1>1, <1>2, <1>3, <1>5, <2>2, <3>1
  <2> QED
    BY <1>1, <2>1, <2>2
<1>7. t = v
  BY <1>1, <1>2, <1>5, <1>6, SamePath
<1> QED
  BY <1>1, <1>4, <1>7 DEF q, s, t, u, v, w

LEMMA SinglePath ==
  ASSUME NEW n \in STRING
  PROVE  <<n>> \in Path /\ Len(<<n>>) = 1 /\ <<n>>[1] = n
<1>1. Append(<< >>, n) \in Path
  BY AppendPath, EmptyPath
<1>2. Append(<< >>, n) = <<n>>
  OBVIOUS
<1>3. Len(<<n>>) = 1 /\ <<n>>[1] = n
  OBVIOUS
<1> QED
  BY <1>1, <1>2, <1>3

(* A link far up in a path does not care for what follows.                  *)
LEMMA RedirectAppend ==
  ASSUME NEW p \in Path, NEW n \in STRING, NEW i \in 1..Len(p), NEW c \in DOMAIN LinkTo
  PROVE  /\ Redirect(p, i, c) \in Path
         /\ Redirect(Append(p, n), i, c) = Append(Redirect(p, i, c), n)
<1> DEFINE a == LinkTo[c]
           u == SubSeq(p, i + 1, Len(p))
           s == Append(u, n)
<1>1. a \in Path
  BY LinksAssumption
<1>2. Len(p) \in Nat /\ i \in 0..Len(p)
  BY EmptyPath
<1>3. u \in Path
  BY <1>2, CutPath
<1>4. Len(Append(p, n)) = Len(p) + 1
  BY AppendPath
<1>5. Redirect(Append(p, n), i, c) = a \o s
  BY <1>2, <1>4, CutAppend DEF Redirect
<1>6. Redirect(p, i, c) = a \o u
  BY DEF Redirect
<1> HIDE DEF a, u
<1>7. a \o u \in Path
  BY <1>1, <1>3, ConcatProperties DEF Path
<1>8. <<n>> \in Path
  BY SinglePath
<1>9. s = u \o <<n>> /\ Append(a \o u, n) = (a \o u) \o <<n>>
  BY <1>3, <1>7, AppendIsConcat DEF Path
<1>10. (a \o u) \o <<n>> = a \o (u \o <<n>>)
  BY <1>1, <1>3, <1>8, ConcatAssociative, SMTT(60) DEF Path
<1> QED
  BY <1>5, <1>6, <1>7, <1>9, <1>10

LEMMA ArgPath == <<Arg>> \in Path /\ Len(<<Arg>>) = 1 /\ <<Arg>>[1] = Arg
  BY ArgAssumption, SinglePath

(* The root of the source is copied to Arg, what is below it below.         *)
LEMMA ToPath ==
  ASSUME NEW p \in Path
  PROVE  /\ To(p) \in Path /\ To(p) # << >> /\ Len(To(p)) = Len(p) + 1 /\ Len(p) \in Nat
         /\ To(p)[1] = Arg /\ \A i \in 1..Len(p) : To(p)[i + 1] = p[i]
<1>1. <<Arg>> \in Seq(STRING) /\ Len(<<Arg>>) = 1 /\ <<Arg>>[1] = Arg
  BY ArgPath DEF Path
<1>2. Len(p) \in Nat /\ p \in Seq(STRING)
  BY EmptyPath DEF Path
<1> DEFINE q == <<Arg>> \o p
<1>3. /\ q \in Seq(STRING)
      /\ Len(q) = Len(<<Arg>>) + Len(p)
      /\ \A i \in 1..(Len(<<Arg>>) + Len(p)) : q[i] = IF i <= Len(<<Arg>>) THEN <<Arg>>[i] ELSE p[i - Len(<<Arg>>)]
  BY <1>1, <1>2, ConcatProperties
<1> HIDE DEF q
<1>4. q # << >>
  BY <1>1, <1>2, <1>3, EmptySeq
<1> QED
  BY <1>1, <1>2, <1>3, <1>4 DEF To, Path, q

LEMMA ToFront ==
  ASSUME NEW p \in Path
  PROVE  /\ p = << >> => To(p) = <<Arg>> /\ Front(To(p)) = << >>
         /\ p # << >> => Front(To(p)) = To(Front(p)) /\ Last(To(p)) = Last(p)
<1>1. /\ To(p) \in Path /\ To(p) # << >> /\ Len(To(p)) = Len(p) + 1 /\ Len(p) \in Nat
      /\ To(p)[1] = Arg /\ \A i \in 1..Len(p) : To(p)[i + 1] = p[i]
  BY ToPath
<1>2. /\ Front(To(p)) \in Path /\ Len(Front(To(p))) = Len(p)
      /\ \A i \in 1..Len(p) : Front(To(p))[i] = To(p)[i]
  <2> DEFINE q == To(p)
  <2> HIDE DEF q
  <2>1. /\ Front(q) \in Path /\ Len(Front(q)) = Len(q) - 1
        /\ \A i \in 1..(Len(q) - 1) : Front(q)[i] = q[i]
    BY <1>1, FrontPath DEF q
  <2>2. Len(q) - 1 = Len(p)
    BY <1>1 DEF q
  <2> QED
    BY <2>1, <2>2 DEF q
<1>3. CASE p = << >>
  <2>1. Len(p) = 0
    BY <1>3, EmptyPath
  <2>2. <<Arg>> \in Path /\ Len(<<Arg>>) = 1 /\ <<Arg>>[1] = Arg
    BY ArgPath
  <2>3. To(p) = <<Arg>>
    BY <1>1, <2>1, <2>2, SamePath
  <2>4. Front(To(p)) = << >>
    BY <1>2, <2>1, EmptyPath
  <2> QED
    BY <1>3, <2>3, <2>4
<1>4. CASE p # << >>
  <2>1. /\ Front(p) \in Path /\ Len(p) \in Nat \ {0} /\ Len(Front(p)) = Len(p) - 1
        /\ \A i \in 1..(Len(p) - 1) : Front(p)[i] = p[i]
    BY <1>4, FrontPath
  <2>2. /\ To(Front(p)) \in Path /\ Len(To(Front(p))) = Len(p) - 1 + 1
        /\ To(Front(p))[1] = Arg /\ \A i \in 1..(Len(p) - 1) : To(Front(p))[i + 1] = Front(p)[i]
    BY <2>1, ToPath
  <2> DEFINE f == Front(p)
             t == To(f)
             g == Front(To(p))
             q == To(p)
  <2> HIDE DEF f, t, g, q
  <2>3. ASSUME NEW i \in 1..Len(p) PROVE g[i] = t[i]
    <3>1. CASE i = 1
      BY <1>1, <1>2, <2>1, <2>2, <3>1 DEF f, t, g, q
    <3>2. CASE i # 1
      <4>1. i - 1 \in 1..(Len(p) - 1) /\ i - 1 \in 1..Len(p) /\ (i - 1) + 1 = i
        BY <2>1, <3>2
      <4>2. q[i] = p[i - 1] /\ t[i] = f[i - 1] /\ f[i - 1] = p[i - 1]
        <5>1. q[(i - 1) + 1] = p[i - 1]
          BY <1>1, <4>1 DEF q
        <5>2. t[(i - 1) + 1] = f[i - 1] /\ f[i - 1] = p[i - 1]
          BY <2>1, <2>2, <4>1 DEF t, f
        <5> QED
          BY <4>1, <5>1, <5>2
      <4> QED
        BY <1>2, <4>2 DEF g, q
    <3> QED
      BY <3>1, <3>2
  <2>4. g = t
    BY <1>2, <2>1, <2>2, <2>3, SamePath DEF g, t, f
  <2>5. Last(To(p)) = Last(p)
    <3>1. Len(p) \in 1..Len(p)
      BY <2>1
    <3> QED
      BY <1>1, <3>1 DEF Last
  <2> QED
    BY <1>4, <2>4, <2>5 DEF g, t, f
<1> QED
  BY <1>3, <1>4

-----------------------------------------------------------------------------
(* The file system.                                                         *)

(* Every node of a tree is typed and every link in it leads somewhere.      *)
Sound(tree) ==
  \A q \in DOMAIN tree :
    q \in Path /\ tree[q] \in Node /\ (tree[q].t = "link" => tree[q].c \in DOMAIN LinkTo)

LEMMA WithDomain ==
  ASSUME NEW tree, NEW q, NEW node
  PROVE  /\ DOMAIN With(tree, q, node) = DOMAIN tree \cup {q}
         /\ With(tree, q, node)[q] = node
         /\ \A r \in DOMAIN tree \ {q} : With(tree, q, node)[r] = tree[r]
  BY DEF With

LEMMA WithoutDomain ==
  ASSUME NEW tree, NEW q
  PROVE  /\ DOMAIN Without(tree, q) = DOMAIN tree \ {q}
         /\ \A r \in DOMAIN tree \ {q} : Without(tree, q)[r] = tree[r]
  BY DEF Without

LEMMA WithSound ==
  ASSUME NEW tree, Sound(tree), NEW q \in Path, NEW node \in Node,
         node.t = "link" => node.c \in DOMAIN LinkTo
  PROVE  Sound(With(tree, q, node))
<1> DEFINE new == With(tree, q, node)
<1>1. /\ DOMAIN new = DOMAIN tree \cup {q}
      /\ new[q] = node
      /\ \A r \in DOMAIN tree \ {q} : new[r] = tree[r]
  BY DEF With
<1> HIDE DEF new
<1>2. Sound(new)
  BY <1>1 DEF Sound
<1> QED
  BY <1>2 DEF new

LEMMA WithoutSound ==
  ASSUME NEW tree, Sound(tree), NEW q
  PROVE  Sound(Without(tree, q))
<1> DEFINE new == Without(tree, q)
<1>1. DOMAIN new = DOMAIN tree \ {q} /\ \A r \in DOMAIN tree \ {q} : new[r] = tree[r]
  BY WithoutDomain
<1> HIDE DEF new
<1>2. Sound(new)
  BY <1>1 DEF Sound
<1> QED
  BY <1>2 DEF new

Dir == [t |-> "dir", c |-> Empty]
TornFile == [t |-> "file", c |-> Torn]

LEMMA NewNodes ==
  /\ Dir \in Node /\ Dir.t # "link"
  /\ TornFile \in Node /\ TornFile.t # "link"
<1>1. "dir" \in Types /\ "file" \in Types
  BY DEF Types
<1>2. Dir \in Node /\ TornFile \in Node
  BY <1>1 DEF Dir, TornFile, Node
<1>3. Dir.t # "link" /\ TornFile.t # "link"
  BY DEF Dir, TornFile
<1> QED
  BY <1>2, <1>3

LEMMA NewLink ==
  ASSUME NEW c \in DOMAIN LinkTo
  PROVE  LET node == [t |-> "link", c |-> c]
         IN node \in Node /\ node.c \in DOMAIN LinkTo /\ node.c # Torn
<1>1. "link" \in Types /\ c \in Data \ {Torn}
  BY LinksAssumption DEF Types
<1> QED
  BY <1>1 DEF Node

-----------------------------------------------------------------------------
(* Symbolic links.                                                          *)

(* What F does to z, once, twice, N times.                                  *)
WalksOn(F, z, N, Z) ==
  {f \in [0..N -> Z] : f[0] = z /\ \A n \in 1..N : f[n] = F[f[n - 1]]}

LEMMA Iteration ==
  ASSUME NEW N \in Nat, NEW Z, NEW F, \A x \in Z : F[x] \in Z, NEW z \in Z
  PROVE  WalksOn(F, z, N, Z) # {}
<1> DEFINE Good == {k \in Nat : WalksOn(F, z, k, Z) # {}}
<1>1. 0 \in Good
  <2> DEFINE e == [n \in 0..0 |-> z]
  <2>1. e \in [0..0 -> Z] /\ e[0] = z
    OBVIOUS
  <2>2. \A n \in 1..0 : e[n] = F[e[n - 1]]
    OBVIOUS
  <2> HIDE DEF e
  <2>3. e \in WalksOn(F, z, 0, Z)
    BY <2>1, <2>2 DEF WalksOn
  <2> QED
    BY <2>3
<1>2. ASSUME NEW k \in Nat, k \in Good PROVE k + 1 \in Good
  <2>1. PICK f \in [0..k -> Z] : f[0] = z /\ \A n \in 1..k : f[n] = F[f[n - 1]]
    BY <1>2 DEF WalksOn
  <2> DEFINE g == [n \in 0..(k + 1) |-> IF n = k + 1 THEN F[f[k]] ELSE f[n]]
  <2>2. g \in [0..(k + 1) -> Z] /\ g[0] = z
    BY <2>1
  <2>3. ASSUME NEW n \in 1..(k + 1) PROVE g[n] = F[g[n - 1]]
    <3>1. n - 1 \in 0..(k + 1) /\ n - 1 # k + 1 /\ (n # k + 1 => n \in 1..k)
      OBVIOUS
    <3>2. g[n - 1] = f[n - 1]
      BY <3>1
    <3> QED
      BY <2>1, <3>1, <3>2
  <2> HIDE DEF g
  <2>4. g \in WalksOn(F, z, k + 1, Z)
    BY <2>2, <2>3 DEF WalksOn
  <2> QED
    BY <2>4
<1>3. \A k \in Nat : k \in Good
  <2> HIDE DEF Good
  <2> QED
    BY <1>1, <1>2, NatInd
<1> QED
  BY <1>3

LEMMA FollowedIs ==
  ASSUME NEW tree, Sound(tree), NEW q \in Path
  PROVE  /\ LinksOn(tree, q) = {} => Followed(tree)[q] = q
         /\ LinksOn(tree, q) # {} =>
              \E i \in LinksOn(tree, q) :
                /\ \A j \in LinksOn(tree, q) : i <= j
                /\ tree[SubSeq(q, 1, i)].c \in DOMAIN LinkTo
                /\ Followed(tree)[q] = Redirect(q, i, tree[SubSeq(q, 1, i)].c)
         /\ Followed(tree)[q] \in Path
<1> DEFINE L == LinksOn(tree, q)
           i == Min(L)
           c == tree[SubSeq(q, 1, i)].c
<1>1. Followed(tree)[q] = IF L = {} THEN q ELSE Redirect(q, i, c)
  BY DEF Followed
<1>2. L \subseteq 1..Len(q) /\ Len(q) \in Nat
  BY EmptyPath DEF LinksOn
<1>3. CASE L = {}
  BY <1>1, <1>3
<1>4. CASE L # {}
  <2>1. \E x \in L : \A y \in L : x <= y
    <3>1. L \in SUBSET Nat
      BY <1>2
    <3> HIDE DEF L
    <3> QED
      BY <1>4, <3>1, NatMin
  <2>2. i \in L /\ \A y \in L : i <= y
    <3> HIDE DEF L
    <3> QED
      BY <2>1 DEF Min
  <2>3. IsA(tree, SubSeq(q, 1, i), "link")
    BY <2>2 DEF LinksOn
  <2>4. c \in DOMAIN LinkTo
    BY <2>3 DEF Sound, IsA, Has
  <2>5. i \in 1..Len(q)
    BY <1>2, <2>2
  <2> HIDE DEF L, i, c
  <2>6. SubSeq(q, 1, i) = SubSeq(q, 1, i) /\ Redirect(q, i, c) \in Path
    <3>1. PICK n \in STRING : TRUE
      BY ArgAssumption
    <3> QED
      BY <2>4, <2>5, RedirectAppend
  <2> QED
    BY <1>1, <1>4, <2>2, <2>4, <2>6 DEF L, i, c
<1> QED
  BY <1>3, <1>4

(* What is walked, step by step.                                            *)
LEMMA WalkIs ==
  ASSUME NEW tree, Sound(tree), NEW q \in Path
  PROVE  /\ Walk(tree, q)[0] = q
         /\ \A n \in 0..MaxLinks : Walk(tree, q)[n] \in Path
         /\ \A n \in 1..MaxLinks : Walk(tree, q)[n] = Followed(tree)[Walk(tree, q)[n - 1]]
         /\ Real(tree, q) = Walk(tree, q)[MaxLinks] /\ Real(tree, q) \in Path
<1> DEFINE F == Followed(tree)
           Body(f) == [n \in 0..MaxLinks |-> IF n = 0 THEN q ELSE F[f[n - 1]]]
           w == CHOOSE f : f = Body(f)
<1>1. Walk(tree, q) = w
  BY DEF Walk
<1>2. \A r \in Path : F[r] \in Path
  BY FollowedIs
<1> HIDE DEF F
<1>3. PICK f : f \in WalksOn(F, q, MaxLinks, Path)
  BY <1>2, Iteration
<1>4. w = Body(w)
  <2>1. f \in [0..MaxLinks -> Path] /\ f[0] = q /\ \A n \in 1..MaxLinks : f[n] = F[f[n - 1]]
    BY <1>3 DEF WalksOn
  <2>2. ASSUME NEW n \in 0..MaxLinks PROVE f[n] = Body(f)[n]
    <3>1. n = 0 \/ n \in 1..MaxLinks
      OBVIOUS
    <3> QED
      BY <2>1, <3>1
  <2>3. f = [n \in 0..MaxLinks |-> f[n]]
    BY <2>1
  <2>4. f = Body(f)
    BY <2>2, <2>3
  <2> HIDE DEF Body
  <2> QED
    BY <2>4
<1> HIDE DEF w
<1>5. \A n \in 0..MaxLinks : w[n] = IF n = 0 THEN q ELSE F[w[n - 1]]
  <2>1. \A n \in 0..MaxLinks : Body(w)[n] = IF n = 0 THEN q ELSE F[w[n - 1]]
    OBVIOUS
  <2> HIDE DEF Body
  <2> QED
    BY <1>4, <2>1
<1>6. w[0] = q /\ \A n \in 1..MaxLinks : w[n] = F[w[n - 1]]
  BY <1>5
<1> DEFINE Good == {k \in Nat : k <= MaxLinks => w[k] \in Path}
<1>7. \A k \in Nat : k \in Good
  <2>1. 0 \in Good
    BY <1>6
  <2>2. ASSUME NEW k \in Nat, k \in Good PROVE k + 1 \in Good
    <3> SUFFICES ASSUME k + 1 <= MaxLinks PROVE w[k + 1] \in Path
      OBVIOUS
    <3>1. k + 1 \in 1..MaxLinks /\ (k + 1) - 1 = k /\ w[k] \in Path
      BY <2>2
    <3>2. w[k + 1] = F[w[k]]
      BY <1>6, <3>1
    <3> QED
      BY <1>2, <3>1, <3>2
  <2> HIDE DEF Good
  <2> QED
    BY <2>1, <2>2, NatInd
<1>8. \A n \in 0..MaxLinks : w[n] \in Path
  BY <1>7
<1> QED
  BY <1>1, <1>6, <1>8 DEF F, Real

(* Where there is no link any more the walk stays.                          *)
LEMMA WalkStays ==
  ASSUME NEW tree, Sound(tree), NEW q \in Path, NEW n \in 0..MaxLinks,
         LinksOn(tree, Walk(tree, q)[n]) = {}
  PROVE  Real(tree, q) = Walk(tree, q)[n]
<1> DEFINE w == Walk(tree, q)
           Good == {k \in Nat : n + k <= MaxLinks => w[n + k] = w[n]}
<1>1. \A m \in 1..MaxLinks : w[m] = Followed(tree)[w[m - 1]]
  BY WalkIs
<1>2. w[n] \in Path /\ Followed(tree)[w[n]] = w[n]
  BY WalkIs, FollowedIs
<1> HIDE DEF w
<1>3. \A k \in Nat : k \in Good
  <2>1. 0 \in Good
    OBVIOUS
  <2>2. ASSUME NEW k \in Nat, k \in Good PROVE k + 1 \in Good
    <3> SUFFICES ASSUME n + (k + 1) <= MaxLinks PROVE w[n + (k + 1)] = w[n]
      OBVIOUS
    <3>1. n + (k + 1) \in 1..MaxLinks /\ (n + (k + 1)) - 1 = n + k /\ w[n + k] = w[n]
      BY <2>2
    <3> QED
      BY <1>1, <1>2, <3>1
  <2> HIDE DEF Good
  <2> QED
    BY <2>1, <2>2, NatInd
<1>4. MaxLinks - n \in Nat /\ n + (MaxLinks - n) = MaxLinks
  OBVIOUS
<1>5. w[MaxLinks] = w[n]
  BY <1>3, <1>4
<1> QED
  BY <1>5, WalkIs DEF w

LEMMA RealRoot == ASSUME NEW tree, Sound(tree) PROVE Real(tree, << >>) = << >>
<1>1. << >> \in Path /\ Len(<< >>) = 0
  BY EmptyPath
<1>2. LinksOn(tree, << >>) = {}
  BY <1>1 DEF LinksOn
<1>3. 0 \in 0..MaxLinks /\ Walk(tree, << >>)[0] = << >>
  BY <1>1, WalkIs
<1> QED
  BY <1>1, <1>2, <1>3, WalkStays

(* What is not a link itself is where its directory is.                     *)
LEMMA RealAppend ==
  ASSUME NEW tree, Sound(tree), NEW q \in Path, NEW n \in STRING,
         ~IsA(tree, Append(Real(tree, q), n), "link")
  PROVE  Real(tree, Append(q, n)) = Append(Real(tree, q), n)
<1> DEFINE w == Walk(tree, q)
           v == Walk(tree, Append(q, n))
           Good == {k \in Nat : k <= MaxLinks => v[k] = Append(w[k], n)}
<1>1. /\ w[0] = q /\ (\A k \in 0..MaxLinks : w[k] \in Path)
      /\ \A k \in 1..MaxLinks : w[k] = Followed(tree)[w[k - 1]]
      /\ Real(tree, q) = w[MaxLinks]
  BY WalkIs
<1>2. /\ v[0] = Append(q, n)
      /\ \A k \in 1..MaxLinks : v[k] = Followed(tree)[v[k - 1]]
      /\ Real(tree, Append(q, n)) = v[MaxLinks]
  <2> DEFINE qn == Append(q, n)
  <2>1. qn \in Path
    BY AppendPath
  <2> HIDE DEF qn
  <2>2. /\ Walk(tree, qn)[0] = qn
        /\ \A k \in 1..MaxLinks : Walk(tree, qn)[k] = Followed(tree)[Walk(tree, qn)[k - 1]]
        /\ Real(tree, qn) = Walk(tree, qn)[MaxLinks]
    BY <2>1, WalkIs
  <2> QED
    BY <2>2 DEF qn
<1>3. ASSUME NEW r \in Path, LinksOn(tree, r) # {} \/ r = Real(tree, q)
      PROVE  Followed(tree)[Append(r, n)] = Append(Followed(tree)[r], n)
  <2> DEFINE rn == Append(r, n)
  <2>1. rn \in Path /\ Len(r) \in Nat /\ Len(rn) = Len(r) + 1
    BY AppendPath
  <2>2. \A i \in 1..Len(r) : SubSeq(rn, 1, i) = SubSeq(r, 1, i)
    BY CutAppend
  <2>3. SubSeq(rn, 1, Len(r) + 1) = rn
    BY <2>1, SubSeqFull DEF Path
  <2> HIDE DEF rn
  <2>4. LinksOn(tree, r) = {i \in LinksOn(tree, rn) : i <= Len(r)}
    <3>1. ASSUME NEW i \in LinksOn(tree, r) PROVE i \in LinksOn(tree, rn) /\ i <= Len(r)
      <4>1. i \in 1..Len(r) /\ IsA(tree, SubSeq(r, 1, i), "link")
        BY DEF LinksOn
      <4>2. i \in 1..Len(rn)
        BY <2>1, <4>1
      <4>3. IsA(tree, SubSeq(rn, 1, i), "link")
        BY <2>2, <4>1
      <4> QED
        BY <2>1, <4>1, <4>2, <4>3 DEF LinksOn
    <3>2. ASSUME NEW i \in LinksOn(tree, rn), i <= Len(r) PROVE i \in LinksOn(tree, r)
      <4>1. i \in 1..Len(rn) /\ IsA(tree, SubSeq(rn, 1, i), "link")
        BY DEF LinksOn
      <4>2. i \in 1..Len(r)
        BY <2>1, <3>2, <4>1
      <4>3. IsA(tree, SubSeq(r, 1, i), "link")
        BY <2>2, <4>1, <4>2
      <4> QED
        BY <4>2, <4>3 DEF LinksOn
    <3> QED
      BY <3>1, <3>2
  <2>5. CASE LinksOn(tree, r) # {}
    <3>1. PICK i \in LinksOn(tree, r) :
                /\ \A j \in LinksOn(tree, r) : i <= j
                /\ tree[SubSeq(r, 1, i)].c \in DOMAIN LinkTo
                /\ Followed(tree)[r] = Redirect(r, i, tree[SubSeq(r, 1, i)].c)
      BY <2>5, FollowedIs
    <3>2. PICK k \in LinksOn(tree, rn) :
                /\ \A j \in LinksOn(tree, rn) : k <= j
                /\ Followed(tree)[rn] = Redirect(rn, k, tree[SubSeq(rn, 1, k)].c)
      BY <2>1, <2>4, <2>5, FollowedIs
    <3>3. i \in 1..Len(r) /\ k \in 1..(Len(r) + 1)
      BY <2>1 DEF LinksOn
    <3>4. i = k
      BY <2>1, <2>4, <3>1, <3>2, <3>3
    <3> DEFINE c == tree[SubSeq(r, 1, i)].c
    <3>5. Followed(tree)[rn] = Redirect(rn, i, c)
      BY <2>2, <3>2, <3>3, <3>4
    <3>6. c \in DOMAIN LinkTo
      BY <3>1
    <3>7. Followed(tree)[r] = Redirect(r, i, c)
      BY <3>1
    <3> HIDE DEF c
    <3>8. Redirect(rn, i, c) = Append(Redirect(r, i, c), n)
      BY <3>3, <3>6, RedirectAppend DEF rn
    <3> QED
      BY <3>5, <3>7, <3>8 DEF rn
  <2>6. CASE LinksOn(tree, r) = {} /\ r = Real(tree, q)
    <3>1. ~IsA(tree, rn, "link")
      BY <2>6 DEF rn
    <3>2. LinksOn(tree, rn) = {}
      <4> SUFFICES ASSUME NEW i \in LinksOn(tree, rn) PROVE FALSE
        OBVIOUS
      <4>1. i \in 1..(Len(r) + 1) /\ IsA(tree, SubSeq(rn, 1, i), "link")
        BY <2>1 DEF LinksOn
      <4>2. i = Len(r) + 1
        BY <2>1, <2>4, <2>6, <4>1
      <4> QED
        BY <2>3, <3>1, <4>1, <4>2
    <3> QED
      BY <2>1, <2>6, <3>2, FollowedIs DEF rn
  <2> QED
    BY <1>3, <2>5, <2>6
<1>4. \A k \in 0..MaxLinks : LinksOn(tree, w[k]) = {} => w[k] = Real(tree, q)
  BY WalkStays
<1> HIDE DEF w, v
<1>5. \A k \in Nat : k \in Good
  <2>1. 0 \in Good
    BY <1>1, <1>2
  <2>2. ASSUME NEW k \in Nat, k \in Good PROVE k + 1 \in Good
    <3> SUFFICES ASSUME k + 1 <= MaxLinks PROVE v[k + 1] = Append(w[k + 1], n)
      OBVIOUS
    <3>1. k + 1 \in 1..MaxLinks /\ k \in 0..MaxLinks /\ (k + 1) - 1 = k /\ v[k] = Append(w[k], n)
      BY <2>2
    <3>2. v[k + 1] = Followed(tree)[Append(w[k], n)] /\ w[k + 1] = Followed(tree)[w[k]]
      BY <1>1, <1>2, <3>1
    <3>3. w[k] \in Path /\ (LinksOn(tree, w[k]) # {} \/ w[k] = Real(tree, q))
      BY <1>1, <1>4, <3>1
    <3> QED
      BY <1>3, <3>2, <3>3
  <2> HIDE DEF Good
  <2> QED
    BY <2>1, <2>2, NatInd
<1>6. v[MaxLinks] = Append(w[MaxLinks], n)
  BY <1>5
<1> QED
  BY <1>1, <1>2, <1>6

(* The two trees have the same link at q, or none.                          *)
SameLink(s, t, q) ==
  /\ IsA(s, q, "link") <=> IsA(t, q, "link")
  /\ IsA(s, q, "link") => s[q].c = t[q].c

(* If the links that are met are the same, the same is met.                 *)
LEMMA SameWalk ==
  ASSUME NEW s, Sound(s), NEW t, Sound(t), NEW q \in Path,
         \A n \in 0..MaxLinks : \A i \in 1..Len(Walk(s, q)[n]) :
            SameLink(s, t, SubSeq(Walk(s, q)[n], 1, i))
  PROVE  /\ \A n \in 0..MaxLinks : Walk(t, q)[n] = Walk(s, q)[n]
         /\ Real(t, q) = Real(s, q)
<1> DEFINE w == Walk(s, q)
           v == Walk(t, q)
           Good == {k \in Nat : k <= MaxLinks => v[k] = w[k]}
<1>1. /\ w[0] = q /\ (\A k \in 0..MaxLinks : w[k] \in Path)
      /\ \A k \in 1..MaxLinks : w[k] = Followed(s)[w[k - 1]]
      /\ Real(s, q) = w[MaxLinks]
  BY WalkIs
<1>2. /\ v[0] = q
      /\ \A k \in 1..MaxLinks : v[k] = Followed(t)[v[k - 1]]
      /\ Real(t, q) = v[MaxLinks]
  BY WalkIs
<1>3. ASSUME NEW r \in Path, \A i \in 1..Len(r) : SameLink(s, t, SubSeq(r, 1, i))
      PROVE  Followed(t)[r] = Followed(s)[r]
  <2>1. LinksOn(s, r) = LinksOn(t, r)
    BY <1>3 DEF LinksOn, SameLink
  <2>2. LinksOn(s, r) \subseteq 1..Len(r)
    BY DEF LinksOn
  <2>3. \A i \in LinksOn(s, r) : s[SubSeq(r, 1, i)].c = t[SubSeq(r, 1, i)].c
    BY <1>3, <2>2 DEF LinksOn, SameLink
  <2>4. CASE LinksOn(s, r) = {}
    BY <2>1, <2>4, FollowedIs
  <2>5. CASE LinksOn(s, r) # {}
    <3>1. PICK i \in LinksOn(s, r) :
                /\ \A j \in LinksOn(s, r) : i <= j
                /\ Followed(s)[r] = Redirect(r, i, s[SubSeq(r, 1, i)].c)
      BY <2>5, FollowedIs
    <3>2. PICK k \in LinksOn(s, r) :
                /\ \A j \in LinksOn(s, r) : k <= j
                /\ Followed(t)[r] = Redirect(r, k, t[SubSeq(r, 1, k)].c)
      BY <2>1, <2>5, FollowedIs
    <3>3. i \in Nat /\ k \in Nat /\ i <= k /\ k <= i
      BY <2>2, <3>1, <3>2, EmptyPath
    <3>4. i = k
      BY <3>3
    <3> QED
      BY <2>3, <3>1, <3>2, <3>4
  <2> QED
    BY <2>4, <2>5
<1>4. \A k \in 0..MaxLinks : Followed(t)[w[k]] = Followed(s)[w[k]]
  BY <1>1, <1>3
<1> HIDE DEF w, v
<1>5. \A k \in Nat : k \in Good
  <2>1. 0 \in Good
    BY <1>1, <1>2
  <2>2. ASSUME NEW k \in Nat, k \in Good PROVE k + 1 \in Good
    <3> SUFFICES ASSUME k + 1 <= MaxLinks PROVE v[k + 1] = w[k + 1]
      OBVIOUS
    <3>1. k + 1 \in 1..MaxLinks /\ k \in 0..MaxLinks /\ (k + 1) - 1 = k /\ v[k] = w[k]
      BY <2>2
    <3> QED
      BY <1>1, <1>2, <1>4, <3>1
  <2> HIDE DEF Good
  <2> QED
    BY <2>1, <2>2, NatInd
<1>6. \A n \in 0..MaxLinks : v[n] = w[n]
  BY <1>5
<1> QED
  BY <1>1, <1>2, <1>6 DEF v, w

(* What mkdir, symlink and clonefile make, and in what.                     *)
LEMMA SpotIs ==
  ASSUME NEW tree, Sound(tree), NEW q \in Path, q # << >>
  PROVE  /\ Spot(tree, q) \in Path /\ Spot(tree, q) # << >>
         /\ Front(Spot(tree, q)) = Real(tree, Front(q)) /\ Last(Spot(tree, q)) = Last(q)
         /\ ~IsA(tree, Spot(tree, q), "link") => Real(tree, q) = Spot(tree, q)
<1>1. Front(q) \in Path /\ Last(q) \in STRING /\ q = Append(Front(q), Last(q))
  BY FrontPath
<1>2. Real(tree, Front(q)) \in Path
  BY <1>1, WalkIs
<1>3. Spot(tree, q) = Append(Real(tree, Front(q)), Last(q))
  BY DEF Spot
<1>4. /\ Spot(tree, q) \in Path /\ Spot(tree, q) # << >>
      /\ Front(Spot(tree, q)) = Real(tree, Front(q)) /\ Last(Spot(tree, q)) = Last(q)
  <2> DEFINE r == Real(tree, Front(q))
             n == Last(q)
  <2>1. r \in Path /\ n \in STRING
    BY <1>1, <1>2
  <2> HIDE DEF r, n
  <2>2. Append(r, n) \in Path /\ Append(r, n) # << >>
    BY <2>1, AppendPath
  <2>3. Front(Append(r, n)) = r /\ Last(Append(r, n)) = n
    BY <2>1, FrontAppend
  <2> QED
    BY <1>3, <2>2, <2>3 DEF r, n
<1>5. ASSUME ~IsA(tree, Spot(tree, q), "link") PROVE Real(tree, q) = Spot(tree, q)
  <2>1. Real(tree, Append(Front(q), Last(q))) = Append(Real(tree, Front(q)), Last(q))
    BY <1>1, <1>3, <1>5, RealAppend
  <2> QED
    BY <1>1, <1>3, <2>1
<1> QED
  BY <1>4, <1>5

-----------------------------------------------------------------------------
(* The source.                                                              *)
Given == env \in Envs /\ src \in Sources /\ before \in Dests

LEMMA SourceNodes ==
  ASSUME Given, NEW p, Has(src, p)
  PROVE  /\ p \in Path /\ src[p] \in Node /\ src[p].c # Torn
         /\ src[p].t = "link" => src[p].c \in DOMAIN LinkTo
  BY TreesAssumption DEF Given, Has

LEMMA BeforeSound == Given => Sound(before)
  BY TreesAssumption DEF Given, Sound

LEMMA CopiedPath ==
  ASSUME Given, NEW p \in Copied
  PROVE  /\ p \in Path /\ Len(p) \in Nat /\ Has(src, p)
         /\ To(p) \in Path /\ To(p) # << >>
<1>1. Has(src, p)
  BY DEF Copied, Has
<1>2. p \in Path
  BY <1>1, SourceNodes
<1> QED
  BY <1>1, <1>2, EmptyPath, ToPath

(* The nodes that are copied are a tree.                                    *)
LEMMA ParentCopied ==
  ASSUME Given, NEW p \in Copied, p # << >>
  PROVE  /\ Front(p) \in Copied /\ src[Front(p)].t = "dir"
         /\ Len(p) \in Nat \ {0} /\ Len(Front(p)) = Len(p) - 1
         /\ Last(p) \in STRING \ Ignored
         /\ p = Append(Front(p), Last(p))
<1>1. p \in Path /\ Has(src, p) /\ \A i \in DOMAIN p : p[i] \notin Ignored
  BY CopiedPath DEF Copied
<1>2. /\ Front(p) \in Path /\ Last(p) \in STRING
      /\ Len(p) \in Nat \ {0} /\ Len(Front(p)) = Len(p) - 1
      /\ \A i \in 1..(Len(p) - 1) : Front(p)[i] = p[i]
      /\ p = Append(Front(p), Last(p))
  BY <1>1, FrontPath
<1>3. Has(src, Front(p)) /\ src[Front(p)].t = "dir"
  BY <1>1, SourcesAssumption DEF Given, Has
<1>4. DOMAIN p = 1..Len(p) /\ DOMAIN Front(p) = 1..(Len(p) - 1)
  BY <1>1, <1>2, LenProperties DEF Path
<1>5. Front(p) \in Copied
  BY <1>1, <1>2, <1>3, <1>4 DEF Copied, Has
<1>6. Last(p) \notin Ignored
  BY <1>1, <1>2, <1>4 DEF Last
<1> QED
  BY <1>2, <1>3, <1>5, <1>6

LEMMA RootCopied == Given => << >> \in Copied /\ << >> \in Path
<1>1. DOMAIN << >> = {}
  OBVIOUS
<1> QED
  BY <1>1, SourcesAssumption, EmptyPath DEF Given, Copied

LEMMA EntryTypes ==
  ASSUME Given, NEW d
  PROVE  /\ Entries(d) \subseteq STRING \ Ignored
         /\ \A n \in Entries(d) : Has(src, Append(d, n))
<1>1. \A p \in DOMAIN src \ {<< >>} : Last(p) \in STRING
  BY SourceNodes, FrontPath DEF Has
<1> QED
  BY <1>1 DEF Entries

LEMMA EntryCopied ==
  ASSUME Given, NEW d \in Copied, NEW n \in Entries(d)
  PROVE  /\ Append(d, n) \in Copied /\ Append(d, n) # << >>
         /\ Front(Append(d, n)) = d /\ n \in STRING
<1>1. d \in Path /\ (\A i \in DOMAIN d : d[i] \notin Ignored) /\ n \in STRING \ Ignored
      /\ Has(src, Append(d, n))
  BY CopiedPath, EntryTypes DEF Copied
<1> DEFINE p == Append(d, n)
<1>2. /\ p \in Path /\ p # << >> /\ Len(d) \in Nat /\ Len(p) = Len(d) + 1
      /\ \A i \in 1..Len(d) : p[i] = d[i]
      /\ p[Len(d) + 1] = n
  BY <1>1, AppendPath
<1>3. Front(p) = d
  BY <1>1, FrontAppend
<1>4. Has(src, p)
  BY <1>1
<1> HIDE DEF p
<1>5. DOMAIN p = 1..(Len(d) + 1) /\ DOMAIN d = 1..Len(d)
  BY <1>1, <1>2, LenProperties DEF Path
<1>6. ASSUME NEW i \in 1..(Len(d) + 1) PROVE p[i] \notin Ignored
  <2>1. CASE i \in 1..Len(d)
    BY <1>1, <1>2, <1>5, <2>1
  <2>2. CASE i = Len(d) + 1
    BY <1>1, <1>2, <2>2
  <2> QED
    BY <1>2, <2>1, <2>2
<1>7. p \in Copied
  BY <1>4, <1>5, <1>6 DEF Copied, Has
<1> QED
  BY <1>1, <1>2, <1>3, <1>7 DEF p

(* The path that mkdirs is given, cut off somewhere.                        *)
Cuts(q) == {SubSeq(q, 1, k) : k \in 1..Len(q)}

LEMMA FrontCut ==
  ASSUME NEW q \in Path, NEW k \in 1..Len(q)
  PROVE  SubSeq(q, 1, k) # << >> /\ Front(SubSeq(q, 1, k)) = SubSeq(q, 1, k - 1)
<1> DEFINE a == SubSeq(q, 1, k)
           b == SubSeq(q, 1, k - 1)
<1>1. k \in 0..Len(q) /\ k - 1 \in 0..Len(q) /\ k \in Nat \ {0}
  BY EmptyPath
<1>2. a \in Path /\ Len(a) = k /\ \A j \in 1..k : a[j] = q[j]
  BY <1>1, CutPath
<1>3. b \in Path /\ Len(b) = k - 1 /\ \A j \in 1..(k - 1) : b[j] = q[j]
  BY <1>1, CutPath
<1> HIDE DEF a, b
<1>4. a # << >>
  BY <1>1, <1>2, EmptyPath
<1>5. Front(a) \in Path /\ Len(Front(a)) = k - 1 /\ \A j \in 1..(k - 1) : Front(a)[j] = a[j]
  BY <1>2, <1>4, FrontPath
<1>6. Front(a) = b
  BY <1>1, <1>2, <1>3, <1>5, SamePath
<1> QED
  BY <1>4, <1>6 DEF a, b

(* Cut off, it is the place of a directory of the source.                   *)
LEMMA CutCopied ==
  ASSUME Given, NEW p \in Copied, NEW q \in Cuts(To(p))
  PROVE  \E d \in Copied : q = To(d) /\ (q # To(p) => src[d].t = "dir") /\ (q = To(p) => d = p)
<1>1. p \in Path /\ To(p) \in Path /\ Len(To(p)) = Len(p) + 1 /\ Len(p) \in Nat
  BY CopiedPath, ToPath
<1> DEFINE t == To(p)
           IsTo(s) == \E d \in Copied : s = To(d) /\ (s # t => src[d].t = "dir") /\ (s = t => d = p)
           Good == {k \in Nat : k <= Len(p) => IsTo(SubSeq(t, 1, Len(p) + 1 - k))}
<1>2. 0 \in Good
  <2>1. SubSeq(t, 1, Len(p) + 1 - 0) = t
    BY <1>1, SubSeqFull DEF Path
  <2> HIDE DEF t
  <2> QED
    BY <2>1 DEF t
<1>3. ASSUME NEW k \in Nat, k \in Good PROVE k + 1 \in Good
  <2> SUFFICES ASSUME k + 1 <= Len(p) PROVE IsTo(SubSeq(t, 1, Len(p) + 1 - (k + 1)))
    OBVIOUS
  <2> DEFINE s == SubSeq(t, 1, Len(p) + 1 - k)
             r == SubSeq(t, 1, Len(p) + 1 - (k + 1))
  <2>1. PICK d \in Copied : s = To(d)
    BY <1>1, <1>3
  <2>2. Len(p) + 1 - k \in 1..Len(t) /\ (Len(p) + 1 - k) - 1 = Len(p) + 1 - (k + 1)
    BY <1>1
  <2>3. Front(s) = r
    BY <1>1, <2>2, FrontCut
  <2>4. Len(s) = Len(p) + 1 - k /\ Len(r) = Len(p) + 1 - (k + 1)
    <3>1. Len(p) + 1 - k \in 0..Len(t) /\ Len(p) + 1 - (k + 1) \in 0..Len(t)
      BY <1>1
    <3> QED
      BY <1>1, <3>1, CutPath
  <2>5. d \in Path /\ Len(To(d)) = Len(d) + 1 /\ Len(d) \in Nat
    BY CopiedPath, ToPath
  <2>6. d # << >>
    BY <1>1, <2>1, <2>4, <2>5, EmptyPath
  <2>7. Front(d) \in Copied /\ src[Front(d)].t = "dir"
    BY <2>6, ParentCopied
  <2>8. Front(To(d)) = To(Front(d))
    BY <2>5, <2>6, ToFront
  <2>9. r = To(Front(d))
    BY <2>1, <2>3, <2>8
  <2>10. r # t
    BY <1>1, <2>4
  <2> HIDE DEF r, t, s
  <2> QED
    BY <2>7, <2>9, <2>10 DEF r
<1>4. \A k \in Nat : k \in Good
  <2> HIDE DEF Good
  <2> QED
    BY <1>2, <1>3, NatInd
<1>5. PICK i \in 1..Len(t) : q = SubSeq(t, 1, i)
  BY DEF Cuts
<1>6. Len(p) + 1 - i \in Nat /\ Len(p) + 1 - i <= Len(p) /\ Len(p) + 1 - (Len(p) + 1 - i) = i
  BY <1>1
<1>7. IsTo(SubSeq(t, 1, i))
  BY <1>4, <1>6
<1> HIDE DEF t
<1> QED
  BY <1>5, <1>7 DEF t

-----------------------------------------------------------------------------
(* Types.                                                                   *)
JobSet == [op : {"idle", "visit", "symlink", "open", "write"}, from : Path, at : Path,
           c : Data \cup {Empty}, errno : {"0", "clone"}]

Frames ==
  /\ stack \in Seq(Frame)
  /\ \A i \in DOMAIN stack :
       /\ stack[i].left \subseteq Entries(stack[i].from)
       /\ stack[i].from \in Copied /\ src[stack[i].from].t = "dir"

(* What is being copied, and what is known of it.                           *)
JobSane ==
  job.op # "idle" =>
    /\ job.from \in Copied
    /\ job.op = "visit" => job.at \in Cuts(To(job.from))
    /\ job.op = "symlink" =>
         /\ src[job.from].t = "link" /\ job.c \in DOMAIN LinkTo
         /\ job.c = src[job.from].c \/ (misread /\ job.from \in missed)
    /\ job.op \in {"open", "write"} => src[job.from].t = "file"
    /\ job.op = "open" /\ env.mac => ~Has(dst, Here)
    /\ job.op = "write" => IsA(dst, job.at, "file")

TypeInv == TypeOK /\ Given /\ Sound(dst) /\ Frames /\ JobSane

(* What depends on the two trees only stays.                                *)
LEMMA Unmoved ==
  ASSUME UNCHANGED given
  PROVE  /\ Copied' = Copied /\ Given' = Given /\ src' = src /\ env' = env /\ before' = before
         /\ \A d : Entries(d)' = Entries(d)
<1>1. src' = src /\ env' = env /\ before' = before
  BY DEF given
<1>2. Copied' = Copied
  BY <1>1 DEF Copied
<1>3. Given' = Given
  BY <1>1 DEF Given
<1>4. ASSUME NEW d PROVE Entries(d)' = Entries(d)
  BY <1>1 DEF Entries, Has
<1> QED
  BY <1>1, <1>2, <1>3, <1>4

LEMMA GivenKept == [Next]_vars => UNCHANGED given
<1> SUFFICES ASSUME [Next]_vars PROVE UNCHANGED given
  OBVIOUS
<1>1. CASE Step
  BY <1>1 DEF Step, Mkdir, NotDir, NextEntry, EndOfDir, BadType, Readlink, Symlink, LinkFail,
     LinkUnlink, Clone, CloneExists, CloneUnlink, CloneFail, NoClone, Open, OpenFail, Write
<1>2. CASE Fault
  BY <1>2 DEF Fault, ReaddirFail, ReadlinkFail, UnlinkFail, CloseFail, Fail
<1>3. CASE Start \/ UNCHANGED vars
  BY <1>3 DEF Start, vars, given
<1> QED
  BY <1>1, <1>2, <1>3 DEF Next

LEMMA IdleType == Idle \in JobSet /\ Idle.op = "idle"
  BY EmptyPath DEF Idle, JobSet

LEMMA NoFrames ==
  ASSUME stack' = << >>
  PROVE  Frames'
<1>1. << >> \in Seq(Frame)
  BY EmptySeq
<1>2. DOMAIN << >> = {}
  OBVIOUS
<1> QED
  BY <1>1, <1>2 DEF Frames

LEMMA SameFrames ==
  ASSUME Frames, UNCHANGED stack, UNCHANGED given
  PROVE  Frames'
  BY Unmoved DEF Frames

(* The parts of the type invariant that an action may disturb.              *)
LEMMA TypeParts ==
  ASSUME TypeInv, UNCHANGED given, Sound(dst'), Frames', job' \in JobSet, JobSane',
         job'.op # "idle" => result' = "running",
         result' \in {"none", "running", "ok", "failed"},
         runs' \in 0..MaxRun, fails' \in 0..MaxFail,
         missed' \subseteq DOMAIN src, misread' \in BOOLEAN
  PROVE  TypeInv'
<1>1. /\ Copied' = Copied /\ Given' = Given /\ src' = src /\ env' = env /\ before' = before
      /\ \A d : Entries(d)' = Entries(d)
  BY Unmoved
<1>2. env \in Env
  BY EnvsAssumption DEF TypeInv, Given
<1>3. job'.op # "idle" => Has(src, job'.from)
  BY <1>1 DEF JobSane, Copied, Has
<1>4. \A q \in DOMAIN dst' : q \in Path /\ dst'[q] \in Node
  BY DEF Sound
<1>5. stack' \in Seq(Frame) /\ \A i \in DOMAIN stack' : stack'[i].left \subseteq Entries(stack'[i].from)
  BY <1>1 DEF Frames
<1>6. TypeOK'
  BY <1>1, <1>2, <1>3, <1>4, <1>5 DEF TypeOK, JobSet, Has
<1> QED
  BY <1>1, <1>6 DEF TypeInv, Sound

(* A call that returns, and one that is given up.                           *)
LEMMA TypeIdle ==
  ASSUME TypeInv, UNCHANGED given, Sound(dst'), UNCHANGED stack \/ stack' = << >>, job' = Idle,
         result' \in {"running", "ok", "failed"},
         UNCHANGED runs, fails' \in 0..MaxFail, UNCHANGED noted
  PROVE  TypeInv'
<1>1. Frames'
  BY NoFrames, SameFrames DEF TypeInv
<1>2. Idle \in JobSet /\ Idle.op = "idle"
  BY IdleType
<1>3. JobSane'
  BY <1>2 DEF JobSane
<1>4. runs \in 0..MaxRun /\ missed \subseteq DOMAIN src /\ misread \in BOOLEAN
  BY DEF TypeInv, TypeOK
<1> QED
  BY <1>1, <1>2, <1>3, <1>4, TypeParts DEF noted

LEMMA TypeInit == Init => TypeInv
<1> SUFFICES ASSUME Init PROVE TypeInv
  OBVIOUS
<1>1. Given
  BY DEF Init, Given
<1>2. Sound(dst)
  BY TreesAssumption DEF Init, Sound
<1>3. Frames
  <2>1. << >> \in Seq(Frame)
    BY EmptySeq
  <2> QED
    BY <2>1 DEF Frames, Init
<1>4. job \in JobSet /\ job.op = "idle"
  BY IdleType DEF Init
<1>5. runs \in 0..MaxRun /\ fails \in 0..MaxFail /\ result = "none" /\ missed = {} /\ misread = FALSE
  BY DEF Init
<1> QED
  BY <1>1, <1>2, <1>3, <1>4, <1>5, EnvsAssumption
  DEF TypeInv, TypeOK, Given, Sound, Frames, JobSane, JobSet

(* mkdirs goes on, or the directory is opened.                              *)
LEMMA TypeEnter ==
  ASSUME TypeInv, UNCHANGED given, UNCHANGED noted, Visiting("dir"), Enter
  PROVE  /\ Frames' /\ job' \in JobSet /\ JobSane'
         /\ \/ /\ job' = Idle /\ job.at = To(job.from)
               /\ stack' = Append(stack, [from |-> job.from, left |-> Entries(job.from)])
            \/ /\ UNCHANGED stack /\ job.at # To(job.from)
               /\ job'.op = "visit" /\ job'.from = job.from /\ job'.errno = job.errno
               /\ job'.at \in Cuts(To(job.from)) /\ Front(job'.at) = job.at
<1>1. /\ Given /\ Frames /\ job \in JobSet /\ job.op = "visit" /\ src[job.from].t = "dir"
      /\ job.from \in Copied /\ job.at \in Cuts(To(job.from))
  BY DEF TypeInv, TypeOK, JobSane, JobSet, Visiting
<1>2. /\ src' = src /\ Copied' = Copied /\ \A d : Entries(d)' = Entries(d)
  BY Unmoved
<1>a. CASE job.at = To(job.from)
  <2> DEFINE frame == [from |-> job.from, left |-> Entries(job.from)]
  <2>1. frame \in Frame
    BY <1>1, EntryTypes, CopiedPath DEF Frame
  <2>2. stack' = Append(stack, frame) /\ stack \in Seq(Frame) /\ job' = Idle
    BY <1>a, <1>1 DEF Enter, Frames
  <2>3. frame.from = job.from /\ frame.left = Entries(job.from)
    OBVIOUS
  <2> HIDE DEF frame
  <2>4. /\ stack' \in Seq(Frame) /\ Len(stack') = Len(stack) + 1
        /\ \A i \in 1..Len(stack) : stack'[i] = stack[i]
        /\ stack'[Len(stack) + 1] = frame
    BY <2>1, <2>2, AppendProperties
  <2>5. DOMAIN stack = 1..Len(stack) /\ DOMAIN stack' = 1..(Len(stack) + 1) /\ Len(stack) \in Nat
    BY <2>2, <2>4, LenProperties
  <2>6. ASSUME NEW i \in DOMAIN stack'
        PROVE  /\ stack'[i].left \subseteq Entries(stack'[i].from)
               /\ stack'[i].from \in Copied /\ src[stack'[i].from].t = "dir"
    <3>1. CASE i \in DOMAIN stack
      BY <1>1, <2>4, <2>5, <3>1 DEF Frames
    <3>2. CASE i = Len(stack) + 1
      <4>1. stack'[i] = frame
        BY <2>4, <3>2
      <4> QED
        BY <1>1, <2>3, <4>1
    <3> QED
      BY <2>5, <3>1, <3>2
  <2>7. Frames'
    BY <1>2, <2>4, <2>6 DEF Frames
  <2>8. job' \in JobSet /\ JobSane'
    BY <2>2, IdleType DEF JobSane
  <2> QED
    BY <1>a, <2>2, <2>7, <2>8 DEF frame
<1>b. CASE job.at # To(job.from)
  <2> DEFINE t == To(job.from)
  <2>1. t \in Path /\ Len(t) \in Nat
    BY <1>1, CopiedPath, EmptyPath
  <2>2. PICK k \in 1..Len(t) : job.at = SubSeq(t, 1, k)
    BY <1>1 DEF Cuts
  <2>3. SubSeq(t, 1, Len(t)) = t
    BY <2>1, SubSeqFull DEF Path
  <2>4. k + 1 \in 1..Len(t) /\ (k + 1) - 1 = k
    <3>1. job.at # t
      BY <1>b, SMTT(60)
    <3> HIDE DEF t
    <3>2. k # Len(t)
      BY <2>2, <2>3, <3>1
    <3> QED
      BY <2>1, <3>2
  <2>5. Len(job.at) = k
    <3>1. k \in 0..Len(t)
      OBVIOUS
    <3> QED
      BY <2>1, <2>2, <3>1, CutPath
  <2> DEFINE new == SubSeq(t, 1, k + 1)
  <2>6. job' = [job EXCEPT !.at = new] /\ UNCHANGED stack
    BY <1>b, <2>5 DEF Enter
  <2>7. new \in Path /\ new \in Cuts(t)
    <3>1. k + 1 \in 0..Len(t)
      BY <2>1, <2>4
    <3> QED
      BY <2>1, <2>4, <3>1, CutPath DEF Cuts
  <2>8. Front(new) = job.at
    BY <2>1, <2>2, <2>4, FrontCut
  <2> HIDE DEF new
  <2>9. /\ job' \in JobSet /\ job'.op = "visit" /\ job'.from = job.from /\ job'.at = new
        /\ job'.errno = job.errno
    BY <1>1, <2>6, <2>7 DEF JobSet
  <2>10. JobSane'
    BY <1>1, <1>2, <2>7, <2>9 DEF JobSane
  <2>11. Frames'
    BY <1>1, <2>6, SameFrames
  <2> QED
    BY <1>b, <2>6, <2>7, <2>8, <2>9, <2>10, <2>11
<1> QED
  BY <1>a, <1>b

(* The innermost directory is left.                                         *)
LEMMA TypeLeave ==
  ASSUME TypeInv, UNCHANGED given, Leave
  PROVE  /\ Frames' /\ result' \in {"ok", "running"}
         /\ Len(stack) \in DOMAIN stack /\ Len(stack) \in Nat
         /\ DOMAIN stack = 1..Len(stack) /\ DOMAIN stack' = 1..(Len(stack) - 1)
         /\ \A i \in 1..(Len(stack) - 1) : stack'[i] = stack[i]
         /\ result' = "ok" => stack' = << >>
<1>1. stack \in Seq(Frame) /\ stack # << >> /\ stack' = SubSeq(stack, 1, Len(stack) - 1)
  BY DEF Leave, TypeInv, Frames, Front
<1>2. /\ Len(stack) - 1 \in 0..Len(stack) /\ Len(stack) \in Nat /\ DOMAIN stack = 1..Len(stack)
      /\ Len(stack) \in DOMAIN stack
  BY <1>1, EmptySeq, LenProperties
<1>3. stack' \in Seq(Frame) /\ Len(stack') = Len(stack) - 1
      /\ \A i \in 1..(Len(stack) - 1) : stack'[i] = stack[i]
  BY <1>1, <1>2, SubSeqProperties
<1>4. DOMAIN stack' = 1..(Len(stack) - 1)
  BY <1>3, LenProperties
<1>5. Frames'
  BY <1>2, <1>3, <1>4, Unmoved DEF Frames, TypeInv
<1>6. result' = "ok" => stack' = << >>
  BY <1>2, <1>3, EmptySeq DEF Leave
<1> QED
  BY <1>2, <1>3, <1>4, <1>5, <1>6 DEF Leave

(* The next entry of the innermost directory is visited.                    *)
LEMMA TypeNext ==
  ASSUME TypeInv, NextEntry
  PROVE  /\ Frames' /\ job' \in JobSet /\ JobSane'
         /\ Len(stack) \in DOMAIN stack
         /\ \E n \in stack[Len(stack)].left :
              /\ job' = Visit(Append(stack[Len(stack)].from, n))
              /\ job'.op = "visit" /\ job'.from = Append(stack[Len(stack)].from, n)
              /\ job'.at = <<Arg>> /\ job'.errno = "0"
              /\ n \in Entries(stack[Len(stack)].from)
              /\ DOMAIN stack' = DOMAIN stack
              /\ \A i \in DOMAIN stack :
                   /\ stack'[i].from = stack[i].from
                   /\ stack'[i].left = IF i = Len(stack) THEN stack[i].left \ {n} ELSE stack[i].left
<1> DEFINE top == stack[Len(stack)]
<1>1. PICK n \in top.left :
        /\ job' = Visit(Append(top.from, n))
        /\ stack' = [stack EXCEPT ![Len(stack)].left = @ \ {n}]
  BY DEF NextEntry
<1>2. stack \in Seq(Frame) /\ stack # << >> /\ Given /\ UNCHANGED given
  BY DEF NextEntry, TypeInv, Frames
<1>3. Len(stack) \in 1..Len(stack) /\ Len(stack) \in Nat /\ DOMAIN stack = 1..Len(stack)
  BY <1>2, EmptySeq, LenProperties
<1>4. top \in Frame /\ top.left \subseteq Entries(top.from) /\ top.from \in Copied
  BY <1>2, <1>3, ElementOfSeq DEF TypeInv, Frames
<1> DEFINE p == Append(top.from, n)
<1>5. n \in Entries(top.from)
  BY <1>1, <1>4
<1>6. p \in Copied
  BY <1>2, <1>4, <1>5, EntryCopied
<1>7. p \in Path
  BY <1>2, <1>6, CopiedPath
<1>8. <<Arg>> \in Path /\ <<Arg>> \in Cuts(To(p))
  <2>1. To(p) \in Path /\ Len(To(p)) = Len(p) + 1 /\ Len(p) \in Nat /\ To(p)[1] = Arg
    BY <1>7, ToPath
  <2>2. 1 \in 1..Len(To(p)) /\ 1 \in 0..Len(To(p))
    BY <2>1
  <2>3. SubSeq(To(p), 1, 1) \in Path /\ Len(SubSeq(To(p), 1, 1)) = 1 /\ SubSeq(To(p), 1, 1)[1] = To(p)[1]
    BY <2>1, <2>2, CutPath
  <2>4. SubSeq(To(p), 1, 1) = <<Arg>>
    <3> DEFINE a == SubSeq(To(p), 1, 1)
               b == <<Arg>>
    <3>1. /\ a \in Path /\ Len(a) = 1 /\ a[1] = Arg
          /\ b \in Path /\ Len(b) = 1 /\ b[1] = Arg
      BY <2>1, <2>3, ArgPath
    <3> HIDE DEF a, b
    <3>2. \A i \in 1..Len(a) : a[i] = b[i]
      BY <3>1
    <3>3. a = b
      BY <3>1, <3>2, SamePath
    <3> QED
      BY <3>3 DEF a, b
  <2> QED
    BY <2>2, <2>4, ArgPath DEF Cuts
<1> HIDE DEF p
<1>9. /\ job' \in JobSet /\ job'.op = "visit" /\ job'.from = p /\ job'.at = <<Arg>>
      /\ job'.errno = "0" /\ job' = Visit(p)
  BY <1>1, <1>7, <1>8 DEF Visit, JobSet, p
<1>10. JobSane'
  BY <1>2, <1>6, <1>8, <1>9, Unmoved DEF JobSane
<1> DEFINE new == [top EXCEPT !.left = @ \ {n}]
<1>11. new \in Frame /\ new.from = top.from /\ new.left = top.left \ {n}
  BY <1>4 DEF Frame
<1>12. stack' = [stack EXCEPT ![Len(stack)] = new]
  BY <1>1
<1> HIDE DEF new
<1>13. stack' \in Seq(Frame) /\ DOMAIN stack' = DOMAIN stack
  BY <1>2, <1>3, <1>11, <1>12, ExceptSeq
<1>14. \A i \in DOMAIN stack : stack'[i] = IF i = Len(stack) THEN new ELSE stack[i]
  BY <1>2, <1>3, <1>12
<1>15. \A i \in DOMAIN stack :
         /\ stack'[i].from = stack[i].from
         /\ stack'[i].left = IF i = Len(stack) THEN stack[i].left \ {n} ELSE stack[i].left
  BY <1>3, <1>11, <1>14
<1>16. \A i \in DOMAIN stack : stack'[i].left \subseteq stack[i].left
  BY <1>15
<1>17. Frames'
  <2>1. src' = src /\ Copied' = Copied /\ \A d : Entries(d)' = Entries(d)
    BY <1>2, Unmoved
  <2>2. \A i \in DOMAIN stack' :
          /\ stack'[i].left \subseteq Entries(stack'[i].from)
          /\ stack'[i].from \in Copied /\ src[stack'[i].from].t = "dir"
    BY <1>13, <1>15, <1>16 DEF Frames, TypeInv
  <2> QED
    BY <1>13, <2>1, <2>2 DEF Frames
<1>18. Len(stack) \in DOMAIN stack
  BY <1>3
<1> QED
  BY <1>1, <1>5, <1>9, <1>10, <1>13, <1>15, <1>17, <1>18 DEF p

LEMMA TypeStep == TypeInv /\ [Next]_vars => TypeInv'
<1> SUFFICES ASSUME TypeInv, [Next]_vars PROVE TypeInv'
  OBVIOUS
<1> USE DEF counters, noted
<1>1. /\ Given /\ Sound(dst) /\ Frames /\ JobSane /\ job \in JobSet
      /\ (job.op # "idle" => result = "running" /\ Has(src, job.from) /\ job.from \in Copied)
      /\ result \in {"none", "running", "ok", "failed"}
      /\ runs \in 0..MaxRun /\ fails \in 0..MaxFail
      /\ missed \subseteq DOMAIN src /\ misread \in BOOLEAN
  BY DEF TypeInv, TypeOK, JobSet, JobSane
<1>2. UNCHANGED given
  BY GivenKept
<1>3. /\ src' = src /\ env' = env /\ Copied' = Copied
  BY <1>2, Unmoved
<1>4. CountFail => fails' \in 0..MaxFail
  BY <1>1 DEF CountFail
<1>5. job.op # "idle" => /\ src[job.from] \in Node
                         /\ src[job.from].t = "link" => src[job.from].c \in DOMAIN LinkTo
                         /\ job.from \in Path /\ To(job.from) \in Path /\ To(job.from) # << >>
  BY <1>1, SourceNodes, CopiedPath
<1>6. job.op # "idle" => Here \in Path /\ Here # << >>
  BY <1>1, <1>5, SpotIs DEF Here
<1>7. Sound(Without(dst, Here))
  BY <1>1, WithoutSound
<1>8. job.op # "idle" => Sound(With(dst, Here, src[job.from]))
  BY <1>1, <1>5, <1>6, WithSound
<1>9. job.at \in Path /\ job.from \in Path
  BY <1>1 DEF JobSet
<1>a. CASE Start
  <2>1. << >> \in Path /\ << >> \in Copied
    BY <1>1, RootCopied
  <2>2. To(<< >>) = <<Arg>> /\ <<Arg>> \in Path
    BY <2>1, ToFront, ArgPath
  <2>3. <<Arg>> \in Cuts(To(<< >>))
    <3>1. Len(<<Arg>>) = 1 /\ SubSeq(<<Arg>>, 1, Len(<<Arg>>)) = <<Arg>>
      BY <2>2, ArgPath, SubSeqFull DEF Path
    <3> QED
      BY <2>2, <3>1 DEF Cuts
  <2>4. job' \in JobSet /\ job'.op = "visit" /\ job'.from = << >> /\ job'.at = <<Arg>>
    BY <1>a, <2>1, <2>2 DEF Start, Visit, JobSet
  <2>5. JobSane'
    BY <1>3, <2>1, <2>3, <2>4 DEF JobSane
  <2>6. Frames'
    BY <1>1, <1>2, <1>a, SameFrames DEF Start
  <2>7. runs' \in 0..MaxRun
    BY <1>1, <1>a DEF Start
  <2> QED
    BY <1>1, <1>2, <1>a, <2>4, <2>5, <2>6, <2>7, TypeParts DEF Start
<1>b. CASE Mkdir
  <2> DEFINE q == Spot(dst, job.at)
             dir == [t |-> "dir", c |-> Empty]
  <2>1. Visiting("dir") /\ Enter /\ UNCHANGED <<result, runs, fails, missed, misread>>
    BY <1>b DEF Mkdir
  <2>2. q \in Path
    <3>1. PICK d \in Copied : job.at = To(d)
      BY <1>1, <2>1, CutCopied DEF JobSane, Visiting
    <3> QED
      BY <1>1, <3>1, CopiedPath, SpotIs
  <2>3. dir \in Node /\ dir.t # "link"
    BY NewNodes DEF Dir
  <2>4. Sound(With(dst, q, dir))
    BY <1>1, <2>2, <2>3, WithSound
  <2>5. Sound(dst')
    BY <1>1, <1>b, <2>4 DEF Mkdir
  <2>6. Frames' /\ job' \in JobSet /\ JobSane'
    BY <1>2, <2>1, TypeEnter
  <2>7. job'.op # "idle" => result' = "running"
    BY <1>1, <2>1 DEF Visiting
  <2> QED
    BY <1>1, <1>2, <2>1, <2>5, <2>6, <2>7, TypeParts
<1>c. CASE NextEntry
  <2>1. Frames' /\ job' \in JobSet /\ JobSane'
    BY <1>c, TypeNext
  <2>2. result = "running" /\ UNCHANGED <<dst, result, runs, fails, missed, misread>>
    BY <1>c DEF NextEntry
  <2> QED
    BY <1>1, <1>2, <2>1, <2>2, TypeParts
<1>d. CASE EndOfDir \/ ReaddirFail
  <2>1. Leave /\ UNCHANGED <<dst, job, runs, misread>> /\ fails' \in 0..MaxFail /\ job.op = "idle"
    BY <1>d, <1>1, <1>4 DEF EndOfDir, ReaddirFail, Leave
  <2>2. Frames' /\ result' \in {"ok", "running"} /\ Len(stack) \in DOMAIN stack
    BY <1>2, <2>1, TypeLeave
  <2>3. missed' \subseteq DOMAIN src
    <3>1. CASE EndOfDir
      BY <1>1, <3>1 DEF EndOfDir
    <3>2. CASE ReaddirFail
      <4> DEFINE top == stack[Len(stack)]
      <4>1. top.left \subseteq Entries(top.from) /\ Given
        BY <1>1, <2>2 DEF Frames
      <4>2. \A n \in top.left : Append(top.from, n) \in DOMAIN src
        BY <4>1, EntryTypes DEF Has
      <4>3. missed' = missed \cup {Append(top.from, n) : n \in top.left}
        BY <3>2 DEF ReaddirFail
      <4> QED
        BY <1>1, <4>2, <4>3
    <3> QED
      BY <1>d, <3>1, <3>2
  <2>4. JobSane'
    BY <2>1 DEF JobSane
  <2> QED
    BY <1>1, <1>2, <2>1, <2>2, <2>3, <2>4, TypeParts
<1>e. CASE NotDir \/ BadType \/ LinkFail \/ CloneExists \/ OpenFail
  BY <1>e, <1>1, <1>2, TypeIdle DEF NotDir, BadType, LinkFail, CloneExists, OpenFail, GiveUp
<1>f. CASE Fail
  BY <1>f, <1>1, <1>2, <1>4, TypeIdle DEF Fail, GiveUp
<1>g. CASE Readlink \/ ReadlinkFail
  <2>1. /\ job.op = "visit" /\ src[job.from].t = "link" /\ job.from \in Copied
        /\ UNCHANGED <<dst, stack, result, runs>> /\ fails' \in 0..MaxFail
    BY <1>g, <1>1, <1>4 DEF Readlink, ReadlinkFail, Visiting
  <2>2. PICK c \in DOMAIN LinkTo : job' = [job EXCEPT !.op = "symlink", !.c = c]
           /\ \/ c = src[job.from].c /\ UNCHANGED <<missed, misread>>
              \/ misread' = TRUE /\ missed' = missed \cup {job.from}
    BY <1>g, <1>1, <1>5, <2>1 DEF Readlink, ReadlinkFail
  <2>3. c \in Data
    BY LinksAssumption
  <2>4. job' \in JobSet /\ job'.op = "symlink" /\ job'.from = job.from /\ job'.c = c
    BY <1>1, <2>2, <2>3 DEF JobSet
  <2>5. JobSane'
    BY <1>3, <2>1, <2>2, <2>4 DEF JobSane
  <2>6. Frames'
    BY <1>1, <1>2, <2>1, SameFrames
  <2>7. missed' \subseteq DOMAIN src /\ misread' \in BOOLEAN
    BY <1>1, <2>1, <2>2 DEF Has
  <2> QED
    BY <1>1, <1>2, <2>1, <2>4, <2>5, <2>6, <2>7, TypeParts
<1>h. CASE Symlink
  <2> DEFINE node == [t |-> "link", c |-> job.c]
  <2>1. job.op = "symlink" /\ job.c \in DOMAIN LinkTo
    BY <1>h, <1>1 DEF Symlink, JobSane
  <2>2. node \in Node /\ node.c \in DOMAIN LinkTo
    BY <2>1, NewLink
  <2>3. Sound(With(dst, Here, node))
    BY <1>1, <1>6, <2>1, <2>2, WithSound
  <2> QED
    BY <1>h, <1>1, <1>2, <2>3, TypeIdle DEF Symlink, Succeed
<1>i. CASE Clone
  <2>1. Sound(dst')
    BY <1>i, <1>8 DEF Clone, Visiting
  <2> QED
    BY <1>i, <1>1, <1>2, <2>1, TypeIdle DEF Clone, Succeed
<1>j. CASE LinkUnlink \/ CloneUnlink \/ UnlinkFail
  <2>1. /\ job.op \in {"visit", "symlink"} /\ UNCHANGED <<job, stack, result, runs, missed, misread>>
        /\ fails' \in 0..MaxFail
    BY <1>j, <1>1, <1>4 DEF LinkUnlink, CloneUnlink, UnlinkFail, Visiting
  <2>2. Sound(dst')
    BY <1>j, <1>1, <1>7 DEF LinkUnlink, CloneUnlink, UnlinkFail
  <2>3. JobSane'
    BY <1>1, <1>3, <2>1 DEF JobSane
  <2>4. Frames'
    BY <1>1, <1>2, <2>1, SameFrames
  <2> QED
    BY <1>1, <1>2, <2>1, <2>2, <2>3, <2>4, TypeParts
<1>k. CASE CloneFail \/ NoClone
  <2>1. /\ job.op = "visit" /\ src[job.from].t = "file" /\ job.from \in Copied
        /\ UNCHANGED <<dst, stack, result, runs, missed, misread>>
        /\ fails' \in 0..MaxFail /\ (env.mac => ~Has(dst, Here))
    BY <1>k, <1>1, <1>4 DEF CloneFail, NoClone, Visiting
  <2>2. job' \in JobSet /\ job'.op = "open" /\ job'.from = job.from
    BY <1>k, <1>1 DEF CloneFail, NoClone, JobSet
  <2>3. JobSane'
    BY <1>3, <2>1, <2>2 DEF JobSane, Here, Has
  <2>4. Frames'
    BY <1>1, <1>2, <2>1, SameFrames
  <2> QED
    BY <1>1, <1>2, <2>1, <2>2, <2>3, <2>4, TypeParts
<1>l. CASE Open
  <2> DEFINE q == Real(dst, To(job.from))
             new == [t |-> "file", c |-> Torn]
  <2>1. job.op = "open" /\ UNCHANGED <<stack, result, runs, fails, missed, misread>>
        /\ src[job.from].t = "file" /\ job.from \in Copied
    BY <1>l, <1>1 DEF Open, JobSane
  <2>2. new \in Node /\ new.t # "link" /\ new.t = "file"
    BY NewNodes DEF TornFile
  <2>3. q \in Path
    BY <1>1, <1>5, <2>1, WalkIs
  <2>4. dst' = With(dst, q, new) /\ job' = [job EXCEPT !.op = "write", !.at = q]
    BY <1>l DEF Open
  <2>5. Sound(dst')
    BY <1>1, <2>2, <2>3, <2>4, WithSound
  <2>6. IsA(dst', q, "file")
    <3> HIDE DEF q, new
    <3>1. dst' = With(dst, q, new)
      BY <2>4 DEF q, new
    <3>2. DOMAIN dst' = DOMAIN dst \cup {q} /\ dst'[q] = new
      BY <3>1 DEF With
    <3> QED
      BY <2>2, <3>2 DEF IsA, Has
  <2> HIDE DEF q, new
  <2>7. job' \in JobSet /\ job'.op = "write" /\ job'.from = job.from /\ job'.at = q
    BY <1>1, <2>3, <2>4 DEF JobSet
  <2>8. JobSane'
    BY <1>3, <2>1, <2>6, <2>7 DEF JobSane, IsA, Has
  <2>9. Frames'
    BY <1>1, <1>2, <2>1, SameFrames
  <2> QED
    BY <1>1, <1>2, <2>1, <2>5, <2>7, <2>8, <2>9, TypeParts
<1>m. CASE Write \/ CloseFail
  <2>1. job.op = "write" /\ dst' = With(dst, job.at, src[job.from]) /\ fails' \in 0..MaxFail
    BY <1>m, <1>1, <1>4 DEF Write, CloseFail
  <2>2. Sound(dst')
    BY <1>1, <1>5, <1>9, <2>1, WithSound
  <2> QED
    BY <1>m, <1>1, <1>2, <2>1, <2>2, TypeIdle DEF Write, CloseFail, Succeed, GiveUp
<1>n. CASE UNCHANGED vars
  <2>1. UNCHANGED <<dst, stack, job, result, runs, fails, missed, misread>>
    BY <1>n DEF vars
  <2>2. Frames'
    BY <1>1, <1>2, <2>1, SameFrames
  <2>3. JobSane'
    BY <1>1, <1>3, <2>1 DEF JobSane, Here, IsA, Has
  <2> QED
    BY <1>1, <1>2, <2>1, <2>2, <2>3, TypeParts
<1> QED
  BY <1>a, <1>b, <1>c, <1>d, <1>e, <1>f, <1>g, <1>h, <1>i, <1>j, <1>k, <1>l, <1>m, <1>n
  DEF Next, Step, Fault

(* Every reachable state has its type, for any trees.                       *)
THEOREM TypeCorrect == Spec => []TypeOK
<1>1. TypeInv => TypeOK
  BY DEF TypeInv
<1> QED
  BY <1>1, TypeInit, TypeStep, PTL DEF Spec

-----------------------------------------------------------------------------
(* NoClobber.  The bytes of a file are copied only to where nothing is.     *)
Kept ==
  env.mac /\ ~env.force =>
    /\ \A q \in DOMAIN before : q \in DOMAIN dst /\ dst[q] = before[q]
    /\ job.op = "write" => job.at \notin DOMAIN before

KeptInv == TypeInv /\ Kept

LEMMA KeptInit == Init => KeptInv
  BY TypeInit DEF Init, KeptInv, Kept, Idle

(* A node is put where nothing is.                                          *)
LEMMA KeptWith ==
  ASSUME Kept, env' = env, before' = before, env.mac /\ ~env.force,
         NEW q, q \notin DOMAIN before, NEW node, dst' = With(dst, q, node),
         job'.op = "write" => job'.at = q
  PROVE  Kept'
<1>1. /\ DOMAIN dst' = DOMAIN dst \cup {q}
      /\ \A r \in DOMAIN dst \ {q} : dst'[r] = dst[r]
  BY DEF With
<1> QED
  BY <1>1 DEF Kept

(* On macOS bytes are copied to the place where nothing is.                 *)
LEMMA OpenSpot ==
  ASSUME TypeInv, job.op = "open", env.mac
  PROVE  ~Has(dst, Here) /\ Real(dst, To(job.from)) = Here
<1>1. ~Has(dst, Here) /\ Sound(dst) /\ Given /\ job.from \in Copied
  BY DEF TypeInv, JobSane
<1>2. To(job.from) \in Path /\ To(job.from) # << >>
  BY <1>1, CopiedPath
<1> QED
  BY <1>1, <1>2, SpotIs DEF Here, IsA

LEMMA KeptStep == KeptInv /\ [Next]_vars => KeptInv'
<1> SUFFICES ASSUME KeptInv, [Next]_vars PROVE Kept'
  BY TypeStep DEF KeptInv
<1> USE DEF Has, given
<1>1. TypeInv /\ Kept /\ job \in JobSet
  BY DEF KeptInv, TypeInv, TypeOK, JobSet
<1>2. env' = env /\ before' = before /\ Idle.op = "idle"
  BY GivenKept, IdleType
<1> SUFFICES ASSUME env.mac /\ ~env.force PROVE Kept'
  BY <1>2 DEF Kept
<1>3. \A q : q \notin DOMAIN dst => q \notin DOMAIN before
  BY <1>1 DEF Kept
<1>a. CASE Mkdir
  <2>1. job'.op # "write"
    BY <1>a, <1>1, TypeEnter, IdleType DEF Mkdir, noted
  <2>2. CASE UNCHANGED dst
    BY <1>1, <1>2, <2>1, <2>2 DEF Kept
  <2>3. CASE Spot(dst, job.at) \notin DOMAIN dst /\ dst' = With(dst, Spot(dst, job.at), Dir)
    BY <1>1, <1>2, <1>3, <2>1, <2>3, KeptWith
  <2> QED
    BY <1>a, <2>2, <2>3 DEF Mkdir, Dir
<1>b. CASE Start \/ NextEntry \/ Readlink \/ ReadlinkFail
  <2>1. UNCHANGED dst
    BY <1>b DEF Start, NextEntry, Readlink, ReadlinkFail
  <2>2. job'.op # "write"
    <3>1. CASE Start
      BY <3>1 DEF Start, Visit
    <3>2. CASE NextEntry
      BY <1>1, <3>2, TypeNext
    <3>3. CASE Readlink \/ ReadlinkFail
      <4>1. PICK c : job' = [job EXCEPT !.op = "symlink", !.c = c]
        BY <3>3 DEF Readlink, ReadlinkFail
      <4> QED
        BY <1>1, <4>1 DEF JobSet
    <3> QED
      BY <1>b, <3>1, <3>2, <3>3
  <2> QED
    BY <1>1, <1>2, <2>1, <2>2 DEF Kept
<1>c. CASE NotDir \/ BadType \/ LinkFail \/ CloneExists \/ OpenFail \/ Fail
  <2>1. UNCHANGED dst /\ job' = Idle
    BY <1>c DEF NotDir, BadType, LinkFail, CloneExists, OpenFail, Fail, GiveUp
  <2> QED
    BY <1>1, <1>2, <2>1 DEF Kept
<1>d. CASE Symlink \/ Clone
  <2>1. job' = Idle /\ Here \notin DOMAIN dst /\ \E node : dst' = With(dst, Here, node)
    BY <1>d DEF Symlink, Clone, Succeed
  <2> QED
    BY <1>1, <1>2, <1>3, <2>1, KeptWith
<1>e. CASE CloneFail
  <2>1. UNCHANGED dst /\ job'.op # "write"
    BY <1>e, <1>1 DEF CloneFail, JobSet
  <2> QED
    BY <1>1, <1>2, <2>1 DEF Kept
<1>f. CASE Open
  <2>1. job.op = "open"
    BY <1>f DEF Open
  <2>2. Here \notin DOMAIN dst /\ Real(dst, To(job.from)) = Here
    BY <1>1, <2>1, OpenSpot
  <2>3. dst' = With(dst, Here, TornFile) /\ job'.at = Here
    BY <1>f, <1>1, <2>2 DEF Open, TornFile, JobSet
  <2> QED
    BY <1>1, <1>2, <1>3, <2>2, <2>3, KeptWith
<1>g. CASE Write \/ CloseFail
  <2>1. job.op = "write" /\ job' = Idle /\ dst' = With(dst, job.at, src[job.from])
    BY <1>g DEF Write, CloseFail, Succeed, GiveUp
  <2>2. job.at \notin DOMAIN before
    BY <1>1, <2>1 DEF Kept
  <2> QED
    BY <1>1, <1>2, <2>1, <2>2, KeptWith
<1>h. CASE EndOfDir \/ ReaddirFail \/ UNCHANGED vars
  <2>1. UNCHANGED <<dst, job>>
    BY <1>h DEF EndOfDir, ReaddirFail, vars
  <2> QED
    BY <1>1, <1>2, <2>1 DEF Kept
<1>i. ~LinkUnlink /\ ~CloneUnlink /\ ~UnlinkFail /\ ~NoClone
  BY DEF LinkUnlink, CloneUnlink, UnlinkFail, NoClone
<1> QED
  BY <1>a, <1>b, <1>c, <1>d, <1>e, <1>f, <1>g, <1>h, <1>i DEF Next, Step, Fault

(* On macOS and without -f nothing in the destination is ever changed, for  *)
(* any trees and however many calls fail.                                   *)
THEOREM NoClobberAlways == Spec => []NoClobber
<1>1. KeptInv => NoClobber
  BY DEF KeptInv, Kept, NoClobber, Has
<1> QED
  BY <1>1, KeptInit, KeptStep, PTL DEF Spec

-----------------------------------------------------------------------------
(* TornByFailure.  The file being written is one of the torn ones.          *)
TornSet(tree) == {q \in DOMAIN tree : tree[q].c = Torn}

TornInv ==
  /\ TypeInv
  /\ IsFiniteSet(TornSet(dst))
  /\ job.op = "write" => job.at \in TornSet(dst)
  /\ TornByFailure

(* What a step leaves torn that was not decides the count.                  *)
LEMMA TornLess ==
  ASSUME TornInv, TypeInv', TornSet(dst') \subseteq TornSet(dst),
         job'.op # "write", fails' >= fails,
         job.op = "write" => job.at \notin TornSet(dst') \/ fails' = fails + 1
  PROVE  TornInv'
<1> DEFINE T == TornSet(dst)
<1>1. IsFiniteSet(TornSet(dst')) /\ Cardinality(TornSet(dst')) \in Nat
      /\ Cardinality(TornSet(dst')) <= Cardinality(T) /\ Cardinality(T) \in Nat
  BY FS_Subset, FS_CardinalityType DEF TornInv
<1>2. fails \in Nat /\ fails' \in Nat
  BY DEF TornInv, TypeInv, TypeOK
<1>3. Cardinality(TornSet(dst')) <= fails'
  <2>1. CASE job.op # "write"
    BY <1>1, <1>2, <2>1 DEF TornInv, TornByFailure, TornSet
  <2>2. CASE job.op = "write" /\ fails' = fails + 1
    BY <1>1, <1>2, <2>2 DEF TornInv, TornByFailure, TornSet
  <2>3. CASE job.op = "write" /\ job.at \notin TornSet(dst')
    <3>1. job.at \in T /\ IsFiniteSet(T)
      BY <2>3 DEF TornInv
    <3>2. IsFiniteSet(T \ {job.at}) /\ Cardinality(T \ {job.at}) = Cardinality(T) - 1
      BY <3>1, FS_RemoveElement
    <3>3. Cardinality(TornSet(dst')) <= Cardinality(T \ {job.at})
      BY <2>3, <3>2, FS_Subset
    <3>4. Cardinality(T) <= fails + 1
      BY <2>3 DEF TornInv, TornByFailure, TornSet
    <3> QED
      BY <1>1, <1>2, <3>2, <3>3, <3>4
  <2> QED
    BY <2>1, <2>2, <2>3
<1>4. TornByFailure'
  BY <1>2, <1>3 DEF TornByFailure, TornSet
<1> QED
  BY <1>1, <1>4 DEF TornInv

LEMMA TornWith ==
  ASSUME NEW tree, NEW q, NEW node
  PROVE  /\ node.c # Torn => TornSet(With(tree, q, node)) = TornSet(tree) \ {q}
         /\ node.c = Torn => TornSet(With(tree, q, node)) = TornSet(tree) \cup {q}
<1> DEFINE new == With(tree, q, node)
<1>1. /\ DOMAIN new = DOMAIN tree \cup {q}
      /\ new[q] = node
      /\ \A r \in DOMAIN tree \ {q} : new[r] = tree[r]
  BY DEF With
<1> HIDE DEF new
<1>2. /\ node.c # Torn => TornSet(new) = TornSet(tree) \ {q}
      /\ node.c = Torn => TornSet(new) = TornSet(tree) \cup {q}
  BY <1>1 DEF TornSet
<1> QED
  BY <1>2 DEF new

LEMMA TornWithout ==
  ASSUME NEW tree, NEW q
  PROVE  TornSet(Without(tree, q)) \subseteq TornSet(tree)
  BY DEF Without, TornSet

LEMMA TornInit == Init => TornInv
<1> SUFFICES ASSUME Init PROVE TornInv
  OBVIOUS
<1>1. TypeInv
  BY TypeInit
<1>2. TornSet(dst) = {}
  BY TreesAssumption DEF Init, TornSet
<1>3. IsFiniteSet({}) /\ Cardinality({}) = 0
  BY FS_EmptySet
<1>4. job.op = "idle" /\ fails = 0
  BY DEF Init, Idle
<1> QED
  BY <1>1, <1>2, <1>3, <1>4 DEF TornInv, TornByFailure, TornSet

LEMMA TornStep == TornInv /\ [Next]_vars => TornInv'
<1> SUFFICES ASSUME TornInv, [Next]_vars PROVE TornInv'
  OBVIOUS
<1> USE DEF counters
<1>1. TypeInv /\ TypeInv' /\ fails \in Nat /\ job \in JobSet
  BY TypeStep DEF TornInv, TypeInv, TypeOK, JobSet
<1>2. Idle.op = "idle"
  BY IdleType
<1>3. /\ job.op # "idle" => result = "running" /\ src[job.from].c # Torn
      /\ job.op = "symlink" => job.c # Torn
  BY <1>1, SourceNodes, LinksAssumption DEF TypeInv, TypeOK, JobSane
<1>4. Dir.c # Torn /\ TornFile.c = Torn
  BY DEF Dir, TornFile, Empty, Torn
<1>5. CountFail => fails' = fails + 1
  BY DEF CountFail
<1>a. CASE Mkdir
  <2>1. TornSet(dst') \subseteq TornSet(dst)
    <3>1. UNCHANGED dst \/ dst' = With(dst, Spot(dst, job.at), Dir)
      BY <1>a DEF Mkdir, Dir
    <3> QED
      BY <1>4, <3>1, TornWith
  <2>2. job.op = "visit" /\ job'.op # "write" /\ UNCHANGED fails
    BY <1>a, <1>1, TypeEnter, GivenKept, IdleType DEF Mkdir, Visiting, noted
  <2> QED
    BY <1>1, <2>1, <2>2, TornLess
<1>b. CASE Start \/ NextEntry \/ Readlink \/ ReadlinkFail
  <2>1. UNCHANGED dst /\ job.op # "write" /\ fails' >= fails
    <3>1. UNCHANGED dst /\ job.op # "write" /\ (UNCHANGED fails \/ CountFail)
      BY <1>b, <1>3 DEF Start, NextEntry, Readlink, ReadlinkFail, Visiting
    <3> QED
      BY <1>1, <1>5, <3>1
  <2>2. job'.op # "write"
    <3>1. CASE Start
      BY <3>1 DEF Start, Visit
    <3>2. CASE NextEntry
      BY <1>1, <3>2, TypeNext
    <3>3. CASE Readlink \/ ReadlinkFail
      <4>1. PICK c : job' = [job EXCEPT !.op = "symlink", !.c = c]
        BY <3>3 DEF Readlink, ReadlinkFail
      <4> QED
        BY <1>1, <4>1 DEF JobSet
    <3> QED
      BY <1>b, <3>1, <3>2, <3>3
  <2> QED
    BY <1>1, <2>1, <2>2, TornLess
<1>c. CASE NotDir \/ BadType \/ LinkFail \/ CloneExists \/ OpenFail
  <2>1. UNCHANGED <<dst, fails>> /\ job' = Idle /\ job.op # "write"
    BY <1>c DEF NotDir, BadType, LinkFail, CloneExists, OpenFail, GiveUp, Visiting
  <2> QED
    BY <1>1, <1>2, <2>1, TornLess
<1>d. CASE Symlink \/ Clone
  <2>1. PICK node : dst' = With(dst, Here, node) /\ node.c # Torn
    BY <1>d, <1>3 DEF Symlink, Clone, Visiting
  <2>2. job.op # "write" /\ UNCHANGED fails /\ job' = Idle
    BY <1>d DEF Symlink, Clone, Visiting, Succeed
  <2>3. TornSet(dst') \subseteq TornSet(dst)
    BY <2>1, TornWith
  <2> QED
    BY <1>1, <1>2, <2>2, <2>3, TornLess
<1>e. CASE LinkUnlink \/ CloneUnlink \/ UnlinkFail
  <2>1. job.op # "write" /\ UNCHANGED job /\ fails' >= fails
    BY <1>e, <1>1, <1>5 DEF LinkUnlink, CloneUnlink, UnlinkFail, Visiting
  <2>2. TornSet(dst') \subseteq TornSet(dst)
    BY <1>e, TornWithout DEF LinkUnlink, CloneUnlink, UnlinkFail
  <2> QED
    BY <1>1, <2>1, <2>2, TornLess
<1>f. CASE CloneFail \/ NoClone
  <2>1. job.op = "visit" /\ UNCHANGED dst /\ (fails' = fails \/ fails' = fails + 1)
    BY <1>f, <1>5 DEF CloneFail, NoClone, Visiting
  <2>2. job'.op = "open"
    BY <1>f, <1>1 DEF CloneFail, NoClone, JobSet
  <2> QED
    BY <1>1, <2>1, <2>2, TornLess
<1>g. CASE Open
  <2> DEFINE q == Real(dst, To(job.from))
  <2>1. TornSet(dst') = TornSet(dst) \cup {q}
    <3>1. dst' = With(dst, q, TornFile)
      BY <1>g DEF Open, TornFile
    <3> QED
      BY <1>4, <3>1, TornWith
  <2>2. job'.op = "write" /\ job'.at = q /\ UNCHANGED fails /\ job.op = "open"
    BY <1>g, <1>1 DEF Open, JobSet
  <2>3. IsFiniteSet(TornSet(dst)) /\ Cardinality(TornSet(dst)) <= fails
    BY <1>1, <2>2 DEF TornInv, TornByFailure, TornSet
  <2>4. /\ IsFiniteSet(TornSet(dst')) /\ Cardinality(TornSet(dst)) \in Nat
        /\ Cardinality(TornSet(dst')) \in {Cardinality(TornSet(dst)), Cardinality(TornSet(dst)) + 1}
    BY <2>1, <2>3, FS_AddElement, FS_CardinalityType
  <2>5. TornByFailure'
    BY <1>1, <2>2, <2>3, <2>4 DEF TornByFailure, TornSet
  <2> QED
    BY <1>1, <2>1, <2>2, <2>4, <2>5 DEF TornInv
<1>h. CASE Write \/ CloseFail
  <2>1. job.op = "write" /\ fails' >= fails /\ dst' = With(dst, job.at, src[job.from]) /\ job' = Idle
    BY <1>h, <1>1, <1>5 DEF Write, CloseFail, Succeed, GiveUp
  <2>2. TornSet(dst') = TornSet(dst) \ {job.at}
    BY <1>3, <2>1, TornWith
  <2> QED
    BY <1>1, <1>2, <2>1, <2>2, TornLess
<1>i. CASE EndOfDir \/ ReaddirFail
  <2>1. UNCHANGED <<dst, job>> /\ fails' >= fails /\ job.op = "idle"
    BY <1>i, <1>1, <1>5 DEF EndOfDir, ReaddirFail, Leave
  <2> QED
    BY <1>1, <2>1, TornLess
<1>j. CASE Fail
  <2>1. UNCHANGED dst /\ fails' = fails + 1 /\ job' = Idle
    BY <1>j, <1>5 DEF Fail, GiveUp
  <2> QED
    BY <1>1, <1>2, <2>1, TornLess
<1>k. CASE UNCHANGED vars
  BY <1>k, <1>1 DEF vars, TornInv, TornByFailure, TornSet
<1> QED
  BY <1>a, <1>b, <1>c, <1>d, <1>e, <1>f, <1>g, <1>h, <1>i, <1>j, <1>k DEF Next, Step, Fault

(* However often runs fail, no more files are torn than calls have failed,  *)
(* but for the one being written.                                           *)
THEOREM TornByFailureAlways == Spec => []TornByFailure
<1>1. TornInv => TornByFailure
  BY SMTT(60) DEF TornInv
<1> QED
  BY <1>1, TornInit, TornStep, PTL DEF Spec

-----------------------------------------------------------------------------
(* OthersKept.  Every link that is met holds what it held, or what a link   *)
(* of the source holds that was copied to its name.                         *)
Led(tree) == \A q \in DOMAIN tree : tree[q].t = "link" => tree[q].c \in MayHold(q)

LEMMA MayHoldLinks == ASSUME Given, NEW q PROVE MayHold(q) \subseteq DOMAIN LinkTo
<1>1. Sound(before)
  BY BeforeSound
<1>2. \A p \in Copied : src[p].t = "link" => src[p].c \in DOMAIN LinkTo
  BY CopiedPath, SourceNodes
<1> QED
  BY <1>1, <1>2 DEF MayHold, Sound, IsA, Has

(* What is reached, one link after the other.                               *)
LEMMA ReachedIs ==
  ASSUME Given, NEW q \in Path
  PROVE  /\ Reached(q)[0] = {q}
         /\ \A n \in 1..MaxLinks :
              Reached(q)[n] = Reached(q)[n - 1] \cup UNION {Turns(r) : r \in Reached(q)[n - 1]}
<1> DEFINE F == [S \in SUBSET Path |-> S \cup UNION {Turns(r) : r \in S}]
           Body(f) == [n \in 0..MaxLinks |->
                         IF n = 0 THEN {q}
                         ELSE f[n - 1] \cup UNION {Turns(r) : r \in f[n - 1]}]
           R == CHOOSE f : f = Body(f)
<1>1. Reached(q) = R
  BY DEF Reached
<1>2. ASSUME NEW r \in Path PROVE Turns(r) \subseteq Path
  <2> SUFFICES ASSUME NEW i \in 1..Len(r), NEW c \in MayHold(SubSeq(r, 1, i))
               PROVE Redirect(r, i, c) \in Path
    BY DEF Turns
  <2>1. c \in DOMAIN LinkTo
    BY MayHoldLinks
  <2> QED
    BY <2>1, ArgAssumption, RedirectAppend
<1>3. \A S \in SUBSET Path : F[S] = S \cup UNION {Turns(r) : r \in S} /\ F[S] \in SUBSET Path
  BY <1>2
<1> HIDE DEF F
<1>4. PICK f : f \in WalksOn(F, {q}, MaxLinks, SUBSET Path)
  <2>1. {q} \in SUBSET Path /\ \A S \in SUBSET Path : F[S] \in SUBSET Path
    BY <1>3
  <2>2. WalksOn(F, {q}, MaxLinks, SUBSET Path) # {}
    BY <2>1, Iteration
  <2> QED
    BY <2>2
<1>5. R = Body(R)
  <2>1. f \in [0..MaxLinks -> SUBSET Path] /\ f[0] = {q} /\ \A n \in 1..MaxLinks : f[n] = F[f[n - 1]]
    BY <1>4 DEF WalksOn
  <2>2. ASSUME NEW n \in 0..MaxLinks PROVE f[n] = Body(f)[n]
    <3>1. CASE n = 0
      BY <2>1, <3>1
    <3>2. CASE n \in 1..MaxLinks
      <4>1. n - 1 \in 0..MaxLinks /\ n # 0
        BY <3>2
      <4>2. f[n - 1] \in SUBSET Path
        BY <2>1, <4>1
      <4>3. f[n] = f[n - 1] \cup UNION {Turns(r) : r \in f[n - 1]}
        BY <1>3, <2>1, <3>2, <4>2
      <4> QED
        BY <4>1, <4>3
    <3> QED
      BY <3>1, <3>2
  <2>3. f = [n \in 0..MaxLinks |-> f[n]]
    BY <2>1
  <2>4. f = Body(f)
    BY <2>2, <2>3
  <2> HIDE DEF Body
  <2> QED
    BY <2>4
<1> HIDE DEF R
<1>6. \A n \in 0..MaxLinks :
        R[n] = IF n = 0 THEN {q} ELSE R[n - 1] \cup UNION {Turns(r) : r \in R[n - 1]}
  <2>1. \A n \in 0..MaxLinks :
          Body(R)[n] = IF n = 0 THEN {q} ELSE R[n - 1] \cup UNION {Turns(r) : r \in R[n - 1]}
    OBVIOUS
  <2> HIDE DEF Body
  <2> QED
    BY <1>5, <2>1
<1>7. R[0] = {q}
  <2>1. 0 \in 0..MaxLinks
    OBVIOUS
  <2>2. Body(R)[0] = {q}
    BY <2>1
  <2> HIDE DEF Body
  <2> QED
    BY <1>5, <2>2
<1>8. ASSUME NEW n \in 1..MaxLinks PROVE R[n] = R[n - 1] \cup UNION {Turns(r) : r \in R[n - 1]}
  <2>1. n \in 0..MaxLinks /\ n # 0
    OBVIOUS
  <2> DEFINE U == R[n - 1] \cup UNION {Turns(r) : r \in R[n - 1]}
  <2>2. R[n] = IF n = 0 THEN {q} ELSE U
    BY <1>6, <2>1
  <2> HIDE DEF U
  <2>3. R[n] = U
    BY <2>1, <2>2
  <2> QED
    BY <2>3 DEF U
<1> QED
  BY <1>1, <1>7, <1>8

(* By such links a walk leads nowhere else.                                 *)
LEMMA LedWalk ==
  ASSUME Given, NEW tree, Sound(tree), Led(tree), NEW q \in Path
  PROVE  Real(tree, q) \in Leads(q)
<1> DEFINE w == Walk(tree, q)
           R == Reached(q)
           Good == {k \in Nat : k <= MaxLinks => w[k] \in R[k]}
<1>1. /\ w[0] = q /\ (\A n \in 0..MaxLinks : w[n] \in Path)
      /\ \A n \in 1..MaxLinks : w[n] = Followed(tree)[w[n - 1]]
  BY WalkIs
<1>2. /\ R[0] = {q}
      /\ \A n \in 1..MaxLinks : R[n] = R[n - 1] \cup UNION {Turns(r) : r \in R[n - 1]}
  BY ReachedIs
<1>3. ASSUME NEW r \in Path PROVE Followed(tree)[r] = r \/ Followed(tree)[r] \in Turns(r)
  <2>1. CASE LinksOn(tree, r) = {}
    BY <2>1, FollowedIs
  <2>2. CASE LinksOn(tree, r) # {}
    <3>1. PICK i \in LinksOn(tree, r) :
                 Followed(tree)[r] = Redirect(r, i, tree[SubSeq(r, 1, i)].c)
      BY <2>2, FollowedIs
    <3>2. i \in 1..Len(r) /\ IsA(tree, SubSeq(r, 1, i), "link")
      BY DEF LinksOn
    <3>3. tree[SubSeq(r, 1, i)].c \in MayHold(SubSeq(r, 1, i))
      BY <3>2 DEF Led, IsA, Has
    <3> QED
      BY <3>1, <3>2, <3>3 DEF Turns
  <2> QED
    BY <2>1, <2>2
<1> HIDE DEF w, R
<1>4. \A k \in Nat : k \in Good
  <2>1. 0 \in Good
    BY <1>1, <1>2
  <2>2. ASSUME NEW k \in Nat, k \in Good PROVE k + 1 \in Good
    <3> SUFFICES ASSUME k + 1 <= MaxLinks PROVE w[k + 1] \in R[k + 1]
      OBVIOUS
    <3>1. k + 1 \in 1..MaxLinks /\ k \in 0..MaxLinks /\ (k + 1) - 1 = k /\ w[k] \in R[k]
      BY <2>2
    <3>2. w[k + 1] = w[k] \/ w[k + 1] \in Turns(w[k])
      BY <1>1, <1>3, <3>1
    <3>3. R[k + 1] = R[k] \cup UNION {Turns(r) : r \in R[k]}
      BY <1>2, <3>1
    <3> QED
      BY <3>1, <3>2, <3>3
  <2> HIDE DEF Good
  <2> QED
    BY <2>1, <2>2, NatInd
<1>5. w[MaxLinks] \in R[MaxLinks]
  BY <1>4
<1> QED
  BY <1>5 DEF w, R, Leads, Real

LEMMA LedSpot ==
  ASSUME Given, Sound(dst), Led(dst), NEW p \in Copied
  PROVE  /\ MayChange(Spot(dst, To(p)))
         /\ Last(Spot(dst, To(p))) = Last(To(p))
         /\ src[p].t = "file" /\ ~env.mac => MayChange(Real(dst, To(p)))
<1>1. To(p) \in Path /\ To(p) # << >>
  BY CopiedPath
<1>2. Front(To(p)) \in Path
  BY <1>1, FrontPath
<1>3. Real(dst, Front(To(p))) \in Leads(Front(To(p))) /\ Real(dst, To(p)) \in Leads(To(p))
  BY <1>1, <1>2, LedWalk
<1>4. Spot(dst, To(p)) \in Near(p)
  BY <1>3 DEF Spot, Near
<1> QED
  BY <1>1, <1>3, <1>4, SpotIs DEF MayChange

Others(tree) ==
  \A q \in DOMAIN before \cup DOMAIN tree :
    (Has(before, q) /\ Has(tree, q) /\ tree[q] = before[q]) \/ MayChange(q)

OthersInv ==
  /\ TypeInv
  /\ ~misread => Led(dst) /\ Others(dst) /\ (job.op = "write" => MayChange(job.at))

LEMMA OthersInit == Init => OthersInv
<1> SUFFICES ASSUME Init PROVE OthersInv
  OBVIOUS
<1>1. TypeInv
  BY TypeInit
<1>2. Led(dst)
  BY DEF Init, Led, MayHold, IsA, Has
<1>3. Others(dst) /\ job.op # "write"
  BY DEF Init, Others, Has, Idle
<1> QED
  BY <1>1, <1>2, <1>3 DEF OthersInv

(* A node that may change is made or taken away.                            *)
LEMMA OthersWith ==
  ASSUME NEW tree, Led(tree), Others(tree), NEW q, MayChange(q), NEW node,
         node.t = "link" => node.c \in MayHold(q)
  PROVE  Led(With(tree, q, node)) /\ Others(With(tree, q, node))
<1> DEFINE new == With(tree, q, node)
<1>1. /\ DOMAIN new = DOMAIN tree \cup {q}
      /\ new[q] = node
      /\ \A r \in DOMAIN tree \ {q} : new[r] = tree[r]
  BY DEF With
<1> HIDE DEF new
<1>2. Led(new)
  BY <1>1 DEF Led
<1>3. Others(new)
  BY <1>1 DEF Others, Has
<1> QED
  BY <1>2, <1>3 DEF new

LEMMA OthersWithout ==
  ASSUME NEW tree, Led(tree), Others(tree), NEW q, MayChange(q)
  PROVE  Led(Without(tree, q)) /\ Others(Without(tree, q))
<1> DEFINE new == Without(tree, q)
<1>1. DOMAIN new = DOMAIN tree \ {q} /\ \A r \in DOMAIN tree \ {q} : new[r] = tree[r]
  BY DEF Without
<1> HIDE DEF new
<1>2. Led(new)
  BY <1>1 DEF Led
<1>3. Others(new)
  BY <1>1 DEF Others, Has
<1> QED
  BY <1>2, <1>3 DEF new

(* Leads, with the two trees that it depends on as parameters.              *)
LeadsOf(s, b, q) ==
  LET Nodes == {p \in DOMAIN s : \A i \in DOMAIN p : p[i] \notin Ignored}
      Hold(r) == {b[x].c : x \in {x \in {r} : x \in DOMAIN b /\ b[x].t = "link"}}
                 \cup {s[p].c : p \in {p \in Nodes : s[p].t = "link" /\ Last(To(p)) = Last(r)}}
      Turn(r) == UNION {{Redirect(r, i, c) : c \in Hold(SubSeq(r, 1, i))} : i \in 1..Len(r)}
      reached[n \in 0..MaxLinks] ==
        IF n = 0 THEN {q}
        ELSE LET last == reached[n - 1] IN last \cup UNION {Turn(r) : r \in last}
  IN reached[MaxLinks]

(* What may change is decided by the two trees.                             *)
LEMMA MayUnmoved ==
  ASSUME UNCHANGED given
  PROVE  /\ \A q : MayHold(q)' = MayHold(q) /\ MayChange(q)' = MayChange(q)
         /\ UNCHANGED dst => Led(dst)' = Led(dst) /\ Others(dst)' = Others(dst)
<1>1. Copied' = Copied /\ src' = src /\ env' = env /\ before' = before
  BY Unmoved
<1>2. ASSUME NEW q PROVE MayHold(q)' = MayHold(q)
  BY <1>1 DEF MayHold, IsA, Has
<1>3. ASSUME NEW q PROVE Leads(q) = LeadsOf(src, before, q)
  BY DEF Leads, Reached, Turns, MayHold, Copied, IsA, Has, LeadsOf
<1>4. ASSUME NEW q PROVE Leads(q)' = LeadsOf(src', before', q)
  BY DEF Leads, Reached, Turns, MayHold, Copied, IsA, Has, LeadsOf
<1>5. ASSUME NEW q PROVE Leads(q)' = Leads(q)
  BY <1>1, <1>3, <1>4
<1>6. ASSUME NEW p PROVE Near(p)' = Near(p)
  BY <1>5 DEF Near
<1>7. ASSUME NEW q PROVE MayChange(q)' = MayChange(q)
  BY <1>1, <1>5, <1>6 DEF MayChange
<1>8. UNCHANGED dst => Led(dst)' = Led(dst)
  BY <1>2 DEF Led
<1>9. UNCHANGED dst => Others(dst)' = Others(dst)
  BY <1>1, <1>7 DEF Others, Has
<1> QED
  BY <1>2, <1>7, <1>8, <1>9

LEMMA OthersStep == OthersInv /\ [Next]_vars => OthersInv'
<1> SUFFICES ASSUME OthersInv, [Next]_vars PROVE OthersInv'
  OBVIOUS
<1>1. TypeInv /\ TypeInv' /\ Given /\ Sound(dst) /\ job \in JobSet /\ JobSane
  BY TypeStep DEF OthersInv, TypeInv, TypeOK, JobSet
<1>2. UNCHANGED given /\ Idle.op = "idle"
  BY GivenKept, IdleType
<1>3. /\ src' = src /\ env' = env /\ Copied' = Copied
      /\ \A q : MayChange(q)' = MayChange(q)
      /\ UNCHANGED dst => Led(dst)' = Led(dst) /\ Others(dst)' = Others(dst)
  BY <1>2, Unmoved, MayUnmoved, SMTT(60)
<1>4. misread' \in {misread, TRUE}
  BY DEF Next, Step, Fault, vars, noted, Start, Mkdir, NotDir, NextEntry, EndOfDir, BadType,
     Readlink, Symlink, LinkFail, LinkUnlink, Clone, CloneExists, CloneUnlink, CloneFail, NoClone,
     Open, OpenFail, Write, ReaddirFail, ReadlinkFail, UnlinkFail, CloseFail, Fail
<1>5. misread \in BOOLEAN
  BY <1>1 DEF TypeInv, TypeOK
<1> SUFFICES ASSUME ~misread, ~misread' PROVE Led(dst)' /\ Others(dst)' /\ (job'.op = "write" => MayChange(job'.at))
  BY <1>1, <1>3, <1>4, <1>5 DEF OthersInv
<1>6. Led(dst) /\ Others(dst) /\ (job.op = "write" => MayChange(job.at))
  BY DEF OthersInv
<1>7. UNCHANGED dst => Led(dst)' /\ Others(dst)'
  BY <1>3, <1>6
<1>8. job.op # "idle" => /\ MayChange(Here) /\ Last(Here) = Last(To(job.from))
                         /\ job.from \in Copied
  BY <1>1, <1>6, LedSpot DEF Here, JobSane
(* one node is made, or taken away *)
<1>9. ASSUME NEW q, MayChange(q), NEW node, node.t = "link" => node.c \in MayHold(q),
             dst' = With(dst, q, node)
      PROVE  Led(dst)' /\ Others(dst)'
  <2>1. Led(With(dst, q, node)) /\ Others(With(dst, q, node))
    BY <1>6, <1>9, OthersWith
  <2>2. \A x : MayHold(x)' = MayHold(x)
    BY <1>2, MayUnmoved
  <2>3. before' = before
    BY <1>2 DEF given
  <2>4. Led(dst') /\ Others(dst')
    BY <1>9, <2>1
  <2> QED
    BY <1>3, <2>2, <2>3, <2>4 DEF Led, Others, Has
<1>10. ASSUME NEW q, MayChange(q), dst' = Without(dst, q)
       PROVE  Led(dst)' /\ Others(dst)'
  <2>1. Led(Without(dst, q)) /\ Others(Without(dst, q))
    BY <1>6, <1>10, OthersWithout
  <2>2. \A x : MayHold(x)' = MayHold(x)
    BY <1>2, MayUnmoved
  <2>3. before' = before
    BY <1>2 DEF given
  <2>4. Led(dst') /\ Others(dst')
    BY <1>10, <2>1
  <2> QED
    BY <1>3, <2>2, <2>3, <2>4 DEF Led, Others, Has
<1>a. CASE Mkdir
  <2>1. job'.op # "write" /\ Visiting("dir")
    BY <1>a, <1>1, <1>2, TypeEnter DEF Mkdir
  <2>2. CASE dst' = With(dst, Spot(dst, job.at), Dir)
    <3>1. PICK d \in Copied : job.at = To(d)
      BY <1>1, <2>1, CutCopied DEF JobSane, Visiting
    <3>2. MayChange(Spot(dst, job.at))
      BY <1>1, <1>6, <3>1, LedSpot
    <3> QED
      BY <1>9, <2>1, <2>2, <3>2, NewNodes
  <2> QED
    BY <1>a, <1>7, <2>1, <2>2 DEF Mkdir, Dir
<1>b. CASE NextEntry \/ Start \/ Readlink
  <2>1. UNCHANGED dst
    BY <1>b DEF NextEntry, Start, Readlink
  <2>2. job'.op # "write"
    <3>1. CASE Start
      BY <3>1 DEF Start, Visit
    <3>2. CASE NextEntry
      BY <1>1, <3>2, TypeNext
    <3>3. CASE Readlink
      BY <1>1, <3>3 DEF Readlink, JobSet
    <3> QED
      BY <1>b, <3>1, <3>2, <3>3
  <2> QED
    BY <1>7, <2>1, <2>2
<1>c. CASE NotDir \/ BadType \/ LinkFail \/ CloneExists \/ OpenFail \/ Fail
  <2>1. UNCHANGED dst /\ job' = Idle
    BY <1>c DEF NotDir, BadType, LinkFail, CloneExists, OpenFail, Fail, GiveUp
  <2> QED
    BY <1>2, <1>7, <2>1
<1>d. CASE Symlink
  <2> DEFINE node == [t |-> "link", c |-> job.c]
  <2>1. job.op = "symlink" /\ dst' = With(dst, Here, node) /\ job' = Idle
    BY <1>d DEF Symlink, Succeed
  <2>2. src[job.from].t = "link" /\ job.c = src[job.from].c
    BY <1>1, <2>1 DEF JobSane
  <2>3. job.c \in MayHold(Here)
    BY <1>8, <2>1, <2>2 DEF MayHold
  <2>4. node.c = job.c
    OBVIOUS
  <2> QED
    BY <1>2, <1>8, <1>9, <2>1, <2>3, <2>4
<1>e. CASE Clone
  <2>1. job.op = "visit" /\ src[job.from].t = "file" /\ dst' = With(dst, Here, src[job.from]) /\ job' = Idle
    BY <1>e DEF Clone, Visiting, Succeed
  <2> QED
    BY <1>2, <1>8, <1>9, <2>1
<1>f. CASE LinkUnlink \/ CloneUnlink \/ UnlinkFail
  <2>1. job.op \in {"visit", "symlink"} /\ UNCHANGED job
    BY <1>f DEF LinkUnlink, CloneUnlink, UnlinkFail, Visiting
  <2>2. UNCHANGED dst \/ dst' = Without(dst, Here)
    BY <1>f DEF LinkUnlink, CloneUnlink, UnlinkFail
  <2> QED
    BY <1>7, <1>8, <1>10, <2>1, <2>2
<1>g. CASE CloneFail \/ NoClone
  <2>1. UNCHANGED dst /\ job'.op = "open"
    BY <1>g, <1>1 DEF CloneFail, NoClone, JobSet
  <2> QED
    BY <1>7, <2>1
<1>h. CASE Open
  <2> DEFINE q == Real(dst, To(job.from))
  <2>1. job.op = "open" /\ dst' = With(dst, q, TornFile) /\ job'.at = q
    BY <1>h, <1>1 DEF Open, TornFile, JobSet
  <2>2. job.from \in Copied /\ src[job.from].t = "file"
    BY <1>1, <2>1 DEF JobSane
  <2>3. MayChange(q)
    <3>1. CASE env.mac
      BY <1>1, <1>8, <2>1, <3>1, OpenSpot
    <3>2. CASE ~env.mac
      BY <1>1, <1>6, <2>2, <3>2, LedSpot
    <3> QED
      BY <3>1, <3>2
  <2> HIDE DEF q
  <2> QED
    BY <1>9, <2>1, <2>3, NewNodes
<1>i. CASE Write \/ CloseFail
  <2>1. job.op = "write" /\ job' = Idle /\ dst' = With(dst, job.at, src[job.from])
    BY <1>i DEF Write, CloseFail, Succeed, GiveUp
  <2>2. src[job.from].t = "file"
    BY <1>1, <2>1 DEF JobSane
  <2> QED
    BY <1>2, <1>6, <1>9, <2>1, <2>2
<1>j. CASE EndOfDir \/ ReaddirFail \/ UNCHANGED vars
  <2>1. UNCHANGED <<dst, job>>
    BY <1>j DEF EndOfDir, ReaddirFail, vars
  <2> QED
    BY <1>6, <1>7, <2>1
<1>k. ~ReadlinkFail
  BY DEF ReadlinkFail
<1> QED
  BY <1>a, <1>b, <1>c, <1>d, <1>e, <1>f, <1>g, <1>h, <1>i, <1>j, <1>k DEF Next, Step, Fault

(* Everything that nothing copied can fall upon is as it was, for any trees *)
(* and links, and however many runs fail.                                   *)
THEOREM OthersKeptAlways == Spec => []OthersKept
<1>1. OthersInv => OthersKept
  BY DEF OthersInv, Others, OthersKept
<1> QED
  BY <1>1, OthersInit, OthersStep, PTL DEF Spec

-----------------------------------------------------------------------------
(* Places.  Where the copy of p is made, and where p leads to if it is a    *)
(* directory, before the first run.                                         *)
At(p) == Spot(before, To(p))
In(p) == Real(before, To(p))

FilePlaces == {At(p) : p \in {p \in Copied : src[p].t # "dir"}}

(* Elsewhere the links are the ones that were there.                        *)
LinksAsBefore(tree) == \A q \in Path : q \notin FilePlaces => SameLink(before, tree, q)

FirmInv == TypeInv /\ (Firm => LinksAsBefore(dst))

LEMMA PlaceTypes ==
  ASSUME Given, NEW p \in Copied
  PROVE  /\ At(p) \in Path /\ At(p) # << >> /\ In(p) \in Path
         /\ p = << >> => Front(At(p)) = << >>
         /\ p # << >> => Front(At(p)) = In(Front(p))
<1>1. p \in Path /\ To(p) \in Path /\ To(p) # << >> /\ Sound(before)
  BY CopiedPath, BeforeSound
<1>2. At(p) \in Path /\ At(p) # << >> /\ Front(At(p)) = Real(before, Front(To(p)))
  BY <1>1, SpotIs DEF At
<1>3. In(p) \in Path
  BY <1>1, WalkIs DEF In
<1>4. p = << >> => Front(At(p)) = << >>
  BY <1>1, <1>2, ToFront, RealRoot
<1>5. p # << >> => Front(At(p)) = In(Front(p))
  BY <1>1, <1>2, ToFront DEF In
<1> QED
  BY <1>1, <1>2, <1>3, <1>4, <1>5

(* The way to a directory of the source is then as it was.                  *)
LEMMA SameReal ==
  ASSUME Given, NEW tree, Sound(tree), Firm, LinksAsBefore(tree),
         NEW d \in Copied, src[d].t = "dir"
  PROVE  Real(tree, To(d)) = In(d)
<1> DEFINE w == Walk(before, To(d))
<1>1. To(d) \in Path /\ Sound(before)
  BY CopiedPath, BeforeSound
<1>2. \A n \in 0..MaxLinks : w[n] \in Path
  BY <1>1, WalkIs
<1>3. ASSUME NEW n \in 0..MaxLinks, NEW i \in 1..Len(w[n])
      PROVE  SameLink(before, tree, SubSeq(w[n], 1, i))
  <2> DEFINE a == w[n]
             s == SubSeq(a, 1, i)
  <2>1. a \in Path /\ Len(a) \in Nat
    BY <1>2, EmptyPath
  <2>2. i \in 0..Len(a)
    OBVIOUS
  <2>3. s \in Path /\ Len(s) = i
    BY <2>1, <2>2, CutPath
  <2>4. s \notin FilePlaces
    <3> SUFFICES ASSUME NEW p \in Copied, src[p].t # "dir", s = At(p) PROVE FALSE
      BY DEF FilePlaces
    <3>1. ~IsPrefix(At(p), w[n])
      BY DEF Firm, At
    <3>2. SubSeq(s, 1, Len(s)) = s
      BY <2>3, SubSeqFull DEF Path
    <3> HIDE DEF s
    <3>3. Len(s) <= Len(a) /\ SubSeq(s, 1, Len(s)) = SubSeq(a, 1, Len(s))
      BY <2>1, <2>3, <3>2 DEF s
    <3> QED
      BY <3>1, <3>3 DEF IsPrefix
  <2> QED
    BY <2>3, <2>4 DEF LinksAsBefore
<1>4. Real(tree, To(d)) = Real(before, To(d))
  BY <1>1, <1>3, SameWalk
<1> QED
  BY <1>4 DEF In

(* And so is every place.                                                   *)
LEMMA SameSpot ==
  ASSUME Given, NEW tree, Sound(tree), Firm, LinksAsBefore(tree), NEW p \in Copied
  PROVE  Spot(tree, To(p)) = At(p)
<1>1. p \in Path /\ Sound(before)
  BY CopiedPath, BeforeSound
<1>2. Real(tree, Front(To(p))) = Real(before, Front(To(p)))
  <2>1. CASE p = << >>
    BY <1>1, <2>1, ToFront, RealRoot
  <2>2. CASE p # << >>
    <3>1. Front(p) \in Copied /\ src[Front(p)].t = "dir" /\ Front(To(p)) = To(Front(p))
      BY <1>1, <2>2, ParentCopied, ToFront
    <3> QED
      BY <3>1, SameReal DEF In
  <2> QED
    BY <2>1, <2>2
<1> QED
  BY <1>2 DEF Spot, At

(* What the system and the trees decide.                                    *)
LEMMA PlacesUnmoved ==
  ASSUME UNCHANGED given
  PROVE  /\ \A p : At(p)' = At(p) /\ In(p)' = In(p)
         /\ FilePlaces' = FilePlaces /\ Firm' = Firm /\ Apart' = Apart
         /\ LinkInTheWay' = LinkInTheWay
<1>1. Copied' = Copied /\ src' = src /\ before' = before
  BY Unmoved
<1>2. ASSUME NEW q PROVE Walk(before, q)' = Walk(before, q)
  BY <1>1 DEF Walk
<1>3. ASSUME NEW q PROVE Real(before, q)' = Real(before, q)
  BY <1>2 DEF Real
<1>4. ASSUME NEW q PROVE Spot(before, q)' = Spot(before, q)
  BY <1>3 DEF Spot
<1>5. ASSUME NEW p PROVE At(p)' = At(p) /\ In(p)' = In(p)
  BY <1>3, <1>4 DEF At, In
<1>6. FilePlaces' = FilePlaces
  BY <1>1, <1>5 DEF FilePlaces
<1>7. Firm' = Firm
  BY <1>1, <1>2, <1>4 DEF Firm
<1>8. Apart' = Apart
  BY <1>1, <1>4 DEF Apart
<1>9. LinkInTheWay' = LinkInTheWay
  BY <1>1, <1>4 DEF LinkInTheWay, IsA, Has
<1> QED
  BY <1>5, <1>6, <1>7, <1>8, <1>9

LEMMA FirmInit == Init => FirmInv
  BY TypeInit DEF Init, FirmInv, LinksAsBefore, SameLink

LEMMA FirmStep == FirmInv /\ [Next]_vars => FirmInv'
<1> SUFFICES ASSUME FirmInv, [Next]_vars PROVE FirmInv'
  OBVIOUS
<1>1. TypeInv /\ TypeInv' /\ Given /\ Sound(dst) /\ job \in JobSet /\ JobSane
  BY TypeStep DEF FirmInv, TypeInv, TypeOK, JobSet
<1>2. UNCHANGED given
  BY GivenKept
<1>3. before' = before /\ FilePlaces' = FilePlaces /\ Firm' = Firm
  BY <1>2, PlacesUnmoved DEF given
<1> SUFFICES ASSUME Firm PROVE LinksAsBefore(dst')
  BY <1>1, <1>3 DEF FirmInv, LinksAsBefore, SameLink, IsA, Has
<1>4. LinksAsBefore(dst)
  BY DEF FirmInv
(* one node that is no link, or in a place of a file or link, is changed *)
<1>5. ASSUME NEW q, q \in FilePlaces \/ ~IsA(dst, q, "link"), NEW node,
             q \in FilePlaces \/ node.t # "link", dst' = With(dst, q, node)
      PROVE  LinksAsBefore(dst')
  <2>1. /\ DOMAIN dst' = DOMAIN dst \cup {q}
        /\ dst'[q] = node
        /\ \A r \in DOMAIN dst \ {q} : dst'[r] = dst[r]
    BY <1>5 DEF With
  <2>2. \A r \in Path : r \notin FilePlaces => SameLink(before, dst', r)
    BY <1>4, <1>5, <2>1 DEF LinksAsBefore, SameLink, IsA, Has
  <2> QED
    BY <2>2 DEF LinksAsBefore
<1>6. ASSUME NEW q \in FilePlaces, dst' = Without(dst, q) PROVE LinksAsBefore(dst')
  <2>1. DOMAIN dst' = DOMAIN dst \ {q} /\ \A r \in DOMAIN dst \ {q} : dst'[r] = dst[r]
    BY <1>6 DEF Without
  <2> QED
    BY <1>4, <2>1 DEF LinksAsBefore, SameLink, IsA, Has
<1>7. job.op # "idle" /\ src[job.from].t # "dir" => Here \in FilePlaces
  <2> SUFFICES ASSUME job.op # "idle", src[job.from].t # "dir" PROVE Here \in FilePlaces
    OBVIOUS
  <2>1. job.from \in Copied
    BY <1>1 DEF JobSane
  <2>2. Here = At(job.from)
    BY <1>1, <1>4, <2>1, SameSpot DEF Here
  <2> QED
    BY <2>1, <2>2 DEF FilePlaces
<1>a. CASE Mkdir
  <2>1. CASE ~Has(dst, Spot(dst, job.at)) /\ dst' = With(dst, Spot(dst, job.at), Dir)
    BY <1>5, <2>1, NewNodes DEF IsA
  <2> QED
    BY <1>a, <1>4, <2>1 DEF Mkdir, Dir
<1>b. CASE Symlink
  <2>1. Here \in FilePlaces
    BY <1>b, <1>1, <1>7 DEF Symlink, JobSane
  <2> QED
    BY <1>b, <1>5, <2>1 DEF Symlink
<1>c. CASE Clone
  <2>1. Here \in FilePlaces
    BY <1>c, <1>7 DEF Clone, Visiting
  <2> QED
    BY <1>c, <1>5, <2>1 DEF Clone
<1>d. CASE LinkUnlink \/ CloneUnlink \/ UnlinkFail
  <2>1. Here \in FilePlaces
    BY <1>d, <1>1, <1>7 DEF LinkUnlink, CloneUnlink, UnlinkFail, Visiting, JobSane
  <2> QED
    BY <1>d, <1>4, <1>6, <2>1 DEF LinkUnlink, CloneUnlink, UnlinkFail
<1>e. CASE Open
  <2> DEFINE q == Real(dst, To(job.from))
  <2>1. ~IsA(dst, q, "link") /\ dst' = With(dst, q, TornFile)
    BY <1>e DEF Open, CanOpen, TornFile
  <2> HIDE DEF q
  <2> QED
    BY <1>5, <2>1, NewNodes
<1>f. CASE Write \/ CloseFail
  <2>1. job.op = "write" /\ dst' = With(dst, job.at, src[job.from])
    BY <1>f DEF Write, CloseFail
  <2>2. src[job.from].t = "file" /\ IsA(dst, job.at, "file")
    BY <1>1, <2>1 DEF JobSane
  <2>3. ~IsA(dst, job.at, "link")
    BY <2>2 DEF IsA
  <2> QED
    BY <1>5, <2>1, <2>2, <2>3
<1>g. CASE UNCHANGED dst
  BY <1>4, <1>g, SMTT(60)
<1>h. CASE NextEntry \/ Start \/ Readlink \/ ReadlinkFail \/ NotDir \/ BadType \/ LinkFail
           \/ CloneExists \/ OpenFail \/ Fail \/ CloneFail \/ NoClone \/ EndOfDir \/ ReaddirFail
           \/ UNCHANGED vars
  BY <1>g, <1>h DEF NextEntry, Start, Readlink, ReadlinkFail, NotDir, BadType, LinkFail,
     CloneExists, OpenFail, Fail, CloneFail, NoClone, EndOfDir, ReaddirFail, vars
<1> QED
  BY <1>a, <1>b, <1>c, <1>d, <1>e, <1>f, <1>h DEF Next, Step, Fault

(* While the ways are firm, every place is where it was.                    *)
LEMMA FirmPlaces ==
  ASSUME FirmInv, Firm
  PROVE  /\ \A p \in Copied : Spot(dst, To(p)) = At(p)
         /\ \A d \in Copied : src[d].t = "dir" => Real(dst, To(d)) = In(d)
<1>1. Given /\ Sound(dst) /\ LinksAsBefore(dst)
  BY DEF FirmInv, TypeInv
<1> QED
  BY <1>1, SameSpot, SameReal

-----------------------------------------------------------------------------
(* SuccessExact.  While a run is under way, every node of the source is as  *)
(* it should be, its visit is still to come, or it is not read.             *)
Plain == Firm /\ Apart /\ ~LinkInTheWay

(* No link is in the place of a file, and none is made there.               *)
FilesClear ==
  /\ \A p \in Copied : src[p].t = "file" => ~IsA(dst, At(p), "link")
  /\ job.op = "write" => job.at = At(job.from)

ClearInv == FirmInv /\ (Plain => FilesClear)

(* Bytes are then copied to the place itself.                               *)
LEMMA ClearReal ==
  ASSUME ClearInv, Plain, NEW p \in Copied, src[p].t = "file"
  PROVE  Real(dst, To(p)) = At(p)
<1>1. FirmInv /\ Firm /\ ~IsA(dst, At(p), "link") /\ Given /\ Sound(dst)
  BY DEF ClearInv, Plain, FilesClear, FirmInv, TypeInv
<1>2. Spot(dst, To(p)) = At(p)
  BY <1>1, FirmPlaces
<1>3. To(p) \in Path /\ To(p) # << >>
  BY <1>1, CopiedPath
<1> QED
  BY <1>1, <1>2, <1>3, SpotIs

LEMMA ClearInit == Init => ClearInv
<1> SUFFICES ASSUME Init PROVE ClearInv
  OBVIOUS
<1>1. FirmInv
  BY FirmInit
<1>2. Plain => \A p \in Copied : src[p].t = "file" => ~IsA(dst, At(p), "link")
  BY DEF Init, Plain, LinkInTheWay, At
<1>3. job.op = "idle"
  BY DEF Init, Idle
<1> QED
  BY <1>1, <1>2, <1>3 DEF ClearInv, FilesClear

LEMMA ClearStep == ClearInv /\ [Next]_vars => ClearInv'
<1> SUFFICES ASSUME ClearInv, [Next]_vars PROVE ClearInv'
  OBVIOUS
<1>1. FirmInv /\ FirmInv' /\ TypeInv /\ Given /\ Sound(dst) /\ job \in JobSet /\ JobSane
  BY FirmStep DEF ClearInv, FirmInv, TypeInv, TypeOK, JobSet
<1>2. UNCHANGED given /\ Idle.op = "idle"
  BY GivenKept, IdleType
<1>3. /\ src' = src /\ Copied' = Copied /\ Plain' = Plain
      /\ \A p : At(p)' = At(p)
  BY <1>2, PlacesUnmoved, Unmoved DEF Plain
<1> SUFFICES ASSUME Plain
             PROVE  /\ \A p \in Copied : src[p].t = "file" => ~IsA(dst', At(p), "link")
                    /\ job'.op = "write" => job'.at = At(job'.from)
  BY <1>1, <1>3 DEF ClearInv, FilesClear, IsA, Has
<1>4. FilesClear
  BY DEF ClearInv
<1>5. job.op # "idle" => job.from \in Copied /\ Here = At(job.from)
  BY <1>1, FirmPlaces DEF JobSane, Here, Plain
(* what is made is no link, or a link in the place of a link *)
<1>6. ASSUME NEW q, NEW node, dst' = With(dst, q, node),
             node.t # "link" \/ \A p \in Copied : src[p].t = "file" => At(p) # q
      PROVE  \A p \in Copied : src[p].t = "file" => ~IsA(dst', At(p), "link")
  <2>1. /\ DOMAIN dst' = DOMAIN dst \cup {q}
        /\ dst'[q] = node
        /\ \A r \in DOMAIN dst \ {q} : dst'[r] = dst[r]
    BY <1>6 DEF With
  <2> QED
    BY <1>4, <1>6, <2>1 DEF FilesClear, IsA, Has
<1>7. ASSUME NEW q, dst' = Without(dst, q)
      PROVE  \A p \in Copied : src[p].t = "file" => ~IsA(dst', At(p), "link")
  <2>1. DOMAIN dst' = DOMAIN dst \ {q} /\ \A r \in DOMAIN dst \ {q} : dst'[r] = dst[r]
    BY <1>7 DEF Without
  <2> QED
    BY <1>4, <2>1 DEF FilesClear, IsA, Has
<1>a. CASE Mkdir
  <2>1. job'.op # "write"
    BY <1>a, <1>1, <1>2, TypeEnter DEF Mkdir
  <2>2. CASE dst' = With(dst, Spot(dst, job.at), Dir)
    BY <1>6, <2>1, <2>2, NewNodes
  <2> QED
    BY <1>a, <1>4, <2>1, <2>2 DEF Mkdir, Dir, FilesClear
<1>b. CASE NextEntry \/ Start \/ Readlink \/ ReadlinkFail
  <2>1. UNCHANGED dst
    BY <1>b DEF NextEntry, Start, Readlink, ReadlinkFail
  <2>2. job'.op # "write"
    <3>1. CASE Start
      BY <3>1 DEF Start, Visit
    <3>2. CASE NextEntry
      BY <1>1, <3>2, TypeNext
    <3>3. CASE Readlink \/ ReadlinkFail
      <4>1. PICK c : job' = [job EXCEPT !.op = "symlink", !.c = c]
        BY <3>3 DEF Readlink, ReadlinkFail
      <4> QED
        BY <1>1, <4>1 DEF JobSet
    <3> QED
      BY <1>b, <3>1, <3>2, <3>3
  <2> QED
    BY <1>4, <2>1, <2>2 DEF FilesClear
<1>c. CASE NotDir \/ BadType \/ LinkFail \/ CloneExists \/ OpenFail \/ Fail
  <2>1. UNCHANGED dst /\ job' = Idle
    BY <1>c DEF NotDir, BadType, LinkFail, CloneExists, OpenFail, Fail, GiveUp
  <2> QED
    BY <1>2, <1>4, <2>1 DEF FilesClear
<1>d. CASE Symlink
  <2>1. PICK node : dst' = With(dst, Here, node) /\ job' = Idle
    BY <1>d DEF Symlink, Succeed
  <2>2. job.op = "symlink" /\ src[job.from].t = "link"
    BY <1>d, <1>1 DEF Symlink, JobSane
  <2>3. \A p \in Copied : src[p].t = "file" => At(p) # Here
    BY <1>5, <2>2 DEF Plain, Apart, At
  <2> QED
    BY <1>2, <1>6, <2>1, <2>3
<1>e. CASE Clone
  <2>1. src[job.from].t = "file" /\ dst' = With(dst, Here, src[job.from]) /\ job' = Idle
    BY <1>e DEF Clone, Visiting, Succeed
  <2> QED
    BY <1>2, <1>6, <2>1
<1>f. CASE LinkUnlink \/ CloneUnlink \/ UnlinkFail
  <2>1. job'.op # "write" /\ (UNCHANGED dst \/ dst' = Without(dst, Here))
    BY <1>f DEF LinkUnlink, CloneUnlink, UnlinkFail, Visiting
  <2> QED
    BY <1>4, <1>7, <2>1 DEF FilesClear
<1>g. CASE CloneFail \/ NoClone
  <2>1. UNCHANGED dst /\ job'.op = "open"
    BY <1>g, <1>1 DEF CloneFail, NoClone, JobSet
  <2> QED
    BY <1>4, <2>1 DEF FilesClear
<1>h. CASE Open
  <2> DEFINE q == Real(dst, To(job.from))
  <2>1. job.op = "open" /\ dst' = With(dst, q, TornFile) /\ job'.at = q /\ job'.from = job.from
    BY <1>h, <1>1 DEF Open, TornFile, JobSet
  <2>2. job.from \in Copied /\ src[job.from].t = "file"
    BY <1>1, <2>1 DEF JobSane
  <2>3. q = At(job.from)
    BY <2>2, ClearReal
  <2> HIDE DEF q
  <2> QED
    BY <1>6, <2>1, <2>3, NewNodes
<1>i. CASE Write \/ CloseFail
  <2>1. job.op = "write" /\ job' = Idle /\ dst' = With(dst, job.at, src[job.from])
    BY <1>i DEF Write, CloseFail, Succeed, GiveUp
  <2>2. src[job.from].t = "file"
    BY <1>1, <2>1 DEF JobSane
  <2> QED
    BY <1>2, <1>6, <2>1, <2>2
<1>j. CASE EndOfDir \/ ReaddirFail \/ UNCHANGED vars
  <2>1. UNCHANGED <<dst, job>>
    BY <1>j DEF EndOfDir, ReaddirFail, vars
  <2> QED
    BY <1>4, <2>1 DEF FilesClear
<1> QED
  BY <1>a, <1>b, <1>c, <1>d, <1>e, <1>f, <1>g, <1>h, <1>i, <1>j DEF Next, Step, Fault

(* q is p or below it.                                                      *)
Below(p, q) == Len(p) <= Len(q) /\ \A i \in 1..Len(p) : q[i] = p[i]

(* The visit of q is still to come.                                         *)
Pending(q) ==
  \/ job.op # "idle" /\ Below(job.from, q)
  \/ \E i \in DOMAIN stack : \E n \in stack[i].left : Below(Append(stack[i].from, n), q)

ExactIn(tree, p) ==
  IF src[p].t = "dir" THEN IsDir(tree, In(p))
  ELSE Has(tree, At(p)) /\ tree[At(p)] = src[p]

Halfway == \A p \in Copied : Pending(p) \/ ExactIn(dst, p) \/ NotRead(p)

(* When a run has ended well, nothing is left to do.                        *)
Ended == result = "ok" => job.op = "idle" /\ stack = << >>

ExactInv ==
  /\ ClearInv /\ Ended
  /\ result \in {"running", "ok"} /\ Plain => Halfway

LEMMA BelowSelf == \A p : Len(p) \in Nat => Below(p, p)
  BY DEF Below

LEMMA BelowPrefix ==
  ASSUME NEW p \in Path, NEW q \in Path, Below(p, q)
  PROVE  IsPrefix(p, q)
<1> DEFINE a == SubSeq(p, 1, Len(p))
           b == SubSeq(q, 1, Len(p))
<1>1. Len(p) \in Nat /\ Len(q) \in Nat /\ Len(p) <= Len(q) /\ Len(p) \in 0..Len(q) /\ Len(p) \in 0..Len(p)
  BY EmptyPath DEF Below
<1>2. a \in Path /\ Len(a) = Len(p) /\ \A i \in 1..Len(p) : a[i] = p[i]
  BY <1>1, CutPath
<1>3. b \in Path /\ Len(b) = Len(p) /\ \A i \in 1..Len(p) : b[i] = q[i]
  BY <1>1, CutPath
<1> HIDE DEF a, b
<1>4. \A i \in 1..Len(a) : a[i] = b[i]
  BY <1>2, <1>3 DEF Below
<1>5. a = b
  BY <1>2, <1>3, <1>4, SamePath
<1> QED
  BY <1>1, <1>5 DEF a, b, IsPrefix

(* What is below a node of the source is below an entry of it.              *)
LEMMA BelowChild ==
  ASSUME Given, NEW p \in Copied, NEW q \in Copied, Below(p, q), q # p
  PROVE  src[p].t = "dir" /\ \E n \in Entries(p) : Below(Append(p, n), q)
<1> DEFINE Good == {k \in Nat : \A r \in Copied : Len(r) = k /\ Below(p, r) /\ r # p =>
                      src[p].t = "dir" /\ \E n \in Entries(p) : Below(Append(p, n), r)}
<1>1. p \in Path /\ Len(p) \in Nat
  BY CopiedPath
<1>2. ASSUME NEW k \in Nat, \A m \in Nat : m < k => m \in Good PROVE k \in Good
  <2> SUFFICES ASSUME NEW r \in Copied, Len(r) = k, Below(p, r), r # p
               PROVE src[p].t = "dir" /\ \E n \in Entries(p) : Below(Append(p, n), r)
    OBVIOUS
  <2> DEFINE n == Last(r)
             f == Front(r)
  <2>1. r \in Path /\ Len(r) \in Nat /\ Has(src, r)
    BY CopiedPath
  <2>2. Len(p) < Len(r)
    <3>1. Len(p) # Len(r)
      BY <1>1, <2>1, SamePath DEF Below
    <3> QED
      BY <1>1, <2>1, <3>1 DEF Below
  <2>3. r # << >>
    BY <1>1, <2>1, <2>2, EmptyPath
  <2>4. /\ f \in Copied /\ src[f].t = "dir" /\ f \in Path
        /\ Len(f) = Len(r) - 1
        /\ n \in STRING \ Ignored /\ r = Append(f, n)
    BY <2>3, ParentCopied, CopiedPath
  <2> HIDE DEF n, f
  <2>5. \A i \in 1..(Len(r) - 1) : r[i] = f[i]
    BY <2>4, AppendPath
  <2>6. CASE f = p
    <3>1. n \in {Last(x) : x \in DOMAIN src \ {<< >>}}
      BY <2>1, <2>3 DEF n, Has
    <3>2. Has(src, Append(p, n))
      BY <2>1, <2>4, <2>6
    <3>3. n \in Entries(p)
      BY <2>4, <3>1, <3>2 DEF Entries
    <3>4. Below(Append(p, n), r)
      BY <2>1, <2>4, <2>6, BelowSelf
    <3> QED
      BY <2>4, <2>6, <3>3, <3>4
  <2>7. CASE f # p
    <3>1. Below(p, f)
      BY <1>1, <2>1, <2>2, <2>4, <2>5 DEF Below
    <3>2. Len(f) \in Nat /\ Len(f) < k
      BY <2>1, <2>2, <2>4, <1>1
    <3>3. src[p].t = "dir" /\ \E m \in Entries(p) : Below(Append(p, m), f)
      BY <1>2, <2>4, <2>7, <3>1, <3>2
    <3>4. PICK m \in Entries(p) : Below(Append(p, m), f)
      BY <3>3
    <3>5. m \in STRING
      BY EntryTypes
    <3>6. Len(Append(p, m)) = Len(p) + 1
      BY <1>1, <3>5, AppendPath
    <3> DEFINE c == Append(p, m)
    <3> HIDE DEF c
    <3>7. Below(c, f) /\ Len(c) \in Nat
      BY <1>1, <3>4, <3>6 DEF c
    <3>8. Below(c, r)
      BY <2>1, <2>4, <2>5, <3>7 DEF Below
    <3> QED
      BY <3>3, <3>8 DEF c
  <2> QED
    BY <2>6, <2>7
<1>3. \A k \in Nat : k \in Good
  <2> HIDE DEF Good
  <2> QED
    BY <1>2, StrongInd
<1> QED
  BY <1>3, CopiedPath

(* Only what is at q is changed.                                            *)
Touched(q) == \A r : r # q => (Has(dst', r) <=> Has(dst, r)) /\ (Has(dst, r) => dst'[r] = dst[r])

LEMMA WithTouches ==
  ASSUME NEW q, NEW node, dst' = With(dst, q, node)
  PROVE  Touched(q) /\ Has(dst', q) /\ dst'[q] = node
<1>1. /\ DOMAIN dst' = DOMAIN dst \cup {q}
      /\ dst'[q] = node
      /\ \A r \in DOMAIN dst \ {q} : dst'[r] = dst[r]
  BY DEF With
<1> QED
  BY <1>1 DEF Touched, Has

LEMMA WithoutTouches ==
  ASSUME NEW q, dst' = Without(dst, q)
  PROVE  Touched(q) /\ ~Has(dst', q)
<1>1. DOMAIN dst' = DOMAIN dst \ {q} /\ \A r \in DOMAIN dst \ {q} : dst'[r] = dst[r]
  BY DEF Without
<1> QED
  BY <1>1 DEF Touched, Has

(* A file or link is where nothing else of the source is, and a directory   *)
(* is never replaced.                                                       *)
LEMMA ExactKeeps ==
  ASSUME Given, Apart, NEW r \in Copied, Touched(At(r)), ~IsA(dst, At(r), "dir"),
         NEW p \in Copied, p # r, ExactIn(dst, p)
  PROVE  ExactIn(dst', p)
<1>1. At(p) # At(r) /\ At(r) # << >>
  BY PlaceTypes DEF Apart, At
<1>2. CASE src[p].t = "dir"
  BY <1>1, <1>2 DEF ExactIn, Touched, IsA, IsDir
<1>3. CASE src[p].t # "dir"
  BY <1>1, <1>3 DEF ExactIn, Touched
<1> QED
  BY <1>2, <1>3

(* What is made where nothing was changes nothing that is as it should be.  *)
LEMMA ExactGrows ==
  ASSUME NEW q, Touched(q), ~Has(dst, q), NEW p, ExactIn(dst, p)
  PROVE  ExactIn(dst', p)
  BY DEF ExactIn, Touched, IsA, IsDir


(* mkdirs makes a directory, or has found one.                              *)
LEMMA MadeDir ==
  ASSUME FirmInv, FirmInv', Firm, UNCHANGED given, Mkdir,
         NEW d \in Copied, src[d].t = "dir", job.at = To(d)
  PROVE  IsDir(dst', In(d))
<1> DEFINE q == Spot(dst, job.at)
<1>1. /\ Given /\ Sound(dst) /\ Sound(dst') /\ To(d) \in Path /\ To(d) # << >>
      /\ UNCHANGED before /\ FilePlaces' = FilePlaces /\ Firm'
  BY CopiedPath, PlacesUnmoved DEF FirmInv, TypeInv, given
<1>2. LinksAsBefore(dst')
  BY <1>1 DEF FirmInv, LinksAsBefore, SameLink, IsA, Has
<1>3. Spot(dst', To(d)) = At(d) /\ Real(dst', To(d)) = In(d)
  BY <1>1, <1>2, SameSpot, SameReal
<1>4. q = At(d) /\ Real(dst, job.at) = In(d)
  BY FirmPlaces
<1>5. CASE IsDir(dst, Real(dst, job.at)) /\ UNCHANGED dst
  BY <1>4, <1>5
<1>6. CASE dst' = With(dst, q, Dir)
  <2> HIDE DEF q
  <2>1. IsA(dst', At(d), "dir") /\ ~IsA(dst', At(d), "link")
    BY <1>4, <1>6, WithTouches DEF IsA, Dir
  <2>2. In(d) = At(d)
    BY <1>1, <1>3, <2>1, SpotIs
  <2> QED
    BY <2>1, <2>2 DEF IsDir
<1> QED
  BY <1>5, <1>6 DEF Mkdir, Dir

LEMMA ExactInit == Init => ExactInv
<1> SUFFICES ASSUME Init PROVE ExactInv
  OBVIOUS
<1>1. ClearInv /\ result = "none"
  BY ClearInit DEF Init
<1> QED
  BY <1>1 DEF ExactInv, Ended

LEMMA EndedStep == TypeInv /\ Ended /\ [Next]_vars => Ended'
<1> SUFFICES ASSUME TypeInv, Ended, [Next]_vars, result' = "ok"
             PROVE  job'.op = "idle" /\ stack' = << >>
  BY DEF Ended
<1>1. (job.op # "idle" => result = "running") /\ UNCHANGED given /\ Idle.op = "idle"
  BY GivenKept, IdleType DEF TypeInv, TypeOK
<1>a. ~Start /\ ~NotDir /\ ~BadType /\ ~LinkFail /\ ~CloneExists /\ ~OpenFail /\ ~CloseFail /\ ~Fail
  BY DEF Start, NotDir, BadType, LinkFail, CloneExists, OpenFail, CloseFail, Fail, GiveUp
<1>b. /\ ~Mkdir /\ ~NextEntry /\ ~Readlink /\ ~ReadlinkFail /\ ~LinkUnlink /\ ~CloneUnlink
      /\ ~UnlinkFail /\ ~CloneFail /\ ~NoClone /\ ~Open
  BY <1>1 DEF Mkdir, NextEntry, Readlink, ReadlinkFail, LinkUnlink, CloneUnlink, UnlinkFail,
     CloneFail, NoClone, Open, Visiting
<1>c. CASE Symlink \/ Clone \/ Write
  BY <1>c, <1>1 DEF Symlink, Clone, Write, Succeed, GiveUp
<1>d. CASE EndOfDir \/ ReaddirFail
  <2>1. Leave /\ UNCHANGED job /\ job.op = "idle"
    BY <1>d DEF EndOfDir, ReaddirFail, Leave
  <2> QED
    BY <1>1, <2>1, TypeLeave
<1>e. CASE UNCHANGED vars
  BY <1>e DEF vars, Ended
<1> QED
  BY <1>a, <1>b, <1>c, <1>d, <1>e DEF Next, Step, Fault

LEMMA ExactStep == ExactInv /\ [Next]_vars => ExactInv'
<1> SUFFICES ASSUME ExactInv, [Next]_vars PROVE ExactInv'
  OBVIOUS
<1>1. /\ ClearInv /\ ClearInv' /\ FirmInv /\ FirmInv' /\ TypeInv /\ Given /\ Sound(dst) /\ Sound(dst')
      /\ Frames /\ job \in JobSet /\ JobSane
  BY ClearStep DEF ExactInv, ClearInv, FirmInv, TypeInv, TypeOK, JobSet
<1>2. UNCHANGED given /\ Idle.op = "idle"
  BY GivenKept, IdleType
<1>3. /\ src' = src /\ before' = before /\ Copied' = Copied /\ Plain' = Plain
      /\ FilePlaces' = FilePlaces
      /\ \A p : At(p)' = At(p) /\ In(p)' = In(p)
  BY <1>2, PlacesUnmoved, Unmoved DEF Plain
<1>4. Ended'
  BY <1>1, EndedStep DEF ExactInv
<1> SUFFICES ASSUME Plain, result' \in {"running", "ok"} PROVE Halfway'
  BY <1>1, <1>3, <1>4 DEF ExactInv
<1>5. Firm /\ Apart
  BY DEF Plain
<1>6. LinksAsBefore(dst')
  <2>1. Firm'
    BY <1>2, <1>5, PlacesUnmoved
  <2> QED
    BY <1>1, <1>3, <2>1 DEF FirmInv, LinksAsBefore, SameLink, IsA, Has
<1> SUFFICES ASSUME NEW p \in Copied PROVE Pending(p)' \/ ExactIn(dst', p) \/ NotRead(p)'
  BY <1>3 DEF Halfway, ExactIn, IsDir, IsA, Has
<1>7. Len(p) \in Nat /\ p \in Path
  BY <1>1, CopiedPath
<1>8. job.op # "idle" => /\ job.from \in Copied /\ Here = At(job.from) /\ result = "running"
                         /\ job.from \in Path /\ src[job.from] \in Node
  BY <1>1, <1>5, FirmPlaces, CopiedPath, SourceNodes DEF JobSane, Here, TypeInv, TypeOK
<1>9. ~Start => Pending(p) \/ ExactIn(dst, p) \/ NotRead(p)
  <2> SUFFICES ASSUME ~Start PROVE result \in {"running", "ok"}
    BY DEF ExactInv, Halfway
  <2>1. CASE job.op # "idle"
    BY <1>8, <2>1
  <2>2. CASE NextEntry \/ EndOfDir \/ ReaddirFail \/ Fail \/ UNCHANGED vars
    BY <2>2 DEF NextEntry, EndOfDir, ReaddirFail, Leave, Fail, vars
  <2>3. CASE ~NextEntry /\ ~EndOfDir /\ ~ReaddirFail /\ ~Fail /\ ~UNCHANGED vars
    <3>1. job.op # "idle"
      BY <2>3 DEF Next, Step, Fault, Mkdir, NotDir, BadType, Readlink, ReadlinkFail, Symlink, LinkFail,
         LinkUnlink, Clone, CloneExists, CloneUnlink, UnlinkFail, CloneFail, NoClone, Open, OpenFail,
         Write, CloseFail, Visiting
    <3> QED
      BY <1>8, <3>1, SMTT(60)
  <2> QED
    BY <2>2, <2>3
<1>10. missed \subseteq missed' /\ NotRead(p) => NotRead(p)'
  BY DEF NotRead
<1>11. UNCHANGED stack => \A i \in DOMAIN stack : \A n \in stack[i].left :
         Below(Append(stack[i].from, n), p) => Pending(p)'
  BY DEF Pending
(* a file or link has been copied *)
<1>12. ASSUME NEW r \in Copied, r = job.from, src[r].t # "dir", UNCHANGED stack, ~Start,
              missed' = missed, Touched(At(r)), ~IsA(dst, At(r), "dir"),
              ExactIn(dst', r) \/ NotRead(r)
       PROVE  Pending(p)' \/ ExactIn(dst', p) \/ NotRead(p)'
  <2>1. CASE p = r
    BY <1>10, <1>12, <2>1
  <2>2. CASE p # r /\ ExactIn(dst, p)
    BY <1>1, <1>5, <1>12, <2>2, ExactKeeps
  <2>3. CASE p # r /\ Pending(p)
    <3>1. ~Below(r, p)
      BY <1>1, <1>12, <2>3, BelowChild
    <3> QED
      BY <1>12, <2>3, <3>1, <1>11 DEF Pending
  <2> QED
    BY <1>9, <1>10, <1>12, <2>1, <2>2, <2>3
(* it is being copied *)
<1>13. ASSUME NEW r \in Copied, r = job.from, UNCHANGED stack, ~Start, missed \subseteq missed',
              job'.op # "idle", job'.from = r,
              UNCHANGED dst \/ (Touched(At(r)) /\ ~IsA(dst, At(r), "dir"))
       PROVE  Pending(p)' \/ ExactIn(dst', p) \/ NotRead(p)'
  <2>1. CASE Pending(p)
    BY <1>11, <1>13, <2>1 DEF Pending
  <2>2. CASE p = r
    BY <1>7, <1>13, <2>2, BelowSelf DEF Pending
  <2>3. CASE p # r /\ ExactIn(dst, p)
    <3>1. CASE UNCHANGED dst
      BY <2>3, <3>1
    <3>2. CASE Touched(At(r)) /\ ~IsA(dst, At(r), "dir")
      BY <1>1, <1>5, <2>3, <3>2, ExactKeeps
    <3> QED
      BY <1>13, <3>1, <3>2
  <2> QED
    BY <1>9, <1>10, <1>13, <2>1, <2>2, <2>3
<1>a. CASE Start
  <2>1. job'.op = "visit" /\ job'.from = << >>
    BY <1>a DEF Start, Visit
  <2>2. Below(<< >>, p)
    <3>1. Len(<< >>) = 0
      BY EmptySeq
    <3> QED
      BY <1>7, <3>1 DEF Below
  <2> QED
    BY <2>1, <2>2 DEF Pending
<1>b. CASE Mkdir
  <2> DEFINE r == job.from
             q == Spot(dst, job.at)
  <2>1. /\ Visiting("dir") /\ Enter /\ UNCHANGED <<missed, noted>> /\ job.op # "idle"
        /\ r \in Copied /\ src[r].t = "dir" /\ result = "running"
    BY <1>b, <1>8 DEF Mkdir, Visiting, noted
  <2>2. ~Start
    BY <2>1 DEF Start
  <2>3. UNCHANGED dst \/ (~Has(dst, q) /\ Touched(q) /\ Has(dst', q) /\ dst'[q] = Dir)
    <3>1. UNCHANGED dst \/ (~Has(dst, q) /\ dst' = With(dst, q, Dir))
      BY <1>b DEF Mkdir, Dir
    <3> HIDE DEF q
    <3> QED
      BY <3>1, WithTouches
  <2>4. ExactIn(dst, p) => ExactIn(dst', p)
    <3> HIDE DEF q
    <3> QED
      BY <2>3, ExactGrows
  <2>5. CASE UNCHANGED stack /\ job.at # To(r) /\ job'.op = "visit" /\ job'.from = r
    BY <1>9, <1>10, <1>11, <2>1, <2>2, <2>4, <2>5 DEF Pending
  <2> DEFINE frame == [from |-> r, left |-> Entries(r)]
  <2>6. CASE job.at = To(r) /\ stack' = Append(stack, frame)
    <3>1. /\ \A i \in DOMAIN stack : i \in DOMAIN stack' /\ stack'[i] = stack[i]
          /\ \E i \in DOMAIN stack' : stack'[i] = frame
      <4>1. stack \in Seq(Frame) /\ frame \in Frame
        BY <1>1, <1>8, <2>1, EntryTypes DEF Frames, Frame
      <4> HIDE DEF frame
      <4>2. /\ \A i \in 1..Len(stack) : stack'[i] = stack[i]
            /\ stack'[Len(stack) + 1] = frame
            /\ DOMAIN stack' = 1..(Len(stack) + 1) /\ DOMAIN stack = 1..Len(stack)
            /\ Len(stack) \in Nat
        BY <2>6, <4>1, AppendProperties, LenProperties
      <4> QED
        BY <4>2
    <3>2. frame.from = r /\ frame.left = Entries(r)
      OBVIOUS
    <3>3. IsDir(dst', In(r))
      BY <1>b, <1>1, <1>2, <1>5, <2>1, <2>6, MadeDir
    <3> HIDE DEF frame
    <3>4. CASE p = r
      BY <2>1, <3>3, <3>4 DEF ExactIn
    <3>5. CASE p # r /\ Pending(p)
      <4>1. CASE Below(r, p)
        <5>1. PICK n \in Entries(r) : Below(Append(r, n), p)
          BY <1>1, <2>1, <3>5, <4>1, BelowChild
        <5> QED
          BY <3>1, <3>2, <5>1 DEF Pending
      <4>2. CASE ~Below(r, p)
        BY <3>1, <3>5, <4>2 DEF Pending
      <4> QED
        BY <4>1, <4>2
    <3> QED
      BY <1>9, <1>10, <2>1, <2>2, <2>4, <3>4, <3>5
  <2> QED
    BY <1>1, <1>2, <2>1, <2>5, <2>6, TypeEnter
<1>c. CASE NextEntry
  <2> DEFINE top == stack[Len(stack)]
  <2>1. /\ Len(stack) \in DOMAIN stack
        /\ \E n \in top.left :
             /\ job'.op = "visit" /\ job'.from = Append(top.from, n)
             /\ DOMAIN stack' = DOMAIN stack
             /\ \A i \in DOMAIN stack :
                  /\ stack'[i].from = stack[i].from
                  /\ stack'[i].left = IF i = Len(stack) THEN stack[i].left \ {n} ELSE stack[i].left
    BY <1>c, <1>1, TypeNext
  <2>2. PICK n \in top.left :
          /\ job'.op = "visit" /\ job'.from = Append(top.from, n)
          /\ DOMAIN stack' = DOMAIN stack
          /\ \A i \in DOMAIN stack :
               /\ stack'[i].from = stack[i].from
               /\ stack'[i].left = IF i = Len(stack) THEN stack[i].left \ {n} ELSE stack[i].left
    BY <2>1
  <2>3. job.op = "idle" /\ UNCHANGED <<dst, missed>> /\ ~Start
    BY <1>c DEF NextEntry, Start, noted
  <2>4. CASE Pending(p)
    <3>a. PICK i \in DOMAIN stack : \E m \in stack[i].left : Below(Append(stack[i].from, m), p)
      BY <2>3, <2>4 DEF Pending
    <3>1. PICK m \in stack[i].left : Below(Append(stack[i].from, m), p)
      BY <3>a
    <3>2. CASE i = Len(stack) /\ m = n
      BY <2>2, <3>1, <3>2 DEF Pending
    <3>3. CASE ~(i = Len(stack) /\ m = n)
      <4>1. m \in stack'[i].left
        BY <2>2, <3>1, <3>3
      <4> QED
        BY <2>2, <3>1, <4>1 DEF Pending
    <3> QED
      BY <3>2, <3>3
  <2> QED
    BY <1>9, <1>10, <2>3, <2>4
<1>d. CASE EndOfDir \/ ReaddirFail
  <2> DEFINE top == stack[Len(stack)]
  <2>1. /\ Leave /\ UNCHANGED <<dst, job>> /\ missed \subseteq missed' /\ job.op = "idle"
        /\ \A n \in top.left : Append(top.from, n) \in missed'
    BY <1>d DEF EndOfDir, ReaddirFail, noted, Leave
  <2>2. /\ Len(stack) \in Nat /\ DOMAIN stack = 1..Len(stack) /\ DOMAIN stack' = 1..(Len(stack) - 1)
        /\ \A i \in 1..(Len(stack) - 1) : stack'[i] = stack[i]
    BY <1>1, <1>2, <2>1, TypeLeave
  <2>3. ~Start
    BY <2>1 DEF Leave, Start
  <2>4. CASE Pending(p)
    <3>a. PICK i \in DOMAIN stack : \E m \in stack[i].left : Below(Append(stack[i].from, m), p)
      BY <2>1, <2>4 DEF Pending
    <3>1. PICK m \in stack[i].left : Below(Append(stack[i].from, m), p)
      BY <3>a
    <3>2. CASE i = Len(stack)
      <4>1. Append(stack[i].from, m) \in Copied /\ Append(stack[i].from, m) \in missed'
        BY <1>1, <2>1, <3>1, <3>2, EntryCopied DEF Frames
      <4>2. Append(stack[i].from, m) \in Path
        BY <1>1, <4>1, CopiedPath
      <4> QED
        BY <1>7, <3>1, <4>1, <4>2, BelowPrefix DEF NotRead
    <3>3. CASE i # Len(stack)
      <4>1. i \in DOMAIN stack' /\ stack'[i] = stack[i]
        BY <2>2, <3>3
      <4> QED
        BY <3>1, <4>1 DEF Pending
    <3> QED
      BY <3>2, <3>3
  <2> QED
    BY <1>9, <1>10, <2>1, <2>3, <2>4
<1>e. ~NotDir /\ ~BadType /\ ~LinkFail /\ ~CloneExists /\ ~OpenFail /\ ~CloseFail /\ ~Fail
  BY DEF NotDir, BadType, LinkFail, CloneExists, OpenFail, CloseFail, Fail, GiveUp
<1>f. CASE Symlink \/ Clone
  <2> DEFINE r == job.from
  <2>1. /\ job.op # "idle" /\ r \in Copied /\ r \in Path /\ Here = At(r) /\ src[r].t # "dir"
        /\ ~Has(dst, At(r)) /\ UNCHANGED <<stack, missed>> /\ result = "running"
    BY <1>f, <1>1, <1>8 DEF Symlink, Clone, Visiting, JobSane, noted
  <2>2. ~Start
    BY <2>1 DEF Start
  <2>3. ASSUME NEW node, dst' = With(dst, At(r), node)
        PROVE  Touched(At(r)) /\ (node = src[r] => ExactIn(dst', r))
    BY <2>1, <2>3, WithTouches DEF ExactIn
  <2>4. Touched(At(r)) /\ (ExactIn(dst', r) \/ NotRead(r))
    <3>1. CASE Clone
      BY <2>1, <2>3, <3>1 DEF Clone
    <3>2. CASE Symlink
      <4>1. src[r].t = "link" /\ (job.c = src[r].c \/ r \in missed)
        BY <1>1, <3>2 DEF Symlink, JobSane
      <4>2. dst' = With(dst, At(r), [t |-> "link", c |-> job.c])
        BY <2>1, <3>2 DEF Symlink
      <4>3. job.c = src[r].c => [t |-> "link", c |-> job.c] = src[r]
        BY <1>8, <2>1, <4>1 DEF Node
      <4>4. r \in missed => NotRead(r)
        <5>1. Below(r, r)
          BY <1>1, <2>1, CopiedPath, BelowSelf
        <5> QED
          BY <2>1, <5>1, BelowPrefix DEF NotRead
      <4> QED
        BY <2>3, <4>1, <4>2, <4>3, <4>4
    <3> QED
      BY <1>f, <3>1, <3>2
  <2>5. ~IsA(dst, At(r), "dir")
    BY <2>1 DEF IsA
  <2> HIDE DEF r
  <2> QED
    BY <1>12, <2>1, <2>2, <2>4, <2>5 DEF r
<1>g. CASE LinkUnlink \/ CloneUnlink \/ UnlinkFail
  <2> DEFINE r == job.from
  <2>1. /\ job.op # "idle" /\ r \in Copied /\ Here = At(r) /\ UNCHANGED <<job, stack, missed>>
        /\ result = "running"
    BY <1>g, <1>8 DEF LinkUnlink, CloneUnlink, UnlinkFail, Visiting, noted
  <2>2. ~Start
    BY <2>1 DEF Start
  <2>3. UNCHANGED dst \/ (dst' = Without(dst, At(r)) /\ ~IsA(dst, At(r), "dir"))
    BY <1>g, <2>1 DEF LinkUnlink, CloneUnlink, UnlinkFail
  <2>4. UNCHANGED dst \/ (Touched(At(r)) /\ ~IsA(dst, At(r), "dir"))
    BY <2>3, WithoutTouches
  <2> HIDE DEF r
  <2> QED
    BY <1>13, <2>1, <2>2, <2>4 DEF r
<1>h. CASE CloneFail \/ NoClone \/ Readlink \/ ReadlinkFail
  <2>1. /\ job.op # "idle" /\ job.from \in Copied /\ UNCHANGED <<dst, stack>> /\ missed \subseteq missed'
        /\ result = "running"
    BY <1>h, <1>8 DEF CloneFail, NoClone, Readlink, ReadlinkFail, Visiting, noted
  <2>2. job'.op # "idle" /\ job'.from = job.from
    <3>1. CASE CloneFail \/ NoClone
      BY <1>1, <3>1 DEF CloneFail, NoClone, JobSet
    <3>2. CASE Readlink \/ ReadlinkFail
      <4>1. PICK c : job' = [job EXCEPT !.op = "symlink", !.c = c]
        BY <3>2 DEF Readlink, ReadlinkFail
      <4> QED
        BY <1>1, <4>1 DEF JobSet
    <3> QED
      BY <1>h, <3>1, <3>2
  <2>3. ~Start
    BY <2>1 DEF Start
  <2> QED
    BY <1>13, <2>1, <2>2, <2>3
<1>i. CASE Open
  <2> DEFINE r == job.from
             q == Real(dst, To(r))
  <2>1. /\ job.op = "open" /\ r \in Copied /\ src[r].t = "file" /\ UNCHANGED <<stack, missed>>
        /\ result = "running" /\ ~IsDir(dst, q)
        /\ dst' = With(dst, q, TornFile)
    BY <1>i, <1>1, <1>8 DEF Open, CanOpen, JobSane, TornFile, noted
  <2>2. ~Start
    BY <2>1 DEF Start
  <2>3. q = At(r)
    BY <1>1, <2>1, ClearReal
  <2>4. job'.op = "write" /\ job'.from = r
    BY <1>i, <1>1 DEF Open, JobSet
  <2> HIDE DEF q
  <2>5. Touched(At(r)) /\ ~IsA(dst, At(r), "dir")
    BY <2>1, <2>3, WithTouches DEF IsDir
  <2> HIDE DEF r
  <2> QED
    BY <1>13, <2>1, <2>2, <2>4, <2>5 DEF r
<1>j. CASE Write
  <2> DEFINE r == job.from
  <2>1. /\ job.op = "write" /\ r \in Copied /\ src[r].t = "file" /\ result = "running"
        /\ IsA(dst, job.at, "file") /\ dst' = With(dst, job.at, src[r]) /\ UNCHANGED missed
    BY <1>j, <1>1, <1>8 DEF Write, JobSane, noted
  <2>2. ~Start
    BY <2>1 DEF Start
  <2>3. job.at = At(r)
    BY <1>1, <2>1 DEF ClearInv, FilesClear
  <2>4. UNCHANGED stack
    BY <1>j DEF Write, GiveUp
  <2>5. Touched(At(r)) /\ ~IsA(dst, At(r), "dir") /\ ExactIn(dst', r)
    BY <2>1, <2>3, WithTouches DEF IsA, ExactIn
  <2> HIDE DEF r
  <2> QED
    BY <1>12, <2>1, <2>2, <2>4, <2>5 DEF r
<1>k. CASE UNCHANGED vars
  <2>1. UNCHANGED <<dst, job, stack, missed>> /\ (Start => job' # job \/ runs' # runs)
    BY <1>k DEF vars, Start
  <2>2. CASE Start
    BY <1>a, <2>2
  <2> QED
    BY <1>9, <1>10, <2>1, <2>2 DEF Pending
<1> QED
  BY <1>a, <1>b, <1>c, <1>d, <1>e, <1>f, <1>g, <1>h, <1>i, <1>j, <1>k DEF Next, Step, Fault

(* A run that succeeds leaves all it has read of the source in the          *)
(* destination, for any trees between which the places are firm and apart,  *)
(* however many runs have failed before it.                                 *)
THEOREM SuccessExactAlways == Spec => []SuccessExact
<1>1. ExactInv => SuccessExact
  <2> SUFFICES ASSUME ExactInv, result = "ok", Firm, Apart, ~LinkInTheWay,
                      NEW p \in Copied, ~NotRead(p)
               PROVE  Exact(p)
    BY DEF SuccessExact
  <2>1. Halfway /\ job.op = "idle" /\ stack = << >>
    BY DEF ExactInv, Plain, Ended
  <2>2. ~Pending(p)
    BY <2>1 DEF Pending
  <2>3. ExactIn(dst, p)
    BY <2>1, <2>2 DEF Halfway
  <2>4. Spot(dst, To(p)) = At(p) /\ (src[p].t = "dir" => Real(dst, To(p)) = In(p))
    BY FirmPlaces DEF ExactInv, ClearInv
  <2> QED
    BY <2>3, <2>4 DEF Exact, ExactIn
<1> QED
  BY <1>1, ExactInit, ExactStep, PTL DEF Spec

-----------------------------------------------------------------------------
(* FailureExplained.  The directories that a run has come to are there.     *)

(* No step takes a directory away.                                          *)
LEMMA DirsStay ==
  ASSUME TypeInv, [Next]_vars, NEW d, IsDir(dst, d)
  PROVE  IsDir(dst', d)
<1>1. CASE d = << >>
  BY <1>1 DEF IsDir
<1> SUFFICES ASSUME IsA(dst, d, "dir") PROVE IsA(dst', d, "dir")
  BY <1>1 DEF IsDir
<1>2. ASSUME NEW q, q # d, Touched(q) PROVE IsA(dst', d, "dir")
  BY <1>2 DEF Touched, IsA
<1>3. ASSUME NEW q, NEW node, ~IsA(dst, q, "dir"), dst' = With(dst, q, node)
      PROVE  IsA(dst', d, "dir")
  BY <1>2, <1>3, WithTouches
<1>4. ASSUME NEW q, ~IsA(dst, q, "dir"), dst' = Without(dst, q)
      PROVE  IsA(dst', d, "dir")
  BY <1>2, <1>4, WithoutTouches
<1>a. CASE Mkdir
  <2>1. UNCHANGED dst \/ (~Has(dst, Spot(dst, job.at)) /\ dst' = With(dst, Spot(dst, job.at), Dir))
    BY <1>a DEF Mkdir, Dir
  <2> QED
    BY <1>3, <2>1 DEF IsA
<1>b. CASE Symlink \/ Clone
  <2>1. ~Has(dst, Here) /\ \E node : dst' = With(dst, Here, node)
    BY <1>b DEF Symlink, Clone
  <2> QED
    BY <1>3, <2>1 DEF IsA
<1>c. CASE LinkUnlink \/ CloneUnlink \/ UnlinkFail
  <2>1. UNCHANGED dst \/ (~IsA(dst, Here, "dir") /\ dst' = Without(dst, Here))
    BY <1>c DEF LinkUnlink, CloneUnlink, UnlinkFail
  <2> QED
    BY <1>4, <2>1
<1>d. CASE Open
  <2>1. /\ ~IsDir(dst, Real(dst, To(job.from)))
        /\ dst' = With(dst, Real(dst, To(job.from)), TornFile)
    BY <1>d DEF Open, CanOpen, TornFile
  <2> QED
    BY <1>3, <2>1 DEF IsDir
<1>e. CASE Write \/ CloseFail
  <2>1. IsA(dst, job.at, "file") /\ dst' = With(dst, job.at, src[job.from])
    BY <1>e DEF Write, CloseFail, TypeInv, JobSane
  <2> QED
    BY <1>3, <2>1 DEF IsA
<1>f. CASE NextEntry \/ Start \/ Readlink \/ ReadlinkFail \/ NotDir \/ BadType \/ LinkFail
           \/ CloneExists \/ OpenFail \/ Fail \/ CloneFail \/ NoClone \/ EndOfDir \/ ReaddirFail
           \/ UNCHANGED vars
  <2>1. UNCHANGED dst
    BY <1>f DEF NextEntry, Start, Readlink, ReadlinkFail, NotDir, BadType, LinkFail,
       CloneExists, OpenFail, Fail, CloneFail, NoClone, EndOfDir, ReaddirFail, vars
  <2> QED
    BY <2>1, SMTT(60)
<1> QED
  BY <1>a, <1>b, <1>c, <1>d, <1>e, <1>f DEF Next, Step, Fault

(* What is copied has a directory to go to.                                 *)
DirsMade ==
  /\ \A i \in DOMAIN stack : IsDir(dst, In(stack[i].from))
  /\ job.op # "idle" /\ src[job.from].t # "dir" /\ job.from # << >> =>
       IsDir(dst, In(Front(job.from)))
  /\ job.op = "visit" /\ src[job.from].t = "dir" =>
       \A d \in Copied : job.at = To(d) /\ d # << >> => IsDir(dst, In(Front(d)))

FailInv ==
  /\ FirmInv
  /\ Firm => DirsMade
  /\ Firm /\ job.errno = "clone" => fails > 0 \/ (env.mac /\ env.cross)
  /\ FailureExplained

LEMMA FailInit == Init => FailInv
<1> SUFFICES ASSUME Init PROVE FailInv
  OBVIOUS
<1>1. FirmInv /\ result = "none" /\ job = Idle /\ stack = << >>
  BY FirmInit DEF Init
<1>2. job.op = "idle" /\ job.errno = "0" /\ DOMAIN stack = {}
  BY <1>1 DEF Idle
<1> QED
  BY <1>1, <1>2 DEF FailInv, FailureExplained, DirsMade

(* The directory that a file or link goes to.                               *)
LEMMA HereIn ==
  ASSUME FirmInv, Firm, DirsMade, job.op # "idle", src[job.from].t # "dir"
  PROVE  /\ Here = At(job.from) /\ Here # << >> /\ job.from \in Copied
         /\ IsDir(dst, Front(Here))
<1>1. Given /\ job.from \in Copied
  BY DEF FirmInv, TypeInv, JobSane
<1>2. Here = At(job.from)
  BY <1>1, FirmPlaces DEF Here
<1> QED
  BY <1>1, <1>2, PlaceTypes DEF DirsMade, IsDir

LEMMA DirsStep ==
  ASSUME FirmInv, FirmInv', Firm, DirsMade, [Next]_vars
  PROVE  DirsMade'
<1>1. /\ TypeInv /\ TypeInv' /\ Given /\ Frames /\ job \in JobSet /\ JobSane /\ JobSane'
  BY DEF FirmInv, TypeInv, TypeOK, JobSet
<1>2. UNCHANGED given /\ Idle.op = "idle"
  BY GivenKept, IdleType
<1>3. src' = src /\ Copied' = Copied /\ \A p : In(p)' = In(p)
  BY <1>2, Unmoved, PlacesUnmoved
<1>4. \A d : IsDir(dst, d) => IsDir(dst', d)
  BY <1>1, DirsStay
<1> DEFINE FramesMade == \A i \in DOMAIN stack' : IsDir(dst', In(stack'[i].from))
           FileMade == job'.op # "idle" /\ src[job'.from].t # "dir" /\ job'.from # << >> =>
                         IsDir(dst', In(Front(job'.from)))
           DirMade == job'.op = "visit" /\ src[job'.from].t = "dir" =>
                         \A d \in Copied : job'.at = To(d) /\ d # << >> => IsDir(dst', In(Front(d)))
<1> SUFFICES FramesMade /\ FileMade /\ DirMade
  BY <1>3 DEF DirsMade, IsDir, IsA, Has
<1>5. UNCHANGED stack => FramesMade
  BY <1>4 DEF DirsMade
<1>6. stack' = << >> => FramesMade
  OBVIOUS
<1>7. job' = Idle => FileMade /\ DirMade
  BY <1>2
<1>8. ASSUME job.op # "idle", job'.from = job.from, src[job.from].t # "dir"
      PROVE  FileMade /\ DirMade
  BY <1>4, <1>8 DEF DirsMade
<1> HIDE DEF FramesMade, FileMade, DirMade
(* a new visit begins at the destination itself *)
<1>9. ASSUME job'.at = <<Arg>> PROVE DirMade
  <2> SUFFICES ASSUME NEW d \in Copied, <<Arg>> = To(d) PROVE d = << >>
    BY <1>9 DEF DirMade
  <2>1. d \in Path /\ Len(To(d)) = Len(d) + 1 /\ Len(d) \in Nat /\ Len(<<Arg>>) = 1
    BY <1>1, CopiedPath, ToPath, ArgPath
  <2> QED
    BY <2>1, EmptyPath, SMTT(60)
<1>a. CASE Start
  <2>1. job' = Visit(<< >>) /\ UNCHANGED stack
    BY <1>a DEF Start
  <2>2. job'.from = << >> /\ job'.at = <<Arg>>
    BY <2>1 DEF Visit
  <2> QED
    BY <1>5, <1>9, <2>1, <2>2 DEF FileMade
<1>b. CASE Mkdir
  <2>1. Visiting("dir") /\ Enter /\ UNCHANGED noted
    BY <1>b DEF Mkdir
  <2>2. job.from \in Copied /\ src[job.from].t = "dir" /\ job.op = "visit"
    BY <1>1, <2>1 DEF Visiting, JobSane
  <2>3. \A d \in Copied : src[d].t = "dir" /\ job.at = To(d) => IsDir(dst', In(d))
    BY <1>b, <1>1, <1>2, MadeDir
  <2> DEFINE frame == [from |-> job.from, left |-> Entries(job.from)]
  <2>4. CASE job' = Idle /\ job.at = To(job.from) /\ stack' = Append(stack, frame)
    <3>1. IsDir(dst', In(job.from))
      BY <2>2, <2>3, <2>4
    <3>2. stack \in Seq(Frame) /\ frame \in Frame /\ frame.from = job.from
      BY <1>1, <2>2, EntryTypes, CopiedPath DEF Frames, Frame
    <3> HIDE DEF frame
    <3>3. /\ \A i \in 1..Len(stack) : stack'[i] = stack[i]
          /\ stack'[Len(stack) + 1] = frame
          /\ DOMAIN stack' = 1..(Len(stack) + 1) /\ DOMAIN stack = 1..Len(stack)
          /\ Len(stack) \in Nat
      BY <2>4, <3>2, AppendProperties, LenProperties
    <3>4. ASSUME NEW i \in DOMAIN stack' PROVE IsDir(dst', In(stack'[i].from))
      <4>1. CASE i \in DOMAIN stack
        BY <1>4, <3>3, <4>1 DEF DirsMade
      <4>2. CASE i = Len(stack) + 1
        BY <3>1, <3>2, <3>3, <4>2
      <4> QED
        BY <3>3, <4>1, <4>2
    <3> QED
      BY <1>7, <2>4, <3>4 DEF FramesMade
  <2>5. CASE /\ UNCHANGED stack /\ job'.op = "visit" /\ job'.from = job.from
             /\ job'.at \in Cuts(To(job.from)) /\ Front(job'.at) = job.at
    <3>1. ASSUME NEW d \in Copied, job'.at = To(d), d # << >> PROVE IsDir(dst', In(Front(d)))
      <4>1. Front(d) \in Copied /\ src[Front(d)].t = "dir" /\ Front(To(d)) = To(Front(d))
        BY <1>1, <3>1, ParentCopied, CopiedPath, ToFront
      <4> QED
        BY <2>3, <2>5, <3>1, <4>1
    <3> QED
      BY <1>5, <2>2, <2>5, <3>1 DEF FileMade, DirMade
  <2> QED
    BY <1>1, <1>2, <2>1, <2>4, <2>5, TypeEnter
<1>c. CASE NextEntry
  <2> DEFINE top == stack[Len(stack)]
  <2>1. /\ Len(stack) \in DOMAIN stack
        /\ \E n \in top.left :
             /\ job'.from = Append(top.from, n) /\ job'.at = <<Arg>>
             /\ n \in Entries(top.from)
             /\ DOMAIN stack' = DOMAIN stack
             /\ \A i \in DOMAIN stack : stack'[i].from = stack[i].from
    BY <1>c, <1>1, TypeNext
  <2>2. PICK n \in top.left :
          /\ job'.from = Append(top.from, n) /\ job'.at = <<Arg>>
          /\ n \in Entries(top.from)
          /\ DOMAIN stack' = DOMAIN stack
          /\ \A i \in DOMAIN stack : stack'[i].from = stack[i].from
    BY <2>1
  <2>3. top.from \in Copied /\ IsDir(dst, In(top.from))
    BY <1>1, <2>1 DEF Frames, DirsMade
  <2>4. Front(job'.from) = top.from
    BY <1>1, <2>2, <2>3, EntryCopied
  <2>5. FileMade
    BY <1>4, <2>3, <2>4 DEF FileMade
  <2>6. FramesMade
    BY <1>4, <2>2 DEF FramesMade, DirsMade
  <2> QED
    BY <1>9, <2>2, <2>5, <2>6
<1>d. CASE EndOfDir \/ ReaddirFail
  <2>1. Leave /\ UNCHANGED job /\ job.op = "idle"
    BY <1>d DEF EndOfDir, ReaddirFail, Leave
  <2>2. /\ DOMAIN stack = 1..Len(stack) /\ DOMAIN stack' = 1..(Len(stack) - 1) /\ Len(stack) \in Nat
        /\ \A i \in 1..(Len(stack) - 1) : stack'[i] = stack[i]
    BY <1>1, <1>2, <2>1, TypeLeave
  <2>3. FramesMade
    BY <1>4, <2>2 DEF FramesMade, DirsMade
  <2> QED
    BY <2>1, <2>3 DEF FileMade, DirMade
<1>e. CASE NotDir \/ BadType \/ LinkFail \/ CloneExists \/ OpenFail \/ CloseFail \/ Fail
  BY <1>e, <1>6, <1>7 DEF NotDir, BadType, LinkFail, CloneExists, OpenFail, CloseFail, Fail, GiveUp
<1>f. CASE Symlink \/ Clone \/ Write
  BY <1>f, <1>5, <1>6, <1>7 DEF Symlink, Clone, Write, Succeed, GiveUp
<1>g. CASE Readlink \/ ReadlinkFail
  <2>1. PICK c : job' = [job EXCEPT !.op = "symlink", !.c = c]
    BY <1>g DEF Readlink, ReadlinkFail
  <2>2. job'.from = job.from /\ UNCHANGED stack /\ job.op # "idle" /\ src[job.from].t # "dir"
    BY <1>g, <1>1, <2>1 DEF Readlink, ReadlinkFail, Visiting, JobSet
  <2> QED
    BY <1>5, <1>8, <2>2
<1>h. CASE LinkUnlink \/ CloneUnlink \/ UnlinkFail \/ CloneFail \/ NoClone \/ Open
  <2>1. job'.from = job.from /\ UNCHANGED stack
    BY <1>h, <1>1 DEF LinkUnlink, CloneUnlink, UnlinkFail, CloneFail, NoClone, Open, JobSet
  <2>2. job.op # "idle" /\ src[job.from].t # "dir"
    BY <1>h, <1>1 DEF LinkUnlink, CloneUnlink, UnlinkFail, CloneFail, NoClone, Open, Visiting, JobSane
  <2> QED
    BY <1>5, <1>8, <2>1, <2>2
<1>i. CASE UNCHANGED vars
  <2>1. UNCHANGED <<stack, job, dst>>
    BY <1>i DEF vars
  <2> QED
    BY <1>5, <2>1 DEF FileMade, DirMade, DirsMade
<1> QED
  BY <1>a, <1>b, <1>c, <1>d, <1>e, <1>f, <1>g, <1>h, <1>i DEF Next, Step, Fault

(* What is in the way does not depend on what the run is doing.             *)
LEMMA SameBlocked ==
  ASSUME UNCHANGED <<src, env, dst>>, NEW p, Blocked(p)
  PROVE  Blocked(p)'
<1>1. ASSUME NEW q PROVE Walk(dst, q)' = Walk(dst, q)
  BY DEF Walk
<1>2. ASSUME NEW q PROVE Real(dst, q)' = Real(dst, q)
  BY <1>1 DEF Real
<1>3. ASSUME NEW q PROVE Spot(dst, q)' = Spot(dst, q)
  BY <1>2 DEF Spot
<1> QED
  BY <1>2, <1>3 DEF Blocked, IsDir, IsA, Has

LEMMA FailStep == FailInv /\ [Next]_vars => FailInv'
<1> SUFFICES ASSUME FailInv, [Next]_vars PROVE FailInv'
  OBVIOUS
<1> USE DEF counters
<1>1. /\ FirmInv /\ FirmInv' /\ TypeInv /\ Given /\ Sound(dst) /\ fails \in Nat
      /\ job \in JobSet /\ JobSane
  BY FirmStep DEF FailInv, FirmInv, TypeInv, TypeOK, JobSet
<1>2. UNCHANGED given /\ Idle.op = "idle" /\ Idle.errno = "0"
  BY GivenKept, IdleType DEF Idle
<1>3. src' = src /\ env' = env /\ Copied' = Copied /\ Firm' = Firm
  BY <1>2, Unmoved, PlacesUnmoved
<1>4. CountFail => fails' = fails + 1
  BY DEF CountFail
<1>5. fails' \in Nat /\ fails' >= fails
  <2>1. fails' = fails \/ CountFail
    BY DEF Next, Step, Fault, vars, Start, Mkdir, NotDir, NextEntry, EndOfDir, BadType, Readlink,
       Symlink, LinkFail, LinkUnlink, Clone, CloneExists, CloneUnlink, CloneFail, NoClone, Open,
       OpenFail, Write, ReaddirFail, ReadlinkFail, UnlinkFail, CloseFail, Fail
  <2> QED
    BY <1>1, <1>4, <2>1, SMTT(60)
<1> SUFFICES ASSUME Firm
             PROVE  /\ job'.errno = "clone" => fails' > 0 \/ (env.mac /\ env.cross)
                    /\ FailureExplained'
  <2>1. Firm => DirsMade'
    BY <1>1, DirsStep DEF FailInv
  <2>2. ~Firm => FailureExplained'
    BY <1>3 DEF FailureExplained
  <2> QED
    BY <1>1, <1>3, <2>1, <2>2 DEF FailInv
<1>6. DirsMade /\ (job.errno = "clone" => fails > 0 \/ (env.mac /\ env.cross))
  BY DEF FailInv
<1>7. job.op # "idle" /\ src[job.from].t # "dir" =>
        /\ Here = At(job.from) /\ Here # << >> /\ job.from \in Copied
        /\ IsDir(dst, Front(Here)) /\ Spot(dst, To(job.from)) = Here
  BY <1>1, <1>6, HereIn DEF Here
<1>8. job'.errno = "clone" => fails' > 0 \/ (env.mac /\ env.cross)
  <2>1. CASE job'.errno \in {job.errno, "0"}
    BY <1>1, <1>5, <1>6, <2>1
  <2>2. CASE CloneFail
    <3>1. job.op # "idle" /\ src[job.from].t # "dir" /\ env.mac
      BY <2>2 DEF CloneFail, Visiting
    <3>2. env.cross \/ fails' = fails + 1
      BY <1>4, <1>7, <2>2, <3>1 DEF CloneFail
    <3> QED
      BY <1>1, <3>1, <3>2
  <2>3. CASE Start
    BY <2>1, <2>3 DEF Start, Visit
  <2>4. CASE NextEntry
    BY <1>1, <2>1, <2>4, TypeNext
  <2>5. CASE Mkdir
    BY <1>1, <1>2, <2>1, <2>5, TypeEnter DEF Mkdir
  <2>6. CASE Readlink \/ ReadlinkFail
    <3>1. PICK c : job' = [job EXCEPT !.op = "symlink", !.c = c]
      BY <2>6 DEF Readlink, ReadlinkFail
    <3> QED
      BY <1>1, <2>1, <3>1 DEF JobSet
  <2>7. CASE NoClone \/ Open
    BY <1>1, <2>1, <2>7 DEF NoClone, Open, JobSet
  <2>8. CASE LinkUnlink \/ CloneUnlink \/ UnlinkFail \/ EndOfDir \/ ReaddirFail \/ UNCHANGED vars
    BY <2>1, <2>8 DEF LinkUnlink, CloneUnlink, UnlinkFail, EndOfDir, ReaddirFail, vars
  <2>9. CASE NotDir \/ BadType \/ Symlink \/ LinkFail \/ Clone \/ CloneExists \/ OpenFail
             \/ Write \/ CloseFail \/ Fail
    BY <1>2, <2>1, <2>9 DEF NotDir, BadType, Symlink, LinkFail, Clone, CloneExists, OpenFail,
       Write, CloseFail, Fail, Succeed, GiveUp
  <2> QED
    BY <2>2, <2>3, <2>4, <2>5, <2>6, <2>7, <2>8, <2>9 DEF Next, Step, Fault
<1> SUFFICES ASSUME result' = "failed" PROVE FailureExplained'
  BY <1>8 DEF FailureExplained
<1>9. ASSUME NEW p \in Copied, UNCHANGED dst, Blocked(p) PROVE FailureExplained'
  <2>1. Blocked(p)'
    BY <1>2, <1>3, <1>9, SameBlocked DEF given
  <2> QED
    BY <1>3, <2>1 DEF FailureExplained
<1>10. fails' > 0 => FailureExplained'
  BY DEF FailureExplained
<1>a. CASE NotDir
  <2> DEFINE q == Spot(dst, job.at)
  <2>1. /\ job.op = "visit" /\ src[job.from].t = "dir" /\ job.from \in Copied /\ UNCHANGED dst
        /\ (Has(dst, q) \/ ~IsDir(dst, Front(q))) /\ ~IsDir(dst, Real(dst, job.at))
        /\ job.at \in Cuts(To(job.from))
    BY <1>a, <1>1 DEF NotDir, Visiting, JobSane
  <2>2. PICK d \in Copied : job.at = To(d) /\ src[d].t = "dir"
    BY <1>1, <2>1, CutCopied
  <2>3. q = At(d)
    BY <1>1, <2>2, FirmPlaces
  <2>4. IsDir(dst, Front(At(d)))
    BY <1>1, <1>6, <2>1, <2>2, PlaceTypes DEF DirsMade, IsDir
  <2>5. Blocked(d)
    BY <2>1, <2>2, <2>3, <2>4 DEF Blocked
  <2> QED
    BY <1>9, <2>1, <2>5
<1>b. CASE BadType
  <2>1. job.from \in Copied /\ src[job.from].t = "other"
    BY <1>b, <1>1 DEF BadType, Visiting, JobSane
  <2> QED
    BY <1>3, <2>1 DEF FailureExplained
<1>c. CASE LinkFail \/ CloneExists
  <2>1. /\ job.op # "idle" /\ src[job.from].t \in {"file", "link"} /\ job.from \in Copied /\ UNCHANGED dst
    BY <1>c, <1>1 DEF LinkFail, CloneExists, Visiting, JobSane
  <2>2. Blocked(job.from)
    <3>1. IsDir(dst, Front(Here)) /\ Spot(dst, To(job.from)) = Here
      BY <1>7, <2>1
    <3>2. CASE LinkFail
      <4>1. src[job.from].t = "link" /\ Has(dst, Here) /\ (~env.force \/ IsA(dst, Here, "dir"))
        BY <1>1, <3>1, <3>2 DEF LinkFail, JobSane
      <4> QED
        BY <3>1, <4>1 DEF Blocked
    <3>3. CASE CloneExists
      <4>1. src[job.from].t = "file" /\ Has(dst, Here) /\ env.mac /\ ~env.force
        BY <3>3 DEF CloneExists, Visiting
      <4> QED
        BY <3>1, <4>1 DEF Blocked
    <3> QED
      BY <1>c, <3>2, <3>3
  <2> QED
    BY <1>9, <2>1, <2>2
<1>d. CASE OpenFail
  <2>1. /\ job.op # "idle" /\ src[job.from].t = "file" /\ job.from \in Copied /\ UNCHANGED dst
        /\ ~CanOpen(Real(dst, To(job.from)))
    BY <1>d, <1>1 DEF OpenFail, JobSane
  <2>2. IsDir(dst, Front(Here)) /\ Spot(dst, To(job.from)) = Here /\ Here # << >>
    BY <1>7, <2>1
  <2>3. ~IsA(dst, Here, "link") => Real(dst, To(job.from)) = Here
    BY <1>1, <2>1, <2>2, CopiedPath, SpotIs
  <2>4. IsA(dst, Here, "link") \/ IsA(dst, Here, "dir")
    BY <2>1, <2>2, <2>3 DEF CanOpen, IsDir
  <2>5. Blocked(job.from)
    BY <2>1, <2>2, <2>4 DEF Blocked, IsA
  <2> QED
    BY <1>9, <2>1, <2>5
<1>e. CASE Write
  <2>1. job.errno = "clone" /\ UNCHANGED fails
    BY <1>e, <1>1 DEF Write, Succeed, JobSet
  <2> QED
    BY <1>3, <1>6, <2>1 DEF FailureExplained
<1>f. CASE CloseFail \/ Fail \/ ReadlinkFail \/ ReaddirFail \/ UnlinkFail
  <2>1. fails' = fails + 1
    BY <1>f, <1>4 DEF CloseFail, Fail, ReadlinkFail, ReaddirFail, UnlinkFail
  <2> QED
    BY <1>1, <1>10, <2>1
<1>g. CASE UNCHANGED vars
  <2>1. result = "failed" /\ UNCHANGED <<dst, fails>>
    BY <1>g DEF vars
  <2>2. CASE \E p \in Copied : Blocked(p)
    BY <1>9, <2>1, <2>2
  <2> QED
    BY <1>3, <2>1, <2>2 DEF FailInv, FailureExplained
<1>h. /\ ~Start /\ ~Mkdir /\ ~NextEntry /\ ~EndOfDir /\ ~Readlink /\ ~Symlink /\ ~LinkUnlink /\ ~Clone
      /\ ~CloneUnlink /\ ~CloneFail /\ ~NoClone /\ ~Open
  <2>1. job.op # "idle" => result = "running"
    BY <1>1 DEF TypeInv, TypeOK
  <2> QED
    BY <2>1 DEF Start, Mkdir, NextEntry, EndOfDir, Leave, Readlink, Symlink, LinkUnlink, Clone,
       CloneUnlink, CloneFail, NoClone, Open, Visiting, Succeed
<1> QED
  BY <1>a, <1>b, <1>c, <1>d, <1>e, <1>f, <1>g, <1>h DEF Next, Step, Fault

(* No run fails without a reason, for any trees between which the ways are  *)
(* firm.                                                                    *)
THEOREM FailureExplainedAlways == Spec => []FailureExplained
<1>1. FailInv => FailureExplained
  BY DEF FailInv
<1> QED
  BY <1>1, FailInit, FailStep, PTL DEF Spec
=============================================================================
