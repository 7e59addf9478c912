-------------------------- MODULE FetchSource_proof --------------------------
(***************************************************************************)
(* Proofs about the fetching of the llvm sources for any number of builds, *)
(* runs and faults, and whatever a download yields: type correctness, that *)
(* the stamp of a tree is honest, that only -f replaces a stamped tree, and *)
(* why a script fails.                                                     *)
(***************************************************************************)
EXTENDS FetchSource, FiniteSetTheorems, TLAPS

(* The files the scripts read and write are there where they do. *)
OpenFiles ==
  /\ \A b \in Build : pc[b] = "fetch" => out[b] # 0
  /\ \A b \in Build : pc[b] = "untar" => in[b] # 0
  /\ \A b \in Build : pc[b] \in {"rmtree", "move"} => ext[b] \in {"good", "other"}

TypeInv == TypeOK /\ OpenFiles

(* An archive that may be extracted into a stamped tree. *)
Fine(c, raced) == c = "good" \/ (c = "other" /\ raced)

(* While no other build is after the archive, what a build found out about *)
(* it stays true until its tar is done.                                    *)
Alone ==
  \A b, c \in Build :
    pc[b] \in Window /\ pc[c] \in Window /\ ~overlapped[b] => b = c

Checked ==
  \A b \in Build :
    /\ pc[b] = "extract" /\ ~overlapped[b] => GoodArchive
    /\ pc[b] = "untar" /\ ~overlapped[b] => content[in[b]] = "good"
    /\ pc[b] \in {"rmtree", "move"} => Fine(ext[b], overlapped[b])

InTheMaking ==
  \A b \in Build :
    /\ pc[b] \in {"patch", "stamp"} => Fine(tree[b].of, tree[b].raced)
    /\ pc[b] = "stamp" => tree[b].patched = NPatch
    /\ pc[b] \in {"move", "patch", "stamp"} => ~tree[b].stamp

HonestInv == TypeInv /\ Alone /\ Checked /\ InTheMaking /\ StampHonest

(* A script without -f that is past the look at the stamp has a tree       *)
(* without one.                                                            *)
UnforcedUnstamped ==
  \A b \in Build : pc[b] \in Live \ {"check"} /\ ~force[b] => ~tree[b].stamp

UntouchedInv == TypeInv /\ UnforcedUnstamped

(* What a build that is alone finds at the path is what it was served.      *)
Downloading ==
  \A b \in Build :
    /\ pc[b] = "fetch" /\ ~overlapped[b] =>
         archive = out[b] /\ writer[archive] = b /\ content[archive] = "partial"
    /\ pc[b] = "verify" /\ ~overlapped[b] => GoodArchive \/ got[b] \in {"other", "page"}

FailInv == HonestInv /\ Downloading /\ FailExplained

-----------------------------------------------------------------------------
(* There is always an unused inode: at most the archive and two open files *)
(* of every build are in use.                                              *)
LEMMA ImageBound ==
  ASSUME NEW f, f \in [Build -> Ino \cup {0}]
  PROVE  LET S == {f[b] : b \in Build}
         IN  IsFiniteSet(S) /\ Cardinality(S) <= Cardinality(Build)
<1> DEFINE S == {f[b] : b \in Build}
<1>1. f \in Surjection(Build, S)
  BY DEF Surjection
<1> QED BY <1>1, FS_Surjection, FetchAssumption DEF FetchAssumption

LEMMA FreeInode ==
  ASSUME TypeOK, archive = 0
  PROVE  \E i \in Ino : i \notin InUse
<1> DEFINE O == {out[b] : b \in Build}
           I == {in[b] : b \in Build}
           n == Cardinality(Build)
<1>1. n \in Nat
  BY FS_CardinalityType, FetchAssumption DEF FetchAssumption
<1>2. IsFiniteSet(O) /\ Cardinality(O) <= n /\ IsFiniteSet(I) /\ Cardinality(I) <= n
  BY ImageBound DEF TypeOK
<1>3. /\ IsFiniteSet(O \cup I)
      /\ Cardinality(O \cup I) <= 2 * n
  <2>1. /\ Cardinality(O) \in Nat /\ Cardinality(I) \in Nat
        /\ Cardinality(O \cap I) \in Nat
    BY <1>2, FS_CardinalityType, FS_Intersection
  <2>2. /\ IsFiniteSet(O \cup I)
        /\ Cardinality(O \cup I) = Cardinality(O) + Cardinality(I) - Cardinality(O \cap I)
    BY <1>2, FS_Union
  <2> QED BY <1>1, <1>2, <2>1, <2>2
<1>4. /\ IsFiniteSet(InUse) /\ Cardinality(InUse) \in Nat
      /\ Cardinality(InUse) <= 2 * n + 1
  <2>1. InUse = (O \cup I) \cup {archive}
    BY DEF InUse
  <2>2. Cardinality(O \cup I) \in Nat
    BY <1>3, FS_CardinalityType
  <2>3. /\ IsFiniteSet((O \cup I) \cup {archive})
        /\ Cardinality((O \cup I) \cup {archive}) \in
             {Cardinality(O \cup I), Cardinality(O \cup I) + 1}
    BY <1>3, FS_AddElement
  <2> HIDE DEF O, I, n
  <2> QED BY <1>1, <1>3, <2>1, <2>2, <2>3
<1>5. SUFFICES ASSUME Ino \subseteq InUse PROVE FALSE
  OBVIOUS
<1>6. IsFiniteSet(Ino) /\ Cardinality(Ino) = 2 * n + 1
  BY <1>1, FS_Interval, SMTT(60) DEF Ino
<1>7. Cardinality(Ino \cup {0}) = 2 * n + 2
  <2>1. 0 \notin Ino
    BY <1>1 DEF Ino
  <2> QED BY <1>1, <1>6, <2>1, FS_AddElement
<1>8. Ino \cup {0} \in SUBSET InUse
  BY <1>5 DEF InUse
<1> QED BY <1>1, <1>4, <1>7, <1>8, FS_Subset

-----------------------------------------------------------------------------
USE DEF Goto, shared, fds, counters, history

LEMMA InitType == Init => TypeInv
<1> SUFFICES ASSUME Init PROVE TypeInv
  OBVIOUS
<1>1. NoTree \in Tree
  BY FetchAssumption DEF NoTree, Tree, FetchAssumption
<1>2. (CHOOSE b \in Build : TRUE) \in Build
  BY FetchAssumption DEF FetchAssumption
<1>3. TypeOK
  <2>1. /\ pc \in [Build -> Live \cup Over]
        /\ force \in [Build -> BOOLEAN] /\ sys \in [Build -> Sys]
        /\ tool \in [Build -> {"wget", "curl"}]
    BY DEF Init, Over
  <2>2. /\ archive \in Ino \cup {0}
        /\ content \in [Ino -> Content \cup {"partial"}]
        /\ writer \in [Ino -> Build]
        /\ out \in [Build -> Ino \cup {0}] /\ in \in [Build -> Ino \cup {0}]
    BY <1>2 DEF Init
  <2>3. /\ ext \in [Build -> {"none", "partial", "good", "other"}]
        /\ tree \in [Build -> Tree]
        /\ got \in [Build -> Content \cup {"none", "failure"}]
        /\ overlapped \in [Build -> BOOLEAN]
    BY <1>1 DEF Init
  <2>4. starts \in 0..MaxStart /\ kills \in 0..MaxKill /\ fails \in 0..MaxFail
    BY FetchAssumption DEF Init, FetchAssumption
  <2> QED BY <2>1, <2>2, <2>3, <2>4 DEF TypeOK
<1>4. OpenFiles
  BY DEF Init, OpenFiles
<1> QED BY <1>3, <1>4 DEF TypeInv

LEMMA OpenInode ==
  ASSUME TypeInv, NEW b \in Build, Open(b)
  PROVE  archive' \in Ino /\ archive' # 0
<1>1. CASE archive # 0
  BY <1>1 DEF TypeInv, TypeOK, Open
<1>2. CASE archive = 0
  <2>1. archive' \in Ino
    BY <1>2, FreeInode DEF Open, TypeInv
  <2>2. 0 \notin Ino
    BY FS_CardinalityType, FetchAssumption DEF FetchAssumption, Ino
  <2> QED BY <2>1, <2>2
<1> QED BY <1>1, <1>2

(* What the scripts do to a tree leaves it a tree. *)
LEMMA TreeType ==
  ASSUME NEW t \in Tree, NEW s \in Sys, NEW v \in BOOLEAN
  PROVE  /\ [t EXCEPT !.sys = s] \in Tree
         /\ [t EXCEPT !.stamp = TRUE] \in Tree
         /\ [t EXCEPT !.whole = FALSE, !.stamp = v] \in Tree
         /\ t.patched < NPatch => [t EXCEPT !.patched = @ + 1, !.sys = s] \in Tree
<1>1. NPatch \in Nat
  BY FetchAssumption DEF FetchAssumption
<1>2. [t EXCEPT !.sys = s] \in Tree
  BY DEF Tree
<1>3. [t EXCEPT !.stamp = TRUE] \in Tree
  BY DEF Tree
<1>4. [t EXCEPT !.whole = FALSE, !.stamp = v] \in Tree
  BY DEF Tree
<1>5. ASSUME t.patched < NPatch PROVE [t EXCEPT !.patched = @ + 1, !.sys = s] \in Tree
  <2>1. t.patched \in 0..NPatch
    BY DEF Tree
  <2>2. t.patched + 1 \in 0..NPatch
    BY <1>1, <1>5, <2>1
  <2> QED BY <2>2 DEF Tree
<1> QED BY <1>2, <1>3, <1>4, <1>5

LEMMA NewTreeType ==
  /\ NoTree \in Tree
  /\ \A c \in {"none", "good", "other"}, v \in BOOLEAN : [NoTree EXCEPT !.of = c, !.raced = v] \in Tree
<1>1. 0 \in 0..NPatch
  BY FetchAssumption DEF FetchAssumption
<1>2. NoTree \in Tree
  BY <1>1 DEF NoTree, Tree
<1>3. ASSUME NEW c \in {"none", "good", "other"}, NEW v \in BOOLEAN
     PROVE  [NoTree EXCEPT !.of = c, !.raced = v] \in Tree
  BY <1>2 DEF Tree
<1> QED BY <1>2, <1>3

(* What a removal that was cut short, and mv, do to the trees. *)
LEMMA RuinedTree ==
  ASSUME TypeOK, NEW b \in Build, Ruined(b)
  PROVE  /\ pc[b] = "rmtree"
         /\ tree' \in [Build -> Tree]
         /\ \A c \in Build \ {b} : tree'[c] = tree[c]
         /\ \A c \in Build :
              /\ tree'[c].of = tree[c].of /\ tree'[c].raced = tree[c].raced
              /\ tree'[c].patched = tree[c].patched
              /\ tree'[c].stamp => tree[c].stamp
              /\ tree'[c].whole => tree[c].whole
<1>1. PICK v \in {tree[b].stamp, FALSE} :
        tree' = [tree EXCEPT ![b].whole = FALSE, ![b].stamp = v]
  BY DEF Ruined
<1>2. tree \in [Build -> Tree] /\ tree[b] \in Tree /\ pc[b] = "rmtree"
  BY DEF TypeOK, Ruined
<1>3. v \in BOOLEAN
  BY <1>1, <1>2 DEF Tree
<1> DEFINE t == [tree[b] EXCEPT !.whole = FALSE, !.stamp = v]
<1>4. tree' = [tree EXCEPT ![b] = t]
  BY <1>1
<1>5. t \in Tree
  BY <1>2, <1>3 DEF Tree
<1>6. /\ t.of = tree[b].of /\ t.raced = tree[b].raced /\ t.patched = tree[b].patched
      /\ t.stamp => tree[b].stamp
      /\ t.whole => tree[b].whole
  BY <1>1, <1>2 DEF Tree
<1> HIDE DEF t
<1> QED BY <1>2, <1>4, <1>5, <1>6

LEMMA MovedTree ==
  ASSUME TypeOK, NEW b \in Build, ext[b] # "partial", Moved(b)
  PROVE  /\ tree' \in [Build -> Tree]
         /\ \A c \in Build \ {b} : tree'[c] = tree[c]
         /\ ~tree'[b].stamp /\ tree'[b].of = ext[b] /\ tree'[b].raced = overlapped[b]
<1> DEFINE t == [NoTree EXCEPT !.of = ext[b], !.raced = overlapped[b]]
<1>1. tree \in [Build -> Tree] /\ ext[b] \in {"none", "good", "other"} /\ overlapped[b] \in BOOLEAN
  BY DEF TypeOK
<1>2. t \in Tree
  BY <1>1, NewTreeType
<1>3. ~t.stamp /\ t.of = ext[b] /\ t.raced = overlapped[b]
  BY DEF NoTree
<1>4. tree' = [tree EXCEPT ![b] = t]
  BY DEF Moved
<1> HIDE DEF t
<1> QED BY <1>1, <1>2, <1>3, <1>4

LEMMA EnterType ==
  ASSUME TypeOK, NEW b \in Build, EnterWindow(b)
  PROVE  overlapped' \in [Build -> BOOLEAN]
<1> DEFINE E(c) == IF c = b THEN \E d \in Build : pc[d] \in Window
                   ELSE overlapped[c] \/ pc[c] \in Window
<1>1. \A c \in Build : E(c) \in BOOLEAN
  OBVIOUS
<1>2. overlapped' = [c \in Build |-> E(c)]
  BY DEF EnterWindow
<1> HIDE DEF E
<1> QED BY <1>1, <1>2

LEMMA TypeStep ==
  ASSUME TypeInv, NEW b \in Build, Start(b) \/ Script(b) \/ Fault(b)
  PROVE  TypeInv'
<1> USE DEF TypeInv, TypeOK, OpenFiles, Live, Over, Window
<1>1. CASE Start(b)
  BY <1>1, FetchAssumption DEF Start, FetchAssumption
<1>2. CASE UpToDate(b) \/ OutOfDate(b) \/ Cached(b) \/ Remove(b) \/ Verify(b)
  <2>1. overlapped' \in [Build -> BOOLEAN]
    BY <1>2, EnterType DEF UpToDate, OutOfDate, Cached, Remove, Verify
  <2>2. CASE UpToDate(b) \/ OutOfDate(b)
    BY <2>1, <2>2 DEF UpToDate, OutOfDate
  <2>3. CASE Cached(b) \/ Remove(b)
    BY <2>3 DEF Cached, Remove
  <2>4. CASE Verify(b)
    BY <2>4 DEF Verify
  <2> QED BY <1>2, <2>2, <2>3, <2>4
<1>3. CASE Open(b)
  BY <1>3, OpenInode DEF Open
<1>4. CASE Fetched(b)
  BY <1>4, FetchAssumption DEF Fetched, FetchAssumption, Content
<1>5. CASE FetchFails(b)
  BY <1>5, FetchAssumption DEF FetchFails, FetchAssumption
<1>6. CASE Extract(b) \/ Untar(b)
  BY <1>6, SMTT(60) DEF Extract, Untar, Content
<1>7. CASE RmTree(b) \/ Move(b)
  <2>1. tree' \in [Build -> Tree]
    <3>1. CASE RmTree(b)
      BY <3>1, NewTreeType DEF RmTree
    <3>2. CASE Move(b)
      BY <3>2, MovedTree DEF Move
    <3> QED BY <1>7, <3>1, <3>2
  <2> QED BY <1>7, <2>1 DEF RmTree, Move
<1>8. CASE Patch(b) \/ PatchesOver(b) \/ Stamp(b)
  <2>1. sys[b] \in Sys /\ tree[b] \in Tree
    OBVIOUS
  <2>2. tree' \in [Build -> Tree]
    <3>1. CASE Patch(b)
      <4>1. tree' = [tree EXCEPT ![b] = [tree[b] EXCEPT !.patched = @ + 1, !.sys = sys[b]]]
        BY <3>1 DEF Patch
      <4>2. [tree[b] EXCEPT !.patched = @ + 1, !.sys = sys[b]] \in Tree
        BY <2>1, <3>1, TreeType DEF Patch
      <4> QED BY <4>1, <4>2
    <3>2. CASE PatchesOver(b)
      BY <2>1, <3>2, TreeType DEF PatchesOver
    <3>3. CASE Stamp(b)
      BY <2>1, <3>3, TreeType DEF Stamp
    <3> QED BY <1>8, <3>1, <3>2, <3>3
  <2> QED BY <1>8, <2>2 DEF Patch, PatchesOver, Stamp
<1>9. CASE Fail(b) \/ Kill(b)
  <2>1. tree' \in [Build -> Tree]
    <3>1. CASE UNCHANGED tree
      BY <3>1
    <3>2. CASE Ruined(b)
      BY <3>2, RuinedTree
    <3>3. CASE pc[b] = "move" /\ Moved(b)
      BY <3>3, MovedTree
    <3> QED BY <1>9, <3>1, <3>2, <3>3 DEF Fail, Kill
  <2>2. kills' \in 0..MaxKill /\ fails' \in 0..MaxFail
    BY <1>9, FetchAssumption DEF Fail, Kill, FetchAssumption
  <2> QED BY <1>9, <2>1, <2>2 DEF Fail, Kill
<1> QED BY <1>1, <1>2, <1>3, <1>4, <1>5, <1>6, <1>7, <1>8, <1>9 DEF Script, Fault

LEMMA TypeNext == TypeInv /\ [Next]_vars => TypeInv'
<1> SUFFICES ASSUME TypeInv, [Next]_vars PROVE TypeInv'
  OBVIOUS
<1>1. CASE UNCHANGED vars
  BY <1>1 DEF TypeInv, TypeOK, OpenFiles, vars
<1>2. CASE Next
  BY <1>2, TypeStep DEF Next
<1> QED BY <1>1, <1>2

(* Every state of the scripts has its type, in 010-llvm-source-stage1.sh    *)
(* and 025-llvm-source-stage2.sh.                                          *)
THEOREM TypeCorrect == Spec => []TypeOK
<1>1. TypeInv => TypeOK
  BY DEF TypeInv
<1> QED BY <1>1, InitType, TypeNext, PTL DEF Spec

-----------------------------------------------------------------------------
(* Builds that are after the archive at once know that they overlap. *)
LEMMA AloneStep ==
  ASSUME TypeInv, Alone, NEW b \in Build, Start(b) \/ Script(b) \/ Fault(b)
  PROVE  Alone'
<1> USE DEF TypeInv, TypeOK, Alone, Window, Over, Live
<1>1. CASE OutOfDate(b)
  BY <1>1, ZenonT(60) DEF OutOfDate, EnterWindow
<1>2. CASE Start(b) \/ Fault(b)
  BY <1>2 DEF Start, Fault, FetchFails, Fail, Kill
<1>3. CASE UpToDate(b) \/ Cached(b) \/ Remove(b) \/ Open(b) \/ Fetched(b) \/ Verify(b)
  BY <1>3 DEF UpToDate, Cached, Remove, Open, Fetched, Verify
<1>4. CASE Extract(b) \/ Untar(b)
  BY <1>4 DEF Extract, Untar
<1>5. CASE RmTree(b) \/ Move(b) \/ Patch(b) \/ PatchesOver(b) \/ Stamp(b)
  BY <1>5 DEF RmTree, Move, Patch, PatchesOver, Stamp
<1> QED BY <1>1, <1>2, <1>3, <1>4, <1>5 DEF Script

(* What a build found out about the archive, or took from it, is not undone *)
(* by another build, unless the two overlap.                                *)
LEMMA CheckedStep ==
  ASSUME HonestInv, NEW b \in Build, Start(b) \/ Script(b) \/ Fault(b)
  PROVE  Checked'
<1> USE DEF HonestInv, TypeInv, TypeOK, OpenFiles, Alone, Checked, Window, Fine
<1>1. CASE OutOfDate(b)
  <2>1. \A c \in Build :
          /\ pc'[c] = IF c = b THEN "cached" ELSE pc[c]
          /\ c # b /\ ~overlapped'[c] => ~overlapped[c]
          /\ c # b /\ pc[c] \notin Window => (overlapped'[c] <=> overlapped[c])
    BY <1>1 DEF OutOfDate, EnterWindow
  <2>2. UNCHANGED <<archive, content, in, ext>>
    BY <1>1 DEF OutOfDate
  <2> QED BY <2>1, <2>2 DEF GoodArchive
<1>2. CASE Start(b) \/ UpToDate(b) \/ FetchFails(b) \/ Fail(b) \/ Kill(b)
  BY <1>2 DEF Start, UpToDate, FetchFails, Fail, Kill, GoodArchive, Over
<1>3. CASE Cached(b) \/ Verify(b)
  BY <1>3 DEF Cached, Verify, GoodArchive
<1>4. CASE Remove(b)
  BY <1>4 DEF Remove, GoodArchive
<1>5. CASE Open(b)
  BY <1>5 DEF Open, GoodArchive
<1>6. CASE Fetched(b)
  BY <1>6 DEF Fetched, GoodArchive
<1>7. CASE Extract(b)
  BY <1>7 DEF Extract, GoodArchive
<1>8. CASE Untar(b)
  BY <1>8 DEF Untar, GoodArchive
<1>9. CASE RmTree(b) \/ Move(b)
  BY <1>9 DEF RmTree, Move, GoodArchive
<1>10. CASE Patch(b) \/ PatchesOver(b) \/ Stamp(b)
  BY <1>10 DEF Patch, PatchesOver, Stamp, GoodArchive
<1> QED BY <1>1, <1>2, <1>3, <1>4, <1>5, <1>6, <1>7, <1>8, <1>9, <1>10 DEF Script, Fault

LEMMA TreeStep ==
  ASSUME HonestInv, NEW b \in Build, Start(b) \/ Script(b) \/ Fault(b)
  PROVE  InTheMaking' /\ StampHonest'
<1> USE DEF HonestInv, TypeInv, TypeOK, Checked, InTheMaking, StampHonest, Fine
<1>2. CASE Start(b) \/ UpToDate(b) \/ OutOfDate(b) \/ Cached(b) \/ Remove(b)
  BY <1>2 DEF Start, UpToDate, OutOfDate, Cached, Remove
<1>3. CASE Open(b) \/ Fetched(b) \/ Verify(b) \/ Extract(b) \/ Untar(b)
  BY <1>3 DEF Open, Fetched, Verify, Extract, Untar
<1>4. CASE RmTree(b)
  BY <1>4 DEF RmTree, NoTree
<1>5. CASE Move(b)
  BY <1>5, MovedTree DEF Move
<1>6. CASE Patch(b)
  BY <1>6 DEF Patch
<1>7. CASE PatchesOver(b)
  BY <1>7 DEF PatchesOver
<1>8. CASE Stamp(b)
  BY <1>8 DEF Stamp
<1>9. CASE FetchFails(b)
  BY <1>9 DEF FetchFails
<1>10. CASE Fail(b) \/ Kill(b)
  <2>1. \A c \in Build : pc'[c] \in {"move", "patch", "stamp"} => pc'[c] = pc[c] /\ c # b
    BY <1>10 DEF Fail, Kill
  <2>2. CASE UNCHANGED tree
    BY <2>1, <2>2
  <2>3. CASE Ruined(b)
    BY <2>1, <2>3, RuinedTree
  <2>4. CASE pc[b] = "move" /\ Moved(b)
    BY <2>1, <2>4, MovedTree
  <2> QED BY <1>10, <2>2, <2>3, <2>4 DEF Fail, Kill
<1> QED BY <1>2, <1>3, <1>4, <1>5, <1>6, <1>7, <1>8, <1>9, <1>10 DEF Script, Fault

-----------------------------------------------------------------------------
LEMMA InitHonest == Init => HonestInv
<1> SUFFICES ASSUME Init PROVE HonestInv
  OBVIOUS
<1>1. TypeInv
  BY InitType
<1>2. Alone /\ Checked /\ InTheMaking
  BY DEF Init, Alone, Checked, InTheMaking, Window
<1>3. StampHonest
  BY DEF Init, StampHonest, NoTree
<1> QED BY <1>1, <1>2, <1>3 DEF HonestInv

LEMMA HonestNext == HonestInv /\ [Next]_vars => HonestInv'
<1> SUFFICES ASSUME HonestInv, [Next]_vars PROVE HonestInv'
  OBVIOUS
<1>1. TypeInv'
  BY TypeNext DEF HonestInv
<1>2. CASE UNCHANGED vars
  BY <1>1, <1>2 DEF HonestInv, Alone, Checked, GoodArchive, InTheMaking, StampHonest, Fine, vars
<1>3. CASE Next
  BY <1>1, <1>3, AloneStep, CheckedStep, TreeStep DEF HonestInv, Next
<1> QED BY <1>2, <1>3

(* Whatever is downloaded, killed or failing, and however the builds        *)
(* overlap: a tree that carries the stamp and that no removal was cut short *)
(* in has every patch, and is made from the release unless another build was *)
(* after the archive as well (config.sh:368-455, 010 and 025:12-26).        *)
THEOREM StampsHonest == Spec => []StampHonest
<1>1. HonestInv => StampHonest
  BY DEF HonestInv
<1> QED BY <1>1, InitHonest, HonestNext, PTL DEF Spec

-----------------------------------------------------------------------------
LEMMA InitUntouched == Init => UntouchedInv
<1> SUFFICES ASSUME Init PROVE UntouchedInv
  OBVIOUS
<1>1. TypeInv
  BY InitType
<1>2. UnforcedUnstamped
  BY DEF Init, UnforcedUnstamped, NoTree
<1> QED BY <1>1, <1>2 DEF UntouchedInv

LEMMA UntouchedStep ==
  ASSUME UntouchedInv, NEW b \in Build, Start(b) \/ Script(b) \/ Fault(b)
  PROVE  /\ UnforcedUnstamped'
         /\ \A c \in Build : tree[c].stamp /\ ~force[c] => tree'[c] = tree[c]
<1> USE DEF UntouchedInv, TypeInv, TypeOK, UnforcedUnstamped, Live, Over, Window
<1>0. pc[b] = "move" => ext[b] # "partial"
  BY DEF OpenFiles
<1>1. CASE Start(b) \/ UpToDate(b) \/ OutOfDate(b) \/ Cached(b) \/ Remove(b)
  BY <1>1 DEF Start, UpToDate, OutOfDate, Cached, Remove
<1>2. CASE Open(b) \/ Fetched(b) \/ Verify(b) \/ Extract(b) \/ Untar(b)
  BY <1>2 DEF Open, Fetched, Verify, Extract, Untar
<1>3. CASE RmTree(b) \/ Move(b)
  <2>1. ~tree'[b].stamp
    <3>1. CASE RmTree(b)
      BY <3>1 DEF RmTree, NoTree
    <3>2. CASE Move(b)
      BY <1>0, <3>2, MovedTree DEF Move
    <3> QED BY <1>3, <3>1, <3>2
  <2>2. \A c \in Build \ {b} : tree'[c] = tree[c]
    BY <1>0, <1>3, MovedTree DEF RmTree, Move
  <2> QED BY <1>3, <2>1, <2>2 DEF RmTree, Move
<1>4. CASE Patch(b) \/ PatchesOver(b)
  <2>1. tree'[b].stamp = tree[b].stamp
    BY <1>4 DEF Patch, PatchesOver, Tree
  <2>2. \A c \in Build \ {b} : tree'[c] = tree[c]
    BY <1>4 DEF Patch, PatchesOver
  <2> QED BY <1>4, <2>1, <2>2 DEF Patch, PatchesOver
<1>5. CASE Stamp(b)
  BY <1>5 DEF Stamp
<1>6. CASE FetchFails(b)
  BY <1>6 DEF FetchFails
<1>7. CASE Fail(b) \/ Kill(b)
  <2>1. \A c \in Build : pc'[c] \in Live => pc'[c] = pc[c] /\ c # b
    BY <1>7 DEF Fail, Kill
  <2>2. UNCHANGED force
    BY <1>7 DEF Fail, Kill
  <2>3. CASE UNCHANGED tree
    BY <2>1, <2>2, <2>3
  <2>4. CASE Ruined(b)
    <3>1. ~tree[b].stamp \/ force[b]
      BY <2>4, RuinedTree
    <3> QED BY <2>1, <2>2, <2>4, <3>1, RuinedTree
  <2>5. CASE pc[b] = "move" /\ Moved(b)
    <3>1. ~tree[b].stamp \/ force[b]
      BY <2>5
    <3> QED BY <1>0, <2>1, <2>2, <2>5, <3>1, MovedTree
  <2> QED BY <1>7, <2>3, <2>4, <2>5 DEF Fail, Kill
<1> QED BY <1>1, <1>2, <1>3, <1>4, <1>5, <1>6, <1>7 DEF Script, Fault

LEMMA UntouchedNext ==
  UntouchedInv /\ [Next]_vars =>
    /\ UntouchedInv'
    /\ \A c \in Build : tree[c].stamp /\ ~force[c] => tree'[c] = tree[c]
<1> SUFFICES ASSUME UntouchedInv, [Next]_vars
             PROVE  /\ UntouchedInv'
                    /\ \A c \in Build : tree[c].stamp /\ ~force[c] => tree'[c] = tree[c]
  OBVIOUS
<1>1. TypeInv'
  BY TypeNext DEF UntouchedInv
<1>2. CASE UNCHANGED vars
  BY <1>1, <1>2 DEF UntouchedInv, UnforcedUnstamped, vars
<1>3. CASE Next
  BY <1>1, <1>3, UntouchedStep DEF UntouchedInv, Next
<1> QED BY <1>2, <1>3

(* Only a script given -f changes a tree that carries the stamp, even when  *)
(* the run before it was killed in the middle (010 and 025:5-12).           *)
THEOREM OnlyForceTouches == Spec => StampedUntouched
<1>1. UntouchedInv /\ [Next]_vars =>
        [\A b \in Build : tree[b].stamp /\ ~force[b] => tree'[b] = tree[b]]_vars
  BY UntouchedNext
<1> QED BY <1>1, InitUntouched, UntouchedNext, PTL DEF Spec, StampedUntouched

-----------------------------------------------------------------------------
LEMMA DownloadingStep ==
  ASSUME FailInv, NEW b \in Build, Start(b) \/ Script(b) \/ Fault(b)
  PROVE  Downloading'
<1> USE DEF FailInv, HonestInv, TypeInv, TypeOK, OpenFiles, Alone, Downloading, Window
<1>1. CASE OutOfDate(b)
  <2>1. \A c \in Build :
          /\ pc'[c] = IF c = b THEN "cached" ELSE pc[c]
          /\ c # b /\ ~overlapped'[c] => ~overlapped[c]
    BY <1>1 DEF OutOfDate, EnterWindow
  <2>2. UNCHANGED <<archive, content, writer, out, got>>
    BY <1>1 DEF OutOfDate
  <2> QED BY <2>1, <2>2 DEF GoodArchive
<1>2. CASE Start(b) \/ UpToDate(b) \/ FetchFails(b) \/ Fail(b) \/ Kill(b)
  BY <1>2 DEF Start, UpToDate, FetchFails, Fail, Kill, GoodArchive, Over
<1>3. CASE Cached(b) \/ Verify(b)
  BY <1>3 DEF Cached, Verify, GoodArchive
<1>4. CASE Remove(b)
  BY <1>4 DEF Remove, GoodArchive
<1>5. CASE Open(b)
  <2>1. archive' \in Ino
    BY <1>5, OpenInode
  <2>2. /\ pc'[b] = "fetch" /\ out'[b] = archive'
        /\ writer'[archive'] = b /\ content'[archive'] = "partial"
    BY <1>5, <2>1 DEF Open
  <2>3. \A d \in Build \ {b} : pc'[d] \in {"fetch", "verify"} => overlapped'[d]
    BY <1>5 DEF Open
  <2> QED BY <2>2, <2>3
<1>6. CASE Fetched(b)
  <2>1. PICK c \in Served :
          /\ got' = [got EXCEPT ![b] = c]
          /\ content' = [content EXCEPT ![out[b]] =
               IF writer[out[b]] = b /\ @ = "partial" THEN c
               ELSE IF c = "good" THEN @ ELSE "page"]
    BY <1>6 DEF Fetched
  <2>2. c \in {"good", "other", "page"}
    BY FetchAssumption DEF FetchAssumption, Content
  <2>3. ASSUME ~overlapped[b]
        PROVE  content'[archive] = c /\ archive # 0
    BY <1>6, <2>1, <2>3 DEF Fetched
  <2>4. \A d \in Build \ {b} : pc'[d] \in {"fetch", "verify"} => overlapped'[d]
    BY <1>6 DEF Fetched
  <2>5. /\ pc'[b] = "verify" /\ got'[b] = c
        /\ overlapped' = overlapped /\ archive' = archive
    BY <1>6, <2>1 DEF Fetched
  <2> QED BY <2>2, <2>3, <2>4, <2>5 DEF GoodArchive
<1>7. CASE Extract(b) \/ Untar(b)
  BY <1>7 DEF Extract, Untar, GoodArchive
<1>8. CASE RmTree(b) \/ Move(b)
  BY <1>8 DEF RmTree, Move, GoodArchive
<1>9. CASE Patch(b) \/ PatchesOver(b) \/ Stamp(b)
  BY <1>9 DEF Patch, PatchesOver, Stamp, GoodArchive
<1> QED BY <1>1, <1>2, <1>3, <1>4, <1>5, <1>6, <1>7, <1>8, <1>9 DEF Script, Fault

LEMMA ExplainedStep ==
  ASSUME FailInv, NEW b \in Build, Start(b) \/ Script(b) \/ Fault(b)
  PROVE  FailExplained'
<1> USE DEF FailInv, HonestInv, TypeInv, TypeOK, FailExplained
<1>1. CASE OutOfDate(b)
  BY <1>1 DEF OutOfDate, EnterWindow
<1>2. CASE Start(b) \/ UpToDate(b) \/ FetchFails(b) \/ Fail(b) \/ Kill(b)
  BY <1>2 DEF Start, UpToDate, FetchFails, Fail, Kill
<1>3. CASE Cached(b) \/ Remove(b) \/ Open(b) \/ Fetched(b)
  BY <1>3 DEF Cached, Remove, Open, Fetched
<1>4. CASE Verify(b)
  BY <1>4 DEF Verify, Downloading
<1>5. CASE Extract(b)
  BY <1>5 DEF Extract, Checked, GoodArchive
<1>6. CASE Untar(b)
  BY <1>6 DEF Untar, Checked
<1>7. CASE RmTree(b) \/ Move(b) \/ Patch(b) \/ PatchesOver(b) \/ Stamp(b)
  BY <1>7 DEF RmTree, Move, Patch, PatchesOver, Stamp
<1> QED BY <1>1, <1>2, <1>3, <1>4, <1>5, <1>6, <1>7 DEF Script, Fault

LEMMA InitFail == Init => FailInv
<1> SUFFICES ASSUME Init PROVE FailInv
  OBVIOUS
<1>1. Downloading /\ FailExplained
  BY DEF Init, Downloading, FailExplained
<1> QED BY <1>1, InitHonest DEF FailInv

LEMMA FailNext == FailInv /\ [Next]_vars => FailInv'
<1> SUFFICES ASSUME FailInv, [Next]_vars PROVE FailInv'
  OBVIOUS
<1>1. HonestInv'
  BY HonestNext DEF FailInv
<1>2. CASE UNCHANGED vars
  BY <1>1, <1>2 DEF FailInv, Downloading, FailExplained, GoodArchive, vars
<1>3. CASE Next
  BY <1>1, <1>3, DownloadingStep, ExplainedStep DEF FailInv, Next
<1> QED BY <1>2, <1>3

(* Nothing that an earlier run left behind makes a script fail: one that    *)
(* fails was served a bad file, or had a failing command, or was after the  *)
(* archive at the same time as another build (config.sh:368-434).           *)
THEOREM FailuresExplained == Spec => []FailExplained
<1>1. FailInv => FailExplained
  BY DEF FailInv
<1> QED BY <1>1, InitFail, FailNext, PTL DEF Spec
=============================================================================
