-------------------------- MODULE DedupTargetFiles --------------------------
(***************************************************************************)
(* llvmbox-dedup-target-files: consolidates equal header files of the      *)
(* directories targets/ARCH-SYS[.VER][-SUFFIX] into directories that more  *)
(* targets search.  The program indexes every file with its hash, sorts    *)
(* the index, cuts it into ranges of files that look mergeable, and for    *)
(* each range moves one file to the common target and removes the others.  *)
(***************************************************************************)
EXTENDS Target, SequencesExt

CONSTANTS
  DirOf,    \* relpath number r (numbered in strcmp order) lies in DirOf[r], "" or "sys"
  Layouts,  \* what may be found under basedir: functions <<target, r>> -> hash
  MaxFail   \* bound: renames and removals that fail

Relpath == DOMAIN DirOf
NoFile == 0  \* hashes are positive

ASSUME MaxFailAssumption == MaxFail \in Nat
ASSUME DirOfAssumption == DirOf \in Seq({"", "sys"})
ASSUME LayoutsAssumption ==
  \A l \in Layouts :
    /\ IsFiniteSet(DOMAIN l)
    /\ \A x \in DOMAIN l : x \in target_t \X Relpath /\ l[x] \in Nat \ {NoFile}

VARIABLES
  pc,      \* "index", "segments", "ranges", "ops", "rmdirs", "done" or "exit"
  tree,    \* the files on disk
  dirs,    \* the directories on disk, <<target, directory>>
  tfiles,  \* g_tfiles
  segs,    \* ranges of tfiles still to be given to process_tfiles1
  ranges,  \* <<first, last>> in tfiles still to be given to process_tfiles2
  seg,     \* the <<first, last>> in tfiles process_tfiles1 is working on
  ops,     \* what dedup_tfiles still has to do
  ok,      \* its variable of that name
  mvdirs,  \* g_mvdirs
  fails,   \* number of failed system calls
  before,  \* history: the files at the start
  mvFailed \* history: a rename failed

vars == <<pc, tree, dirs, tfiles, segs, ranges, seg, ops, ok, mvdirs, fails,
          before, mvFailed>>
disk == <<tree, dirs>>
plan == <<tfiles, segs, ranges, seg>>
history == <<before, mvFailed>>

DirsOf(files) ==
  {<<x[1], DirOf[x[2]]>> : x \in files} \cup {<<x[1], "">> : x \in files}

Init ==
  /\ pc = "index"
  /\ tree \in Layouts
  /\ dirs = DirsOf(DOMAIN tree)
  /\ tfiles = <<>> /\ segs = <<>> /\ ranges = <<>> /\ seg = <<1, 0>>
  /\ ops = <<>> /\ ok = TRUE
  /\ mvdirs = {} /\ fails = 0
  /\ before = tree /\ mvFailed = FALSE

-----------------------------------------------------------------------------
(* The index. *)
Tfile(x) == [target |-> x[1], relpath |-> x[2], hash |-> tree[x]]

(* tfiles_cmp: by path, then content, then system, then layer.  It does not *)
(* tell targets that differ in their suffix apart; smoothsort leaves such   *)
(* files in either order.                                                   *)
TfileKey(f, suffixSign) ==
  <<f.relpath, f.hash, Rank(f.target.sys)>> \o TargetKey(f.target)
    \o <<suffixSign * Rank(f.target.suffix)>>

Sorted(S, suffixSign) ==
  LET Before(f) == {g \in S : LexLess(TfileKey(g, suffixSign), TfileKey(f, suffixSign))}
  IN [i \in 1..Cardinality(S) |-> CHOOSE f \in S : Cardinality(Before(f)) = i - 1]

(* The pairs <<s, e>> of a start and an end with no start in between, with   *)
(* at least two elements, in increasing order.                               *)
Runs(starts, ends) ==
  LET runs == {r \in starts \X ends :
                 r[1] < r[2] /\ \A s \in starts : ~(r[1] < s /\ s <= r[2])}
      Nth(i) == CHOOSE r \in runs : Cardinality({q \in runs : q[1] < r[1]}) = i - 1
  IN [i \in 1..Cardinality(runs) |-> Nth(i)]

Segments_ByContent(fs) == \* mutant: also cut where the content changes
  LET Cut(i) == \/ fs[i].relpath # fs[i-1].relpath
                \/ fs[i].target.sys # fs[i-1].target.sys
                \/ fs[i].hash # fs[i-1].hash
      cuts == {i \in 2..Len(fs) : Cut(i)}
  IN Runs({1} \cup cuts, {i - 1 : i \in cuts} \cup {Len(fs)})

Segments_NoTail(fs) == \* mutant: the tail is not handled
  LET Cut(i) == \/ fs[i].relpath # fs[i-1].relpath
                \/ fs[i].target.sys # fs[i-1].target.sys
      cuts == {i \in 2..Len(fs) : Cut(i)}
  IN Runs({1} \cup cuts, {i - 1 : i \in cuts})

(* process_tfiles: a range ends where the path or the system changes. *)
Segments(fs) ==
  LET Cut(i) == \/ fs[i].relpath # fs[i-1].relpath
                \/ fs[i].target.sys # fs[i-1].target.sys
      cuts == {i \in 2..Len(fs) : Cut(i)}
  IN Runs({1} \cup cuts, {i - 1 : i \in cuts} \cup {Len(fs)})

(* visit_subdir of every target directory, then the sort. *)
Index ==
  /\ pc = "index"
  /\ \E sign \in {1, -1} : tfiles' = Sorted({Tfile(x) : x \in DOMAIN tree}, sign)
  /\ segs' = IF Len(tfiles') < 2 THEN <<>> ELSE Segments(tfiles')
  /\ pc' = "segments"
  /\ UNCHANGED <<disk, ranges, seg, ops, ok, mvdirs, fails, history>>

-----------------------------------------------------------------------------
(* process_tfiles1 and process_tfiles2 decide what to merge. *)
Common_AnyArch(s, e) == \* mutant: always consolidate over architectures
  [FoldLeft(LAMBDA t, i : target_intersection(t, tfiles[i].target),
            tfiles[s].target, [k \in 1..(e - s) |-> s + k]) EXCEPT !.arch = "any"]

Common(s, e) ==
  FoldLeft(LAMBDA t, i : target_intersection(t, tfiles[i].target),
           tfiles[s].target, [k \in 1..(e - s) |-> s + k])

(* The ranges of versioned files of one architecture and one content within *)
(* a segment.  A file without version moves the start of the range and does *)
(* not end the range before it.                                             *)
VersionRanges(s, e) ==
  LET Unversioned(i) == tfiles[i].target.sysver = ""
      Break(i) == \/ tfiles[i].hash # tfiles[i-1].hash
                  \/ tfiles[i].target.arch # tfiles[i-1].target.arch
      breaks == {i \in (s + 1)..e : ~Unversioned(i) /\ Break(i)}
  IN Runs({IF Unversioned(s) THEN s + 1 ELSE s} \cup breaks
            \cup {i \in (s + 1)..e : Unversioned(i)},
          {i - 1 : i \in breaks} \cup {e})

Identical(s, e) == \A i \in (s + 1)..e : tfiles[i].hash = tfiles[i-1].hash

Conflict_None(s, e, ctarget) == FALSE \* mutant: no check for a conflicting file

(* Another file of the segment already belongs to the common target. *)
Conflict(s, e, ctarget) ==
  \E i \in seg[1]..seg[2] :
    i \notin s..e /\ TargetKey(tfiles[i].target) = TargetKey(ctarget)

-----------------------------------------------------------------------------
(* dedup_tfiles.  The array of architectures and the array of versions it   *)
(* builds share the memory array_st, so that every version added overwrites *)
(* an architecture that target_sys_versions still compares with.            *)
SortedAssign(st, len, v) ==
  LET at == 1 + Cardinality({i \in 1..len : Rank(st[i]) < Rank(v)})
  IN IF \E i \in 1..len : st[i] = v THEN [st |-> st, len |-> len]
     ELSE [st  |-> [i \in DOMAIN st |-> IF i = at THEN v
                                        ELSE IF at < i /\ i <= len + 1 THEN st[i-1]
                                        ELSE st[i]],
           len |-> len + 1]

ArraySt == [i \in 1..10 |-> ""]

ArchArray(files) ==
  FoldLeft(LAMBDA a, f : IF f.target.arch = "any" THEN a
                         ELSE SortedAssign(a.st, a.len, f.target.arch),
           [st |-> ArraySt, len |-> 0], files)

(* target_sys_versions over the shared memory. *)
Versions(files) ==
  LET archs == ArchArray(files)
      systems == {files[i].target.sys : i \in DOMAIN files} \ {"any"}
      Matches(st, t) ==
        /\ t.sys \in systems
        /\ archs.len = 0 \/ \E j \in 1..archs.len : st[j] = t.arch
      versions == FoldLeft(LAMBDA a, t : IF Matches(a.st, t) /\ t.sysver # ""
                                         THEN SortedAssign(a.st, a.len, t.sysver) ELSE a,
                           [st |-> archs.st, len |-> 0], SupportedTargets)
  IN {versions.st[i] : i \in 1..versions.len}

Covered(files) ==
  \A v \in Versions(files) : \E i \in DOMAIN files : files[i].target.sysver = v

Op(what, f, target) == [what |-> what, from |-> f.target, to |-> target, relpath |-> f.relpath]

(* All files are merged: the first is renamed, unless it is in place. *)
MergeOps(files, ctarget) ==
  [i \in DOMAIN files |->
     Op(IF i > 1 THEN "rm" ELSE IF files[i].target = ctarget THEN "keep" ELSE "mv",
        files[i], ctarget)]

(* Versions are missing: versioned files go if an unversioned one is there. *)
LowerLayerOps(files) ==
  LET NoVersion(f) == f.target.sysver = "" /\ f.target.sys # "any"
      Versioned(f) == f.target.sysver # "" /\ f.target.sys # "any"
  IN IF \E i \in DOMAIN files : NoVersion(files[i])
     THEN [i \in DOMAIN files |->
             Op(IF Versioned(files[i]) THEN "rm" ELSE "skip", files[i], files[i].target)]
     ELSE <<>>

Dedup_NoMkdirs(files, ctarget) == \* mutant: the destination is not created
  /\ ops' = MergeOps(files, ctarget)
  /\ ok' = TRUE /\ pc' = "ops"
  /\ UNCHANGED <<disk, fails>>

MkdirsFail ==  \* mkdirs: err(1, "mkdirs %s")
  /\ fails < MaxFail
  /\ fails' = fails + 1
  /\ pc' = "exit"
  /\ UNCHANGED <<disk, ops, ok>>

Dedup(files, ctarget) ==
  IF Covered(files)
  THEN \/ /\ dirs' = dirs \cup DirsOf({<<ctarget, files[1].relpath>>})
          /\ ops' = MergeOps(files, ctarget)
          /\ ok' = TRUE /\ pc' = "ops"
          /\ UNCHANGED <<tree, fails>>
       \/ MkdirsFail
  ELSE /\ ops' = LowerLayerOps(files)
       /\ ok' = TRUE /\ pc' = "ops"
       /\ UNCHANGED <<disk, fails>>

-----------------------------------------------------------------------------
(* process_tfiles1 of the next segment. *)
Segment ==
  LET s == Head(segs)[1]
      e == Head(segs)[2]
  IN /\ pc = "segments" /\ segs # <<>>
     /\ segs' = Tail(segs)
     /\ seg' = Head(segs)
     /\ \/ /\ Identical(s, e)
           /\ Dedup(SubSeq(tfiles, s, e), Common(s, e))
           /\ ranges' = <<>>
        \/ /\ ~Identical(s, e)
           /\ ranges' = IF Common(s, e).arch = "any" THEN VersionRanges(s, e) ELSE <<>>
           /\ pc' = "ranges"
           /\ UNCHANGED <<disk, ops, ok, fails>>
     /\ UNCHANGED <<tfiles, mvdirs, history>>

(* process_tfiles2 of the next range. *)
Range2 ==
  LET s == Head(ranges)[1]
      e == Head(ranges)[2]
      ctarget == [tfiles[s].target EXCEPT !.sysver = ""]
  IN /\ pc = "ranges" /\ ranges # <<>>
     /\ ranges' = Tail(ranges)
     /\ IF Conflict(s, e, ctarget)
          THEN UNCHANGED <<pc, disk, ops, ok, fails>>
          ELSE Dedup(SubSeq(tfiles, s, e), ctarget)
     /\ UNCHANGED <<tfiles, segs, seg, mvdirs, history>>

SegmentEnd ==
  /\ pc = "ranges" /\ ranges = <<>>
  /\ pc' = "segments"
  /\ UNCHANGED <<disk, plan, ops, ok, mvdirs, fails, history>>

(* rename replaces a file that is already at the destination. *)
Moved(o) ==
  [x \in (DOMAIN tree \ {<<o.from, o.relpath>>}) \cup {<<o.to, o.relpath>>} |->
     IF x = <<o.to, o.relpath>> THEN tree[<<o.from, o.relpath>>] ELSE tree[x]]

(* The next rename or removal of dedup_tfiles; it goes on after a failure. *)
OpStep ==
  LET o == Head(ops)
      src == <<o.from, o.relpath>>
  IN /\ pc = "ops" /\ ops # <<>>
     /\ ops' = Tail(ops)
     /\ mvdirs' = IF o.what = "skip" THEN mvdirs
                   ELSE mvdirs \cup {<<o.from, DirOf[o.relpath]>>}
     /\ \/ /\ o.what \in {"keep", "skip"}
           /\ UNCHANGED <<tree, ok, fails, mvFailed>>
        \/ /\ o.what = "mv" /\ src \in DOMAIN tree
           /\ tree' = Moved(o)
           /\ UNCHANGED <<ok, fails, mvFailed>>
        \/ /\ o.what = "rm" /\ src \in DOMAIN tree
           /\ tree' = [x \in DOMAIN tree \ {src} |-> tree[x]]
           /\ UNCHANGED <<ok, fails, mvFailed>>
        \/ /\ o.what \in {"mv", "rm"} /\ (fails < MaxFail \/ src \notin DOMAIN tree)
           /\ ok' = FALSE
           /\ fails' = IF src \in DOMAIN tree THEN fails + 1 ELSE fails
           /\ mvFailed' = (mvFailed \/ o.what = "mv")
           /\ UNCHANGED tree
     /\ UNCHANGED <<pc, dirs, plan, before>>

(* dedup_tfiles returns, or ends the program if something failed. *)
OpsEnd ==
  /\ pc = "ops" /\ ops = <<>>
  /\ pc' = IF ok THEN "ranges" ELSE "exit"
  /\ UNCHANGED <<disk, plan, ops, ok, mvdirs, fails, history>>

SegmentsOver ==
  /\ pc = "segments" /\ segs = <<>>
  /\ pc' = "rmdirs"
  /\ UNCHANGED <<disk, plan, ops, ok, mvdirs, fails, history>>

-----------------------------------------------------------------------------
(* remove_empty_dirs visits g_mvdirs in reverse strcmp order, a directory   *)
(* before its parent.  A failed removal is only reported.                   *)
EmptyDir(d) ==
  /\ \A x \in DOMAIN tree : ~(x[1] = d[1] /\ DirOf[x[2]] = d[2])
  /\ d[2] = "" => \A c \in dirs : c[1] = d[1] => c = d

DirKey_Forward(d) == \* mutant: str_cmp instead of str_rcmp
  <<-Rank(d[1].arch), -Rank(d[1].sys), -Rank(d[1].sysver), -Rank(d[1].suffix),
    IF d[2] = "" THEN 0 ELSE -1>>

DirKey(d) ==
  <<Rank(d[1].arch), Rank(d[1].sys), Rank(d[1].sysver), Rank(d[1].suffix),
    IF d[2] = "" THEN 0 ELSE 1>>

RemoveDir ==
  LET d == CHOOSE d \in mvdirs :
             \A c \in mvdirs : c = d \/ LexLess(DirKey(c), DirKey(d))
  IN /\ pc = "rmdirs" /\ mvdirs # {}
     /\ mvdirs' = mvdirs \ {d}
     /\ \/ /\ EmptyDir(d) /\ dirs' = dirs \ {d}
           /\ UNCHANGED fails
        \/ /\ ~EmptyDir(d)
           /\ UNCHANGED <<dirs, fails>>
        \/ /\ EmptyDir(d) /\ fails < MaxFail
           /\ fails' = fails + 1
           /\ UNCHANGED dirs
     /\ UNCHANGED <<pc, tree, plan, ops, ok, history>>

Finish ==
  /\ pc = "rmdirs" /\ mvdirs = {}
  /\ pc' = "done"
  /\ UNCHANGED <<disk, plan, ops, ok, mvdirs, fails, history>>

Next ==
  \/ Index \/ Segment \/ Range2 \/ SegmentEnd \/ OpStep \/ OpsEnd \/ SegmentsOver
  \/ RemoveDir \/ Finish

Spec == Init /\ [][Next]_vars

-----------------------------------------------------------------------------
TypeOK ==
  /\ pc \in {"index", "segments", "ranges", "ops", "rmdirs", "done", "exit"}
  /\ \A x \in DOMAIN tree : x[2] \in Relpath /\ tree[x] \in Nat
  /\ DirsOf(DOMAIN tree) \subseteq dirs
  /\ \A i \in DOMAIN tfiles : tfiles[i].relpath \in Relpath
  /\ fails \in 0..MaxFail

(* Layouts the tool is right about, as sysroots/include is one: directories *)
(* of one architecture, the versions of llvmboxlib.h if any, one kind of    *)
(* directory per header and system, and either no other system's content of *)
(* a header sorts among those of a system, or every architecture has its    *)
(* own.                                                                     *)
Undivided(layout, r, sys) ==
  \A x, y, z \in DOMAIN layout :
    /\ x[2] = r /\ y[2] = r /\ z[2] = r
    /\ x[1].sys = sys /\ y[1].sys = sys /\ z[1].sys # sys
    => (layout[x] < layout[y] => layout[z] < layout[x] \/ layout[y] < layout[z])

ByArch(layout, r, sys) ==
  \A x, y \in DOMAIN layout :
    x[2] = r /\ y[2] = r /\ x[1].sys = sys /\ y[1].sys = sys =>
      (layout[x] = layout[y] <=> x[1].arch = y[1].arch)

Orderly(layout) ==
  /\ \A x \in DOMAIN layout :
       /\ x[1].arch # "any" /\ x[1].sys # "any"
       /\ x[1].sysver # "" => [x[1] EXCEPT !.suffix = ""] \in ToSet(SupportedTargets)
  /\ \A x, y \in DOMAIN layout :
       x[2] = y[2] /\ x[1].sys = y[1].sys =>
         x[1].suffix = y[1].suffix /\ (x[1].sysver = "" <=> y[1].sysver = "")
  /\ \A x \in DOMAIN layout :
       Undivided(layout, x[2], x[1].sys) \/ ByArch(layout, x[2], x[1].sys)

(* A header that a versioned system has it has in all versions of the       *)
(* architecture.                                                            *)
Complete(layout) ==
  \A x \in DOMAIN layout, t \in ToSet(SupportedTargets) :
    t.sys = x[1].sys /\ t.sysver # "" =>
      /\ x[1].sysver # ""
      /\ t.arch = x[1].arch => <<[t EXCEPT !.suffix = x[1].suffix], x[2]>> \in DOMAIN layout

(* The file the wrapper of target t includes for relpath r. *)
Lookup(files, t, r) ==
  LET path == SearchPath(t)
      hits == {i \in DOMAIN path : <<path[i], r>> \in DOMAIN files}
  IN IF hits = {} THEN NoFile
     ELSE files[<<path[CHOOSE i \in hits : \A j \in hits : i <= j], r>>]

Users == ToSet(SupportedTargets) \cup {x[1] : x \in DOMAIN before}

(* At every moment, and so also if the program dies, every target still     *)
(* includes the very file it included before the consolidation: files only  *)
(* go once a copy is in place that the target finds, and no copy hides      *)
(* another target's file.  A failing removal does not change that; only a   *)
(* failing rename does, after which the other copies are removed all the    *)
(* same.                                                                    *)
ViewKept ==
  ~mvFailed =>
    \A t \in Users, r \in Relpath :
      Lookup(before, t, r) # NoFile => Lookup(tree, t, r) = Lookup(before, t, r)

(* A versioned target does not come to see a header it did not have.        *)
(* llvmbox-dedup-target-files.c:268 "This avoids including next-gen headers *)
(* in older system versions."                                               *)
NoVersionLeak ==
  \A t \in Users, r \in Relpath :
    t.sysver # "" /\ Lookup(before, t, r) = NoFile => Lookup(tree, t, r) = NoFile

(* When the program succeeds, a header that was the same for every target   *)
(* of a system that has it is stored once.                                  *)
StoredOnce ==
  pc = "done" =>
    \A r \in Relpath, x \in DOMAIN before :
      LET Same(files) == {y \in DOMAIN files :
                            y[2] = r /\ y[1].sys = x[1].sys /\ y[1].suffix = x[1].suffix}
      IN Cardinality({before[y] : y \in Same(before)}) = 1 => Cardinality(Same(tree)) = 1

(* Once the program has succeeded, only directories that held no header of  *)
(* their own, but only subdirectories, are left behind empty.               *)
LeftoverDirs ==
  pc = "done" /\ fails = 0 =>
    \A d \in dirs : EmptyDir(d) =>
      \A x \in DOMAIN before : <<x[1], DirOf[x[2]]>> # d

(* llvmbox-dedup-target-files.c:383 "avoid overwriting target consolidation *)
(* file if one exists and is different".                                    *)
NoOverwrite ==
  pc = "ops" /\ ops # <<>> /\ Head(ops).what = "mv" =>
    LET o == Head(ops)
        dst == <<o.to, o.relpath>>
    IN dst \in DOMAIN tree /\ <<o.from, o.relpath>> \in DOMAIN tree =>
         tree[dst] = tree[<<o.from, o.relpath>>]
=============================================================================
