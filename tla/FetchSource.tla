----------------------------- MODULE FetchSource -----------------------------
(***************************************************************************)
(* The llvm sources of a build: 010-llvm-source-stage1.sh and              *)
(* 025-llvm-source-stage2.sh with _fetch_source_tar of config.sh.  A       *)
(* script leaves at once if the tree carries the stamp of the release;     *)
(* else it downloads the archive, unless a good one is there, extracts it  *)
(* beside the tree, puts it in the tree's place, patches it for the target *)
(* and stamps it.  Builds have an OUT_DIR each and share DOWNLOAD_DIR.     *)
(* They are killed, rerun, forced, and run for one target after another.   *)
(***************************************************************************)
EXTENDS Integers, FiniteSets

CONSTANTS
  Build,     \* the builds, one tree each
  Sys,       \* values of TARGET_SYS
  NPatch,    \* number of patches for a target
  Served,    \* what a download may yield, see Content
  MaxStart, MaxKill, MaxFail  \* bounds: runs, SIGKILLs, failing commands

(* "good": the archive of the release; "other": an archive with another    *)
(* checksum; "page": anything tar refuses.                                 *)
Content == {"good", "other", "page"}

ASSUME FetchAssumption ==
  /\ IsFiniteSet(Build) /\ Build # {}
  /\ NPatch \in Nat
  /\ Served \subseteq Content
  /\ MaxStart \in Nat /\ MaxKill \in Nat /\ MaxFail \in Nat

VARIABLES
  pc,        \* pc[b]: what the script of b is about to do
  force,     \* force[b]: it was given -f
  sys,       \* sys[b]: its TARGET_SYS
  tool,      \* tool[b]: "wget", if there is one, then "curl"
  archive,   \* the inode at the path of the archive, 0 if there is none
  content,   \* content[i]: what inode i holds
  writer,    \* writer[i]: who truncated inode i last
  out, in,   \* the inodes the downloader and the tar of b have open
  ext,       \* ext[b]: what is in the directory beside the tree
  tree,      \* tree[b]: the source tree
  starts, kills, fails,  \* counters
  overlapped, \* history: another build was after the archive as well as the run of b
  got        \* history: what the run of b downloaded last, or that a command failed

shared == <<archive, content, writer>>
fds == <<out, in>>
counters == <<starts, kills, fails>>
history == <<overlapped, got>>
vars == <<pc, force, sys, tool, shared, fds, ext, tree, counters, history>>

Ino == 1..(2 * Cardinality(Build) + 1)
InUse == {archive} \cup {out[b] : b \in Build} \cup {in[b] : b \in Build}

NoTree == [of |-> "none", whole |-> TRUE, sys |-> "none", patched |-> 0, stamp |-> FALSE,
           raced |-> FALSE]
Tree == [of : {"none", "good", "other"}, whole : BOOLEAN, sys : Sys \cup {"none"},
         patched : 0..NPatch, stamp : BOOLEAN, raced : BOOLEAN]

(* From the look at the archive to the end of tar. *)
Window == {"cached", "remove", "open", "fetch", "verify", "extract", "untar"}
Live == Window \cup {"check", "rmtree", "move", "patch", "stamp"}
Over == {"idle", "uptodate", "done", "failed", "killed"}

Init ==
  /\ pc = [b \in Build |-> "idle"]
  /\ force = [b \in Build |-> FALSE]
  /\ sys \in [Build -> Sys]
  /\ tool = [b \in Build |-> "wget"]
  /\ archive = 0
  /\ content = [i \in Ino |-> "partial"]
  /\ writer = [i \in Ino |-> CHOOSE b \in Build : TRUE]
  /\ out = [b \in Build |-> 0] /\ in = [b \in Build |-> 0]
  /\ ext = [b \in Build |-> "none"]
  /\ tree = [b \in Build |-> NoTree]
  /\ starts = 0 /\ kills = 0 /\ fails = 0
  /\ overlapped = [b \in Build |-> FALSE]
  /\ got = [b \in Build |-> "none"]

Goto(b, l) == pc' = [pc EXCEPT ![b] = l]

-----------------------------------------------------------------------------
Start(b) ==
  /\ pc[b] \in Over /\ starts < MaxStart
  /\ \E f \in BOOLEAN, s \in Sys, t \in {"wget", "curl"} :
       /\ force' = [force EXCEPT ![b] = f]
       /\ sys' = [sys EXCEPT ![b] = s]
       /\ tool' = [tool EXCEPT ![b] = t]
  /\ got' = [got EXCEPT ![b] = "none"]
  /\ starts' = starts + 1
  /\ Goto(b, "check")
  /\ UNCHANGED <<shared, fds, ext, tree, kills, fails, overlapped>>

(* The stamp is the release: exit. *)
UpToDate(b) ==
  /\ pc[b] = "check" /\ ~force[b] /\ tree[b].stamp
  /\ Goto(b, "uptodate")
  /\ UNCHANGED <<force, sys, tool, shared, fds, ext, tree, counters, history>>

EnterWindow(b) ==
  overlapped' = [c \in Build |->
    IF c = b THEN \E d \in Build : pc[d] \in Window
    ELSE overlapped[c] \/ pc[c] \in Window]

OutOfDate_Ever(b) == \* mutant: the stamp is not looked at
  /\ pc[b] = "check"
  /\ EnterWindow(b)
  /\ Goto(b, "cached")
  /\ UNCHANGED <<force, sys, tool, shared, fds, ext, tree, counters, got>>

OutOfDate(b) ==
  /\ pc[b] = "check" /\ (force[b] \/ ~tree[b].stamp)
  /\ EnterWindow(b)
  /\ Goto(b, "cached")
  /\ UNCHANGED <<force, sys, tool, shared, fds, ext, tree, counters, got>>

-----------------------------------------------------------------------------
GoodArchive_Exists == \* mutant: an archive that is there is taken to be good
  archive # 0

(* _sha_test and _sha_verify: the file is there and has the checksum. *)
GoodArchive == archive # 0 /\ content[archive] = "good"

(* _download *)
Cached(b) ==
  /\ pc[b] = "cached"
  /\ Goto(b, IF GoodArchive THEN "extract" ELSE "remove")
  /\ UNCHANGED <<force, sys, tool, shared, fds, ext, tree, counters, history>>

(* _download_nocache: rm -f. *)
Remove(b) ==
  /\ pc[b] = "remove"
  /\ archive' = 0
  /\ Goto(b, "open")
  /\ UNCHANGED <<force, sys, tool, content, writer, fds, ext, tree, counters, history>>

(* wget -O, or curl -o, creates the file or truncates the one it finds. *)
Open(b) ==
  LET i == IF archive # 0 THEN archive ELSE CHOOSE j \in Ino : j \notin InUse
  IN /\ pc[b] = "open"
     /\ archive' = i
     /\ content' = [content EXCEPT ![i] = "partial"]
     /\ writer' = [writer EXCEPT ![i] = b]
     /\ out' = [out EXCEPT ![b] = i]
     /\ Goto(b, "fetch")
     /\ UNCHANGED <<force, sys, tool, in, ext, tree, counters, history>>

(* The download ends.  The last to have truncated the file writes it from  *)
(* its start; the others write the same bytes, or spoil it.                *)
Fetched(b) ==
  LET i == out[b]
  IN /\ pc[b] = "fetch"
     /\ \E c \in Served :
          /\ got' = [got EXCEPT ![b] = c]
          /\ content' = [content EXCEPT ![i] =
               IF writer[i] = b /\ @ = "partial" THEN c
               ELSE IF c = "good" THEN @ ELSE "page"]
     /\ out' = [out EXCEPT ![b] = 0]
     /\ Goto(b, "verify")
     /\ UNCHANGED <<force, sys, tool, archive, writer, in, ext, tree, counters, overlapped>>

(* wget fails: curl is tried.  curl fails: so does the script. *)
FetchFails(b) ==
  /\ pc[b] = "fetch" /\ fails < MaxFail
  /\ fails' = fails + 1
  /\ out' = [out EXCEPT ![b] = 0]
  /\ tool' = [tool EXCEPT ![b] = "curl"]
  /\ got' = [got EXCEPT ![b] = "failure"]
  /\ Goto(b, IF tool[b] = "wget" THEN "open" ELSE "failed")
  /\ UNCHANGED <<force, sys, shared, in, ext, tree, starts, kills, overlapped>>

(* _sha_verify: on a mismatch the script ends, and the file stays. *)
Verify(b) ==
  /\ pc[b] = "verify"
  /\ Goto(b, IF GoodArchive THEN "extract" ELSE "failed")
  /\ UNCHANGED <<force, sys, tool, shared, fds, ext, tree, counters, history>>

-----------------------------------------------------------------------------
(* _extract_tar: the directory beside the tree is made anew, tar opens the *)
(* archive.                                                                *)
Extract(b) ==
  /\ pc[b] = "extract"
  /\ IF archive = 0
       THEN Goto(b, "failed") /\ UNCHANGED <<in, ext>>
       ELSE /\ in' = [in EXCEPT ![b] = archive]
            /\ ext' = [ext EXCEPT ![b] = "partial"]
            /\ Goto(b, "untar")
  /\ UNCHANGED <<force, sys, tool, shared, out, tree, counters, history>>

Untar_Unchecked(b) == \* mutant: the failure of tar is not looked at
  /\ pc[b] = "untar"
  /\ in' = [in EXCEPT ![b] = 0]
  /\ ext' = [ext EXCEPT ![b] = content[in[b]]]
  /\ Goto(b, "rmtree")
  /\ UNCHANGED <<force, sys, tool, shared, out, tree, counters, history>>

(* tar is done, or fails on what is no archive. *)
Untar(b) ==
  LET c == content[in[b]]
  IN /\ pc[b] = "untar"
     /\ in' = [in EXCEPT ![b] = 0]
     /\ IF c \in {"good", "other"}
          THEN ext' = [ext EXCEPT ![b] = c] /\ Goto(b, "rmtree")
          ELSE ext' = [ext EXCEPT ![b] = "none"] /\ Goto(b, "failed")
     /\ UNCHANGED <<force, sys, tool, shared, out, tree, counters, history>>

RmTree(b) ==
  /\ pc[b] = "rmtree"
  /\ tree' = [tree EXCEPT ![b] = NoTree]
  /\ Goto(b, "move")
  /\ UNCHANGED <<force, sys, tool, shared, fds, ext, counters, history>>

Moved(b) ==
  tree' = [tree EXCEPT ![b] = [NoTree EXCEPT !.of = ext[b], !.raced = overlapped[b]]]

(* The mv, a rename, and the removal of the emptied directory. *)
Move(b) ==
  /\ pc[b] = "move"
  /\ Moved(b)
  /\ ext' = [ext EXCEPT ![b] = "none"]
  /\ Goto(b, "patch")
  /\ UNCHANGED <<force, sys, tool, shared, fds, counters, history>>

Patch(b) ==
  /\ pc[b] = "patch" /\ tree[b].patched < NPatch
  /\ tree' = [tree EXCEPT ![b].patched = @ + 1, ![b].sys = sys[b]]
  /\ UNCHANGED <<pc, force, sys, tool, shared, fds, ext, counters, history>>

PatchesOver_Early(b) == \* mutant: the loop ends before the last patch
  /\ pc[b] = "patch" /\ tree[b].patched + 1 >= NPatch
  /\ tree' = [tree EXCEPT ![b].sys = sys[b]]
  /\ Goto(b, "stamp")
  /\ UNCHANGED <<force, sys, tool, shared, fds, ext, counters, history>>

PatchesOver(b) ==
  /\ pc[b] = "patch" /\ tree[b].patched = NPatch
  /\ tree' = [tree EXCEPT ![b].sys = sys[b]]
  /\ Goto(b, "stamp")
  /\ UNCHANGED <<force, sys, tool, shared, fds, ext, counters, history>>

Stamp(b) ==
  /\ pc[b] = "stamp"
  /\ tree' = [tree EXCEPT ![b].stamp = TRUE]
  /\ Goto(b, "done")
  /\ UNCHANGED <<force, sys, tool, shared, fds, ext, counters, history>>

-----------------------------------------------------------------------------
(* An rm -rf of a tree that does not come to its end leaves any part of it, *)
(* the version file included.                                              *)
Ruined(b) ==
  /\ pc[b] = "rmtree" /\ tree[b].of # "none"
  /\ \E s \in {tree[b].stamp, FALSE} :
       tree' = [tree EXCEPT ![b].whole = FALSE, ![b].stamp = s]

(* Any other command fails and set -e ends the script: also the removal of *)
(* the directory that mv has emptied.                                      *)
Fail(b) ==
  /\ pc[b] \in {"remove", "open", "verify", "extract", "untar", "rmtree", "move", "patch", "stamp"}
  /\ fails < MaxFail
  /\ fails' = fails + 1
  /\ in' = [in EXCEPT ![b] = 0]
  /\ got' = [got EXCEPT ![b] = "failure"]
  /\ UNCHANGED tree \/ Ruined(b) \/ (pc[b] = "move" /\ Moved(b))
  /\ Goto(b, "failed")
  /\ UNCHANGED <<force, sys, tool, shared, out, ext, starts, kills, overlapped>>

(* The build is killed. *)
Kill(b) ==
  /\ pc[b] \in Live /\ kills < MaxKill
  /\ kills' = kills + 1
  /\ out' = [out EXCEPT ![b] = 0]
  /\ in' = [in EXCEPT ![b] = 0]
  /\ UNCHANGED tree \/ Ruined(b)
  /\ Goto(b, "killed")
  /\ UNCHANGED <<force, sys, tool, shared, ext, starts, fails, history>>

-----------------------------------------------------------------------------
Script(b) ==
  \/ UpToDate(b) \/ OutOfDate(b) \/ Cached(b) \/ Remove(b) \/ Open(b) \/ Fetched(b)
  \/ Verify(b) \/ Extract(b) \/ Untar(b) \/ RmTree(b) \/ Move(b) \/ Patch(b)
  \/ PatchesOver(b) \/ Stamp(b)

Fault(b) == FetchFails(b) \/ Fail(b) \/ Kill(b)

Next == \E b \in Build : Start(b) \/ Script(b) \/ Fault(b)

Spec == Init /\ [][Next]_vars

-----------------------------------------------------------------------------
TypeOK ==
  /\ pc \in [Build -> Live \cup Over]
  /\ force \in [Build -> BOOLEAN]
  /\ sys \in [Build -> Sys]
  /\ tool \in [Build -> {"wget", "curl"}]
  /\ archive \in Ino \cup {0}
  /\ content \in [Ino -> Content \cup {"partial"}]
  /\ writer \in [Ino -> Build]
  /\ out \in [Build -> Ino \cup {0}]
  /\ in \in [Build -> Ino \cup {0}]
  /\ ext \in [Build -> {"none", "partial", "good", "other"}]
  /\ tree \in [Build -> Tree]
  /\ starts \in 0..MaxStart /\ kills \in 0..MaxKill /\ fails \in 0..MaxFail
  /\ overlapped \in [Build -> BOOLEAN]
  /\ got \in [Build -> Content \cup {"none", "failure"}]

(* A stamp is honest: a stamped tree that no removal was cut short in has   *)
(* every patch and is made from the archive with the right checksum.  If    *)
(* another build was after the archive while the tree was made, it may be   *)
(* another archive, put there between check and tar, but no part of one.    *)
StampHonest ==
  \A b \in Build : tree[b].stamp /\ tree[b].whole =>
    /\ tree[b].patched = NPatch
    /\ tree[b].of = "good" \/ (tree[b].of = "other" /\ tree[b].raced)

(* Nothing an earlier run leaves behind, killed at whatever point, makes a  *)
(* later one fail, and neither does a race that is over: a script that      *)
(* fails was itself served a bad file, or had a failing command, or another *)
(* build was after the archive at the same time.                            *)
FailExplained ==
  \A b \in Build : pc[b] = "failed" =>
    got[b] \in {"other", "page", "failure"} \/ overlapped[b]

(* A stamped tree is only ever touched by a script that was given -f.       *)
StampedUntouched ==
  [][\A b \in Build : tree[b].stamp /\ ~force[b] => tree'[b] = tree[b]]_vars
=============================================================================
