----------------------------- MODULE CopyMerge ------------------------------
(***************************************************************************)
(* copy_merge of llvmboxlib.c, the work of llvmbox-cpmerge: merges a tree   *)
(* into another, one system call at a time.  The recursion of               *)
(* copy_merge_dir is a stack of open directories; the copy of one file,     *)
(* link or directory is a job.  Every call goes by the path it is given,    *)
(* and the links on it.  A run may fail or be killed at any call, and be    *)
(* repeated.                                                                *)
(***************************************************************************)
EXTENDS Integers, SequencesExt

CONSTANTS
  Sources,  \* source trees, functions path -> node
  Dests,    \* what there is where the destination is
  Envs,     \* [mac, force, cross]: the system, -f, whether clonefile cannot clone
  Arg,      \* the name of the destination in the directory that it is in
  Data,     \* names of what a file holds or where a link leads
  LinkTo,   \* what the content of a symbolic link leads to: name -> path
  MaxLinks, \* how many links the kernel follows on one path, before ELOOP
  MaxRun,   \* bound: runs of cpmerge on the two trees
  MaxFail   \* bound: failed calls and kills

(* A path of the source is a sequence of names below the first argument of  *)
(* cpmerge, one of the destination a sequence of names below the directory  *)
(* <<>> that the second is in.                                              *)
Types == {"file", "link", "dir", "other"}
Torn == "torn"  \* of a file that was truncated and not yet written to its end
Empty == "-"    \* of anything but a file or a link
Ignored == {".DS_Store"}

ASSUME BoundsAssumption == MaxLinks \in Nat /\ MaxRun \in Nat /\ MaxFail \in Nat
ASSUME ArgAssumption == Arg \in STRING
Path == Seq(STRING)
Node == [t : Types, c : Data \cup {Torn, Empty}]
Env == [mac : BOOLEAN, force : BOOLEAN, cross : BOOLEAN]

ASSUME EnvsAssumption == Envs \subseteq Env
ASSUME LinksAssumption ==
  \A c \in DOMAIN LinkTo : c \in Data \ {Torn} /\ LinkTo[c] \in Path
ASSUME TreesAssumption ==
  \A tree \in Sources \cup Dests :
    /\ DOMAIN tree \subseteq Path /\ IsFiniteSet(DOMAIN tree)
    /\ \A q \in DOMAIN tree :
         /\ tree[q] \in Node /\ tree[q].c # Torn
         /\ tree[q].t = "link" => tree[q].c \in DOMAIN LinkTo
ASSUME SourcesAssumption ==  \* what is not the root is in a directory
  \A tree \in Sources :
    /\ << >> \in DOMAIN tree
    /\ \A p \in DOMAIN tree \ {<< >>} :
         Front(p) \in DOMAIN tree /\ tree[Front(p)].t = "dir"
ASSUME DestsAssumption ==
  \A tree \in Dests :
    /\ << >> \notin DOMAIN tree
    /\ \A q \in DOMAIN tree :
         Front(q) = << >> \/ (Front(q) \in DOMAIN tree /\ tree[Front(q)].t = "dir")

VARIABLES
  env,     \* the system, the flags
  src,     \* the source tree, which nobody changes
  dst,     \* what there is where the destination is
  stack,   \* frames of copy_merge_dir: [from, left], outermost first
  job,     \* the copy in progress: [op, from, at, c, errno]
  result,  \* "none", "running", "ok" or "failed"
  runs, fails,  \* counters for the bounds
  before,  \* history: dst before the first run
  missed,  \* history: what this run never read, or misread
  misread  \* history: has a readlink failed?

vars == <<env, src, dst, stack, job, result, runs, fails, before, missed, misread>>
given == <<env, src, before>>
counters == <<runs, fails>>
noted == <<missed, misread>>

Idle == [op |-> "idle", from |-> <<>>, at |-> <<>>, c |-> Empty, errno |-> "0"]
Visit(p) == [op |-> "visit", from |-> p, at |-> <<Arg>>, c |-> Empty, errno |-> "0"]

Init ==
  /\ env \in Envs /\ src \in Sources /\ dst \in Dests
  /\ before = dst
  /\ stack = <<>> /\ job = Idle
  /\ result = "none" /\ runs = 0 /\ fails = 0
  /\ missed = {} /\ misread = FALSE

-----------------------------------------------------------------------------
(* The file system.                                                         *)
Has(tree, q) == q \in DOMAIN tree
IsA(tree, q, t) == Has(tree, q) /\ tree[q].t = t
IsDir(tree, q) == q = <<>> \/ IsA(tree, q, "dir")
With(tree, q, node) == [r \in DOMAIN tree \cup {q} |-> IF r = q THEN node ELSE tree[r]]
Without(tree, q) == [r \in DOMAIN tree \ {q} |-> tree[r]]

(* The first i names of the path q are a link that holds c.                 *)
Redirect(q, i, c) == LinkTo[c] \o SubSeq(q, i + 1, Len(q))

LinksOn(tree, q) == {i \in 1..Len(q) : IsA(tree, SubSeq(q, 1, i), "link")}

(* The first link on a path is followed,                                    *)
Followed(tree) ==
  [q \in Path |->
     IF LinksOn(tree, q) = {} THEN q
     ELSE LET i == Min(LinksOn(tree, q)) IN Redirect(q, i, tree[SubSeq(q, 1, i)].c)]

(* and so on: what open and stat of q get to.  If there is still a link on  *)
(* it, that is ELOOP.                                                       *)
Walk(tree, q) ==
  LET walk[n \in 0..MaxLinks] == IF n = 0 THEN q ELSE Followed(tree)[walk[n - 1]]
  IN walk

Real(tree, q) == Walk(tree, q)[MaxLinks]

(* mkdir, unlink, symlink, clonefile do not follow a link at the end.       *)
Spot(tree, q) == Append(Real(tree, Front(q)), Last(q))

(* Where a path of the source is copied to.                                 *)
To(p) == <<Arg>> \o p
Here == Spot(dst, To(job.from))

(* The call returns true: back to the loop of the innermost open directory. *)
Succeed ==
  /\ job' = Idle
  /\ result' = IF stack = <<>> THEN "ok" ELSE "running"

(* It returns false: every copy_merge_dir leaves its loop.                  *)
GiveUp ==
  /\ job' = Idle /\ stack' = <<>>
  /\ result' = "failed"

CountFail == fails < MaxFail /\ fails' = fails + 1

-----------------------------------------------------------------------------
(* llvmbox-cpmerge calls copy_merge, after a failure perhaps once more.     *)
Start ==
  /\ result \in {"none", "failed"} /\ runs < MaxRun
  /\ runs' = runs + 1
  /\ result' = "running"
  /\ job' = Visit(<<>>)
  /\ missed' = {}
  /\ UNCHANGED <<given, dst, stack, fails, misread>>

Visiting(t) == job.op = "visit" /\ src[job.from].t = t

Entries(d) == {n \in {Last(p) : p \in DOMAIN src \ {<<>>}} \ Ignored : Has(src, Append(d, n))}

(* mkdirs has come to the end of the path: the loop over the entries.       *)
Enter ==
  IF job.at = To(job.from)
  THEN /\ stack' = Append(stack, [from |-> job.from, left |-> Entries(job.from)])
       /\ job' = Idle
  ELSE /\ job' = [job EXCEPT !.at = SubSeq(To(job.from), 1, Len(@) + 1)]
       /\ UNCHANGED stack

Mkdir_Fresh == \* mutant: a directory that exists is made anew
  LET q == Spot(dst, job.at)
      inside == {r \in DOMAIN dst : IsStrictPrefix(q, r)}
  IN /\ Visiting("dir")
     /\ ~IsA(dst, q, "file") /\ ~IsA(dst, q, "link") /\ IsDir(dst, Front(q))
     /\ dst' = With([r \in DOMAIN dst \ inside |-> dst[r]], q, [t |-> "dir", c |-> Empty])
     /\ Enter
     /\ UNCHANGED <<given, result, counters, noted>>

(* mkdirs, one name of the path after the other.  An existing directory, or *)
(* a link to one, stays.                                                    *)
Mkdir ==
  LET q == Spot(dst, job.at)
  IN /\ Visiting("dir")
     /\ \/ /\ ~Has(dst, q) /\ IsDir(dst, Front(q))
           /\ dst' = With(dst, q, [t |-> "dir", c |-> Empty])
        \/ IsDir(dst, Real(dst, job.at)) /\ UNCHANGED dst
     /\ Enter
     /\ UNCHANGED <<given, result, counters, noted>>

NotDir_Lstat == \* mutant: lstat in the place of stat
  LET q == Spot(dst, job.at)
  IN /\ Visiting("dir")
     /\ Has(dst, q) \/ ~IsDir(dst, Front(q))
     /\ ~IsA(dst, q, "dir")
     /\ GiveUp
     /\ UNCHANGED <<given, dst, counters, noted>>

NotDir ==  \* ENOTDIR, ELOOP, a dangling link, or nothing to make it in
  LET q == Spot(dst, job.at)
  IN /\ Visiting("dir")
     /\ Has(dst, q) \/ ~IsDir(dst, Front(q))
     /\ ~IsDir(dst, Real(dst, job.at))
     /\ GiveUp
     /\ UNCHANGED <<given, dst, counters, noted>>

NextEntry_Swap == \* mutant: the entry is looked for in the directory above
  LET top == stack[Len(stack)]
  IN /\ result = "running" /\ job.op = "idle" /\ stack # <<>>
     /\ \E n \in top.left :
          /\ job' = Visit(Append(IF Len(stack) = 1 THEN <<>> ELSE stack[Len(stack) - 1].from, n))
          /\ stack' = [stack EXCEPT ![Len(stack)].left = @ \ {n}]
     /\ UNCHANGED <<given, dst, result, counters, noted>>

(* The loop over readdir_r, whose order is the file system's.               *)
NextEntry ==
  LET top == stack[Len(stack)]
  IN /\ result = "running" /\ job.op = "idle" /\ stack # <<>>
     /\ \E n \in top.left :
          /\ job' = Visit(Append(top.from, n))
          /\ stack' = [stack EXCEPT ![Len(stack)].left = @ \ {n}]
     /\ UNCHANGED <<given, dst, result, counters, noted>>

Leave ==
  /\ result = "running" /\ job.op = "idle" /\ stack # <<>>
  /\ stack' = Front(stack)
  /\ result' = IF Len(stack) = 1 THEN "ok" ELSE "running"

EndOfDir ==
  /\ Leave
  /\ stack[Len(stack)].left = {}
  /\ UNCHANGED <<given, dst, job, counters, noted>>

(* readdir_r fails: that too ends the loop, and ok is still true.           *)
ReaddirFail ==
  LET top == stack[Len(stack)]
  IN /\ Leave
     /\ CountFail
     /\ missed' = missed \cup {Append(top.from, n) : n \in top.left}
     /\ UNCHANGED <<given, dst, job, runs, misread>>

BadType ==  \* copy_merge_badtype
  /\ Visiting("other")
  /\ GiveUp
  /\ UNCHANGED <<given, dst, counters, noted>>

-----------------------------------------------------------------------------
(* copy_merge_link.                                                         *)
Readlink ==
  /\ Visiting("link")
  /\ job' = [job EXCEPT !.op = "symlink", !.c = src[job.from].c]
  /\ UNCHANGED <<given, dst, stack, result, counters, noted>>

(* readlink fails, which nobody looks at: what is in the buffer is used.    *)
ReadlinkFail ==
  /\ Visiting("link")
  /\ CountFail
  /\ \E c \in DOMAIN LinkTo : job' = [job EXCEPT !.op = "symlink", !.c = c]
  /\ missed' = missed \cup {job.from}
  /\ misread' = TRUE
  /\ UNCHANGED <<given, dst, stack, result, runs>>

Symlink ==
  /\ job.op = "symlink"
  /\ ~Has(dst, Here) /\ IsDir(dst, Front(Here))
  /\ dst' = With(dst, Here, [t |-> "link", c |-> job.c])
  /\ Succeed
  /\ UNCHANGED <<given, stack, counters, noted>>

(* EEXIST without COPY_MERGE_OVERWRITE, unlink of a directory, ENOENT.      *)
LinkFail ==
  /\ job.op = "symlink"
  /\ IF Has(dst, Here) THEN ~env.force \/ IsA(dst, Here, "dir")
     ELSE ~IsDir(dst, Front(Here))
  /\ GiveUp
  /\ UNCHANGED <<given, dst, counters, noted>>

LinkUnlink_Only == \* mutant: the link is not made again
  /\ job.op = "symlink" /\ Has(dst, Here)
  /\ env.force /\ ~IsA(dst, Here, "dir")
  /\ dst' = Without(dst, Here)
  /\ Succeed
  /\ UNCHANGED <<given, stack, counters, noted>>

LinkUnlink ==
  /\ job.op = "symlink" /\ Has(dst, Here)
  /\ env.force /\ ~IsA(dst, Here, "dir")
  /\ dst' = Without(dst, Here)
  /\ UNCHANGED <<given, stack, job, result, counters, noted>>

-----------------------------------------------------------------------------
(* copy_file.  clonefile makes the whole file or nothing, and nothing where *)
(* there is something already.                                              *)
Clone_Replaces == \* mutant: clonefile over a file that exists
  /\ Visiting("file") /\ env.mac /\ ~env.cross
  /\ ~IsA(dst, Here, "dir") /\ IsDir(dst, Front(Here))
  /\ dst' = With(dst, Here, src[job.from])
  /\ Succeed
  /\ UNCHANGED <<given, stack, counters, noted>>

Clone ==
  /\ Visiting("file") /\ env.mac /\ ~env.cross
  /\ ~Has(dst, Here) /\ IsDir(dst, Front(Here))
  /\ dst' = With(dst, Here, src[job.from])
  /\ Succeed
  /\ UNCHANGED <<given, stack, counters, noted>>

CloneExists ==  \* EEXIST, without COPY_MERGE_OVERWRITE
  /\ Visiting("file") /\ env.mac
  /\ Has(dst, Here) /\ ~env.force
  /\ GiveUp
  /\ UNCHANGED <<given, dst, counters, noted>>

CloneUnlink_None == \* mutant: clonefile again without unlink
  /\ Visiting("file") /\ env.mac
  /\ Has(dst, Here) /\ env.force
  /\ UNCHANGED vars

(* EEXIST with COPY_MERGE_OVERWRITE: unlink, whose status is not looked at, *)
(* and again.  It leaves a directory where it is.                           *)
CloneUnlink ==
  /\ Visiting("file") /\ env.mac
  /\ Has(dst, Here) /\ env.force
  /\ dst' = IF IsA(dst, Here, "dir") THEN dst ELSE Without(dst, Here)
  /\ UNCHANGED <<given, stack, job, result, counters, noted>>

UnlinkFail ==  \* and may fail for another reason
  /\ Visiting("file") /\ env.mac
  /\ Has(dst, Here) /\ env.force
  /\ CountFail
  /\ UNCHANGED <<given, dst, stack, job, result, runs, noted>>

(* clonefile cannot clone: errno is set, and stays set while bytes are      *)
(* copied.                                                                  *)
CloneFail ==
  /\ Visiting("file") /\ env.mac
  /\ ~Has(dst, Here)
  /\ IF env.cross \/ ~IsDir(dst, Front(Here)) THEN UNCHANGED fails ELSE CountFail
  /\ job' = [job EXCEPT !.op = "open", !.errno = "clone"]
  /\ UNCHANGED <<given, dst, stack, result, runs, noted>>

NoClone ==  \* not macOS
  /\ Visiting("file") /\ ~env.mac
  /\ job' = [job EXCEPT !.op = "open"]
  /\ UNCHANGED <<given, dst, stack, result, counters, noted>>

(* open with O_TRUNC and O_CREAT, not O_EXCL: what is there is overwritten, *)
(* through links too, whatever the flags, and a file is made where dangling *)
(* links lead.                                                              *)
CanOpen(q) == ~IsDir(dst, q) /\ ~IsA(dst, q, "link") /\ IsDir(dst, Front(q))

Open ==
  LET q == Real(dst, To(job.from))
  IN /\ job.op = "open" /\ CanOpen(q)
     /\ dst' = With(dst, q, [t |-> "file", c |-> Torn])
     /\ job' = [job EXCEPT !.op = "write", !.at = q]
     /\ UNCHANGED <<given, stack, result, counters, noted>>

OpenFail ==  \* EISDIR, ELOOP, ENOENT
  /\ job.op = "open" /\ ~CanOpen(Real(dst, To(job.from)))
  /\ GiveUp
  /\ UNCHANGED <<given, dst, counters, noted>>

Write_First == \* mutant: the loop ends after the first block
  /\ job.op = "write"
  /\ Succeed
  /\ UNCHANGED <<given, dst, stack, counters, noted>>

(* copy_fd_fd to the end of the file, and the return by errno.              *)
Write ==
  /\ job.op = "write"
  /\ dst' = With(dst, job.at, src[job.from])
  /\ IF job.errno = "0" THEN Succeed /\ UNCHANGED stack ELSE GiveUp
  /\ UNCHANGED <<given, counters, noted>>

CloseFail ==  \* errno is looked at after close
  /\ job.op = "write"
  /\ dst' = With(dst, job.at, src[job.from])
  /\ CountFail
  /\ GiveUp
  /\ UNCHANGED <<given, runs, noted>>

-----------------------------------------------------------------------------
(* Another call fails, or the process is killed, between any two changes.   *)
Fail ==
  /\ result = "running"
  /\ CountFail
  /\ GiveUp
  /\ UNCHANGED <<given, dst, runs, noted>>

Step ==
  \/ Mkdir \/ NotDir \/ NextEntry \/ EndOfDir \/ BadType
  \/ Readlink \/ Symlink \/ LinkFail \/ LinkUnlink
  \/ Clone \/ CloneExists \/ CloneUnlink \/ CloneFail \/ NoClone
  \/ Open \/ OpenFail \/ Write

Fault == ReaddirFail \/ ReadlinkFail \/ UnlinkFail \/ CloseFail \/ Fail

Next == Start \/ Step \/ Fault

Spec == Init /\ [][Next]_vars

(* cpmerge, once started, is scheduled.                                     *)
FairSpec == Spec /\ WF_vars(Step)

-----------------------------------------------------------------------------
Frame == [from : Path, left : SUBSET STRING]

TypeOK ==
  /\ env \in Env
  /\ \A q \in DOMAIN dst : q \in Path /\ dst[q] \in Node
  /\ stack \in Seq(Frame)
  /\ \A i \in DOMAIN stack : stack[i].left \subseteq Entries(stack[i].from)
  /\ job \in [op : {"idle", "visit", "symlink", "open", "write"}, from : Path, at : Path,
              c : Data \cup {Empty}, errno : {"0", "clone"}]
  /\ job.op # "idle" => result = "running" /\ Has(src, job.from)
  /\ result \in {"none", "running", "ok", "failed"}
  /\ runs \in 0..MaxRun /\ fails \in 0..MaxFail
  /\ missed \subseteq DOMAIN src /\ misread \in BOOLEAN

Copied == {p \in DOMAIN src : \A i \in DOMAIN p : p[i] \notin Ignored}

(* What a link at q may hold: what it held, or what a link of the source of *)
(* its name holds.                                                          *)
MayHold(q) ==
  {before[r].c : r \in {r \in {q} : IsA(before, r, "link")}}
  \cup {src[p].c : p \in {p \in Copied : src[p].t = "link" /\ Last(To(p)) = Last(q)}}

(* The paths that q can lead to by such links.                              *)
Turns(q) == UNION {{Redirect(q, i, c) : c \in MayHold(SubSeq(q, 1, i))} : i \in 1..Len(q)}

Reached(q) ==
  LET reached[n \in 0..MaxLinks] ==
        IF n = 0 THEN {q}
        ELSE LET last == reached[n - 1] IN last \cup UNION {Turns(r) : r \in last}
  IN reached

Leads(q) == Reached(q)[MaxLinks]

(* Where the copy of p can be.  On linux a file is also written to what a   *)
(* link there leads to.                                                     *)
Near(p) == {Append(r, Last(To(p))) : r \in Leads(Front(To(p)))}

MayChange(q) ==
  \E p \in Copied :
    q \in Near(p) \/ (~env.mac /\ src[p].t = "file" /\ q \in Leads(To(p)))

(* At every moment, however often runs fail and are repeated, everything    *)
(* that no copied file, link or directory can fall upon is as it was, and   *)
(* nothing appears elsewhere, whatever links there are: those of the        *)
(* destination, and those that are copied.  (A link that has been misread   *)
(* may lead anywhere.)                                                      *)
OthersKept ==
  ~misread =>
    \A q \in DOMAIN before \cup DOMAIN dst :
      (Has(before, q) /\ Has(dst, q) /\ dst[q] = before[q]) \/ MayChange(q)

(* On macOS and without -f nothing that is there is changed, not even       *)
(* after failures: clonefile and symlink refuse, and the copying of bytes   *)
(* is come to only where nothing is.                                        *)
NoClobber ==
  env.mac /\ ~env.force =>
    \A q \in DOMAIN before : Has(dst, q) /\ dst[q] = before[q]

(* A file is torn only while it is being written, or by the failure that    *)
(* ended a run: never more files than failures.                             *)
TornByFailure ==
  Cardinality({q \in DOMAIN dst : dst[q].c = Torn})
    <= fails + (IF job.op = "write" THEN 1 ELSE 0)

(* A file or link of the source can replace a link that the way to another  *)
(* directory of the source goes by; what is copied after it lands elsewhere *)
(* than what is copied before.  Does none?                                  *)
Firm ==
  \A d, p \in Copied :
    src[d].t = "dir" /\ src[p].t # "dir" =>
      \A n \in 0..MaxLinks : ~IsPrefix(Spot(before, To(p)), Walk(before, To(d))[n])

(* Links between directories of the destination can give several nodes of   *)
(* the source one place.  Do they not?                                      *)
Apart == \A p, q \in Copied : Spot(before, To(p)) = Spot(before, To(q)) => p = q

(* If a link is in the place of a file, linux writes to what it leads to,   *)
(* which another file of the source may overwrite.                          *)
LinkInTheWay ==
  \E p \in Copied : src[p].t = "file" /\ IsA(before, Spot(before, To(p)), "link")

NotRead(p) == \E m \in missed : IsPrefix(m, p)

Exact(p) ==
  IF src[p].t = "dir" THEN IsDir(dst, Real(dst, To(p)))
  ELSE Has(dst, Spot(dst, To(p))) /\ dst[Spot(dst, To(p))] = src[p]

(* When a run succeeds, the first or one that repeats failed ones, all that *)
(* it has read of the source is in the destination as it is in the source.  *)
(* It has read all, unless a readdir_r or readlink has failed.              *)
SuccessExact ==
  result = "ok" /\ Firm /\ Apart /\ ~LinkInTheWay =>
    \A p \in Copied : NotRead(p) \/ Exact(p)

Blocked(p) ==
  LET q == Spot(dst, To(p))
  IN /\ Has(dst, q)
     /\ CASE src[p].t = "dir" -> ~IsDir(dst, Real(dst, To(p)))
          [] src[p].t = "link" -> ~env.force \/ IsA(dst, q, "dir")
          [] src[p].t = "file" -> \/ env.mac /\ ~env.force
                                  \/ IsA(dst, q, "dir") \/ IsA(dst, q, "link")
          [] OTHER -> FALSE

(* A run fails for a reason: a failed call, something uncopyable, something *)
(* of another type in the way, or of what may not be overwritten, or a      *)
(* volume that clonefile cannot clone to, after which copy_file reports a   *)
(* failure though it has copied the file.                                   *)
FailureExplained ==
  result = "failed" =>
    \/ fails > 0 \/ ~Firm
    \/ env.mac /\ env.cross
    \/ \E p \in Copied : src[p].t = "other" \/ Blocked(p)

(* A run ends, unless -f on macOS meets a directory where the source has a  *)
(* file: copy_file then tries for ever.                                     *)
Spins ==
  /\ env.mac /\ env.force
  /\ Visiting("file") /\ IsA(dst, Here, "dir")

Ends == result = "running" ~> (result \in {"ok", "failed"} \/ Spins)
=============================================================================
