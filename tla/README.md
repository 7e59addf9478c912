# Verification of llvmbox

llvmbox (https://github.com/rsms/llvmbox) is a self-contained LLVM/clang
distribution. This directory holds TLA+ specifications of the parts of it that
decide something: the compiler drivers it installs, which build missing
libraries on demand under a lock; the tools that merge and consolidate the header
trees of its targets, with the library under them; the script that makes the
product's target directories; the scripts that fetch and patch the llvm sources;
and `build.sh`, which runs everything. TLC checks them on small instances, TLAPS
proves the most important facts for every instance.

Source paths are relative to the repository (`src/` in `PROJECT.json`).

## 1. The system

| part | state it keeps | operations | modelled by |
|---|---|---|---|
| `utils/clang-TARGET.in`, instantiated as `bin/clang-TARGET` by `031-create-llvmbox-targets.sh` | the lock directory `/tmp/ID-build.lock`; `targets/T/lib`; object directories in `/tmp`; `HAS_BUILDLOCK` | test for a library, take the lock, run ninja, give the lock back, traps, hand over to clang | `ClangWrapper`, `OnDemandBuild` |
| `llvmbox-tools/llvmbox-dedup-target-files.c` | the header trees on disk; the index `g_tfiles`; `g_mvdirs` | index, sort, cut into ranges, merge, remove empty directories | `Target`, `DedupTargetFiles` |
| `031-create-llvmbox-targets.sh` | `targets/` in the product; background jobs | copy the headers, dedup, merge the `-libc` directories, rename, copy libraries, generate the drivers | `TargetsDist`, with `DedupTargetFiles` |
| `llvmbox-tools/llvmboxlib.c`, `llvmbox-cpmerge.c` | arrays, blocks of memory, a SHA-256 state; the destination tree | `copy_merge`; sorted sets; `bumpalloc`; `sha256_write`; `lb_qsort`; paths; target names | `CopyMerge`, `Arrays`, `Sha256Stream`, `Smoothsort`, `Names`, `Target` |
| `config.sh` (`_download`, `_sha_verify`, `_extract_tar`), `010-llvm-source-stage1.sh`, `025-llvm-source-stage2.sh` | the download directory, the tree beside the source tree, the source tree, its version file | download, verify, unpack, replace, patch, stamp | `FetchSource` |
| `build.sh` | its options; the script it has come to | parse options, select and run scripts, stop at a failure | `BuildDriver` |
| `010-*.sh` ... `033-archive.sh` | the directories under `OUT_DIR` and `BUILD_DIR` | each reads some directories, removes and makes others | `BuildScripts` (table of `BuildDriver`) |
| `llvmbox-mksysroot`, `llvmbox-config` | none of their own | make a sysroot (work in progress in the source), print constants | not modelled |
| `update-musl.sh`, `update-compiler-rt.sh`, `import-*` | the vendored trees under `sysroots/` | run by maintainers; generate the `build.ninja` files that the drivers run | the generated rules, in `ClangWrapper` |
| `sysroots/`, `musl-fts/`, `patches/`, `test/`, `experiments/` | data | | not modelled |

How they interact: `build.sh` starts one stage script after the other; the
scripts talk to each other only through the directories they leave.
`010`/`025` call the fetching functions; several checkouts may share one
download directory. `031-create-llvmbox-targets.sh` copies `sysroots/include`,
runs the dedup tool on it, merges with `llvmbox-cpmerge`, renames, and writes one
driver per target with the search path that fits the consolidated tree. Both tools
are thin layers over `llvmboxlib`. The drivers are run later, by
users and their build tools, at once and on any number of targets: they meet in
one lock directory and in the library directories.

What makes it hard:

* **interleaving**: drivers run by `make -j`, of one target and of several, with
  one lock; two builds that download the same archive; libraries copied in the
  background while the script goes on;
* **crashes and interrupts** between any two commands, with leftovers that a
  later run takes for results;
* **partial failure**: one of several renames, a half written file, a background
  job, one patch, a `realloc`;
* **order**: the layers of the header trees, the keys of a sort, the order of the
  stage scripts;
* **stale state**: a test done before the lock is taken, a stamp that stands for
  less than it seems to, an `errno` from an earlier call;
* **paths**: symbolic links to links, out of a tree or in a circle, on any way
  a merge goes by, some of them made by the merge itself;
* **boundaries**: a full buffer, a full array, the last chunk of a hash, one byte
  more or less in a path.

What makes each part correct: a driver compiles on a complete target or for a
known reason not (and nobody waits for ever, unless a holder of the lock was killed); the consolidated tree shows every
target what it was shown before; a merge changes nothing that the source does not
fall upon; a stamp vouches for what it says; scripts that succeeded in order
leave a good product; the library's algorithms agree with their definitions.

`PROJECT.json` lists the hazards at their lines, each with the properties that
watch it or the reason why none does.

## 2. Modules

| module | what it is |
|---|---|
| `ClangWrapper` | any number of driver invocations, one action per command of the script that another process could observe, interrupts, SIGKILL, failing builds |
| `OnDemandBuild` | what the drivers promise, without lock and ninja; `ClangWrapper` refines it (`KeepsPromise`) when invocations do not overlap and are not disturbed |
| `Target` | targets, their order and intersection, the search path of a target |
| `DedupTargetFiles` | the dedup tool, from the index to the removal of empty directories, one action per rename or removal |
| `TargetsDist` | `031-create-llvmbox-targets.sh`; extends `DedupTargetFiles`, whose steps are the script's first stage |
| `CopyMerge` | `copy_merge`, one action per system call that changes the destination, with failures and repeated runs |
| `Sha256Stream` | how `sha256_write` and `sha256_close` cut a message into chunks |
| `Smoothsort` | `lb_qsort` |
| `Arrays` | `array_t` as list and as sorted set; `bumpalloc_t` |
| `Names` | paths, the arguments of `llvmbox-cpmerge`, names of target directories |
| `FetchSource` | several builds with a source tree each and a shared archive; one action per command |
| `BuildDriver` | runs of `build.sh`, over any table of scripts |
| `BuildScripts` | the table of this repository's scripts |
| `MC*` | instances for TLC; `MCLib` puts the four modules of `llvmboxlib` side by side, each behaviour uses one of them |
| `Induction_proof` | induction, recursive definitions and folds, for the proofs below |
| `ClangWrapper_proof`, `FetchSource_proof`, `BuildDriver_proof`, `CopyMerge_proof`, `Smoothsort_proof` | theorems and proofs about the module of that name |
| `DedupTargetFiles_proof` | theorems and proofs about `DedupTargetFiles` and `TargetsDist` |
| `Lib_proof` | theorems and proofs about `Arrays`, `Sha256Stream` and `Names` |

### ClangWrapper

A process is one invocation of a driver. `pc[p]` is the command it has come to:
`test` (the `if` of a library block, clang-TARGET.in:33, 39, 47), `lock` and
`wait` (`_buildlock`, 17-28), `ninja`/`build`/`clean` (the three commands of a
block), `unlock`, `exec`, and `int`/`exit` for the traps (30-31). `has[p]` is
`HAS_BUILDLOCK`. `todo[p]` is what its ninja has yet to do, from the rules that
`update-musl.sh` and `update-compiler-rt.sh` generate: compile, remove the old
archive, write the archive, and, independently of these, the startup object.
The traps follow bash: `exit` in the INT trap runs the EXIT trap too, so that an
interrupted script unlocks twice, and `exec` runs no EXIT trap.

A subtle point that the model keeps: `_buildunlock` removes the lock directory
whoever made it. `stolen` records that a process removed a lock that was not its own.

### Target and DedupTargetFiles

A file is a pair of a target directory and a relative path (a number, in
strcmp order); its content is a number, in the place of its SHA-256 sum. `Index`
visits the tree and sorts (`tfiles_cmp`), `Segment` is `process_tfiles1`,
`Range2` is `process_tfiles2`, `Dedup` is `dedup_tfiles` up to its first change
of the disk, and `OpStep` is one `rename` or `remove`, or the entry that the loop skips or keeps. The two arrays that share
`array_st` are modelled as shared memory (`SortedAssign`, `Versions`), which is
what makes the merge of partly covered versions visible. `Lookup` is what a
driver would include, by the search path that `_gen_clang_wrapper` writes; the
properties are stated with it, over the tree before and the tree at any moment.

### TargetsDist

`stage` is the place in the script. During `dedup` the steps are those of
`DedupTargetFiles`; `headers` is its result as the later commands see it.
`MergeSuffixed` is the loop that merges `TARGET-libc` into `TARGET` (in any order,
as the shell's glob is not part of it), `Rename` the move to `TARGET/include`,
`StartLibs`, `LibCopied` and `Wait` the background copies: `wait` without arguments
waits for all and ignores their status (`lostJob`). `GenWrappers` builds the
search paths out of the directories that exist at that moment (`IncludeFlags`, `LibFlags`), as
`_gen_clang_wrapper` does. `WrappersServe` compares what the generated drivers
include with what `sysroots/include` had for their targets.

### CopyMerge

A tree is a function from paths to nodes: a file, a link, a directory or something
else, and what it holds. The destination is a tree below the directory that the second
argument is in, so that what lies beside the argument (`Arg`) is in the model too. `stack` is the recursion of
`copy_merge_dir`, a frame being an open directory and the entries `readdir_r` has yet to give, in any order; `job` is
the copy in progress. A file that was opened with `O_TRUNC` and not written to its end
holds `Torn`.

Every call goes by a path, and paths are resolved as the kernel does it: `Walk` follows the first link
on the way, then the first on the path that gives, up to `MaxLinks` times, and what then still has a link
on it is `ELOOP`. `Real` is what `open` and `stat` get to. `mkdir`, `unlink`, `symlink`, `clonefile` and `lstat` do so for
all of the path but its last name (`Spot`). So `open` truncates or creates the file at the end of a chain of
links, wherever that is, and `mkdirs`, which is modelled name by name, is content with a chain that ends at a directory.

`errno` keeps the value of the last failing call, as
`copy_file` looks at a stale one on macOS. `Fail` is any system call whose failure ends the run, or the
death of the process, between any two changes; a next run starts on what is there. The calls whose failure does not end it
have actions of their own: a failing `readdir_r` ends its loop with `ok` true (`ReaddirFail`), after a failing
`readlink` a link is made of what is in the buffer (`ReadlinkFail`), `unlink` on macOS is tried again (`UnlinkFail`), and a failing
`close` is only reported (`CloseFail`). `missed` and `misread` record the first two.

### Sha256Stream, Smoothsort, Arrays, Names

Bytes are known by their place in the message, so that one that is lost, doubled or
out of order shows. `HashWhole` consumes a chunk straight from the caller's memory,
`HashPart` goes through the buffer. The compression function only sees what the
chunks are. In `Smoothsort` the two words of `p` are one number, `bits`, and the
elements are numbers; a step is one turn of a loop of `lb_qsort` with the sifts it calls. The pair (`head`, `pshift`) that
`sift` and `trinkle` are called with is a heap, known by the index of its root and its order; `forest[bits][HeadHeap]` lists the heaps that
`trinkle` walks along, each with the order that counting the zeros of `p` gives it; and `cycle` moves every
element of a list of places to the one before, the first to the last. In
`Arrays` an array is a list or a set, its memory is null, on the heap, or an array on
the stack (`dedup_tfiles`), where `realloc` is undefined; `realloc` may fail. Nothing bounds the
names that come to a set: the eleventh in the array on the stack is a step of the model (`aret` is then `undefined`).
`Names` has the functions on components, with the bytes that the code counts and
returns, as `path_join_dup` shrinks its allocation by that count.

### FetchSource

The download directory is modelled with inodes: a build that opened the
archive goes on reading it after another removed or truncated it. `out` and `in`
are the open files. `content` says whether an inode holds the release, another
complete archive, garbage or a part of a download. A tree records what it was made
from, how many patches it has, whether a removal was cut short in it, and its stamp. Any
command may fail: `wget`, after which `curl` takes over if it is there, the two `rm`, of which `rm -rf` may leave any part of
the tree (`Ruined`), and the removal of the directory that `mv` has emptied, after the move.

### BuildDriver and BuildScripts

A script is a record: `needs` (it fails without), `uses` (it takes what is
there), `drops`, `makes`, `background` (it does not look at the status of its
background jobs) and `stamped` (it leaves a complete result alone). An artifact
is `none`, `partial`, `good`, or `bad`: complete, but made from something that
was not good. `upto` is a history variable: the first so many scripts have
succeeded in their order, without a lost job, and none was started again since.
The order of the scripts is the order in which the shell expands `0*.sh`:
`echo $prefix*.sh | sort` (build.sh:59) sorts a single line. In spite of the
comment at build.sh:57 ("all scripts per prefix concurrently") the loop is sequential.

## 3. What TLC checks

| run | states | question and result |
|---|---|---|
| `wrapper_shared` | 3 invocations: clang and clang++ of a linux target, clang of a complete macOS target; one interrupt, SIGKILL, failing build; fair scripts (193,000 states) | a lock always has a living or killed holder; builds exclude each other until a lock is stolen; a missing library has one of three causes; nobody polls for ever unless a holder was killed; undisturbed builds leave nothing missing: all hold |
| `wrapper_promise` | one invocation at a time | implements `OnDemandBuild`: holds |
| `wrapper_v_waiter` | three targets, no faults | **violated**: who waited for the lock runs clang without its own libraries |
| `wrapper_v_interrupted` | one at a time, an interrupt | **violated**: after an interrupt between `libc.a` and `crt1.o` no later invocation makes `crt1.o` |
| `dist_trees` | the shapes of `sysroots/include`, all mixes of two contents over the macOS targets, `-libc` trees, layered trees; one failing call (208,000 states) | no target loses or changes a header at any moment, none gains one, equal headers are stored once, nothing different is overwritten, no directory that held headers is left empty, and the generated drivers include what `sysroots/include` has: hold |
| `dedup_v_versions` | macOS headers of some versions | **violated**: merged although versions are missing, against the comment at 267-268 |
| `dedup_v_order` | a macOS header whose hash sorts between two linux contents | **violated**: the consolidated file of one content is overwritten by the other |
| `copy_merge` | two runs of small source trees to every small destination, on linux and macOS, with and without `-f` and clonefile, links to links, outwards and in circles, one failing call of any kind (724,000 states) | nothing changes that no copied entry can fall upon; macOS without `-f` clobbers nothing; files are torn by failures only; after a success all that was read is there; every failure has a reason; a run ends: hold |
| `lib_algorithms` | bounded inputs of all the algorithms (53,000 states) | SHA-256 sees the padded message; the sort keeps a forest of heaps and its sorted tail, and ends; arrays have room, sets are sorted and lose nothing before the array on the stack is full; allocations are disjoint; cleaned paths lead to the same place and fit; `cpmerge` refuses nested trees; a target says the name of its directory: hold |
| `fetch_crash` | two builds, 3 runs, a kill, two failing commands, bad downloads (7,277,000 states) | a stamp vouches for the release with all patches; leftovers make nobody fail; stamped trees are touched with `-f` only: hold |
| `build_runs` | 3 runs of any kind, 2 failures or kills, 1 lost job | scripts that succeeded in their order made a good product; every call ends: hold |
| `build_v_jobs` | `build.sh -jN 033` | **violated**: the option loop never ends |

Every property of a passing run has a mutant in `PROJECT.json`, an operator
next to the one it replaces (marked `mutant:`): a plausible mistake in the code that the
property catches under the same configuration.

### Bounds

* Three invocations are enough for the lock: a holder, one that waits, one that
  steals or takes over in between. One interrupt, one kill and one failure can each
  occur at any command of any of them. A linux and a macOS target differ in
  everything the script distinguishes; `wrapper_v_waiter` has a second linux target.
* Dedup decides per path and per system. Two paths (one in a subdirectory) show the cuts
  between paths and the order of directory removal; the macOS targets of
  `llvmboxlib.h` are all there, with two contents (three where only the pattern
  of equality matters). The linux targets include two that are not in the tool's table, as in
  `sysroots/include`. The layouts of `MCTargetsDist` are `Shipped` and `ShippedTwo` (kernel and macOS headers
  as they are shipped), `LibcToo` (with `-libc` trees), `MacFull` (any mix over all
  macOS targets) and `Layered` (an unversioned file beside the versions of its architecture); two library directories make
  background copies end in either order.
* CopyMerge: two names two deep give a file, link or directory in the place of each
  other, below the argument and inside a directory; links lead from one name to the other, back, and to a place
  outside of the destination where there is a file, a directory or nothing. Three links on a path make a chain of two
  that ends somewhere and a circle that is one link too long. Two runs with one failure are a failed
  run and its repetition.
* Library: five names for an array with room for four; chunks of 4 bytes with 2 for the length, messages up to 10 bytes in every way to cut
  them (the padding takes one chunk or two); arrays of three values up to five
  elements and of two values up to nine, where the forest has a heap of order 4; paths of four components with `PATH_MAX` 16;
  names of targets up to seven words.
* FetchSource: two builds are one that is disturbed and one that disturbs; three
  runs allow a killed run, its repetition and a competitor. Two failing commands are `wget` and `curl`, or
  a download and what is done with it.
* BuildDriver: three runs let the three phases (`01`, `02`, `03`) be run one by
  one, or a whole build be followed by one of a single script and by another
  phase. The table is the repository's own.

`CHECK_DEADLOCK FALSE` is in every configuration because all these programs end.

### Fairness

`ClangWrapper!FairSpec` has weak fairness for each invocation's own steps:
a started script is scheduled and its ninja ends. Nothing obliges users to start
drivers, and no fault has to happen. `BuildDriver!FairSpec` has the same for the
steps of `build.sh`, `CopyMerge!FairSpec` for the system calls of a `cpmerge` that
was started, and `MCLib!Spec` for a call of `lb_qsort`, which is sequential code. The
other specifications make no claim about progress.

## 4. What is proved

`TLAPS` checks these for every value of the constants, from the `ASSUME`s that
TLC evaluates in each run.

**ClangWrapper_proof.** `TypeCorrect`, by `TypeInv`: the type invariant and
"a process in a block is in one of the three", which the typing of `Block[step]`
needs. `LockAlwaysHasHolder`, by `LockInv`: if the lock directory is there, some
process has `HAS_BUILDLOCK=1`, and every such process is live or killed. The second part
is what the traps provide: every exit passes through `_buildunlock`.
`MutualExclusion`, by `MutexInv`: only holders are in ninja, and, as long as
`stolen` is false, there is at most one holder and its lock is there. `mkdir` being atomic is what
the step of `LockMkdir` uses.
`MissingAlwaysExplained`, by `MissingInv`: a file of a target is *accounted for*
(`Made`) if it is there, or an invocation of the target was disturbed, or one is about to make it.
The library that stands for a block is only there when all outputs of the block are accounted for
(`MarkerMeansAll`), a builder makes all of its block (`BuilderMakes`), and who passed a block without waiting
passed it when it was accounted for (`PassedBlocks`). An archive that is
removed before it is made again is why "is there" alone would not be inductive.

`SettledAlwaysComplete`, by `SettledInv`: as long as nothing was
disturbed and no lock stolen, the same holds with a stronger notion, `Coming`, that no failed
invocation excuses. It needs `ObjsThere`: an archive is made from objects that are there, since by
`MutualExclusion` no other ninja cleans up meanwhile.
`PromiseKept`: the refinement of `OnDemandBuild`, for any number of invocations
that run one at a time without faults and with their sources installed (`Undisturbed`, the assumption of the
theorem, which the constants of `wrapper_promise` meet). `PromiseInv` combines the invariants above with `AloneInv`:
an archive is removed only if the test saw it absent (`Absent`), so that a build never takes a
library away; nobody waits or is refused, as a lock has a running holder and there is only one. One lemma per
group of actions maps it to a step of `OnDemandBuild` or to a stutter.

**FetchSource_proof.** `TypeCorrect`: the inodes suffice, which is a counting
argument over the open files (`FreeInode`). `StampsHonest`, by `HonestInv`: a
tree in the making by a build that nobody overlapped with comes from the archive
that was checked, because `in` of that build is an inode nobody writes (`Alone`,
`Checked`); it has exactly the patches the script has come to (`InTheMaking`).
`OnlyForceTouches`: an unforced script that got beyond its first test works on
a tree without a stamp (`UnforcedUnstamped`). `FailuresExplained`, by `FailInv`: what a
build that nobody overlapped with finds at the archive's path is what it was
itself served (`Downloading`), so that whatever earlier runs left behind cannot make it fail.

**BuildDriver_proof.** `InOrderGoodAlways` for every table of scripts that is
`WellOrdered`: what a script reads is made by an earlier one, no two make the same
thing, none removes what an earlier one made, and a script that leaves complete
results alone reads nothing. `GoodInv` adds to the property that a running script
and later ones do not count as done, and that the results of stamped scripts are
never bad; without these a killed script could count as done, and an old
result could be taken for a new one. TLC evaluates `WellOrdered` on the table of the repository:
with linux and LTO in `build_runs`, with macOS and without LTO in `build_v_jobs`.

**CopyMerge_proof**, for all trees, links, lengths of chains and numbers of runs. `TypeCorrect`, by
`TypeInv`: with the type, every node of both trees is typed and every link leads somewhere (`Sound`).
`NoClobberAlways`, by `Kept`: on macOS and without `-f` bytes are written only to a path that was empty when
it was opened, and that was empty before the first run. `TornByFailureAlways`, by
`TornInv`: the torn files are finitely many, and the one being written is among
them, so that a step that begins or ends a file changes the count by that one.

The other three are about where paths lead. Two lemmas carry them: `RealAppend`, that the way to a name in a directory
is the way to the directory and then the name, and `SameWalk`, that two trees with the same links on a way
lead to the same place.

`OthersKept` says what a merge may change without following its steps. A link at a path can hold what it
held before the first run, or what a source link of its name holds (`MayHold`); `Leads` are the paths that a path can come to by such links, in
`MaxLinks` steps, and `MayChange` those where the copy of an entry can then be, or to which a file
is written through links. The invariant (`OthersInv`) adds `Led`: every link of the destination holds what it may hold; so that
the way the kernel takes at any moment is one of those (`LedWalk`). It needs no assumption about
the trees. It is silent once a `readlink` has failed (`misread`), for a link made of a
garbage buffer may lead anywhere.

`SuccessExact` cannot hold for all trees. A file or link of the source can replace a link that the way to another directory of
the source goes by, and what is copied later then lands elsewhere than what was copied before; two entries can have one place by a
link between directories of the destination; and on linux a file is written to what a link in its
place leads to. `Firm`, `Apart` and `LinkInTheWay` say so, of the tree before the first run; TLC found each of them. In firm trees the links
outside of the places of files and links stay what they were (`LinksAsBefore`), so that no place ever moves (`PlacesUnmoved`);
with the other two, no file of the source ever finds a link in its place, and is written where it belongs (`FilesClear`). Then `Halfway` is inductive:
an entry is where it should be, or is still to come in a frame or job (`Pending`), or has not been read (`NotRead`: it is below
a directory whose `readdir_r` failed, or is a link whose `readlink` failed). What a later
step changes is not the place of an earlier entry.

`FailureExplainedAlways`, by `FailInv`: directories that a run has entered stay directories (`DirsStay`, `DirsMade`), so that
what keeps a call from succeeding is at the place of its own entry, where `Blocked` looks for it.

**DedupTargetFiles_proof**, for any targets, trees, contents and numbers of failures, about `DedupTargetFiles` and `TargetsDist`.
`TypeOKAlways`, by `TypeInv`: ranges and segments lie
within the index, so that `Op`s are made of indexed files; a rename finds its directory, since it
was made for it or was there; and a file always has its directory. It needs that the sort is one: `TfileKeyApart` and `SortedIs`
show that the key orders the files completely, so that the index has each of them exactly once.
`LeftoverDirsAlways`, by `LeftInv`: a directory that a file was taken out of is on the list until it has been looked at,
and, as `DirKey` puts a subdirectory before its parent (`SubdirFirst`), what has been looked at is not
empty or is gone (`Settled`). A removal that fails is only reported, so the property speaks of runs without failures.

The other five theorems are about layouts that the tool is right about, since it is not right about every layout
(`dedup_v_versions` and `dedup_v_order` show two). A layout is `Orderly` if its directories are of one architecture and one system
each, versions are those of `llvmboxlib.h`, and for each header and system: the directories that have it have
the same suffix, and all of them a version or none; and either no other system's content of that header has a hash
among those of this system (`Undivided`), or every architecture has its own content (`ByArch`). It is `Complete` if a
header that a system with versions has is in all versions of an architecture that has it. All 1602 header paths of
`sysroots/include` meet both (seven of them by `ByArch`, with a hash of another system in between), and so do the layouts
of `dist_trees`, the layered ones apart: `MCTargetsDist` assumes it, and TLC evaluates the assumption.

The first step is what the tool decides on (`Indexed`, `SegmentsAre`, `RangesAre`): segments are the runs of files of one
header and system, the ranges within them are of one content and architecture. A `Group` is a segment of one
content, or such a range; its `Goal` is the directory that its files are moved to. In an orderly layout two
groups that are apart never make the same common file (`PlaceApart`), and none makes one that was there at the start (`PlaceNew`). `FoldLeft` over the
files gives the common target (`CommonGoal`); and, following the two arrays through the memory they share,
what `dedup_tfiles` takes for all versions: the first one of a single architecture, or 10 and 11 for both (`VersionsOne`, `VersionsTwo`).
That is less than all, and enough in complete layouts only.
`ViewInv` is the inductive invariant: a file of the start is as it was, or its group has had its turn and the common file has its
content (`FilesInv`); what was not there at the start is the common file of a group (`NewInv`); segments and ranges to come
have not been touched (`WaitInv`); and the operations at hand are the rest of a rename and removals of one group (`OpsInv`), of which the
rename comes first. From it follow `NoOverwriteAlways`, a rename never falls on a file; `ViewKeptAlways`, every
target finds what it found, at every moment (`Found`: the place of a group is on the path of its targets, and nothing on the path comes
before); and `NoVersionLeakAlways`, a versioned target finds nothing new (`NoLeak`: a common file it finds is
of a group with a file of its architecture, which a complete layout has for its version as well).
`StoredOnceAlways` needs a second one, `OnceInv`: as long as nothing has failed, the files of a header that is the
same for all of a system are in a segment to come, or on the list of operations, or gone.

`WrappersServeAlways` goes on with the script (`DistSpec`; every step of it is one of the tool or leaves the tree alone,
`DistMoves`). While the `-libc` directories are merged, every file of the tree is in the product under its own name or
without the suffix, and nothing else is (`Carried`). That is kept because no two files that the merge could lay
upon each other exist (`Unmixed`): the suffix of a header is the same throughout a system, in
the tree as at the start. The wrapper's flags, made from the directories that are there, find what the
whole search path would (`IncludesIs`), which is what the target, or the target with `-libc`, found in the tree (`CarriedLookup`),
which is what it found at the start. For the libraries, `wait` is what the proof uses: no copy is under way when the flags are made
(`LibsInv`). `DistAssumption` says what config.sh and `sysroots` provide: distribution targets have the versions the tools know,
library directories are `any-SYS.VER`, and `-libc` is the only suffix.

**Lib_proof.** `ListRoom`, by `ListInv`: a list that has grown has at least the
first capacity, which is why doubling is enough for requests up to that size.
`DisjointAlways`, by `BumpInv`: every allocation ends at or before `next`, which only a reset moves back
beyond the last one. `SortedSetAlways`, by `SetInv`: `SearchRight` shows that the binary search ends at the place of its value, by
induction over the length of what is left to search, and `InsertedSeq` that
moving the elements behind it up keeps the order. `AsManyElements` counts an ascending array: one that
is full holds as many values as it has room for, so that the array on the stack comes to `realloc` with `StackCap` of them and not before. `StreamedAlways`, by `StreamInv`, for every size of chunk
and every sequence of writes: what was consumed and the buffer are the bytes written, in order, and
the buffer has room for one more byte between two writes. `PaddedAlways`: the chunks at the end are
the message, the byte 0x80, zeros to the next multiple of a chunk that leaves room for the length, and the length, whose bytes
`LengthByteIs` takes apart.

Of `Names`, for paths and names of any length: `CleanLeadsAlways`: the fold over the components keeps a `Shape` (what
has been written is a path that `path_cleann` would leave alone: `..` at the front of a relative path only), and each step leaves where
the path leads (`LeadSame`); from `Shape`, cleaning twice is cleaning once (`Recleaned`). `JoinKeepsAllAlways`: `Counts`, the
bytes counted along the way are those of the path written, the separators included. `ArgsApartAlways` compares
the two arguments where they lead. `TargetRoundTrip`: `target_parse` reads back the fields that `target_str` writes, whatever words they are, if
they hold no separator; it shows one more condition, that the suffix of a target without a version must not hold a dot, since the
first dot is where the version begins (there is no such name in the repository). `TargetNamedAlways` follows from how names are cut.

**Smoothsort_proof**, for arrays of any length. `lb_qsort` says nothing of the forest it works on: it has two numbers, which it shifts. The proof
is in three parts. The functions first: `SiftIs`, that `sift` makes a heap of a root and two heaps (its path
goes down, `PathDown`; along it the order is right again from below, `SlideHeap`, by induction over the order of the heap), and
`TrinkleIs`, that `trinkle` puts a forest in order that is `Ready`, in order but for its first root: after the roots on its way have moved
(`RollRoots`), the heap where it stops is sifted, and the value that comes to its root is not greater than the one that
came to the heap after it (`TrinkledAscend`; this is what comparing with the stepson's
two sons is for). Both are permutations of the places they touch (`CycleIs`, `Kept`). Then the forests: `ForestChain`, the heaps
of a number lie side by side and their orders ascend; `MergeForest`, `SingleForest`, `DropForest` and `SplitForest`, the
shifts, the `xor 7` and the counted zeros make of `p` the number of the forest that the step makes.

Then the invariant, `SortInv`. In the first loop (`Growing`) all heaps but the last are heaps, the last has two for sons, and no
two heaps but the last two are of consecutive orders (`Spaced`): merging needs that, since after it the forest may have one heap of each order only.
The roots are not in order yet, but those that will not be part of a greater heap are (`Settled`): a heap
is final if fewer elements are left than it needs, and then all heaps before it are (`FinalAll`, by the growth of the Leonardo
numbers), so that `trinkle` finds what it needs whenever it is called. In the second loop (`Falling`) the roots ascend, so that the
first is the greatest of what is left (`WoodMax`). An order of 0 comes only after one of 1 (`Zeroth`), so that `p` is
not 1 where its zeros are counted. `HeapForestAlways` and `SortedTailAlways` follow. TLC has
checked `SortInv` on all arrays of three values up to six elements.

**Induction_proof.** The library's induction theorems take an operator as a parameter, which the provers cannot
instantiate. These lemmas take sets and functions in its place. `NatMin`: a set of numbers that is not empty has a least one (from
`WFMin`, on the order of `NatLessThanWellFounded`); a proof by induction takes the least of the exceptions, or cites
`NatInd` or `StrongInd` on the set of numbers for which the fact holds. `Recursion`: a definition by recursion on a smaller
argument is satisfied by the function it defines. `IterAlong`: `FoldLeft` with the operator of a function on pairs goes `Along` its
sequence, one element at a time. The recursive functions and folds of the modules are proved about with these.

Left to TLC: liveness (`Terminates`, `RunsEnd`, `Ends`, `SortEnds`), for which the provers have no rule, and ENABLED with it.

## 5. Findings

Each has a run, and a quotation in `PROJECT.json`:

1. a driver that waits for another target's build goes on without its own libraries (clang-TARGET.in:27);
2. a build interrupted between `libc.a` and `crt1.o` is never completed (clang-TARGET.in:33);
3. `dedup_tfiles` lays two arrays over one buffer, and merges headers of some versions into all (dedup:271);
4. files are sorted by hash before system, so that two contents of one system may fall in two ranges and overwrite each other (dedup:96); no header of `sysroots/include` does so today;
5. `build.sh -jN` does not end (build.sh:25).

Seen on the way, and described by the models without a run of their own:

* a range may begin at a file without a version, which the assertion at dedup:376 does not expect (dedup:479);
* the version file of the sources does not name the system they are patched for (025:6);
* on macOS, when `clonefile` cannot clone, `copy_file` copies the bytes and then reports a failure
  (llvmboxlib.c:606), and with `-f` it tries for ever to replace a directory (632; `Spins` in
  `CopyMerge`); on linux files are overwritten with or without `-f`, through links (614, 631);
* a failing `readdir_r` makes a merge end early and report a success (llvmboxlib.c:672), and after a failing
  `readlink` a link is made of what the buffer holds, with a byte written before it (547-552);
* an eleventh system or architecture among the files of one header makes `array_st` grow, which is on the stack
  (dedup:248);
* an `rm -rf` that is cut short may leave the version file on the rest of a tree (config.sh:430);
* `load_file` returns without closing the file if it is empty (llvmboxlib.c:292);
* `031-create-llvmbox-targets.sh` does not notice a failed copy in the background (`lostJob`);
* `import-linux-headers.sh` makes `riscv-linux`, where no driver searches: `riscv32` and `riscv64` drivers have
  no kernel headers. The property `WrappersServe` speaks of the directories a target's name leads to;
* `get_exe_path` tests the result of its look into `PATH` the wrong way round (llvmboxlib.c:261): it stops at the first directory that does not hold the program.

## 6. Not modelled, and why

The compilers, cmake, ninja, tar and wget are modelled by what the scripts rely on.
Option parsing of the C tools, logging and `--dryrun` of the dedup tool change
nothing. Of SHA-256 the compression function is left out, of smoothsort the shifts of a
number in two words: both are arithmetic that known vectors test well. `load_file`,
`unload_file` and `rmfile_recursive` are calls of the operating system; `relpath` and
`path_common_prefix_len` are used for messages or not at all, `get_exe_path` by
`llvmbox-config` only.
`target_parse` with `VALIDATE` is used by `llvmbox-mksysroot` only, and that one
rejects every target in the source as it is (line 210; 196 and 227 are not
written). `llvmbox-config` prints constants. The cmake build directories, which are kept between
runs, are not part of `BuildDriver`: a script makes its result anew from what it
reads. Of `031` the copies of `src`, the installation of tools and the links
`clang-ARCH-macos` are left out: they depend on nothing that can go another way. The maintainers' import scripts and the
utilities are sequential and keep no state.

Of `copy_merge`, what a symbolic link leads to is a path from the directory that the destination is in, whichever
directory the link itself is in: links with an absolute target are exact, relative ones are as long as they lead
to the same place from the directories they are in and are copied to. The source is apart from the destination and does not change meanwhile
(`ArgsApart` is about the first). No other process changes the destination. A path does not exceed
`PATH_MAX`, `write` returns 0 for nothing but an empty block, and there are no devices in the destination. The byte that a failing
`readlink` makes the code write before its buffer has no further effect in the model.

Some hazards of `PROJECT.json` have no property because the code does what they warn of: a lock whose holder was killed is
polled for ever, a failed rename loses a header, a lost background job goes unnoticed, a cut short `rm -rf` leaves a stamped
ruin, an eleventh name has `realloc` see the stack, a `readdir_r` that fails counts as the end of a directory. The models have these steps, and the properties name them as their exceptions.

Nearly all lines of the repository are vendored: the headers of `sysroots/include` for every
target, musl, libc and compiler-rt sources. They are data to these programs. Of the
repository's own code what is not mapped is listed above.

## 7. What is left

`llvmbox-mksysroot`, once it is complete in the source.
