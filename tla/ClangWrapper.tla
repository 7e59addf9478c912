---------------------------- MODULE ClangWrapper ----------------------------
(***************************************************************************)
(* The generated compiler drivers bin/clang-TARGET (utils/clang-TARGET.in, *)
(* instantiated by 031-create-llvmbox-targets.sh).  Each invocation builds *)
(* the runtime libraries its target still lacks (libc.a and crt1.o,        *)
(* librt.a, libc++.a) with the bundled ninja, under one lock directory     *)
(* /tmp/ID-build.lock, and then becomes clang.  All targets, all libraries *)
(* and all users share that one lock.                                      *)
(*                                                                         *)
(* A process here is one invocation: it runs the script once.  A later     *)
(* retry is another process.                                               *)
(***************************************************************************)
EXTENDS Integers, FiniteSets

CONSTANTS
  Proc,        \* invocations of any wrapper
  Target,      \* the targets that have a wrapper
  LinuxTarget, \* those with SYS=linux, which have a libc to build
  TargetOf,    \* the target whose wrapper each invocation is
  CxxProc,     \* the invocations made through the name clang++-TARGET
  Buildable,   \* the libraries whose sources are installed under src/
  Complete,    \* targets whose libraries are all in place at the start
  MaxLive,     \* bound: invocations running at once (make -jN)
  MaxInt, MaxKill, MaxFail  \* bounds: interrupts, SIGKILLs, failing ninja runs

Lib == {"libc", "librt", "libcxx"}
File == {"libc.a", "crt1.o", "librt.a", "libc++.a"}

ASSUME ConstantsAssumption ==
  /\ LinuxTarget \subseteq Target
  /\ Complete \subseteq Target
  /\ TargetOf \in [Proc -> Target]
  /\ CxxProc \subseteq Proc
  /\ Buildable \subseteq Lib
  /\ MaxLive \in Nat /\ MaxInt \in Nat /\ MaxKill \in Nat /\ MaxFail \in Nat

VARIABLES
  pc,       \* pc[p]: what invocation p is about to do
  step,     \* step[p]: which of the three library blocks p is in, 4 after them
  has,      \* has[p]: HAS_BUILDLOCK, "none" for the empty string
  todo,     \* todo[p]: what p's ninja still has to make
  lock,     \* the lock directory exists
  libdir,   \* libdir[t]: files in targets/t/lib
  objs,     \* <<t, l>>: /tmp object directory of library l of t is complete
  ints, kills, fails,  \* how often each fault happened
  waited,   \* history: p was refused the lock
  stolen    \* history: a lock was removed by a process that did not take it

vars == <<pc, step, has, todo, lock, libdir, objs, ints, kills, fails,
          waited, stolen>>
faults == <<ints, kills, fails>>
files == <<libdir, objs>>

-----------------------------------------------------------------------------
(* The three library blocks, in the order of the script. *)
Block == <<"libc", "librt", "libcxx">>
NBlocks == 3

Marker(l) ==   \* the file whose presence a block tests
  CASE l = "libc" -> "libc.a" [] l = "librt" -> "librt.a" [] OTHER -> "libc++.a"

Outputs(l) ==  \* the default targets of the block's ninja file
  IF l = "libc" THEN {"libc.a", "crt1.o"} ELSE {Marker(l)}

Wants(p, l) == \* the part of a block's test that no other process changes
  CASE l = "libc"  -> TargetOf[p] \in LinuxTarget
    [] l = "librt" -> TRUE
    [] OTHER       -> p \in CxxProc

TargetLibs(t) ==  \* what the link line names: -lc, -lrt and crt1.o
  IF t \in LinuxTarget THEN {"libc.a", "crt1.o", "librt.a"} ELSE {"librt.a"}

Needed(p) == TargetLibs(TargetOf[p])

Token == {"objs", "rm"} \cup File
Script == {"test", "lock", "wait", "ninja", "build", "clean", "unlock"}
Live == Script \cup {"int", "exit"}
Over == {"linked", "nolink", "failed", "killed"}

Init ==
  /\ pc = [p \in Proc |-> "idle"]
  /\ step = [p \in Proc |-> 1]
  /\ has = [p \in Proc |-> "none"]
  /\ todo = [p \in Proc |-> {}]
  /\ lock = FALSE
  /\ libdir = [t \in Target |->
                 IF t \notin Complete THEN {}
                 ELSE UNION {Outputs(l) : l \in Buildable}]
  /\ objs = {}
  /\ ints = 0 /\ kills = 0 /\ fails = 0
  /\ waited = [p \in Proc |-> FALSE]
  /\ stolen = FALSE

-----------------------------------------------------------------------------
Running == {p \in Proc : pc[p] \in Live \cup {"exec"}}

(* A user or a build tool runs clang-TARGET. *)
Start(p) ==
  /\ pc[p] = "idle"
  /\ Cardinality(Running) < MaxLive
  /\ pc' = [pc EXCEPT ![p] = "test"]
  /\ UNCHANGED <<step, has, todo, lock, files, faults, waited, stolen>>

(* The test of a block succeeds: the library is wanted and its file absent. *)
TestMissing(p) ==
  /\ pc[p] = "test" /\ step[p] <= NBlocks
  /\ Wants(p, Block[step[p]])
  /\ Marker(Block[step[p]]) \notin libdir[TargetOf[p]]
  /\ pc' = [pc EXCEPT ![p] = "lock"]
  /\ UNCHANGED <<step, has, todo, lock, files, faults, waited, stolen>>

TestSkip_TwoBlocks(p) == \* mutant: the test of librt.a is not reached
  /\ pc[p] = "test" /\ step[p] <= NBlocks
  /\ \/ ~Wants(p, Block[step[p]])
     \/ Marker(Block[step[p]]) \in libdir[TargetOf[p]]
  /\ step' = [step EXCEPT ![p] = @ + 2]
  /\ UNCHANGED <<pc, has, todo, lock, files, faults, waited, stolen>>

(* The test fails: on to the next block. *)
TestSkip(p) ==
  /\ pc[p] = "test" /\ step[p] <= NBlocks
  /\ \/ ~Wants(p, Block[step[p]])
     \/ Marker(Block[step[p]]) \in libdir[TargetOf[p]]
  /\ step' = [step EXCEPT ![p] = @ + 1]
  /\ UNCHANGED <<pc, has, todo, lock, files, faults, waited, stolen>>

TestsOver(p) ==
  /\ pc[p] = "test" /\ step[p] > NBlocks
  /\ pc' = [pc EXCEPT ![p] = "unlock"]
  /\ UNCHANGED <<step, has, todo, lock, files, faults, waited, stolen>>

-----------------------------------------------------------------------------
(* _buildlock: refused at once by a process that has waited before. *)
LockRefused(p) ==
  /\ pc[p] = "lock" /\ has[p] = "no"
  /\ pc' = [pc EXCEPT ![p] = "test"]
  /\ step' = [step EXCEPT ![p] = @ + 1]
  /\ UNCHANGED <<has, todo, lock, files, faults, waited, stolen>>

(* _buildlock: taken for an earlier block.  mkdir is not called again. *)
LockHeld(p) ==
  /\ pc[p] = "lock" /\ has[p] = "yes"
  /\ pc' = [pc EXCEPT ![p] = "ninja"]
  /\ UNCHANGED <<step, has, todo, lock, files, faults, waited, stolen>>

LockMkdir_Parents(p) == \* mutant: mkdir -p, which succeeds on an existing lock
  /\ pc[p] = "lock" /\ has[p] = "none"
  /\ lock' = TRUE
  /\ has' = [has EXCEPT ![p] = "yes"]
  /\ pc' = [pc EXCEPT ![p] = "ninja"]
  /\ UNCHANGED <<step, todo, files, faults, waited, stolen>>

(* _buildlock: mkdir, which is atomic, creates the lock directory. *)
LockMkdir(p) ==
  /\ pc[p] = "lock" /\ has[p] = "none" /\ ~lock
  /\ lock' = TRUE
  /\ has' = [has EXCEPT ![p] = "yes"]
  /\ pc' = [pc EXCEPT ![p] = "ninja"]
  /\ UNCHANGED <<step, todo, files, faults, waited, stolen>>

(* _buildlock: mkdir fails, the process starts to poll. *)
LockBusy(p) ==
  /\ pc[p] = "lock" /\ has[p] = "none" /\ lock
  /\ has' = [has EXCEPT ![p] = "no"]
  /\ waited' = [waited EXCEPT ![p] = TRUE]
  /\ pc' = [pc EXCEPT ![p] = "wait"]
  /\ UNCHANGED <<step, todo, lock, files, faults, stolen>>

PollGone_Never(p) == \* mutant: while true instead of while [ -d "$BUILDLOCK" ]
  /\ pc[p] = "wait" /\ ~lock
  /\ UNCHANGED vars

(* _buildlock: the poll finds the directory gone and returns 1, so that the *)
(* block is left without building anything.                                *)
PollGone(p) ==
  /\ pc[p] = "wait" /\ ~lock
  /\ pc' = [pc EXCEPT ![p] = "test"]
  /\ step' = [step EXCEPT ![p] = @ + 1]
  /\ UNCHANGED <<has, todo, lock, files, faults, waited, stolen>>

(* _buildunlock clears HAS_BUILDLOCK and removes the directory, whoever    *)
(* made it.                                                                *)
Buildunlock(p) ==
  /\ has' = [has EXCEPT ![p] = "none"]
  /\ lock' = FALSE
  /\ stolen' = (stolen \/ (lock /\ has[p] # "yes"))

-----------------------------------------------------------------------------
(* The ninja run of a block, in a subshell that first enters the sources.  *)
(* set -e ends the script when either fails.                               *)
NinjaStart(p) ==
  LET t == TargetOf[p]
      l == Block[step[p]]
      fresh == <<t, l>> \in objs
  IN /\ pc[p] = "ninja" /\ l \in Buildable
     /\ todo' = [todo EXCEPT ![p] =
          (Outputs(l) \ libdir[t])
            \cup (IF fresh THEN {} ELSE {"objs"})
            \cup (IF fresh /\ Marker(l) \in libdir[t] THEN {} ELSE {"rm", Marker(l)})]
     /\ pc' = [pc EXCEPT ![p] = "build"]
     /\ UNCHANGED <<step, has, lock, files, faults, waited, stolen>>

NoSources(p) ==
  /\ pc[p] = "ninja" /\ Block[step[p]] \notin Buildable
  /\ pc' = [pc EXCEPT ![p] = "exit"]
  /\ UNCHANGED <<step, has, todo, lock, files, faults, waited, stolen>>

Compile(p) ==
  /\ pc[p] = "build" /\ "objs" \in todo[p]
  /\ objs' = objs \cup {<<TargetOf[p], Block[step[p]]>>}
  /\ todo' = [todo EXCEPT ![p] = @ \ {"objs"}]
  /\ UNCHANGED <<pc, step, has, lock, libdir, faults, waited, stolen>>

(* The ar rule is rm -f $out && ar crs $out $in: two steps. *)
ArRemove(p) ==
  LET t == TargetOf[p]
      m == Marker(Block[step[p]])
  IN /\ pc[p] = "build" /\ "objs" \notin todo[p] /\ "rm" \in todo[p]
     /\ libdir' = [libdir EXCEPT ![t] = @ \ {m}]
     /\ todo' = [todo EXCEPT ![p] = @ \ {"rm"}]
     /\ UNCHANGED <<pc, step, has, lock, objs, faults, waited, stolen>>

(* ar fails when the object directory was removed under it. *)
Archive(p) ==
  LET t == TargetOf[p]
      l == Block[step[p]]
      m == Marker(l)
  IN /\ pc[p] = "build" /\ m \in todo[p] /\ {"objs", "rm"} \cap todo[p] = {}
     /\ IF <<t, l>> \in objs
          THEN /\ libdir' = [libdir EXCEPT ![t] = @ \cup {m}]
               /\ todo' = [todo EXCEPT ![p] = @ \ {m}]
               /\ UNCHANGED pc
          ELSE /\ todo' = [todo EXCEPT ![p] = {}]
               /\ pc' = [pc EXCEPT ![p] = "exit"]
               /\ UNCHANGED libdir
     /\ UNCHANGED <<step, has, lock, objs, faults, waited, stolen>>

(* The start file is compiled straight into the library directory, before  *)
(* or after the archive.                                                   *)
CompileCrt(p) ==
  /\ pc[p] = "build" /\ "crt1.o" \in todo[p]
  /\ libdir' = [libdir EXCEPT ![TargetOf[p]] = @ \cup {"crt1.o"}]
  /\ todo' = [todo EXCEPT ![p] = @ \ {"crt1.o"}]
  /\ UNCHANGED <<pc, step, has, lock, objs, faults, waited, stolen>>

NinjaFail(p) ==
  /\ pc[p] = "build" /\ fails < MaxFail
  /\ fails' = fails + 1
  /\ todo' = [todo EXCEPT ![p] = {}]
  /\ pc' = [pc EXCEPT ![p] = "exit"]
  /\ UNCHANGED <<step, has, lock, files, ints, kills, waited, stolen>>

NinjaDone_Early(p) == \* mutant: the script does not wait for its ninja
  /\ pc[p] = "build"
  /\ pc' = [pc EXCEPT ![p] = "clean"]
  /\ todo' = [todo EXCEPT ![p] = {}]
  /\ UNCHANGED <<step, has, lock, files, faults, waited, stolen>>

NinjaDone(p) ==
  /\ pc[p] = "build" /\ todo[p] = {}
  /\ pc' = [pc EXCEPT ![p] = "clean"]
  /\ UNCHANGED <<step, has, todo, lock, files, faults, waited, stolen>>

Clean_Lib(p) == \* mutant: rm -rf of the library directory
  /\ pc[p] = "clean"
  /\ libdir' = [libdir EXCEPT ![TargetOf[p]] = {}]
  /\ step' = [step EXCEPT ![p] = @ + 1]
  /\ pc' = [pc EXCEPT ![p] = "test"]
  /\ UNCHANGED <<has, todo, lock, objs, faults, waited, stolen>>

(* rm -rf of the object directory ends a block. *)
Clean(p) ==
  /\ pc[p] = "clean"
  /\ objs' = objs \ {<<TargetOf[p], Block[step[p]]>>}
  /\ step' = [step EXCEPT ![p] = @ + 1]
  /\ pc' = [pc EXCEPT ![p] = "test"]
  /\ UNCHANGED <<has, todo, lock, libdir, faults, waited, stolen>>

-----------------------------------------------------------------------------
(* After the blocks every process unlocks, then is replaced by clang. *)
Unlock(p) ==
  /\ pc[p] = "unlock"
  /\ Buildunlock(p)
  /\ pc' = [pc EXCEPT ![p] = "exec"]
  /\ UNCHANGED <<step, todo, files, faults, waited>>

(* clang links the user's program with the libraries it finds. *)
Link(p) ==
  /\ pc[p] = "exec"
  /\ pc' = [pc EXCEPT ![p] =
              IF Needed(p) \subseteq libdir[TargetOf[p]] THEN "linked" ELSE "nolink"]
  /\ UNCHANGED <<step, has, todo, lock, files, faults, waited, stolen>>

ExitTrap_Missing(p) == \* mutant: no trap on EXIT
  /\ pc[p] = "exit"
  /\ pc' = [pc EXCEPT ![p] = "failed"]
  /\ UNCHANGED <<step, has, todo, lock, files, faults, waited, stolen>>

(* The EXIT trap, on a failing command and after the INT trap. *)
ExitTrap(p) ==
  /\ pc[p] = "exit"
  /\ Buildunlock(p)
  /\ pc' = [pc EXCEPT ![p] = "failed"]
  /\ UNCHANGED <<step, todo, files, faults, waited>>

(* ^C reaches the script and its ninja. *)
Interrupt(p) ==
  /\ pc[p] \in Script /\ ints < MaxInt
  /\ ints' = ints + 1
  /\ todo' = [todo EXCEPT ![p] = {}]
  /\ pc' = [pc EXCEPT ![p] = "int"]
  /\ UNCHANGED <<step, has, lock, files, kills, fails, waited, stolen>>

(* The INT trap unlocks and exits, which runs the EXIT trap. *)
IntTrap(p) ==
  /\ pc[p] = "int"
  /\ Buildunlock(p)
  /\ pc' = [pc EXCEPT ![p] = "exit"]
  /\ UNCHANGED <<step, todo, files, faults, waited>>

(* No trap runs on SIGKILL. *)
Kill(p) ==
  /\ pc[p] \in Live /\ kills < MaxKill
  /\ kills' = kills + 1
  /\ todo' = [todo EXCEPT ![p] = {}]
  /\ pc' = [pc EXCEPT ![p] = "killed"]
  /\ UNCHANGED <<step, has, lock, files, ints, fails, waited, stolen>>

-----------------------------------------------------------------------------
Ninja(p) ==
  \/ NinjaStart(p) \/ NoSources(p) \/ Compile(p) \/ ArRemove(p) \/ Archive(p)
  \/ CompileCrt(p) \/ NinjaDone(p)

Run(p) ==  \* the steps an invocation takes by itself
  \/ TestMissing(p) \/ TestSkip(p) \/ TestsOver(p)
  \/ LockRefused(p) \/ LockHeld(p) \/ LockMkdir(p) \/ LockBusy(p) \/ PollGone(p)
  \/ Ninja(p) \/ Clean(p) \/ Unlock(p) \/ Link(p) \/ ExitTrap(p) \/ IntTrap(p)

Fault(p) == NinjaFail(p) \/ Interrupt(p) \/ Kill(p)

Next == \E p \in Proc : Start(p) \/ Run(p) \/ Fault(p)

Spec == Init /\ [][Next]_vars

(* A started script is scheduled; its ninja run ends.  Nothing obliges a   *)
(* user to start a wrapper, nor a fault to happen.                         *)
FairSpec == Spec /\ \A p \in Proc : WF_vars(Run(p))

-----------------------------------------------------------------------------
TypeOK ==
  /\ pc \in [Proc -> {"idle", "exec"} \cup Live \cup Over]
  /\ step \in [Proc -> 1..(NBlocks + 1)]
  /\ has \in [Proc -> {"none", "yes", "no"}]
  /\ todo \in [Proc -> SUBSET Token]
  /\ lock \in BOOLEAN
  /\ libdir \in [Target -> SUBSET File]
  /\ objs \subseteq Target \X Lib
  /\ ints \in 0..MaxInt /\ kills \in 0..MaxKill /\ fails \in 0..MaxFail
  /\ waited \in [Proc -> BOOLEAN]
  /\ stolen \in BOOLEAN

-----------------------------------------------------------------------------
Holder(p) == has[p] = "yes"
InNinja(p) == pc[p] \in {"ninja", "build", "clean"}

(* A lock directory always belongs to an invocation that took it and is     *)
(* still running, unless an invocation was killed while it held the lock:   *)
(* every exit that a trap can see removes the directory.                    *)
LockHasHolder ==
  lock => \E p \in Proc : Holder(p) /\ pc[p] \in Live \cup {"killed"}

(* As long as nobody removed a lock directory that was not his, at most one *)
(* invocation runs ninja, and the directory is there while it does.         *)
MutexUnlessStolen ==
  ~stolen =>
    /\ \A p, q \in Proc : InNinja(p) /\ InNinja(q) => p = q
    /\ \A p \in Proc : InNinja(p) => lock

(* A clang that runs without a library it needs has one of three causes:   *)
(* the invocation waited, and so skipped its own build; a build of the same *)
(* target was interrupted, killed or failed; or another invocation is       *)
(* making an archive of that target again, after a test of the file that    *)
(* was overtaken by the first build.                                        *)
MissingLibExplained ==
  \A p \in Proc : pc[p] = "exec" /\ ~(Needed(p) \subseteq libdir[TargetOf[p]]) =>
    \/ waited[p]
    \/ \E q \in Proc : /\ TargetOf[q] = TargetOf[p]
                       /\ pc[q] \in {"failed", "killed", "int", "exit"} \/ InNinja(q)

(* When every invocation is over, none was disturbed and no lock was        *)
(* stolen, the builds they repeated have not harmed a library: every target *)
(* whose wrapper got through without waiting has all it links with.         *)
SettledComplete ==
  /\ \A p \in Proc : pc[p] \in {"idle"} \cup Over
  /\ ints = 0 /\ kills = 0 /\ fails = 0 /\ ~stolen
  => \A p \in Proc : pc[p] \in {"linked", "nolink"} /\ ~waited[p] =>
       Needed(p) \subseteq libdir[TargetOf[p]]

(* README.md: "compiling them as needed for requested targets".  A wrapper  *)
(* hands over to clang only when the libraries of its target are there.     *)
CompiledAsNeeded ==
  \A p \in Proc : pc[p] = "exec" => Needed(p) \subseteq libdir[TargetOf[p]]

(* Every invocation ends, unless another was killed with the lock in its    *)
(* hands: it never polls for ever for a lock that somebody alive has to     *)
(* give back, whatever is interrupted, fails or is stolen on the way.       *)
Terminates ==
  \A p \in Proc :
    pc[p] \in Live ~>
      pc[p] \in Over \/ (lock /\ \E q \in Proc : pc[q] = "killed" /\ Holder(q))

(* What the wrappers promise their users, with the lock and the builds left *)
(* out: see OnDemandBuild.  It is kept when invocations do not overlap and  *)
(* none is disturbed.                                                       *)
PhaseAt(place) ==
  CASE place \in Live -> "preparing"
    [] place = "exec" -> "running"
    [] place \in Over -> "over"
    [] OTHER          -> "idle"

Phase == [p \in Proc |-> PhaseAt(pc[p])]

CompleteTargets == {t \in Target : TargetLibs(t) \subseteq libdir[t]}

Promise == INSTANCE OnDemandBuild WITH phase <- Phase, complete <- CompleteTargets

KeepsPromise == Promise!Spec
=============================================================================
