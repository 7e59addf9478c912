------------------------- MODULE ClangWrapper_proof -------------------------
(***************************************************************************)
(* Proofs about the clang-TARGET wrappers for any number of invocations,    *)
(* targets and faults: type correctness, that a lock directory always has a *)
(* holder, that ninja runs are mutually exclusive until a process removes a *)
(* lock it did not take, and why a compiler may miss a library.  As long as *)
(* nothing disturbs an invocation and no lock is taken away, builds lose    *)
(* nothing; and when invocations also run one at a time, the wrappers       *)
(* implement OnDemandBuild.                                                 *)
(***************************************************************************)
EXTENDS ClangWrapper, FiniteSetTheorems, TLAPS

(* A block is entered only for one of the three libraries. *)
StepInBlock ==
  \A p \in Proc :
    pc[p] \in {"lock", "wait", "ninja", "build", "clean"} => step[p] \in 1..NBlocks

TypeInv == TypeOK /\ StepInBlock

(* HAS_BUILDLOCK is 1 only in a script that has not unlocked yet. *)
HolderPlace ==
  \A p \in Proc : Holder(p) => pc[p] \in Live \cup {"killed"}

LockInv ==
  /\ TypeOK
  /\ HolderPlace
  /\ lock => \E p \in Proc : Holder(p)

NinjaHolds == \A p \in Proc : InNinja(p) => Holder(p)

OneHolder ==
  ~stolen => /\ \A p, q \in Proc : Holder(p) /\ Holder(q) => p = q
             /\ \A p \in Proc : Holder(p) => lock

MutexInv == TypeOK /\ NinjaHolds /\ OneHolder

-----------------------------------------------------------------------------
LEMMA BlockInLib ==
  ASSUME NEW s \in 1..NBlocks
  PROVE  Block[s] \in Lib
BY DEF NBlocks, Block, Lib

LEMMA MarkerInFile == \A l : Marker(l) \in File
BY DEF Marker, File

LEMMA OutputsInFile == \A l : Outputs(l) \subseteq File
BY DEF Outputs, Marker, File

LEMMA InitType == Init => TypeInv
<1> SUFFICES ASSUME Init PROVE TypeInv
  OBVIOUS
<1>1. libdir \in [Target -> SUBSET File]
  <2>1. UNION {Outputs(l) : l \in Buildable} \subseteq File
    BY OutputsInFile
  <2> QED BY <2>1 DEF Init
<1>2. TypeOK
  <2>1. pc \in [Proc -> {"idle", "exec"} \cup Live \cup Over]
    BY DEF Init
  <2>2. /\ step \in [Proc -> 1..(NBlocks + 1)]
        /\ has \in [Proc -> {"none", "yes", "no"}]
    BY DEF Init, NBlocks
  <2>3. /\ todo \in [Proc -> SUBSET Token]
        /\ objs \subseteq Target \X Lib
        /\ waited \in [Proc -> BOOLEAN]
    BY DEF Init
  <2>4. ints \in 0..MaxInt /\ kills \in 0..MaxKill /\ fails \in 0..MaxFail
    BY ConstantsAssumption DEF Init
  <2> QED BY <1>1, <2>1, <2>2, <2>3, <2>4 DEF Init, TypeOK
<1>3. StepInBlock
  BY DEF Init, StepInBlock
<1> QED BY <1>2, <1>3 DEF TypeInv

USE DEF faults, files

LEMMA TypeStart ==
  ASSUME TypeInv, NEW p \in Proc, Start(p) PROVE TypeInv'
BY DEF TypeInv, TypeOK, StepInBlock, Start, Live, Script

LEMMA TypeTest ==
  ASSUME TypeInv, NEW p \in Proc, TestMissing(p) \/ TestSkip(p) \/ TestsOver(p)
  PROVE  TypeInv'
<1>1. CASE TestMissing(p)
  BY <1>1 DEF TypeInv, TypeOK, StepInBlock, TestMissing, Live, Script, NBlocks
<1>2. CASE TestSkip(p)
  BY <1>2 DEF TypeInv, TypeOK, StepInBlock, TestSkip, NBlocks
<1>3. CASE TestsOver(p)
  BY <1>3 DEF TypeInv, TypeOK, StepInBlock, TestsOver, Live, Script
<1> QED BY <1>1, <1>2, <1>3

LEMMA TypeLock ==
  ASSUME TypeInv, NEW p \in Proc,
         \/ LockRefused(p) \/ LockHeld(p) \/ LockMkdir(p) \/ LockBusy(p)
         \/ PollGone(p)
  PROVE  TypeInv'
<1>1. CASE LockRefused(p)
  BY <1>1 DEF TypeInv, TypeOK, StepInBlock, LockRefused, Live, Script, NBlocks
<1>2. CASE LockHeld(p)
  BY <1>2 DEF TypeInv, TypeOK, StepInBlock, LockHeld, Live, Script
<1>3. CASE LockMkdir(p)
  BY <1>3 DEF TypeInv, TypeOK, StepInBlock, LockMkdir, Live, Script
<1>4. CASE LockBusy(p)
  BY <1>4 DEF TypeInv, TypeOK, StepInBlock, LockBusy, Live, Script
<1>5. CASE PollGone(p)
  BY <1>5 DEF TypeInv, TypeOK, StepInBlock, PollGone, Live, Script, NBlocks
<1> QED BY <1>1, <1>2, <1>3, <1>4, <1>5

LEMMA TypeNinja ==
  ASSUME TypeInv, NEW p \in Proc, Ninja(p) \/ NinjaFail(p) PROVE TypeInv'
<1> USE MarkerInFile, OutputsInFile, ConstantsAssumption
<1> USE DEF TypeInv, TypeOK, StepInBlock
<1>1. CASE NinjaStart(p)
  <2>1. todo'[p] \subseteq Token
    BY <1>1 DEF NinjaStart, Token
  <2>2. todo' \in [Proc -> SUBSET Token]
    BY <1>1, <2>1 DEF NinjaStart
  <2> QED BY <1>1, <2>2 DEF NinjaStart, Live, Script
<1>2. CASE NoSources(p)
  BY <1>2 DEF NoSources, Live
<1>3. CASE Compile(p)
  <2>1. Block[step[p]] \in Lib /\ TargetOf[p] \in Target
    BY <1>3, BlockInLib DEF Compile
  <2>2. objs' \subseteq Target \X Lib
    BY <1>3, <2>1 DEF Compile
  <2> QED BY <1>3, <2>2 DEF Compile
<1>4. CASE ArRemove(p)
  BY <1>4 DEF ArRemove
<1>5. CASE Archive(p)
  <2>1. CASE <<TargetOf[p], Block[step[p]]>> \in objs
    BY <1>5, <2>1 DEF Archive
  <2>2. CASE <<TargetOf[p], Block[step[p]]>> \notin objs
    BY <1>5, <2>2 DEF Archive, Live
  <2> QED BY <2>1, <2>2
<1>6. CASE CompileCrt(p)
  BY <1>6 DEF CompileCrt, File
<1>7. CASE NinjaDone(p)
  BY <1>7 DEF NinjaDone, Live, Script
<1>8. CASE NinjaFail(p)
  BY <1>8 DEF NinjaFail, Live
<1> QED BY <1>1, <1>2, <1>3, <1>4, <1>5, <1>6, <1>7, <1>8 DEF Ninja

LEMMA TypeEnd ==
  ASSUME TypeInv, NEW p \in Proc,
         \/ Clean(p) \/ Unlock(p) \/ Link(p) \/ ExitTrap(p) \/ IntTrap(p)
         \/ Interrupt(p) \/ Kill(p)
  PROVE  TypeInv'
<1> USE ConstantsAssumption DEF TypeInv, TypeOK, StepInBlock
<1>1. CASE Clean(p)
  BY <1>1 DEF Clean, Live, Script, NBlocks
<1>2. CASE Unlock(p)
  BY <1>2 DEF Unlock, Buildunlock
<1>3. CASE Link(p)
  BY <1>3 DEF Link, Over
<1>4. CASE ExitTrap(p)
  BY <1>4 DEF ExitTrap, Buildunlock, Over
<1>5. CASE IntTrap(p)
  BY <1>5 DEF IntTrap, Buildunlock, Live
<1>6. CASE Interrupt(p)
  BY <1>6 DEF Interrupt, Live
<1>7. CASE Kill(p)
  BY <1>7 DEF Kill, Over
<1> QED BY <1>1, <1>2, <1>3, <1>4, <1>5, <1>6, <1>7

LEMMA TypeStutter == ASSUME TypeInv, UNCHANGED vars PROVE TypeInv'
BY DEF TypeInv, TypeOK, StepInBlock, vars

(* Every variable keeps its type; in particular a process never runs past  *)
(* the third library block into an undefined one.                          *)
THEOREM TypeCorrect == Spec => []TypeOK
<1>1. Init => TypeInv
  BY InitType
<1>2. TypeInv /\ [Next]_vars => TypeInv'
  BY TypeStart, TypeTest, TypeLock, TypeNinja, TypeEnd, TypeStutter
     DEF Next, Run, Fault, Ninja
<1>3. TypeInv => TypeOK
  BY DEF TypeInv
<1> QED BY <1>1, <1>2, <1>3, PTL DEF Spec

-----------------------------------------------------------------------------
(* A step of one process leaves the place of every other process alone. *)
LEMMA HolderStep ==
  ASSUME TypeOK, HolderPlace, Next PROVE HolderPlace'
<1> PICK p \in Proc : Start(p) \/ Run(p) \/ Fault(p)
  BY DEF Next
<1> USE DEF HolderPlace, Holder, TypeOK, Live, Script
<1>1. CASE Start(p)
  BY <1>1 DEF Start
<1>2. CASE TestMissing(p) \/ TestSkip(p) \/ TestsOver(p)
  BY <1>2 DEF TestMissing, TestSkip, TestsOver
<1>3. CASE LockRefused(p) \/ LockHeld(p) \/ LockMkdir(p) \/ LockBusy(p) \/ PollGone(p)
  BY <1>3 DEF LockRefused, LockHeld, LockMkdir, LockBusy, PollGone
<1>4. CASE NinjaStart(p) \/ NoSources(p) \/ NinjaDone(p) \/ NinjaFail(p) \/ Clean(p)
  BY <1>4 DEF NinjaStart, NoSources, NinjaDone, NinjaFail, Clean
<1>5. CASE Compile(p) \/ ArRemove(p) \/ CompileCrt(p)
  BY <1>5 DEF Compile, ArRemove, CompileCrt
<1>6. CASE Archive(p)
  BY <1>6 DEF Archive
<1>7. CASE Unlock(p) \/ ExitTrap(p) \/ IntTrap(p)
  BY <1>7 DEF Unlock, ExitTrap, IntTrap, Buildunlock
<1>8. CASE Link(p)
  BY <1>8 DEF Link
<1>9. CASE Interrupt(p) \/ Kill(p)
  BY <1>9 DEF Interrupt, Kill
<1> QED
  BY <1>1, <1>2, <1>3, <1>4, <1>5, <1>6, <1>7, <1>8, <1>9 DEF Run, Fault, Ninja

(* What the actions do to the lock and to HAS_BUILDLOCK: the actions fall   *)
(* into four groups.                                                        *)
LEMMA LockSteps ==
  ASSUME Next
  PROVE  \E p \in Proc :
           \/ UNCHANGED <<has, lock, stolen>>
           \/ LockMkdir(p)
           \/ LockBusy(p)
           \/ Buildunlock(p)
<1> PICK p \in Proc : Start(p) \/ Run(p) \/ Fault(p)
  BY DEF Next
<1>1. CASE Start(p) \/ Fault(p)
  BY <1>1 DEF Start, Fault, NinjaFail, Interrupt, Kill
<1>2. CASE Ninja(p)
  BY <1>2 DEF Ninja, NinjaStart, NoSources, Compile, ArRemove, Archive,
              CompileCrt, NinjaDone
<1>3. CASE TestMissing(p) \/ TestSkip(p) \/ TestsOver(p) \/ Clean(p) \/ Link(p)
  BY <1>3 DEF TestMissing, TestSkip, TestsOver, Clean, Link
<1>4. CASE LockRefused(p) \/ LockHeld(p) \/ PollGone(p)
  BY <1>4 DEF LockRefused, LockHeld, PollGone
<1>5. CASE LockMkdir(p) \/ LockBusy(p)
  BY <1>5
<1>6. CASE Unlock(p) \/ ExitTrap(p) \/ IntTrap(p)
  BY <1>6 DEF Unlock, ExitTrap, IntTrap
<1> QED BY <1>1, <1>2, <1>3, <1>4, <1>5, <1>6 DEF Run

LEMMA LockHeldStep ==
  ASSUME TypeOK, lock => \E p \in Proc : Holder(p), Next
  PROVE  (lock => \E p \in Proc : Holder(p))'
<1> PICK p \in Proc :
       \/ UNCHANGED <<has, lock, stolen>>
       \/ LockMkdir(p)
       \/ LockBusy(p)
       \/ Buildunlock(p)
  BY LockSteps
<1>1. CASE UNCHANGED <<has, lock, stolen>>
  BY <1>1 DEF Holder
<1>2. CASE LockMkdir(p)
  BY <1>2 DEF LockMkdir, Holder, TypeOK
<1>3. CASE LockBusy(p)
  BY <1>3 DEF LockBusy, Holder, TypeOK
<1>4. CASE Buildunlock(p)
  BY <1>4 DEF Buildunlock
<1> QED BY <1>1, <1>2, <1>3, <1>4

LEMMA LockInit == Init => LockInv
<1>1. Init => TypeOK
  BY InitType DEF TypeInv
<1> QED BY <1>1 DEF Init, LockInv, HolderPlace, Holder

LEMMA LockStep == LockInv /\ TypeOK' /\ [Next]_vars => LockInv'
<1> SUFFICES ASSUME LockInv, TypeOK', [Next]_vars PROVE LockInv'
  OBVIOUS
<1>1. CASE Next
  BY <1>1, HolderStep, LockHeldStep DEF LockInv
<1>2. CASE UNCHANGED vars
  BY <1>2 DEF LockInv, HolderPlace, Holder, vars
<1> QED BY <1>1, <1>2

(* Whatever is interrupted, fails or is removed by someone else, a lock     *)
(* directory belongs to an invocation that took it and that is running or   *)
(* was killed: without SIGKILL there are no stale locks.                    *)
THEOREM LockAlwaysHasHolder == Spec => []LockHasHolder
<1>1. LockInv => LockHasHolder
  BY DEF LockInv, HolderPlace, LockHasHolder
<1> QED BY <1>1, LockInit, LockStep, TypeCorrect, PTL DEF Spec

-----------------------------------------------------------------------------
LEMMA NinjaHoldsStep ==
  ASSUME TypeOK, NinjaHolds, Next PROVE NinjaHolds'
<1> PICK p \in Proc : Start(p) \/ Run(p) \/ Fault(p)
  BY DEF Next
<1> USE DEF NinjaHolds, InNinja, Holder, TypeOK
<1>1. CASE Start(p) \/ NinjaFail(p) \/ Interrupt(p) \/ Kill(p)
  BY <1>1 DEF Start, NinjaFail, Interrupt, Kill
<1>2. CASE TestMissing(p) \/ TestSkip(p) \/ TestsOver(p)
  BY <1>2 DEF TestMissing, TestSkip, TestsOver
<1>3. CASE LockRefused(p) \/ LockHeld(p) \/ LockMkdir(p) \/ LockBusy(p) \/ PollGone(p)
  BY <1>3 DEF LockRefused, LockHeld, LockMkdir, LockBusy, PollGone
<1>4. CASE NinjaStart(p) \/ NoSources(p) \/ NinjaDone(p) \/ Clean(p)
  BY <1>4 DEF NinjaStart, NoSources, NinjaDone, Clean
<1>5. CASE Compile(p) \/ ArRemove(p) \/ CompileCrt(p)
  BY <1>5 DEF Compile, ArRemove, CompileCrt
<1>6. CASE Archive(p)
  BY <1>6 DEF Archive
<1>7. CASE Unlock(p) \/ ExitTrap(p) \/ IntTrap(p)
  BY <1>7 DEF Unlock, ExitTrap, IntTrap, Buildunlock
<1>8. CASE Link(p)
  BY <1>8 DEF Link
<1> QED
  BY <1>1, <1>2, <1>3, <1>4, <1>5, <1>6, <1>7, <1>8 DEF Run, Fault, Ninja

LEMMA OneHolderStep ==
  ASSUME TypeOK, OneHolder, Next PROVE OneHolder'
<1> PICK p \in Proc :
       \/ UNCHANGED <<has, lock, stolen>>
       \/ LockMkdir(p)
       \/ LockBusy(p)
       \/ Buildunlock(p)
  BY LockSteps
<1> USE DEF OneHolder, Holder, TypeOK
<1>1. CASE UNCHANGED <<has, lock, stolen>>
  BY <1>1
<1>2. CASE LockMkdir(p)
  BY <1>2 DEF LockMkdir
<1>3. CASE LockBusy(p)
  BY <1>3 DEF LockBusy
<1>4. CASE Buildunlock(p)
  BY <1>4 DEF Buildunlock
<1> QED BY <1>1, <1>2, <1>3, <1>4

(* The only way two invocations ever run ninja at once is that a third      *)
(* process removed a lock directory it had not made (_buildunlock does not  *)
(* look at HAS_BUILDLOCK).                                                  *)
THEOREM MutualExclusion == Spec => []MutexUnlessStolen
<1>1. Init => MutexInv
  <2>1. Init => TypeOK
    BY InitType DEF TypeInv
  <2> QED BY <2>1 DEF Init, MutexInv, NinjaHolds, InNinja, OneHolder, Holder
<1>2. TypeOK /\ MutexInv /\ TypeOK' /\ [Next]_vars => MutexInv'
  <2> SUFFICES ASSUME TypeOK, MutexInv, TypeOK', [Next]_vars PROVE MutexInv'
    OBVIOUS
  <2>1. CASE Next
    BY <2>1, NinjaHoldsStep, OneHolderStep DEF MutexInv
  <2>2. CASE UNCHANGED vars
    BY <2>2 DEF MutexInv, NinjaHolds, InNinja, OneHolder, Holder, vars
  <2> QED BY <2>1, <2>2
<1>3. MutexInv => MutexUnlessStolen
  BY DEF MutexInv, NinjaHolds, OneHolder, MutexUnlessStolen
<1> QED BY <1>1, <1>2, <1>3, TypeCorrect, PTL DEF Spec

-----------------------------------------------------------------------------
(* Why a compiler may miss a library.  A file of a target is accounted for  *)
(* if it is there, or an invocation of the target was disturbed, or one is  *)
(* about to make it; and once accounted for it stays so, although archives  *)
(* are removed before they are made again.                                  *)
Disturbed == {"failed", "killed", "int", "exit"}

Made(t, f) ==
  \/ f \in libdir[t]
  \/ \E q \in Proc : /\ TargetOf[q] = t
                     /\ pc[q] \in Disturbed \/ (pc[q] = "build" /\ f \in todo[q])

AllMade(t, s) == \A f \in Outputs(Block[s]) : Made(t, f)

RemoveThenMake ==
  \A p \in Proc : pc[p] = "build" /\ "rm" \in todo[p] => Marker(Block[step[p]]) \in todo[p]

RefusedWaited ==
  \A p \in Proc : has[p] = "no" \/ pc[p] = "wait" => waited[p]

UnlockLast ==
  \A p \in Proc : pc[p] \in {"unlock", "exec"} => step[p] > NBlocks

MarkerMeansAll ==
  \A t \in Target, s \in 1..NBlocks : Marker(Block[s]) \in libdir[t] => AllMade(t, s)

BuilderMakes ==
  \A p \in Proc : pc[p] \in {"build", "clean"} => AllMade(TargetOf[p], step[p])

PassedBlocks ==
  \A p \in Proc, s \in 1..NBlocks :
    s < step[p] /\ Wants(p, Block[s]) => waited[p] \/ AllMade(TargetOf[p], s)

MissingInv ==
  /\ RemoveThenMake /\ RefusedWaited /\ UnlockLast
  /\ MarkerMeansAll /\ BuilderMakes /\ PassedBlocks

LEMMA BlockFiles ==
  /\ \A s \in 1..NBlocks : Outputs(Block[s]) \subseteq File /\ Marker(Block[s]) \in Outputs(Block[s])
  /\ \A s, r \in 1..NBlocks : Marker(Block[s]) \in Outputs(Block[r]) => s = r
  /\ \A s \in 1..NBlocks : Marker(Block[s]) # "crt1.o" /\ Marker(Block[s]) # "objs"
                           /\ Marker(Block[s]) # "rm"
  /\ "objs" \notin File /\ "rm" \notin File
BY DEF NBlocks, Block, Outputs, Marker, File

LEMMA MissingInit == Init => MissingInv
<1> SUFFICES ASSUME Init PROVE MissingInv
  OBVIOUS
<1>1. RemoveThenMake /\ RefusedWaited /\ UnlockLast /\ BuilderMakes
  BY DEF Init, RemoveThenMake, RefusedWaited, UnlockLast, BuilderMakes
<1>2. PassedBlocks
  BY DEF Init, PassedBlocks, NBlocks
<1>3. MarkerMeansAll
  <2> SUFFICES ASSUME NEW t \in Target, NEW s \in 1..NBlocks, NEW f \in Outputs(Block[s]),
                      Marker(Block[s]) \in libdir[t]
               PROVE  f \in libdir[t]
    BY DEF MarkerMeansAll, AllMade, Made
  <2>1. libdir[t] = UNION {Outputs(l) : l \in Buildable}
    BY DEF Init
  <2>2. PICK l \in Buildable : Marker(Block[s]) \in Outputs(l)
    BY <2>1
  <2>3. PICK r \in 1..NBlocks : l = Block[r]
    BY <2>2, ConstantsAssumption DEF Lib, NBlocks, Block
  <2>4. Block[s] \in Buildable
    BY <2>2, <2>3, BlockFiles
  <2> QED
    BY <2>1, <2>4
<1> QED BY <1>1, <1>2, <1>3 DEF MissingInv

(* Being accounted for is not lost.                                         *)
LEMMA MadeStays ==
  ASSUME TypeInv, RemoveThenMake, NEW p \in Proc, Start(p) \/ Run(p) \/ Fault(p),
         NEW t \in Target, NEW f \in File, Made(t, f)
  PROVE  Made(t, f)'
<1> USE DEF TypeInv, TypeOK, Made, Disturbed
<1>1. CASE Start(p) \/ TestMissing(p) \/ TestSkip(p) \/ TestsOver(p)
  BY <1>1 DEF Start, TestMissing, TestSkip, TestsOver
<1>2. CASE LockRefused(p) \/ LockHeld(p) \/ LockMkdir(p) \/ LockBusy(p) \/ PollGone(p)
  BY <1>2 DEF LockRefused, LockHeld, LockMkdir, LockBusy, PollGone
<1>3. CASE NinjaStart(p) \/ NoSources(p) \/ NinjaDone(p) \/ Clean(p)
  BY <1>3 DEF NinjaStart, NoSources, NinjaDone, Clean
<1>4. CASE Compile(p)
  BY <1>4, BlockFiles DEF Compile
<1>5. CASE ArRemove(p)
  <2>1. Marker(Block[step[p]]) \in todo[p]
    BY <1>5 DEF ArRemove, RemoveThenMake
  <2> QED
    BY <1>5, <2>1, BlockFiles DEF ArRemove, StepInBlock
<1>6. CASE Archive(p)
  <2>1. CASE <<TargetOf[p], Block[step[p]]>> \in objs
    BY <1>6, <2>1 DEF Archive
  <2>2. CASE <<TargetOf[p], Block[step[p]]>> \notin objs
    BY <1>6, <2>2 DEF Archive
  <2> QED BY <2>1, <2>2
<1>7. CASE CompileCrt(p)
  BY <1>7 DEF CompileCrt
<1>8. CASE Unlock(p) \/ ExitTrap(p) \/ IntTrap(p) \/ Link(p)
  BY <1>8 DEF Unlock, ExitTrap, IntTrap, Buildunlock, Link
<1>9. CASE Fault(p)
  BY <1>9 DEF Fault, NinjaFail, Interrupt, Kill
<1> QED
  BY <1>1, <1>2, <1>3, <1>4, <1>5, <1>6, <1>7, <1>8, <1>9 DEF Run, Ninja

LEMMA AllMadeStays ==
  ASSUME TypeInv, RemoveThenMake, NEW p \in Proc, Start(p) \/ Run(p) \/ Fault(p),
         NEW t \in Target, NEW s \in 1..NBlocks, AllMade(t, s)
  PROVE  AllMade(t, s)'
BY MadeStays, BlockFiles DEF AllMade

(* What holds of the place and the memory of an invocation.                 *)
LEMMA PlaceStep ==
  ASSUME TypeInv, RemoveThenMake, RefusedWaited, UnlockLast,
         NEW p \in Proc, Start(p) \/ Run(p) \/ Fault(p)
  PROVE  (RemoveThenMake /\ RefusedWaited /\ UnlockLast)'
<1> USE DEF TypeInv, TypeOK, RemoveThenMake, RefusedWaited, UnlockLast
<1>1. CASE Start(p) \/ TestMissing(p) \/ TestSkip(p) \/ TestsOver(p)
  BY <1>1 DEF Start, TestMissing, TestSkip, TestsOver
<1>2. CASE LockRefused(p) \/ LockHeld(p) \/ LockMkdir(p) \/ LockBusy(p) \/ PollGone(p)
  BY <1>2 DEF LockRefused, LockHeld, LockMkdir, LockBusy, PollGone
<1>3. CASE NinjaStart(p)
  <2>1. "rm" \in todo'[p] => Marker(Block[step[p]]) \in todo'[p]
    <3>1. "rm" \notin Outputs(Block[step[p]])
      BY <1>3, BlockFiles DEF NinjaStart, StepInBlock
    <3> QED
      BY <1>3, <3>1 DEF NinjaStart
  <2> QED
    BY <1>3, <2>1 DEF NinjaStart
<1>4. CASE NoSources(p) \/ NinjaDone(p) \/ Clean(p)
  BY <1>4 DEF NoSources, NinjaDone, Clean
<1>5. CASE Compile(p) \/ ArRemove(p) \/ CompileCrt(p)
  <2>1. step[p] \in 1..NBlocks
    BY <1>5 DEF Compile, ArRemove, CompileCrt, StepInBlock
  <2> QED
    BY <1>5, <2>1, BlockFiles DEF Compile, ArRemove, CompileCrt
<1>6. CASE Archive(p)
  <2>1. CASE <<TargetOf[p], Block[step[p]]>> \in objs
    BY <1>6, <2>1 DEF Archive
  <2>2. CASE <<TargetOf[p], Block[step[p]]>> \notin objs
    BY <1>6, <2>2 DEF Archive
  <2> QED BY <2>1, <2>2
<1>7. CASE Unlock(p) \/ ExitTrap(p) \/ IntTrap(p) \/ Link(p)
  <2>1. pc[p] = "unlock" => step[p] > NBlocks
    OBVIOUS
  <2> QED
    BY <1>7, <2>1 DEF Unlock, ExitTrap, IntTrap, Buildunlock, Link
<1>8. CASE Fault(p)
  BY <1>8 DEF Fault, NinjaFail, Interrupt, Kill
<1> QED
  BY <1>1, <1>2, <1>3, <1>4, <1>5, <1>6, <1>7, <1>8 DEF Run, Ninja

(* The only markers that appear are those of finished archives.             *)
LEMMA NewMarker ==
  ASSUME TypeInv, NEW p \in Proc, Start(p) \/ Run(p) \/ Fault(p),
         NEW t \in Target, NEW s \in 1..NBlocks,
         Marker(Block[s]) \notin libdir[t], Marker(Block[s]) \in libdir'[t]
  PROVE  pc[p] = "build" /\ TargetOf[p] = t /\ step[p] = s
<1> USE DEF TypeInv, TypeOK
<1>1. CASE Ninja(p)
  <2>1. CASE Archive(p)
    <3>1. step[p] \in 1..NBlocks /\ pc[p] = "build"
      BY <2>1 DEF Archive, StepInBlock
    <3>2. Marker(Block[s]) = Marker(Block[step[p]]) /\ TargetOf[p] = t
      BY <2>1 DEF Archive
    <3> QED
      BY <3>1, <3>2, BlockFiles
  <2>2. CASE CompileCrt(p)
    BY <2>2, BlockFiles DEF CompileCrt
  <2> QED
    BY <1>1, <2>1, <2>2 DEF Ninja, NinjaStart, NoSources, Compile, ArRemove, NinjaDone
<1>2. CASE ~Ninja(p)
  BY <1>2 DEF Start, Run, Fault, TestMissing, TestSkip, TestsOver, LockRefused, LockHeld,
              LockMkdir, LockBusy, PollGone, Clean, Unlock, Link, ExitTrap, IntTrap,
              NinjaFail, Interrupt, Kill
<1> QED BY <1>1, <1>2

LEMMA MarkerStep ==
  ASSUME TypeInv, MissingInv, NEW p \in Proc, Start(p) \/ Run(p) \/ Fault(p)
  PROVE  MarkerMeansAll'
<1> SUFFICES ASSUME NEW t \in Target, NEW s \in 1..NBlocks, Marker(Block[s]) \in libdir'[t]
             PROVE  AllMade(t, s)'
  BY DEF MarkerMeansAll
<1>1. CASE Marker(Block[s]) \in libdir[t]
  BY <1>1, AllMadeStays DEF MissingInv, MarkerMeansAll
<1>2. CASE Marker(Block[s]) \notin libdir[t]
  <2>1. pc[p] = "build" /\ TargetOf[p] = t /\ step[p] = s
    BY <1>2, NewMarker
  <2> QED
    BY <2>1, AllMadeStays DEF MissingInv, BuilderMakes
<1> QED BY <1>1, <1>2

(* An invocation comes to build only by starting ninja.                     *)
LEMMA BuiltBefore ==
  ASSUME TypeInv, NEW p \in Proc, Start(p) \/ Run(p) \/ Fault(p),
         NEW q \in Proc, pc'[q] \in {"build", "clean"}, ~(NinjaStart(p) /\ q = p)
  PROVE  pc[q] \in {"build", "clean"} /\ step'[q] = step[q]
<1> USE DEF TypeInv, TypeOK
<1>1. CASE q = p
  <2>1. CASE Archive(p)
    BY <2>1, <1>1 DEF Archive
  <2>2. CASE ~Archive(p)
    BY <1>1, <2>2
       DEF Start, Run, Fault, TestMissing, TestSkip, TestsOver, LockRefused, LockHeld,
           LockMkdir, LockBusy, PollGone, Clean, Unlock, Link, ExitTrap, IntTrap,
           NinjaFail, Interrupt, Kill, Ninja, NoSources, Compile, ArRemove,
           CompileCrt, NinjaDone
  <2> QED BY <2>1, <2>2
<1>2. CASE q # p
  <2>1. CASE Archive(p)
    BY <2>1, <1>2 DEF Archive
  <2>2. CASE ~Archive(p)
    BY <1>2, <2>2
       DEF Start, Run, Fault, TestMissing, TestSkip, TestsOver, LockRefused, LockHeld,
           LockMkdir, LockBusy, PollGone, Clean, Unlock, Link, ExitTrap, IntTrap,
           NinjaFail, Interrupt, Kill, Ninja, NinjaStart, NoSources, Compile, ArRemove,
           CompileCrt, NinjaDone
  <2> QED BY <2>1, <2>2
<1> QED BY <1>1, <1>2

(* Ninja is told what there is not.                                         *)
LEMMA BuilderStep ==
  ASSUME TypeInv, MissingInv, NEW p \in Proc, Start(p) \/ Run(p) \/ Fault(p)
  PROVE  BuilderMakes'
<1> SUFFICES ASSUME NEW q \in Proc, pc'[q] \in {"build", "clean"}
             PROVE  AllMade(TargetOf[q], step[q])'
  BY DEF BuilderMakes
<1> USE DEF TypeInv, TypeOK
<1>1. CASE NinjaStart(p) /\ q = p
  <2>1. step'[q] = step[p] /\ step[p] \in 1..NBlocks /\ pc'[q] = "build"
    BY <1>1 DEF NinjaStart, StepInBlock
  <2>2. ASSUME NEW f \in Outputs(Block[step[p]]) PROVE Made(TargetOf[p], f)'
    BY <1>1, <2>1, <2>2, ConstantsAssumption DEF NinjaStart, Made
  <2> QED
    BY <1>1, <2>1, <2>2 DEF AllMade
<1>2. CASE ~(NinjaStart(p) /\ q = p)
  <2>1. pc[q] \in {"build", "clean"} /\ step'[q] = step[q]
    BY <1>2, BuiltBefore
  <2>2. step[q] \in 1..NBlocks /\ TargetOf[q] \in Target
    BY <2>1, ConstantsAssumption DEF StepInBlock
  <2>3. AllMade(TargetOf[q], step[q])
    BY <2>1 DEF MissingInv, BuilderMakes
  <2>4. PICK s \in 1..NBlocks : step[q] = s
    BY <2>2
  <2>5. AllMade(TargetOf[q], s)'
    BY <2>2, <2>3, <2>4, AllMadeStays DEF MissingInv
  <2> QED
    BY <2>1, <2>4, <2>5 DEF AllMade
<1> QED BY <1>1, <1>2

(* How an invocation comes past a block.                                    *)
LEMMA Passing ==
  ASSUME TypeInv, NEW p \in Proc, Start(p) \/ Run(p) \/ Fault(p), NEW q \in Proc
  PROVE  /\ waited[q] => waited'[q]
         /\ \/ step'[q] = step[q]
            \/ /\ step'[q] = step[q] + 1
               /\ \/ /\ pc[q] = "test"
                     /\ \/ ~Wants(q, Block[step[q]])
                        \/ Marker(Block[step[q]]) \in libdir[TargetOf[q]]
                  \/ has[q] = "no" \/ pc[q] \in {"wait", "clean"}
<1> USE DEF TypeInv, TypeOK
<1>1. CASE Start(p) \/ TestMissing(p) \/ TestSkip(p) \/ TestsOver(p)
  BY <1>1 DEF Start, TestMissing, TestSkip, TestsOver
<1>2. CASE LockRefused(p) \/ LockHeld(p) \/ LockMkdir(p) \/ LockBusy(p) \/ PollGone(p)
  BY <1>2 DEF LockRefused, LockHeld, LockMkdir, LockBusy, PollGone
<1>3. CASE Ninja(p)
  BY <1>3 DEF Ninja, NinjaStart, NoSources, Compile, ArRemove, Archive, CompileCrt, NinjaDone
<1>4. CASE Clean(p) \/ Unlock(p) \/ ExitTrap(p) \/ IntTrap(p) \/ Link(p)
  BY <1>4 DEF Clean, Unlock, ExitTrap, IntTrap, Buildunlock, Link
<1>5. CASE Fault(p)
  BY <1>5 DEF Fault, NinjaFail, Interrupt, Kill
<1> QED
  BY <1>1, <1>2, <1>3, <1>4, <1>5 DEF Run

LEMMA PassedStep ==
  ASSUME TypeInv, MissingInv, NEW p \in Proc, Start(p) \/ Run(p) \/ Fault(p)
  PROVE  PassedBlocks'
<1> SUFFICES ASSUME NEW q \in Proc, NEW s \in 1..NBlocks,
                    s < step'[q], Wants(q, Block[s]), ~waited'[q]
             PROVE  AllMade(TargetOf[q], s)'
  BY DEF PassedBlocks, Wants
<1>1. TargetOf[q] \in Target /\ step[q] \in 1..(NBlocks + 1) /\ ~waited[q]
  BY Passing, ConstantsAssumption DEF TypeInv, TypeOK
<1>2. CASE s < step[q]
  BY <1>1, <1>2, AllMadeStays DEF MissingInv, PassedBlocks
<1>3. CASE ~(s < step[q])
  <2>1. /\ step[q] = s
        /\ \/ pc[q] = "test" /\ Marker(Block[s]) \in libdir[TargetOf[q]]
           \/ has[q] = "no" \/ pc[q] \in {"wait", "clean"}
    BY <1>1, <1>3, Passing DEF NBlocks
  <2>2. pc[q] = "clean" \/ Marker(Block[s]) \in libdir[TargetOf[q]]
    BY <1>1, <2>1 DEF MissingInv, RefusedWaited
  <2>3. AllMade(TargetOf[q], s)
    BY <1>1, <2>1, <2>2 DEF MissingInv, BuilderMakes, MarkerMeansAll
  <2> QED
    BY <1>1, <2>3, AllMadeStays DEF MissingInv
<1> QED BY <1>2, <1>3

LEMMA MissingStep == (TypeInv /\ MissingInv) /\ [Next]_vars => (TypeInv /\ MissingInv)'
<1> SUFFICES ASSUME TypeInv, MissingInv, [Next]_vars PROVE TypeInv' /\ MissingInv'
  OBVIOUS
<1>1. TypeInv'
  BY TypeStart, TypeTest, TypeLock, TypeNinja, TypeEnd, TypeStutter DEF Next, Run, Fault, Ninja
<1>2. CASE Next
  <2> PICK p \in Proc : Start(p) \/ Run(p) \/ Fault(p)
    BY <1>2 DEF Next
  <2>1. (RemoveThenMake /\ RefusedWaited /\ UnlockLast)'
    BY PlaceStep DEF MissingInv
  <2> QED
    BY <1>1, <2>1, MarkerStep, BuilderStep, PassedStep DEF MissingInv
<1>3. CASE UNCHANGED vars
  BY <1>1, <1>3 DEF vars, MissingInv, RemoveThenMake, RefusedWaited, UnlockLast, MarkerMeansAll,
                    BuilderMakes, PassedBlocks, AllMade, Made, Wants
<1> QED BY <1>2, <1>3

(* However many invocations share targets and lock, and whatever happens to *)
(* them: a compiler that misses a library has waited, or a build of the     *)
(* target was disturbed, or one is under way.                               *)
THEOREM MissingAlwaysExplained == Spec => []MissingLibExplained
<1>1. TypeInv /\ MissingInv => MissingLibExplained
  <2> SUFFICES ASSUME TypeInv, MissingInv, NEW p \in Proc, pc[p] = "exec", ~waited[p],
                      NEW f \in Needed(p), f \notin libdir[TargetOf[p]]
               PROVE  \E q \in Proc : /\ TargetOf[q] = TargetOf[p]
                                      /\ pc[q] \in {"failed", "killed", "int", "exit"} \/ InNinja(q)
    BY DEF MissingLibExplained
  <2>1. PICK s \in 1..NBlocks : Wants(p, Block[s]) /\ f \in Outputs(Block[s]) /\ s \in 1..2
    BY DEF Needed, TargetLibs, Wants, Outputs, Marker, NBlocks, Block
  <2>2. s < step[p]
    BY <2>1 DEF MissingInv, UnlockLast, NBlocks, TypeInv, TypeOK
  <2>3. Made(TargetOf[p], f)
    BY <2>1, <2>2 DEF MissingInv, PassedBlocks, AllMade
  <2> QED
    BY <2>3 DEF Made, Disturbed, InNinja
<1> QED BY <1>1, InitType, MissingInit, MissingStep, PTL DEF Spec

-----------------------------------------------------------------------------
Untroubled == ints = 0 /\ kills = 0 /\ fails = 0 /\ ~stolen

(* A file is there or will be: stronger than Made, which excuses a file by  *)
(* any invocation that failed.                                              *)
Coming(t, f) ==
  \/ f \in libdir[t]
  \/ \E q \in Proc : TargetOf[q] = t /\ pc[q] = "build" /\ f \in todo[q]

AllComing(t, s) == \A f \in Outputs(Block[s]) : Coming(t, f)

(* One ninja at a time finds its objects.                                   *)
ObjsThere ==
  \A p \in Proc :
    pc[p] = "build" /\ "objs" \notin todo[p] => <<TargetOf[p], Block[step[p]]>> \in objs

MarkerBringsAll ==
  \A t \in Target, s \in 1..NBlocks : Marker(Block[s]) \in libdir[t] => AllComing(t, s)

BuilderBrings ==
  \A p \in Proc : pc[p] \in {"build", "clean"} => AllComing(TargetOf[p], step[p])

PassedBrings ==
  \A p \in Proc, s \in 1..NBlocks :
    s < step[p] /\ Wants(p, Block[s]) => waited[p] \/ AllComing(TargetOf[p], s)

LinkLast ==
  \A p \in Proc : pc[p] \in {"unlock", "exec", "linked", "nolink"} => step[p] > NBlocks

Brings == ObjsThere /\ MarkerBringsAll /\ BuilderBrings /\ PassedBrings

SettledInv ==
  /\ TypeInv /\ MissingInv /\ LinkLast
  /\ Untroubled => Brings

-----------------------------------------------------------------------------
LEMMA SettledInit == Init => SettledInv
<1> SUFFICES ASSUME Init PROVE SettledInv
  OBVIOUS
<1>1. TypeInv /\ MissingInv
  BY InitType, MissingInit
<1>2. LinkLast /\ ObjsThere /\ BuilderBrings
  BY DEF Init, LinkLast, ObjsThere, BuilderBrings
<1>3. PassedBrings
  BY DEF Init, PassedBrings, NBlocks
<1>4. MarkerBringsAll
  <2> SUFFICES ASSUME NEW t \in Target, NEW s \in 1..NBlocks, NEW f \in Outputs(Block[s]),
                      Marker(Block[s]) \in libdir[t]
               PROVE  f \in libdir[t]
    BY DEF MarkerBringsAll, AllComing, Coming
  <2>1. Made(t, f)
    BY <1>1 DEF MissingInv, MarkerMeansAll, AllMade
  <2> QED
    BY <2>1 DEF Init, Made, Disturbed
<1> QED BY <1>1, <1>2, <1>3, <1>4 DEF SettledInv, Brings

(* Once troubled, always troubled.                                          *)
LEMMA UntroubledBefore ==
  ASSUME TypeOK, NEW p \in Proc, Start(p) \/ Run(p) \/ Fault(p), Untroubled'
  PROVE  Untroubled /\ ~Fault(p)
<1> USE DEF TypeOK, Untroubled
<1>1. CASE Start(p) \/ TestMissing(p) \/ TestSkip(p) \/ TestsOver(p)
  BY <1>1 DEF Start, TestMissing, TestSkip, TestsOver, Fault, NinjaFail, Interrupt, Kill
<1>2. CASE LockRefused(p) \/ LockHeld(p) \/ LockMkdir(p) \/ LockBusy(p) \/ PollGone(p)
  BY <1>2 DEF LockRefused, LockHeld, LockMkdir, LockBusy, PollGone,
              Fault, NinjaFail, Interrupt, Kill
<1>3. CASE Ninja(p)
  BY <1>3 DEF Ninja, NinjaStart, NoSources, Compile, ArRemove, Archive, CompileCrt, NinjaDone,
              Fault, NinjaFail, Interrupt, Kill
<1>4. CASE Clean(p) \/ Unlock(p) \/ ExitTrap(p) \/ IntTrap(p) \/ Link(p)
  BY <1>4 DEF Clean, Unlock, ExitTrap, IntTrap, Buildunlock, Link,
              Fault, NinjaFail, Interrupt, Kill
<1>5. CASE Fault(p)
  BY <1>5 DEF Fault, NinjaFail, Interrupt, Kill
<1> QED BY <1>1, <1>2, <1>3, <1>4, <1>5 DEF Run

LEMMA LinkLastStep ==
  ASSUME TypeInv, LinkLast, NEW p \in Proc, Start(p) \/ Run(p) \/ Fault(p)
  PROVE  LinkLast'
<1> USE DEF TypeInv, TypeOK, LinkLast
<1>1. CASE Start(p) \/ TestMissing(p) \/ TestSkip(p) \/ TestsOver(p)
  BY <1>1 DEF Start, TestMissing, TestSkip, TestsOver
<1>2. CASE LockRefused(p) \/ LockHeld(p) \/ LockMkdir(p) \/ LockBusy(p) \/ PollGone(p)
  BY <1>2 DEF LockRefused, LockHeld, LockMkdir, LockBusy, PollGone
<1>3. CASE Ninja(p)
  BY <1>3 DEF Ninja, NinjaStart, NoSources, Compile, ArRemove, Archive, CompileCrt, NinjaDone
<1>4. CASE Clean(p) \/ Unlock(p) \/ ExitTrap(p) \/ IntTrap(p) \/ Link(p)
  BY <1>4 DEF Clean, Unlock, ExitTrap, IntTrap, Buildunlock, Link
<1>5. CASE Fault(p)
  BY <1>5 DEF Fault, NinjaFail, Interrupt, Kill
<1> QED BY <1>1, <1>2, <1>3, <1>4, <1>5 DEF Run

LEMMA ObjsStep ==
  ASSUME TypeInv, MutexUnlessStolen, Untroubled, ObjsThere,
         NEW p \in Proc, Start(p) \/ Run(p)
  PROVE  ObjsThere'
<1> USE DEF TypeInv, TypeOK, ObjsThere
<1>1. CASE Start(p) \/ TestMissing(p) \/ TestSkip(p) \/ TestsOver(p)
  BY <1>1 DEF Start, TestMissing, TestSkip, TestsOver
<1>2. CASE LockRefused(p) \/ LockHeld(p) \/ LockMkdir(p) \/ LockBusy(p) \/ PollGone(p)
  BY <1>2 DEF LockRefused, LockHeld, LockMkdir, LockBusy, PollGone
<1>3. CASE NinjaStart(p) \/ NoSources(p) \/ NinjaDone(p)
  BY <1>3 DEF NinjaStart, NoSources, NinjaDone
<1>4. CASE Compile(p) \/ ArRemove(p)
  BY <1>4 DEF Compile, ArRemove
<1>5. CASE Archive(p) \/ CompileCrt(p)
  BY <1>5, BlockFiles DEF Archive, CompileCrt, StepInBlock
<1>6. CASE Clean(p)
  <2>1. \A q \in Proc : pc'[q] = "build" => q # p /\ pc[q] = "build"
    BY <1>6 DEF Clean
  <2>2. \A q \in Proc : pc[q] # "build"
    BY <1>6 DEF Clean, MutexUnlessStolen, InNinja, Untroubled
  <2> QED BY <2>1, <2>2
<1>7. CASE Unlock(p) \/ ExitTrap(p) \/ IntTrap(p) \/ Link(p)
  BY <1>7 DEF Unlock, ExitTrap, IntTrap, Buildunlock, Link
<1> QED
  BY <1>1, <1>2, <1>3, <1>4, <1>5, <1>6, <1>7 DEF Run, Ninja

(* What is to come is not lost: an archive is removed only by who has it to *)
(* make again.                                                              *)
LEMMA ComingStays ==
  ASSUME TypeInv, RemoveThenMake, ObjsThere, NEW p \in Proc, Start(p) \/ Run(p),
         NEW t \in Target, NEW f \in File, Coming(t, f)
  PROVE  Coming(t, f)'
<1> USE DEF TypeInv, TypeOK, Coming
<1>1. CASE Start(p) \/ TestMissing(p) \/ TestSkip(p) \/ TestsOver(p)
  BY <1>1 DEF Start, TestMissing, TestSkip, TestsOver
<1>2. CASE LockRefused(p) \/ LockHeld(p) \/ LockMkdir(p) \/ LockBusy(p) \/ PollGone(p)
  BY <1>2 DEF LockRefused, LockHeld, LockMkdir, LockBusy, PollGone
<1>3. CASE NinjaStart(p) \/ NoSources(p) \/ NinjaDone(p) \/ Clean(p)
  BY <1>3 DEF NinjaStart, NoSources, NinjaDone, Clean
<1>4. CASE Compile(p)
  BY <1>4, BlockFiles DEF Compile
<1>5. CASE ArRemove(p)
  <2>1. Marker(Block[step[p]]) \in todo[p]
    BY <1>5 DEF ArRemove, RemoveThenMake
  <2> QED
    BY <1>5, <2>1, BlockFiles DEF ArRemove, StepInBlock
<1>6. CASE Archive(p)
  BY <1>6 DEF Archive, ObjsThere
<1>7. CASE CompileCrt(p)
  BY <1>7 DEF CompileCrt
<1>8. CASE Unlock(p) \/ ExitTrap(p) \/ IntTrap(p) \/ Link(p)
  BY <1>8 DEF Unlock, ExitTrap, IntTrap, Buildunlock, Link
<1> QED
  BY <1>1, <1>2, <1>3, <1>4, <1>5, <1>6, <1>7, <1>8 DEF Run, Ninja

LEMMA AllComingStays ==
  ASSUME TypeInv, RemoveThenMake, ObjsThere, NEW p \in Proc, Start(p) \/ Run(p),
         NEW t \in Target, NEW s \in 1..NBlocks, AllComing(t, s)
  PROVE  AllComing(t, s)'
BY ComingStays, BlockFiles DEF AllComing

LEMMA MarkerBrings ==
  ASSUME TypeInv, RemoveThenMake, Brings, NEW p \in Proc, Start(p) \/ Run(p)
  PROVE  MarkerBringsAll'
<1> SUFFICES ASSUME NEW t \in Target, NEW s \in 1..NBlocks, Marker(Block[s]) \in libdir'[t]
             PROVE  AllComing(t, s)'
  BY DEF MarkerBringsAll
<1>1. CASE Marker(Block[s]) \in libdir[t]
  BY <1>1, AllComingStays DEF Brings, MarkerBringsAll
<1>2. CASE Marker(Block[s]) \notin libdir[t]
  <2>1. pc[p] = "build" /\ TargetOf[p] = t /\ step[p] = s
    BY <1>2, NewMarker
  <2> QED
    BY <2>1, AllComingStays DEF Brings, BuilderBrings
<1> QED BY <1>1, <1>2

LEMMA BuilderBringsStep ==
  ASSUME TypeInv, RemoveThenMake, Brings, NEW p \in Proc, Start(p) \/ Run(p)
  PROVE  BuilderBrings'
<1> SUFFICES ASSUME NEW q \in Proc, pc'[q] \in {"build", "clean"}
             PROVE  AllComing(TargetOf[q], step[q])'
  BY DEF BuilderBrings
<1>1. CASE NinjaStart(p) /\ q = p
  <2>1. step'[q] = step[p] /\ step[p] \in 1..NBlocks /\ pc'[q] = "build"
    BY <1>1 DEF NinjaStart, TypeInv, TypeOK, StepInBlock
  <2>2. ASSUME NEW f \in Outputs(Block[step[p]]) PROVE Coming(TargetOf[p], f)'
    BY <1>1, <2>1, <2>2, ConstantsAssumption DEF NinjaStart, Coming, TypeInv, TypeOK
  <2> QED
    BY <1>1, <2>1, <2>2 DEF AllComing
<1>2. CASE ~(NinjaStart(p) /\ q = p)
  <2>1. pc[q] \in {"build", "clean"} /\ step'[q] = step[q]
    BY <1>2, BuiltBefore
  <2>2. step[q] \in 1..NBlocks /\ TargetOf[q] \in Target
    BY <2>1, ConstantsAssumption DEF TypeInv, StepInBlock
  <2>3. PICK s \in 1..NBlocks : step[q] = s
    BY <2>2
  <2>4. AllComing(TargetOf[q], s)'
    BY <2>1, <2>2, <2>3, AllComingStays DEF Brings, BuilderBrings
  <2> QED
    BY <2>1, <2>3, <2>4 DEF AllComing
<1> QED BY <1>1, <1>2

LEMMA PassedBringsStep ==
  ASSUME TypeInv, MissingInv, Brings, NEW p \in Proc, Start(p) \/ Run(p)
  PROVE  PassedBrings'
<1> SUFFICES ASSUME NEW q \in Proc, NEW s \in 1..NBlocks,
                    s < step'[q], Wants(q, Block[s]), ~waited'[q]
             PROVE  AllComing(TargetOf[q], s)'
  BY DEF PassedBrings, Wants
<1>1. TargetOf[q] \in Target /\ step[q] \in 1..(NBlocks + 1) /\ ~waited[q]
  BY Passing, ConstantsAssumption DEF TypeInv, TypeOK
<1>2. AllComing(TargetOf[q], s)
  <2>1. CASE s < step[q]
    BY <1>1, <2>1 DEF Brings, PassedBrings
  <2>2. CASE ~(s < step[q])
    <3>1. /\ step[q] = s
          /\ \/ pc[q] = "test" /\ Marker(Block[s]) \in libdir[TargetOf[q]]
             \/ has[q] = "no" \/ pc[q] \in {"wait", "clean"}
      BY <1>1, <2>2, Passing DEF NBlocks
    <3>2. pc[q] = "clean" \/ Marker(Block[s]) \in libdir[TargetOf[q]]
      BY <1>1, <3>1 DEF MissingInv, RefusedWaited
    <3> QED
      BY <1>1, <3>1, <3>2 DEF Brings, BuilderBrings, MarkerBringsAll
  <2> QED BY <2>1, <2>2
<1> QED BY <1>1, <1>2, AllComingStays DEF MissingInv, Brings

LEMMA SettledStep == SettledInv /\ MutexUnlessStolen /\ [Next]_vars => SettledInv'
<1> SUFFICES ASSUME SettledInv, MutexUnlessStolen, [Next]_vars PROVE SettledInv'
  OBVIOUS
<1>1. TypeInv' /\ MissingInv'
  BY MissingStep DEF SettledInv
<1>2. CASE Next
  <2> PICK p \in Proc : Start(p) \/ Run(p) \/ Fault(p)
    BY <1>2 DEF Next
  <2>1. LinkLast'
    BY LinkLastStep DEF SettledInv
  <2>2. ASSUME Untroubled' PROVE Brings'
    <3>1. Untroubled /\ Brings /\ (Start(p) \/ Run(p))
      BY <2>2, UntroubledBefore DEF SettledInv, TypeInv
    <3>2. ObjsThere'
      BY <3>1, ObjsStep DEF SettledInv, Brings
    <3> QED
      BY <3>1, <3>2, MarkerBrings, BuilderBringsStep, PassedBringsStep
         DEF SettledInv, Brings, MissingInv
  <2> QED
    BY <1>1, <2>1, <2>2 DEF SettledInv
<1>3. CASE UNCHANGED vars
  BY <1>1, <1>3 DEF vars, SettledInv, LinkLast, Untroubled, Brings, ObjsThere, MarkerBringsAll,
                    BuilderBrings, PassedBrings, AllComing, Coming, Wants
<1> QED BY <1>2, <1>3

(* However many invocations built at once, and however often they removed   *)
(* an archive and made it again: when all have ended, undisturbed and each  *)
(* with its own lock, the targets of those that did not wait are complete.  *)
THEOREM SettledAlwaysComplete == Spec => []SettledComplete
<1>1. SettledInv => SettledComplete
  <2> SUFFICES ASSUME SettledInv, \A q \in Proc : pc[q] \in {"idle"} \cup Over, Untroubled,
                      NEW p \in Proc, pc[p] \in {"linked", "nolink"}, ~waited[p],
                      NEW f \in Needed(p)
               PROVE  f \in libdir[TargetOf[p]]
    BY DEF SettledComplete, Untroubled
  <2>1. PICK s \in 1..NBlocks : Wants(p, Block[s]) /\ f \in Outputs(Block[s])
    BY DEF Needed, TargetLibs, Wants, Outputs, Marker, NBlocks, Block
  <2>2. s < step[p]
    BY <2>1 DEF SettledInv, LinkLast, NBlocks, TypeInv, TypeOK
  <2>3. Coming(TargetOf[p], f)
    BY <2>1, <2>2 DEF SettledInv, Brings, PassedBrings, AllComing
  <2> QED
    BY <2>3 DEF Coming, Over
<1> QED
  BY <1>1, SettledInit, SettledStep, MutualExclusion, PTL DEF Spec

-----------------------------------------------------------------------------
(* One invocation at a time, no faults, and the sources of every library    *)
(* that an invocation may have to build are installed.                      *)
Undisturbed ==
  /\ IsFiniteSet(Proc) /\ MaxLive = 1
  /\ MaxInt = 0 /\ MaxKill = 0 /\ MaxFail = 0
  /\ \A p \in Proc, s \in 1..NBlocks : Wants(p, Block[s]) => Block[s] \in Buildable

Solo == \A p, q \in Running : p = q

Smooth ==
  \A p \in Proc : pc[p] \notin Disturbed \cup {"wait"} /\ has[p] # "no" /\ ~waited[p]

WantsIt == \A p \in Proc : pc[p] \in {"lock", "ninja"} => Wants(p, Block[step[p]])

(* What is removed before it is made again is not there to begin with: the  *)
(* test saw it absent, and nobody else can have made it since.              *)
Absent ==
  \A p \in Proc :
    pc[p] \in {"lock", "ninja"} \/ (pc[p] = "build" /\ "rm" \in todo[p]) =>
      Marker(Block[step[p]]) \notin libdir[TargetOf[p]]

AloneInv == Solo /\ Smooth /\ WantsIt /\ Absent /\ ObjsThere

PromiseInv == TypeInv /\ LockInv /\ MissingInv /\ AloneInv

-----------------------------------------------------------------------------
LEMMA AloneInit == Init => AloneInv
BY DEF Init, AloneInv, Solo, Running, Smooth, WantsIt, Absent, ObjsThere, Live, Script, Disturbed

(* Without faults and with one invocation these cannot be taken.            *)
LEMMA NoFault ==
  ASSUME Undisturbed, TypeOK, NEW p \in Proc, Fault(p)
  PROVE  FALSE
BY DEF Undisturbed, TypeOK, Fault, NinjaFail, Interrupt, Kill

LEMMA NoDetour ==
  ASSUME Undisturbed, PromiseInv, NEW p \in Proc,
         \/ LockRefused(p) \/ LockBusy(p) \/ PollGone(p) \/ NoSources(p)
         \/ ExitTrap(p) \/ IntTrap(p)
  PROVE  FALSE
<1>1. CASE LockBusy(p)
  <2>1. PICK q \in Proc : Holder(q)
    BY <1>1 DEF PromiseInv, LockInv, LockBusy
  <2>2. q \in Running /\ p \in Running
    BY <1>1, <2>1 DEF PromiseInv, LockInv, HolderPlace, LockBusy, AloneInv, Smooth, Disturbed,
                      Running, Live, Script
  <2> QED
    BY <1>1, <2>1, <2>2 DEF LockBusy, PromiseInv, AloneInv, Solo, Holder
<1>2. CASE NoSources(p)
  BY <1>2 DEF NoSources, PromiseInv, TypeInv, StepInBlock, AloneInv, WantsIt, Undisturbed
<1>3. CASE LockRefused(p) \/ PollGone(p) \/ ExitTrap(p) \/ IntTrap(p)
  BY <1>3 DEF LockRefused, PollGone, ExitTrap, IntTrap, PromiseInv, AloneInv, Smooth, Disturbed
<1> QED BY <1>1, <1>2, <1>3

(* Who starts is alone.                                                     *)
LEMMA StartsAlone ==
  ASSUME Undisturbed, NEW p \in Proc, Start(p)
  PROVE  Running = {}
<1>1. IsFiniteSet(Running)
  BY FS_Subset DEF Undisturbed, Running
<1>2. Cardinality(Running) = 0
  BY <1>1, FS_CardinalityType DEF Start, Undisturbed
<1> QED BY <1>1, <1>2, FS_EmptySet

(* The steps that are left, by what they do.                                *)
Quiet(p) == TestMissing(p) \/ TestSkip(p) \/ TestsOver(p) \/ LockHeld(p) \/ LockMkdir(p)
Builds(p) == NinjaStart(p) \/ Compile(p) \/ ArRemove(p) \/ Archive(p) \/ CompileCrt(p) \/ NinjaDone(p)
Leaves(p) == Clean(p) \/ Unlock(p) \/ Link(p)

LEMMA StepsLeft ==
  ASSUME Undisturbed, PromiseInv, NEW p \in Proc, Start(p) \/ Run(p) \/ Fault(p)
  PROVE  Start(p) \/ Quiet(p) \/ Builds(p) \/ Leaves(p)
BY NoFault, NoDetour DEF Run, Ninja, Quiet, Builds, Leaves, PromiseInv, TypeInv

(* ar does find the objects.                                                *)
LEMMA ArchiveMakes ==
  ASSUME PromiseInv, NEW p \in Proc, Archive(p)
  PROVE  /\ pc[p] = "build" /\ UNCHANGED <<pc, objs>>
         /\ libdir' = [libdir EXCEPT ![TargetOf[p]] = @ \cup {Marker(Block[step[p]])}]
         /\ todo' = [todo EXCEPT ![p] = @ \ {Marker(Block[step[p]])}]
         /\ UNCHANGED <<step, has, lock, waited>>
         /\ {"objs", "rm"} \cap todo[p] = {}
<1>1. <<TargetOf[p], Block[step[p]]>> \in objs
  BY DEF Archive, PromiseInv, AloneInv, ObjsThere
<1> QED
  BY <1>1 DEF Archive

-----------------------------------------------------------------------------
LEMMA SoloStep ==
  ASSUME Undisturbed, PromiseInv, NEW p \in Proc, Start(p) \/ Run(p) \/ Fault(p)
  PROVE  Solo' /\ (~Start(p) => p \in Running)
<1> USE DEF PromiseInv, TypeInv, TypeOK, AloneInv, Solo, Running, Live, Script
<1>1. CASE Start(p)
  BY <1>1, StartsAlone DEF Start
<1>2. CASE Quiet(p)
  BY <1>2 DEF Quiet, TestMissing, TestSkip, TestsOver, LockHeld, LockMkdir
<1>3. CASE Builds(p)
  <2>1. CASE Archive(p)
    BY <2>1, ArchiveMakes
  <2> QED
    BY <1>3, <2>1 DEF Builds, NinjaStart, Compile, ArRemove, CompileCrt, NinjaDone
<1>4. CASE Leaves(p)
  BY <1>4 DEF Leaves, Clean, Unlock, Buildunlock, Link
<1> QED BY <1>1, <1>2, <1>3, <1>4, StepsLeft

LEMMA SmoothStep ==
  ASSUME Undisturbed, PromiseInv, NEW p \in Proc, Start(p) \/ Run(p) \/ Fault(p)
  PROVE  Smooth' /\ WantsIt'
<1> USE DEF PromiseInv, TypeInv, TypeOK, StepInBlock, AloneInv, Smooth, WantsIt, Disturbed, Wants
<1>1. CASE Start(p)
  BY <1>1 DEF Start
<1>2. CASE Quiet(p)
  BY <1>2 DEF Quiet, TestMissing, TestSkip, TestsOver, LockHeld, LockMkdir
<1>3. CASE Builds(p)
  <2>1. CASE Archive(p)
    BY <2>1, ArchiveMakes
  <2> QED
    BY <1>3, <2>1 DEF Builds, NinjaStart, Compile, ArRemove, CompileCrt, NinjaDone
<1>4. CASE Leaves(p)
  BY <1>4 DEF Leaves, Clean, Unlock, Buildunlock, Link
<1> QED BY <1>1, <1>2, <1>3, <1>4, StepsLeft

(* Whoever else there is, is not in the script.                             *)
LEMMA OthersOut ==
  ASSUME Undisturbed, PromiseInv, TypeOK', NEW p \in Proc, Start(p) \/ Run(p) \/ Fault(p),
         NEW q \in Proc, q # p
  PROVE  pc'[q] = pc[q] /\ q \notin Running
<1> USE DEF PromiseInv, TypeInv, TypeOK, AloneInv, Solo
<1>1. CASE Start(p)
  BY <1>1, StartsAlone DEF Start
<1>2. CASE ~Start(p)
  <2>1. q \notin Running
    BY <1>2, SoloStep
  <2>2. CASE Quiet(p)
    BY <2>1, <2>2 DEF Quiet, TestMissing, TestSkip, TestsOver, LockHeld, LockMkdir
  <2>3. CASE Builds(p)
    BY <2>1, <2>3, ArchiveMakes DEF Builds, NinjaStart, Compile, ArRemove, CompileCrt, NinjaDone
  <2>4. CASE Leaves(p)
    BY <2>1, <2>4 DEF Leaves, Clean, Unlock, Link
  <2> QED BY <1>2, <2>2, <2>3, <2>4, StepsLeft
<1> QED BY <1>1, <1>2

LEMMA FilesStep ==
  ASSUME Undisturbed, PromiseInv, TypeOK', NEW p \in Proc, Start(p) \/ Run(p) \/ Fault(p)
  PROVE  Absent' /\ ObjsThere'
<1>1. ASSUME NEW q \in Proc, q # p PROVE pc'[q] \notin {"lock", "ninja", "build"}
  BY <1>1, OthersOut DEF Running, Live, Script
<1> DEFINE AbsentAt ==
      pc[p] \in {"lock", "ninja"} \/ (pc[p] = "build" /\ "rm" \in todo[p]) =>
        Marker(Block[step[p]]) \notin libdir[TargetOf[p]]
<1> DEFINE ObjsAt ==
      pc[p] = "build" /\ "objs" \notin todo[p] => <<TargetOf[p], Block[step[p]]>> \in objs
<1>2. AbsentAt /\ ObjsAt
  BY DEF PromiseInv, AloneInv, Absent, ObjsThere
<1>3. AbsentAt' /\ ObjsAt'
  <2> USE <1>2 DEF PromiseInv, TypeInv, TypeOK, StepInBlock
  <2>1. CASE Start(p)
    BY <2>1 DEF Start
  <2>2. CASE Quiet(p)
    BY <2>2 DEF Quiet, TestMissing, TestSkip, TestsOver, LockHeld, LockMkdir
  <2>3. CASE NinjaStart(p)
    BY <2>3 DEF NinjaStart
  <2>4. CASE Compile(p)
    BY <2>4 DEF Compile
  <2>5. CASE ArRemove(p)
    BY <2>5 DEF ArRemove
  <2>6. CASE Archive(p)
    BY <2>6, ArchiveMakes, BlockFiles
  <2>7. CASE CompileCrt(p)
    BY <2>7, BlockFiles DEF CompileCrt
  <2>8. CASE NinjaDone(p) \/ Leaves(p)
    BY <2>8 DEF NinjaDone, Leaves, Clean, Unlock, Link
  <2> QED
    BY <2>1, <2>2, <2>3, <2>4, <2>5, <2>6, <2>7, <2>8, StepsLeft DEF Builds
<1> QED
  BY <1>1, <1>3 DEF Absent, ObjsThere

LEMMA PromiseInvStep == Undisturbed /\ PromiseInv /\ [Next]_vars => PromiseInv'
<1> SUFFICES ASSUME Undisturbed, PromiseInv, [Next]_vars PROVE PromiseInv'
  OBVIOUS
<1>1. TypeInv' /\ MissingInv'
  BY MissingStep DEF PromiseInv
<1>2. LockInv'
  BY <1>1, LockStep DEF PromiseInv, TypeInv
<1>3. CASE Next
  <2> PICK p \in Proc : Start(p) \/ Run(p) \/ Fault(p)
    BY <1>3 DEF Next
  <2> QED
    BY <1>1, <1>2, SoloStep, SmoothStep, FilesStep DEF PromiseInv, AloneInv, TypeInv
<1>4. CASE UNCHANGED vars
  BY <1>1, <1>2, <1>4 DEF vars, PromiseInv, AloneInv, Solo, Running, Smooth, WantsIt, Wants,
                          Absent, ObjsThere
<1> QED BY <1>3, <1>4

-----------------------------------------------------------------------------
(* The refinement mapping.                                                  *)
LEMMA Phases ==
  /\ \A place \in Live : PhaseAt(place) = "preparing"
  /\ PhaseAt("exec") = "running"
  /\ \A place \in Over : PhaseAt(place) = "over"
  /\ PhaseAt("idle") = "idle"
BY DEF PhaseAt, Live, Script, Over

(* Other invocations keep their phase.                                      *)
LEMMA PhaseStep ==
  ASSUME NEW p \in Proc, TypeOK, NEW v, pc' = [pc EXCEPT ![p] = v]
  PROVE  Phase' = [Phase EXCEPT ![p] = PhaseAt(v)]
BY DEF Phase, TypeOK

LEMMA SamePhase ==
  ASSUME NEW p \in Proc, TypeOK, NEW v, pc' = [pc EXCEPT ![p] = v], PhaseAt(v) = Phase[p]
  PROVE  Phase' = Phase
BY DEF Phase, TypeOK

(* Files that come to one directory complete its target at most.            *)
LEMMA FilesAdded ==
  ASSUME TypeOK, NEW t \in Target, NEW f, libdir' = [libdir EXCEPT ![t] = @ \cup {f}]
  PROVE  CompleteTargets' \in {CompleteTargets, CompleteTargets \cup {t}}
<1>1. \A u \in Target \ {t} : libdir'[u] = libdir[u]
  BY DEF TypeOK
<1>2. libdir[t] \subseteq libdir'[t]
  BY DEF TypeOK
<1> QED
  BY <1>1, <1>2 DEF CompleteTargets

(* Who comes to the end of the script has passed every block, and none of   *)
(* what the blocks make is still to be made.                                *)
LEMMA AtTheEnd ==
  ASSUME PromiseInv, NEW p \in Proc, pc[p] = "unlock"
  PROVE  TargetOf[p] \in CompleteTargets
<1> SUFFICES ASSUME NEW f \in TargetLibs(TargetOf[p]) PROVE f \in libdir[TargetOf[p]]
  BY ConstantsAssumption DEF CompleteTargets
<1>1. PICK s \in 1..NBlocks : Wants(p, Block[s]) /\ f \in Outputs(Block[s])
  BY DEF TargetLibs, Wants, Outputs, Marker, NBlocks, Block
<1>2. s < step[p]
  BY <1>1 DEF PromiseInv, MissingInv, UnlockLast, NBlocks, TypeInv, TypeOK
<1>3. Made(TargetOf[p], f)
  BY <1>1, <1>2 DEF PromiseInv, MissingInv, PassedBlocks, AllMade, AloneInv, Smooth
<1>4. ASSUME NEW q \in Proc PROVE pc[q] # "build" /\ pc[q] \notin Disturbed
  <2>1. q # p => q \notin Running
    BY DEF PromiseInv, AloneInv, Solo, Running, Live, Script
  <2> QED
    BY <2>1 DEF PromiseInv, AloneInv, Smooth, Running, Live, Script
<1> QED
  BY <1>3, <1>4 DEF Made

(* Every step is one of OnDemandBuild, or changes nothing there.            *)
LEMMA RefineInit == Init => Promise!Init
BY Phases DEF Init, Promise!Init, Phase, CompleteTargets

LEMMA RefineQuiet ==
  ASSUME PromiseInv, NEW p \in Proc,
         Quiet(p) \/ Clean(p) \/ NinjaStart(p) \/ Compile(p) \/ NinjaDone(p)
  PROVE  UNCHANGED <<Phase, CompleteTargets>>
<1>1. libdir' = libdir
  BY DEF Quiet, TestMissing, TestSkip, TestsOver, LockHeld, LockMkdir, Clean, NinjaStart,
         Compile, NinjaDone
<1>2. CompleteTargets' = CompleteTargets
  BY <1>1 DEF CompleteTargets
<1>3. pc' = pc \/ (pc[p] \in Live /\ \E v \in Live : pc' = [pc EXCEPT ![p] = v])
  BY DEF Quiet, TestMissing, TestSkip, TestsOver, LockHeld, LockMkdir, Clean, NinjaStart,
         Compile, NinjaDone, Live, Script
<1>4. CASE pc' = pc
  BY <1>2, <1>4 DEF Phase
<1>5. CASE pc[p] \in Live /\ \E v \in Live : pc' = [pc EXCEPT ![p] = v]
  <2>1. PICK v \in Live : pc' = [pc EXCEPT ![p] = v]
    BY <1>5
  <2>2. PhaseAt(v) = Phase[p]
    BY <1>5, Phases DEF Phase
  <2> QED
    BY <1>2, <2>1, <2>2, SamePhase DEF PromiseInv, TypeInv
<1> QED BY <1>3, <1>4, <1>5

LEMMA RefineFiles ==
  ASSUME PromiseInv, NEW p \in Proc, ArRemove(p) \/ Archive(p) \/ CompileCrt(p)
  PROVE  Promise!Provide(p) \/ UNCHANGED <<Phase, CompleteTargets>>
<1>1. pc[p] = "build" /\ pc' = pc
  BY ArchiveMakes DEF ArRemove, CompileCrt
<1>2. Phase[p] = "preparing" /\ Phase' = Phase
  BY <1>1, Phases DEF Phase, Live, Script
<1>3. CASE ArRemove(p)
  <2>1. Marker(Block[step[p]]) \notin libdir[TargetOf[p]]
    BY <1>3 DEF ArRemove, PromiseInv, AloneInv, Absent
  <2>2. libdir' = libdir
    BY <1>3, <2>1 DEF ArRemove, PromiseInv, TypeInv, TypeOK
  <2> QED
    BY <1>2, <2>2 DEF CompleteTargets
<1>4. CASE Archive(p) \/ CompileCrt(p)
  <2>1. PICK f : libdir' = [libdir EXCEPT ![TargetOf[p]] = @ \cup {f}]
    BY <1>4, ArchiveMakes DEF CompileCrt
  <2>2. CompleteTargets' \in {CompleteTargets, CompleteTargets \cup {TargetOf[p]}}
    BY <2>1, FilesAdded, ConstantsAssumption DEF PromiseInv, TypeInv
  <2> QED
    BY <1>2, <2>2 DEF Promise!Provide
<1> QED BY <1>3, <1>4

LEMMA RefineStep ==
  ASSUME Undisturbed, PromiseInv, [Next]_vars
  PROVE  [Promise!Next]_<<Phase, CompleteTargets>>
<1>1. CASE UNCHANGED vars
  BY <1>1 DEF vars, Phase, CompleteTargets
<1>2. CASE Next
  <2> PICK p \in Proc : Start(p) \/ Run(p) \/ Fault(p)
    BY <1>2 DEF Next
  <2>0. TypeOK
    BY DEF PromiseInv, TypeInv
  <2>1. CASE Start(p)
    <3>1. Phase[p] = "idle" /\ Phase' = [Phase EXCEPT ![p] = "preparing"]
      <4>1. PhaseAt("test") = "preparing"
        BY Phases DEF Live, Script
      <4>2. Phase' = [Phase EXCEPT ![p] = PhaseAt("test")]
        BY <2>0, <2>1, PhaseStep DEF Start
      <4> QED BY <2>1, <4>1, <4>2, Phases DEF Start, Phase
    <3>2. Promise!Begin(p)
      BY <2>1, <3>1 DEF Start, Promise!Begin, CompleteTargets
    <3> QED BY <3>2 DEF Promise!Next
  <2>2. CASE Quiet(p) \/ Clean(p) \/ NinjaStart(p) \/ Compile(p) \/ NinjaDone(p)
    BY <2>2, RefineQuiet
  <2>3. CASE ArRemove(p) \/ Archive(p) \/ CompileCrt(p)
    BY <2>3, RefineFiles DEF Promise!Next
  <2>4. CASE Unlock(p)
    <3>1. Phase[p] = "preparing" /\ Phase' = [Phase EXCEPT ![p] = "running"]
      <4>1. PhaseAt("unlock") = "preparing"
        BY Phases DEF Live, Script
      <4>2. Phase' = [Phase EXCEPT ![p] = PhaseAt("exec")]
        BY <2>0, <2>4, PhaseStep DEF Unlock
      <4> QED BY <2>4, <4>1, <4>2, Phases DEF Unlock, Phase
    <3>2. TargetOf[p] \in CompleteTargets
      BY <2>4, AtTheEnd DEF Unlock
    <3>3. Promise!Compile(p)
      BY <2>4, <3>1, <3>2 DEF Unlock, Promise!Compile, CompleteTargets
    <3> QED BY <3>3 DEF Promise!Next
  <2>5. CASE Link(p)
    <3>1. Phase[p] = "running" /\ Phase' = [Phase EXCEPT ![p] = "over"]
      BY <2>0, <2>5, Phases, PhaseStep DEF Link, Phase, Over
    <3>2. Promise!Finish(p)
      BY <2>5, <3>1 DEF Link, Promise!Finish, CompleteTargets
    <3> QED BY <3>2 DEF Promise!Next
  <2> QED
    BY <2>1, <2>2, <2>3, <2>4, <2>5, StepsLeft DEF Builds, Leaves
<1> QED BY <1>1, <1>2

(* However many invocations there are, on any targets and from any state of *)
(* their libraries: run one after the other and undisturbed, every one of   *)
(* them hands over to clang on a complete target, and no build takes away   *)
(* what another one completed.                                              *)
THEOREM PromiseKept == ASSUME Undisturbed PROVE Spec => KeepsPromise
<1>1. Init => PromiseInv
  BY InitType, LockInit, MissingInit, AloneInit DEF PromiseInv
<1>2. PromiseInv /\ [Next]_vars => PromiseInv'
  BY PromiseInvStep
<1>3. Init => Promise!Init
  BY RefineInit
<1>4. PromiseInv /\ [Next]_vars => [Promise!Next]_<<Phase, CompleteTargets>>
  BY RefineStep
<1> QED
  BY <1>1, <1>2, <1>3, <1>4, PTL DEF Spec, KeepsPromise, Promise!Spec, Promise!vars
=============================================================================
