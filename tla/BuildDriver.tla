---------------------------- MODULE BuildDriver ----------------------------
(***************************************************************************)
(* build.sh: parses its options, selects the scripts whose number has the  *)
(* given prefix, and runs them one after the other, until one fails.  What *)
(* a script reads, clears and makes is a parameter (see BuildScripts).     *)
(* Runs of any prefix follow each other; they fail, are interrupted, are   *)
(* killed, and a job that a script runs in the background may fail without *)
(* the script taking notice.                                               *)
(***************************************************************************)
EXTENDS Integers, Sequences

CONSTANTS
  Scripts,     \* the scripts in the order of their names
  Artifact,    \* the directories and files they make
  Invocations, \* sequences of arguments build.sh is called with
  MaxRun, MaxFault, MaxLost  \* bounds: runs, failures and kills, lost jobs

Script == DOMAIN Scripts
(* An argument is an option, or the digits of a prefix. *)
Option == {<<"-v">>, <<"--dryrun">>, <<"-j">>, <<"-h">>}
Digit == {"0", "1", "2", "3", "4", "5", "6", "7", "8", "9"}

(* needs: what a script cannot work without; uses: what it takes if it is  *)
(* there; drops: what it removes; makes: what it then makes anew;          *)
(* background: it does not look at the result of its background jobs;      *)
(* stamped: it leaves what it makes alone, if that is there.               *)
ScriptType ==
  [number : Seq(Digit), needs : SUBSET Artifact, uses : SUBSET Artifact,
   drops : SUBSET Artifact, makes : SUBSET Artifact,
   background : BOOLEAN, stamped : BOOLEAN]

Reads(s) == s.needs \cup s.uses

(* The order of the names is one in which everything is made before it is   *)
(* read, and by one script only; a script removes nothing of what earlier   *)
(* ones made; a script that leaves a complete result alone reads nothing    *)
(* that could have changed.                                                *)
WellOrdered(table) ==
  /\ table \in Seq(ScriptType)
  /\ \A i \in DOMAIN table :
       /\ \A a \in Reads(table[i]) : \E j \in 1..i-1 : a \in table[j].makes
       /\ \A j \in 1..i-1 :
            /\ table[i].makes \cap table[j].makes = {}
            /\ table[i].drops \cap table[j].makes = {}
       /\ table[i].stamped => Reads(table[i]) = {} /\ ~table[i].background

ASSUME ScriptsAssumption == WellOrdered(Scripts)
ASSUME InvocationsAssumption == Invocations \subseteq Seq(Option \cup Seq(Digit))
ASSUME BoundsAssumption == MaxRun \in Nat /\ MaxFault \in Nat /\ MaxLost \in Nat

VARIABLES
  pc,       \* what build.sh is about to do
  args,     \* its arguments that are left to parse
  prefix,   \* <<>> if it was given none
  dryrun,
  at,       \* the script it has come to
  art,      \* art[a]: "none", "partial", "good", or "bad": complete, but
            \* made from something that was not good
  upto,     \* history: the first so many scripts have succeeded in their order,
            \* none lost a background job, and none was started again since
  runs, faults, losses  \* counters

vars == <<pc, args, prefix, dryrun, at, art, upto, runs, faults, losses>>
counters == <<runs, faults, losses>>

Complete == {"good", "bad"}

Init ==
  /\ pc = "idle"
  /\ args = <<>> /\ prefix = <<>> /\ dryrun = FALSE
  /\ at = 0
  /\ art = [a \in Artifact |-> "none"]
  /\ upto = 0
  /\ runs = 0 /\ faults = 0 /\ losses = 0

-----------------------------------------------------------------------------
Run ==
  /\ pc = "idle" /\ runs < MaxRun
  /\ runs' = runs + 1
  /\ args' \in Invocations
  /\ prefix' = <<>> /\ dryrun' = FALSE /\ at' = 0
  /\ pc' = "args"
  /\ UNCHANGED <<art, upto, faults, losses>>

ParseArg_Unknown == \* mutant: what is no known option is a prefix, -v included
  /\ pc = "args" /\ args # <<>>
  /\ args' = Tail(args) /\ prefix' = Head(args)
  /\ UNCHANGED <<pc, dryrun, at, art, upto, counters>>

(* One turn of the option loop.  -jN is not shifted away. *)
ParseArg ==
  /\ pc = "args" /\ args # <<>>
  /\ LET arg == Head(args)
     IN  /\ args' = IF arg = <<"-j">> THEN args ELSE Tail(args)
         /\ dryrun' = (dryrun \/ arg = <<"--dryrun">>)
         /\ prefix' = IF arg \in Option THEN prefix ELSE arg
         /\ pc' = IF arg = <<"-h">> \/ (arg \notin Option /\ prefix # <<>>)
                    THEN "idle" ELSE "args"
  /\ UNCHANGED <<at, art, upto, counters>>

ArgsOver ==
  /\ pc = "args" /\ args = <<>>
  /\ pc' = "next"
  /\ UNCHANGED <<args, prefix, dryrun, at, art, upto, counters>>

-----------------------------------------------------------------------------
HasPrefix(i, p) ==
  Len(p) <= Len(Scripts[i].number) /\ SubSeq(Scripts[i].number, 1, Len(p)) = p

Selected(i) == HasPrefix(i, prefix)

Rest_Again == {i \in Script : i >= at /\ Selected(i)} \* mutant: off by one

Rest == {i \in Script : i > at /\ Selected(i)}

(* The next script of the loop; with --dryrun it is only printed. *)
NextScript ==
  /\ pc = "next" /\ Rest # {}
  /\ at' \in {i \in Rest : \A j \in Rest : i <= j}
  /\ IF dryrun THEN pc' = "next" /\ UNCHANGED upto
     ELSE pc' = "work" /\ upto' = IF upto < at' THEN upto ELSE at' - 1
  /\ UNCHANGED <<args, prefix, dryrun, art, counters>>

Over ==
  /\ pc = "next" /\ Rest = {}
  /\ pc' = "idle"
  /\ UNCHANGED <<args, prefix, dryrun, at, art, upto, counters>>

(* The script has done all its work: if those before it have too, and were  *)
(* not started again, one more script has succeeded in its order.           *)
Succeed == upto' = IF upto = at - 1 THEN at ELSE upto

(* The stamp of the release is there. *)
UpToDate ==
  LET s == Scripts[at]
  IN  /\ pc = "work" /\ s.stamped /\ \A a \in s.makes : art[a] \in Complete
      /\ Succeed
      /\ pc' = "next"
      /\ UNCHANGED <<args, prefix, dryrun, at, art, counters>>

(* What the script makes will be as good as what it has read. *)
Quality(s) == IF \A a \in Reads(s) : art[a] = "good" THEN "good" ELSE "bad"

(* The script has done its work with what it needs, has removed the result *)
(* of an earlier run, and is filling in the new one.                       *)
Install ==
  LET s == Scripts[at]
  IN  /\ pc = "work" /\ ~(s.stamped /\ \A a \in s.makes : art[a] \in Complete)
      /\ \A a \in s.needs : art[a] # "none"
      /\ art' = [a \in Artifact |->
           IF a \in s.makes THEN "partial" ELSE IF a \in s.drops THEN "none" ELSE art[a]]
      /\ pc' = "install"
      /\ UNCHANGED <<args, prefix, dryrun, at, upto, counters>>

(* The script is done.  If a background job failed, what it should have    *)
(* made is missing from what the script made.                              *)
Finish ==
  LET s == Scripts[at]
  IN  /\ pc = "install"
      /\ \/ /\ art' = [a \in Artifact |-> IF a \in s.makes THEN Quality(s) ELSE art[a]]
            /\ Succeed /\ UNCHANGED losses
         \/ /\ s.background /\ losses < MaxLost
            /\ losses' = losses + 1
            /\ art' = [a \in Artifact |-> IF a \in s.makes THEN "bad" ELSE art[a]]
            /\ UNCHANGED upto
      /\ pc' = "next"
      /\ UNCHANGED <<args, prefix, dryrun, at, runs, faults>>

FailScript_GoesOn == \* mutant: the exit status of the script is not looked at
  /\ pc \in {"work", "install"} /\ faults < MaxFault
  /\ faults' = faults + 1
  /\ Succeed
  /\ pc' = "next"
  /\ UNCHANGED <<args, prefix, dryrun, at, art, runs, losses>>

(* A script whose input is missing fails; any script may fail, or be       *)
(* interrupted.  build.sh exits.                                           *)
FailScript ==
  /\ pc \in {"work", "install"}
  /\ IF pc = "work" /\ \E a \in Scripts[at].needs : art[a] = "none"
       THEN UNCHANGED faults
       ELSE faults < MaxFault /\ faults' = faults + 1
  /\ pc' = "idle"
  /\ UNCHANGED <<args, prefix, dryrun, at, art, upto, runs, losses>>

(* build.sh is killed, or ^C reaches it while it parses its options. *)
Kill ==
  /\ pc # "idle" /\ faults < MaxFault
  /\ faults' = faults + 1
  /\ pc' = "idle"
  /\ UNCHANGED <<args, prefix, dryrun, at, art, upto, runs, losses>>

-----------------------------------------------------------------------------
Step ==
  \/ ParseArg \/ ArgsOver \/ NextScript \/ Over
  \/ UpToDate \/ Install \/ Finish \/ FailScript

Next == Run \/ Step \/ Kill

Spec == Init /\ [][Next]_vars

(* build.sh and the scripts do not stop by themselves. *)
FairSpec == Spec /\ WF_vars(Step)

-----------------------------------------------------------------------------
TypeOK ==
  /\ pc \in {"idle", "args", "next", "work", "install"}
  /\ args \in Seq(Option \cup Seq(Digit)) /\ prefix \in Seq(Digit)
  /\ dryrun \in BOOLEAN
  /\ at \in Script \cup {0}
  /\ pc \in {"work", "install"} => at \in Script
  /\ art \in [Artifact -> {"none", "partial", "good", "bad"}]
  /\ upto \in Nat
  /\ runs \in 0..MaxRun /\ faults \in 0..MaxFault /\ losses \in 0..MaxLost

(* Whatever was run, killed or failed before, whatever leftovers it found,  *)
(* and whatever later scripts have run since: if the first scripts have     *)
(* succeeded in the order of their names, in one run or in several, then    *)
(* what they made is complete and made from complete things only, unless    *)
(* one of them lost a background job.  For all scripts: a build that        *)
(* succeeds has made a good product, and so have three phases run one by    *)
(* one.                                                                    *)
InOrderGood ==
  \A i \in Script : i <= upto => \A a \in Scripts[i].makes : art[a] = "good"

(* build.sh:10-21 documents its options: a call with documented options     *)
(* ends.                                                                   *)
RunsEnd == pc # "idle" ~> pc = "idle"
=============================================================================
