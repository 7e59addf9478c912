---------------------------- MODULE OnDemandBuild ----------------------------
(***************************************************************************)
(* What the clang-TARGET wrappers promise, without locks, blocks or ninja: *)
(* an invocation may complete the libraries of its target, a compiler runs *)
(* only on a target that is complete, and a complete target stays so.      *)
(***************************************************************************)
CONSTANTS Proc, Target, TargetOf

VARIABLES
  phase,    \* phase[p]: "idle", "preparing", "running" or "over"
  complete  \* the targets that have every library they link with

vars == <<phase, complete>>

Init ==
  /\ phase = [p \in Proc |-> "idle"]
  /\ complete \in SUBSET Target

Begin(p) ==
  /\ phase[p] = "idle"
  /\ phase' = [phase EXCEPT ![p] = "preparing"]
  /\ UNCHANGED complete

Provide(p) ==
  /\ phase[p] = "preparing"
  /\ complete' = complete \cup {TargetOf[p]}
  /\ UNCHANGED phase

Compile(p) ==
  /\ phase[p] = "preparing" /\ TargetOf[p] \in complete
  /\ phase' = [phase EXCEPT ![p] = "running"]
  /\ UNCHANGED complete

Finish(p) ==
  /\ phase[p] = "running"
  /\ phase' = [phase EXCEPT ![p] = "over"]
  /\ UNCHANGED complete

Next == \E p \in Proc : Begin(p) \/ Provide(p) \/ Compile(p) \/ Finish(p)

Spec == Init /\ [][Next]_vars
=============================================================================
