-------------------------------- MODULE MCLib -------------------------------
(***************************************************************************)
(* The algorithms of llvmboxlib.c on small inputs.  They share no state: a  *)
(* behaviour is one of the part that use names.                             *)
(***************************************************************************)
EXTENDS Sha256Stream, Smoothsort, Arrays, Names, TLC

VARIABLE use

allVars == <<use, hashVars, sortVars, arrayVars, bumpVars, call>>

Init ==
  /\ use \in {"hash", "sort", "array", "bump", "names"}
  /\ HashInit /\ SortInit /\ ArrayInit /\ BumpInit /\ NamesInit
  /\ use # "array" => mem = "none" /\ kind = "list"

HashStep == use = "hash" /\ HashNext /\ UNCHANGED <<use, sortVars, arrayVars, bumpVars, call>>
SortStep == use = "sort" /\ SortNext /\ UNCHANGED <<use, hashVars, arrayVars, bumpVars, call>>
ArrayStep == use = "array" /\ ArrayNext /\ UNCHANGED <<use, hashVars, sortVars, bumpVars, call>>
BumpStep == use = "bump" /\ BumpNext /\ UNCHANGED <<use, hashVars, sortVars, arrayVars, call>>
NamesStep == use = "names" /\ NamesNext /\ UNCHANGED <<use, hashVars, sortVars, arrayVars, bumpVars>>

Next == HashStep \/ SortStep \/ ArrayStep \/ BumpStep \/ NamesStep

(* A call of lb_qsort runs to its end.                                      *)
Spec == Init /\ [][Next]_allVars /\ WF_allVars(SortStep)

-----------------------------------------------------------------------------
\* every array of three values up to 5 elements, of two up to 9, which is a
\* heap of order 4
SmallArrays == UNION ({[1..n -> 1..3] : n \in 0..5} \cup {[1..n -> 1..2] : n \in 6..9})

\* a name of one byte and one of two
Widths == "a" :> 1 @@ "bb" :> 2

Homes == {<<>>, <<"x">>, <<"x", "y", "z">>}
Trees == SeqOf({"a", "b"}, 3)
DirNames == SeqOf({"a", "s", "x", "1", "-", "."}, 4)
            \cup {<<"a", "-", "s">> \o t : t \in SeqOf({"x", "y", "1", "-", "."}, 4)}
=============================================================================
