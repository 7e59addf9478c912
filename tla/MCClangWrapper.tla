--------------------------- MODULE MCClangWrapper ---------------------------
(* Instances of ClangWrapper for TLC. *)
EXTENDS ClangWrapper, TLC

CONSTANTS p1, p2, p3, lin, lin2, mac

\* every invocation is of one Linux target
OneTarget == [p \in Proc |-> lin]

\* two of a Linux target, one of a macOS target
Shared == [p \in Proc |-> IF p = p3 THEN mac ELSE lin]

\* three targets that share nothing but the lock
Apart == (p1 :> lin @@ p2 :> lin2 @@ p3 :> mac)
=============================================================================
