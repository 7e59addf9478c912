---------------------------- MODULE MCCopyMerge -----------------------------
(* Instances of CopyMerge for TLC: trees with two names, two deep, and      *)
(* links that lead out, to each other and in a circle.                      *)
EXTENDS CopyMerge

N(t, c) == [t |-> t, c |-> c]
Dir == N("dir", Empty)
A == <<"a">>
B == <<"b">>
AC == <<"a", "c">>
Hidden == <<"a", ".DS_Store">>
Out == <<"out">>  \* a place outside of the destination
OutC == <<"out", "c">>

Names == {"s0", "s1", "s2", "s3", "ds", "d1", "d2", "d3", "o1", "o2", "to-a", "to-b", "to-out"}
Links == "to-a" :> To(A) @@ "to-b" :> To(B) @@ "to-out" :> Out

(* every way to put one of a set of nodes, or nothing, at a path *)
Maybe(q, nodes) == {q :> n : n \in nodes} \cup {<<>>}
Join(F, G) == {f @@ g : f \in F, g \in G}

(* a file or link, or a directory with two files at a; a file or link at b *)
SrcTrees ==
  {<<>> :> N("file", "s0"), <<>> :> N("link", "to-out")}
  \cup Join({<<>> :> Dir},
       Join(Maybe(A, {N("file", "s1"), N("link", "to-out"), N("other", Empty)})
              \cup {A :> Dir @@ AC :> N("file", "s2") @@ Hidden :> N("file", "ds")},
            Maybe(B, {N("file", "s3"), N("link", "to-out"), N("link", "to-a")})))

DstTrees ==
  Join(Maybe(To(<<>>), {N("link", "to-out")})
         \cup Join({To(<<>>) :> Dir},
              Join(Maybe(To(A), {N("file", "d1"), N("link", "to-b"), N("link", "to-out"), Dir})
                     \cup {To(A) :> Dir @@ To(AC) :> N("file", "d2")},
                   Maybe(To(B), {N("file", "d3"), N("link", "to-out"), N("link", "to-a"), Dir}))),
       {Out :> Dir @@ OutC :> N("file", "o2"), Out :> N("file", "o1"), <<>>})

Systems ==
  {[mac |-> FALSE, force |-> f, cross |-> FALSE] : f \in BOOLEAN}
  \cup {[mac |-> TRUE, force |-> f, cross |-> x] : f, x \in BOOLEAN}
=============================================================================
