---------------------------- MODULE MCTargetsDist ---------------------------
(* Layouts for TLC.  Names follow sysroots/include: the kernel headers of   *)
(* four Linux architectures, the libc headers of five, and two macOS        *)
(* architectures with versions.                                             *)
EXTENDS TargetsDist

T(arch, sys, sysver) == TargetT(arch, sys, sysver, "")
Linux == {T(a, "linux", "") : a \in {"aarch64", "arm", "riscv", "x86_64"}}
Libc == {TargetT(a, "linux", "", "libc") : a \in {"aarch64", "arm", "i386", "riscv64", "x86_64"}}
Mac(arch) == {t \in ToSet(SupportedTargets) : t.arch = arch /\ t.sys = "macos"}
MacAll == Mac("aarch64") \cup Mac("x86_64")

Dist == MacAll \cup {T(a, "linux", "") :
          a \in {"aarch64", "arm", "i386", "riscv32", "riscv64", "x86_64"}}
Libs == {T("any", "macos", v) : v \in {"10", "13"}}

\* every way to give contents to the targets of S for header r
Given(S, r, Hashes) == UNION {[D \X {r} -> Hashes] : D \in SUBSET S}
Uniform(S, r, Hashes) == {[x \in S \X {r} |-> h] : h \in Hashes} \cup {<<>>}

Join(F, G) == {[x \in DOMAIN f \cup DOMAIN g |-> IF x \in DOMAIN f THEN f[x] ELSE g[x]] :
                 f \in F, g \in G}

MacShipped(r, Hashes) == Join(Uniform(Mac("aarch64"), r, Hashes),
                              Uniform(Mac("x86_64"), r, Hashes))

SubDir == <<"sys">>
TwoDirs == <<"", "sys">>

\* sysroots/include: a header has one content per macOS architecture, in all
\* of its versions; it is any mix on Linux, or one content when macOS has it too
Shipped == Given(Linux, 1, 1..3)
           \cup Join(MacShipped(1, 1..3), Uniform(Linux, 1, 1..3))
ShippedTwo == Join(Join(Uniform(Linux, 1, {2}), MacShipped(1, {1, 3})),
                   Join(Given({t \in Linux : t.arch \in {"aarch64", "arm"}}, 2, 1..2),
                        Uniform(Mac("x86_64"), 2, {3})))

\* libc headers of all five architectures: one content where macOS has a header
\* of that name, else a mix; beside them a kernel header of another name
LibcToo == Join(Join(Uniform(Libc, 1, {2}), MacShipped(1, {1, 3})) \cup [Libc \X {1} -> 1..2],
                Uniform(Linux, 2, {1})
                  \cup {[x \in Linux \X {2} |-> IF x[1].arch = "arm" THEN 1 ELSE 2]})

MacFull == [MacAll \X {1} -> 1..2]
MacSome == Given(MacAll, 1, {1})

\* an unversioned file below the versions of its architecture, which has
\* their content or another, next to the versions of the other architecture
Layered == Join(Join({[x \in {<<T("x86_64", "macos", ""), 1>>} |-> h] : h \in {1, 2}},
                     {[x \in Mac("x86_64") \X {1} |-> h] : h \in {1, 2}}),
                Uniform(Mac("aarch64"), 1, {1, 2}))

\* two contents on Linux, and a macOS header of the same name whose hash is
\* between theirs; there is no such header in sysroots/include
Between == Join(Given(Linux, 1, {1, 3}), Uniform(Mac("aarch64"), 1, {2}))

\* the header trees of sysroots/include, every mix of two contents over all
\* macOS targets, and layered trees
Trees == ShippedTwo \cup Shipped \cup LibcToo \cup MacFull \cup Layered

\* the layouts like sysroots/include are such as the theorems are about
ASSUME \A l \in ShippedTwo \cup Shipped \cup LibcToo \cup MacFull : Orderly(l) /\ Complete(l)
=============================================================================
