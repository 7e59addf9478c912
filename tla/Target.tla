------------------------------- MODULE Target -------------------------------
(***************************************************************************)
(* Target identifiers ARCH-SYS[.VER][-SUFFIX] (target_t, llvmboxlib.h),    *)
(* the order the tools sort them in and the search path of a target.       *)
(***************************************************************************)
EXTENDS Integers, Sequences, FiniteSets

(* The strings targets are made of, in strcmp order. *)
StrOrder == <<"", "10", "11", "12", "13", "aarch64", "any", "arm", "i386",
              "libc", "linux", "macos", "riscv", "riscv32", "riscv64", "x86_64">>

Rank(s) == CHOOSE i \in DOMAIN StrOrder : StrOrder[i] = s

Word == {StrOrder[i] : i \in DOMAIN StrOrder}
target_t == [arch : Word, sys : Word, sysver : Word, suffix : Word]

TargetT(arch, sys, sysver, suffix) ==
  [arch |-> arch, sys |-> sys, sysver |-> sysver, suffix |-> suffix]

(* FOR_EACH_SUPPORTED_TARGET, in its order. *)
SupportedTargets ==
  << TargetT("aarch64", "linux", "", ""),   TargetT("x86_64", "linux", "", ""),
     TargetT("aarch64", "macos", "11", ""), TargetT("aarch64", "macos", "12", ""),
     TargetT("aarch64", "macos", "13", ""), TargetT("x86_64", "macos", "10", ""),
     TargetT("x86_64", "macos", "11", ""),  TargetT("x86_64", "macos", "12", ""),
     TargetT("x86_64", "macos", "13", "") >>

(* Lexicographic order of tuples of numbers of one length. *)
LexLess(a, b) ==
  \E i \in DOMAIN a : a[i] < b[i] /\ \A j \in 1..(i - 1) : a[j] = b[j]

(* target_cmp compares these keys: layers from any-any down to ARCH-SYS.VER. *)
(* The name of the system and the suffix do not take part.                   *)
TargetKey(t) ==
  << IF t.arch = "any" THEN 0 ELSE 1, IF t.sys = "any" THEN 0 ELSE 1,
     Rank(t.arch), Rank(t.sysver) >>

target_intersection(a, b) ==
  [arch   |-> IF a.arch = b.arch THEN a.arch ELSE "any",
   sys    |-> IF a.sys = b.sys THEN a.sys ELSE "any",
   sysver |-> IF a.sys = b.sys /\ a.sysver = b.sysver THEN a.sysver ELSE "",
   suffix |-> IF a.suffix = b.suffix THEN a.suffix ELSE ""]

(* The include directories of the wrapper of t, in the order of its -I      *)
(* flags (_gen_clang_wrapper).                                              *)
SearchPath(t) == << t, [t EXCEPT !.sysver = ""], TargetT("any", t.sys, "", t.suffix) >>
=============================================================================
