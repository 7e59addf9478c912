---------------------------- MODULE BuildScripts ----------------------------
(***************************************************************************)
(* What the build scripts read, clear and make, in the order in which      *)
(* build.sh runs them.                                                     *)
(***************************************************************************)
EXTENDS Integers, Sequences

CONSTANTS
  Linux, \* the target is linux
  LTO    \* LLVMBOX_ENABLE_LTO

(* src1, src2: the llvm sources; zlib1, llvm1: the stage 1 compiler;        *)
(* headers, libc, fts: the parts of the sysroot; zlib2, zstd, xml2, cxx,    *)
(* cxxlto, llvm2: libraries and tools of stage 2; dev, box: the two         *)
(* products; targets, ninja: what is added to box; archives.               *)
BuildArtifacts ==
  {"src1", "zlib1", "llvm1", "headers", "libc", "fts", "zlib2", "zstd", "xml2",
   "src2", "cxx", "cxxlto", "llvm2", "dev", "box", "targets", "ninja", "archives"}

(* What only a linux build has, and what only a build with LTO has. *)
OnLinux(S) == IF Linux THEN S ELSE {}
WithLTO(S) == IF LTO THEN S ELSE {}

(* What STAGE2_CC compiles against. *)
Toolchain == {"llvm1", "headers"} \cup OnLinux({"libc"})

Makes(number, needs, makes) ==
  [number |-> number, needs |-> needs, uses |-> {}, drops |-> makes, makes |-> makes,
   background |-> FALSE, stamped |-> FALSE]

llvm_source_stage1 == [Makes(<<"0", "1", "0">>, {}, {"src1"}) EXCEPT !.stamped = TRUE]
zlib_stage1 == Makes(<<"0", "1", "0">>, {}, {"zlib1"})
llvm_stage1 == Makes(<<"0", "1", "9">>, {"src1", "zlib1"}, {"llvm1"})

sysroot ==
  [Makes(<<"0", "2", "0">>, {}, {"headers"}) EXCEPT !.drops = {"headers", "libc", "fts"}]

musl_libc == Makes(<<"0", "2", "2">>, OnLinux({"llvm1"}), OnLinux({"libc"}))
musl_fts == Makes(<<"0", "2", "3">>, OnLinux({"llvm1", "libc"}), OnLinux({"fts"}))
test_llvm_stage1 == Makes(<<"0", "2", "3">>, Toolchain \cup {"zlib1"}, {})
zlib == Makes(<<"0", "2", "3">>, Toolchain, {"zlib2"})
zstd == Makes(<<"0", "2", "3">>, Toolchain, {"zstd"})
libxml2 == Makes(<<"0", "2", "4">>, Toolchain \cup {"zlib2"}, {"xml2"})
llvm_source_stage2 == [Makes(<<"0", "2", "5">>, {}, {"src2"}) EXCEPT !.stamped = TRUE]
llvm_runtimes ==
  [Makes(<<"0", "2", "6">>, Toolchain \cup {"src2"}, {"cxx"} \cup WithLTO({"cxxlto"}))
     EXCEPT !.drops = {"cxx", "cxxlto"}]
test_cxx == Makes(<<"0", "2", "7">>, Toolchain \cup {"cxx"}, {})
llvm_stage2 ==
  Makes(<<"0", "2", "8">>,
        Toolchain \cup {"zlib2", "zstd", "xml2", "src2", "cxx"} \cup WithLTO({"cxxlto"}),
        {"llvm2"})

create_llvmbox_dev ==
  [Makes(<<"0", "3", "0">>, {"llvm1", "llvm2", "zlib2", "zstd", "xml2"}, {"dev"})
     EXCEPT !.background = TRUE]

(* The sysroot is copied as it is, with a libc in it or without. *)
create_llvmbox ==
  [Makes(<<"0", "3", "0">>, {"llvm1", "llvm2", "headers", "cxx"} \cup WithLTO({"cxxlto"}), {"box"})
     EXCEPT !.uses = OnLinux({"libc", "fts"}), !.drops = {"box", "targets", "ninja"}]

create_llvmbox_targets ==
  [Makes(<<"0", "3", "1">>, {}, {"targets"}) EXCEPT !.background = TRUE]
samurai == Makes(<<"0", "3", "1">>, Toolchain, {"ninja"})
test_llvmbox_dev_myclang == Makes(<<"0", "3", "1">>, {"box", "dev"}, {})
test_llvmbox == Makes(<<"0", "3", "1">>, {"box", "dev"}, {})

(* The directory of box may be there with nothing but targets and ninja. *)
archive ==
  [Makes(<<"0", "3", "3">>, {"dev"}, {"archives"}) EXCEPT !.uses = {"box", "targets", "ninja"}]

BuildScripts ==
  << llvm_source_stage1, zlib_stage1, llvm_stage1, sysroot, musl_libc, musl_fts,
     test_llvm_stage1, zlib, zstd, libxml2, llvm_source_stage2, llvm_runtimes,
     test_cxx, llvm_stage2, create_llvmbox_dev, create_llvmbox,
     create_llvmbox_targets, samurai, test_llvmbox_dev_myclang, test_llvmbox, archive >>
=============================================================================
