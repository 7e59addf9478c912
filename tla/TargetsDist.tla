----------------------------- MODULE TargetsDist ----------------------------
(***************************************************************************)
(* 031-create-llvmbox-targets.sh: how the directory targets of the product  *)
(* is made from sysroots by the dedup tool, llvmbox-cpmerge and renames,    *)
(* and what the wrappers generated at the end search.  A directory without  *)
(* files is not modelled after the dedup tool: in the end find deletes it.  *)
(***************************************************************************)
EXTENDS DedupTargetFiles

CONSTANTS
  DistTargets, \* SUPPORTED_DIST_TARGETS, without wasm
  LibTargets   \* the directories of sysroots/lib

(* SUPPORTED_DIST_TARGETS (config.sh) and the targets of the tools          *)
(* (llvmboxlib.h) agree on versions; sysroots/lib has any-SYS.VER; -libc is *)
(* the only suffix in sysroots/include, and the only one that is merged.    *)
ASSUME DistAssumption ==
  /\ \A t \in DistTargets :
       /\ t \in target_t /\ t.suffix = ""
       /\ t.sysver # "" => t \in ToSet(SupportedTargets)
  /\ \A l \in LibTargets : l \in target_t /\ l.arch = "any" /\ l.suffix = ""
  /\ \A f \in Layouts : \A x \in DOMAIN f : x[1].suffix \in {"", "libc"}

VARIABLES
  stage,    \* "dedup", "merge", "rename", "libs", "wait", "wrappers", "done" or "failed"
  headers,  \* the files of targets after the dedup tool, as tree
  included, \* targets whose headers are in TARGET/include
  jobs,     \* targets whose lib is being copied in the background
  libs,     \* targets with a complete lib
  lostJob,  \* history: a copy in the background failed
  wrapper   \* target -> search paths of bin/clang-TARGET

distVars == <<stage, headers, included, jobs, libs, lostJob, wrapper>>

DistInit ==
  /\ Init
  /\ stage = "dedup" /\ headers = <<>> /\ included = {}
  /\ jobs = {} /\ libs = {} /\ lostJob = FALSE /\ wrapper = <<>>

Holders == {x[1] : x \in DOMAIN headers}

(* llvmbox-dedup-target-files, on a copy of sysroots/include.               *)
DedupRuns == stage = "dedup" /\ Next /\ UNCHANGED distVars

DedupOver ==
  /\ stage = "dedup" /\ pc = "done"
  /\ stage' = "merge" /\ headers' = tree
  /\ UNCHANGED <<vars, included, jobs, libs, lostJob, wrapper>>

(* A command fails: set -e.  The next run removes targets and starts anew.  *)
ScriptFails ==
  /\ IF stage = "dedup" THEN pc = "exit" ELSE stage \notin {"wait", "done", "failed"}
  /\ stage' = "failed"
  /\ UNCHANGED <<vars, headers, included, jobs, libs, lostJob, wrapper>>

Suffixed == {t \in Holders : t.suffix # ""}

(* llvmbox-cpmerge: what is at the destination is overwritten (on macOS it  *)
(* fails instead).                                                          *)
MergeInto(from, to) ==
  LET moved == {x \in DOMAIN headers : x[1] = from}
  IN [x \in (DOMAIN headers \ moved) \cup {<<to, y[2]>> : y \in moved} |->
        IF x[1] = to /\ <<from, x[2]>> \in moved THEN headers[<<from, x[2]>>] ELSE headers[x]]

(* mkdir, cpmerge and rm of the next directory TARGET-libc.                 *)
MergeSuffixed ==
  LET from == CHOOSE t \in Suffixed : TRUE
  IN /\ stage = "merge" /\ Suffixed # {}
     /\ headers' = MergeInto(from, [from EXCEPT !.suffix = ""])
     /\ UNCHANGED <<vars, stage, included, jobs, libs, lostJob, wrapper>>

MergeOver ==
  /\ stage = "merge" /\ Suffixed = {}
  /\ stage' = "rename"
  /\ UNCHANGED <<vars, headers, included, jobs, libs, lostJob, wrapper>>

Rename ==  \* TARGET becomes TARGET/include; empty directories are deleted
  /\ stage = "rename"
  /\ included' = Holders
  /\ stage' = "libs"
  /\ UNCHANGED <<vars, headers, jobs, libs, lostJob, wrapper>>

StartLibs ==
  /\ stage = "libs"
  /\ jobs' = LibTargets
  /\ stage' = "wait"
  /\ UNCHANGED <<vars, headers, included, libs, lostJob, wrapper>>

(* A copy in the background ends; nobody looks at its status.               *)
LibCopied ==
  \E t \in jobs :
    /\ jobs' = jobs \ {t}
    /\ \/ libs' = libs \cup {t} /\ UNCHANGED lostJob
       \/ lostJob' = TRUE /\ UNCHANGED libs
    /\ UNCHANGED <<vars, stage, headers, included, wrapper>>

Waited_Not == TRUE \* mutant: no wait

Waited == jobs = {}

Wait ==
  /\ stage = "wait" /\ Waited
  /\ stage' = "wrappers"
  /\ UNCHANGED <<vars, headers, included, jobs, libs, lostJob, wrapper>>

(* A search path gets a directory if it is there.                           *)
IfThere(d, there) == IF d \in there THEN <<d>> ELSE <<>>

(* -I of ARCH-SYS.VER, ARCH-SYS and any-SYS; without a version the first is *)
(* the second.                                                              *)
IncludeFlags(t) ==
  LET path == SearchPath(t)
  IN IfThere(path[1], included) \o (IfThere(path[2], included) \o IfThere(path[3], included))

(* -L of any-SYS.VER, ARCH-SYS and any-SYS.                                 *)
LibFlags(t) ==
  (IF t.sysver = "" THEN <<>>
   ELSE IfThere([t EXCEPT !.arch = "any"], libs) \o IfThere([t EXCEPT !.sysver = ""], libs))
    \o IfThere(TargetT("any", t.sys, "", ""), libs)

(* _gen_clang_wrapper of every target.                                      *)
GenWrappers ==
  /\ stage = "wrappers"
  /\ wrapper' = [t \in DistTargets |-> [I |-> IncludeFlags(t), L |-> LibFlags(t)]]
  /\ stage' = "done"
  /\ UNCHANGED <<vars, headers, included, jobs, libs, lostJob>>

DistNext ==
  \/ DedupRuns \/ DedupOver \/ ScriptFails \/ MergeSuffixed \/ MergeOver \/ Rename
  \/ StartLibs \/ LibCopied \/ Wait \/ GenWrappers

DistSpec == DistInit /\ [][DistNext]_<<vars, distVars>>

-----------------------------------------------------------------------------
(* The header the wrapper of t includes for r.                              *)
Includes(t, r) ==
  LET path == wrapper[t].I
      hits == {i \in DOMAIN path : <<path[i], r>> \in DOMAIN headers}
  IN IF hits = {} THEN NoFile
     ELSE headers[<<path[CHOOSE i \in hits : \A j \in hits : i <= j], r>>]

(* The header sysroots/include has for a target, with or without -libc.     *)
Provided(t, r) ==
  IF Lookup(before, t, r) # NoFile THEN Lookup(before, t, r)
  ELSE Lookup(before, [t EXCEPT !.suffix = "libc"], r)

(* If the script succeeds, the wrapper of every supported target includes   *)
(* the very headers that sysroots/include has for it, through dedup, merge  *)
(* and renames, a versioned one no others, and it has the library of its    *)
(* version, unless the copy of a library failed, which the script does not  *)
(* notice.                                                                  *)
WrappersServe ==
  stage = "done" =>
    \A t \in DistTargets :
      /\ \A r \in Relpath :
           Provided(t, r) # NoFile \/ t.sysver # "" => Includes(t, r) = Provided(t, r)
      /\ \A l \in LibTargets :
           l.sys = t.sys /\ l.sysver = t.sysver => l \in ToSet(wrapper[t].L) \/ lostJob
=============================================================================
