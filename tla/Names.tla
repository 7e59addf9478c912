------------------------------- MODULE Names --------------------------------
(***************************************************************************)
(* The names the tools work with: paths (path_clean and path_join of        *)
(* llvmboxlib.c), the arguments of llvmbox-cpmerge, and the names of target *)
(* directories (target_parse, target_str).  Pure functions: a step calls    *)
(* one of them.                                                             *)
(***************************************************************************)
EXTENDS Integers, SequencesExt

CONSTANTS
  Width,       \* the names in a path, and the bytes of each
  MaxPath,     \* bound: components of a path
  PATH_MAX,
  Cwds,        \* directories a relative path may start from
  Dirs,        \* absolute directories, sequences of names
  TargetNames  \* names of directories under targets, sequences of words, "-" and "."

ASSUME WidthAssumption ==
  /\ \A c \in DOMAIN Width : Width[c] \in Nat
  /\ DOMAIN Width \cap {"", ".", ".."} = {}
ASSUME PathMaxAssumption == PATH_MAX \in Nat /\ PATH_MAX > 1
ASSUME MaxPathAssumption == MaxPath \in Nat
ASSUME CwdsAssumption == Cwds \subseteq Seq(STRING)
ASSUME DirsAssumption == Dirs \subseteq Seq(STRING)
ASSUME TargetNamesAssumption == TargetNames \subseteq Seq(STRING)

VARIABLE call  \* the last call: what was called, its arguments and its result

Comps == DOMAIN Width \cup {"", ".", ".."}
WidthOf(c) == IF c \in DOMAIN Width THEN Width[c] ELSE IF c = ".." THEN 2 ELSE IF c = "." THEN 1 ELSE 0
SumWidth(s) == FoldLeft(LAMBDA n, c : n + WidthOf(c), 0, s)

(* Bytes of a path: a leading separator, the names, one between each two.   *)
Bytes(rooted, s) ==
  (IF rooted THEN 1 ELSE 0) + SumWidth(s) + (IF s = <<>> THEN 0 ELSE Len(s) - 1)

-----------------------------------------------------------------------------
(* path_cleann.  out are the components written, up of them a leading "..", *)
(* and wl counts the bytes written, those that are taken back included.     *)
Put(acc, c) ==
  [acc EXCEPT !.out = Append(@, c),
              !.wl = @ + WidthOf(c) + (IF acc.out = <<>> THEN 0 ELSE 1),
              !.up = IF c = ".." THEN @ + 1 ELSE @]

Back_Uncounted(acc) == \* mutant: the bytes taken back are not counted
  [acc EXCEPT !.out = Front(@), !.wl = @ - WidthOf(Last(acc.out)) - 1]

Back(acc) == [acc EXCEPT !.out = Front(@)]

DotDot_Root(rooted, acc) == \* mutant: ".." takes back ".." as well
  IF acc.out # <<>> THEN Back(acc) ELSE IF rooted THEN acc ELSE Put(acc, "..")

DotDot(rooted, acc) ==
  IF Len(acc.out) > acc.up THEN Back(acc)
  ELSE IF rooted THEN acc
  ELSE Put(acc, "..")

Component(rooted, acc, c) ==
  IF c \in {"", "."} THEN acc ELSE IF c = ".." THEN DotDot(rooted, acc) ELSE Put(acc, c)

Nothing(rooted) == [out |-> <<>>, up |-> 0, wl |-> IF rooted THEN 1 ELSE 0]

Components(rooted, s) ==
  FoldLeft(LAMBDA a, c : Component(rooted, a, c), Nothing(rooted), s)

path_cleann(rooted, s) ==
  LET acc == Components(rooted, s)
  IN IF ~rooted /\ acc.out = <<>> THEN [acc EXCEPT !.out = <<".">>, !.wl = @ + 1] ELSE acc

(* path_join, of paths whose bytes fit into its buffer: what is cleaned     *)
(* starts with a separator if the first path is empty.                      *)
path_join ==
  \E s \in SeqOf(Comps, MaxPath), rooted \in BOOLEAN :
    LET clean == path_cleann(rooted, s)
    IN /\ Bytes(rooted, s) < PATH_MAX
       /\ call' = [f |-> "path", rooted |-> rooted, arg |-> s, res |-> clean.out,
                   n |-> IF clean.wl >= PATH_MAX THEN -1 ELSE clean.wl]

-----------------------------------------------------------------------------
strstr(s, t) ==  \* of paths that start and end with a separator
  \E i \in 0..(Len(s) - Len(t)) : SubSeq(s, i + 1, i + Len(t)) = t

(* "/" becomes "//", which no path contains.                                *)
Inside_AtEnd(a, b) == b # <<>> /\ IsSuffix(b, a) \* mutant

Inside(a, b) == b # <<>> /\ strstr(a, b)

(* check_dir_args, of resolved paths.  If the destination does not exist    *)
(* realpath need not say what it has come to, and any path may be compared. *)
check_dir_args ==
  \E src, dst \in Dirs, exists \in BOOLEAN :
    \E dst_abs \in IF exists THEN {dst} ELSE Dirs :
      call' = [f |-> "args", src |-> src, dst |-> dst, exists |-> exists,
               ok |-> src # dst_abs /\ ~Inside(src, dst_abs) /\ ~Inside(dst_abs, src)]

-----------------------------------------------------------------------------
NoTarget == [arch |-> <<>>, sys |-> <<>>, sysver |-> <<>>, suffix |-> <<>>]

First(s, from, c) ==  \* strchr from an index on; 0 if there is none
  IF \E i \in from..Len(s) : s[i] = c
  THEN CHOOSE i \in from..Len(s) : s[i] = c /\ \A j \in from..(i - 1) : s[j] # c
  ELSE 0

Suffix_Last(s, sysp) == LET r == First(Reverse(s), 1, "-") \* mutant: strrchr
                        IN IF Len(s) + 1 - r < sysp THEN 0 ELSE Len(s) + 1 - r

Suffix(s, sysp) == First(s, sysp, "-")

(* target_parse, without VALIDATE: [ok, t].  A dot after the suffix gives   *)
(* the version a negative length, of which malloc has nothing.              *)
target_parse(s) ==
  LET dash == First(s, 1, "-")
      verp == First(s, dash + 1, ".")
      suffixp == Suffix(s, dash + 1)
      endp == Len(s) + 1
      sysend == IF verp # 0 THEN verp ELSE IF suffixp # 0 THEN suffixp ELSE endp
      verend == IF suffixp # 0 THEN suffixp ELSE endp
  IN IF dash = 0 \/ (verp # 0 /\ verend < verp + 1) THEN [ok |-> FALSE, t |-> NoTarget]
     ELSE [ok |-> TRUE,
           t |-> [arch   |-> SubSeq(s, 1, dash - 1),
                  sys    |-> SubSeq(s, dash + 1, sysend - 1),
                  sysver |-> IF verp = 0 THEN <<>> ELSE SubSeq(s, verp + 1, verend - 1),
                  suffix |-> IF suffixp = 0 THEN <<>> ELSE SubSeq(s, suffixp + 1, Len(s))]]

target_str(t) ==
  t.arch \o <<"-">> \o t.sys
    \o (IF t.sysver = <<>> THEN <<>> ELSE <<".">> \o t.sysver)
    \o (IF t.suffix = <<>> THEN <<>> ELSE <<"-">> \o t.suffix)

(* The loop over the directories in main of llvmbox-dedup-target-files.     *)
dedup_target ==
  \E s \in TargetNames :
    call' = [f |-> "target", name |-> s, t |-> target_parse(s).t,
             kept |-> target_parse(s).ok /\ target_str(target_parse(s).t) = s]

-----------------------------------------------------------------------------
NamesInit == call = [f |-> "none"]

NamesNext == call.f = "none" /\ (path_join \/ check_dir_args \/ dedup_target)

NamesSpec == NamesInit /\ [][NamesNext]_call

(* Where a path leads from a directory.                                     *)
Enter(d, c) ==
  IF c \in {"", "."} THEN d
  ELSE IF c = ".." THEN (IF d = <<>> THEN d ELSE Front(d)) ELSE Append(d, c)

Lead(cwd, rooted, s) ==
  FoldLeft(LAMBDA d, c : Enter(d, c), IF rooted THEN <<>> ELSE cwd, s)

(* A cleaned path leads to where the path led, from every directory, and    *)
(* there is nothing left in it to clean.                                    *)
CleanLeads ==
  call.f = "path" =>
    /\ \A cwd \in Cwds : Lead(cwd, call.rooted, call.res) = Lead(cwd, call.rooted, call.arg)
    /\ path_cleann(call.rooted, call.res).out = call.res

(* path_join_dup keeps n + 1 bytes of its allocation: never fewer than the  *)
(* path takes, though n also counts what was taken back.                    *)
JoinKeepsAll ==
  call.f = "path" => call.n >= Bytes(call.rooted, call.res)

(* llvmbox-cpmerge.c:6 "copy_merge is UD if src or dir is inside the other".*)
(* What check_dir_args lets pass is neither, if both exist and neither is   *)
(* the root directory.                                                      *)
ArgsApart ==
  call.f = "args" /\ call.ok /\ call.exists /\ call.src # <<>> /\ call.dst # <<>> =>
    ~IsPrefix(call.src, call.dst) /\ ~IsPrefix(call.dst, call.src)

(* "we rely on the target to get to the dir name", dedup.c:729: of a        *)
(* directory that is kept the target says the name.  None is lost that      *)
(* is written ARCH-SYS[.VER][-SUFFIX], and no field holds a separator that  *)
(* would make two directories one target.                                   *)
TargetNamed ==
  call.f = "target" =>
    /\ call.kept => "-" \notin ToSet(call.t.arch \o call.t.sys \o call.t.sysver)
    /\ (\E t \in [arch : {<<"a">>}, sys : {<<"s">>}, sysver : {<<>>, <<"1">>},
                  suffix : {<<>>, <<"x">>, <<"x", "-", "y">>}] : target_str(t) = call.name)
         => call.kept
=============================================================================
