---------------------------- MODULE MCBuildDriver ----------------------------
(* build.sh with the scripts of the repository, for TLC. *)
EXTENDS BuildScripts, BuildDriver

(* The whole build and its phases, a script the comment in 028 asks for to  *)
(* be run alone, a dry run, and a call with two prefixes.                   *)
Calls ==
  { << >>, << <<"0", "1">> >>, << <<"0", "2">> >>, << <<"0", "3">> >>, << <<"0", "2", "0">> >>,
    << <<"-v">>, <<"0", "3", "1">> >>, << <<"--dryrun">> >>, << <<"-h">> >>, << <<"0", "1">>, <<"0", "2">> >> }

WithJobs == { << <<"-j">>, <<"0", "3", "3">> >> }
=============================================================================
