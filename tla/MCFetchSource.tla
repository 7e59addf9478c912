---------------------------- MODULE MCFetchSource ----------------------------
(* Instances of FetchSource for TLC. *)
EXTENDS FetchSource
=============================================================================
