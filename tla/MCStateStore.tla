------------------------------ MODULE MCStateStore ------------------------------
(***************************************************************************)
(* StateStore for TLC: the daemon and one qddnsctl process contend for the  *)
(* state directory.  The configuration gives every constant its value.      *)
(***************************************************************************)
EXTENDS StateStore
=============================================================================
