-------------------------------- MODULE MCQddns --------------------------------
(* Instances of Qddns for TLC: the constants are given in the .cfg files. *)
EXTENDS StatusView, TLC

\* The program only compares addresses with one another.  For the runs that
\* check invariants and action properties.
AddrSymmetry == Permutations(Addr)
=============================================================================
