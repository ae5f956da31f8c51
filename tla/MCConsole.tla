------------------------------- MODULE MCConsole -------------------------------
(* Console for TLC. *)
EXTENDS Console, TLC

\* Nothing depends on which calls they are.
Symmetry == Permutations(Calls)
================================================================================
