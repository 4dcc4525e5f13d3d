------------------------------- MODULE MCShim -------------------------------
(* Instances of Shim for TLC are given by its constants alone. *)
EXTENDS Shim, TLC

Symmetry == Permutations(Threads)

=============================================================================
