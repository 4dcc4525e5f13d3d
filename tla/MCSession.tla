------------------------------ MODULE MCSession ------------------------------
(* Instances of Session for TLC are given by its constants alone. *)
EXTENDS Session, TLC

Symmetry == Permutations(Handlers) \cup Permutations(Contents)

=============================================================================
