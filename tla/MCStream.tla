------------------------------ MODULE MCStream ------------------------------
(* Instances of Stream for TLC are given by its constants alone. *)
EXTENDS Stream

=============================================================================
