------------------------------ MODULE MCReopen ------------------------------
(* Instances of Reopen for TLC. *)
EXTENDS Reopen, TLC

Symmetry == Permutations(Bidders) \cup Permutations(Users)

=============================================================================
