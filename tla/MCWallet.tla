------------------------------ MODULE MCWallet ------------------------------
(* Instances of Wallet for TLC: every payment is made by some user, with an
   amount that no deposit has. *)
EXTENDS Wallet, TLC

MCPayer == [r \in Payments |-> CHOOSE u \in Users : TRUE]
MCPaid  == [r \in Payments |-> 3]

Symmetry == Permutations(Depositors)

=============================================================================
