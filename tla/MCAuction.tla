----------------------------- MODULE MCAuction -----------------------------
(* Instances of Auction for TLC.  The requests are alike, and so are the runs
   of the cron; and so are the users when all of them have paid the fee. *)
EXTENDS Auction, TLC

ProcessSymmetry == Permutations(Bidders) \cup Permutations(Crons)

Symmetry == ProcessSymmetry \cup Permutations(Users)

=============================================================================
