------------------------------- MODULE Ledger -------------------------------
(***************************************************************************)
(* What the wallet promises: every change of a balance is posted with it,  *)
(* and no balance is overdrawn.  "posted" is, for each user, the sum of    *)
(* the rows of the transactions table: deposits less fees.                 *)
(***************************************************************************)
EXTENDS Integers

CONSTANTS Users,
          Changes     \* the amounts that can be posted, of either sign

VARIABLES balance, posted

Init ==
  /\ balance = [u \in Users |-> 0]
  /\ posted  = [u \in Users |-> 0]

Post(u, change) ==
  /\ balance[u] + change >= 0
  /\ balance' = [balance EXCEPT ![u] = @ + change]
  /\ posted'  = [posted EXCEPT ![u] = @ + change]

Next == \E u \in Users, change \in Changes : Post(u, change)

Spec == Init /\ [][Next]_<<balance, posted>>

=============================================================================
