------------------------------ MODULE MCLimits ------------------------------
(* Instances of Limits for TLC. *)
EXTENDS Limits

MCMax    == [k \in Keys |-> 1]
MCWindow == [k \in Keys |-> IF k = "gate" THEN 2 ELSE 1]

=============================================================================
