----------------------------- MODULE MCAccount -----------------------------
(* Instances of Account for TLC. *)
EXTENDS Account, TLC

MCPayer == [r \in Payments |-> CHOOSE u \in Users : TRUE]
MCPaid  == [r \in Payments |-> 1]

Symmetry == Permutations(Verifiers) \cup Permutations(Depositors)

\* Bound: PIN checks run before the first deposit, deposits run while no wrong
\* PIN counts, and the sessions run beside either.  The two work on different
\* columns of the row, and no property relates them.
Apart ==
  \/ \A p \in Depositors : pc[p] = "idle" /\ \A u \in Users : posted[u] = 0
  \/ /\ \A v \in Verifiers : at[v] = "idle"
     /\ \A u \in Users : attempts[u] = 0 /\ locked[u] = None

=============================================================================
