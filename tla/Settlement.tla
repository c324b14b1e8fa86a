----------------------------- MODULE Settlement -----------------------------
(***************************************************************************)
(* What the engine promises of payments through a provider: a transaction  *)
(* is PENDING until the provider has decided, then it says what the        *)
(* provider says and says so for good; and the engine does learn of every  *)
(* decision, whichever webhooks are lost, repeated or late.                *)
(***************************************************************************)
CONSTANTS Refs,      \* client_reference_ids
          None

VARIABLES decided,   \* at the provider: None, "OPEN" or an outcome
          known      \* in payment_transactions: None, "PENDING" or an outcome

Outcomes == {"SUCCESSFUL", "FAILED"}

Init ==
  /\ decided = [r \in Refs |-> None]
  /\ known = [r \in Refs |-> None]

Open(r) ==
  /\ decided[r] = None
  /\ decided' = [decided EXCEPT ![r] = "OPEN"]
  /\ UNCHANGED known

Register(r) ==
  /\ decided[r] # None
  /\ known[r] = None
  /\ known' = [known EXCEPT ![r] = "PENDING"]
  /\ UNCHANGED decided

Decide(r) ==
  /\ decided[r] = "OPEN"
  /\ \E o \in Outcomes : decided' = [decided EXCEPT ![r] = o]
  /\ UNCHANGED known

Learn(r) ==
  /\ known[r] = "PENDING"
  /\ decided[r] \in Outcomes
  /\ known' = [known EXCEPT ![r] = decided[r]]
  /\ UNCHANGED decided

Next == \E r \in Refs : Open(r) \/ Register(r) \/ Decide(r) \/ Learn(r)

Safe == Init /\ [][Next]_<<decided, known>>

Spec == Safe /\ \A r \in Refs : WF_<<decided, known>>(Learn(r))

=============================================================================
