SPECIFICATION FairSpec
CONSTANTS
  None = None
  Users = {u1}
  Refs = {r1}
  Requests = {q1, q2}
  Expirers = {}
  Retries = FALSE
  Window = 0
  MaxNow = 0
  MaxFaults = 1
INVARIANTS DebitsBounded OneSettles
PROPERTIES FollowsProvider ImplementsSettlement
CHECK_DEADLOCK FALSE
