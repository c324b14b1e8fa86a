SPECIFICATION FairSpec
CONSTANTS
  None = None
  Users = {u1}
  Refs = {r1}
  Requests = {q1}
  Expirers = {}
  Retries = FALSE
  Window = 0
  MaxNow = 0
  MaxFaults = 1
PROPERTIES ChargedIsPaid
CHECK_DEADLOCK FALSE
