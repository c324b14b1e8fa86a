SPECIFICATION FairSpec
CONSTANTS
  None = None
  Users = {u1, u2}
  Refs = {}
  Requests = {q1}
  Expirers = {e1}
  Retries = FALSE
  Window = 0
  MaxNow = 1
  MaxFaults = 1
PROPERTIES OverdueIsResolved
CHECK_DEADLOCK FALSE
