SPECIFICATION Spec
CONSTANTS
  None = None
  Users = {u1, u2}
  Refs = {r1}
  Requests = {q1}
  Expirers = {e1}
  Retries = FALSE
  Window = 0
  MaxNow = 1
  MaxFaults = 0
SYMMETRY Symmetry
INVARIANTS TypeOK SuccessIsPaidFor PaidIsPaidFor
CHECK_DEADLOCK FALSE
