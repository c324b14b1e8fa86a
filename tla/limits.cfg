SPECIFICATION FairSpec
CONSTANTS
  Requests = {q1, q2}
  Max <- MCMax
  Window <- MCWindow
  Lifetime = 1
  None = None
  MaxCodes = 2
  MaxFaults = 1
INVARIANTS TypeOK NoImmortalCounter UsesBounded GuessesBounded
PROPERTY RefusalEnds
CHECK_DEADLOCK FALSE
