SPECIFICATION Spec
CONSTANTS
  Tabs = {t1, t2}
  Requests = {q1, q2}
  MaxRetries = 1
  None = None
  MaxLogins = 2
  MaxPending = 1
  MaxReloads = 1
SYMMETRY Symmetry
INVARIANTS TypeOK NobodyIsStranded RefreshIsScheduled UserHasToken NothingIsKept
CHECK_DEADLOCK FALSE
