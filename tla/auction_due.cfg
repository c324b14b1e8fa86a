SPECIFICATION FairSpec
CONSTANTS
  None = None
  Bidders = {b1, b2}
  Crons = {c1}
  Admins = {}
  Users = {u1, u2}
  PaidUsers = {u1, u2}
  Amounts = {1, 2}
  MinValidBid = 1
  MinBid = 2
  MaxBid = None
  Duration = 0
  Extension = 1
  MaxNow = 2
  MaxBids = 3
  MaxFaults = 1
INVARIANTS SettledAgrees WinnerJustified ActiveExcludes ActiveNoDuplicate
PROPERTIES SettledIsFinal ImplementsSale DueIsSettled
CHECK_DEADLOCK FALSE
