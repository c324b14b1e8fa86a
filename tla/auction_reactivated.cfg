SPECIFICATION Spec
CONSTANTS
  None = None
  Bidders = {b1, b2}
  Crons = {c1, c2}
  Admins = {}
  Users = {u1, u2}
  PaidUsers = {u1, u2}
  Amounts = {1, 2}
  MinValidBid = 1
  MinBid = 2
  MaxBid = None
  Duration = 0
  Extension = 1
  MaxNow = 1
  MaxBids = 3
  MaxFaults = 0
PROPERTIES NotReactivated
CHECK_DEADLOCK FALSE
