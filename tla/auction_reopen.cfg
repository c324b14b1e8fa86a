SPECIFICATION ReopenSpec
CONSTANTS
  Users = {u1, u2}
  Amounts = {1, 2}
  MinValidBid = 1
  None = None
  Bidders = {b1}
  Crons = {c1}
  Admins = {}
  Editors = {e1}
  PaidUsers = {u1, u2}
  MinBid = 2
  MaxBid = None
  Duration = 0
  Extension = 1
  MaxNow = 2
  MaxBids = 3
  MaxFaults = 1
SYMMETRY Symmetry
INVARIANTS ReopenTypeOK ConfirmedIsKept NextRoundJustified
CHECK_DEADLOCK FALSE
