SPECIFICATION Spec
CONSTANTS
  None = None
  Bidders = {b1, b2}
  Crons = {c1}
  Admins = {a1}
  Users = {u1, u2}
  PaidUsers = {u1, u2}
  Amounts = {1, 2}
  MinValidBid = 1
  MinBid = 1
  MaxBid = 2
  Duration = 0
  Extension = 1
  MaxNow = 1
  MaxBids = 2
  MaxFaults = 1
SYMMETRY Symmetry
INVARIANTS TypeOK IndexSound WinnerJustified WinnerIsABid
PROPERTIES WinnersImmutable
CHECK_DEADLOCK FALSE
