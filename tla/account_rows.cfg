SPECIFICATION AccountSpec
CONSTANTS
  None = None
  Users = {u1}
  Fees = {1}
  Deposits = {1}
  Instants = {t1}
  Payments = {r1}
  Payer <- MCPayer
  Paid <- MCPaid
  Depositors = {d1, d2}
  Sessions = {s1}
  MaxDebt = 0
  Verifiers = {v1, v2}
  MaxAttempts = 2
  Lockout = 1
  MaxNow = 2
  MaxWrong = 5
  MaxFaults = 1
SYMMETRY Symmetry
CONSTRAINT Apart
INVARIANTS AccountTypeOK CreditsBounded AttemptsBounded
