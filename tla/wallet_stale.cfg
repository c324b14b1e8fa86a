SPECIFICATION Spec
CONSTANTS
  None = None
  Users = {u1, u2}
  Fees = {1}
  Deposits = {2}
  Instants = {t1}
  Payments = {r1}
  Payer <- MCPayer
  Paid <- MCPaid
  Depositors = {d1}
  Sessions = {s1}
  MaxDebt = 1
INVARIANTS BalanceIsPosted
