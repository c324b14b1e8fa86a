------------------------------- MODULE Wallet -------------------------------
(***************************************************************************)
(* The wallet of the identity service: the wallet_balance of the users     *)
(* table and the transactions table (wallet.service.ts), with the requests *)
(* that read a whole users row, hash something, and save the row back:     *)
(* setPin, login and refreshToken.                                         *)
(*                                                                         *)
(* The transactions run at Postgres's READ COMMITTED: a query sees what is *)
(* committed, and only the UPDATE of the users row waits for another       *)
(* transaction.  So the search for the reference of a deposit is a step of *)
(* its own, and its UPDATE, its INSERT and its COMMIT are one.             *)
(*                                                                         *)
(* The transactions table is abstracted to two sums: for each user the     *)
(* amounts of its rows, deposits less fees; for each reference_id the      *)
(* number of rows that have it.                                            *)
(***************************************************************************)
EXTENDS Integers, FiniteSets

CONSTANTS Users,
          Fees,         \* the bid fees
          Deposits,     \* the amounts of POST /wallet/deposit
          Instants,     \* reference_ids of POST /wallet/deposit: deposit_<milliseconds>
          Payments,     \* reference_ids of the fintech provider
          Payer,        \* Payer[r]: the user of payment r
          Paid,         \* Paid[r]: the amount of payment r
          Depositors,   \* processes that execute a deposit or a webhook
          Sessions,     \* processes that execute setPin, login or refreshToken
          None,
          MaxDebt       \* bound: how far fees may exceed deposits

References == Instants \cup Payments

ASSUME WalletAssumption ==
  /\ Fees \subseteq Nat /\ Deposits \subseteq Nat /\ MaxDebt \in Nat
  /\ Payer \in [Payments -> Users] /\ Paid \in [Payments -> Nat]
  /\ Depositors \cap Sessions = {}

VARIABLES balance,    \* wallet_balance of each user
          posted,     \* the sum of the transactions of each user
          credited,   \* the number of transactions with each reference_id
          pc,
          deposit,    \* the arguments of a depositor
          row         \* the users row a session holds: its user and balance

vars == <<balance, posted, credited, pc, deposit, row>>

Sums    == Deposits \cup {Paid[r] : r \in Payments}
Deposit == [user: Users, amount: Sums, reference: References]
UserRow == [user: Users, balance: Nat]

Goto(p, step) == pc' = [pc EXCEPT ![p] = step]

Init ==
  /\ balance = [u \in Users |-> 0]
  /\ posted = [u \in Users |-> 0]
  /\ credited = [r \in References |-> 0]
  /\ pc = [p \in Depositors \cup Sessions |-> "idle"]
  /\ deposit = [p \in Depositors |-> None]
  /\ row = [p \in Sessions |-> None]

-----------------------------------------------------------------------------
(* Deposits. *)

Begin(p, step, user, amount, reference) ==
  /\ pc[p] = "idle"
  /\ deposit' = [deposit EXCEPT ![p] =
       [user |-> user, amount |-> amount, reference |-> reference]]
  /\ Goto(p, step)
  /\ UNCHANGED <<balance, posted, credited, row>>

End(p) ==
  /\ Goto(p, "idle")
  /\ deposit' = [deposit EXCEPT ![p] = None]

\* POST /wallet/deposit: the reference is the millisecond of the request, so
\* two requests may have the same.
RequestDeposit(p) ==
  \E u \in Users, amount \in Deposits, r \in Instants : Begin(p, "find", u, amount, r)

\* POST /wallet/webhook/fintech, COMPLETED: delivered at least once.
ReceiveWebhook(p) ==
  \E r \in Payments : Begin(p, "webhook", Payer[r], Paid[r], r)

\* Mutant of Known: no search.
KnownNever(p) == FALSE

Known(p) == credited[deposit[p].reference] > 0

\* handleFintechWebhook and then deposit look for the reference ...
FindReference(p, step, next) ==
  /\ pc[p] = step
  /\ IF Known(p) THEN End(p) ELSE Goto(p, next) /\ UNCHANGED deposit
  /\ UNCHANGED <<balance, posted, credited, row>>

FindInWebhook(p) == FindReference(p, "webhook", "find")
FindInDeposit(p) == FindReference(p, "find", "credit")

\* ... and the UPDATE, the INSERT and the COMMIT.
Credit(p) ==
  /\ pc[p] = "credit"
  /\ LET d == deposit[p]
     IN /\ balance' = [balance EXCEPT ![d.user] = @ + d.amount]
        /\ posted' = [posted EXCEPT ![d.user] = @ + d.amount]
        /\ credited' = [credited EXCEPT ![d.reference] = @ + 1]
  /\ End(p)
  /\ UNCHANGED row

\* The service dies or the database refuses: the transaction is rolled back.
FailDeposit(p) ==
  /\ pc[p] # "idle"
  /\ End(p)
  /\ UNCHANGED <<balance, posted, credited, row>>

-----------------------------------------------------------------------------
(* Fees. *)

Covers(held, fee) == held >= fee

\* deductBidFee: a conditional UPDATE and an INSERT in one transaction; when
\* the balance does not cover the fee, nothing changes.
DeductFee(u, fee) ==
  /\ Covers(balance[u], fee)
  /\ posted[u] - fee >= 0 - MaxDebt
  /\ balance' = [balance EXCEPT ![u] = @ - fee]
  /\ posted' = [posted EXCEPT ![u] = @ - fee]
  /\ UNCHANGED <<credited, pc, deposit, row>>

-----------------------------------------------------------------------------
(* Whole rows. *)

\* setPin, login and refreshToken read the row; bcrypt takes its time ...
ReadUser(s) ==
  /\ pc[s] = "idle"
  /\ \E u \in Users : row' = [row EXCEPT ![s] = [user |-> u, balance |-> balance[u]]]
  /\ Goto(s, "save")
  /\ UNCHANGED <<balance, posted, credited, deposit>>

\* ... and userRepository.save writes every column that differs, the balance
\* with them.
SaveUser(s) ==
  /\ pc[s] = "save"
  /\ balance' = [balance EXCEPT ![row[s].user] = row[s].balance]
  /\ row' = [row EXCEPT ![s] = None]
  /\ Goto(s, "idle")
  /\ UNCHANGED <<posted, credited, deposit>>

-----------------------------------------------------------------------------

DepositStep(p) ==
  \/ RequestDeposit(p) \/ ReceiveWebhook(p) \/ FindInWebhook(p) \/ FindInDeposit(p)
  \/ Credit(p) \/ FailDeposit(p)

Next ==
  \/ \E p \in Depositors : DepositStep(p)
  \/ \E u \in Users, fee \in Fees : DeductFee(u, fee)
  \/ \E s \in Sessions : ReadUser(s) \/ SaveUser(s)

Spec == Init /\ [][Next]_vars

-----------------------------------------------------------------------------

\* No wallet is overdrawn, whatever is deducted and whichever old row is saved
\* (balance is in Nat), and every process has what its place in the code reads.
TypeOK ==
  /\ balance \in [Users -> Nat]
  /\ posted \in [Users -> Int]
  /\ credited \in [References -> Nat]
  /\ pc \in [Depositors \cup Sessions -> {"idle", "webhook", "find", "credit", "save"}]
  /\ deposit \in [Depositors -> Deposit \cup {None}]
  /\ row \in [Sessions -> UserRow \cup {None}]
  /\ \A p \in Depositors : pc[p] # "idle" => deposit[p] \in Deposit
  /\ \A s \in Sessions : pc[s] # "idle" => row[s] \in UserRow

\* A reference is credited once, and at most once more for each process that
\* executes a deposit beside the first: the search finds only what is committed,
\* and no constraint keeps a second row with the same reference_id out.  (That
\* "duplicate webhook deliveries do not result in double crediting" is so for
\* deliveries one after another, and not for those that overlap.)
CreditsBounded == \A r \in References : credited[r] <= Cardinality(Depositors)

\* The balance of a user is what the transactions of the user sum up to.
BalanceIsPosted == \A u \in Users : balance[u] = posted[u]

Promise == INSTANCE Ledger WITH
  Changes <- Sums \cup {0 - fee : fee \in Fees}

\* Deposits, webhooks and fees are postings of the ledger and nothing else
\* changes a balance, as long as no session saves a users row.
ImplementsLedger == Promise!Spec

=============================================================================
