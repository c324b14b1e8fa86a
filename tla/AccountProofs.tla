---------------------------- MODULE AccountProofs ----------------------------
(***************************************************************************)
(* Theorems of the wallet and of its PIN, for any users, amounts,          *)
(* references, requests, limits and failures.                              *)
(***************************************************************************)
EXTENDS Account, FiniteSetTheorems, TLAPS

-----------------------------------------------------------------------------
(* The balance. *)

LEMMA InitType == Init => TypeOK
BY DEF Init, TypeOK

LEMMA DepositType ==
  ASSUME TypeOK, NEW p \in Depositors, DepositStep(p)
  PROVE  TypeOK'
<1> USE WalletAssumption DEF Begin, End, Goto, Deposit, Sums, References, TypeOK
<1>1. CASE RequestDeposit(p)
  <2>1. PICK u \in Users, amount \in Deposits, r \in Instants : Begin(p, "find", u, amount, r)
    BY <1>1 DEF RequestDeposit
  <2>2. [user |-> u, amount |-> amount, reference |-> r] \in Deposit
    OBVIOUS
  <2> QED
    BY <2>1, <2>2
<1>2. CASE ReceiveWebhook(p)
  <2>1. PICK r \in Payments : Begin(p, "webhook", Payer[r], Paid[r], r)
    BY <1>2 DEF ReceiveWebhook
  <2>2. [user |-> Payer[r], amount |-> Paid[r], reference |-> r] \in Deposit
    OBVIOUS
  <2> QED
    BY <2>1, <2>2
<1>3. CASE FindInWebhook(p)
  BY <1>3 DEF FindInWebhook, FindReference
<1>4. CASE FindInDeposit(p)
  BY <1>4 DEF FindInDeposit, FindReference
<1>5. CASE Credit(p)
  <2>1. deposit[p] \in Deposit
    BY <1>5 DEF Credit
  <2>2. /\ deposit[p].user \in Users /\ deposit[p].amount \in Nat
        /\ deposit[p].reference \in References
    BY <2>1
  <2> QED
    BY <1>5, <2>2 DEF Credit
<1>6. CASE FailDeposit(p)
  BY <1>6 DEF FailDeposit
<1> QED
  BY <1>1, <1>2, <1>3, <1>4, <1>5, <1>6 DEF DepositStep

LEMMA FeeType ==
  ASSUME TypeOK, NEW u \in Users, NEW fee \in Fees, DeductFee(u, fee)
  PROVE  TypeOK'
<1>1. fee \in Nat /\ balance[u] - fee \in Nat
  BY WalletAssumption DEF DeductFee, Covers, TypeOK
<1> QED
  BY <1>1 DEF DeductFee, TypeOK

LEMMA SessionType ==
  ASSUME TypeOK, NEW s \in Sessions, ReadUser(s) \/ SaveUser(s)
  PROVE  TypeOK'
<1> USE WalletAssumption DEF Goto, UserRow, TypeOK
<1>1. CASE ReadUser(s)
  <2>1. PICK u \in Users : row' = [row EXCEPT ![s] = [user |-> u, balance |-> balance[u]]]
    BY <1>1 DEF ReadUser
  <2>2. [user |-> u, balance |-> balance[u]] \in UserRow
    OBVIOUS
  <2> QED
    BY <1>1, <2>1, <2>2 DEF ReadUser
<1>2. CASE SaveUser(s)
  BY <1>2 DEF SaveUser
<1> QED
  BY <1>1, <1>2

LEMMA NextType == TypeOK /\ [Next]_vars => TypeOK'
<1> SUFFICES ASSUME TypeOK, [Next]_vars PROVE TypeOK'
  OBVIOUS
<1>1. CASE UNCHANGED vars
  BY <1>1 DEF vars, TypeOK
<1>2. CASE Next
  BY <1>2, DepositType, FeeType, SessionType DEF Next
<1> QED
  BY <1>1, <1>2

(* No wallet is ever overdrawn: not by fees that are deducted at once, and not
   by a session that writes an old balance back. *)
THEOREM NeverOverdrawn == Spec => []TypeOK
BY InitType, NextType, PTL DEF Spec

-----------------------------------------------------------------------------
(* References. *)

\* The deposits that found no row with the reference r and are to insert one.
Crediting(r) == {p \in Depositors : pc[p] = "credit" /\ deposit[p].reference = r}

\* Once a reference is credited nobody joins those who are about to credit it.
CreditInv ==
  \A r \in References :
    credited[r] > 0 => credited[r] + Cardinality(Crediting(r)) <= Cardinality(Depositors)

LEMMA CreditingFinite ==
  ASSUME IsFiniteSet(Depositors), NEW r
  PROVE  /\ IsFiniteSet(Crediting(r)) /\ Cardinality(Crediting(r)) \in Nat
         /\ Cardinality(Crediting(r)) <= Cardinality(Depositors)
         /\ Cardinality(Depositors) \in Nat
<1>1. Crediting(r) \subseteq Depositors
  BY DEF Crediting
<1> QED
  BY <1>1, FS_Subset, FS_CardinalityType

\* Who is about to credit a credited reference was so before.
LEMMA NoneJoins ==
  ASSUME IsFiniteSet(Depositors), CreditInv, TypeOK, UNCHANGED credited,
         \A r \in References : credited[r] > 0 => Crediting(r)' \subseteq Crediting(r)
  PROVE  CreditInv'
<1> SUFFICES ASSUME NEW r \in References, credited[r] > 0
             PROVE  credited[r] + Cardinality(Crediting(r)') <= Cardinality(Depositors)
  BY DEF CreditInv
<1>1. /\ Cardinality(Crediting(r)') <= Cardinality(Crediting(r))
      /\ Cardinality(Crediting(r)') \in Nat
  BY CreditingFinite, FS_Subset, FS_CardinalityType
<1>2. credited[r] \in Nat /\ Cardinality(Crediting(r)) \in Nat /\ Cardinality(Depositors) \in Nat
  BY CreditingFinite DEF TypeOK
<1> QED
  BY <1>1, <1>2 DEF CreditInv

LEMMA CreditCounts ==
  ASSUME IsFiniteSet(Depositors), CreditInv, TypeOK, NEW p \in Depositors, Credit(p)
  PROVE  CreditInv'
<1> SUFFICES ASSUME NEW r \in References, credited'[r] > 0
             PROVE  credited'[r] + Cardinality(Crediting(r)') <= Cardinality(Depositors)
  BY DEF CreditInv
<1>1. /\ credited[r] \in Nat /\ deposit[p].reference \in References
      /\ p \in Depositors \cup Sessions
  BY DEF TypeOK, Credit, Deposit
<1>2. /\ pc[p] = "credit" /\ pc'[p] = "idle"
      /\ \A q \in Depositors \ {p} : pc'[q] = pc[q] /\ deposit'[q] = deposit[q]
      /\ credited' = [credited EXCEPT ![deposit[p].reference] = @ + 1]
  BY <1>1 DEF Credit, End, Goto, TypeOK
<1>3. Crediting(r)' = Crediting(r) \ {p}
  BY <1>2 DEF Crediting
<1>4. /\ IsFiniteSet(Crediting(r)) /\ Cardinality(Crediting(r)) \in Nat
      /\ Cardinality(Crediting(r)) <= Cardinality(Depositors)
      /\ Cardinality(Depositors) \in Nat
  BY CreditingFinite
<1>5. CASE deposit[p].reference = r
  <2>1. p \in Crediting(r)
    BY <1>2, <1>5 DEF Crediting
  <2>2. Cardinality(Crediting(r)') = Cardinality(Crediting(r)) - 1
    BY <1>3, <1>4, <2>1, FS_RemoveElement
  <2>3. credited'[r] = credited[r] + 1
    BY <1>2, <1>5 DEF TypeOK
  <2>4. credited[r] > 0 => credited[r] + Cardinality(Crediting(r)) <= Cardinality(Depositors)
    BY DEF CreditInv
  <2> QED
    BY <1>1, <1>4, <2>2, <2>3, <2>4
<1>6. CASE deposit[p].reference # r
  <2>1. credited'[r] = credited[r]
    BY <1>2, <1>6 DEF TypeOK
  <2>2. Crediting(r)' = Crediting(r)
    BY <1>3, <1>6 DEF Crediting
  <2> QED
    BY <2>1, <2>2 DEF CreditInv
<1> QED
  BY <1>5, <1>6

LEMMA NextCredit ==
  ASSUME IsFiniteSet(Depositors), CreditInv, TypeOK, [Next]_vars
  PROVE  CreditInv'
<1>1. ASSUME NEW p \in Depositors, DepositStep(p), ~Credit(p)
      PROVE  CreditInv'
  <2>1. credited' = credited /\ p \in Depositors \cup Sessions
    BY <1>1 DEF DepositStep, RequestDeposit, ReceiveWebhook, FindInWebhook, FindInDeposit,
                FindReference, FailDeposit, Begin
  <2>2. \A q \in Depositors \ {p} : pc'[q] = pc[q] /\ deposit'[q] = deposit[q]
    BY <1>1, <2>1 DEF TypeOK, DepositStep, RequestDeposit, ReceiveWebhook, FindInWebhook,
                FindInDeposit, FindReference, FailDeposit, Begin, End, Goto
  <2>3. ASSUME pc'[p] = "credit"
        PROVE  deposit'[p] = deposit[p] /\ ~Known(p)
    <3>1. FindInDeposit(p)
      BY <1>1, <2>1, <2>3 DEF TypeOK, DepositStep, RequestDeposit, ReceiveWebhook, FindInWebhook,
                  FindReference, FailDeposit, Begin, End, Goto
    <3> QED
      BY <2>1, <2>3, <3>1 DEF TypeOK, FindInDeposit, FindReference, End, Goto
  <2>4. ASSUME NEW r \in References, credited[r] > 0
        PROVE  Crediting(r)' \subseteq Crediting(r)
    <3> SUFFICES ASSUME NEW q \in Crediting(r)'
                 PROVE  q \in Crediting(r)
      OBVIOUS
    <3>1. q \in Depositors /\ pc'[q] = "credit" /\ deposit'[q].reference = r
      BY DEF Crediting
    <3>2. q # p
      BY <2>3, <2>4, <3>1 DEF Known
    <3> QED
      BY <2>2, <3>1, <3>2 DEF Crediting
  <2> QED
    BY <2>1, <2>4, NoneJoins
<1>2. CASE \E u \in Users, fee \in Fees : DeductFee(u, fee)
  BY <1>2, NoneJoins DEF DeductFee, Crediting
<1>3. ASSUME NEW s \in Sessions, ReadUser(s) \/ SaveUser(s)
      PROVE  CreditInv'
  <2>1. UNCHANGED <<credited, deposit>> /\ \A q \in Depositors : pc'[q] = pc[q]
    BY <1>3, WalletAssumption DEF TypeOK, ReadUser, SaveUser, Goto
  <2> QED
    BY <2>1, NoneJoins DEF Crediting
<1>4. CASE UNCHANGED vars
  BY <1>4, NoneJoins DEF vars, Crediting
<1> QED
  BY <1>1, <1>2, <1>3, <1>4, CreditCounts DEF Next

LEMMA AccountIsWallet == (AccountInit => Init) /\ ([AccountNext]_<<vars, pinVars>> => [Next]_vars)
BY DEF AccountInit, AccountNext, MoneyStep, ReadRow, SaveRow, vars, pinVars, Next

(* However many deposits and webhooks with one reference overlap and fail, no
   more are credited than can be under way at once: a repetition that begins
   after the first is credited finds it.  So it is with and without the PINs. *)
THEOREM CreditsAreBounded ==
  ASSUME IsFiniteSet(Depositors)
  PROVE  (Spec => []CreditsBounded) /\ (AccountSpec => []CreditsBounded)
<1>1. Init => TypeOK /\ CreditInv
  BY InitType DEF Init, CreditInv
<1>2. (TypeOK /\ CreditInv) /\ [Next]_vars => (TypeOK /\ CreditInv)'
  BY NextType, NextCredit
<1>3. TypeOK /\ CreditInv => CreditsBounded
  BY CreditingFinite DEF TypeOK, CreditInv, CreditsBounded
<1>4. Spec => []CreditsBounded
  BY <1>1, <1>2, <1>3, PTL DEF Spec
<1>5. AccountSpec => []CreditsBounded
  BY <1>1, <1>2, <1>3, AccountIsWallet, PTL DEF AccountSpec
<1> QED
  BY <1>4, <1>5

-----------------------------------------------------------------------------
(* Balances and transactions. *)

(* Without sessions the wallet implements the ledger: each of its steps posts
   one change or none. *)
THEOREM WalletImplementsLedger ==
  ASSUME Sessions = {}
  PROVE  Spec => ImplementsLedger
<1> USE WalletAssumption
<1>1. Init => Promise!Init
  BY DEF Init, Promise!Init
<1>2. TypeOK /\ [Next]_vars => [Promise!Next]_<<balance, posted>>
  <2> SUFFICES ASSUME TypeOK, [Next]_vars PROVE [Promise!Next]_<<balance, posted>>
    OBVIOUS
  <2>1. ASSUME NEW p \in Depositors, DepositStep(p)
        PROVE  [Promise!Next]_<<balance, posted>>
    <3>1. CASE Credit(p)
      <4>1. deposit[p].user \in Users /\ deposit[p].amount \in Sums
        BY <3>1 DEF Credit, TypeOK, Deposit
      <4>2. deposit[p].amount \in Nat
        BY <4>1 DEF Sums
      <4>3. Promise!Post(deposit[p].user, deposit[p].amount)
        BY <3>1, <4>1, <4>2 DEF Credit, TypeOK, Promise!Post
      <4> QED
        BY <4>1, <4>3 DEF Promise!Next
    <3>2. CASE ~Credit(p)
      BY <2>1, <3>2 DEF DepositStep, RequestDeposit, ReceiveWebhook, FindInWebhook,
                        FindInDeposit, FindReference, FailDeposit, Begin
    <3> QED
      BY <3>1, <3>2
  <2>2. ASSUME NEW u \in Users, NEW fee \in Fees, DeductFee(u, fee)
        PROVE  Promise!Next
    <3>1. fee \in Nat /\ balance[u] \in Nat /\ posted[u] \in Int
      BY DEF TypeOK
    <3>2. /\ balance[u] + (0 - fee) >= 0
          /\ balance[u] + (0 - fee) = balance[u] - fee
          /\ posted[u] + (0 - fee) = posted[u] - fee
      BY <2>2, <3>1 DEF DeductFee, Covers
    <3>3. Promise!Post(u, 0 - fee)
      BY <2>2, <3>2 DEF DeductFee, Promise!Post
    <3> QED
      BY <3>3 DEF Promise!Next
  <2> QED
    BY <2>1, <2>2 DEF Next, vars
<1> QED
  BY <1>1, <1>2, NeverOverdrawn, PTL DEF Spec, ImplementsLedger, Promise!Spec

\* Only the rows that sessions save set a balance apart from its transactions.
THEOREM BalanceFollows ==
  ASSUME Sessions = {}
  PROVE  Spec => []BalanceIsPosted
<1>1. Init => TypeOK /\ BalanceIsPosted
  BY InitType DEF Init, BalanceIsPosted
<1>2. TypeOK /\ BalanceIsPosted /\ [Next]_vars => (TypeOK /\ BalanceIsPosted)'
  <2> SUFFICES ASSUME TypeOK, BalanceIsPosted, [Next]_vars PROVE BalanceIsPosted'
    BY NextType
  <2>1. ASSUME NEW p \in Depositors, DepositStep(p)
        PROVE  BalanceIsPosted'
    BY <2>1 DEF TypeOK, BalanceIsPosted, DepositStep, RequestDeposit, ReceiveWebhook,
                FindInWebhook, FindInDeposit, FindReference, Credit, FailDeposit, Begin
  <2>2. ASSUME NEW u \in Users, NEW fee \in Fees, DeductFee(u, fee)
        PROVE  BalanceIsPosted'
    BY <2>2 DEF TypeOK, BalanceIsPosted, DeductFee
  <2> QED
    BY <2>1, <2>2 DEF Next, vars, BalanceIsPosted
<1> QED
  BY <1>1, <1>2, PTL DEF Spec

-----------------------------------------------------------------------------
(* The PIN. *)

LEMMA InitAccountType == AccountInit => AccountTypeOK
<1> SUFFICES ASSUME AccountInit PROVE AccountTypeOK
  OBVIOUS
<1>1. TypeOK
  BY InitType DEF AccountInit
<1> QED
  BY <1>1 DEF AccountInit, Init, AccountTypeOK

\* What Finish leaves of the request of v.
LEMMA FinishType ==
  ASSUME AccountTypeOK, NEW v \in Verifiers, Finish(v)
  PROVE  /\ at' \in [Verifiers -> {"idle", "reset", "compare", "clear", "count", "lock"}]
         /\ who' \in [Verifiers -> Users \cup {None}]
         /\ had' \in [Verifiers -> BOOLEAN]
         /\ \A w \in Verifiers : at'[w] # "idle" => who'[w] \in Users
BY DEF Finish, Move, AccountTypeOK

\* The steps of verifyPin; they leave the variables of Wallet alone.
LEMMA PinType ==
  ASSUME AccountTypeOK, NEW v \in Verifiers, PinStep(v), UNCHANGED vars
  PROVE  AccountTypeOK'
<1>0. TypeOK' /\ UNCHANGED pc
  BY DEF vars, AccountTypeOK, TypeOK
<1> USE <1>0, AccountAssumption
<1>1. CASE ReadPin(v)
  <2>1. PICK u \in Users :
          /\ who' = [who EXCEPT ![v] = u]
          /\ had' = [had EXCEPT ![v] = attempts[u] > 0 \/ locked[u] # None]
          /\ Move(v, IF LockIsOver(u) THEN "reset" ELSE "compare")
    BY <1>1 DEF ReadPin
  <2>2. (attempts[u] > 0 \/ locked[u] # None) \in BOOLEAN
    OBVIOUS
  <2>3. had' \in [Verifiers -> BOOLEAN]
    BY <2>1, <2>2 DEF AccountTypeOK
  <2>4. at' \in [Verifiers -> {"idle", "reset", "compare", "clear", "count", "lock"}]
    BY <2>1 DEF Move, AccountTypeOK
  <2>5. who' \in [Verifiers -> Users \cup {None}]
    BY <2>1 DEF AccountTypeOK
  <2>6. \A w \in Verifiers : at'[w] # "idle" => who'[w] \in Users
    BY <2>1 DEF Move, AccountTypeOK
  <2> QED
    BY <1>1, <2>3, <2>4, <2>5, <2>6 DEF ReadPin, AccountTypeOK
<1>2. CASE ResetLock(v)
  BY <1>2 DEF ResetLock, ResetColumns, Move, AccountTypeOK
<1>3. CASE WrongPin(v)
  BY <1>3 DEF WrongPin, Move, AccountTypeOK
<1>4. CASE RightPin(v)
  <2>1. CASE had[v]
    BY <1>4, <2>1 DEF RightPin, Move, AccountTypeOK
  <2>2. CASE ~had[v]
    BY <1>4, <2>2, FinishType DEF RightPin, AccountTypeOK
  <2> QED
    BY <2>1, <2>2
<1>5. CASE ClearPin(v)
  <2>1. attempts' \in [Users -> Nat] /\ locked' \in [Users -> Nat \cup {None}]
    BY <1>5 DEF ClearPin, ResetColumns, AccountTypeOK
  <2> QED
    BY <1>5, <2>1, FinishType DEF ClearPin, AccountTypeOK
<1>6. CASE CountAttempts(v)
  <2>1. CASE TooMany(attempts[who[v]])
    BY <1>6, <2>1 DEF CountAttempts, Move, AccountTypeOK
  <2>2. CASE ~TooMany(attempts[who[v]])
    BY <1>6, <2>2, FinishType DEF CountAttempts, AccountTypeOK
  <2> QED
    BY <2>1, <2>2
<1>7. CASE LockPin(v)
  <2>1. now + Lockout \in Nat
    BY DEF AccountTypeOK
  <2>2. locked' \in [Users -> Nat \cup {None}]
    BY <1>7, <2>1 DEF LockPin, AccountTypeOK
  <2> QED
    BY <1>7, <2>2, FinishType DEF LockPin, AccountTypeOK
<1>8. CASE AbortPin(v)
  <2>1. faults' \in Nat
    BY <1>8 DEF AbortPin, AccountTypeOK
  <2> QED
    BY <1>8, <2>1, FinishType DEF AbortPin, AccountTypeOK
<1> QED
  BY <1>1, <1>2, <1>3, <1>4, <1>5, <1>6, <1>7, <1>8 DEF PinStep

\* A session reads the whole row, and writes the whole row.
LEMMA RowType ==
  ASSUME AccountTypeOK, NEW s \in Sessions, ReadRow(s) \/ SaveRow(s)
  PROVE  AccountTypeOK'
<1>0. TypeOK
  BY DEF AccountTypeOK
<1>1. CASE ReadRow(s)
  <2>1. TypeOK' /\ row'[s] \in UserRow /\ pc' = [pc EXCEPT ![s] = "save"]
    <3>1. TypeOK'
      BY <1>0, <1>1, SessionType DEF ReadRow
    <3>2. pc' = [pc EXCEPT ![s] = "save"]
      BY <1>1 DEF ReadRow, ReadUser, Goto
    <3> QED
      BY <1>0, <3>1, <3>2, WalletAssumption DEF TypeOK
  <2>2. row'[s].user \in Users
    BY <2>1 DEF UserRow
  <2>3. [attempts |-> attempts[row'[s].user], locked |-> locked[row'[s].user]] \in PinRow
    BY <2>2 DEF AccountTypeOK, PinRow
  <2>4. pinRow' = [pinRow EXCEPT ![s] =
           [attempts |-> attempts[row'[s].user], locked |-> locked[row'[s].user]]]
    BY <1>1 DEF ReadRow
  <2>5. /\ pinRow' \in [Sessions -> PinRow \cup {None}]
        /\ \A q \in Sessions : pc'[q] # "idle" => pinRow'[q] \in PinRow
    BY <1>0, <2>1, <2>3, <2>4, WalletAssumption DEF AccountTypeOK, TypeOK
  <2> QED
    BY <1>1, <2>1, <2>5 DEF ReadRow, verifier, AccountTypeOK
<1>2. CASE SaveRow(s)
  <2>1. TypeOK'
    BY <1>0, <1>2, SessionType DEF SaveRow
  <2>2. row[s].user \in Users /\ pinRow[s] \in PinRow /\ pc' = [pc EXCEPT ![s] = "idle"]
    BY <1>0, <1>2, WalletAssumption DEF SaveRow, SaveUser, Goto, AccountTypeOK, TypeOK, UserRow
  <2>3. /\ attempts' \in [Users -> Nat] /\ locked' \in [Users -> Nat \cup {None}]
        /\ rewound' \subseteq Users
    BY <1>2, <2>2 DEF SaveRow, AccountTypeOK, PinRow
  <2>4. /\ pinRow' \in [Sessions -> PinRow \cup {None}]
        /\ \A q \in Sessions : pc'[q] # "idle" => pinRow'[q] \in PinRow
    BY <1>0, <1>2, <2>2, WalletAssumption DEF SaveRow, AccountTypeOK, TypeOK
  <2> QED
    BY <1>2, <2>1, <2>3, <2>4 DEF SaveRow, verifier, AccountTypeOK
<1> QED
  BY <1>1, <1>2

\* Deposits and fees.
LEMMA MoneyType ==
  ASSUME AccountTypeOK, MoneyStep, UNCHANGED pinVars
  PROVE  AccountTypeOK'
<1>0. TypeOK
  BY DEF AccountTypeOK
<1>1. TypeOK'
  BY <1>0, DepositType, FeeType DEF MoneyStep
<1>2. \A s \in Sessions : pc'[s] = pc[s]
  BY <1>0, WalletAssumption DEF MoneyStep, DepositStep, RequestDeposit, ReceiveWebhook, FindInWebhook,
     FindInDeposit, FindReference, Credit, FailDeposit, DeductFee, Begin, End, Goto, TypeOK
<1> QED
  BY <1>1, <1>2 DEF pinVars, AccountTypeOK

LEMMA NextAccountType == AccountTypeOK /\ [AccountNext]_<<vars, pinVars>> => AccountTypeOK'
<1> SUFFICES ASSUME AccountTypeOK, [AccountNext]_<<vars, pinVars>> PROVE AccountTypeOK'
  OBVIOUS
<1>1. CASE UNCHANGED <<vars, pinVars>>
  BY <1>1 DEF vars, pinVars, AccountTypeOK, TypeOK
<1>2. CASE AccountTick /\ UNCHANGED vars
  BY <1>2 DEF AccountTick, verifier, vars, AccountTypeOK, TypeOK
<1> QED
  BY <1>1, <1>2, PinType, RowType, MoneyType DEF AccountNext

(* No balance is ever negative, whatever PINs are checked and whichever whole
   rows are saved meanwhile; and a request always has the user and a session
   the row that its place in the code works on. *)
THEOREM AccountTypeCorrect == AccountSpec => []AccountTypeOK
BY InitAccountType, NextAccountType, PTL DEF AccountSpec

-----------------------------------------------------------------------------
(* The guesses of a PIN.  Before the lock every wrong PIN past the limit has a *)
(* request that is about to lock, or that ended before it did; after it only   *)
(* the requests that were let in before are still to count.                    *)

Locking(u)   == {v \in Verifiers : at[v] \in {"count", "lock"} /\ who[v] = u}
Comparing(u) == {v \in Verifiers : at[v] = "compare" /\ who[v] = u}

Limited(u) ==
  \/ u \in rewound
  \/ locked[u] = None /\ attempts[u] < MaxAttempts + Cardinality(Locking(u)) + faults
  \/ /\ locked[u] # None
     /\ attempts[u] + Cardinality(Comparing(u)) < MaxAttempts + Cardinality(Verifiers) + faults

LimitInv == \A u \in Users : Limited(u)

LEMMA RequestsOf ==
  ASSUME IsFiniteSet(Verifiers), NEW u
  PROVE  /\ IsFiniteSet(Locking(u)) /\ IsFiniteSet(Comparing(u))
         /\ Cardinality(Locking(u)) \in Nat /\ Cardinality(Comparing(u)) \in Nat
         /\ Cardinality(Verifiers) \in Nat
         /\ Cardinality(Locking(u)) + Cardinality(Comparing(u)) <= Cardinality(Verifiers)
<1>1. Locking(u) \subseteq Verifiers /\ Comparing(u) \subseteq Verifiers
  BY DEF Locking, Comparing
<1>2. /\ IsFiniteSet(Locking(u)) /\ IsFiniteSet(Comparing(u))
      /\ Cardinality(Locking(u)) \in Nat /\ Cardinality(Comparing(u)) \in Nat
      /\ Cardinality(Verifiers) \in Nat
  BY <1>1, FS_Subset, FS_CardinalityType
<1>3. Locking(u) \cap Comparing(u) = {}
  BY DEF Locking, Comparing
<1>4. Cardinality(Locking(u) \cup Comparing(u))
        = Cardinality(Locking(u)) + Cardinality(Comparing(u)) - Cardinality({})
  BY <1>2, <1>3, FS_Union
<1>5. Cardinality({}) = 0
  BY FS_EmptySet
<1>6. Cardinality(Locking(u) \cup Comparing(u)) <= Cardinality(Verifiers)
  BY <1>1, FS_Subset
<1> QED
  BY <1>2, <1>4, <1>5, <1>6

\* A request of another user, or one that neither counts nor compares, changes
\* nothing for u.
LEMMA SameRequests ==
  ASSUME NEW u, NEW v \in Verifiers, \A w \in Verifiers \ {v} : at'[w] = at[w] /\ who'[w] = who[w],
         at[v] \in {"count", "lock", "compare"} => who[v] # u,
         at'[v] \in {"count", "lock", "compare"} => who'[v] # u
  PROVE  Locking(u)' = Locking(u) /\ Comparing(u)' = Comparing(u)
BY DEF Locking, Comparing

LEMMA MoveOthers ==
  ASSUME AccountTypeOK, NEW v \in Verifiers, NEW step, Move(v, step), who' = who
  PROVE  at'[v] = step /\ \A w \in Verifiers \ {v} : at'[w] = at[w] /\ who'[w] = who[w]
BY DEF Move, AccountTypeOK

LEMMA FinishOthers ==
  ASSUME AccountTypeOK, NEW v \in Verifiers, Finish(v)
  PROVE  at'[v] = "idle" /\ \A w \in Verifiers \ {v} : at'[w] = at[w] /\ who'[w] = who[w]
BY DEF Finish, Move, AccountTypeOK

\* No attempts and no lock are within the limit, whoever is under way.
LEMMA ResetLimited ==
  ASSUME IsFiniteSet(Verifiers), AccountTypeOK, NEW u, NEW n \in Nat
  PROVE  0 < MaxAttempts + Cardinality(Locking(u)') + n
<1>1. Locking(u)' \subseteq Verifiers
  BY DEF Locking
<1>2. Cardinality(Locking(u)') \in Nat
  BY <1>1, FS_Subset, FS_CardinalityType
<1> QED
  BY <1>2, AccountAssumption

LEMMA PinLimited ==
  ASSUME IsFiniteSet(Verifiers), AccountTypeOK, LimitInv, NEW v \in Verifiers, PinStep(v),
         NEW u \in Users
  PROVE  Limited(u)'
<1>0. /\ attempts[u] \in Nat /\ faults \in Nat /\ MaxAttempts \in Nat \ {0} /\ Limited(u)
      /\ at[v] # "idle" => who[v] \in Users
      /\ attempts \in [Users -> Nat] /\ locked \in [Users -> Nat \cup {None}]
  BY AccountAssumption DEF AccountTypeOK, LimitInv
<1>a. /\ IsFiniteSet(Locking(u)) /\ IsFiniteSet(Comparing(u))
      /\ Cardinality(Locking(u)) \in Nat /\ Cardinality(Comparing(u)) \in Nat
      /\ Cardinality(Verifiers) \in Nat
      /\ Cardinality(Locking(u)) + Cardinality(Comparing(u)) <= Cardinality(Verifiers)
  BY RequestsOf
<1>b. rewound' = rewound
  BY DEF PinStep, ReadPin, ResetLock, WrongPin, RightPin, ClearPin, CountAttempts, LockPin, AbortPin
<1>1. CASE ReadPin(v)
  <2>1. PICK w \in Users :
          /\ ~IsLocked(w)
          /\ who' = [who EXCEPT ![v] = w]
          /\ Move(v, IF LockIsOver(w) THEN "reset" ELSE "compare")
    BY <1>1 DEF ReadPin
  <2>2. /\ at[v] = "idle" /\ UNCHANGED <<attempts, locked, faults>>
        /\ at'[v] \in {"reset", "compare"} /\ who'[v] = w
        /\ at'[v] = "compare" => ~LockIsOver(w)
        /\ \A x \in Verifiers \ {v} : at'[x] = at[x] /\ who'[x] = who[x]
    BY <1>1, <2>1 DEF ReadPin, Move, AccountTypeOK
  <2>3. Locking(u)' = Locking(u)
    BY <2>2 DEF Locking
  <2>4. locked[u] # None => Comparing(u)' = Comparing(u)
    <3>1. locked[w] # None => LockIsOver(w)
      BY <2>1 DEF IsLocked, LockIsOver, AccountTypeOK
    <3> QED
      BY <2>2, <3>1 DEF Comparing
  <2> QED
    BY <1>0, <1>a, <1>b, <2>2, <2>3, <2>4 DEF Limited
<1>2. CASE ResetLock(v)
  <2>1. /\ at[v] = "reset" /\ ResetColumns(who[v]) /\ who' = who /\ faults' = faults
        /\ at'[v] = "compare" /\ \A w \in Verifiers \ {v} : at'[w] = at[w] /\ who'[w] = who[w]
    BY <1>2, MoveOthers DEF ResetLock
  <2>2. CASE who[v] = u
    <3>1. attempts'[u] = 0 /\ locked'[u] = None
      BY <1>0, <2>1, <2>2 DEF ResetColumns
    <3> QED
      BY <1>0, <2>1, <3>1, ResetLimited DEF Limited
  <2>3. CASE who[v] # u
    <3>1. attempts'[u] = attempts[u] /\ locked'[u] = locked[u]
      BY <1>0, <2>1, <2>3 DEF ResetColumns
    <3>2. Locking(u)' = Locking(u) /\ Comparing(u)' = Comparing(u)
      BY <2>1, <2>3, SameRequests
    <3> QED
      BY <1>0, <1>b, <2>1, <3>1, <3>2 DEF Limited
  <2> QED
    BY <2>2, <2>3
<1>3. CASE WrongPin(v)
  <2>1. /\ at[v] = "compare" /\ who' = who /\ faults' = faults /\ locked' = locked
        /\ attempts' = [attempts EXCEPT ![who[v]] = @ + 1]
        /\ at'[v] = "count" /\ \A w \in Verifiers \ {v} : at'[w] = at[w] /\ who'[w] = who[w]
    BY <1>3, MoveOthers DEF WrongPin
  <2>2. CASE who[v] = u
    <3>1. attempts'[u] = attempts[u] + 1
      BY <1>0, <2>1, <2>2
    <3>2. /\ v \notin Locking(u) /\ Locking(u)' = Locking(u) \cup {v}
          /\ v \in Comparing(u) /\ Comparing(u)' = Comparing(u) \ {v}
      BY <2>1, <2>2 DEF Locking, Comparing
    <3>3. Cardinality(Locking(u)') = Cardinality(Locking(u)) + 1
      BY <1>a, <3>2, FS_AddElement
    <3>4. Cardinality(Comparing(u)') = Cardinality(Comparing(u)) - 1
      BY <1>a, <3>2, FS_RemoveElement
    <3>5. attempts[u] < MaxAttempts + Cardinality(Locking(u)) + faults
            => attempts'[u] < MaxAttempts + Cardinality(Locking(u)') + faults
      BY <1>0, <1>a, <3>1, <3>3
    <3>6. attempts'[u] + Cardinality(Comparing(u)') = attempts[u] + Cardinality(Comparing(u))
      BY <1>0, <1>a, <3>1, <3>4
    <3>7. locked'[u] = locked[u] /\ faults' = faults
      BY <2>1
    <3> QED
      BY <1>0, <1>b, <3>5, <3>6, <3>7 DEF Limited
  <2>3. CASE who[v] # u
    <3>1. attempts'[u] = attempts[u]
      BY <1>0, <2>1, <2>3
    <3>2. Locking(u)' = Locking(u) /\ Comparing(u)' = Comparing(u)
      BY <2>1, <2>3, SameRequests
    <3> QED
      BY <1>0, <1>b, <2>1, <3>1, <3>2 DEF Limited
  <2> QED
    BY <2>2, <2>3
<1>4. CASE RightPin(v)
  <2>1. /\ at[v] = "compare" /\ UNCHANGED <<attempts, locked, faults>>
        /\ at'[v] \in {"clear", "idle"}
        /\ \A w \in Verifiers \ {v} : at'[w] = at[w] /\ who'[w] = who[w]
    BY <1>4, MoveOthers, FinishOthers DEF RightPin
  <2>2. Locking(u)' = Locking(u) /\ Comparing(u)' \subseteq Comparing(u)
    BY <2>1 DEF Locking, Comparing
  <2>3. /\ Cardinality(Comparing(u)') \in Nat
        /\ Cardinality(Comparing(u)') <= Cardinality(Comparing(u))
    BY <1>a, <2>2, FS_Subset, FS_CardinalityType
  <2> QED
    BY <1>0, <1>a, <1>b, <2>1, <2>2, <2>3 DEF Limited
<1>5. CASE ClearPin(v)
  <2>1. /\ at[v] = "clear" /\ ResetColumns(who[v]) /\ faults' = faults
        /\ at'[v] = "idle" /\ \A w \in Verifiers \ {v} : at'[w] = at[w] /\ who'[w] = who[w]
    BY <1>5, FinishOthers DEF ClearPin
  <2>2. CASE who[v] = u
    <3>1. attempts'[u] = 0 /\ locked'[u] = None
      BY <1>0, <2>1, <2>2 DEF ResetColumns
    <3> QED
      BY <1>0, <2>1, <3>1, ResetLimited DEF Limited
  <2>3. CASE who[v] # u
    <3>1. attempts'[u] = attempts[u] /\ locked'[u] = locked[u]
      BY <1>0, <2>1, <2>3 DEF ResetColumns
    <3>2. Locking(u)' = Locking(u) /\ Comparing(u)' = Comparing(u)
      BY <2>1, <2>3, SameRequests
    <3> QED
      BY <1>0, <1>b, <2>1, <3>1, <3>2 DEF Limited
  <2> QED
    BY <2>2, <2>3
<1>6. CASE CountAttempts(v)
  <2>1. /\ at[v] = "count" /\ UNCHANGED <<attempts, locked, faults>>
        /\ \A w \in Verifiers \ {v} : at'[w] = at[w] /\ who'[w] = who[w]
        /\ IF TooMany(attempts[who[v]]) THEN at'[v] = "lock" /\ who' = who ELSE at'[v] = "idle"
    BY <1>6, MoveOthers, FinishOthers DEF CountAttempts
  <2>2. Comparing(u)' = Comparing(u)
    BY <2>1 DEF Comparing
  <2>3. CASE TooMany(attempts[who[v]]) \/ who[v] # u
    <3>1. Locking(u)' = Locking(u)
      BY <2>1, <2>3 DEF Locking
    <3> QED
      BY <1>0, <1>b, <2>1, <2>2, <3>1 DEF Limited
  <2>4. CASE ~TooMany(attempts[who[v]]) /\ who[v] = u
    <3>1. attempts[u] < MaxAttempts
      BY <1>0, <2>4 DEF TooMany
    <3>2. Locking(u)' \subseteq Verifiers
      BY DEF Locking
    <3>3. Cardinality(Locking(u)') \in Nat
      BY <3>2, FS_Subset, FS_CardinalityType
    <3> QED
      BY <1>0, <1>a, <1>b, <2>1, <2>2, <3>1, <3>3 DEF Limited
  <2> QED
    BY <2>3, <2>4
<1>7. CASE LockPin(v)
  <2>1. /\ at[v] = "lock" /\ UNCHANGED <<attempts, faults>>
        /\ locked' = [locked EXCEPT ![who[v]] = now + Lockout]
        /\ at'[v] = "idle" /\ \A w \in Verifiers \ {v} : at'[w] = at[w] /\ who'[w] = who[w]
    BY <1>7, FinishOthers DEF LockPin
  <2>2. Comparing(u)' = Comparing(u)
    BY <2>1 DEF Comparing
  <2>3. CASE who[v] = u
    <3>1. now + Lockout # None
      BY AccountAssumption DEF AccountTypeOK
    <3>2. locked'[u] # None
      BY <1>0, <2>1, <2>3, <3>1
    <3> QED
      BY <1>0, <1>a, <1>b, <2>1, <2>2, <3>2 DEF Limited
  <2>4. CASE who[v] # u
    <3>1. Locking(u)' = Locking(u) /\ locked'[u] = locked[u]
      BY <1>0, <2>1, <2>4 DEF Locking
    <3> QED
      BY <1>0, <1>b, <2>1, <2>2, <3>1 DEF Limited
  <2> QED
    BY <2>3, <2>4
<1>8. CASE AbortPin(v)
  <2>1. /\ UNCHANGED <<attempts, locked>> /\ faults' = faults + 1
        /\ at'[v] = "idle" /\ \A w \in Verifiers \ {v} : at'[w] = at[w] /\ who'[w] = who[w]
    BY <1>8, FinishOthers DEF AbortPin
  <2>2. /\ Comparing(u)' = Comparing(u) \/ Comparing(u)' = Comparing(u) \ {v}
        /\ Locking(u)' = Locking(u) \/ (v \in Locking(u) /\ Locking(u)' = Locking(u) \ {v})
    BY <2>1 DEF Comparing, Locking
  <2>3. /\ Cardinality(Comparing(u)') \in Nat
        /\ Cardinality(Comparing(u)') <= Cardinality(Comparing(u))
    BY <1>a, <2>2, FS_Subset, FS_CardinalityType
  <2>4. \/ Cardinality(Locking(u)') = Cardinality(Locking(u))
        \/ Cardinality(Locking(u)') = Cardinality(Locking(u)) - 1
    BY <1>a, <2>2, FS_RemoveElement
  <2> QED
    BY <1>0, <1>a, <1>b, <2>1, <2>3, <2>4 DEF Limited
<1> QED
  BY <1>1, <1>2, <1>3, <1>4, <1>5, <1>6, <1>7, <1>8 DEF PinStep

\* A session that writes other PIN columns than are there is remembered.
LEMMA RowLimited ==
  ASSUME AccountTypeOK, LimitInv, NEW s \in Sessions, ReadRow(s) \/ SaveRow(s)
  PROVE  LimitInv'
<1>1. /\ UNCHANGED <<at, who, faults>> /\ rewound \subseteq rewound'
      /\ \A u \in Users : u \in rewound' \/ (attempts'[u] = attempts[u] /\ locked'[u] = locked[u])
  <2>1. CASE ReadRow(s)
    BY <2>1 DEF ReadRow, verifier
  <2>2. CASE SaveRow(s)
    BY <2>2 DEF SaveRow, verifier, AccountTypeOK
  <2> QED
    BY <2>1, <2>2
<1> QED
  BY <1>1 DEF LimitInv, Limited, Locking, Comparing

LEMMA NextLimited ==
  ASSUME IsFiniteSet(Verifiers), AccountTypeOK, LimitInv, [AccountNext]_<<vars, pinVars>>
  PROVE  LimitInv'
<1>1. CASE UNCHANGED pinVars \/ AccountTick
  <2>1. UNCHANGED <<attempts, locked, at, who, rewound, faults>>
    BY <1>1 DEF pinVars, AccountTick, verifier
  <2> QED
    BY <2>1 DEF LimitInv, Limited, Locking, Comparing
<1>2. ASSUME NEW v \in Verifiers, PinStep(v) PROVE LimitInv'
  BY <1>2, PinLimited DEF LimitInv
<1> QED
  BY <1>1, <1>2, RowLimited DEF AccountNext

LEMMA LimitImplies ==
  ASSUME IsFiniteSet(Verifiers), AccountTypeOK, LimitInv
  PROVE  AttemptsBounded
<1> SUFFICES ASSUME NEW u \in Users
             PROVE  u \in rewound \/ attempts[u] < MaxAttempts + Cardinality(Verifiers) + faults
  BY DEF AttemptsBounded
<1>1. /\ attempts[u] \in Nat /\ faults \in Nat /\ MaxAttempts \in Nat /\ Limited(u)
  BY AccountAssumption DEF AccountTypeOK, LimitInv
<1> QED
  BY <1>1, RequestsOf DEF Limited

(* A PIN is guessed at most MaxAttempts times between two resets, but for one
   more by each request that overlaps and each that ended before its lock, as
   long as no session writes the columns back: however wrong and right PINs,
   lockouts and their ends interleave. *)
THEOREM GuessesOfPin ==
  ASSUME IsFiniteSet(Verifiers)
  PROVE  AccountSpec => []AttemptsBounded
<1>1. AccountInit => AccountTypeOK /\ LimitInv
  <2>1. ASSUME AccountInit, AccountTypeOK, NEW u \in Users PROVE Limited(u)
    <3>1. attempts[u] = 0 /\ locked[u] = None /\ faults = 0
      BY <2>1 DEF AccountInit
    <3>2. Cardinality(Locking(u)) \in Nat
      BY RequestsOf
    <3> QED
      BY <3>1, <3>2, AccountAssumption DEF Limited
  <2> QED
    BY <2>1, InitAccountType DEF LimitInv
<1>2. (AccountTypeOK /\ LimitInv) /\ [AccountNext]_<<vars, pinVars>>
        => (AccountTypeOK /\ LimitInv)'
  BY NextAccountType, NextLimited
<1> QED
  BY <1>1, <1>2, LimitImplies, PTL DEF AccountSpec

=============================================================================
