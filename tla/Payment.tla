------------------------------ MODULE Payment ------------------------------
(***************************************************************************)
(* The payments of one auction: bid fees while it is ACTIVE, the amount of *)
(* its winner once it is CLOSED, through a provider's link or from the     *)
(* wallet (payment.service.ts, payment-link.service.ts and the controllers *)
(* that call them), with the webhooks of the provider, the status polls,   *)
(* the reconciliation cron, the cron that lets the deadline of a winner    *)
(* lapse, and the winner desk of the query service.                        *)
(*                                                                         *)
(* As in Auction, each query and each HTTP call is one step, and a row     *)
(* that is saved is the row that was read.  The closure of the auction is  *)
(* one step here; it leaves one row in the winners table, which may name   *)
(* another user than the auction does when two closures overlap.           *)
(***************************************************************************)
EXTENDS Naturals, FiniteSets

CONSTANTS Users,
          Refs,        \* client_reference_ids; each also names the task that
                       \* reconcilePendingPayments runs for its transaction
          Requests,    \* HTTP requests: of users, of an admin, or webhooks
          Expirers,    \* runs of expireOverduePayments
          None,
          Retries,     \* whether a link whose payment failed can still be paid
          Window,      \* PAYMENT_DEADLINE_HOURS, in ticks
          MaxNow,      \* bound: the last value of the clock
          MaxFaults    \* bound: failures of the environment

Processes == Requests \cup Expirers \cup Refs

VARIABLES auction,    \* the row of the auctions table
          winners,    \* the rows of the winners table, by user
          txns,       \* the rows of payment_transactions that have a link
          debits,     \* how many rows it has of payments from the wallet
          gateway,    \* what the provider has decided of each link
          events,     \* the webhooks the provider may deliver, and deliver again
          deducted,   \* history: how often the wallet has paid for each user and type
          confirmed,  \* history: users whose payment an admin has confirmed by hand
          now,
          pc,
          ref,        \* the client_reference_id a process works on
          txn,        \* the transaction it holds
          snap,       \* the row of the auction it holds
          faults

rows  == <<auction, winners, txns, debits>>
world == <<gateway, events, deducted, confirmed, now>>
local == <<ref, txn, snap>>
vars  == <<auction, winners, txns, debits, gateway, events, deducted, confirmed, now, pc,
           ref, txn, snap, faults>>

Types    == {"BID_FEE", "WINNING_BID", "WALLET"}
Winning  == {"WINNING_BID", "WALLET"}          \* WINNING_PAYMENT_TYPES
Outcomes == {"SUCCESSFUL", "FAILED"}           \* FAILED: also EXPIRED, CANCELLED, REVOKED
Txn      == [user: Users, type: Types, status: Outcomes \cup {"PENDING"}]
Event    == [ref: Refs, outcome: Outcomes]
Row      == [status: {"ACTIVE", "CLOSED", "EXPIRED"},
             payment: {None, "PENDING", "PAID", "EXPIRED"},
             winner: Users \cup {None},
             deadline: Nat]
WinnerRow == [status: {"PENDING", "PAID", "EXPIRED"}, deadline: Nat]

ASSUME PaymentAssumption ==
  /\ Requests \cap Expirers = {} /\ Requests \cap Refs = {} /\ Expirers \cap Refs = {}
  /\ IsFiniteSet(Requests)
  /\ {Window, MaxNow, MaxFaults} \subseteq Nat
  /\ Retries \in BOOLEAN
  /\ None \notin Users \cup Refs
  /\ None \notin {"OPEN", "PENDING", "SUCCESSFUL", "FAILED", "PAID", "EXPIRED"}
  /\ None \notin Txn \cup WinnerRow

TxnSteps  == {"reuse", "link", "wallet", "save", "debited", "stamp", "mark", "paid", "count",
              "settle", "pick"}
SnapSteps == {"paid", "count", "settle", "pick", "promote", "install",
              "lapse", "next", "void", "expire"}
RefSteps  == {"ask", "succeed", "fail", "read", "stamp"}
Steps     == TxnSteps \cup SnapSteps \cup RefSteps \cup {"idle", "assign"}

Goto(p, step) == pc' = [pc EXCEPT ![p] = step]
Hold(var, p, value) == [var EXCEPT ![p] = value]

\* The request is answered, the error is logged, the task ends.
Return(p) ==
  /\ Goto(p, "idle")
  /\ ref' = Hold(ref, p, None)
  /\ txn' = Hold(txn, p, None)
  /\ snap' = Hold(snap, p, None)

Init ==
  /\ auction = [status |-> "ACTIVE", payment |-> None, winner |-> None, deadline |-> 0]
  /\ winners = [u \in Users |-> None]
  /\ txns = [r \in Refs |-> None]
  /\ gateway = [r \in Refs |-> None]
  /\ events = {}
  /\ debits = [u \in Users |-> [type \in Types |-> 0]]
  /\ deducted = [u \in Users |-> [type \in Types |-> 0]]
  /\ confirmed = {}
  /\ now = 0
  /\ pc = [p \in Processes |-> "idle"]
  /\ ref = [p \in Processes |-> None]
  /\ txn = [p \in Processes |-> None]
  /\ snap = [p \in Processes |-> None]
  /\ faults = 0

Due == auction.status = "CLOSED" /\ auction.payment = "PENDING"

HasPaid(u) == winners[u] # None /\ winners[u].status = "PAID"

Unpaid == {u \in Users : winners[u] # None /\ winners[u].status = "PENDING"}

\* Transactions of u, of some types, with some status.
Links(u, types, status) ==
  {r \in Refs : txns[r] # None /\ txns[r].user = u /\ txns[r].type \in types
                 /\ txns[r].status = status}

-----------------------------------------------------------------------------
(* A user pays: POST .../link and POST .../wallet-pay of bid fees and of the
   winning amount.  txn[p] is the transaction that the request will save. *)

\* The checks of the controller: the auction of a bid fee is ACTIVE, and a
\* winning amount is due from the winner only.
MayPay(u, type) ==
  IF type = "BID_FEE" THEN auction.status = "ACTIVE" ELSE Due /\ auction.winner = u

Ask(p, u, type, status) ==
  /\ pc[p] = "idle"
  /\ MayPay(u, type)
  /\ txn' = Hold(txn, p, [user |-> u, type |-> type, status |-> status])
  /\ Goto(p, "reuse")
  /\ UNCHANGED <<rows, world, ref, snap, faults>>

AskForLink(p) == \E u \in Users, type \in {"BID_FEE", "WINNING_BID"} : Ask(p, u, type, "PENDING")
AskForWallet(p) == \E u \in Users, type \in {"BID_FEE", "WALLET"} : Ask(p, u, type, "SUCCESSFUL")

\* Mutant of Exists: no search.
ExistsNever(p) == FALSE

\* A PENDING link is handed out again; a SUCCESSFUL wallet payment is not made
\* again.
Exists(p) ==
  LET t == txn[p]
  IN \/ Links(t.user, {t.type}, t.status) # {}
     \/ t.status = "SUCCESSFUL" /\ debits[t.user][t.type] > 0

Reuse(p) ==
  /\ pc[p] = "reuse"
  /\ Exists(p)
  /\ Return(p)
  /\ UNCHANGED <<rows, world, faults>>

PayAnew(p) ==
  /\ pc[p] = "reuse"
  /\ ~Exists(p)
  /\ Goto(p, IF txn[p].status = "PENDING" THEN "link" ELSE "wallet")
  /\ UNCHANGED <<rows, world, local, faults>>

\* A reference that nobody has: it holds the millisecond of the request.  (A
\* request that finds none left stays where it is: Refs is a bound.)
Fresh(r) == txns[r] = None /\ gateway[r] = None /\ \A q \in Processes : ref[q] # r

\* generatePaymentLink of the provider.
OpenLink(p) ==
  /\ pc[p] = "link"
  /\ \E r \in Refs :
       /\ Fresh(r)
       /\ gateway' = [gateway EXCEPT ![r] = "OPEN"]
       /\ ref' = Hold(ref, p, r)
  /\ Goto(p, "save")
  /\ UNCHANGED <<rows, events, deducted, confirmed, now, txn, snap, faults>>

\* deductFromWallet: POST /wallet/deduct-fee of the identity service.
Deduct(p) ==
  /\ pc[p] = "wallet"
  /\ deducted' = [deducted EXCEPT ![txn[p].user][txn[p].type] = @ + 1]
  /\ Goto(p, "debited")
  /\ UNCHANGED <<rows, gateway, events, confirmed, now, local, faults>>

\* The balance does not cover the amount: the request throws.
RefuseDeduction(p) ==
  /\ pc[p] = "wallet"
  /\ Return(p)
  /\ UNCHANGED <<rows, world, faults>>

SaveLink(p) ==
  /\ pc[p] = "save"
  /\ txns' = [txns EXCEPT ![ref[p]] = txn[p]]
  /\ Return(p)
  /\ UNCHANGED <<auction, winners, debits, world, faults>>

\* A winning amount from the wallet is marked at once.
SaveDebit(p) ==
  /\ pc[p] = "debited"
  /\ debits' = [debits EXCEPT ![txn[p].user][txn[p].type] = @ + 1]
  /\ IF txn[p].type = "WALLET" THEN Goto(p, "mark") /\ UNCHANGED local ELSE Return(p)
  /\ UNCHANGED <<auction, winners, txns, world, faults>>

-----------------------------------------------------------------------------
(* The provider. *)

Decide(r, outcome) ==
  /\ gateway' = [gateway EXCEPT ![r] = outcome]
  /\ events' = events \cup {[ref |-> r, outcome |-> outcome]}
  /\ UNCHANGED <<rows, deducted, confirmed, now, pc, local, faults>>

\* The user has the link once it is saved; one payment can be made on it.
UserPays(r) ==
  /\ txns[r] # None
  /\ gateway[r] = "OPEN" \/ (Retries /\ gateway[r] = "FAILED")
  /\ Decide(r, "SUCCESSFUL")

\* The payment fails, is cancelled or revoked, or the link expires.
PaymentFails(r) ==
  /\ gateway[r] = "OPEN"
  /\ Decide(r, "FAILED")

\* POST /payments/webhook/sikina and /awash, signed: any event, any time, any
\* number of times, or never.
DeliverWebhook(p) ==
  /\ pc[p] = "idle"
  /\ \E e \in events :
       /\ ref' = Hold(ref, p, e.ref)
       /\ Goto(p, IF e.outcome = "SUCCESSFUL" THEN "succeed" ELSE "fail")
  /\ UNCHANGED <<rows, world, txn, snap, faults>>

\* getBidFeePaymentStatus and getWinningPaymentStatus find the transaction of
\* a request, reconcilePendingPayments those of everyone ...
FindPending(p, r) ==
  /\ pc[p] = "idle"
  /\ txns[r] # None
  /\ txns[r].status = "PENDING"
  /\ ref' = Hold(ref, p, r)
  /\ Goto(p, "ask")
  /\ UNCHANGED <<rows, world, txn, snap, faults>>

\* Mutants of Answered: every answer is a success; all that is not a success
\* is a failure; only a success is acted on.
AnsweredYes(p) ==
  /\ pc[p] = "ask"
  /\ Goto(p, "succeed")
  /\ UNCHANGED <<rows, world, local, faults>>

AnsweredEarly(p) ==
  /\ pc[p] = "ask"
  /\ Goto(p, IF gateway[ref[p]] = "SUCCESSFUL" THEN "succeed" ELSE "fail")
  /\ UNCHANGED <<rows, world, local, faults>>

AnsweredGladly(p) ==
  /\ pc[p] = "ask"
  /\ gateway[ref[p]] \in Outcomes
  /\ IF gateway[ref[p]] = "SUCCESSFUL"
     THEN Goto(p, "succeed") /\ UNCHANGED local
     ELSE Return(p)
  /\ UNCHANGED <<rows, world, faults>>

\* ... and ask the provider.
Answered(p) ==
  /\ pc[p] = "ask"
  /\ gateway[ref[p]] \in Outcomes
  /\ Goto(p, IF gateway[ref[p]] = "SUCCESSFUL" THEN "succeed" ELSE "fail")
  /\ UNCHANGED <<rows, world, local, faults>>

StillOpen(p) ==
  /\ pc[p] = "ask"
  /\ gateway[ref[p]] = "OPEN"
  /\ Return(p)
  /\ UNCHANGED <<rows, world, faults>>

\* UPDATE status, whatever it was; no row, no effect.
RecordFailure(p) ==
  /\ pc[p] = "fail"
  /\ txns' = IF txns[ref[p]] = None THEN txns ELSE [txns EXCEPT ![ref[p]].status = "FAILED"]
  /\ Return(p)
  /\ UNCHANGED <<auction, winners, debits, world, faults>>

-----------------------------------------------------------------------------
(* handleSuccessfulPayment. *)

\* Mutant of Unsettled: the UPDATE without its condition.
UnsettledAny(r) == txns[r] # None

Unsettled(r) == txns[r] # None /\ txns[r].status # "SUCCESSFUL"

\* UPDATE ... WHERE status <> 'SUCCESSFUL': whoever affects the row goes on.
RecordSuccess(p) ==
  /\ pc[p] = "succeed"
  /\ IF Unsettled(ref[p])
     THEN /\ txns' = [txns EXCEPT ![ref[p]].status = "SUCCESSFUL"]
          /\ Goto(p, "read")
          /\ UNCHANGED local
     ELSE Return(p) /\ UNCHANGED txns
  /\ UNCHANGED <<auction, winners, debits, world, faults>>

ReadTransaction(p) ==
  /\ pc[p] = "read"
  /\ txn' = Hold(txn, p, txns[ref[p]])
  /\ Goto(p, "stamp")
  /\ UNCHANGED <<rows, world, ref, snap, faults>>

\* Mutant of StampTransaction: a bid fee pays for the auction.
StampAnyType(p) ==
  /\ pc[p] = "stamp"
  /\ txns' = [txns EXCEPT ![ref[p]] = txn[p]]
  /\ Goto(p, "mark") /\ ref' = Hold(ref, p, None)
  /\ UNCHANGED <<auction, winners, debits, world, txn, snap, faults>>

\* The save of the reference of the provider, with the row that was read.
StampTransaction(p) ==
  /\ pc[p] = "stamp"
  /\ txns' = [txns EXCEPT ![ref[p]] = txn[p]]
  /\ IF txn[p].type \in Winning
     THEN Goto(p, "mark") /\ ref' = Hold(ref, p, None) /\ UNCHANGED <<txn, snap>>
     ELSE Return(p)
  /\ UNCHANGED <<auction, winners, debits, world, faults>>

-----------------------------------------------------------------------------
(* markAsPaid. *)

\* confirmWinningPayment: the winner has a SUCCESSFUL payment that is not
\* marked.  Its three reads are one step; markAsPaid reads the row again.
ConfirmWinning(p) ==
  /\ pc[p] = "idle"
  /\ auction.winner # None
  /\ auction.payment # "PAID"
  /\ ~HasPaid(auction.winner)
  /\ \/ Links(auction.winner, Winning, "SUCCESSFUL") # {}
     \/ debits[auction.winner]["WALLET"] > 0
  /\ txn' = Hold(txn, p, [user |-> auction.winner, type |-> "WINNING_BID",
                          status |-> "SUCCESSFUL"])
  /\ Goto(p, "mark")
  /\ UNCHANGED <<rows, world, ref, snap, faults>>

\* Mutant of ReadAuction: goes on without the row.
ReadNoAuction(p) ==
  /\ pc[p] = "mark"
  /\ Goto(p, "paid")
  /\ UNCHANGED <<rows, world, local, faults>>

\* "Auction is not eligible for payment", or go on with this row.
ReadAuction(p) ==
  /\ pc[p] = "mark"
  /\ IF Due
     THEN snap' = Hold(snap, p, auction) /\ Goto(p, "paid") /\ UNCHANGED <<ref, txn>>
     ELSE Return(p)
  /\ UNCHANGED <<rows, world, faults>>

\* updateWinnerPaymentStatus.
MarkWinner(p) ==
  /\ pc[p] = "paid"
  /\ LET u == txn[p].user
     IN winners' = IF winners[u] = None THEN winners ELSE [winners EXCEPT ![u].status = "PAID"]
  /\ Goto(p, "count")
  /\ UNCHANGED <<auction, txns, debits, world, local, faults>>

CountUnpaid(p) ==
  /\ pc[p] = "count"
  /\ Goto(p, IF Unpaid = {} THEN "settle" ELSE "pick")
  /\ UNCHANGED <<rows, world, local, faults>>

SettleAuction(p) ==
  /\ pc[p] = "settle"
  /\ auction' = [snap[p] EXCEPT !.payment = "PAID"]
  /\ Return(p)
  /\ UNCHANGED <<winners, txns, debits, world, faults>>

\* The auction goes to a winner who has not paid, with a new deadline.
Award(p, u) ==
  snap' = Hold(snap, p, [snap[p] EXCEPT !.payment = "PENDING", !.winner = u,
                                        !.deadline = now + Window])

\* getNextUnpaidWinner (there is one row, so no rank).
PickNext(p) ==
  /\ pc[p] = "pick"
  /\ \E u \in Unpaid : Award(p, u)
  /\ Goto(p, "promote")
  /\ UNCHANGED <<rows, world, ref, txn, faults>>

PickNobody(p) ==
  /\ pc[p] = "pick"
  /\ Unpaid = {}
  /\ Return(p)
  /\ UNCHANGED <<rows, world, faults>>

\* The save of the row of the next winner, as it was read but for its deadline.
PromoteWinner(p) ==
  /\ pc[p] = "promote"
  /\ winners' = [winners EXCEPT ![snap[p].winner] =
                   [status |-> "PENDING", deadline |-> snap[p].deadline]]
  /\ Goto(p, "install")
  /\ UNCHANGED <<auction, txns, debits, world, local, faults>>

InstallWinner(p) ==
  /\ pc[p] = "install"
  /\ auction' = snap[p]
  /\ Return(p)
  /\ UNCHANGED <<winners, txns, debits, world, faults>>

-----------------------------------------------------------------------------
(* expireOverduePayments, handleExpiredPayment. *)

IsOverdue(row) ==
  row.status = "CLOSED" /\ row.payment = "PENDING" /\ row.deadline < now /\ row.winner # None

FindOverdue(p) ==
  /\ pc[p] = "idle"
  /\ IsOverdue(auction)
  /\ snap' = Hold(snap, p, auction)
  /\ Goto(p, "lapse")
  /\ UNCHANGED <<rows, world, ref, txn, faults>>

\* The row of the winner is read and saved EXPIRED, whatever its status.
ExpireWinner(p) ==
  /\ pc[p] = "lapse"
  /\ LET u == snap[p].winner
     IN winners' = IF winners[u] = None THEN winners ELSE [winners EXCEPT ![u].status = "EXPIRED"]
  /\ Goto(p, "next")
  /\ UNCHANGED <<auction, txns, debits, world, local, faults>>

AwardNext(p) ==
  /\ pc[p] = "next"
  /\ \E u \in Unpaid : Award(p, u)
  /\ Goto(p, "promote")
  /\ UNCHANGED <<rows, world, ref, txn, faults>>

\* Mutant of AwardNobody: the auction is left as it is.
AwardNobodyStops(p) ==
  /\ pc[p] = "next"
  /\ Unpaid = {}
  /\ Return(p)
  /\ UNCHANGED <<rows, world, faults>>

AwardNobody(p) ==
  /\ pc[p] = "next"
  /\ Unpaid = {}
  /\ Goto(p, "void")
  /\ UNCHANGED <<rows, world, local, faults>>

VoidUnpaid(p) ==
  /\ pc[p] = "void"
  /\ winners' = [u \in Users |->
       IF u \in Unpaid THEN [winners[u] EXCEPT !.status = "EXPIRED"] ELSE winners[u]]
  /\ Goto(p, "expire")
  /\ UNCHANGED <<auction, txns, debits, world, local, faults>>

ExpireAuction(p) ==
  /\ pc[p] = "expire"
  /\ auction' = [snap[p] EXCEPT !.payment = "EXPIRED", !.status = "EXPIRED"]
  /\ Return(p)
  /\ UNCHANGED <<winners, txns, debits, world, faults>>

-----------------------------------------------------------------------------
(* The winner desk of the query service updates columns, not rows. *)

\* confirmPayment.
AdminConfirms(u) ==
  /\ winners[u] # None
  /\ winners' = [winners EXCEPT ![u].status = "PAID"]
  /\ confirmed' = confirmed \cup {u}
  /\ UNCHANGED <<auction, txns, debits, gateway, events, deducted, now, pc, local, faults>>

\* extendPaymentDeadline.
AdminExtends(u) ==
  /\ winners[u] # None
  /\ winners[u].deadline < now + Window
  /\ winners' = [winners EXCEPT ![u].deadline = now + Window]
  /\ UNCHANGED <<auction, txns, debits, world, pc, local, faults>>

\* triggerRotation: the winners past their own deadline are EXPIRED ...
RotateOut(p) ==
  /\ pc[p] = "idle"
  /\ winners' = [u \in Users |->
       IF u \in Unpaid /\ winners[u].deadline < now
       THEN [winners[u] EXCEPT !.status = "EXPIRED"] ELSE winners[u]]
  /\ Goto(p, "assign")
  /\ UNCHANGED <<auction, txns, debits, world, local, faults>>

\* ... and the next one, if any, becomes the winner of the auction.
AssignNext(p) ==
  /\ pc[p] = "assign"
  /\ IF Unpaid = {} THEN UNCHANGED auction
     ELSE \E u \in Unpaid : auction' = [auction EXCEPT !.winner = u]
  /\ Return(p)
  /\ UNCHANGED <<winners, txns, debits, world, faults>>

-----------------------------------------------------------------------------
(* The closure (module Auction), time and failures. *)

\* The row names u as the winner, the winners table names w.
CloseAuction ==
  /\ auction.status = "ACTIVE"
  /\ \E u, w \in Users :
       /\ auction' = [status |-> "CLOSED", payment |-> "PENDING", winner |-> u,
                      deadline |-> now + Window]
       /\ winners' = [winners EXCEPT ![w] = [status |-> "PENDING", deadline |-> now + Window]]
  /\ UNCHANGED <<txns, debits, world, pc, local, faults>>

Tick ==
  /\ now < MaxNow
  /\ now' = now + 1
  /\ UNCHANGED <<rows, gateway, events, deducted, confirmed, pc, local, faults>>

\* A query or a call fails, a call to the wallet times out after it deducted,
\* or the server dies: the rest is not done.
Fail(p) ==
  /\ pc[p] # "idle"
  /\ faults < MaxFaults
  /\ faults' = faults + 1
  /\ Return(p)
  /\ UNCHANGED <<rows, world>>

-----------------------------------------------------------------------------

RequestStep(p) ==
  \/ AskForLink(p) \/ AskForWallet(p) \/ ConfirmWinning(p) \/ RotateOut(p) \/ DeliverWebhook(p)
  \/ \E r \in Refs : FindPending(p, r)

SettleStep(p) ==
  \/ Answered(p) \/ StillOpen(p) \/ RecordFailure(p)
  \/ RecordSuccess(p) \/ ReadTransaction(p) \/ StampTransaction(p)
  \/ ReadAuction(p) \/ MarkWinner(p) \/ CountUnpaid(p) \/ SettleAuction(p)
  \/ PickNext(p) \/ PickNobody(p) \/ PromoteWinner(p) \/ InstallWinner(p)

PayStep(p) ==
  \/ Reuse(p) \/ PayAnew(p) \/ OpenLink(p) \/ Deduct(p) \/ RefuseDeduction(p)
  \/ SaveLink(p) \/ SaveDebit(p) \/ AssignNext(p)

ExpireStep(p) ==
  \/ FindOverdue(p) \/ ExpireWinner(p) \/ AwardNext(p) \/ AwardNobody(p)
  \/ VoidUnpaid(p) \/ ExpireAuction(p)

Next ==
  \/ \E p \in Requests : RequestStep(p) \/ PayStep(p)
  \/ \E r \in Refs : FindPending(r, r) \/ UserPays(r) \/ PaymentFails(r)
  \/ \E p \in Expirers : ExpireStep(p)
  \/ \E p \in Processes : SettleStep(p) \/ Fail(p)
  \/ \E u \in Users : AdminConfirms(u) \/ AdminExtends(u)
  \/ CloseAuction
  \/ Tick

Spec == Init /\ [][Next]_vars

\* The crons run for ever, and what has begun goes on until it ends.  Nothing
\* is assumed of users, of webhooks, of admins or of the provider's decisions;
\* a provider that has decided is assumed to say so when asked.
Fairness ==
  /\ \A r \in Refs : WF_vars(FindPending(r, r) \/ SettleStep(r))
  /\ \A p \in Requests : WF_vars(SettleStep(p) \/ PayStep(p))
  /\ \A p \in Expirers : WF_vars(ExpireStep(p) \/ SettleStep(p))

FairSpec == Spec /\ Fairness

-----------------------------------------------------------------------------

\* Every variable has its type, and a process holds what its place in the code
\* reads.
TypeOK ==
  /\ auction \in Row
  /\ winners \in [Users -> WinnerRow \cup {None}]
  /\ txns \in [Refs -> Txn \cup {None}]
  /\ debits \in [Users -> [Types -> Nat]]
  /\ gateway \in [Refs -> Outcomes \cup {None, "OPEN"}]
  /\ events \subseteq Event
  /\ deducted \in [Users -> [Types -> Nat]]
  /\ confirmed \subseteq Users
  /\ now \in Nat
  /\ pc \in [Processes -> Steps]
  /\ ref \in [Processes -> Refs \cup {None}]
  /\ txn \in [Processes -> Txn \cup {None}]
  /\ snap \in [Processes -> Row \cup {None}]
  /\ faults \in Nat
  /\ \A p \in Processes :
       /\ pc[p] \in TxnSteps => txn[p] \in Txn
       /\ pc[p] \in SnapSteps => snap[p] \in Row /\ snap[p].winner # None
       /\ pc[p] \in RefSteps \cup {"save"} => ref[p] \in Refs

\* A transaction is SUCCESSFUL only when the money has moved: the provider has
\* been paid on that link, or the wallet has been debited once for each such
\* transaction of the user; however webhooks, polls and the cron interleave,
\* and though the row is written back whole after it was read.
SuccessIsPaidFor ==
  /\ \A r \in Refs :
       txns[r] # None /\ txns[r].status = "SUCCESSFUL" => gateway[r] = "SUCCESSFUL"
  /\ \A u \in Users, type \in Types : debits[u][type] <= deducted[u][type]

\* The winning amount has been taken from u, by the provider or the wallet.
Charged(u) ==
  \/ \E r \in Refs : /\ txns[r] # None /\ txns[r].user = u /\ txns[r].type = "WINNING_BID"
                     /\ gateway[r] = "SUCCESSFUL"
  \/ deducted[u]["WALLET"] > 0

\* Nothing is marked PAID that was not paid: a winner's row is PAID only when
\* that user was charged the winning amount (a bid fee is not enough) or an
\* admin said so, and the auction is PAID only when somebody was charged it.
PaidIsPaidFor ==
  /\ \A u \in Users : HasPaid(u) => Charged(u) \/ u \in confirmed
  /\ auction.payment = "PAID" => \E u \in Users : Charged(u)

\* A wallet is debited once for a payment, and at most once more for each
\* request that overlapped it and for each call that failed half-way: the
\* search for a SUCCESSFUL transaction bounds what repeated clicks can cost.
DebitsBounded ==
  \A u \in Users, type \in Types : deducted[u][type] <= Cardinality(Requests) + faults

\* Of the webhooks, polls and cron tasks that learn of one payment, one goes
\* on to mark the auction as paid: while it does, the others have been turned
\* away by the condition of the UPDATE.
OneSettles ==
  \A p, q \in Processes :
    pc[p] \in {"read", "stamp"} /\ pc[q] \in {"read", "stamp"} /\ ref[p] = ref[q] => p = q

Promise == INSTANCE Settlement WITH
  decided <- gateway,
  known <- [r \in Refs |-> IF txns[r] = None THEN None ELSE txns[r].status]

\* When a link is paid or fails but once, the transactions follow the provider:
\* what a transaction says is what the provider has decided and is never taken
\* back, in whichever order webhooks and answers are handled ...
FollowsProvider == Promise!Safe

\* ... and every decision is learnt, though webhooks are lost and steps fail.
ImplementsSettlement == Promise!Spec

\* A payment that is overdue does not stay so: the winner has paid, or the
\* next one has a deadline of its own, or the auction is EXPIRED.
OverdueIsResolved == IsOverdue(auction) ~> ~IsOverdue(auction)

\* "The system shall reconcile all payment states at regular intervals to ensure
\* financial consistency": once the winning amount that is due is paid through
\* a link, the auction is PAID.
ChargedIsPaid ==
  (\E r \in Refs : /\ txns[r] # None /\ txns[r].type = "WINNING_BID"
                   /\ gateway[r] = "SUCCESSFUL" /\ Due) ~> auction.payment = "PAID"

=============================================================================
