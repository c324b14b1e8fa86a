# Takelow: specifications of the auction, its payments and the accounts

Takelow sells products by *lowest unique bid* auctions: users pay a fee, bid amounts, and the
lowest amount that exactly one user bid wins. This directory holds TLA+ models of the services and of the
web session under `src/`, TLC instances of them and TLAPS proofs about them. A line such as
`winner.service.ts:94` is a line of the repository; `PROJECT.json` maps every definition to the
lines it stands for.

## 1. The system

Three NestJS services share one PostgreSQL database and one Redis.

| component | state it keeps | operations | hard behaviour | what makes it correct |
|---|---|---|---|---|
| **bidding** (`auction-engine/.../bidding`, `common/bidding-window.interceptor.ts`) | `bids` rows; in Redis the lock of the auction and the index (`frequencies`, `unique_bids`, `total_bids`) | `placeBid`: lock, checks, save, index, early close at `max_bid` | an `await` between every two calls; a lock with a TTL and an unconditional DEL; Postgres and Redis are written one after the other | no two bids at once, no amount twice by a user, the index counts saved bids only |
| **closure, winner** (`.../winner`) | `auctions` row, `winners` rows | cron every 10 s, early close, forced close: `closeAuction` tallies and extends, expires or closes | three replicas run the cron; the row is read at the start and saved whole at the end; bids keep coming | one winner, a lowest unique bid, chosen once; final once closed; an overdue auction gets closed |
| **auction administration** (`.../admin`) | the same rows, `products` | create, update, delete, reopen, close, force | reopening deletes rows in several statements | a closed auction with a winner stays closed; reopening leaves no half-deleted auction |
| **payment** (`.../payment`) | `payment_transactions`, payment fields of `auctions` and `winners` | pay the fee or the winning amount by wallet or gateway, webhooks, polling, reconciliation, expiry of the deadline | repeated and reordered webhooks, HTTP calls to the wallet, crash between two saves | a fee is taken once; PAID is not undone; a successful payment is recorded as paid |
| **wallet** (`identity-service/.../wallet`) | `wallet_balance` of `users`, `transactions` | deposit, fintech webhook, bid fee | repeated webhooks, READ COMMITTED transactions, whole `users` rows saved by other code | no overdraft, no more credits of a reference than deliveries of it that overlap, the balance is the sum of the transactions |
| **account** (`wallet-pin`, `auth`, `otp`) | PIN hash, attempts and lockout; refresh-token hash; one-time codes and counters in Redis | set and verify PIN, log in, refresh, OTP | read, hash for 100 ms, save the row; counters with INCR and then PEXPIRE | five guesses per lockout; a code or a token is used once |
| **guards** (`common/throttle.guard.ts`, `global-rate-limit.middleware.ts`, `checkLoginRateLimit`) | counters in Redis | count, refuse above the limit | INCR and then PEXPIRE, each a call that may be the last one | who is refused is served again |
| **winner management** (`query-service/.../winner-management.service.ts`) | `winners` rows, the winner of the auction | confirm a payment, extend a deadline, rotate | beside the engine's own expiry cron | nobody is PAID who did not pay |
| **API client, web session** (`packages/takelow-api`, `takelow-web/src`) | tokens, timer, refresh under way, user; in the browser the stored session | call, sign in, sign out, refresh, restore, time out | one refresh for many calls; several tabs; a session that changes during an `await` | nobody waits for ever; user, token and stored session agree |
| the rest | | reports, Socket.io gateway, notifications, audit, rbac, products, disputes, screens, mobile app, manifests, scripts | | |

How they interact: a bid request passes the interceptor (which reads the auction) and then
`placeBid`; `placeBid` may call the closure; the cron and the administrator call the same closure;
all three write the `auctions` row. Bidding requires a SUCCESSFUL fee transaction of the payment
component, which calls the wallet over HTTP. A closed auction is handed to the payment component, which moves its
winner and its status on, and so does winner management, on the same rows. Every request of a front end goes through the
API client, which keeps the tokens that authentication issued. Nothing runs under a database lock but the
closing transaction and the wallet's UPDATEs, so what a process has read may be old when it uses it. This
staleness is the subject of most of the hazards in `PROJECT.json`.

## 2. The modules

```
LowestUniqueBid            the rule and the Redis index (operators)
   |- LowestUniqueBidProofs
   `- Auction              one auction: bids, cron, administrators, faults
        |  implements Sale, what an auction promises (abstract)
        |- MCAuction       TLC instances
        |- AuctionProofs, ClosureProofs
        `- Reopen          + reopening and editing
             |- MCReopen
             `- ReopenProofs
Settlement                 what is promised of payments (abstract)
   ^ implemented by
Payment                    fees, winning amounts, deadlines of one auction
   |- MCPayment
   `- PaymentProofs
Ledger                     what a wallet promises (abstract)
   ^ implemented by
Wallet                     balance, transactions, whole-row saves
   |- MCWallet
   `- Account              + the PIN columns of the same rows
        |- MCAccount
        `- AccountProofs   (of Wallet, too)
Limits                     counters and one-time codes       - MCLimits,  LimitsProofs
Session                    API client, tabs, sign-in         - MCSession, SessionProofs
```

`Auction` and `Payment` meet in the row of the auction: `Payment!CloseAuction` is what `Auction` leaves behind. They are
not one module because what relates them is this row alone, and the product of their states says nothing more.
Operators named as mutants in a comment are the plausible bugs that each property is tried against; no action uses them.

### LowestUniqueBid

The rows of an auction are a sequence of `[user, amount]` in the order of `bid_time`. `WinningBids(rows, k)`
is what `calculateWinnersFromDb` computes from the first `k` rows; the prefix length makes it
possible to say "was the lowest unique bid at some moment". The properties do not use it but `LowestUnique`, the rule as the
business states it. `TrackBid` is the Lua script
`TRACK_BID_LUA` on a record of its three Redis keys, `IndexHasUnique` and `IndexWinners` are what is
read back from them. An amount is a number of cents; `normalizeAmount` makes two amounts the same key
exactly when they are the same number of cents. `num_winners` is not an argument: both callers pass 1.

### Auction

One auction, because nothing relates two auctions except the batch of the cron, which handles them
independently (`Promise.allSettled`).

*State.* `auction` is the row (status, end time, extensions, and `winner` for `winner_user_id` with
`winning_bid_amount`: a set with at most one bid), `bids` and `winners` the rows of those tables,
`index` and `lock` the keys in Redis, `now` the clock. `pc`, `request`, `snap` and `tally` are
the local variables of the processes: a *process* is one bid request, one run of the cron or one
administrator's request. `faults` bounds the failures, `fellBack` remembers that a winner was taken from Redis.

*Actions*, in the order of the code:

| step (`pc`) | action | code |
|---|---|---|
| idle | `ReceiveBid` | the interceptor: ACTIVE, not past the end; the end time read here is used later |
| lock | `AcquireLock`, `RefuseLocked` | `SET key PX 5000 NX` |
| check | `AcceptBid`, `RejectBid` | time, fee, duplicate |
| save | `SaveBid` | INSERT |
| track | `TrackInRedis` | the script |
| limit | `CheckLimit` | `total_bids >= max_bid`: go on to `single` |
| unlock | `Unlock` | DEL in `finally` |
| idle | `CronFind`, `AdminClose`, `AdminForce` | the cron's query, the administrator's requests |
| single, ensure, early | `ReadSingle`, `EnsureUnique` / `EnsureUniqueFromRedis`, `SaveEarlyEnd` | `closeSingleAuction` |
| force | `SaveForced` | `forceCloseSingleAuction` |
| status, rows, redis, count, persisted | `ReadStatus`, `TallyRows`, `TallyRedis`, `CountPersisted`, `FindPersisted` | `calculateWinners` |
| decide | `ExtendBelowMin`, `ExtendNoUnique`, `ExpireAuction`, `CommitWinner` | `closeAuction` |
| clean | `Cleanup` | `cleanupAuctionKeys`, which also deletes the lock |

*Failures.* `Abort` is a call that throws (the `finally` of a bid runs, a transaction is rolled back),
`Crash` a server that stops, `HeldLockExpires` a lock that outlives its TTL while its holder works,
`AbandonedLockExpires` the TTL after a crash, `IndexLost` keys that are evicted or expire,
`EnsureUniqueFromRedis` a query that fails and falls back on Redis, `TallyWithoutRedis` the reverse: `calculateWinners` catches the failure of Redis
and goes on with the result of the database. The three keys of the index go together, since they have one TTL; that Redis evicts only one of them, so that
`unique_bids` and `frequencies` disagree, is not modelled.

*What is one step.* Each call to Postgres or Redis is a step, with these exceptions. The checks of
`placeBid` (time, fee, duplicate) are one step: time and fee can move to the moment of the duplicate
search, since the clock may also move after it. `TallyRedis` merges three reads of Redis and one of `bids`.
`CommitWinner` is one step because the `save` takes the lock of the auctions row and keeps it until the
commit; a second closing transaction waits there and then sees the winners of the first.

*Assumptions on the libraries.* `save(entity)` writes back every column of the row that was read: so do
TypeORM's `save` (which reloads and compares) and the repository in `prisma-repository.ts:120-128`. The code is in the middle
of a migration from the one to the other, and `persistWinners` expects of its transaction manager the
`repository` method of the latter; the model takes this call to work as its code reads, and takes the
transaction of `createQueryRunner` to be a transaction. A `find` never fails half-way. Decrypting
an encrypted amount gives the amount.

*Left out.* Notifications, broadcasts, logging, audit. `flushAuction`, which does nothing. The `bidders` set, which
only feeds statistics. The payment fields of the row. The last `else` of `closeAuction` (`auction-closure.service.ts:215`), which cannot be
reached after the second extension test. `start_time`, which the bidding path never reads. The branch of
`calculateWinners` for a database without a winners table.

### Sale

`Sale` says what an auction promises while one closure runs at a time. `Count` looks at all bids at once, after the end, and
gives their number and the lowest unique one; `Act` then extends the auction, lets it expire or sells, on the row as it is and in both
tables in one step. `Place` is a bid of a user who has paid, at any time: what comes after the count does not
change the outcome. Locks, the index, requests, old rows and failures do not occur but in two places: `Drop`, a count that is thrown away, and
`Recount`, which is what `calculateWinners` does when it found no bids and asks Redis. `ImplementsSale` maps `counted` to the
tally of the cron run, and every other variable to its namesake.

### Wallet and Ledger

`Ledger` says what a wallet promises: a balance changes only together with a posting of the same amount and
never becomes negative. `Wallet` is the code: a deposit or a webhook searches for its reference (in the webhook
handler and again in `deposit`), and then its UPDATE, INSERT and COMMIT are one step, because they hold
the lock of the users row; a fee is one conditional UPDATE with its INSERT. The two tables are abstracted to
what the properties need: `posted`, the sum of a user's transactions, and `credited`, the number of
transactions of a reference. A *session* is `setPin`, `login` or `refreshToken`: it reads a users row, awaits
bcrypt, and saves the row with the balance it read. Two deliveries whose searches both come before the first COMMIT are both
credited (`wallet.service.ts:33`; nothing makes `reference_id` unique), although `UserGuide.md:900` says that duplicate deliveries do not lead
to double crediting. So what is claimed is `CreditsBounded`: one credit for each process that executes a deposit, and no more. `refund` is left out: nothing in the repository calls it.

### Reopen

`Reopen` extends `Auction` with `Editors`. A reopening is `ReadForReopen`, `DeleteWinners`, `DeleteBids`, `SaveReopened`,
`CleanReopened`, one query each and no transaction, and stops after any of them (`AbortReopen`); an edit is `ReadForUpdate` and
`SaveUpdated`, which writes the row that was read with another end. A call of `bulkReopenAuctions` is several reopenings.
`undone` remembers that an edit wrote an old row over a closure. Left out: `deleteAuction`, and an edit that sets the status by hand.
`min_bid`, `max_bid` and the fee are constants: an update (`auction-admin.service.ts:244`) and a reopening (`:334`) may change them in the code, and do not here, so nothing
is said of an auction that is counted by one `min_bid` and decided by another. The end that an update or a reopening sets is the old one or a fixed time from now.

### Payment and Settlement

`Settlement` says what is promised of a payment through a provider: a transaction is PENDING until the provider decided, then
says what it decided, for good; and every decision is learnt. `Payment` is the code.

*State.* `auction` and `winners` are the payment columns of those rows (a user has one winners row), `txns` the transactions
that have a link, by `client_reference_id`; `debits` counts the transactions paid from the wallet, `deducted` the debits the wallet
made. `gateway` is what the provider has decided of a link, `events` are the webhooks it may deliver. A process is an HTTP request, a run of the
expiry cron, or the task of the reconciliation for one transaction; it holds a `ref`, a `txn` and a `snap` of the auction row.

| steps | code |
|---|---|
| `AskForLink`, `AskForWallet`, `Reuse`, `PayAnew`, `OpenLink`, `SaveLink`, `Deduct`, `RefuseDeduction`, `SaveDebit` | `createBidFeePaymentLink`, `createWinningPaymentLink`, the two wallet payments, with the checks of the controllers |
| `UserPays`, `PaymentFails`, `DeliverWebhook` | the provider, and the two webhook controllers (`awash` is a near copy of `sikina`) |
| `FindPending`, `Answered`, `StillOpen` | status polls and `reconcilePendingPayments` |
| `RecordFailure` | `handleFailedPayment` |
| `RecordSuccess`, `ReadTransaction`, `StampTransaction` | `handleSuccessfulPayment` |
| `ConfirmWinning`, `ReadAuction`, `MarkWinner`, `CountUnpaid`, `SettleAuction`, `PickNext`, `PickNobody`, `PromoteWinner`, `InstallWinner` | `confirmWinningPayment`, `markAsPaid` |
| `FindOverdue`, `ExpireWinner`, `AwardNext`, `AwardNobody`, `VoidUnpaid`, `ExpireAuction` | `expireOverduePayments`, `handleExpiredPayment` |
| `AdminConfirms`, `AdminExtends`, `RotateOut`, `AssignNext` | winner management of the query-service |
| `CloseAuction`, `Tick`, `Fail` | the closure, the clock, a failure anywhere |

*What is one step.* Each query and each HTTP call, with three exceptions: the three reads of `confirmWinningPayment`
are one step, because `markAsPaid` reads the row again before it decides; each of the two halves of `triggerRotation` (find and UPDATE) is one;
and so is `ExpireWinner`, a `findOne` and a `save` of the same winners row (`payment.service.ts:673-684`): what another UPDATE writes to that row between the two is lost in the code and kept here.
`CloseAuction` is one step of module `Auction`; since two overlapping closures may leave different winners in the two tables, it
may name two users. `Fail` stands for a query or call that fails, a wallet call that times out after it deducted,
and a server that dies: what was done stays, the rest is not done. Amounts, signatures and the provider's own reference are left out.

### Account

`Account` extends `Wallet` with the PIN columns. `verifyPin` is `ReadPin`, `ResetLock`, `WrongPin` or `RightPin`, `CountAttempts`,
`LockPin`, `ClearPin`: each UPDATE and the second read are steps, since any other request may come between. The sessions of
`Wallet` (`setPin`, `login`, `refreshToken`) become `ReadRow` and `SaveRow`, which write these columns back too;
`rewound` remembers for whom that changed something.

### Limits

Four kinds of counter: `rate` and `verify` of the one-time codes, `gate` (`throttle.guard`, and the login limit, which is the same code),
`api` (the middleware, the only one that repairs a counter without expiry). `Increment` is INCR, `Arm` is PEXPIRE, `AskTtl` the repair. `LookUp`, `UpdateOtp`, `CreateOtp` are
`generateOtp`; `FindOtp`, `DeleteOtp`, `MarkVerified`, `DropCounter` are `verifyOtp`; `CleanUp` is the hourly cron. Time is what
remains of each expiry. `scope` picks which counters a behaviour uses: counters of different scopes share no state. The typed code is right or
wrong by choice. `compared`, `used` and `orphaned` are histories.

### Session

A tab runs JavaScript, so an action is what happens between two awaits, with the continuations that then run before any other task. Tokens, user and
stored session are the number of the login they come from: this is enough to say that they belong together.

| actions | code |
|---|---|
| `Call`, `Resend`, `AnswerOk`, `AnswerFails`, `AnswerBroken`, `AnswerLate`, `AnswerUnauthorized`, `AnswerExpired` | `request`: retries, back-off, 401 |
| `TimerFires`, `RefreshSucceeds`, `RefreshRefused`, `RefreshLost`, `RefreshGarbled` | `scheduleAccessRefresh`, `refreshAuth` and those that await it |
| `SubmitLogin`, and the answers with `kind` login, profile, restore, renew, restored (`SignsIn`, `Shows`, `GivesUp`) | `useAuthSession`, `restoreSession` |
| `SignOut`, `TimeOut`, `Receive`, `Persist`, `Reload` | `logout`, idle and absolute time-outs, the `BroadcastChannel`, the effect that stores the session, a page load |

The login form is submitted whenever nobody is shown: also while a stored session is being restored, since the login screen is there from the start
(`AppContext.tsx:227`), and while another login is under way, since Enter in the password field does not ask whether one is (`LoginScreen.tsx:294`). A restore that ends after such a
login shows its user over the new one or drops the new tokens. `overlapped` is the history of such crossings: a tab is in it when its last sign-in, sign-out or expiry
was crossed by a refresh, a sign-in or a restore that still goes on, and leaves it with the next one that is not, or when the page is loaded again.

`register` is a login without the profile. A message that arrives is answered by another (the receiver logs out with the same
reason), so messages need not die out; `MaxPending` caps them, and nothing is claimed of their end.

## 3. What is checked

| run | instance | checks | result |
|---|---|---|---|
| `auction_due` | 2 bidders, 1 cron, 3 bids, `min_bid` 2, clock to 2, 1 fault, fairness | `SettledAgrees`, `WinnerJustified`, `ActiveExcludes`, `ActiveNoDuplicate`, `SettledIsFinal`, `ImplementsSale`, `DueIsSettled` | hold |
| `auction_race` | 2 bidders, cron, administrator, 2 bids, `max_bid` 2, 1 fault | `TypeOK`, `IndexSound`, `WinnerJustified`, `WinnerIsABid`, `WinnersImmutable` | hold |
| `auction_reopen` | 1 bidder, cron, 1 editor, 3 bids, `min_bid` 2, 1 fault | `ReopenTypeOK`, `ConfirmedIsKept`, `NextRoundJustified` | hold |
| `auction_reactivated` | 2 bidders, 2 crons, no fault | `NotReactivated` | violated |
| `payment` | 2 users, 1 link, 1 request beside the crons and the winner desk, clock to 1 | `TypeOK`, `SuccessIsPaidFor`, `PaidIsPaidFor` | hold |
| `payment_settles` | 1 user, 1 link, 2 requests, reconciliation, 1 fault, fairness | `DebitsBounded`, `OneSettles`, `FollowsProvider`, `ImplementsSettlement` | hold |
| `payment_deadline` | 2 users, 1 request, expiry cron, winner desk, clock to 1, 1 fault, fairness | `OverdueIsResolved` | holds |
| `payment_lost` | 1 user, 1 link, 1 fault, fairness | `ChargedIsPaid` | violated |
| `account_rows` | 1 user, 2 depositors, 1 instant, 1 payment, 2 verifiers, 1 session, 1 fault | `AccountTypeOK`, `CreditsBounded`, `AttemptsBounded` | hold |
| `wallet_stale` | 1 depositor, 1 session | `BalanceIsPosted` | violated |
| `limits` | 2 requests, limits of 1, 2 codes, 1 fault, fairness | `TypeOK`, `NoImmortalCounter`, `UsesBounded`, `GuessesBounded`, `RefusalEnds` | hold |
| `client_session` | 2 tabs, 2 requests, 2 logins, 1 retry, 1 reload | `TypeOK`, `NobodyIsStranded`, `RefreshIsScheduled`, `UserHasToken`, `NothingIsKept` | hold |

The largest runs are `auction_race`, `auction_reopen` (1.9 million distinct states each), `payment` (1.8), `account_rows` (1.4) and `client_session` (1.2).

### What they show

- *The winner.* Whatever overlaps, however late the bids, a recorded winner was the lowest unique bid of a moment when `min_bid` had
  been reached, there is one at most, and the winners table is never rewritten. `SettledAgrees` and `SettledIsFinal` hold with one closure at
  a time. `ActiveExcludes` and `ActiveNoDuplicate` say what the Redis lock is good for: bids are kept apart while the
  auction is ACTIVE and no call fails or lock expires, though the clean-up of a closure deletes the lock.
- *The sale.* With one closure at a time all that overlaps amounts to one count of the bids and one decision on the current row (`ImplementsSale`): an
  auction expires only if there was a moment after its end without a bid, is extended only for want of bids or of a unique one, and is sold
  to the lowest unique of *all* bids that were in at the count.
- *The next round.* A reopening may stop after any query and a late bid of the round before may be saved into the next one: even so no
  confirmed winner is left without its bid, and a round is won like the first.
- *Payments.* Nothing is SUCCESSFUL that the provider or the wallet did not take, nobody is PAID without having been charged or
  confirmed by hand; one of several reporters of a payment settles it; decisions are learnt; a deadline that is over is acted upon.
  A user who clicks twice, or whose wallet call times out after the deduction, *is* charged twice: `DebitsBounded` says by how much, once for each request that overlaps and once for each failure.
- *Accounts.* A reference is credited once per delivery that overlaps another, and once where none does. Guesses of a PIN exceed the limit only by requests that overlap (or end before they lock), counted between
  two resets: a late reset that wipes a newer lockout does happen. A counter is left for good only by a PEXPIRE that was
  never sent. A code is used once per overlapping request.
- *Session.* Nobody waits for a refresh that is not under way, whoever has tokens has the timer that renews them, and a signed-out browser has
  nothing stored. The user shown may differ from the token sent only while a sign-in or a restore is under way, or if the last change of the session was crossed by another (`overlapped`).

`WinnerJustified` exempts a tally that fell back on Redis (`fellBack`): `calculateWinners` asks Redis when the bids table was empty,
and finds there a bid saved a moment later; by the time the winner is looked up there may be a lower unique one. What
remains true is `WinnerIsABid`.

### What is violated

Three runs contradict a sentence of the repository; the `findings` of `PROJECT.json` quote it.

- `auction_reactivated`: two closures that read the row at the same time can disagree about the number of bids, and the extension of one undoes the
  closing of the other.
- `wallet_stale`: a `save` of a whole users row takes back a concurrent deposit or fee.
- `payment_lost`: a process that stops between setting a transaction SUCCESSFUL and `markAsPaid` leaves an auction that no webhook, poll or cron marks PAID.

The same models show other limits of the properties above. They can be seen by strengthening a property or changing an instance, and have no run of their own:
a bid that has passed its checks is saved after the closing (`bidding.service.ts:154`; `br.md:113`), so `MutualExclusion` and
`NoDuplicateBid` do not outlive ACTIVE (`winner.service.ts:438`); reaching `max_bid` closes nothing when all bids are duplicates (`auction-closure.service.ts:255`);
two simultaneous deliveries of a webhook are both credited (`wallet.service.ts:33`; `CreditsBounded` with 1 for its bound fails in `account_rows`); two requests that verify one
code at the same time both succeed (`otp.service.ts:51`; SRS.md:928 calls it single-use); a sign-out does not reach the other tabs (UserGuide.md:174); a login during a restore may end with another user's token (`AppContext.tsx:326`);
with `Retries = TRUE`, where a link that failed is paid after all, a late FAILED takes SUCCESSFUL back (`payment.service.ts:550`).

### Bounds

- *Bids*: two bidders, because every race in `placeBid` is between two; a process that ends starts again, so there are
  more requests than processes. `MaxBids` bounds the rows. Two amounts are enough for unique, duplicate, lowest and not lowest.
- *Clock*: to 2 with an end at 0 or 1 and an extension of 1: a bid can be early, at the end and late, and an extended auction can
  run out again. In `Payment` to 1 with `Window` 0: a deadline is met or missed, and a winner promoted later has a later one.
- *`min_bid`, `max_bid`*: 2 where the extension below `min_bid` matters, 1 in `auction_race` so that two closures can come to
  different winners. 0 and `None` stand for NULL.
- *Payments*: in `payment` one link and one request, beside the task of the reconciliation, the expiry cron, the winner desk and the provider: so two reporters of the same
  payment, a payment beside an expiry, and an expiry beside a rotation do happen. `payment_settles` has two requests, so that clicks overlap, and one user without deadlines, since it is
  about a payment and not about who is next; `payment_deadline` has two users and no link, so that a deadline passes from one to
  the other and then to nobody, with payments from the wallet beside it.
- *Accounts*: two depositors that may have the same reference; `MaxDebt` bounds how far fees can be taken from money that a stale save
  brought back; `MaxWrong` is above what is reached between two resets. The constraint `Apart` runs deposits and PIN checks one after the other, both beside
  the session: they write different columns, and what relates them, the save of the whole row, is there in either part.
- *Counters*: a limit of 1 for each (the first attempt passes, the second is refused), windows of 1 and 2 ticks; a count above the limit is
  counted no further, which changes nothing for who reads it. Two codes, so that one replaces the other.
- *Session*: two tabs, two requests that share a refresh or log in at once, one retry where the code has two (`MAX_RETRIES`; the first attempt, the last and a wait between them
  are there, and the theorems hold for any number), two logins so that an old token can meet a new session.
- *Faults*: one at any place. More faults are more retries; the theorems hold for any number.

Deadlock is checked in the wallet's runs. Elsewhere the clock, the bids, the codes or the logins end, and then everything may stop. Symmetry
is over processes and users that are alike, and never where a liveness property is checked.

### Fairness

`Auction`: weak fairness of each cron process (the scheduler starts it every 10 seconds, and a run that has begun goes on) and of each bid
request under way (Node resumes a continuation whose call has answered). `Payment`: the same of both crons and of the requests
under way. `Limits`: time passes, and requests under way go on. Nothing is assumed of new requests, users, administrators, webhooks or the provider's
decision, but a provider that has decided says so when asked. The fairness of the reconciliation is for each transaction, as
if every run of the cron read them all; it reads at most 100 that are PENDING (`payment.service.ts:613`), so a decision may wait for as long as older ones stay PENDING. Failures are not fair, and bounded: they do not go on for ever. `Session` states no liveness.

## 4. What is proved

All theorems are for every value of the constants that satisfies the `ASSUME`s of the modules, and the assumption the theorem names.

| theorem | says | argument |
|---|---|---|
| `AtMostOneWinningBid`, `WinnerIsLowestUnique` | the calculation gives at most one bid, and it is the lowest unique one as the business states the rule (`LowestUnique`) | an amount has frequency 1 exactly when no other row has it |
| `AuctionProofs!TypeCorrect` | `[]TypeOK` | inductive, because `TypeOK` says which local variables a process has at each step |
| `WinnersChosenOnce` | `WinnersImmutable` | only `CommitWinner` writes the table, and keeps what is there |
| `WinnersJustified` | `[]WinnerJustified` | `JustifiedInv` |
| `LockExcludes` | bids alone, no faults, no `max_bid`: `[](MutualExclusion /\ NoDuplicateBid)` | `LockInv` |
| `WinnersAreBids` | `[]WinnerIsABid` | `MadeInv` |
| `IndexIsSound` | finitely many bidders: `[]IndexSound` | the bids counted and those about to be counted are no more than the rows of the amount |
| `OutcomeAgrees`, `OutcomeIsFinal` | `OneCloser`: `[]SettledAgrees`, `SettledIsFinal` | `CloserInv` |
| `OpenAuctionExcludes`, `OpenAuctionOnce` | `OneCloser`: `[]ActiveExcludes`, `[]ActiveNoDuplicate` | `OpenInv`: `LockInv` while ACTIVE and without faults |
| `OneClosureKeepsClosed` | `OneCloser`: `NotReactivated` | from `OutcomeIsFinal` |
| `AuctionIsASale` | `OneCloser`: `ImplementsSale` | `SaleInv`; every step is a `Place`, `Pass`, `Count`, `Recount`, `Drop`, `Act` or a stutter |
| `ReopenTypeCorrect` | `[]ReopenTypeOK` | inductive |
| `WinnerIsKept`, `EveryRoundJustified` | `OneEditor`: `[]ConfirmedIsKept`, `[]NextRoundJustified` | `RoundInv`, `EditInv` with `MadeInv`, `JustifiedInv` |
| `NeverOverdrawn` | `[]TypeOK` of the wallet, `balance` in `Nat` | the rows that sessions hold are not overdrawn either |
| `CreditsAreBounded` | finitely many depositors: `[]CreditsBounded`, in `Wallet` and in `Account` | `CreditInv` |
| `WalletImplementsLedger` | no session: `ImplementsLedger` | each step is a `Post` or leaves both variables alone |
| `BalanceFollows` | no session: `[]BalanceIsPosted` | inductive |
| `AccountTypeCorrect`, `GuessesOfPin` | `[]AccountTypeOK`; finitely many verifiers: `[]AttemptsBounded` | `LimitInv` |
| `LimitsProofs!TypeCorrect`, `CountersExpire` | `[]TypeOK`, `[]NoImmortalCounter` | inductive |
| `UsesAreBounded` | finitely many requests: `[]UsesBounded` | `CodesInv` |
| `GuessesAreBounded` | `OtpNumbers`: `[]GuessesBounded` | `GuessInv` |
| `PaymentProofs!TypeCorrect`, `PaidFor`, `DebitsAreBounded`, `PaidAreCharged` | `[]TypeOK`, `[]SuccessIsPaidFor`, `[]DebitsBounded`, `[]PaidIsPaidFor` | `TypeInv`, `LinkInv`, `MoneyInv`, `ChargeInv` |
| `OneAtATime`, `TransactionsFollow` | `~Retries`: `[]OneSettles`, `FollowsProvider` | `FinalInv` |
| `SessionProofs!TypeCorrect`, `Answered`, `KeptFresh` | `[]TypeOK`, `[]NobodyIsStranded`, `[]RefreshIsScheduled` | `TypeInv`, `RefreshInv` |
| `ShownHasToken`, `SignedOutEverywhere` | `[]UserHasToken`, `[]NothingIsKept` | `ShowInv` |

*Why the stronger invariants.* A process acts on what it read before, so a property of the tables is kept only if what
processes hold has it too.

- `WinnerJustified`: `CommitWinner` writes a winner computed long ago, an extension writes the winner of an old row. `JustifiedInv` adds that
  rows and tallies that processes hold are justified, unless the tally is below `min_bid` and so leads to an extension. `JustifiedGrows` shows
  that the lowest unique bid of a prefix stays so when a bid is appended. `MadeInv` says the same of being a bid.
- `LockInv`: a process between `check` and `unlock` is the one in the lock; at `save` its bid is not yet in the table.
  `CloserInv`: with one closing process the auction is ACTIVE from its query to its save, and its outcome is in both tables at once.
  `SaleInv` adds what the refinement needs: the row it holds *is* the row of the auction, past its end; it asks the index only with an empty count; and
  who is about to save a bid has paid.
- `RoundInv`, `EditInv`: a reopening deletes the bids under whatever was computed from them. That is harmless because it starts only when the
  row is EXPIRED (a CLOSED row has a winner and is refused), because nothing but it changes a row that is not ACTIVE, and because
  no cron run is between its query and its save while the row is not ACTIVE: so nobody holds a winner when the bids go. An update holds either a row without winner or
  the very row of the auction. Both need `OneEditor`: with two closures the stale save of one (`auction_reactivated`) makes a row ACTIVE under a
  reopening, and two edits do the same to each other.
- `LinkInv`: whoever is about to record a success was told so by the provider. `MoneyInv` counts: debits recorded plus debits being recorded do not exceed
  what was deducted; before the first is recorded, deductions are explained by requests at that point and by faults; after it, those still on the way to the
  wallet are requests that had found none. `ChargeInv`: whoever is in `markAsPaid` holds a user who was charged. `FinalInv`: without retries FAILED and SUCCESSFUL exclude each
  other on a link, and one process is past the conditional UPDATE. The refinement maps `known` to the status of a transaction; every step is `Open`, `Register`, `Decide`, `Learn` or a stutter.
- `LimitInv`: before the lock is set, each wrong PIN past the limit has a request about to lock or a fault; after it, only those that
  were let in before it still count. `CodesInv`: a code that can still be found has never been used, and uses plus requests that hold it
  are at most the requests. `CreditInv` is the same for a reference: nobody joins those who are about to credit it once it is credited.
- `GuessInv` bounds what an open code may still face: what is left of the window that counts, the requests that the window has let in, a
  whole window for each request that is about to remove the counter late, and one more if the window ends before the code does. `OtpNumbers` says that attempts are
  limited at all and that a code lives no longer than a window; in `otp.service.ts` the limit is 5 and both times are 5 minutes. Without it a code would
  outlive any number of windows, and the bound would be false.
- `RefreshInv` adds that the callback of the timer, too, awaits a refresh that is under way; `TypeInv` of `Session` says which requests have a tab and a login in hand.
  `ShowInv`: in a tab that is not in `overlapped`, a refresh under way and every sign-in or restore that has a login in hand carry the login of the token the tab has; one restore is under way per tab
  (of logins there may be several);
  and a stored session belongs to a tab that shows a user or is about to. These proofs use that `None` is no kind of request (`SessionAssumption`).

*Only model-checked.* Liveness and `ENABLED` are out of the prover's reach: `DueIsSettled`, `OverdueIsResolved`, `RefusalEnds`, and of
`ImplementsSettlement` its fairness (its safety is `FollowsProvider`). Every other property of a passing run has a theorem. `ImplementsLedger` is only proved. `NotReactivated` and
`BalanceIsPosted`, which are violated, are proved for the configurations without what violates them (`OneClosureKeepsClosed`, `BalanceFollows`), so the
runs name the only cause. No module uses a recursive operator: what is counted or summed is
counted by `Cardinality` or one step at a time, since induction over data is not available either.

## 5. Not modelled

By lines, most of the repository is screens, endpoints and reports: it moves data from a table to a page. The modules cover the code that has state
whose order of changes matters, a small share of all lines. Left out, with the reason:

- *Disputes, products and their review, users and settings of the administration*: a request changes one row, and nothing else reads it before it acts.
- *rbac*: pure rules. *nonce guard*: one atomic SET NX. *Response caches, Socket.io gateway*: copies that are read. *Queue worker*: `flushAuction` does nothing.
- *Settlement and transaction reports, statistics, exports*: they read.
- *Notifications, reminders, audit, gateway clients, SMS, mail*: output; what a provider answers is an input of `Payment`.
- *Contents of tokens and rotation of `refresh_token_hash`*: `Session` takes any answer of `/auth/refresh`, and `Wallet` has the save of the row.
- *`refund`*: no caller. *`deleteAuction`* and a status set by hand in `updateAuction`: they end or overwrite what the model is about.
- *Mobile app*: the same package and a near copy of the web session. *Screens, migrations, manifests, scripts, load tests*: no behaviour of their own.

What would come next: a promise like `Sale` for an auction with several rounds, implemented by `Reopen`; and the rotation of refresh tokens
between two tabs as a composition of `Session` with the identity service.
