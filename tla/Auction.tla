------------------------------ MODULE Auction ------------------------------
(***************************************************************************)
(* One auction of the auction engine, from its creation to its closure:    *)
(* the bids that arrive (bidding.service.ts) and everything that closes it *)
(* (auction-closure.service.ts, winner.service.ts): the cron of            *)
(* closeExpiredAuctions, the early close and the forced close of an admin, *)
(* and the early close of the bid that reaches max_bid.                    *)
(*                                                                         *)
(* A process is one request or one cron run being executed.  Node runs     *)
(* them interleaved at every await, and several replicas run them at once, *)
(* so each call to Postgres or to Redis is one step, and what a process    *)
(* has read stays in its local variables while the others move on.  The    *)
(* row of the auction is written back whole (save of the entity that was   *)
(* read), so a save undoes what was written since the read.                *)
(***************************************************************************)
EXTENDS LowestUniqueBid

CONSTANTS Bidders,     \* processes that execute POST /auctions/:id/bid
          Crons,       \* runs of closeExpiredAuctions
          Admins,      \* admin requests: closeAuctionEarly, forceCloseAuction
          None,        \* SQL NULL, a free lock, a local variable without value
          PaidUsers,   \* users with a SUCCESSFUL BID_FEE transaction
          MinBid,      \* min_bid: a number of bids, 0 for NULL
          MaxBid,      \* max_bid: a number of bids, or None
          Duration,    \* end_time at creation
          Extension,   \* the 24 h of an extension, in ticks of the clock
          MaxNow,      \* bound: the last value of the clock
          MaxBids,     \* bound: rows in the bids table
          MaxFaults    \* bound: failures of the environment

Processes == Bidders \cup Crons \cup Admins

ASSUME ProcessAssumption ==
  /\ Bidders \cap Crons = {} /\ Bidders \cap Admins = {} /\ Crons \cap Admins = {}
  /\ None \notin Processes

ASSUME BoundAssumption ==
  /\ {MinBid, Duration, Extension, MaxNow, MaxBids, MaxFaults} \subseteq Nat
  /\ MaxBid \in Nat \cup {None}
  /\ PaidUsers \subseteq Users

VARIABLES auction,   \* the row of the auctions table
          bids,      \* the rows of the bids table
          winners,   \* the rows of the winners table
          index,     \* the frequencies, unique_bids and total_bids keys in Redis
          lock,      \* the lock key in Redis: the process that set it, or None
          now,       \* the clock of the servers
          pc,        \* where each process is
          request,   \* the bid of a process, with the end_time it read
          snap,      \* the row of the auction a closing process holds
          tally,     \* the result of calculateWinners
          faults,    \* failures that have happened
          fellBack   \* history: a winner was taken from the index

shared == <<auction, bids, winners, index, lock>>
local  == <<request, snap, tally>>
vars   == <<auction, bids, winners, index, lock, now, pc, request, snap, tally, faults, fellBack>>

Row == [status: {"ACTIVE", "CLOSED", "EXPIRED"},
        end_time: Nat,
        extensions: Nat,
        winner: SUBSET Bid]   \* winner_user_id and winning_bid_amount, {} for NULL

Request == [bid: Bid, end_time: Nat]
Tally   == [total: Nat, winners: SUBSET Bid]

BidSteps   == {"lock", "check", "save", "track"}
SnapSteps  == {"ensure", "early", "status", "rows", "redis", "count",
              "persisted", "decide", "force"}
Steps      == BidSteps \cup SnapSteps \cup {"idle", "limit", "unlock", "single", "clean"}

\* A bidder holds the lock from "check" to "unlock", and closes under it.
Critical == Steps \ {"idle", "lock"}

Goto(p, step) == pc' = [pc EXCEPT ![p] = step]

\* A closing process returns or throws: the bid goes on to its finally block,
\* the cron and the admin request end.
Return(p) ==
  /\ Goto(p, IF p \in Bidders THEN "unlock" ELSE "idle")
  /\ snap' = [snap EXCEPT ![p] = None]
  /\ tally' = [tally EXCEPT ![p] = None]

Init ==
  /\ auction = [status |-> "ACTIVE", end_time |-> Duration, extensions |-> 0, winner |-> {}]
  /\ bids = <<>>
  /\ winners = {}
  /\ index = EmptyIndex
  /\ lock = None
  /\ now = 0
  /\ pc = [p \in Processes |-> "idle"]
  /\ request = [p \in Processes |-> None]
  /\ snap = [p \in Processes |-> None]
  /\ tally = [p \in Processes |-> None]
  /\ faults = 0
  /\ fellBack = FALSE

-----------------------------------------------------------------------------
(* Placing a bid. *)

\* BiddingWindowInterceptor: the auction is ACTIVE and not past its end; the
\* end_time read here is the one placeBid checks again under the lock.
ReceiveBid(p) ==
  /\ pc[p] = "idle"
  /\ Len(bids) + Cardinality({q \in Bidders : pc[q] # "idle"}) < MaxBids
  /\ auction.status = "ACTIVE"
  /\ now <= auction.end_time
  /\ \E b \in Bid :
       request' = [request EXCEPT ![p] = [bid |-> b, end_time |-> auction.end_time]]
  /\ Goto(p, "lock")
  /\ UNCHANGED <<shared, now, snap, tally, faults, fellBack>>

\* Mutant of LockIsFree: SET without NX.
LockIsTaken == TRUE

\* SET lockKey userId PX LOCK_TTL NX.
LockIsFree == lock = None

AcquireLock(p) ==
  /\ pc[p] = "lock"
  /\ LockIsFree
  /\ lock' = p
  /\ Goto(p, "check")
  /\ UNCHANGED <<auction, bids, winners, index, now, local, faults, fellBack>>

\* "Auction is temporarily locked. Please retry."
RefuseLocked(p) ==
  /\ pc[p] = "lock"
  /\ ~LockIsFree
  /\ Goto(p, "idle")
  /\ request' = [request EXCEPT ![p] = None]
  /\ UNCHANGED <<shared, now, snap, tally, faults, fellBack>>

\* Mutant of Acceptable: no search for an existing bid.
AcceptableTwice(p) ==
  now <= request[p].end_time /\ request[p].bid.user \in PaidUsers

\* Not past the end read on arrival, fee paid, not a bid of this user already.
Acceptable(p) ==
  /\ now <= request[p].end_time
  /\ request[p].bid.user \in PaidUsers
  /\ \A i \in DOMAIN bids : bids[i] # request[p].bid

AcceptBid(p) ==
  /\ pc[p] = "check"
  /\ Acceptable(p)
  /\ Goto(p, "save")
  /\ UNCHANGED <<shared, now, local, faults, fellBack>>

RejectBid(p) ==
  /\ pc[p] = "check"
  /\ ~Acceptable(p)
  /\ Goto(p, "unlock")
  /\ request' = [request EXCEPT ![p] = None]
  /\ UNCHANGED <<shared, now, snap, tally, faults, fellBack>>

SaveBid(p) ==
  /\ pc[p] = "save"
  /\ bids' = Append(bids, request[p].bid)
  /\ Goto(p, "track")
  /\ UNCHANGED <<auction, winners, index, lock, now, local, faults, fellBack>>

\* trackBidInRedis, one atomic script.
TrackInRedis(p) ==
  /\ pc[p] = "track"
  /\ index' = TrackBid(index, request[p].bid.amount)
  /\ request' = [request EXCEPT ![p] = None]
  /\ Goto(p, "limit")
  /\ UNCHANGED <<auction, bids, winners, lock, now, snap, tally, faults, fellBack>>

\* The total is the counter of Redis, 1 when the counter is absent.
LimitReached ==
  MaxBid # None /\ (IF index.total = 0 THEN 1 ELSE index.total) >= MaxBid

CheckLimit(p) ==
  /\ pc[p] = "limit"
  /\ Goto(p, IF LimitReached THEN "single" ELSE "unlock")
  /\ UNCHANGED <<shared, now, local, faults, fellBack>>

\* The finally block: DEL, whoever holds the lock now.
Unlock(p) ==
  /\ pc[p] = "unlock"
  /\ lock' = None
  /\ Goto(p, "idle")
  /\ UNCHANGED <<auction, bids, winners, index, now, local, faults, fellBack>>

-----------------------------------------------------------------------------
(* What leads to closeAuction. *)

\* Mutant of IsOverdue: the query without the status.
IsPast(row) == row.end_time < now

\* The query of closeExpiredAuctions.
IsOverdue(row) == row.status = "ACTIVE" /\ row.end_time < now

CronFind(p) ==
  /\ pc[p] = "idle"
  /\ IsOverdue(auction)
  /\ snap' = [snap EXCEPT ![p] = auction]
  /\ Goto(p, "status")
  /\ UNCHANGED <<shared, now, request, tally, faults, fellBack>>

\* Mutant of AdminClose: goes on without reading the row.
AdminCloseUnread(p) ==
  /\ pc[p] = "idle"
  /\ auction.status = "ACTIVE"
  /\ Goto(p, "ensure")
  /\ UNCHANGED <<shared, now, local, faults, fellBack>>

\* closeAuctionEarly of auction-admin.service.ts.
AdminClose(p) ==
  /\ pc[p] = "idle"
  /\ auction.status = "ACTIVE"
  /\ Goto(p, "single")
  /\ UNCHANGED <<shared, now, local, faults, fellBack>>

\* closeSingleAuction reads the row, and throws unless it is ACTIVE.
ReadSingle(p) ==
  /\ pc[p] = "single"
  /\ IF auction.status = "ACTIVE"
     THEN /\ snap' = [snap EXCEPT ![p] = auction]
          /\ Goto(p, "ensure")
          /\ UNCHANGED tally
     ELSE Return(p)
  /\ UNCHANGED <<shared, now, request, faults, fellBack>>

\* hasUniqueBids of the rows, or closeSingleAuction throws.
EnsureUnique(p) ==
  /\ pc[p] = "ensure"
  /\ IF UniqueBids(bids, Len(bids)) # {}
     THEN Goto(p, "early") /\ UNCHANGED <<snap, tally, fellBack>>
     ELSE Return(p)
  /\ UNCHANGED <<shared, now, request, faults, fellBack>>

\* The query fails and hasUniqueBids asks the index.
EnsureUniqueFromRedis(p) ==
  /\ pc[p] = "ensure"
  /\ faults < MaxFaults
  /\ faults' = faults + 1
  /\ IF IndexHasUnique(index)
     THEN Goto(p, "early") /\ UNCHANGED <<snap, tally, fellBack>>
     ELSE Return(p)
  /\ UNCHANGED <<shared, now, request, fellBack>>

\* closeSingleAuction saves the row it read with end_time = now.
SaveEarlyEnd(p) ==
  /\ pc[p] = "early"
  /\ snap' = [snap EXCEPT ![p].end_time = now]
  /\ auction' = snap'[p]
  /\ Goto(p, "status")
  /\ UNCHANGED <<bids, winners, index, lock, now, request, tally, faults, fellBack>>

\* forceCloseSingleAuction reads the row, ACTIVE ...
AdminForce(p) ==
  /\ pc[p] = "idle"
  /\ auction.status = "ACTIVE"
  /\ snap' = [snap EXCEPT ![p] = auction]
  /\ Goto(p, "force")
  /\ UNCHANGED <<shared, now, request, tally, faults, fellBack>>

\* ... and saves it CLOSED, now, without a winner.
SaveForced(p) ==
  /\ pc[p] = "force"
  /\ auction' = [snap[p] EXCEPT !.status = "CLOSED", !.end_time = now, !.winner = {}]
  /\ Goto(p, "clean")
  /\ UNCHANGED <<bids, winners, index, lock, now, local, faults, fellBack>>

-----------------------------------------------------------------------------
(* closeAuction. *)

\* calculateWinners reads the status ...
ReadStatus(p) ==
  /\ pc[p] = "status"
  /\ Goto(p, IF auction.status = "ACTIVE" THEN "rows" ELSE "count")
  /\ UNCHANGED <<shared, now, local, faults, fellBack>>

Tallied(p, total, found) == tally' = [tally EXCEPT ![p] = [total |-> total, winners |-> found]]

\* ... and then the bids ...
TallyRows(p) ==
  /\ pc[p] = "rows"
  /\ LET n == Len(bids)
     IN /\ Tallied(p, n, {bids[i] : i \in WinningBids(bids, n)})
        /\ Goto(p, IF n = 0 THEN "redis" ELSE "decide")
  /\ UNCHANGED <<shared, now, request, snap, faults, fellBack>>

\* ... or, when there were none, what the index says (one step for its three
\* reads of Redis and the search of the earliest bidder) ...
TallyRedis(p) ==
  /\ pc[p] = "redis"
  /\ Tallied(p, index.total, IndexWinners(index, bids))
  /\ fellBack' = (fellBack \/ IndexWinners(index, bids) # {})
  /\ Goto(p, "decide")
  /\ UNCHANGED <<shared, now, request, snap, faults>>

\* ... or, for an auction that is not ACTIVE, the number of bids and the
\* winners that are there already (getPersistedWinners).
CountPersisted(p) ==
  /\ pc[p] = "count"
  /\ Tallied(p, Len(bids), {})
  /\ Goto(p, "persisted")
  /\ UNCHANGED <<shared, now, request, snap, faults, fellBack>>

FindPersisted(p) ==
  /\ pc[p] = "persisted"
  /\ Tallied(p, tally[p].total, winners)
  /\ Goto(p, "decide")
  /\ UNCHANGED <<shared, now, request, snap, faults, fellBack>>

\* Mutants of BelowMin: off by one, either way.
BelowMinLax(total)    == 0 < total /\ total + 1 < MinBid
BelowMinStrict(total) == 0 < total /\ total <= MinBid

BelowMin(total)     == 0 < total /\ total < MinBid

\* Mutant of NoUniqueBid: an auction without bids, too, has 24 h more.
NoWinner(result) == result.winners = {}

NoUniqueBid(result) == 0 < result.total /\ result.winners = {}

\* There are bids, and findWinBidWithRetry finds the row of the winner.
WinBidFound(result) == 0 < result.total /\ \E i \in DOMAIN bids : bids[i] \in result.winners

\* Fewer bids than min_bid: 24 h more.
ExtendBelowMin(p) ==
  /\ pc[p] = "decide"
  /\ BelowMin(tally[p].total)
  /\ auction' = [snap[p] EXCEPT !.end_time = now + Extension]
  /\ Return(p)
  /\ UNCHANGED <<bids, winners, index, lock, now, request, faults, fellBack>>

\* Bids, and none unique: 24 h more, counted.
ExtendNoUnique(p) ==
  /\ pc[p] = "decide"
  /\ ~BelowMin(tally[p].total)
  /\ NoUniqueBid(tally[p])
  /\ auction' = [snap[p] EXCEPT !.end_time = now + Extension, !.extensions = @ + 1]
  /\ Return(p)
  /\ UNCHANGED <<bids, winners, index, lock, now, request, faults, fellBack>>

Final(p) == /\ pc[p] = "decide"
            /\ ~BelowMin(tally[p].total)
            /\ ~NoUniqueBid(tally[p])

\* No bids, or none of the winner's: EXPIRED, in a transaction.
ExpireAuction(p) ==
  /\ Final(p)
  /\ ~WinBidFound(tally[p])
  /\ auction' = [snap[p] EXCEPT !.status = "EXPIRED"]
  /\ Goto(p, "clean")
  /\ UNCHANGED <<bids, winners, index, lock, now, local, faults, fellBack>>

\* Mutants of PersistWinners: without the check for existing winners; a check
\* that always finds some.
PersistAdded(found)   == winners \cup found
PersistSkipped(found) == winners

\* persistWinners keeps the winners that exist.
PersistWinners(found) == IF winners = {} THEN found ELSE winners

\* The transaction that closes: save of the whole row, then persistWinners.
\* One step, because the save locks the row until the commit and a second
\* transaction waits for it.
CommitWinner(p) ==
  /\ Final(p)
  /\ WinBidFound(tally[p])
  /\ auction' = [snap[p] EXCEPT !.status = "CLOSED", !.winner = tally[p].winners]
  /\ winners' = PersistWinners(tally[p].winners)
  /\ Goto(p, "clean")
  /\ UNCHANGED <<bids, index, lock, now, local, faults, fellBack>>

\* cleanupAuctionKeys: the index goes, and the lock of whoever bids now.
Cleanup(p) ==
  /\ pc[p] = "clean"
  /\ index' = EmptyIndex
  /\ lock' = None
  /\ Return(p)
  /\ UNCHANGED <<auction, bids, winners, now, request, faults, fellBack>>

-----------------------------------------------------------------------------
(* Time and failures. *)

Tick ==
  /\ now < MaxNow
  /\ now' = now + 1
  /\ UNCHANGED <<shared, pc, local, faults, fellBack>>

\* A call throws: the bid runs its finally block, a transaction is rolled
\* back, the request or the cron run ends.
Abort(p) ==
  /\ pc[p] \in Critical
  /\ faults < MaxFaults
  /\ faults' = faults + 1
  /\ request' = [request EXCEPT ![p] = None]
  /\ Return(p)
  /\ UNCHANGED <<shared, now, fellBack>>

\* Redis fails: calculateWinners goes on with what the database said, no bids.
TallyWithoutRedis(p) ==
  /\ pc[p] = "redis"
  /\ faults < MaxFaults
  /\ faults' = faults + 1
  /\ Tallied(p, 0, {})
  /\ Goto(p, "decide")
  /\ UNCHANGED <<shared, now, request, snap, fellBack>>

\* The server dies, or DEL fails: nothing more is done.
Crash(p) ==
  /\ pc[p] \in Critical
  /\ faults < MaxFaults
  /\ faults' = faults + 1
  /\ Goto(p, "idle")
  /\ request' = [request EXCEPT ![p] = None]
  /\ snap' = [snap EXCEPT ![p] = None]
  /\ tally' = [tally EXCEPT ![p] = None]
  /\ UNCHANGED <<shared, now, fellBack>>

\* LOCK_TTL_MS after a crash.
AbandonedLockExpires ==
  /\ lock # None
  /\ pc[lock] \notin Critical
  /\ lock' = None
  /\ UNCHANGED <<auction, bids, winners, index, now, pc, local, faults, fellBack>>

\* LOCK_TTL_MS is over and the bid is not: a slow query, a long closure.
HeldLockExpires ==
  /\ lock # None
  /\ pc[lock] \in Critical
  /\ faults < MaxFaults
  /\ faults' = faults + 1
  /\ lock' = None
  /\ UNCHANGED <<auction, bids, winners, index, now, pc, local, fellBack>>

\* The keys of the index outlive their TTL, which is one for the three, or are
\* evicted together.
IndexLost ==
  /\ index # EmptyIndex
  /\ faults < MaxFaults
  /\ faults' = faults + 1
  /\ index' = EmptyIndex
  /\ UNCHANGED <<auction, bids, winners, lock, now, pc, local, fellBack>>

-----------------------------------------------------------------------------

ServeStep(p) ==
  \/ AcquireLock(p) \/ RefuseLocked(p) \/ AcceptBid(p) \/ RejectBid(p)
  \/ SaveBid(p) \/ TrackInRedis(p) \/ CheckLimit(p) \/ Unlock(p)

CloseStep(p) ==
  \/ ReadSingle(p) \/ EnsureUnique(p) \/ SaveEarlyEnd(p) \/ SaveForced(p)
  \/ ReadStatus(p) \/ TallyRows(p) \/ TallyRedis(p)
  \/ CountPersisted(p) \/ FindPersisted(p)
  \/ ExtendBelowMin(p) \/ ExtendNoUnique(p) \/ ExpireAuction(p) \/ CommitWinner(p)
  \/ Cleanup(p)

FaultStep(p) ==
  \/ Abort(p) \/ Crash(p) \/ EnsureUniqueFromRedis(p) \/ TallyWithoutRedis(p)

Next ==
  \/ \E p \in Bidders : ReceiveBid(p) \/ ServeStep(p)
  \/ \E p \in Crons : CronFind(p)
  \/ \E p \in Admins : AdminClose(p) \/ AdminForce(p)
  \/ \E p \in Processes : CloseStep(p) \/ FaultStep(p)
  \/ Tick
  \/ AbandonedLockExpires \/ HeldLockExpires \/ IndexLost

Spec == Init /\ [][Next]_vars

-----------------------------------------------------------------------------
(* Correctness. *)

\* Every variable has its type, and a process has the local values its place
\* in the code reads.
TypeOK ==
  /\ auction \in Row
  /\ bids \in Seq(Bid)
  /\ winners \subseteq Bid
  /\ index \in Index
  /\ lock \in Processes \cup {None}
  /\ now \in Nat
  /\ pc \in [Processes -> Steps]
  /\ request \in [Processes -> Request \cup {None}]
  /\ snap \in [Processes -> Row \cup {None}]
  /\ tally \in [Processes -> Tally \cup {None}]
  /\ faults \in Nat
  /\ fellBack \in BOOLEAN
  /\ \A p \in Processes :
       /\ pc[p] \in BidSteps => request[p] \in Request
       /\ pc[p] \in SnapSteps => snap[p] \in Row
       /\ pc[p] \in {"persisted", "decide"} => tally[p] \in Tally

IndexConsistent == index.unique = {a \in Amounts : index.freq[a] = 1}

IndexBackedByRows ==
  \A a \in Amounts :
    index.freq[a] + Cardinality({p \in Bidders : pc[p] = "track" /\ request[p].bid.amount = a})
      <= Frequency(bids, Len(bids), a)

\* The amounts that the index calls unique are those it has counted once,
\* and it has counted nothing that is not in the bids table: what the script
\* of trackBidInRedis keeps while bids overlap, are lost between the save and
\* the script, and the keys go away under it.
IndexSound == IndexConsistent /\ IndexBackedByRows

\* A bid that was the lowest unique one when at least min_bid bids were in.
JustifiedWinners ==
  {bids[i] : i \in UNION {LowestUnique(bids, k) : k \in {n \in 1..Len(bids) : n >= MinBid}}}

\* Nobody wins, in the winners table or in the row of the auction, whose bid
\* was not the lowest unique one of the bids in at some moment, min_bid being
\* reached; however late the bids and however old the row and the tally that
\* are saved, unless the tally fell back on Redis.
WinnerJustified == fellBack \/ winners \cup auction.winner \subseteq JustifiedWinners

\* In the winners table and in the row of the auction alike there is at most
\* one winner, and it is a valid bid that was made: even when the tally comes
\* from Redis, or is of a moment long past.
WinnerIsABid ==
  /\ Cardinality(winners) <= 1 /\ Cardinality(auction.winner) <= 1
  /\ \A w \in winners \cup auction.winner :
       IsValid(w.amount) /\ \E i \in DOMAIN bids : bids[i] = w

\* Winners are chosen once: persistWinners never replaces or adds to them,
\* whatever other closures of this auction are under way.
WinnersImmutable == [][winners # {} => winners' = winners]_vars

\* At most one bid is between SET NX and the end of its finally block.
MutualExclusion ==
  \A p, q \in Bidders : pc[p] \in Critical /\ pc[q] \in Critical => p = q

\* No user has the same amount twice.
NoDuplicateBid == \A i, j \in DOMAIN bids : bids[i] = bids[j] => i = j

\* While an auction is open and nothing has failed, the lock makes placeBid a
\* critical section: the closures that run meanwhile, extend the auction and
\* delete the lock in the end must not let a second bid in.  (False once the
\* auction is closed: the clean-up deletes the lock of the bid under way.
\* True for one closer only: with two, an auction that is reactivated has lost
\* its lock to the clean-up of the other, see NotReactivated.)
ActiveExcludes == faults = 0 /\ auction.status = "ACTIVE" => MutualExclusion

\* ... and so no user makes the same bid twice: placeBid looks for it and
\* saves it in two steps that only the lock keeps together.  (With one closer
\* only, too.)
ActiveNoDuplicate == faults = 0 /\ auction.status = "ACTIVE" => NoDuplicateBid

\* What closed the auction is recorded alike in its row and in the winners
\* table.
SettledAgrees == auction.status # "ACTIVE" => auction.winner = winners

\* CLOSED and EXPIRED are final: with one closure at a time ...
SettledIsFinal == [][auction.status # "ACTIVE" => auction' = auction]_vars

\* ... and with several, "CLOSED" never leads back to "ACTIVE".
NotReactivated ==
  [][auction.status = "CLOSED" => auction'.status # "ACTIVE"]_vars

\* What a cron run has counted and not acted upon yet.
Counted == {tally[p] : p \in {c \in Crons : pc[c] \in {"redis", "decide"}}}

Promise == INSTANCE Sale WITH
  counted <- Counted,
  missed  <- fellBack

\* With one closure at a time an auction is a Sale: although the row, the bids
\* and the index are read in different steps, bids go on meanwhile and the row
\* is written back whole, it is as if they were counted in one look and the
\* result written to the row as it is, and to both tables at once.
ImplementsSale == Promise!Spec

-----------------------------------------------------------------------------
(* Liveness: the cron runs every 10 seconds, and a run or a request that has
   begun goes on until it ends.  Nothing is assumed of new bids, of admins, of
   the clock or of failures. *)

Fairness ==
  /\ \A p \in Crons : WF_vars(CronFind(p) \/ CloseStep(p))
  /\ \A p \in Bidders : WF_vars(ServeStep(p) \/ CloseStep(p))

FairSpec == Spec /\ Fairness

Quiet == \A p \in Processes : pc[p] = "idle"

\* An auction that is past its end with nothing under way, enough bids and a
\* unique one, is closed with a winner, whatever fails on the way.
DueIsSettled ==
  (/\ Quiet /\ IsOverdue(auction)
   /\ Len(bids) >= MinBid /\ UniqueBids(bids, Len(bids)) # {})
    ~> (auction.status = "CLOSED" /\ auction.winner # {} /\ auction.winner = winners)

=============================================================================
