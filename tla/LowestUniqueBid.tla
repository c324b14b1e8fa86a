-------------------------- MODULE LowestUniqueBid --------------------------
(***************************************************************************)
(* The lowest-unique-bid rule: what calculateWinnersFromDb of              *)
(* winner.service.ts computes from the rows of the bids table, and what    *)
(* the Lua script of bidding.service.ts (TRACK_BID_LUA) keeps of them in   *)
(* Redis.                                                                  *)
(*                                                                         *)
(* The rows of one auction are a sequence of [user, amount] records in the *)
(* order of bid_time, which is the order in which they were saved.  An     *)
(* amount is a number of cents: normalizeAmount rounds to two decimals, so *)
(* two amounts are the same key exactly when they are the same number of   *)
(* cents.  The operators take a prefix length k, because a calculation     *)
(* sees the rows that were there when it read the table.                   *)
(***************************************************************************)
EXTENDS Naturals, Sequences, FiniteSets

CONSTANTS Users,        \* the users that bid
          Amounts,      \* the amounts that can be bid, in cents
          MinValidBid   \* MIN_VALID_BID_AMOUNT, in cents

ASSUME AmountsAssumption == Amounts \subseteq Nat /\ MinValidBid \in Nat

Bid == [user: Users, amount: Amounts]

\* isValidBidAmount; readBidAmount is the amount itself: the decryption of an
\* amount that is stored encrypted gives it back.
IsValid(amount) == amount >= MinValidBid

Positions(rows, k, amount) == {i \in 1..k : rows[i].amount = amount}

Frequency(rows, k, amount) == Cardinality(Positions(rows, k, amount))

\* The rows whose amount is valid and has frequency 1.
UniqueBids(rows, k) ==
  {i \in 1..k : /\ IsValid(rows[i].amount)
                /\ Frequency(rows, k, rows[i].amount) = 1}

\* Mutants of WinningBids: not sliced; sorted the other way.
AllUniqueBids(rows, k) == UniqueBids(rows, k)
HighestBids(rows, k) ==
  {i \in UniqueBids(rows, k) :
     \A j \in UniqueBids(rows, k) : rows[i].amount >= rows[j].amount}

\* sort ascending, slice(0, 1): at most one row, the lowest unique bid.  Its
\* user is the earliest bidder of that amount, being the only one.
WinningBids(rows, k) ==
  {i \in UniqueBids(rows, k) :
     \A j \in UniqueBids(rows, k) : rows[i].amount <= rows[j].amount}

\* The rule as the business states it, to judge the calculation by: a valid
\* amount that no other row has, and the lowest of them.
Alone(rows, k, i) ==
  /\ IsValid(rows[i].amount)
  /\ \A j \in 1..k : rows[j].amount = rows[i].amount => j = i

LowestUnique(rows, k) ==
  {i \in 1..k : /\ Alone(rows, k, i)
                /\ \A j \in 1..k : Alone(rows, k, j) => rows[i].amount <= rows[j].amount}

-----------------------------------------------------------------------------
(* The index in Redis: sorted set of frequencies, sorted set of the amounts
   seen once, counter.  An absent member has frequency 0, an absent counter
   is 0: INCR never leaves it at 0. *)

Index == [freq: [Amounts -> Nat], unique: SUBSET Amounts, total: Nat]

EmptyIndex == [freq |-> [a \in Amounts |-> 0], unique |-> {}, total |-> 0]

\* Mutant of TrackBid: what the branch of trackBidInRedis for a client without
\* eval does, ZADD with no ZREM.
TrackBidAddOnly(ix, amount) ==
  [freq   |-> [ix.freq EXCEPT ![amount] = @ + 1],
   unique |-> ix.unique \cup {amount},
   total  |-> ix.total + 1]

\* TRACK_BID_LUA: ZINCRBY; ZADD if the count is now 1, else ZREM; INCR.
TrackBid(ix, amount) ==
  LET count == ix.freq[amount] + 1
  IN [freq   |-> [ix.freq EXCEPT ![amount] = count],
      unique |-> IF count = 1 THEN ix.unique \cup {amount}
                              ELSE ix.unique \ {amount},
      total  |-> ix.total + 1]

\* hasUniqueBidsFromRedis, with null as FALSE.
IndexHasUnique(ix) ==
  ix.total # 0 /\ \E a \in ix.unique : ix.freq[a] = 1

\* calculateWinnersFromRedis: the lowest amount of the index, if it is valid
\* and of frequency 1, with its earliest bidder among the rows, if any.
IndexWinners(ix, rows) ==
  {rows[i] : i \in {j \in DOMAIN rows :
     /\ rows[j].amount \in ix.unique
     /\ \A a \in ix.unique : rows[j].amount <= a
     /\ IsValid(rows[j].amount)
     /\ ix.freq[rows[j].amount] = 1
     /\ \A k \in 1..(j - 1) : rows[k].amount # rows[j].amount}}

=============================================================================
