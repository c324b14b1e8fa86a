----------------------- MODULE LowestUniqueBidProofs -----------------------
(***************************************************************************)
(* Facts about the lowest-unique-bid rule and about the index in Redis     *)
(* that hold for any users, amounts and rows.                              *)
(***************************************************************************)
EXTENDS LowestUniqueBid, FiniteSetTheorems, SequenceTheorems, TLAPS

LEMMA PositionsFinite ==
  ASSUME NEW rows, NEW k \in Nat, NEW amount
  PROVE  IsFiniteSet(Positions(rows, k, amount))
<1>1. IsFiniteSet(1..k)
  BY FS_Interval
<1>2. Positions(rows, k, amount) \subseteq 1..k
  BY DEF Positions
<1> QED
  BY <1>1, <1>2, FS_Subset

(* A row is counted as unique by calculateWinnersFromDb (its amount has
   frequency 1) exactly when its amount is valid and no other row has it. *)
LEMMA UniqueBidIsAlone ==
  ASSUME NEW rows, NEW k \in Nat, NEW i \in 1..k
  PROVE  i \in UniqueBids(rows, k)
           <=> /\ IsValid(rows[i].amount)
               /\ \A j \in 1..k : rows[j].amount = rows[i].amount => j = i
<1> DEFINE P == Positions(rows, k, rows[i].amount)
<1>1. IsFiniteSet(P)
  BY PositionsFinite
<1>2. i \in P
  BY DEF Positions
<1>3. Cardinality(P) = 1 <=> \E x : P = {x}
  BY <1>1, FS_Singleton
<1>4. (\E x : P = {x}) <=> \A j \in P : j = i
  BY <1>2
<1>5. (\A j \in P : j = i) <=> \A j \in 1..k : rows[j].amount = rows[i].amount => j = i
  BY DEF Positions
<1>6. i \in UniqueBids(rows, k) <=> IsValid(rows[i].amount) /\ Cardinality(P) = 1
  BY DEF UniqueBids, Frequency
<1> QED
  BY <1>3, <1>4, <1>5, <1>6

(* slice(0, 1) of the sorted unique amounts leaves a single winner. *)
THEOREM AtMostOneWinningBid ==
  ASSUME NEW rows \in Seq(Bid), NEW k \in 0..Len(rows),
         NEW i \in WinningBids(rows, k), NEW j \in WinningBids(rows, k)
  PROVE  i = j
<1>1. k \in Nat /\ i \in 1..k /\ j \in 1..k /\ i \in UniqueBids(rows, k) /\ j \in UniqueBids(rows, k)
  BY DEF WinningBids, UniqueBids
<1>2. rows[i] \in Bid /\ rows[j] \in Bid
  BY <1>1, ElementOfSeq
<1>3. rows[i].amount \in Nat /\ rows[j].amount \in Nat
  BY <1>2, AmountsAssumption DEF Bid
<1>4. rows[i].amount <= rows[j].amount /\ rows[j].amount <= rows[i].amount
  BY <1>1 DEF WinningBids
<1>5. rows[i].amount = rows[j].amount
  BY <1>3, <1>4
<1> QED
  BY <1>1, <1>5, UniqueBidIsAlone

(* calculateWinnersFromDb gives what the business calls the lowest unique bid:
   the valid amount that nobody else bid, below every other such amount. *)
THEOREM WinnerIsLowestUnique ==
  ASSUME NEW rows, NEW k \in Nat
  PROVE  WinningBids(rows, k) = LowestUnique(rows, k)
<1>1. UniqueBids(rows, k) = {i \in 1..k : Alone(rows, k, i)}
  BY UniqueBidIsAlone DEF UniqueBids, Alone
<1> QED
  BY <1>1 DEF WinningBids, LowestUnique

(* A later bid does not change what a calculation over the first k rows finds. *)
LEMMA AppendKeepsRows ==
  ASSUME NEW rows \in Seq(Bid), NEW bid \in Bid, NEW k \in 0..Len(rows), NEW i \in 1..k
  PROVE  Append(rows, bid)[i] = rows[i]
OBVIOUS

LEMMA AppendKeepsLowest ==
  ASSUME NEW rows \in Seq(Bid), NEW bid \in Bid, NEW k \in 0..Len(rows)
  PROVE  LowestUnique(Append(rows, bid), k) = LowestUnique(rows, k)
<1> DEFINE new == Append(rows, bid)
<1>1. \A i \in 1..k : new[i] = rows[i]
  BY AppendKeepsRows
<1> HIDE DEF new
<1>2. \A i \in 1..k : Alone(new, k, i) <=> Alone(rows, k, i)
  BY <1>1 DEF Alone
<1>3. LowestUnique(new, k) = LowestUnique(rows, k)
  BY <1>1, <1>2 DEF LowestUnique
<1> QED
  BY <1>3 DEF new

-----------------------------------------------------------------------------
(* The index. *)

LEMMA EmptyIndexType == EmptyIndex \in Index
BY DEF EmptyIndex, Index

LEMMA TrackBidType ==
  ASSUME NEW ix \in Index, NEW amount \in Amounts
  PROVE  TrackBid(ix, amount) \in Index
BY DEF TrackBid, Index

(* The script keeps the second sorted set to the members that the first one
   counts once. *)
LEMMA TrackBidKeepsUnique ==
  ASSUME NEW ix \in Index, NEW amount \in Amounts,
         ix.unique = {a \in Amounts : ix.freq[a] = 1}
  PROVE  TrackBid(ix, amount).unique = {a \in Amounts : TrackBid(ix, amount).freq[a] = 1}
<1> DEFINE new == TrackBid(ix, amount)
<1>1. ix.freq \in [Amounts -> Nat]
  BY DEF Index
<1>2. new.freq = [ix.freq EXCEPT ![amount] = ix.freq[amount] + 1]
  BY DEF TrackBid
<1>3. new.unique = IF ix.freq[amount] + 1 = 1 THEN ix.unique \cup {amount} ELSE ix.unique \ {amount}
  BY DEF TrackBid
<1> HIDE DEF new
<1>4. ASSUME NEW a \in Amounts
      PROVE  a \in new.unique <=> new.freq[a] = 1
  BY <1>1, <1>2, <1>3
<1>5. new.unique \subseteq Amounts
  BY <1>3
<1> QED
  BY <1>4, <1>5 DEF new

=============================================================================
