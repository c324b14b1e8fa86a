--------------------------- MODULE ClosureProofs ---------------------------
(***************************************************************************)
(* More theorems of the auction: who wins made the winning bid, the index  *)
(* counts no more than the bids, and with one closure at a time the lock   *)
(* holds, the outcome is final and the auction implements module Sale.     *)
(***************************************************************************)
EXTENDS AuctionProofs

-----------------------------------------------------------------------------
(* A winner is a bid. *)

ValidBids == {bids[i] : i \in {j \in DOMAIN bids : IsValid(bids[j].amount)}}

OneBid(found) == found \subseteq ValidBids /\ \A v, w \in found : v = w

\* Winners stay single valid bids because the row a closing process holds and
\* the tally it decides on name no others.
MadeInv ==
  /\ OneBid(winners)
  /\ OneBid(auction.winner)
  /\ \A p \in Processes :
       /\ pc[p] \in SnapSteps => OneBid(snap[p].winner)
       /\ pc[p] = "decide" => OneBid(tally[p].winners)

\* Later bids take nothing away.
LEMMA ValidBidsGrow ==
  ASSUME bids \in Seq(Bid), NEW bid \in Bid, bids' = Append(bids, bid)
  PROVE  ValidBids \subseteq ValidBids'
<1> SUFFICES ASSUME NEW i \in DOMAIN bids, IsValid(bids[i].amount)
             PROVE  bids[i] \in ValidBids'
  BY DEF ValidBids
<1>1. i \in DOMAIN bids' /\ bids'[i] = bids[i]
  OBVIOUS
<1> QED
  BY <1>1 DEF ValidBids

\* The rows give one winner, which is a valid bid ...
LEMMA RowsGiveOne ==
  ASSUME bids \in Seq(Bid)
  PROVE  OneBid({bids[i] : i \in WinningBids(bids, Len(bids))})
<1>1. Len(bids) \in 0..Len(bids) /\ DOMAIN bids = 1..Len(bids)
  OBVIOUS
<1>2. \A i \in WinningBids(bids, Len(bids)) : i \in DOMAIN bids /\ IsValid(bids[i].amount)
  BY <1>1 DEF WinningBids, UniqueBids
<1>3. \A i, j \in WinningBids(bids, Len(bids)) : i = j
  BY <1>1, AtMostOneWinningBid
<1>4. {bids[i] : i \in WinningBids(bids, Len(bids))} \subseteq ValidBids
  BY <1>2 DEF ValidBids
<1> QED
  BY <1>3, <1>4 DEF OneBid

\* ... and so does the index, whatever is left in it: the earliest bid of its
\* lowest amount.
LEMMA IndexGivesOne ==
  ASSUME bids \in Seq(Bid), NEW ix
  PROVE  OneBid(IndexWinners(ix, bids))
<1> DEFINE J == {j \in DOMAIN bids :
     /\ bids[j].amount \in ix.unique
     /\ \A a \in ix.unique : bids[j].amount <= a
     /\ IsValid(bids[j].amount)
     /\ ix.freq[bids[j].amount] = 1
     /\ \A k \in 1..(j - 1) : bids[k].amount # bids[j].amount}
<1>1. IndexWinners(ix, bids) = {bids[j] : j \in J}
  BY DEF IndexWinners
<1>2. IndexWinners(ix, bids) \subseteq ValidBids
  BY <1>1 DEF ValidBids
<1>3. ASSUME NEW i \in J, NEW j \in J
      PROVE  i = j
  <2>1. i \in Nat /\ j \in Nat /\ i >= 1 /\ j >= 1 /\ bids[i] \in Bid /\ bids[j] \in Bid
    BY ElementOfSeq
  <2>2. bids[i].amount \in Nat /\ bids[j].amount \in Nat
    BY <2>1, AmountsAssumption DEF Bid
  <2>3. bids[i].amount <= bids[j].amount /\ bids[j].amount <= bids[i].amount
    OBVIOUS
  <2>4. bids[i].amount = bids[j].amount
    BY <2>2, <2>3
  <2>5. i \notin 1..(j - 1) /\ j \notin 1..(i - 1)
    BY <2>4
  <2> QED
    BY <2>1, <2>5
<1> HIDE DEF J
<1> QED
  BY <1>1, <1>2, <1>3 DEF OneBid

LEMMA NoneIsOne == OneBid({})
BY DEF OneBid

LEMMA MadeStep ==
  ASSUME TypeOK, MadeInv, NEW p \in Processes, bids' = bids,
         OneBid(winners'), OneBid(auction'.winner),
         \A q \in Processes \ {p} : pc'[q] = pc[q] /\ snap'[q] = snap[q] /\ tally'[q] = tally[q],
         pc'[p] \in SnapSteps => OneBid(snap'[p].winner),
         pc'[p] = "decide" => OneBid(tally'[p].winners)
  PROVE  MadeInv'
<1>1. ValidBids' = ValidBids
  BY DEF ValidBids
<1> QED
  BY <1>1 DEF MadeInv, OneBid

LEMMA ServeMade ==
  ASSUME TypeOK, MadeInv, NEW p \in Bidders, ReceiveBid(p) \/ ServeStep(p)
  PROVE  MadeInv'
<1> USE DEF shared, local, Goto
<1>0. p \in Processes /\ snap' = snap /\ tally' = tally /\ winners' = winners /\ auction' = auction
  BY DEF Processes, ServeStep, ReceiveBid, AcquireLock, RefuseLocked, AcceptBid, RejectBid,
         SaveBid, TrackInRedis, CheckLimit, Unlock
<1>1. ValidBids \subseteq ValidBids'
  <2>1. CASE SaveBid(p)
    <3>1. request[p].bid \in Bid /\ bids \in Seq(Bid)
      BY <1>0, <2>1 DEF SaveBid, TypeOK, BidSteps, Request
    <3> QED
      BY <2>1, <3>1, ValidBidsGrow DEF SaveBid
  <2>2. CASE ~SaveBid(p)
    <3>1. bids' = bids
      BY <2>2 DEF ServeStep, ReceiveBid, AcquireLock, RefuseLocked, AcceptBid, RejectBid,
                  TrackInRedis, CheckLimit, Unlock
    <3> QED
      BY <3>1 DEF ValidBids
  <2> QED
    BY <2>1, <2>2
<1>2. \A q \in Processes : pc'[q] \in SnapSteps => pc[q] = pc'[q]
  BY DEF TypeOK, SnapSteps, ServeStep, ReceiveBid, AcquireLock, RefuseLocked, AcceptBid,
         RejectBid, SaveBid, TrackInRedis, CheckLimit, Unlock
<1>3. "decide" \in SnapSteps
  BY DEF SnapSteps
<1> QED
  BY <1>0, <1>1, <1>2, <1>3 DEF MadeInv, OneBid

LEMMA StartMade ==
  ASSUME TypeOK, MadeInv, NEW p \in Processes, CronFind(p) \/ AdminClose(p) \/ AdminForce(p)
  PROVE  MadeInv'
<1> USE DEF shared, local, Goto
<1>1. bids' = bids /\ winners' = winners /\ auction' = auction
  BY DEF CronFind, AdminClose, AdminForce
<1>2. \A q \in Processes \ {p} : pc'[q] = pc[q] /\ snap'[q] = snap[q] /\ tally'[q] = tally[q]
  BY DEF CronFind, AdminClose, AdminForce, TypeOK
<1>3. pc'[p] \in SnapSteps => snap'[p] = auction
  BY DEF CronFind, AdminClose, AdminForce, TypeOK, SnapSteps
<1>4. pc'[p] # "decide"
  BY DEF CronFind, AdminClose, AdminForce, TypeOK
<1> QED
  BY <1>1, <1>2, <1>3, <1>4, MadeStep DEF MadeInv

LEMMA CloseMade ==
  ASSUME TypeOK, MadeInv, NEW p \in Processes, CloseStep(p)
  PROVE  MadeInv'
<1> USE DEF shared, local, Goto
<1>a. /\ OneBid(winners) /\ OneBid(auction.winner)
      /\ pc[p] \in SnapSteps => snap[p] \in Row /\ OneBid(snap[p].winner)
      /\ pc[p] = "decide" => OneBid(tally[p].winners)
  BY DEF MadeInv, TypeOK
<1>1. CASE ReadSingle(p)
  BY <1>a, <1>1, MadeStep DEF ReadSingle, Return, TypeOK, SnapSteps
<1>2. CASE EnsureUnique(p)
  BY <1>a, <1>2, MadeStep DEF EnsureUnique, Return, TypeOK, SnapSteps
<1>3. CASE SaveEarlyEnd(p)
  <2>1. auction' = [snap[p] EXCEPT !.end_time = now] /\ snap'[p] = auction'
    BY <1>3 DEF SaveEarlyEnd, TypeOK
  <2>2. OneBid(auction'.winner) /\ OneBid(snap'[p].winner)
    BY <1>a, <1>3, <2>1 DEF SaveEarlyEnd, SnapSteps, Row
  <2> QED
    BY <1>a, <1>3, <2>2, MadeStep DEF SaveEarlyEnd, TypeOK, SnapSteps
<1>4. CASE SaveForced(p)
  <2>1. auction'.winner = {}
    BY <1>a, <1>4 DEF SaveForced, SnapSteps, Row
  <2> QED
    BY <1>a, <1>4, <2>1, NoneIsOne, MadeStep DEF SaveForced, TypeOK, SnapSteps
<1>5. CASE ReadStatus(p)
  BY <1>a, <1>5, MadeStep DEF ReadStatus, TypeOK, SnapSteps
<1>6. CASE TallyRows(p)
  <2>1. tally'[p].winners = {bids[i] : i \in WinningBids(bids, Len(bids))}
    BY <1>6 DEF TallyRows, Tallied, TypeOK
  <2>2. OneBid(tally'[p].winners)
    BY <2>1, RowsGiveOne DEF TypeOK
  <2>3. pc[p] \in SnapSteps /\ snap' = snap
    BY <1>6 DEF TallyRows, SnapSteps
  <2> QED
    BY <1>a, <1>6, <2>2, <2>3, MadeStep DEF TallyRows, Tallied, TypeOK
<1>7. CASE TallyRedis(p)
  <2>1. tally'[p].winners = IndexWinners(index, bids)
    BY <1>7 DEF TallyRedis, Tallied, TypeOK
  <2>2. OneBid(tally'[p].winners)
    BY <2>1, IndexGivesOne DEF TypeOK
  <2>3. pc[p] \in SnapSteps /\ snap' = snap
    BY <1>7 DEF TallyRedis, SnapSteps
  <2> QED
    BY <1>a, <1>7, <2>2, <2>3, MadeStep DEF TallyRedis, Tallied, TypeOK
<1>8. CASE CountPersisted(p)
  BY <1>a, <1>8, MadeStep DEF CountPersisted, Tallied, TypeOK, SnapSteps
<1>9. CASE FindPersisted(p)
  BY <1>a, <1>9, MadeStep DEF FindPersisted, Tallied, TypeOK, SnapSteps
<1>10. CASE ExtendBelowMin(p)
  BY <1>a, <1>10, MadeStep DEF ExtendBelowMin, Return, TypeOK, SnapSteps, Row
<1>11. CASE ExtendNoUnique(p)
  BY <1>a, <1>11, MadeStep DEF ExtendNoUnique, Return, TypeOK, SnapSteps, Row
<1>12. CASE ExpireAuction(p)
  BY <1>a, <1>12, MadeStep DEF ExpireAuction, Final, TypeOK, SnapSteps, Row
<1>13. CASE CommitWinner(p)
  <2>1. OneBid(tally[p].winners)
    BY <1>a, <1>13 DEF CommitWinner, Final
  <2>2. auction'.winner = tally[p].winners /\ OneBid(winners')
    BY <1>a, <1>13, <2>1 DEF CommitWinner, PersistWinners, Final, SnapSteps, Row
  <2> QED
    BY <1>a, <1>13, <2>1, <2>2, MadeStep DEF CommitWinner, Final, TypeOK, SnapSteps
<1>14. CASE Cleanup(p)
  BY <1>a, <1>14, MadeStep DEF Cleanup, Return, TypeOK, SnapSteps
<1> QED
  BY <1>1, <1>2, <1>3, <1>4, <1>5, <1>6, <1>7, <1>8, <1>9, <1>10, <1>11, <1>12,
     <1>13, <1>14 DEF CloseStep

LEMMA FaultMade ==
  ASSUME TypeOK, MadeInv, NEW p \in Processes, FaultStep(p)
  PROVE  MadeInv'
<1> USE DEF shared, local, Goto
<1>1. /\ bids' = bids /\ winners' = winners /\ auction' = auction
      /\ \A q \in Processes \ {p} : pc'[q] = pc[q] /\ snap'[q] = snap[q] /\ tally'[q] = tally[q]
      /\ pc'[p] \in SnapSteps => pc[p] \in SnapSteps /\ snap' = snap
      /\ pc'[p] = "decide" => tally'[p].winners = {}
  BY DEF FaultStep, Abort, Crash, EnsureUniqueFromRedis, TallyWithoutRedis, Tallied, Return,
         TypeOK, SnapSteps
<1> QED
  BY <1>1, NoneIsOne, MadeStep DEF MadeInv

LEMMA NextMade == TypeOK /\ MadeInv /\ [Next]_vars => MadeInv'
<1> SUFFICES ASSUME TypeOK, MadeInv, [Next]_vars PROVE MadeInv'
  OBVIOUS
<1>1. CASE UNCHANGED vars \/ Tick \/ AbandonedLockExpires \/ HeldLockExpires \/ IndexLost
  <2>1. UNCHANGED <<auction, bids, winners, pc, snap, tally>>
    BY <1>1 DEF vars, shared, local, Tick, AbandonedLockExpires, HeldLockExpires, IndexLost
  <2> QED
    BY <2>1 DEF MadeInv, OneBid, ValidBids
<1>2. CASE Next /\ ~(Tick \/ AbandonedLockExpires \/ HeldLockExpires \/ IndexLost)
  BY <1>2, ServeMade, StartMade, CloseMade, FaultMade DEF Next, Processes
<1> QED
  BY <1>1, <1>2

LEMMA MadeImplies == MadeInv => WinnerIsABid
<1> SUFFICES ASSUME MadeInv PROVE WinnerIsABid
  OBVIOUS
<1>1. ASSUME NEW found, OneBid(found)
      PROVE  /\ Cardinality(found) <= 1
             /\ \A w \in found : IsValid(w.amount) /\ \E i \in DOMAIN bids : bids[i] = w
  <2>1. found = {} \/ \E w : found = {w}
    BY <1>1 DEF OneBid
  <2>2. Cardinality(found) = 0 \/ Cardinality(found) = 1
    BY <2>1, FS_EmptySet, FS_Singleton
  <2> QED
    BY <1>1, <2>2 DEF OneBid, ValidBids
<1> QED
  BY <1>1 DEF MadeInv, WinnerIsABid

\* Whatever closures overlap, on rows or on an index however stale: at most one
\* winner, who made a valid bid.
THEOREM WinnersAreBids == Spec => []WinnerIsABid
<1>1. Init => TypeOK /\ MadeInv
  <2>1. Init => MadeInv
    BY NoneIsOne DEF Init, MadeInv, SnapSteps
  <2> QED
    BY <2>1, InitType
<1>2. (TypeOK /\ MadeInv) /\ [Next]_vars => (TypeOK /\ MadeInv)'
  BY NextType, NextMade
<1> QED
  BY <1>1, <1>2, MadeImplies, PTL DEF Spec

-----------------------------------------------------------------------------
(* The index in Redis. *)

\* The bids of amount a that are saved and not yet counted.
Pending(a) == {p \in Bidders : pc[p] = "track" /\ request[p].bid.amount = a}

\* What is counted, and what will be, is in the rows.
Backed(a) == index.freq[a] + Cardinality(Pending(a)) <= Frequency(bids, Len(bids), a)

LEMMA BackedIsBacked == IndexBackedByRows <=> \A a \in Amounts : Backed(a)
BY DEF IndexBackedByRows, Backed, Pending

LEMMA PendingFinite ==
  ASSUME IsFiniteSet(Bidders), NEW a
  PROVE  IsFiniteSet(Pending(a)) /\ Cardinality(Pending(a)) \in Nat
<1>1. Pending(a) \subseteq Bidders
  BY DEF Pending
<1> QED
  BY <1>1, FS_Subset, FS_CardinalityType

LEMMA FrequencyType ==
  ASSUME NEW rows \in Seq(Bid), NEW k \in Nat, NEW a
  PROVE  Frequency(rows, k, a) \in Nat
BY PositionsFinite, FS_CardinalityType DEF Frequency

\* A bid more of its amount, and as many of any other.
LEMMA FrequencyOfAppend ==
  ASSUME NEW rows \in Seq(Bid), NEW bid \in Bid, NEW a
  PROVE  Frequency(Append(rows, bid), Len(Append(rows, bid)), a)
           = Frequency(rows, Len(rows), a) + (IF bid.amount = a THEN 1 ELSE 0)
<1> DEFINE new == Append(rows, bid)
           n   == Len(rows)
<1>1. n \in Nat /\ Len(new) = n + 1 /\ new[n + 1] = bid /\ \A i \in 1..n : new[i] = rows[i]
  OBVIOUS
<1>2. IsFiniteSet(Positions(rows, n, a)) /\ Cardinality(Positions(rows, n, a)) \in Nat
  BY <1>1, PositionsFinite, FS_CardinalityType
<1> HIDE DEF new, n
<1>3. n + 1 \notin Positions(rows, n, a)
  BY <1>1 DEF Positions
<1>4. CASE bid.amount = a
  <2>1. Positions(new, n + 1, a) = Positions(rows, n, a) \cup {n + 1}
    BY <1>1, <1>4 DEF Positions
  <2>2. Cardinality(Positions(new, n + 1, a)) = Cardinality(Positions(rows, n, a)) + 1
    BY <1>2, <1>3, <2>1, FS_AddElement
  <2> QED
    BY <1>1, <1>4, <2>2 DEF Frequency, new, n
<1>5. CASE bid.amount # a
  <2>1. Positions(new, n + 1, a) = Positions(rows, n, a)
    BY <1>1, <1>5 DEF Positions
  <2>2. Cardinality(Positions(new, n + 1, a)) = Cardinality(Positions(rows, n, a)) + 0
    BY <1>2, <2>1
  <2> QED
    BY <1>1, <1>5, <2>2 DEF Frequency, new, n
<1> QED
  BY <1>4, <1>5

\* Steps that save no bid and count none.
LEMMA FewerAreBacked ==
  ASSUME IsFiniteSet(Bidders), TypeOK, IndexSound, bids' = bids,
         index' = index \/ index' = EmptyIndex,
         \A q \in Bidders : pc'[q] = "track" => pc[q] = "track" /\ request'[q] = request[q]
  PROVE  IndexSound'
<1>1. index \in Index /\ bids \in Seq(Bid) /\ Len(bids) \in Nat
  BY DEF TypeOK
<1>2. IndexConsistent'
  BY DEF IndexSound, IndexConsistent, EmptyIndex
<1>3. ASSUME NEW a \in Amounts
      PROVE  Backed(a)'
  <2>1. Pending(a)' \subseteq Pending(a)
    BY DEF Pending
  <2>2. IsFiniteSet(Pending(a)) /\ Cardinality(Pending(a)) \in Nat
    BY PendingFinite
  <2>3. Cardinality(Pending(a)') \in Nat /\ Cardinality(Pending(a)') <= Cardinality(Pending(a))
    BY <2>1, <2>2, FS_Subset, FS_CardinalityType
  <2>4. index'.freq[a] \in Nat /\ index.freq[a] \in Nat /\ index'.freq[a] <= index.freq[a]
    BY <1>1 DEF Index, EmptyIndex
  <2>5. Frequency(bids, Len(bids), a) \in Nat
    BY <1>1, FrequencyType
  <2>6. Backed(a)
    BY BackedIsBacked DEF IndexSound
  <2>7. index'.freq[a] + Cardinality(Pending(a)') <= Frequency(bids, Len(bids), a)
    BY <2>2, <2>3, <2>4, <2>5, <2>6 DEF Backed
  <2> QED
    BY <2>7 DEF Backed
<1>4. IndexBackedByRows'
  BY <1>3 DEF IndexBackedByRows, Backed, Pending
<1> QED
  BY <1>2, <1>4 DEF IndexSound

LEMMA SaveIsBacked ==
  ASSUME IsFiniteSet(Bidders), TypeOK, IndexSound, NEW p \in Bidders, SaveBid(p)
  PROVE  IndexSound'
<1>1. p \in Processes /\ index \in Index /\ bids \in Seq(Bid)
  BY DEF TypeOK, Processes
<1>2. request[p].bid \in Bid
  BY <1>1 DEF SaveBid, TypeOK, BidSteps, Request
<1>3. /\ index' = index /\ request' = request
      /\ bids' = Append(bids, request[p].bid)
      /\ pc' = [pc EXCEPT ![p] = "track"]
      /\ pc[p] = "save"
  BY DEF SaveBid, local, Goto
<1>4. pc'[p] = "track" /\ \A q \in Bidders \ {p} : pc'[q] = pc[q]
  BY <1>1, <1>3 DEF TypeOK, Processes
<1>5. ASSUME NEW a \in Amounts
      PROVE  Backed(a)'
  <2>1. /\ IsFiniteSet(Pending(a)) /\ Cardinality(Pending(a)) \in Nat
        /\ Frequency(bids, Len(bids), a) \in Nat /\ index.freq[a] \in Nat
    BY <1>1, PendingFinite, FrequencyType DEF Index
  <2>2. Backed(a)
    BY BackedIsBacked DEF IndexSound
  <2>3. Frequency(bids', Len(bids'), a)
          = Frequency(bids, Len(bids), a) + (IF request[p].bid.amount = a THEN 1 ELSE 0)
    BY <1>1, <1>2, <1>3, FrequencyOfAppend
  <2>4. p \notin Pending(a)
    BY <1>3 DEF Pending
  <2>5. CASE request[p].bid.amount = a
    <3>1. Pending(a)' = Pending(a) \cup {p}
      BY <1>3, <1>4, <2>5 DEF Pending
    <3>2. Cardinality(Pending(a)') = Cardinality(Pending(a)) + 1
      BY <2>1, <2>4, <3>1, FS_AddElement
    <3>3. index'.freq[a] + Cardinality(Pending(a)') <= Frequency(bids', Len(bids'), a)
      BY <1>3, <2>1, <2>2, <2>3, <2>5, <3>2 DEF Backed
    <3> QED
      BY <3>3 DEF Backed
  <2>6. CASE request[p].bid.amount # a
    <3>1. Pending(a)' = Pending(a)
      BY <1>3, <1>4, <2>6 DEF Pending
    <3>2. index'.freq[a] + Cardinality(Pending(a)') <= Frequency(bids', Len(bids'), a)
      BY <1>3, <2>1, <2>2, <2>3, <2>6, <3>1 DEF Backed
    <3> QED
      BY <3>2 DEF Backed
  <2> QED
    BY <2>5, <2>6
<1>6. IndexBackedByRows'
  BY <1>5 DEF IndexBackedByRows, Backed, Pending
<1> QED
  BY <1>3, <1>6 DEF IndexSound, IndexConsistent

LEMMA TrackIsBacked ==
  ASSUME IsFiniteSet(Bidders), TypeOK, IndexSound, NEW p \in Bidders, TrackInRedis(p)
  PROVE  IndexSound'
<1> DEFINE amount == request[p].bid.amount
<1>1. p \in Processes /\ index \in Index /\ bids \in Seq(Bid)
  BY DEF TypeOK, Processes
<1>2. amount \in Amounts
  BY <1>1 DEF TrackInRedis, TypeOK, BidSteps, Request, Bid
<1>3. /\ index' = TrackBid(index, amount) /\ bids' = bids
      /\ request' = [request EXCEPT ![p] = None]
      /\ pc' = [pc EXCEPT ![p] = "limit"]
      /\ pc[p] = "track"
  BY DEF TrackInRedis, Goto
<1>4. pc'[p] # "track" /\ \A q \in Bidders \ {p} : pc'[q] = pc[q] /\ request'[q] = request[q]
  BY <1>1, <1>3 DEF TypeOK, Processes
<1>5. \A a \in Amounts : index'.freq[a] = IF a = amount THEN index.freq[a] + 1 ELSE index.freq[a]
  BY <1>1, <1>2, <1>3 DEF TrackBid, Index
<1> HIDE DEF amount
<1>6. ASSUME NEW a \in Amounts
      PROVE  Backed(a)'
  <2>1. /\ IsFiniteSet(Pending(a)) /\ Cardinality(Pending(a)) \in Nat
        /\ Frequency(bids, Len(bids), a) \in Nat /\ index.freq[a] \in Nat
    BY <1>1, PendingFinite, FrequencyType DEF Index
  <2>2. Backed(a)
    BY BackedIsBacked DEF IndexSound
  <2>3. CASE a = amount
    <3>1. p \in Pending(a) /\ Pending(a)' = Pending(a) \ {p}
      BY <1>3, <1>4, <2>3 DEF Pending, amount
    <3>2. Cardinality(Pending(a)') = Cardinality(Pending(a)) - 1
      BY <2>1, <3>1, FS_RemoveElement
    <3>3. index'.freq[a] + Cardinality(Pending(a)') <= Frequency(bids', Len(bids'), a)
      BY <1>3, <1>5, <2>1, <2>2, <2>3, <3>2 DEF Backed
    <3> QED
      BY <3>3 DEF Backed
  <2>4. CASE a # amount
    <3>1. Pending(a)' = Pending(a)
      BY <1>3, <1>4, <2>4 DEF Pending, amount
    <3>2. index'.freq[a] + Cardinality(Pending(a)') <= Frequency(bids', Len(bids'), a)
      BY <1>3, <1>5, <2>1, <2>2, <2>4, <3>1 DEF Backed
    <3> QED
      BY <3>2 DEF Backed
  <2> QED
    BY <2>3, <2>4
<1>7. IndexBackedByRows'
  BY <1>6 DEF IndexBackedByRows, Backed, Pending
<1>8. IndexConsistent'
  BY <1>1, <1>2, <1>3, TrackBidKeepsUnique DEF IndexSound, IndexConsistent
<1> QED
  BY <1>7, <1>8 DEF IndexSound

LEMMA NextSound ==
  ASSUME IsFiniteSet(Bidders), TypeOK, IndexSound, [Next]_vars
  PROVE  IndexSound'
<1> USE DEF shared, local, Goto
<1>0. Bidders \subseteq Processes /\ pc \in [Processes -> Steps]
      /\ request \in [Processes -> Request \cup {None}]
  BY DEF Processes, TypeOK
<1>1. ASSUME NEW p \in Bidders, ReceiveBid(p) \/ ServeStep(p), ~SaveBid(p), ~TrackInRedis(p)
      PROVE  IndexSound'
  <2>1. bids' = bids /\ index' = index
    BY <1>1 DEF ServeStep, ReceiveBid, AcquireLock, RefuseLocked, AcceptBid, RejectBid,
                CheckLimit, Unlock
  <2>2. \A q \in Bidders : pc'[q] = "track" => pc[q] = "track" /\ request'[q] = request[q]
    BY <1>0, <1>1 DEF ServeStep, ReceiveBid, AcquireLock, RefuseLocked, AcceptBid, RejectBid,
                CheckLimit, Unlock
  <2> QED
    BY <2>1, <2>2, FewerAreBacked
<1>2. ASSUME NEW p \in Processes, CronFind(p) \/ AdminClose(p) \/ AdminForce(p)
      PROVE  IndexSound'
  <2>1. bids' = bids /\ index' = index
    BY <1>2 DEF CronFind, AdminClose, AdminForce
  <2>2. \A q \in Bidders : pc'[q] = "track" => pc[q] = "track" /\ request'[q] = request[q]
    BY <1>0, <1>2 DEF CronFind, AdminClose, AdminForce
  <2> QED
    BY <2>1, <2>2, FewerAreBacked
<1>3. ASSUME NEW p \in Processes, CloseStep(p)
      PROVE  IndexSound'
  <2>1. bids' = bids /\ (index' = index \/ index' = EmptyIndex) /\ request' = request
    BY <1>3 DEF CloseStep, ReadSingle, EnsureUnique, SaveEarlyEnd, SaveForced, ReadStatus,
                TallyRows, TallyRedis, CountPersisted, FindPersisted, ExtendBelowMin,
                ExtendNoUnique, ExpireAuction, CommitWinner, Cleanup
  <2>2. \A q \in Bidders : pc'[q] = "track" => pc[q] = "track"
    BY <1>0, <1>3 DEF CloseStep, ReadSingle, EnsureUnique, SaveEarlyEnd, SaveForced, ReadStatus,
                TallyRows, TallyRedis, CountPersisted, FindPersisted, ExtendBelowMin,
                ExtendNoUnique, ExpireAuction, CommitWinner, Cleanup, Return
  <2> QED
    BY <2>1, <2>2, FewerAreBacked
<1>4. ASSUME NEW p \in Processes, FaultStep(p)
      PROVE  IndexSound'
  <2>1. bids' = bids /\ index' = index
    BY <1>4 DEF FaultStep, Abort, Crash, EnsureUniqueFromRedis, TallyWithoutRedis
  <2>2. \A q \in Bidders : pc'[q] = "track" => pc[q] = "track" /\ request'[q] = request[q]
    BY <1>0, <1>4 DEF FaultStep, Abort, Crash, EnsureUniqueFromRedis, TallyWithoutRedis, Return
  <2> QED
    BY <2>1, <2>2, FewerAreBacked
<1>5. CASE UNCHANGED vars \/ Tick \/ AbandonedLockExpires \/ HeldLockExpires \/ IndexLost
  <2>1. UNCHANGED <<bids, pc, request>> /\ (index' = index \/ index' = EmptyIndex)
    BY <1>5 DEF vars, Tick, AbandonedLockExpires, HeldLockExpires, IndexLost
  <2> QED
    BY <2>1, FewerAreBacked
<1> QED
  BY <1>1, <1>2, <1>3, <1>4, <1>5, SaveIsBacked, TrackIsBacked DEF Next, Processes

\* However bids overlap and fail, and whenever the keys go away: the index calls
\* unique what it counted once, and counts no bid that is not in the table.
THEOREM IndexIsSound ==
  ASSUME IsFiniteSet(Bidders)
  PROVE  Spec => []IndexSound
<1>1. Init => TypeOK /\ IndexSound
  <2>1. ASSUME Init PROVE IndexSound
    <3>1. \A p \in Bidders : pc[p] = "idle"
      BY <2>1 DEF Init, Processes
    <3>2. index = EmptyIndex /\ bids \in Seq(Bid) /\ Len(bids) \in Nat
      BY <2>1 DEF Init
    <3>3. ASSUME NEW a \in Amounts
          PROVE  Backed(a)
      <4>1. Cardinality(Pending(a)) = 0
        BY <3>1, FS_EmptySet DEF Pending
      <4>2. Frequency(bids, Len(bids), a) \in Nat
        BY <3>2, FrequencyType
      <4>3. index.freq[a] = 0
        BY <3>2 DEF EmptyIndex
      <4> QED
        BY <4>1, <4>2, <4>3 DEF Backed
    <3>4. IndexBackedByRows
      BY <3>3, BackedIsBacked
    <3> QED
      BY <2>1, <3>4 DEF Init, IndexSound, IndexConsistent, EmptyIndex
  <2> QED
    BY <2>1, InitType
<1>2. (TypeOK /\ IndexSound) /\ [Next]_vars => (TypeOK /\ IndexSound)'
  BY NextType, NextSound
<1> QED
  BY <1>1, <1>2, PTL DEF Spec

-----------------------------------------------------------------------------
(* One closure at a time. *)

\* One run of the cron at a time closes the auction, and nobody else does.
OneCloser == (\E c : Crons = {c}) /\ Admins = {} /\ MaxBid = None

CloserSteps == {"status", "rows", "redis", "decide"}

\* The bids do not close; from the query to the save the closure finds the
\* auction as open as in the row it holds; and the outcome is in both tables.
CloserInv ==
  /\ \A p \in Bidders : pc[p] \in ServeSteps
  /\ \A c \in Crons :
       /\ pc[c] \in CloserSteps \cup {"idle", "clean"}
       /\ pc[c] \in CloserSteps => /\ auction.status = "ACTIVE"
                                   /\ snap[c].status = "ACTIVE" /\ snap[c].winner = {}
       /\ pc[c] = "clean" => auction.status # "ACTIVE"
  /\ auction.status = "ACTIVE" => winners = {}
  /\ auction.winner = winners

LEMMA ServeCloser ==
  ASSUME OneCloser, TypeOK, CloserInv, NEW p \in Bidders, ReceiveBid(p) \/ ServeStep(p)
  PROVE  CloserInv' /\ auction' = auction
<1> USE DEF shared, local, Goto
<1>1. auction' = auction /\ winners' = winners /\ snap' = snap
  BY DEF ServeStep, ReceiveBid, AcquireLock, RefuseLocked, AcceptBid, RejectBid,
         SaveBid, TrackInRedis, CheckLimit, Unlock
<1>2. p \in Processes /\ p \notin Crons /\ Crons \subseteq Processes /\ Bidders \subseteq Processes
  BY ProcessAssumption DEF Processes
<1>3. pc'[p] \in ServeSteps /\ \A q \in Processes \ {p} : pc'[q] = pc[q]
  BY <1>2 DEF OneCloser, TypeOK, CloserInv, ServeSteps, ServeStep, ReceiveBid, AcquireLock,
         RefuseLocked, AcceptBid, RejectBid, SaveBid, TrackInRedis, CheckLimit, LimitReached, Unlock
<1> QED
  BY <1>1, <1>2, <1>3 DEF CloserInv

\* What a step of the cron run c must leave.
LEMMA CronKeeps ==
  ASSUME OneCloser, TypeOK, CloserInv, NEW c \in Crons,
         \A q \in Processes \ {c} : pc'[q] = pc[q],
         pc'[c] \in CloserSteps \cup {"idle", "clean"},
         pc'[c] \in CloserSteps => /\ auction'.status = "ACTIVE"
                                  /\ snap'[c].status = "ACTIVE" /\ snap'[c].winner = {},
         pc'[c] = "clean" => auction'.status # "ACTIVE",
         auction'.status = "ACTIVE" => winners' = {},
         auction'.winner = winners'
  PROVE  CloserInv'
<1>1. Crons = {c} /\ \A q \in Bidders : q \in Processes \ {c}
  BY ProcessAssumption DEF OneCloser, Processes
<1> QED
  BY <1>1 DEF CloserInv

LEMMA CronCloser ==
  ASSUME OneCloser, TypeOK, CloserInv, NEW c \in Crons, CronFind(c) \/ CloseStep(c)
  PROVE  CloserInv' /\ (auction.status # "ACTIVE" => auction' = auction)
<1> USE DEF shared, local, Goto, CloserSteps
<1>0. c \in Processes /\ c \notin Bidders
  BY ProcessAssumption DEF Processes
<1>a. /\ pc[c] \in CloserSteps \cup {"idle", "clean"}
      /\ pc[c] \in CloserSteps => /\ auction.status = "ACTIVE" /\ snap[c] \in Row
                                  /\ snap[c].status = "ACTIVE" /\ snap[c].winner = {}
      /\ pc[c] = "clean" => auction.status # "ACTIVE"
      /\ auction.status = "ACTIVE" => winners = {}
      /\ auction.winner = winners
  BY <1>0 DEF CloserInv, TypeOK, SnapSteps
<1>1. CASE CronFind(c)
  BY <1>0, <1>a, <1>1, CronKeeps DEF CronFind, IsOverdue, TypeOK
<1>2. CASE ReadStatus(c)
  BY <1>0, <1>a, <1>2, CronKeeps DEF ReadStatus, TypeOK
<1>3. CASE TallyRows(c)
  BY <1>0, <1>a, <1>3, CronKeeps DEF TallyRows, TypeOK
<1>4. CASE TallyRedis(c)
  BY <1>0, <1>a, <1>4, CronKeeps DEF TallyRedis, TypeOK
<1>5. CASE ExtendBelowMin(c)
  <2>1. auction' = [snap[c] EXCEPT !.end_time = now + Extension] /\ pc[c] = "decide"
    BY <1>5 DEF ExtendBelowMin
  <2>2. auction'.status = "ACTIVE" /\ auction'.winner = {} /\ winners' = {}
    BY <1>a, <1>5, <2>1 DEF ExtendBelowMin, Row
  <2> QED
    BY <1>0, <1>a, <1>5, <2>1, <2>2, CronKeeps DEF ExtendBelowMin, Return, TypeOK
<1>6. CASE ExtendNoUnique(c)
  <2>1. /\ auction' = [snap[c] EXCEPT !.end_time = now + Extension, !.extensions = @ + 1]
        /\ pc[c] = "decide"
    BY <1>6 DEF ExtendNoUnique
  <2>2. auction'.status = "ACTIVE" /\ auction'.winner = {} /\ winners' = {}
    BY <1>a, <1>6, <2>1 DEF ExtendNoUnique, Row
  <2> QED
    BY <1>0, <1>a, <1>6, <2>1, <2>2, CronKeeps DEF ExtendNoUnique, Return, TypeOK
<1>7. CASE ExpireAuction(c)
  <2>1. auction' = [snap[c] EXCEPT !.status = "EXPIRED"] /\ pc[c] = "decide"
    BY <1>7 DEF ExpireAuction, Final
  <2>2. auction'.status = "EXPIRED" /\ auction'.winner = {} /\ winners' = {}
    BY <1>a, <1>7, <2>1 DEF ExpireAuction, Row
  <2> QED
    BY <1>0, <1>a, <1>7, <2>1, <2>2, CronKeeps DEF ExpireAuction, TypeOK
<1>8. CASE CommitWinner(c)
  <2>1. /\ auction' = [snap[c] EXCEPT !.status = "CLOSED", !.winner = tally[c].winners]
        /\ pc[c] = "decide"
    BY <1>8 DEF CommitWinner, Final
  <2>2. /\ auction'.status = "CLOSED" /\ auction'.winner = tally[c].winners
        /\ winners' = tally[c].winners
    BY <1>a, <1>8, <2>1 DEF CommitWinner, PersistWinners, Row
  <2> QED
    BY <1>0, <1>a, <1>8, <2>1, <2>2, CronKeeps DEF CommitWinner, TypeOK
<1>9. CASE Cleanup(c)
  BY <1>0, <1>a, <1>9, CronKeeps DEF Cleanup, Return, TypeOK
<1>10. /\ ~ReadSingle(c) /\ ~EnsureUnique(c) /\ ~SaveEarlyEnd(c) /\ ~SaveForced(c)
       /\ ~CountPersisted(c) /\ ~FindPersisted(c)
  BY <1>a DEF ReadSingle, EnsureUnique, SaveEarlyEnd, SaveForced, CountPersisted, FindPersisted
<1> QED
  BY <1>1, <1>2, <1>3, <1>4, <1>5, <1>6, <1>7, <1>8, <1>9, <1>10 DEF CloseStep

LEMMA BidderClosesNothing ==
  ASSUME CloserInv, NEW p \in Bidders
  PROVE  ~CloseStep(p) /\ ~EnsureUniqueFromRedis(p) /\ ~TallyWithoutRedis(p)
<1>1. pc[p] \in ServeSteps
  BY DEF CloserInv
<1> QED
  BY <1>1 DEF ServeSteps, CloseStep, ReadSingle, EnsureUnique, SaveEarlyEnd, SaveForced,
     ReadStatus, TallyRows, TallyRedis, CountPersisted, FindPersisted, ExtendBelowMin,
     ExtendNoUnique, Final, ExpireAuction, CommitWinner, Cleanup, EnsureUniqueFromRedis,
     TallyWithoutRedis

LEMMA FaultCloser ==
  ASSUME OneCloser, TypeOK, CloserInv, NEW p \in Processes, FaultStep(p)
  PROVE  CloserInv' /\ auction' = auction
<1> USE DEF shared, local, Goto
<1>1. auction' = auction /\ winners' = winners
  BY DEF FaultStep, Abort, Crash, EnsureUniqueFromRedis, TallyWithoutRedis
<1>2. ~EnsureUniqueFromRedis(p)
  BY BidderClosesNothing
     DEF OneCloser, Processes, CloserInv, CloserSteps, EnsureUniqueFromRedis
<1>3. Crons \subseteq Processes /\ Bidders \subseteq Processes /\ Crons \cap Bidders = {}
  BY ProcessAssumption DEF Processes
<1>4. CASE TallyWithoutRedis(p)
  <2>1. p \in Crons
    BY <1>4, BidderClosesNothing DEF OneCloser, Processes
  <2>2. /\ pc[p] = "redis" /\ pc'[p] = "decide" /\ snap' = snap
        /\ \A q \in Processes \ {p} : pc'[q] = pc[q]
    BY <1>4 DEF TallyWithoutRedis, TypeOK
  <2>3. /\ auction.status = "ACTIVE" /\ snap[p].status = "ACTIVE" /\ snap[p].winner = {}
        /\ auction.status = "ACTIVE" => winners = {}
        /\ auction.winner = winners
    BY <2>1, <2>2 DEF CloserInv, CloserSteps
  <2> QED
    BY <1>1, <2>1, <2>2, <2>3, CronKeeps DEF CloserSteps
<1>5. CASE ~TallyWithoutRedis(p)
  <2>1. /\ pc'[p] = IF p \in Bidders THEN pc'[p] ELSE "idle"
        /\ pc'[p] \in {"idle", "unlock"}
        /\ \A q \in Processes \ {p} : pc'[q] = pc[q] /\ snap'[q] = snap[q]
    BY <1>2, <1>5 DEF FaultStep, Abort, Crash, Return, TypeOK
  <2> QED
    BY <1>1, <1>3, <2>1 DEF CloserInv, CloserSteps, ServeSteps
<1> QED
  BY <1>4, <1>5

LEMMA OtherCloser ==
  ASSUME CloserInv,
         UNCHANGED vars \/ Tick \/ AbandonedLockExpires \/ HeldLockExpires \/ IndexLost
  PROVE  CloserInv' /\ auction' = auction
<1>1. UNCHANGED <<auction, winners, pc, snap>>
  BY DEF vars, shared, local, Tick, AbandonedLockExpires, HeldLockExpires, IndexLost
<1> QED
  BY <1>1 DEF CloserInv

LEMMA NextCloser ==
  ASSUME OneCloser, TypeOK, CloserInv, [Next]_vars
  PROVE  CloserInv' /\ (auction.status # "ACTIVE" => auction' = auction)
<1>1. Processes = Bidders \cup Crons /\ Admins = {}
  BY DEF OneCloser, Processes
<1> QED
  BY <1>1, ServeCloser, CronCloser, FaultCloser, OtherCloser, BidderClosesNothing DEF Next

\* The lock, while the auction is open and nothing has failed.
OpenInv == faults = 0 /\ auction.status = "ACTIVE" => LockInv

LEMMA NextOpen ==
  ASSUME OneCloser, TypeOK, CloserInv, OpenInv, [Next]_vars
  PROVE  OpenInv'
<1> SUFFICES ASSUME faults' = 0, auction'.status = "ACTIVE"
             PROVE  LockInv'
  BY DEF OpenInv
<1> USE DEF shared, local, Goto
<1>1. auction.status = "ACTIVE"
  BY NextCloser
<1>2. Processes = Bidders \cup Crons /\ Admins = {} /\ Crons \cap Bidders = {} /\ faults \in Nat
  BY ProcessAssumption DEF OneCloser, Processes, TypeOK
<1>3. ASSUME NEW p \in Bidders, ReceiveBid(p) \/ ServeStep(p)
      PROVE  LockInv'
  <2>1. faults = 0
    BY <1>3 DEF ServeStep, ReceiveBid, AcquireLock, RefuseLocked, AcceptBid, RejectBid,
                SaveBid, TrackInRedis, CheckLimit, Unlock
  <2> QED
    BY <1>1, <1>3, <2>1, ServeLock DEF OpenInv, OneCloser
<1>4. ASSUME NEW c \in Crons, CronFind(c) \/ CloseStep(c)
      PROVE  LockInv'
  <2>1. faults' = faults /\ bids' = bids /\ request' = request
    BY <1>4 DEF CronFind, CloseStep, ReadSingle, EnsureUnique, SaveEarlyEnd, SaveForced,
                ReadStatus, TallyRows, TallyRedis, CountPersisted, FindPersisted,
                ExtendBelowMin, ExtendNoUnique, ExpireAuction, CommitWinner, Cleanup
  <2>2. \A q \in Bidders : pc'[q] = pc[q]
    BY <1>2, <1>4
       DEF TypeOK, CronFind, CloseStep, ReadSingle, EnsureUnique, SaveEarlyEnd, SaveForced,
           ReadStatus, TallyRows, TallyRedis, CountPersisted, FindPersisted,
           ExtendBelowMin, ExtendNoUnique, ExpireAuction, CommitWinner, Cleanup, Return
  <2>3. ~Cleanup(c)
    BY <1>1 DEF CloserInv, Cleanup
  <2>4. lock' = lock
    BY <1>4, <2>3
       DEF CronFind, CloseStep, ReadSingle, EnsureUnique, SaveEarlyEnd, SaveForced,
           ReadStatus, TallyRows, TallyRedis, CountPersisted, FindPersisted,
           ExtendBelowMin, ExtendNoUnique, ExpireAuction, CommitWinner
  <2> QED
    BY <1>1, <2>1, <2>2, <2>4 DEF OpenInv, LockInv, NoDuplicateBid
<1>5. ASSUME NEW p \in Processes
      PROVE  ~FaultStep(p)
  BY <1>2 DEF FaultStep, Abort, Crash, EnsureUniqueFromRedis, TallyWithoutRedis
<1>6. CASE Tick \/ UNCHANGED vars
  BY <1>1, <1>6 DEF Tick, vars, OpenInv, LockInv, NoDuplicateBid
<1>7. CASE AbandonedLockExpires
  BY <1>1, <1>7 DEF AbandonedLockExpires, OpenInv, LockInv, NoDuplicateBid
<1>8. ~HeldLockExpires /\ ~IndexLost
  BY <1>2 DEF HeldLockExpires, IndexLost
<1> QED
  BY <1>2, <1>3, <1>4, <1>5, <1>6, <1>7, <1>8, BidderClosesNothing DEF Next

LEMMA InitCloser == Init => TypeOK /\ CloserInv /\ OpenInv
<1> SUFFICES ASSUME Init PROVE CloserInv /\ OpenInv
  BY InitType
<1>1. \A p \in Bidders \cup Crons : pc[p] = "idle"
  BY DEF Init, Processes
<1> QED
  BY <1>1 DEF Init, CloserInv, CloserSteps, ServeSteps, OpenInv, LockInv, NoDuplicateBid,
              Critical, Steps

LEMMA OneClosure ==
  ASSUME OneCloser
  PROVE  Spec => [](ActiveExcludes /\ ActiveNoDuplicate /\ SettledAgrees)
<1>1. (TypeOK /\ CloserInv /\ OpenInv) /\ [Next]_vars => (TypeOK /\ CloserInv /\ OpenInv)'
  BY NextType, NextCloser, NextOpen
<1>2. CloserInv /\ OpenInv => ActiveExcludes /\ ActiveNoDuplicate /\ SettledAgrees
  BY DEF CloserInv, OpenInv, LockInv, ActiveExcludes, ActiveNoDuplicate, SettledAgrees,
         MutualExclusion
<1> QED
  BY InitCloser, <1>1, <1>2, PTL DEF Spec

\* With one closure at a time the lock makes placeBid a critical section while
\* the auction is open and nothing has failed, however many bids overlap.
THEOREM OpenAuctionExcludes ==
  ASSUME OneCloser
  PROVE  Spec => []ActiveExcludes
BY OneClosure, PTL

\* ... so that no user bids an amount twice.
THEOREM OpenAuctionOnce ==
  ASSUME OneCloser
  PROVE  Spec => []ActiveNoDuplicate
BY OneClosure, PTL

\* With one closure at a time, whatever fails, the row of the auction and the
\* winners table tell the same outcome.
THEOREM OutcomeAgrees ==
  ASSUME OneCloser
  PROVE  Spec => []SettledAgrees
BY OneClosure, PTL

\* With one closure at a time CLOSED and EXPIRED are final: no save of a row that
\* was read before brings the auction back.
THEOREM OutcomeIsFinal ==
  ASSUME OneCloser
  PROVE  Spec => SettledIsFinal
<1>1. Init => TypeOK /\ CloserInv
  BY InitCloser
<1>2. (TypeOK /\ CloserInv) /\ [Next]_vars => (TypeOK /\ CloserInv)'
  BY NextType, NextCloser
<1>3. (TypeOK /\ CloserInv) /\ [Next]_vars => (auction.status # "ACTIVE" => auction' = auction)
  BY NextCloser
<1>4. [](TypeOK /\ CloserInv) /\ [][Next]_vars
        => [][auction.status # "ACTIVE" => auction' = auction]_vars
  BY <1>3, PTL
<1> QED
  BY <1>1, <1>2, <1>4, PTL DEF Spec, SettledIsFinal

\* ... and "CLOSED" leads back to "ACTIVE" only where two closures overlap.
THEOREM OneClosureKeepsClosed ==
  ASSUME OneCloser
  PROVE  Spec => NotReactivated
<1>1. [auction.status # "ACTIVE" => auction' = auction]_vars
        => [auction.status = "CLOSED" => auction'.status # "ACTIVE"]_vars
  BY DEF vars
<1> QED
  BY <1>1, OutcomeIsFinal, PTL DEF SettledIsFinal, NotReactivated

-----------------------------------------------------------------------------
(* One closure at a time makes an auction a sale. *)

\* From the query to the save the row that the closure holds is the row of the
\* auction, past its end; what asks the index found no bids; and who is about to
\* save a bid has paid.
SaleInv ==
  /\ \A c \in Crons :
       /\ pc[c] \in CloserSteps => snap[c] = auction /\ auction.end_time < now
       /\ pc[c] = "redis" => tally[c] = [total |-> 0, winners |-> {}]
  /\ \A p \in Bidders : pc[p] = "save" => request[p].bid.user \in PaidUsers

LEMMA ServeSale ==
  ASSUME OneCloser, TypeOK, CloserInv, SaleInv, NEW p \in Bidders, ReceiveBid(p) \/ ServeStep(p)
  PROVE  SaleInv'
<1> USE DEF shared, local, Goto
<1>1. p \in Processes /\ p \notin Crons /\ Crons \subseteq Processes /\ Bidders \subseteq Processes
  BY ProcessAssumption DEF Processes
<1>2. UNCHANGED <<auction, now, snap, tally>>
  BY DEF ServeStep, ReceiveBid, AcquireLock, RefuseLocked, AcceptBid, RejectBid,
         SaveBid, TrackInRedis, CheckLimit, Unlock
<1>3. \A q \in Processes \ {p} : pc'[q] = pc[q] /\ request'[q] = request[q]
  BY DEF TypeOK, ServeStep, ReceiveBid, AcquireLock, RefuseLocked, AcceptBid, RejectBid,
         SaveBid, TrackInRedis, CheckLimit, Unlock
<1>4. pc'[p] = "save" => request'[p].bid.user \in PaidUsers
  BY <1>1 DEF TypeOK, SaleInv, Acceptable, ServeStep, ReceiveBid, AcquireLock, RefuseLocked,
         AcceptBid, RejectBid, SaveBid, TrackInRedis, CheckLimit, Unlock
<1> QED
  BY <1>1, <1>2, <1>3, <1>4 DEF SaleInv

LEMMA CloseSale ==
  ASSUME OneCloser, TypeOK, CloserInv, SaleInv, NEW c \in Crons, CronFind(c) \/ CloseStep(c)
  PROVE  SaleInv'
<1> USE DEF shared, local, Goto, CloserSteps
<1>1. c \in Processes /\ c \notin Bidders /\ Bidders \subseteq Processes /\ Crons = {c}
  BY ProcessAssumption DEF OneCloser, Processes
<1>2. /\ pc[c] \in CloserSteps \cup {"idle", "clean"}
      /\ pc[c] \in CloserSteps => snap[c] = auction /\ auction.end_time < now
  BY DEF CloserInv, SaleInv
<1>3. now' = now /\ request' = request /\ \A q \in Processes \ {c} : pc'[q] = pc[q]
  BY <1>2 DEF CronFind, CloseStep, ReadSingle, EnsureUnique, SaveEarlyEnd, SaveForced, ReadStatus,
         TallyRows, TallyRedis, CountPersisted, FindPersisted, ExtendBelowMin, ExtendNoUnique,
         ExpireAuction, CommitWinner, Cleanup, Return, TypeOK
<1>4. ASSUME pc'[c] \in CloserSteps
      PROVE  snap'[c] = auction' /\ auction'.end_time < now
  BY <1>1, <1>2, <1>4
     DEF CronFind, IsOverdue, CloseStep, ReadSingle, EnsureUnique, SaveEarlyEnd, SaveForced,
         ReadStatus, TallyRows, TallyRedis, CountPersisted, FindPersisted, ExtendBelowMin,
         ExtendNoUnique, ExpireAuction, CommitWinner, Cleanup, Return, TypeOK
<1>5. ASSUME pc'[c] = "redis"
      PROVE  tally'[c] = [total |-> 0, winners |-> {}]
  <2>1. TallyRows(c) /\ Len(bids) = 0
    BY <1>1, <1>2, <1>5
       DEF CronFind, CloseStep, ReadSingle, EnsureUnique, SaveEarlyEnd, SaveForced, ReadStatus,
           TallyRows, TallyRedis, CountPersisted, FindPersisted, ExtendBelowMin, ExtendNoUnique,
           ExpireAuction, CommitWinner, Cleanup, Return, TypeOK
  <2>2. {bids[i] : i \in WinningBids(bids, 0)} = {}
    BY DEF WinningBids, UniqueBids
  <2> QED
    BY <1>1, <2>1, <2>2 DEF TallyRows, Tallied, TypeOK
<1> QED
  BY <1>1, <1>3, <1>4, <1>5 DEF SaleInv

LEMMA NextSale ==
  ASSUME OneCloser, TypeOK, CloserInv, SaleInv, [Next]_vars
  PROVE  SaleInv'
<1> USE DEF shared, local, Goto
<1>1. Processes = Bidders \cup Crons /\ Admins = {} /\ Bidders \cap Crons = {}
  BY ProcessAssumption DEF OneCloser, Processes
<1>2. ASSUME NEW p \in Processes, FaultStep(p)
      PROVE  SaleInv'
  <2>1. UNCHANGED <<auction, now>>
    BY <1>2 DEF FaultStep, Abort, Crash, EnsureUniqueFromRedis, TallyWithoutRedis
  <2>2. ~EnsureUniqueFromRedis(p)
    BY <1>1, BidderClosesNothing DEF CloserInv, CloserSteps, EnsureUniqueFromRedis
  <2>3. CASE TallyWithoutRedis(p)
    <3>1. /\ pc[p] = "redis" /\ pc'[p] = "decide" /\ UNCHANGED <<snap, request>>
          /\ \A q \in Processes \ {p} : pc'[q] = pc[q] /\ tally'[q] = tally[q]
      BY <2>3 DEF TallyWithoutRedis, Tallied, TypeOK
    <3> QED
      BY <1>1, <2>1, <3>1 DEF SaleInv, CloserSteps
  <2>4. CASE ~TallyWithoutRedis(p)
    <3>1. /\ pc'[p] \in {"idle", "unlock"}
          /\ \A q \in Processes \ {p} : /\ pc'[q] = pc[q] /\ snap'[q] = snap[q]
                                        /\ tally'[q] = tally[q] /\ request'[q] = request[q]
      BY <1>2, <2>2, <2>4 DEF FaultStep, Abort, Crash, Return, TypeOK
    <3> QED
      BY <1>1, <2>1, <3>1 DEF SaleInv, CloserSteps
  <2> QED
    BY <2>3, <2>4
<1>3. CASE UNCHANGED vars \/ AbandonedLockExpires \/ HeldLockExpires \/ IndexLost
  BY <1>3 DEF vars, AbandonedLockExpires, HeldLockExpires, IndexLost, SaleInv
<1>4. CASE Tick
  <2>1. \A c \in Crons : pc[c] \in CloserSteps => auction.end_time \in Nat /\ now \in Nat
    BY DEF TypeOK, Row
  <2> QED
    BY <1>4, <2>1 DEF Tick, SaleInv
<1> QED
  BY <1>1, <1>2, <1>3, <1>4, ServeSale, CloseSale, BidderClosesNothing DEF Next

\* The count of the closure is the lowest unique bid as a sale states it.
LEMMA CountIsLowest ==
  ASSUME bids \in Seq(Bid)
  PROVE  {bids[i] : i \in WinningBids(bids, Len(bids))} = Promise!Lowest
<1>1. DOMAIN bids = 1..Len(bids) /\ Len(bids) \in Nat
  OBVIOUS
<1>2. WinningBids(bids, Len(bids)) = LowestUnique(bids, Len(bids))
  BY <1>1, WinnerIsLowestUnique
<1>3. Promise!Alone = {i \in 1..Len(bids) : Alone(bids, Len(bids), i)}
  BY <1>1 DEF Promise!Alone, Promise!Valid, Alone, IsValid
<1>4. \A i \in Promise!Alone : i \in 1..Len(bids)
  BY <1>3
<1> QED
  BY <1>2, <1>3, <1>4 DEF LowestUnique, Promise!Lowest

\* What the one run of the cron has counted.
LEMMA OneCounts ==
  ASSUME NEW c, Crons = {c}
  PROVE  /\ Counted = IF pc[c] \in {"redis", "decide"} THEN {tally[c]} ELSE {}
         /\ Counted' = IF pc'[c] \in {"redis", "decide"} THEN {tally'[c]} ELSE {}
BY DEF Counted

SaleVars == <<auction, bids, winners, now, Counted, fellBack>>

\* A bid places itself, and does nothing else to the sale.
LEMMA ServePlaces ==
  ASSUME OneCloser, TypeOK, SaleInv, NEW p \in Bidders, ReceiveBid(p) \/ ServeStep(p)
  PROVE  Promise!Next \/ UNCHANGED SaleVars
<1> USE DEF shared, local, Goto
<1>1. PICK c : Crons = {c}
  BY DEF OneCloser
<1>2. p \in Processes /\ c \in Processes /\ p # c
  BY <1>1, ProcessAssumption DEF Processes
<1>3. UNCHANGED <<auction, winners, now, fellBack, Counted>>
  <2>1. UNCHANGED <<auction, winners, now, fellBack, tally>> /\ pc'[c] = pc[c]
    BY <1>2 DEF TypeOK, ServeStep, ReceiveBid, AcquireLock, RefuseLocked, AcceptBid, RejectBid,
              SaveBid, TrackInRedis, CheckLimit, Unlock
  <2> QED
    BY <1>1, <2>1, OneCounts
<1>4. CASE SaveBid(p)
  <2>1. request[p] \in Request /\ request[p].bid.user \in PaidUsers
    BY <1>2, <1>4 DEF SaveBid, TypeOK, BidSteps, SaleInv
  <2>2. request[p].bid \in Bid /\ bids' = Append(bids, request[p].bid)
    BY <1>4, <2>1 DEF SaveBid, Request
  <2> QED
    BY <1>3, <2>1, <2>2 DEF Promise!Next, Promise!Place
<1>5. CASE ~SaveBid(p)
  BY <1>3, <1>5 DEF ServeStep, ReceiveBid, AcquireLock, RefuseLocked, AcceptBid, RejectBid,
         TrackInRedis, CheckLimit, Unlock, SaleVars
<1> QED
  BY <1>4, <1>5

\* Each step of a closure that ends it acts on what was counted.
LEMMA DecisionActs ==
  ASSUME NEW count, Counted = {count}, Counted' = {},
         UNCHANGED <<bids, now, fellBack>>,
         \/ Promise!ExtendTooFew(count) \/ Promise!ExtendNoneAlone(count)
         \/ Promise!Expire(count) \/ Promise!Sell(count)
  PROVE  Promise!Next
BY DEF Promise!Next, Promise!Act

LEMMA CloseCounts ==
  ASSUME OneCloser, TypeOK, CloserInv, MadeInv, SaleInv,
         NEW c \in Crons, CronFind(c) \/ CloseStep(c)
  PROVE  Promise!Next \/ UNCHANGED SaleVars
<1> USE DEF shared, local, Goto, CloserSteps
<1>0. c \in Processes /\ Crons = {c}
  BY DEF OneCloser, Processes
<1>a. /\ pc[c] \in CloserSteps \cup {"idle", "clean"}
      /\ pc[c] \in CloserSteps => /\ auction.status = "ACTIVE" /\ auction.winner = {}
                                  /\ winners = {} /\ auction \in Row
                                  /\ snap[c] = auction /\ auction.end_time < now
  BY DEF CloserInv, SaleInv, TypeOK
<1>1. CASE CronFind(c) \/ ReadStatus(c) \/ Cleanup(c)
  <2>1. UNCHANGED <<auction, bids, winners, now, fellBack>>
    BY <1>1 DEF CronFind, ReadStatus, Cleanup
  <2>2. pc[c] \notin {"redis", "decide"} /\ pc'[c] \notin {"redis", "decide"}
    BY <1>0, <1>1 DEF CronFind, ReadStatus, Cleanup, Return, TypeOK
  <2> QED
    BY <1>0, <2>1, <2>2, OneCounts DEF SaleVars
<1>2. CASE TallyRows(c)
  <2>1. /\ pc[c] = "rows" /\ pc'[c] \in {"redis", "decide"}
        /\ tally'[c] = [total   |-> Len(bids),
                        winners |-> {bids[i] : i \in WinningBids(bids, Len(bids))}]
        /\ UNCHANGED <<auction, bids, winners, now, fellBack>>
    BY <1>0, <1>2 DEF TallyRows, Tallied, TypeOK
  <2>2. Counted = {} /\ Counted' = {[total |-> Len(bids), winners |-> Promise!Lowest]}
    BY <1>0, <2>1, OneCounts, CountIsLowest DEF TypeOK
  <2> QED
    BY <1>a, <2>1, <2>2 DEF Promise!Next, Promise!Count
<1>3. CASE TallyRedis(c)
  <2>1. /\ pc[c] = "redis" /\ pc'[c] = "decide"
        /\ tally'[c] = [total |-> index.total, winners |-> IndexWinners(index, bids)]
        /\ fellBack' = (fellBack \/ IndexWinners(index, bids) # {})
        /\ UNCHANGED <<auction, bids, winners, now>>
    BY <1>0, <1>3 DEF TallyRedis, Tallied, TypeOK
  <2>2. Counted = {tally[c]} /\ tally[c].total = 0 /\ Counted' = {tally'[c]}
    BY <1>0, <2>1, OneCounts DEF SaleInv
  <2>3. OneBid(IndexWinners(index, bids))
    BY IndexGivesOne DEF TypeOK
  <2>4. IndexWinners(index, bids) \in {{}} \cup {{bids[i]} : i \in Promise!Valid}
    <3>1. CASE IndexWinners(index, bids) = {}
      BY <3>1
    <3>2. ASSUME NEW w \in IndexWinners(index, bids)
          PROVE  IndexWinners(index, bids) \in {{bids[i]} : i \in Promise!Valid}
      <4>1. IndexWinners(index, bids) = {w}
        BY <2>3, <3>2 DEF OneBid
      <4>2. PICK i \in DOMAIN bids : IsValid(bids[i].amount) /\ w = bids[i]
        BY <2>3, <3>2 DEF OneBid, ValidBids
      <4>3. i \in Promise!Valid
        BY <4>2 DEF Promise!Valid, IsValid
      <4> QED
        BY <4>1, <4>2, <4>3
    <3> QED
      BY <3>1, <3>2
  <2>5. tally'[c] \in [total: Nat, winners: {{}} \cup {{bids[i]} : i \in Promise!Valid}]
    BY <2>1, <2>4 DEF TypeOK, Index
  <2>6. Promise!Recount
    BY <2>1, <2>2, <2>5 DEF Promise!Recount
  <2> QED
    BY <2>6 DEF Promise!Next
<1>4. ASSUME pc[c] = "decide"
      PROVE  Counted = {tally[c]} /\ tally[c] \in Tally /\ tally[c].total \in Nat /\ MinBid \in Nat
  BY <1>0, <1>4, OneCounts, BoundAssumption DEF TypeOK, Tally
<1>5. CASE ExtendBelowMin(c) \/ ExtendNoUnique(c)
  <2>1. pc[c] = "decide" /\ pc'[c] \in {"idle", "unlock"}
    BY <1>0, <1>5 DEF ExtendBelowMin, ExtendNoUnique, Return, TypeOK
  <2>2. Counted = {tally[c]} /\ Counted' = {} /\ UNCHANGED <<bids, winners, now, fellBack>>
    BY <1>0, <1>4, <1>5, <2>1, OneCounts DEF ExtendBelowMin, ExtendNoUnique
  <2>3. snap[c] = auction /\ tally[c].total \in Nat /\ MinBid \in Nat
    BY <1>a, <1>4, <2>1
  <2>4. ASSUME ExtendBelowMin(c)
        PROVE  Promise!ExtendTooFew(tally[c])
    BY <2>2, <2>3, <2>4
       DEF ExtendBelowMin, BelowMin, Promise!ExtendTooFew, Promise!TooFew
  <2>5. ASSUME ExtendNoUnique(c)
        PROVE  Promise!ExtendNoneAlone(tally[c])
    <3>1. Promise!NoneAlone(tally[c])
      BY <2>3, <2>5 DEF ExtendNoUnique, BelowMin, NoUniqueBid, Promise!NoneAlone
    <3> QED
      BY <2>2, <2>3, <2>5, <3>1 DEF ExtendNoUnique, Promise!ExtendNoneAlone
  <2> QED
    BY <1>0, <1>5, <2>2, <2>4, <2>5, DecisionActs
<1>6. CASE ExpireAuction(c) \/ CommitWinner(c)
  <2>1. pc[c] = "decide" /\ pc'[c] = "clean"
    BY <1>0, <1>6 DEF ExpireAuction, CommitWinner, Final, TypeOK
  <2>2. Counted = {tally[c]} /\ Counted' = {} /\ UNCHANGED <<bids, now, fellBack>>
    BY <1>0, <1>4, <1>6, <2>1, OneCounts DEF ExpireAuction, CommitWinner
  <2>3. ASSUME ExpireAuction(c)
        PROVE  Promise!Expire(tally[c])
    <3>1. tally[c].total = 0
      <4>1. OneBid(tally[c].winners) /\ ~BelowMin(tally[c].total) /\ ~NoUniqueBid(tally[c])
            /\ ~WinBidFound(tally[c])
        BY <1>0, <2>1, <2>3 DEF MadeInv, ExpireAuction, Final
      <4>2. \A w \in tally[c].winners : \E i \in DOMAIN bids : w = bids[i]
        BY <4>1 DEF OneBid, ValidBids
      <4> QED
        BY <1>4, <2>1, <4>1, <4>2 DEF NoUniqueBid, WinBidFound
    <3> QED
      BY <1>a, <2>1, <2>3, <3>1 DEF ExpireAuction, Promise!Expire
  <2>4. ASSUME CommitWinner(c)
        PROVE  Promise!Sell(tally[c])
    <3>1. /\ snap[c] = auction /\ winners = {}
          /\ tally[c].total \in Nat /\ MinBid \in Nat
      BY <1>a, <1>4, <2>1
    <3>2. 0 < tally[c].total /\ MinBid <= tally[c].total /\ tally[c].winners # {}
      BY <2>4, <3>1 DEF CommitWinner, Final, BelowMin, WinBidFound
    <3>3. /\ auction' = [auction EXCEPT !.status = "CLOSED", !.winner = tally[c].winners]
          /\ winners' = tally[c].winners
      BY <2>4, <3>1 DEF CommitWinner, PersistWinners
    <3> QED
      BY <3>2, <3>3 DEF Promise!Sell
  <2> QED
    BY <1>0, <1>6, <2>2, <2>3, <2>4, DecisionActs
<1>7. /\ ~ReadSingle(c) /\ ~EnsureUnique(c) /\ ~SaveEarlyEnd(c) /\ ~SaveForced(c)
      /\ ~CountPersisted(c) /\ ~FindPersisted(c)
  BY <1>a DEF ReadSingle, EnsureUnique, SaveEarlyEnd, SaveForced, CountPersisted, FindPersisted
<1> QED
  BY <1>1, <1>2, <1>3, <1>5, <1>6, <1>7 DEF CloseStep

\* A failure drops what was counted, if it is the closure that fails; one of Redis
\* leaves the count of the rows.
LEMMA FaultDrops ==
  ASSUME OneCloser, TypeOK, CloserInv, SaleInv, NEW p \in Processes, FaultStep(p)
  PROVE  Promise!Next \/ UNCHANGED SaleVars
<1> USE DEF shared, local, Goto
<1>1. PICK c : Crons = {c}
  BY DEF OneCloser
<1>2. c \in Processes /\ (p = c \/ p \in Bidders) /\ (p \in Bidders => p # c)
  BY <1>1, ProcessAssumption DEF OneCloser, Processes
<1>3. ~EnsureUniqueFromRedis(p)
  BY <1>1, <1>2, BidderClosesNothing DEF CloserInv, CloserSteps, EnsureUniqueFromRedis
<1>4. CASE TallyWithoutRedis(p)
  <2>1. p = c
    BY <1>2, <1>4, BidderClosesNothing
  <2>2. /\ UNCHANGED <<auction, bids, winners, now, fellBack>>
        /\ pc[c] = "redis" /\ pc'[c] = "decide"
        /\ tally'[c] = [total |-> 0, winners |-> {}]
    BY <1>2, <1>4, <2>1 DEF TallyWithoutRedis, Tallied, TypeOK
  <2>3. tally'[c] = tally[c]
    BY <1>1, <2>2 DEF SaleInv
  <2> QED
    BY <1>1, <2>2, <2>3, OneCounts DEF SaleVars
<1>5. CASE ~TallyWithoutRedis(p)
  <2>1. /\ UNCHANGED <<auction, bids, winners, now, fellBack>>
        /\ pc'[p] \in {"idle", "unlock"}
        /\ p # c => pc'[c] = pc[c] /\ tally'[c] = tally[c]
    BY <1>2, <1>3, <1>5 DEF FaultStep, Abort, Crash, Return, TypeOK
  <2>2. CASE p = c
    BY <1>1, <2>1, <2>2, OneCounts DEF Promise!Next, Promise!Drop
  <2>3. CASE p # c
    BY <1>1, <2>1, <2>3, OneCounts DEF SaleVars
  <2> QED
    BY <2>2, <2>3
<1> QED
  BY <1>4, <1>5

LEMMA NextSells ==
  ASSUME OneCloser, TypeOK, CloserInv, MadeInv, SaleInv, [Next]_vars
  PROVE  Promise!Next \/ UNCHANGED SaleVars
<1> USE DEF shared, local
<1>1. Processes = Bidders \cup Crons /\ Admins = {}
  BY DEF OneCloser, Processes
<1>2. CASE Tick
  BY <1>2 DEF Tick, Counted, Promise!Next, Promise!Pass
<1>3. CASE UNCHANGED vars \/ AbandonedLockExpires \/ HeldLockExpires \/ IndexLost
  BY <1>3 DEF vars, AbandonedLockExpires, HeldLockExpires, IndexLost, Counted, SaleVars
<1> QED
  BY <1>1, <1>2, <1>3, ServePlaces, CloseCounts, FaultDrops, BidderClosesNothing DEF Next

\* With one closure at a time, for any number of bids that overlap and fail and
\* any failure of the closure, the auction is a sale: it is decided by one count
\* of the bids made after its end, on the row as it is, in both tables at once.
THEOREM AuctionIsASale ==
  ASSUME OneCloser
  PROVE  Spec => ImplementsSale
<1>1. Init => TypeOK /\ CloserInv /\ MadeInv /\ SaleInv
  <2> SUFFICES ASSUME Init PROVE MadeInv /\ SaleInv
    BY InitCloser
  <2>1. \A p \in Processes : pc[p] = "idle"
    BY DEF Init
  <2>2. MadeInv
    BY <2>1, NoneIsOne DEF Init, MadeInv, SnapSteps
  <2>3. SaleInv
    BY <2>1 DEF SaleInv, CloserSteps, Processes
  <2> QED
    BY <2>2, <2>3
<1>2. (TypeOK /\ CloserInv /\ MadeInv /\ SaleInv) /\ [Next]_vars
        => (TypeOK /\ CloserInv /\ MadeInv /\ SaleInv)'
  BY NextType, NextCloser, NextMade, NextSale
<1>3. Init => Promise!Init
  <2> SUFFICES ASSUME Init PROVE Counted = {}
    BY DEF Init, Promise!Init
  <2>1. \A p \in Processes : pc[p] = "idle"
    BY DEF Init
  <2> QED
    BY <2>1 DEF Counted, Processes
<1>4. (TypeOK /\ CloserInv /\ MadeInv /\ SaleInv) /\ [Next]_vars
        => [Promise!Next]_<<auction, bids, winners, now, Counted, fellBack>>
  BY NextSells DEF SaleVars
<1> QED
  BY <1>1, <1>2, <1>3, <1>4, PTL DEF Spec, ImplementsSale, Promise!Spec

=============================================================================
