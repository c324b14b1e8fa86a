--------------------------- MODULE AuctionProofs ---------------------------
(***************************************************************************)
(* Theorems of the auction that hold for any number of requests, cron runs *)
(* and admins, any users and amounts, any min_bid and max_bid, and any     *)
(* number of failures.                                                     *)
(***************************************************************************)
EXTENDS Auction, LowestUniqueBidProofs

-----------------------------------------------------------------------------
(* Types. *)

LEMMA InitType == Init => TypeOK
<1> SUFFICES ASSUME Init PROVE TypeOK
  OBVIOUS
<1> USE ProcessAssumption, BoundAssumption
<1>1. auction \in Row
  BY DEF Init, Row
<1>2. bids \in Seq(Bid) /\ winners \subseteq Bid
  BY DEF Init
<1>3. index \in Index
  BY EmptyIndexType DEF Init
<1>4. /\ lock \in Processes \cup {None}
      /\ now \in Nat /\ faults \in Nat /\ fellBack \in BOOLEAN
  BY DEF Init
<1>5. /\ pc \in [Processes -> Steps]
      /\ request \in [Processes -> Request \cup {None}]
      /\ snap \in [Processes -> Row \cup {None}]
      /\ tally \in [Processes -> Tally \cup {None}]
  BY DEF Init, Steps
<1>6. \A p \in Processes : pc[p] \notin BidSteps \cup SnapSteps
  BY DEF Init, BidSteps, SnapSteps
<1> QED
  BY <1>1, <1>2, <1>3, <1>4, <1>5, <1>6 DEF TypeOK, SnapSteps

\* The steps of a bid.
LEMMA ServeType ==
  ASSUME TypeOK, NEW p \in Bidders, ReceiveBid(p) \/ ServeStep(p)
  PROVE  TypeOK'
<1> USE ProcessAssumption DEF Goto, shared, local
<1>0. p \in Processes
  BY DEF Processes
<1>1. CASE ReceiveBid(p)
  <2>1. PICK b \in Bid : request' = [request EXCEPT ![p] = [bid |-> b, end_time |-> auction.end_time]]
    BY <1>1 DEF ReceiveBid
  <2>2. [bid |-> b, end_time |-> auction.end_time] \in Request
    BY DEF TypeOK, Row, Request
  <2> QED
    BY <1>0, <1>1, <2>1, <2>2 DEF ReceiveBid, TypeOK, Steps, BidSteps, SnapSteps
<1>2. CASE AcquireLock(p)
  BY <1>0, <1>2 DEF AcquireLock, LockIsFree, TypeOK, Steps, BidSteps, SnapSteps
<1>3. CASE RefuseLocked(p)
  BY <1>0, <1>3 DEF RefuseLocked, LockIsFree, TypeOK, Steps, BidSteps, SnapSteps
<1>4. CASE AcceptBid(p)
  BY <1>0, <1>4 DEF AcceptBid, TypeOK, Steps, BidSteps, SnapSteps
<1>5. CASE RejectBid(p)
  BY <1>0, <1>5 DEF RejectBid, TypeOK, Steps, BidSteps, SnapSteps
<1>6. CASE SaveBid(p)
  <2>1. request[p].bid \in Bid
    BY <1>0, <1>6 DEF SaveBid, TypeOK, BidSteps, Request
  <2>2. bids' \in Seq(Bid)
    BY <1>6, <2>1 DEF SaveBid, TypeOK
  <2> QED
    BY <1>0, <1>6, <2>2 DEF SaveBid, TypeOK, Steps, BidSteps, SnapSteps
<1>7. CASE TrackInRedis(p)
  <2>1. request[p].bid.amount \in Amounts
    BY <1>0, <1>7 DEF TrackInRedis, TypeOK, BidSteps, Request, Bid
  <2>2. index' \in Index
    BY <1>7, <2>1, TrackBidType DEF TrackInRedis, TypeOK
  <2> QED
    BY <1>0, <1>7, <2>2 DEF TrackInRedis, TypeOK, Steps, BidSteps, SnapSteps
<1>8. CASE CheckLimit(p)
  BY <1>0, <1>8 DEF CheckLimit, TypeOK, Steps, BidSteps, SnapSteps
<1>9. CASE Unlock(p)
  BY <1>0, <1>9 DEF Unlock, TypeOK, Steps, BidSteps, SnapSteps
<1> QED
  BY <1>1, <1>2, <1>3, <1>4, <1>5, <1>6, <1>7, <1>8, <1>9 DEF ServeStep

\* The steps that start a closure.
LEMMA StartType ==
  ASSUME TypeOK, NEW p \in Processes, CronFind(p) \/ AdminClose(p) \/ AdminForce(p)
  PROVE  TypeOK'
<1> USE DEF Goto, shared, local
<1>1. CASE CronFind(p)
  BY <1>1 DEF CronFind, TypeOK, Steps, BidSteps, SnapSteps
<1>2. CASE AdminClose(p)
  BY <1>2 DEF AdminClose, TypeOK, Steps, BidSteps, SnapSteps
<1>3. CASE AdminForce(p)
  BY <1>3 DEF AdminForce, TypeOK, Steps, BidSteps, SnapSteps
<1> QED
  BY <1>1, <1>2, <1>3

(* What the last step of a closure leaves to the process, by whichever way it
   is left. *)
LEMMA ReturnType ==
  ASSUME TypeOK, NEW p \in Processes, Return(p),
         request' \in [Processes -> Request \cup {None}],
         \A q \in Processes \ {p} : request'[q] = request[q]
  PROVE  /\ pc' \in [Processes -> Steps]
         /\ snap' \in [Processes -> Row \cup {None}]
         /\ tally' \in [Processes -> Tally \cup {None}]
         /\ \A q \in Processes :
              /\ pc'[q] \in BidSteps => request'[q] \in Request
              /\ pc'[q] \in SnapSteps => snap'[q] \in Row
              /\ pc'[q] \in {"persisted", "decide"} => tally'[q] \in Tally
BY DEF Return, Goto, TypeOK, Steps, BidSteps, SnapSteps

\* The steps of a closure.
LEMMA CloseType ==
  ASSUME TypeOK, NEW p \in Processes, CloseStep(p)
  PROVE  TypeOK'
<1> USE BoundAssumption DEF Goto, shared, local
<1>1. CASE ReadSingle(p)
  <2>1. CASE auction.status = "ACTIVE"
    BY <1>1, <2>1 DEF ReadSingle, TypeOK, Steps, BidSteps, SnapSteps
  <2>2. CASE auction.status # "ACTIVE"
    BY <1>1, <2>2, ReturnType DEF ReadSingle, TypeOK
  <2> QED
    BY <2>1, <2>2
<1>2. CASE EnsureUnique(p)
  <2>1. CASE UniqueBids(bids, Len(bids)) # {}
    BY <1>2, <2>1 DEF EnsureUnique, TypeOK, Steps, BidSteps, SnapSteps
  <2>2. CASE UniqueBids(bids, Len(bids)) = {}
    BY <1>2, <2>2, ReturnType DEF EnsureUnique, TypeOK
  <2> QED
    BY <2>1, <2>2
<1>3. CASE SaveEarlyEnd(p)
  <2>1. snap'[p] \in Row
    BY <1>3 DEF SaveEarlyEnd, TypeOK, SnapSteps, Row
  <2> QED
    BY <1>3, <2>1 DEF SaveEarlyEnd, TypeOK, Steps, BidSteps, SnapSteps
<1>4. CASE SaveForced(p)
  <2>1. auction' \in Row
    BY <1>4 DEF SaveForced, TypeOK, SnapSteps, Row
  <2> QED
    BY <1>4, <2>1 DEF SaveForced, TypeOK, Steps, BidSteps, SnapSteps
<1>5. CASE ReadStatus(p)
  BY <1>5 DEF ReadStatus, TypeOK, Steps, BidSteps, SnapSteps
<1>6. CASE TallyRows(p)
  <2>1. Len(bids) \in Nat
    BY DEF TypeOK
  <2>2. {bids[i] : i \in WinningBids(bids, Len(bids))} \subseteq Bid
    <3>1. WinningBids(bids, Len(bids)) \subseteq 1..Len(bids)
      BY DEF WinningBids, UniqueBids
    <3> QED
      BY <3>1, ElementOfSeq DEF TypeOK
  <2>3. [total |-> Len(bids), winners |-> {bids[i] : i \in WinningBids(bids, Len(bids))}] \in Tally
    BY <2>1, <2>2 DEF Tally
  <2> HIDE DEF TypeOK
  <2> QED
    BY <1>6, <2>3 DEF TallyRows, Tallied, TypeOK, Steps, BidSteps, SnapSteps
<1>7. CASE TallyRedis(p)
  <2>1. IndexWinners(index, bids) \subseteq Bid
    BY ElementOfSeq DEF IndexWinners, TypeOK
  <2>2. [total |-> index.total, winners |-> IndexWinners(index, bids)] \in Tally
    BY <2>1 DEF Tally, TypeOK, Index
  <2> QED
    BY <1>7, <2>2 DEF TallyRedis, Tallied, TypeOK, Steps, BidSteps, SnapSteps
<1>8. CASE CountPersisted(p)
  <2>1. [total |-> Len(bids), winners |-> {}] \in Tally
    BY DEF Tally, TypeOK
  <2> QED
    BY <1>8, <2>1 DEF CountPersisted, Tallied, TypeOK, Steps, BidSteps, SnapSteps
<1>9. CASE FindPersisted(p)
  <2>1. [total |-> tally[p].total, winners |-> winners] \in Tally
    BY <1>9 DEF FindPersisted, Tally, TypeOK
  <2> QED
    BY <1>9, <2>1 DEF FindPersisted, Tallied, TypeOK, Steps, BidSteps, SnapSteps
<1>10. CASE ExtendBelowMin(p)
  <2>1. now + Extension \in Nat /\ snap[p] \in Row
    BY <1>10 DEF ExtendBelowMin, TypeOK, SnapSteps
  <2>2. auction' \in Row
    BY <1>10, <2>1 DEF ExtendBelowMin, Row
  <2> QED
    BY <1>10, <2>2, ReturnType DEF ExtendBelowMin, TypeOK
<1>11. CASE ExtendNoUnique(p)
  <2>1. now + Extension \in Nat /\ snap[p] \in Row
    BY <1>11 DEF ExtendNoUnique, TypeOK, SnapSteps
  <2>2. snap[p].extensions + 1 \in Nat
    BY <2>1 DEF Row
  <2>3. auction' = [[snap[p] EXCEPT !.end_time = now + Extension]
                      EXCEPT !.extensions = snap[p].extensions + 1]
    BY <1>11, <2>1 DEF ExtendNoUnique, Row
  <2>4. auction' \in Row
    BY <2>1, <2>2, <2>3 DEF Row
  <2> QED
    BY <1>11, <2>4, ReturnType DEF ExtendNoUnique, TypeOK
<1>12. CASE ExpireAuction(p)
  <2>1. auction' \in Row
    BY <1>12 DEF ExpireAuction, Final, TypeOK, SnapSteps, Row
  <2> QED
    BY <1>12, <2>1 DEF ExpireAuction, Final, TypeOK, Steps, BidSteps, SnapSteps
<1>13. CASE CommitWinner(p)
  <2>1. tally[p].winners \subseteq Bid
    BY <1>13 DEF CommitWinner, Final, TypeOK, Tally
  <2>2. auction' \in Row
    BY <1>13, <2>1 DEF CommitWinner, Final, TypeOK, SnapSteps, Row
  <2> QED
    BY <1>13, <2>1, <2>2 DEF CommitWinner, PersistWinners, Final, TypeOK, Steps, BidSteps, SnapSteps
<1>14. CASE Cleanup(p)
  BY <1>14, ReturnType, EmptyIndexType DEF Cleanup, TypeOK
<1> QED
  BY <1>1, <1>2, <1>3, <1>4, <1>5, <1>6, <1>7, <1>8, <1>9, <1>10, <1>11, <1>12,
     <1>13, <1>14 DEF CloseStep

\* Failures of a process, and of its environment, and the clock.
LEMMA FaultType ==
  ASSUME TypeOK, NEW p \in Processes, FaultStep(p)
  PROVE  TypeOK'
<1> USE DEF Goto, shared, local
<1>1. CASE Abort(p)
  <2>1. /\ request' \in [Processes -> Request \cup {None}]
        /\ \A q \in Processes \ {p} : request'[q] = request[q]
    BY <1>1 DEF Abort, TypeOK
  <2> QED
    BY <1>1, <2>1, ReturnType DEF Abort, TypeOK
<1>2. CASE Crash(p)
  BY <1>2 DEF Crash, TypeOK, Steps, BidSteps, SnapSteps
<1>3. CASE EnsureUniqueFromRedis(p)
  <2>1. CASE IndexHasUnique(index)
    BY <1>3, <2>1 DEF EnsureUniqueFromRedis, TypeOK, Steps, BidSteps, SnapSteps
  <2>2. CASE ~IndexHasUnique(index)
    BY <1>3, <2>2, ReturnType DEF EnsureUniqueFromRedis, TypeOK
  <2> QED
    BY <2>1, <2>2
<1>4. CASE TallyWithoutRedis(p)
  BY <1>4 DEF TallyWithoutRedis, Tallied, TypeOK, Tally, Steps, BidSteps, SnapSteps
<1> QED
  BY <1>1, <1>2, <1>3, <1>4 DEF FaultStep

LEMMA EnvironmentType ==
  ASSUME TypeOK, Tick \/ AbandonedLockExpires \/ HeldLockExpires \/ IndexLost
  PROVE  TypeOK'
<1> USE DEF shared, local
<1>1. CASE Tick
  BY <1>1 DEF Tick, TypeOK
<1>2. CASE AbandonedLockExpires
  BY <1>2 DEF AbandonedLockExpires, TypeOK
<1>3. CASE HeldLockExpires
  BY <1>3 DEF HeldLockExpires, TypeOK
<1>4. CASE IndexLost
  BY <1>4, EmptyIndexType DEF IndexLost, TypeOK
<1> QED
  BY <1>1, <1>2, <1>3, <1>4

LEMMA NextType == TypeOK /\ [Next]_vars => TypeOK'
<1> SUFFICES ASSUME TypeOK, [Next]_vars PROVE TypeOK'
  OBVIOUS
<1>1. CASE UNCHANGED vars
  BY <1>1 DEF vars, TypeOK
<1>2. CASE Next
  BY <1>2, ServeType, StartType, CloseType, FaultType, EnvironmentType DEF Next, Processes
<1> QED
  BY <1>1, <1>2

(* Every variable keeps its type, and a process always has what the next line
   it executes reads. *)
THEOREM TypeCorrect == Spec => []TypeOK
BY InitType, NextType, PTL DEF Spec

-----------------------------------------------------------------------------
(* Winners. *)

\* Only the commit of a closure writes the winners table, and it adds nothing
\* to a table that has a winner.
LEMMA WinnersStep == [Next]_vars => (winners # {} => winners' = winners)
<1> SUFFICES ASSUME [Next]_vars, winners # {} PROVE winners' = winners
  OBVIOUS
<1> USE DEF shared
<1>1. ASSUME NEW p \in Bidders, ReceiveBid(p) \/ ServeStep(p)
      PROVE  winners' = winners
  BY <1>1 DEF ServeStep, ReceiveBid, AcquireLock, RefuseLocked, AcceptBid, RejectBid,
              SaveBid, TrackInRedis, CheckLimit, Unlock
<1>2. ASSUME NEW p \in Processes, CronFind(p) \/ AdminClose(p) \/ AdminForce(p)
      PROVE  winners' = winners
  BY <1>2 DEF CronFind, AdminClose, AdminForce
<1>3. ASSUME NEW p \in Processes, CloseStep(p)
      PROVE  winners' = winners
  BY <1>3 DEF CloseStep, ReadSingle, EnsureUnique, SaveEarlyEnd, SaveForced, ReadStatus,
              TallyRows, TallyRedis, CountPersisted, FindPersisted, ExtendBelowMin,
              ExtendNoUnique, ExpireAuction, CommitWinner, PersistWinners, Cleanup
<1>4. ASSUME NEW p \in Processes, FaultStep(p)
      PROVE  winners' = winners
  BY <1>4 DEF FaultStep, Abort, Crash, EnsureUniqueFromRedis, TallyWithoutRedis
<1>5. Tick \/ AbandonedLockExpires \/ HeldLockExpires \/ IndexLost => winners' = winners
  BY DEF Tick, AbandonedLockExpires, HeldLockExpires, IndexLost
<1> QED
  BY <1>1, <1>2, <1>3, <1>4, <1>5 DEF Next, Processes, vars

(* However many closures overlap, with whatever tallies, the winners table is
   written once. *)
THEOREM WinnersChosenOnce == Spec => WinnersImmutable
BY WinnersStep, PTL DEF Spec, WinnersImmutable

\* What WinnerJustified rests on: the row a closing process holds and the
\* tally it decides on name no other winners than justified ones either.
JustifiedInv ==
  fellBack \/
    /\ winners \subseteq JustifiedWinners
    /\ auction.winner \subseteq JustifiedWinners
    /\ \A p \in Processes :
         /\ pc[p] \in SnapSteps => snap[p].winner \subseteq JustifiedWinners
         /\ pc[p] = "decide" =>
              BelowMin(tally[p].total) \/ tally[p].winners \subseteq JustifiedWinners

\* A bid that was the lowest unique one at some moment stays one.
LEMMA JustifiedGrows ==
  ASSUME bids \in Seq(Bid), NEW bid \in Bid, bids' = Append(bids, bid)
  PROVE  JustifiedWinners \subseteq JustifiedWinners'
<1> SUFFICES ASSUME NEW w \in JustifiedWinners
             PROVE  w \in JustifiedWinners'
  OBVIOUS
<1>0. PICK i \in UNION {LowestUnique(bids, k) : k \in {n \in 1..Len(bids) : n >= MinBid}} : w = bids[i]
  BY DEF JustifiedWinners
<1>1. PICK k \in 1..Len(bids) : k >= MinBid /\ i \in LowestUnique(bids, k)
  OBVIOUS
<1>2. k \in 1..Len(bids') /\ bids' \in Seq(Bid)
  OBVIOUS
<1>3. i \in 1..k
  BY <1>1 DEF LowestUnique
<1>4. bids'[i] = bids[i]
  BY <1>3, AppendKeepsRows
<1>5. i \in LowestUnique(bids', k)
  BY <1>1, AppendKeepsLowest
<1>6. i \in UNION {LowestUnique(bids', n) : n \in {m \in 1..Len(bids') : m >= MinBid}}
  BY <1>2, <1>1, <1>5
<1> QED
  BY <1>0, <1>4, <1>6 DEF JustifiedWinners

\* What the rows say when they are counted is justified, min_bid being reached.
LEMMA TallyIsJustified ==
  ASSUME bids \in Seq(Bid), Len(bids) # 0, ~BelowMin(Len(bids))
  PROVE  {bids[i] : i \in WinningBids(bids, Len(bids))} \subseteq JustifiedWinners
<1>1. Len(bids) \in 1..Len(bids) /\ Len(bids) >= MinBid
  BY BoundAssumption DEF BelowMin
<1>2. WinningBids(bids, Len(bids)) = LowestUnique(bids, Len(bids))
  BY WinnerIsLowestUnique
<1> QED
  BY <1>1, <1>2 DEF JustifiedWinners

LEMMA ServeJustified ==
  ASSUME TypeOK, JustifiedInv, NEW p \in Bidders, ReceiveBid(p) \/ ServeStep(p)
  PROVE  JustifiedInv'
<1> USE DEF shared, local, Goto
<1>0. p \in Processes /\ fellBack' = fellBack /\ snap' = snap /\ tally' = tally
      /\ winners' = winners /\ auction' = auction
  BY DEF Processes, ServeStep, ReceiveBid, AcquireLock, RefuseLocked, AcceptBid, RejectBid,
         SaveBid, TrackInRedis, CheckLimit, Unlock
<1>1. JustifiedWinners \subseteq JustifiedWinners'
  <2>1. CASE SaveBid(p)
    <3>1. request[p].bid \in Bid /\ bids \in Seq(Bid)
      BY <1>0, <2>1 DEF SaveBid, TypeOK, BidSteps, Request
    <3> QED
      BY <2>1, <3>1, JustifiedGrows DEF SaveBid
  <2>2. CASE ~SaveBid(p)
    <3>1. bids' = bids
      BY <2>2 DEF ServeStep, ReceiveBid, AcquireLock, RefuseLocked, AcceptBid, RejectBid,
                  TrackInRedis, CheckLimit, Unlock
    <3> QED
      BY <3>1 DEF JustifiedWinners
  <2> QED
    BY <2>1, <2>2
<1>2. \A q \in Processes : pc'[q] \in SnapSteps => pc[q] = pc'[q]
  BY DEF TypeOK, SnapSteps, ServeStep, ReceiveBid, AcquireLock, RefuseLocked, AcceptBid,
         RejectBid, SaveBid, TrackInRedis, CheckLimit, Unlock
<1>3. "decide" \in SnapSteps
  BY DEF SnapSteps
<1> QED
  BY <1>0, <1>1, <1>2, <1>3 DEF JustifiedInv, BelowMin

\* A step that leaves the bids alone and takes nothing from Redis keeps the
\* invariant when what it writes is justified.
LEMMA JustifiedStep ==
  ASSUME TypeOK, JustifiedInv, NEW p \in Processes, bids' = bids, fellBack' = fellBack,
         winners' \subseteq winners \/ winners' \subseteq JustifiedWinners,
         auction'.winner \subseteq JustifiedWinners,
         \A q \in Processes \ {p} : pc'[q] = pc[q] /\ snap'[q] = snap[q] /\ tally'[q] = tally[q],
         pc'[p] \in SnapSteps => snap'[p].winner \subseteq JustifiedWinners,
         pc'[p] = "decide" =>
           BelowMin(tally'[p].total) \/ tally'[p].winners \subseteq JustifiedWinners
  PROVE  JustifiedInv'
<1>1. JustifiedWinners' = JustifiedWinners
  BY DEF JustifiedWinners
<1> QED
  BY <1>1 DEF JustifiedInv, BelowMin

LEMMA StartJustified ==
  ASSUME TypeOK, JustifiedInv, NEW p \in Processes, CronFind(p) \/ AdminClose(p) \/ AdminForce(p)
  PROVE  JustifiedInv'
<1> USE DEF shared, local, Goto
<1>0. CASE fellBack
  BY <1>0 DEF JustifiedInv, CronFind, AdminClose, AdminForce
<1>1. CASE ~fellBack
  <2>1. bids' = bids /\ fellBack' = fellBack /\ winners' = winners /\ auction' = auction
    BY DEF CronFind, AdminClose, AdminForce
  <2>2. \A q \in Processes \ {p} : pc'[q] = pc[q] /\ snap'[q] = snap[q] /\ tally'[q] = tally[q]
    BY DEF CronFind, AdminClose, AdminForce, TypeOK
  <2>3. pc'[p] \in SnapSteps => snap'[p] = auction
    BY DEF CronFind, AdminClose, AdminForce, TypeOK, SnapSteps
  <2>4. pc'[p] # "decide"
    BY DEF CronFind, AdminClose, AdminForce, TypeOK
  <2> QED
    BY <1>1, <2>1, <2>2, <2>3, <2>4, JustifiedStep DEF JustifiedInv
<1> QED
  BY <1>0, <1>1

\* fellBack never goes back to FALSE.
LEMMA FellBackStays ==
  ASSUME TypeOK, NEW p \in Processes, CloseStep(p) \/ FaultStep(p), fellBack
  PROVE  fellBack'
BY DEF CloseStep, ReadSingle, EnsureUnique, SaveEarlyEnd, SaveForced, ReadStatus,
       TallyRows, TallyRedis, CountPersisted, FindPersisted, ExtendBelowMin, ExtendNoUnique,
       ExpireAuction, CommitWinner, Cleanup, FaultStep, Abort, Crash, EnsureUniqueFromRedis,
       TallyWithoutRedis

LEMMA CloseJustified ==
  ASSUME TypeOK, JustifiedInv, NEW p \in Processes, CloseStep(p)
  PROVE  JustifiedInv'
<1> USE DEF shared, local, Goto
<1>0. CASE fellBack
  BY <1>0, FellBackStays DEF JustifiedInv
<1> SUFFICES ASSUME ~fellBack PROVE JustifiedInv'
  BY <1>0
<1>a. /\ winners \subseteq JustifiedWinners /\ auction.winner \subseteq JustifiedWinners
      /\ pc[p] \in SnapSteps => snap[p] \in Row /\ snap[p].winner \subseteq JustifiedWinners
      /\ pc[p] = "decide" =>
           BelowMin(tally[p].total) \/ tally[p].winners \subseteq JustifiedWinners
  BY DEF JustifiedInv, TypeOK
<1>1. CASE ReadSingle(p)
  BY <1>a, <1>1, JustifiedStep DEF ReadSingle, Return, TypeOK, SnapSteps
<1>2. CASE EnsureUnique(p)
  BY <1>a, <1>2, JustifiedStep DEF EnsureUnique, Return, TypeOK, SnapSteps
<1>3. CASE SaveEarlyEnd(p)
  <2>1. auction' = [snap[p] EXCEPT !.end_time = now] /\ snap'[p] = auction'
    BY <1>3 DEF SaveEarlyEnd, TypeOK
  <2>2. auction'.winner \subseteq JustifiedWinners /\ snap'[p].winner \subseteq JustifiedWinners
    BY <1>a, <1>3, <2>1 DEF SaveEarlyEnd, SnapSteps, Row
  <2> QED
    BY <1>3, <2>2, JustifiedStep DEF SaveEarlyEnd, TypeOK, SnapSteps
<1>4. CASE SaveForced(p)
  BY <1>a, <1>4, JustifiedStep DEF SaveForced, TypeOK, SnapSteps, Row
<1>5. CASE ReadStatus(p)
  BY <1>a, <1>5, JustifiedStep DEF ReadStatus, TypeOK, SnapSteps
<1>6. CASE TallyRows(p)
  <2>1. Len(bids) \in Nat /\ tally'[p].total = Len(bids)
        /\ tally'[p].winners = {bids[i] : i \in WinningBids(bids, Len(bids))}
    BY <1>6 DEF TallyRows, Tallied, TypeOK
  <2>2. pc'[p] = "decide" => Len(bids) # 0
    BY <1>6 DEF TallyRows, TypeOK
  <2>3. pc'[p] = "decide" =>
          BelowMin(tally'[p].total) \/ tally'[p].winners \subseteq JustifiedWinners
    BY <2>1, <2>2, TallyIsJustified DEF TypeOK
  <2>4. pc[p] \in SnapSteps /\ snap' = snap
    BY <1>6 DEF TallyRows, SnapSteps
  <2> QED
    BY <1>a, <1>6, <2>3, <2>4, JustifiedStep DEF TallyRows, Tallied, TypeOK
<1>7. CASE TallyRedis(p)
  <2>1. CASE IndexWinners(index, bids) = {}
    <3>1. tally'[p].winners = {} /\ ~fellBack' /\ fellBack \in BOOLEAN /\ fellBack' \in BOOLEAN
      BY <1>7, <2>1 DEF TallyRedis, Tallied, TypeOK
    <3> QED
      BY <1>a, <1>7, <3>1, JustifiedStep DEF TallyRedis, Tallied, TypeOK, SnapSteps
  <2>2. CASE IndexWinners(index, bids) # {}
    BY <1>7, <2>2 DEF TallyRedis, JustifiedInv
  <2> QED
    BY <2>1, <2>2
<1>8. CASE CountPersisted(p)
  BY <1>a, <1>8, JustifiedStep DEF CountPersisted, Tallied, TypeOK, SnapSteps
<1>9. CASE FindPersisted(p)
  BY <1>a, <1>9, JustifiedStep DEF FindPersisted, Tallied, TypeOK, SnapSteps
<1>10. CASE ExtendBelowMin(p)
  BY <1>a, <1>10, JustifiedStep DEF ExtendBelowMin, Return, TypeOK, SnapSteps, Row
<1>11. CASE ExtendNoUnique(p)
  BY <1>a, <1>11, JustifiedStep DEF ExtendNoUnique, Return, TypeOK, SnapSteps, Row
<1>12. CASE ExpireAuction(p)
  BY <1>a, <1>12, JustifiedStep DEF ExpireAuction, Final, TypeOK, SnapSteps, Row
<1>13. CASE CommitWinner(p)
  <2>1. tally[p].winners \subseteq JustifiedWinners
    BY <1>a, <1>13 DEF CommitWinner, Final
  <2>2. auction'.winner = tally[p].winners /\ winners' \subseteq JustifiedWinners
    BY <1>a, <1>13, <2>1 DEF CommitWinner, PersistWinners, Final, SnapSteps, Row
  <2> QED
    BY <1>13, <2>1, <2>2, JustifiedStep DEF CommitWinner, Final, TypeOK, SnapSteps
<1>14. CASE Cleanup(p)
  BY <1>a, <1>14, JustifiedStep DEF Cleanup, Return, TypeOK, SnapSteps
<1> QED
  BY <1>1, <1>2, <1>3, <1>4, <1>5, <1>6, <1>7, <1>8, <1>9, <1>10, <1>11, <1>12,
     <1>13, <1>14 DEF CloseStep

LEMMA FaultJustified ==
  ASSUME TypeOK, JustifiedInv, NEW p \in Processes, FaultStep(p)
  PROVE  JustifiedInv'
<1> USE DEF shared, local, Goto
<1>0. CASE fellBack
  BY <1>0, FellBackStays DEF JustifiedInv
<1>1. CASE ~fellBack
  <2>1. /\ bids' = bids /\ fellBack' = fellBack /\ winners' = winners /\ auction' = auction
        /\ \A q \in Processes \ {p} : pc'[q] = pc[q] /\ snap'[q] = snap[q] /\ tally'[q] = tally[q]
        /\ pc'[p] \in SnapSteps => pc[p] \in SnapSteps /\ snap' = snap
        /\ pc'[p] = "decide" => tally'[p].winners = {}
    BY DEF FaultStep, Abort, Crash, EnsureUniqueFromRedis, TallyWithoutRedis, Tallied, Return,
           TypeOK, SnapSteps
  <2> QED
    BY <1>1, <2>1, JustifiedStep DEF JustifiedInv
<1> QED
  BY <1>0, <1>1

LEMMA InitJustified == Init => JustifiedInv
BY DEF Init, JustifiedInv, SnapSteps

LEMMA NextJustified == TypeOK /\ JustifiedInv /\ [Next]_vars => JustifiedInv'
<1> SUFFICES ASSUME TypeOK, JustifiedInv, [Next]_vars PROVE JustifiedInv'
  OBVIOUS
<1>1. CASE UNCHANGED vars \/ Tick \/ AbandonedLockExpires \/ HeldLockExpires \/ IndexLost
  <2>1. UNCHANGED <<auction, bids, winners, pc, snap, tally, fellBack>>
    BY <1>1 DEF vars, shared, local, Tick, AbandonedLockExpires, HeldLockExpires, IndexLost
  <2> QED
    BY <2>1 DEF JustifiedInv, JustifiedWinners, BelowMin
<1>2. CASE Next /\ ~(Tick \/ AbandonedLockExpires \/ HeldLockExpires \/ IndexLost)
  BY <1>2, ServeJustified, StartJustified, CloseJustified, FaultJustified DEF Next, Processes
<1> QED
  BY <1>1, <1>2

(* Whatever closures overlap, crash or are retried, and however many bids
   arrive late, a winner in the winners table or in the row of the auction was
   the lowest unique bid at some moment with min_bid bids in, provided no
   tally fell back on Redis. *)
THEOREM WinnersJustified == Spec => []WinnerJustified
<1>1. Init => TypeOK /\ JustifiedInv
  BY InitType, InitJustified
<1>2. (TypeOK /\ JustifiedInv) /\ [Next]_vars => (TypeOK /\ JustifiedInv)'
  BY NextType, NextJustified
<1>3. JustifiedInv => WinnerJustified
  BY DEF JustifiedInv, WinnerJustified
<1> QED
  BY <1>1, <1>2, <1>3, PTL DEF Spec

-----------------------------------------------------------------------------
(* The lock. *)

\* Nothing closes the auction, and nothing fails.
BiddingOnly == Crons = {} /\ Admins = {} /\ MaxBid = None /\ MaxFaults = 0

ServeSteps == {"idle", "lock", "check", "save", "track", "limit", "unlock"}

\* The lock key names the one bid past SET NX, and what that bid has found
\* about duplicates still holds.
LockInv ==
  /\ faults = 0
  /\ \A p \in Bidders :
       /\ pc[p] \in ServeSteps
       /\ pc[p] \in Critical => lock = p
       /\ pc[p] = "save" => \A i \in DOMAIN bids : bids[i] # request[p].bid
  /\ NoDuplicateBid

LEMMA ServeLock ==
  ASSUME TypeOK, LockInv, MaxBid = None, NEW p \in Bidders, ReceiveBid(p) \/ ServeStep(p)
  PROVE  LockInv'
<1> USE ProcessAssumption DEF shared, local, Goto, Critical, Steps, BidSteps, SnapSteps
<1>0. p \in Processes /\ Bidders \subseteq Processes /\ lock \in Processes \cup {None}
      /\ faults' = faults
  BY DEF Processes, TypeOK, ServeStep, ReceiveBid, AcquireLock, RefuseLocked, AcceptBid,
         RejectBid, SaveBid, TrackInRedis, CheckLimit, Unlock
<1> USE <1>0 DEF TypeOK, LockInv, NoDuplicateBid, ServeSteps
<1>1. CASE ReceiveBid(p)
  BY <1>1 DEF ReceiveBid
<1>2. CASE AcquireLock(p)
  BY <1>2 DEF AcquireLock, LockIsFree
<1>3. CASE RefuseLocked(p)
  BY <1>3 DEF RefuseLocked, LockIsFree
<1>4. CASE AcceptBid(p)
  BY <1>4 DEF AcceptBid, Acceptable
<1>5. CASE RejectBid(p)
  BY <1>5 DEF RejectBid
<1>6. CASE SaveBid(p)
  <2>1. request[p].bid \in Bid
    BY <1>6 DEF SaveBid, Request
  <2>2. \A i \in DOMAIN bids : bids[i] # request[p].bid
    BY <1>6 DEF SaveBid
  <2>3. NoDuplicateBid'
    BY <1>6, <2>1, <2>2 DEF SaveBid
  <2>4. \A q \in Bidders : pc'[q] # "save"
    BY <1>6 DEF SaveBid
  <2> QED
    BY <1>6, <2>3, <2>4 DEF SaveBid
<1>7. CASE TrackInRedis(p)
  BY <1>7 DEF TrackInRedis
<1>8. CASE CheckLimit(p)
  BY <1>8 DEF CheckLimit, LimitReached
<1>9. CASE Unlock(p)
  BY <1>9 DEF Unlock
<1> QED
  BY <1>1, <1>2, <1>3, <1>4, <1>5, <1>6, <1>7, <1>8, <1>9 DEF ServeStep

LEMMA NextLock ==
  ASSUME BiddingOnly, TypeOK, LockInv, [Next]_vars
  PROVE  LockInv'
<1> USE ProcessAssumption DEF BiddingOnly
<1>1. Processes = Bidders
  BY DEF Processes
<1>2. ASSUME NEW p \in Bidders, ReceiveBid(p) \/ ServeStep(p)
      PROVE  LockInv'
  BY <1>2, ServeLock
<1>3. ASSUME NEW p \in Processes
      PROVE  ~CloseStep(p) /\ ~FaultStep(p)
  <2>1. pc[p] \in ServeSteps /\ ~(faults < MaxFaults)
    BY <1>1 DEF LockInv
  <2> QED
    BY <2>1 DEF ServeSteps, CloseStep, ReadSingle, EnsureUnique, SaveEarlyEnd, SaveForced,
       ReadStatus, TallyRows, TallyRedis, CountPersisted, FindPersisted, ExtendBelowMin,
       ExtendNoUnique, Final, ExpireAuction, CommitWinner, Cleanup, FaultStep, Abort, Crash,
       EnsureUniqueFromRedis, TallyWithoutRedis
<1>4. CASE Tick \/ UNCHANGED vars
  BY <1>4 DEF Tick, vars, shared, local, LockInv, NoDuplicateBid
<1>5. CASE AbandonedLockExpires
  BY <1>5 DEF AbandonedLockExpires, local, LockInv, NoDuplicateBid
<1>6. ~HeldLockExpires /\ ~IndexLost
  BY DEF HeldLockExpires, IndexLost, LockInv
<1> QED
  BY <1>2, <1>3, <1>4, <1>5, <1>6 DEF Next

(* While nothing but bids goes on and nothing fails, placeBid is a critical
   section and no user bids the same amount twice, however many requests
   overlap. *)
THEOREM LockExcludes ==
  ASSUME BiddingOnly
  PROVE  Spec => [](MutualExclusion /\ NoDuplicateBid)
<1>1. Init => TypeOK /\ LockInv
  <2>1. Init => LockInv
    BY DEF Init, LockInv, ServeSteps, Critical, Steps, NoDuplicateBid, Processes
  <2> QED
    BY <2>1, InitType
<1>2. (TypeOK /\ LockInv) /\ [Next]_vars => (TypeOK /\ LockInv)'
  BY NextType, NextLock
<1>3. LockInv => MutualExclusion /\ NoDuplicateBid
  BY DEF LockInv, MutualExclusion
<1> QED
  BY <1>1, <1>2, <1>3, PTL DEF Spec

=============================================================================
