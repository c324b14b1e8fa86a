---------------------------- MODULE ReopenProofs ----------------------------
(***************************************************************************)
(* Theorems of the auction that is put up again and edited, for any bids,  *)
(* limits, durations and failures: the types whatever runs at once, the    *)
(* rest for one closure and one reopening or update at a time.             *)
(***************************************************************************)
EXTENDS Reopen, ClosureProofs

RowSteps == {"winners", "bids", "save", "clean", "update"}

\* What Finished leaves of the requests.
LEMMA FinishedType ==
  ASSUME ReopenTypeOK, NEW e \in Editors, Finished(e)
  PROVE  /\ step' \in [Editors -> RowSteps \cup {"idle"}]
         /\ old' \in [Editors -> Row \cup {None}]
         /\ \A f \in Editors : step'[f] # "idle" => old'[f] \in Row
BY DEF Finished, To, ReopenTypeOK, RowSteps

LEMMA EditType ==
  ASSUME ReopenTypeOK, NEW e \in Editors, ReopenStep(e)
  PROVE  ReopenTypeOK'
<1> USE DEF shared, kept, others, local, To, RowSteps
<1>1. /\ step \in [Editors -> RowSteps \cup {"idle"}] /\ old \in [Editors -> Row \cup {None}]
      /\ step[e] # "idle" => old[e] \in Row
      /\ undone \in BOOLEAN /\ TypeOK
  BY DEF ReopenTypeOK
<1>2. CASE ReadForUpdate(e)
  BY <1>1, <1>2 DEF ReadForUpdate, ReopenTypeOK, TypeOK
<1>3. CASE SaveUpdated(e)
  <2>1. PICK end \in {old[e].end_time, now + Extension} : auction' = [old[e] EXCEPT !.end_time = end]
    BY <1>3 DEF SaveUpdated
  <2>2. old[e] \in Row /\ end \in Nat
    BY <1>1, <1>3, BoundAssumption DEF SaveUpdated, Row, TypeOK
  <2>3. auction' \in Row
    BY <2>1, <2>2 DEF Row
  <2>4. undone' \in BOOLEAN
    BY <1>3 DEF SaveUpdated
  <2>5. TypeOK'
    BY <1>1, <1>3, <2>3 DEF SaveUpdated, TypeOK
  <2> QED
    BY <1>3, <2>4, <2>5, FinishedType DEF SaveUpdated, ReopenTypeOK
<1>4. CASE ReadForReopen(e)
  BY <1>1, <1>4 DEF ReadForReopen, ReopenTypeOK, TypeOK
<1>5. CASE DeleteWinners(e)
  BY <1>1, <1>5 DEF DeleteWinners, ReopenTypeOK, TypeOK
<1>6. CASE DeleteBids(e)
  BY <1>1, <1>6 DEF DeleteBids, ReopenTypeOK, TypeOK
<1>7. CASE SaveReopened(e)
  <2>1. old[e] \in Row /\ now + Duration \in Nat
    BY <1>1, <1>7, BoundAssumption DEF SaveReopened, TypeOK
  <2>2. auction' \in Row
    BY <1>7, <2>1 DEF SaveReopened, Row
  <2>3. TypeOK'
    BY <1>1, <1>7, <2>2 DEF SaveReopened, TypeOK
  <2> QED
    BY <1>1, <1>7, <2>3 DEF SaveReopened, ReopenTypeOK
<1>8. CASE CleanReopened(e)
  <2>1. TypeOK'
    BY <1>1, <1>8 DEF CleanReopened, TypeOK, EmptyIndex, Index
  <2> QED
    BY <1>1, <1>8, <2>1, FinishedType DEF CleanReopened, ReopenTypeOK
<1>9. CASE AbortReopen(e)
  <2>1. TypeOK'
    BY <1>1, <1>9 DEF AbortReopen, TypeOK
  <2> QED
    BY <1>1, <1>9, <2>1, FinishedType DEF AbortReopen, ReopenTypeOK
<1> QED
  BY <1>2, <1>3, <1>4, <1>5, <1>6, <1>7, <1>8, <1>9 DEF ReopenStep

LEMMA InitReopenType == ReopenInit => ReopenTypeOK
<1> SUFFICES ASSUME ReopenInit PROVE ReopenTypeOK
  OBVIOUS
<1>1. TypeOK
  BY InitType DEF ReopenInit
<1> QED
  BY <1>1 DEF ReopenInit, ReopenTypeOK

LEMMA NextReopenType == ReopenTypeOK /\ [ReopenNext]_reopenVars => ReopenTypeOK'
<1> SUFFICES ASSUME ReopenTypeOK, [ReopenNext]_reopenVars PROVE ReopenTypeOK'
  OBVIOUS
<1>1. CASE [Next]_vars /\ UNCHANGED editVars
  BY <1>1, NextType DEF ReopenTypeOK, editVars
<1>2. CASE \E e \in Editors : ReopenStep(e)
  BY <1>2, EditType
<1> QED
  BY <1>1, <1>2 DEF ReopenNext, reopenVars

\* Whatever bids, closes, reopens and edits at once, every variable keeps its
\* type and a reopening or an update holds the row it read.
THEOREM ReopenTypeCorrect == ReopenSpec => []ReopenTypeOK
BY InitReopenType, NextReopenType, PTL DEF ReopenSpec

-----------------------------------------------------------------------------
(* One closure and one edit at a time. *)

\* One run of the cron at a time closes, and one request at a time reopens or
\* edits the auction.
OneEditor == OneCloser /\ \E e : Editors = {e}

\* The bids do not close; from the query to the save the closure finds the
\* auction as open as in the row it holds; CLOSED is closed with a winner; and
\* the outcome is in both tables, unless an update has undone a closure.
RoundInv ==
  /\ \A p \in Bidders : pc[p] \in ServeSteps
  /\ \A c \in Crons :
       /\ pc[c] \in CloserSteps \cup {"idle", "clean"}
       /\ pc[c] \in CloserSteps => /\ auction.status = "ACTIVE"
                                   /\ snap[c].status = "ACTIVE" /\ snap[c].winner = {}
  /\ auction.status = "CLOSED" <=> auction.winner # {}
  /\ undone \/ auction.winner = winners

\* What is reopened is EXPIRED until the row is saved, so that nothing closes it
\* meanwhile; an update holds a row without a winner or the very row of the
\* auction.
EditInv ==
  \A e \in Editors :
     /\ step[e] \in {"winners", "bids", "save"} => auction.status = "EXPIRED"
     /\ step[e] \in {"bids", "save"} => winners = {}
     /\ step[e] = "update" =>
          IF old[e].status = "ACTIVE" THEN old[e].winner = {} ELSE auction = old[e]

LEMMA ServeRound ==
  ASSUME OneCloser, TypeOK, RoundInv, undone' = undone,
         NEW p \in Bidders, ReceiveBid(p) \/ ServeStep(p)
  PROVE  RoundInv' /\ UNCHANGED <<auction, winners>>
<1> USE DEF shared, local, Goto
<1>1. auction' = auction /\ winners' = winners /\ snap' = snap
  BY DEF ServeStep, ReceiveBid, AcquireLock, RefuseLocked, AcceptBid, RejectBid,
         SaveBid, TrackInRedis, CheckLimit, Unlock
<1>2. p \in Processes /\ p \notin Crons /\ Crons \subseteq Processes /\ Bidders \subseteq Processes
  BY ProcessAssumption DEF Processes
<1>3. pc'[p] \in ServeSteps /\ \A q \in Processes \ {p} : pc'[q] = pc[q]
  BY <1>2 DEF OneCloser, TypeOK, RoundInv, ServeSteps, ServeStep, ReceiveBid, AcquireLock,
         RefuseLocked, AcceptBid, RejectBid, SaveBid, TrackInRedis, CheckLimit, LimitReached, Unlock
<1> QED
  BY <1>1, <1>2, <1>3 DEF RoundInv

\* What a step of the cron run c must leave.
LEMMA CronRound ==
  ASSUME OneCloser, RoundInv, undone' = undone, NEW c \in Crons,
         \A q \in Processes \ {c} : pc'[q] = pc[q],
         pc'[c] \in CloserSteps \cup {"idle", "clean"},
         pc'[c] \in CloserSteps => /\ auction'.status = "ACTIVE"
                                  /\ snap'[c].status = "ACTIVE" /\ snap'[c].winner = {},
         auction'.status = "CLOSED" <=> auction'.winner # {},
         undone \/ auction'.winner = winners'
  PROVE  RoundInv'
<1>1. Crons = {c} /\ \A q \in Bidders : q \in Processes \ {c}
  BY ProcessAssumption DEF OneCloser, Processes
<1> QED
  BY <1>1 DEF RoundInv

LEMMA CloseRound ==
  ASSUME OneCloser, TypeOK, RoundInv, undone' = undone,
         NEW c \in Crons, CronFind(c) \/ CloseStep(c)
  PROVE  /\ RoundInv'
         /\ auction.status # "ACTIVE" => UNCHANGED <<auction, winners>>
<1> USE DEF shared, local, Goto, CloserSteps
<1>0. c \in Processes /\ c \notin Bidders
  BY ProcessAssumption DEF Processes
<1>a. /\ pc[c] \in CloserSteps \cup {"idle", "clean"}
      /\ pc[c] \in CloserSteps => /\ auction.status = "ACTIVE" /\ snap[c] \in Row
                                  /\ snap[c].status = "ACTIVE" /\ snap[c].winner = {}
      /\ auction.status = "CLOSED" <=> auction.winner # {}
      /\ undone \/ auction.winner = winners
  BY <1>0 DEF RoundInv, TypeOK, SnapSteps
<1>1. CASE CronFind(c)
  BY <1>0, <1>a, <1>1, CronRound DEF CronFind, IsOverdue, TypeOK
<1>2. CASE ReadStatus(c)
  BY <1>0, <1>a, <1>2, CronRound DEF ReadStatus, TypeOK
<1>3. CASE TallyRows(c)
  BY <1>0, <1>a, <1>3, CronRound DEF TallyRows, TypeOK
<1>4. CASE TallyRedis(c)
  BY <1>0, <1>a, <1>4, CronRound DEF TallyRedis, TypeOK
<1>5. CASE ExtendBelowMin(c)
  <2>1. /\ auction' = [snap[c] EXCEPT !.end_time = now + Extension]
        /\ pc[c] = "decide" /\ winners' = winners
    BY <1>5 DEF ExtendBelowMin
  <2>2. auction'.status = "ACTIVE" /\ auction'.winner = {} /\ auction.winner = {}
    BY <1>a, <2>1 DEF Row
  <2> QED
    BY <1>0, <1>a, <1>5, <2>1, <2>2, CronRound DEF ExtendBelowMin, Return, TypeOK
<1>6. CASE ExtendNoUnique(c)
  <2>1. /\ auction' = [snap[c] EXCEPT !.end_time = now + Extension, !.extensions = @ + 1]
        /\ pc[c] = "decide" /\ winners' = winners
    BY <1>6 DEF ExtendNoUnique
  <2>2. auction'.status = "ACTIVE" /\ auction'.winner = {} /\ auction.winner = {}
    BY <1>a, <2>1 DEF Row
  <2> QED
    BY <1>0, <1>a, <1>6, <2>1, <2>2, CronRound DEF ExtendNoUnique, Return, TypeOK
<1>7. CASE ExpireAuction(c)
  <2>1. /\ auction' = [snap[c] EXCEPT !.status = "EXPIRED"]
        /\ pc[c] = "decide" /\ winners' = winners
    BY <1>7 DEF ExpireAuction, Final
  <2>2. auction'.status = "EXPIRED" /\ auction'.winner = {} /\ auction.winner = {}
    BY <1>a, <2>1 DEF Row
  <2> QED
    BY <1>0, <1>a, <1>7, <2>1, <2>2, CronRound DEF ExpireAuction, TypeOK
<1>8. CASE CommitWinner(c)
  <2>1. /\ auction' = [snap[c] EXCEPT !.status = "CLOSED", !.winner = tally[c].winners]
        /\ pc[c] = "decide" /\ winners' = PersistWinners(tally[c].winners)
        /\ tally[c].winners # {}
    BY <1>8 DEF CommitWinner, Final, WinBidFound
  <2>2. auction'.status = "CLOSED" /\ auction'.winner = tally[c].winners /\ auction.winner = {}
    BY <1>a, <2>1 DEF Row
  <2>3. undone \/ auction'.winner = winners'
    BY <1>a, <2>1, <2>2 DEF PersistWinners
  <2> QED
    BY <1>0, <1>a, <1>8, <2>1, <2>2, <2>3, CronRound DEF CommitWinner, TypeOK
<1>9. CASE Cleanup(c)
  BY <1>0, <1>a, <1>9, CronRound DEF Cleanup, Return, TypeOK
<1>10. /\ ~ReadSingle(c) /\ ~EnsureUnique(c) /\ ~SaveEarlyEnd(c) /\ ~SaveForced(c)
       /\ ~CountPersisted(c) /\ ~FindPersisted(c)
  BY <1>a DEF ReadSingle, EnsureUnique, SaveEarlyEnd, SaveForced, CountPersisted, FindPersisted
<1> QED
  BY <1>1, <1>2, <1>3, <1>4, <1>5, <1>6, <1>7, <1>8, <1>9, <1>10 DEF CloseStep

\* A bid takes no step of a closure.
LEMMA BidderServesOnly ==
  ASSUME RoundInv, NEW p \in Bidders
  PROVE  ~CloseStep(p) /\ ~EnsureUniqueFromRedis(p) /\ ~TallyWithoutRedis(p)
<1>1. pc[p] \in ServeSteps
  BY DEF RoundInv
<1> QED
  BY <1>1 DEF ServeSteps, CloseStep, ReadSingle, EnsureUnique, SaveEarlyEnd, SaveForced,
     ReadStatus, TallyRows, TallyRedis, CountPersisted, FindPersisted, ExtendBelowMin,
     ExtendNoUnique, Final, ExpireAuction, CommitWinner, Cleanup, EnsureUniqueFromRedis,
     TallyWithoutRedis

LEMMA FaultRound ==
  ASSUME OneCloser, TypeOK, RoundInv, undone' = undone, NEW p \in Processes, FaultStep(p)
  PROVE  RoundInv' /\ UNCHANGED <<auction, winners>>
<1> USE DEF shared, local, Goto
<1>1. auction' = auction /\ winners' = winners
  BY DEF FaultStep, Abort, Crash, EnsureUniqueFromRedis, TallyWithoutRedis
<1>2. ~EnsureUniqueFromRedis(p)
  BY BidderServesOnly
     DEF OneCloser, Processes, RoundInv, CloserSteps, EnsureUniqueFromRedis
<1>3. Crons \subseteq Processes /\ Bidders \subseteq Processes /\ Crons \cap Bidders = {}
  BY ProcessAssumption DEF Processes
<1>4. CASE TallyWithoutRedis(p)
  <2>1. p \in Crons
    BY <1>4, BidderServesOnly DEF OneCloser, Processes
  <2>2. /\ pc[p] = "redis" /\ pc'[p] = "decide" /\ snap' = snap
        /\ \A q \in Processes \ {p} : pc'[q] = pc[q]
    BY <1>4 DEF TallyWithoutRedis, TypeOK
  <2>3. /\ auction.status = "ACTIVE" /\ snap[p].status = "ACTIVE" /\ snap[p].winner = {}
        /\ auction.status = "CLOSED" <=> auction.winner # {}
        /\ undone \/ auction.winner = winners
    BY <2>1, <2>2 DEF RoundInv, CloserSteps
  <2> QED
    BY <1>1, <2>1, <2>2, <2>3, CronRound DEF CloserSteps
<1>5. CASE ~TallyWithoutRedis(p)
  <2>1. /\ pc'[p] = IF p \in Bidders THEN pc'[p] ELSE "idle"
        /\ pc'[p] \in {"idle", "unlock"}
        /\ \A q \in Processes \ {p} : pc'[q] = pc[q] /\ snap'[q] = snap[q]
    BY <1>2, <1>5 DEF FaultStep, Abort, Crash, Return, TypeOK
  <2> QED
    BY <1>1, <1>3, <2>1 DEF RoundInv, CloserSteps, ServeSteps
<1> QED
  BY <1>4, <1>5

\* The steps of module Auction: they leave what is not ACTIVE alone.
LEMMA AuctionRound ==
  ASSUME OneCloser, TypeOK, RoundInv, undone' = undone, [Next]_vars
  PROVE  /\ RoundInv'
         /\ auction.status # "ACTIVE" => UNCHANGED <<auction, winners>>
<1>1. Processes = Bidders \cup Crons /\ Admins = {}
  BY DEF OneCloser, Processes
<1>2. CASE UNCHANGED vars \/ Tick \/ AbandonedLockExpires \/ HeldLockExpires \/ IndexLost
  <2>1. UNCHANGED <<auction, winners, pc, snap>>
    BY <1>2 DEF vars, shared, local, Tick, AbandonedLockExpires, HeldLockExpires, IndexLost
  <2> QED
    BY <2>1 DEF RoundInv
<1> QED
  BY <1>1, <1>2, ServeRound, CloseRound, FaultRound, BidderServesOnly DEF Next

LEMMA AuctionEdits ==
  ASSUME OneCloser, TypeOK, RoundInv, EditInv, UNCHANGED editVars, [Next]_vars
  PROVE  EditInv'
<1>1. step' = step /\ old' = old /\ undone' = undone
  BY DEF editVars
<1>2. auction.status # "ACTIVE" => UNCHANGED <<auction, winners>>
  BY <1>1, AuctionRound
<1> SUFFICES ASSUME NEW e \in Editors
             PROVE  /\ step[e] \in {"winners", "bids", "save"} => auction'.status = "EXPIRED"
                    /\ step[e] \in {"bids", "save"} => winners' = {}
                    /\ step[e] = "update" =>
                         IF old[e].status = "ACTIVE" THEN old[e].winner = {} ELSE auction' = old[e]
  BY <1>1 DEF EditInv
<1> QED
  BY <1>2 DEF EditInv

\* No closure is between its query and its save while the auction is not ACTIVE.
LEMMA NothingCloses ==
  ASSUME OneCloser, RoundInv, auction.status # "ACTIVE", NEW p \in Processes
  PROVE  pc[p] \notin SnapSteps /\ pc[p] # "decide"
<1>1. p \in Bidders \/ p \in Crons
  BY DEF OneCloser, Processes
<1> QED
  BY <1>1 DEF RoundInv, ServeSteps, CloserSteps, SnapSteps

\* An edit that leaves the bids, the winners and the winner of the row.
LEMMA SameOutcome ==
  ASSUME MadeInv, JustifiedInv, auction'.winner = auction.winner,
         UNCHANGED <<bids, winners, pc, snap, tally, fellBack>>
  PROVE  MadeInv' /\ JustifiedInv'
<1>1. ValidBids' = ValidBids /\ JustifiedWinners' = JustifiedWinners
  BY DEF ValidBids, JustifiedWinners
<1>2. MadeInv'
  BY <1>1 DEF MadeInv, OneBid
<1>3. JustifiedInv'
  BY <1>1 DEF JustifiedInv, BelowMin
<1> QED
  BY <1>2, <1>3

\* ... and one that leaves nobody in the row.
LEMMA NoOutcome ==
  ASSUME MadeInv, JustifiedInv, auction'.winner = {},
         UNCHANGED <<bids, winners, pc, snap, tally, fellBack>>
  PROVE  MadeInv' /\ JustifiedInv'
<1>1. ValidBids' = ValidBids /\ JustifiedWinners' = JustifiedWinners
  BY DEF ValidBids, JustifiedWinners
<1>2. MadeInv'
  BY <1>1 DEF MadeInv, OneBid
<1>3. JustifiedInv'
  BY <1>1 DEF JustifiedInv, BelowMin
<1> QED
  BY <1>2, <1>3

ReopenInv == RoundInv /\ EditInv /\ MadeInv /\ JustifiedInv

\* The one request that edits.
LEMMA OneEdits ==
  ASSUME OneEditor, NEW e \in Editors, NEW f \in Editors
  PROVE  f = e
BY DEF OneEditor

LEMMA EditRound ==
  ASSUME OneEditor, ReopenTypeOK, ReopenInv, NEW e \in Editors, ReopenStep(e)
  PROVE  ReopenInv'
<1> USE DEF shared, kept, others, local, To, Finished
<1>0. /\ OneCloser /\ TypeOK /\ RoundInv /\ EditInv /\ MadeInv /\ JustifiedInv
      /\ step \in [Editors -> RowSteps \cup {"idle"}] /\ old \in [Editors -> Row \cup {None}]
      /\ step[e] # "idle" => old[e] \in Row
      /\ auction \in Row
  BY DEF ReopenTypeOK, ReopenInv, OneEditor, TypeOK, RowSteps
<1>a. /\ step[e] \in {"winners", "bids", "save"} => auction.status = "EXPIRED"
      /\ step[e] \in {"bids", "save"} => winners = {}
      /\ step[e] = "update" =>
           IF old[e].status = "ACTIVE" THEN old[e].winner = {} ELSE auction = old[e]
  BY <1>0 DEF EditInv
<1>b. /\ auction.status = "CLOSED" <=> auction.winner # {}
      /\ undone \/ auction.winner = winners
  BY <1>0 DEF RoundInv
<1>c. UNCHANGED <<pc, snap, tally, fellBack>>
  BY DEF ReopenStep, ReadForUpdate, SaveUpdated, ReadForReopen, DeleteWinners, DeleteBids,
         SaveReopened, CleanReopened, AbortReopen
<1>d. ASSUME step'[e] \in {"winners", "bids", "save"} => auction'.status = "EXPIRED",
             step'[e] \in {"bids", "save"} => winners' = {},
             step'[e] = "update" =>
               IF old'[e].status = "ACTIVE" THEN old'[e].winner = {} ELSE auction' = old'[e]
      PROVE  EditInv'
  BY <1>d, OneEdits DEF EditInv
<1>e. ASSUME auction.status = "ACTIVE" => auction'.status = "ACTIVE",
             auction'.status = "CLOSED" <=> auction'.winner # {},
             undone' \/ auction'.winner = winners'
      PROVE  RoundInv'
  BY <1>0, <1>c, <1>e DEF RoundInv
<1>1. CASE ReadForUpdate(e)
  <2>1. step'[e] = "update" /\ old'[e] = auction /\ UNCHANGED <<auction, bids, winners, undone>>
    BY <1>0, <1>1 DEF ReadForUpdate
  <2>2. auction.status = "ACTIVE" => auction.winner = {}
    BY <1>b
  <2>3. RoundInv' /\ EditInv'
    BY <1>b, <1>d, <1>e, <2>1, <2>2
  <2> QED
    BY <1>0, <1>c, <2>1, <2>3, SameOutcome DEF ReopenInv
<1>2. CASE SaveUpdated(e)
  <2>1. PICK end \in {old[e].end_time, now + Extension} : auction' = [old[e] EXCEPT !.end_time = end]
    BY <1>2 DEF SaveUpdated
  <2>2. /\ step[e] = "update" /\ step'[e] = "idle" /\ old[e] \in Row
        /\ UNCHANGED <<bids, winners>>
        /\ undone' = (undone \/ auction'.status # auction.status \/ auction'.winner # auction.winner)
    BY <1>0, <1>2 DEF SaveUpdated
  <2>3. auction'.status = old[e].status /\ auction'.winner = old[e].winner
    BY <2>1, <2>2 DEF Row
  <2>4. EditInv'
    BY <1>d, <2>2
  <2>5. CASE old[e].status = "ACTIVE"
    <3>1. auction'.status = "ACTIVE" /\ auction'.winner = {}
      BY <1>a, <2>2, <2>3, <2>5
    <3>2. undone' \/ auction'.winner = winners'
      BY <1>b, <2>2
    <3>3. RoundInv'
      BY <1>e, <3>1, <3>2
    <3> QED
      BY <1>0, <1>c, <2>2, <2>4, <3>1, <3>3, NoOutcome DEF ReopenInv
  <2>6. CASE old[e].status # "ACTIVE"
    <3>1. auction'.status = auction.status /\ auction'.winner = auction.winner
      BY <1>a, <2>2, <2>3, <2>6
    <3>2. RoundInv'
      BY <1>b, <1>e, <2>2, <3>1
    <3> QED
      BY <1>0, <1>c, <2>2, <2>4, <3>1, <3>2, SameOutcome DEF ReopenInv
  <2> QED
    BY <2>5, <2>6
<1>3. CASE ReadForReopen(e)
  <2>1. step'[e] = "winners" /\ UNCHANGED <<auction, bids, winners, undone>>
    BY <1>0, <1>3 DEF ReadForReopen
  <2>2. auction.status = "EXPIRED"
    BY <1>0, <1>3, <1>b DEF ReadForReopen, Reopenable, Row
  <2>3. RoundInv' /\ EditInv'
    BY <1>b, <1>d, <1>e, <2>1, <2>2
  <2> QED
    BY <1>0, <1>c, <2>1, <2>3, SameOutcome DEF ReopenInv
<1>4. CASE DeleteWinners(e)
  <2>1. /\ step[e] = "winners" /\ step'[e] = "bids" /\ winners' = {}
        /\ UNCHANGED <<auction, bids, undone>>
    BY <1>0, <1>4 DEF DeleteWinners
  <2>2. auction.status = "EXPIRED" /\ auction.winner = {}
    BY <1>a, <1>b, <2>1
  <2>3. RoundInv' /\ EditInv'
    BY <1>b, <1>d, <1>e, <2>1, <2>2
  <2>4. ValidBids' = ValidBids /\ JustifiedWinners' = JustifiedWinners
    BY <2>1 DEF ValidBids, JustifiedWinners
  <2>5. MadeInv'
    BY <1>0, <1>c, <2>1, <2>4 DEF MadeInv, OneBid
  <2>6. JustifiedInv'
    BY <1>0, <1>c, <2>1, <2>4 DEF JustifiedInv, BelowMin
  <2> QED
    BY <2>3, <2>5, <2>6 DEF ReopenInv
<1>5. CASE DeleteBids(e)
  <2>1. step[e] = "bids" /\ step'[e] = "save" /\ UNCHANGED <<auction, winners, undone>>
    BY <1>0, <1>5 DEF DeleteBids
  <2>2. auction.status = "EXPIRED" /\ auction.winner = {} /\ winners = {}
    BY <1>a, <1>b, <2>1
  <2>3. RoundInv' /\ EditInv'
    BY <1>b, <1>d, <1>e, <2>1, <2>2
  <2>4. \A p \in Processes : pc'[p] \notin SnapSteps /\ pc'[p] # "decide"
    BY <1>0, <1>c, <2>2, NothingCloses
  <2>5. MadeInv'
    BY <2>1, <2>2, <2>4, NoneIsOne DEF MadeInv, OneBid
  <2>6. JustifiedInv'
    BY <2>1, <2>2, <2>4 DEF JustifiedInv
  <2> QED
    BY <2>3, <2>5, <2>6 DEF ReopenInv
<1>6. CASE SaveReopened(e)
  <2>1. /\ step[e] = "save" /\ step'[e] = "clean" /\ UNCHANGED <<bids, winners, undone>>
        /\ old[e] \in Row
        /\ auction' = [old[e] EXCEPT !.status = "ACTIVE", !.end_time = now + Duration,
                                     !.extensions = 0, !.winner = {}]
    BY <1>0, <1>6 DEF SaveReopened
  <2>2. auction'.status = "ACTIVE" /\ auction'.winner = {} /\ winners = {}
    BY <1>a, <2>1 DEF Row
  <2>3. RoundInv' /\ EditInv'
    BY <1>d, <1>e, <2>1, <2>2
  <2> QED
    BY <1>0, <1>c, <2>1, <2>2, <2>3, NoOutcome DEF ReopenInv
<1>7. CASE CleanReopened(e) \/ AbortReopen(e)
  <2>1. step'[e] = "idle" /\ UNCHANGED <<auction, bids, winners, undone>>
    BY <1>0, <1>7 DEF CleanReopened, AbortReopen
  <2>2. RoundInv' /\ EditInv'
    BY <1>b, <1>d, <1>e, <2>1
  <2> QED
    BY <1>0, <1>c, <2>1, <2>2, SameOutcome DEF ReopenInv
<1> QED
  BY <1>1, <1>2, <1>3, <1>4, <1>5, <1>6, <1>7 DEF ReopenStep

LEMMA InitReopen == ReopenInit => ReopenInv
<1> SUFFICES ASSUME ReopenInit PROVE ReopenInv
  OBVIOUS
<1>1. \A p \in Processes : pc[p] = "idle"
  BY DEF ReopenInit, Init
<1>2. RoundInv
  BY <1>1 DEF ReopenInit, Init, RoundInv, CloserSteps, ServeSteps, Processes
<1>3. MadeInv
  BY <1>1, NoneIsOne DEF ReopenInit, Init, MadeInv, SnapSteps
<1>4. JustifiedInv
  BY InitJustified DEF ReopenInit
<1> QED
  BY <1>2, <1>3, <1>4 DEF ReopenInv, ReopenInit, EditInv

LEMMA NextReopen ==
  ASSUME OneEditor, ReopenTypeOK, ReopenInv, [ReopenNext]_reopenVars
  PROVE  ReopenInv'
<1>1. CASE [Next]_vars /\ UNCHANGED editVars
  <2>1. undone' = undone /\ OneCloser /\ TypeOK
    BY <1>1 DEF editVars, OneEditor, ReopenTypeOK
  <2> QED
    BY <1>1, <2>1, AuctionRound, AuctionEdits, NextMade, NextJustified DEF ReopenInv
<1>2. CASE \E e \in Editors : ReopenStep(e)
  BY <1>2, EditRound
<1> QED
  BY <1>1, <1>2 DEF ReopenNext, reopenVars

LEMMA OneRound ==
  ASSUME OneEditor
  PROVE  ReopenSpec => [](ReopenTypeOK /\ ReopenInv)
<1>1. ReopenInit => ReopenTypeOK /\ ReopenInv
  BY InitReopenType, InitReopen
<1>2. (ReopenTypeOK /\ ReopenInv) /\ [ReopenNext]_reopenVars => (ReopenTypeOK /\ ReopenInv)'
  BY NextReopenType, NextReopen
<1> QED
  BY <1>1, <1>2, PTL DEF ReopenSpec

\* With one closure and one edit at a time a confirmed winner is kept: the row of
\* the auction and the winners table name the same bid, and it is in the bids
\* table, wherever a reopening is or stopped half-way, unless an update has
\* written back a row it read before the closure.
THEOREM WinnerIsKept ==
  ASSUME OneEditor
  PROVE  ReopenSpec => []ConfirmedIsKept
<1>1. ReopenTypeOK /\ ReopenInv => ConfirmedIsKept
  <2> SUFFICES ASSUME ReopenInv, ~undone
               PROVE  /\ auction.winner = winners
                      /\ \A w \in winners : \E i \in DOMAIN bids : bids[i] = w
    BY DEF ConfirmedIsKept
  <2>1. auction.winner = winners
    BY DEF ReopenInv, RoundInv
  <2>2. winners \subseteq ValidBids
    BY DEF ReopenInv, MadeInv, OneBid
  <2> QED
    BY <2>1, <2>2 DEF ValidBids
<1> QED
  BY <1>1, OneRound, PTL

\* ... and every round is won like the first: by a bid that was the lowest unique
\* one of its round when min_bid was reached, though the bids of the round before
\* are deleted under whatever was read of them.
THEOREM EveryRoundJustified ==
  ASSUME OneEditor
  PROVE  ReopenSpec => []NextRoundJustified
<1>1. ReopenTypeOK /\ ReopenInv => NextRoundJustified
  BY DEF ReopenInv, JustifiedInv, NextRoundJustified, WinnerJustified
<1> QED
  BY <1>1, OneRound, PTL

=============================================================================
