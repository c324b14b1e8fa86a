------------------------------- MODULE Reopen -------------------------------
(***************************************************************************)
(* An auction that did not find a winner is put up again (reopenAuction    *)
(* and bulkReopenAuctions of auction-admin.service.ts) or is edited        *)
(* (updateAuction), beside everything that module Auction has.             *)
(* reopenAuction deletes the winners, deletes the bids and saves the row   *)
(* it read, one query after the other and in no transaction.  One call of  *)
(* bulkReopenAuctions reopens its auctions at once, each as here.          *)
(* updateAuction saves the row it read, whatever closed it meanwhile.      *)
(***************************************************************************)
EXTENDS Auction

CONSTANTS Editors   \* requests that execute reopenAuction or updateAuction

ASSUME EditorAssumption == Editors \cap Processes = {} /\ None \notin Editors

VARIABLES step,  \* where each of them is
          old,   \* the row of the auction it read
          undone \* history: an update wrote an old status or winner back

editVars   == <<step, old, undone>>
reopenVars == <<vars, editVars>>
others     == <<now, pc, local, fellBack>>
kept       == <<others, undone>>

ReopenInit ==
  /\ Init
  /\ step = [e \in Editors |-> "idle"]
  /\ old = [e \in Editors |-> None]
  /\ undone = FALSE

To(e, s) == step' = [step EXCEPT ![e] = s]

Finished(e) ==
  /\ To(e, "idle")
  /\ old' = [old EXCEPT ![e] = None]

\* Mutant of Reopenable: a winner does not matter.
ReopenableAlways(row) == row.status # "ACTIVE"

\* Not ACTIVE, and not closed with a winner.
Reopenable(row) ==
  /\ row.status # "ACTIVE"
  /\ ~(row.status = "CLOSED" /\ row.winner # {})

\* Mutant of ReadForReopen: the row is not held.
ReadNothing(e) ==
  /\ step[e] = "idle"
  /\ Reopenable(auction)
  /\ To(e, "winners")
  /\ UNCHANGED <<shared, kept, old, faults>>

ReadForReopen(e) ==
  /\ step[e] = "idle"
  /\ Reopenable(auction)
  /\ old' = [old EXCEPT ![e] = auction]
  /\ To(e, "winners")
  /\ UNCHANGED <<shared, kept, faults>>

DeleteWinners(e) ==
  /\ step[e] = "winners"
  /\ winners' = {}
  /\ To(e, "bids")
  /\ UNCHANGED <<auction, bids, index, lock, kept, old, faults>>

DeleteBids(e) ==
  /\ step[e] = "bids"
  /\ bids' = <<>>
  /\ To(e, "save")
  /\ UNCHANGED <<auction, winners, index, lock, kept, old, faults>>

\* The whole row: ACTIVE, a new end, no winner, no extensions.
SaveReopened(e) ==
  /\ step[e] = "save"
  /\ auction' = [old[e] EXCEPT !.status = "ACTIVE", !.end_time = now + Duration,
                               !.extensions = 0, !.winner = {}]
  /\ To(e, "clean")
  /\ UNCHANGED <<bids, winners, index, lock, kept, old, faults>>

\* cleanupAuctionKeys.
CleanReopened(e) ==
  /\ step[e] = "clean"
  /\ index' = EmptyIndex
  /\ lock' = None
  /\ Finished(e)
  /\ UNCHANGED <<auction, bids, winners, kept, faults>>

\* A query fails or the server dies, and what is done is done.
AbortReopen(e) ==
  /\ step[e] # "idle"
  /\ faults < MaxFaults
  /\ faults' = faults + 1
  /\ Finished(e)
  /\ UNCHANGED <<shared, kept>>

-----------------------------------------------------------------------------
(* updateAuction, of an auction that is open or not. *)

ReadForUpdate(e) ==
  /\ step[e] = "idle"
  /\ old' = [old EXCEPT ![e] = auction]
  /\ To(e, "update")
  /\ UNCHANGED <<shared, kept, faults>>

\* The whole row with a new end, if any, of an update that does not set the
\* status by hand.
SaveUpdated(e) ==
  /\ step[e] = "update"
  /\ \E end \in {old[e].end_time, now + Extension} :
       auction' = [old[e] EXCEPT !.end_time = end]
  /\ undone' = (undone \/ auction'.status # auction.status \/ auction'.winner # auction.winner)
  /\ Finished(e)
  /\ UNCHANGED <<bids, winners, index, lock, others, faults>>

-----------------------------------------------------------------------------

ReopenStep(e) ==
  \/ ReadForUpdate(e) \/ SaveUpdated(e)
  \/ ReadForReopen(e) \/ DeleteWinners(e) \/ DeleteBids(e) \/ SaveReopened(e)
  \/ CleanReopened(e) \/ AbortReopen(e)

ReopenNext ==
  \/ Next /\ UNCHANGED editVars
  \/ \E e \in Editors : ReopenStep(e)

ReopenSpec == ReopenInit /\ [][ReopenNext]_reopenVars

-----------------------------------------------------------------------------

\* The types of module Auction, and a reopening holds the row it read.
ReopenTypeOK ==
  /\ TypeOK
  /\ step \in [Editors -> {"idle", "winners", "bids", "save", "clean", "update"}]
  /\ old \in [Editors -> Row \cup {None}]
  /\ undone \in BOOLEAN
  /\ \A e \in Editors : step[e] # "idle" => old[e] \in Row

\* "Cannot reopen auction with a confirmed winning bidder": a winner in the row
\* of the auction is in the winners table, and the bid is in the bids table,
\* wherever a reopening stops half-way and whatever late bids and old keys of
\* Redis it leaves in the next round; while one process closes at a time, and
\* unless an update has undone a closure.
ConfirmedIsKept ==
  undone \/ auction.winner = {} \/
    /\ auction.winner = winners
    /\ \A w \in winners : \E i \in DOMAIN bids : bids[i] = w

\* A round that was opened again, or whose closure an update has undone, is won
\* like the first, by a bid that was the lowest unique one of the round when
\* min_bid was reached.
NextRoundJustified == WinnerJustified

=============================================================================
