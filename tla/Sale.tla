-------------------------------- MODULE Sale --------------------------------
(***************************************************************************)
(* What an auction promises while one closure runs at a time: when its end *)
(* is over the bids are counted in one look, and the row it has at that    *)
(* moment, no older one, is extended, expires or is closed by what was     *)
(* counted, in the auctions and in the winners table at once.  Bids that   *)
(* come too late for the count change nothing, unless it found no bid.     *)
(***************************************************************************)
EXTENDS Naturals, Sequences

CONSTANTS Bid,         \* [user, amount] records
          PaidUsers,   \* users that may bid
          MinValidBid, \* the lowest amount that can win
          MinBid,      \* the number of bids it takes, 0 for any
          Duration,    \* the first end
          Extension    \* what an extension adds to the time it is made

VARIABLES auction, bids, winners, now,
          counted,  \* what was counted and is not acted upon yet: one count or none
          missed    \* a count found nothing and a bid won that came after it

Init ==
  /\ auction = [status |-> "ACTIVE", end_time |-> Duration, extensions |-> 0, winner |-> {}]
  /\ bids = <<>>
  /\ winners = {}
  /\ now = 0
  /\ counted = {}
  /\ missed = FALSE

Valid == {i \in DOMAIN bids : bids[i].amount >= MinValidBid}

\* The valid bids whose amount no other bid has.
Alone == {i \in Valid : \A j \in DOMAIN bids : bids[j].amount = bids[i].amount => j = i}

Lowest == {bids[i] : i \in {j \in Alone : \A k \in Alone : bids[j].amount <= bids[k].amount}}

Place(bid) ==
  /\ bid.user \in PaidUsers
  /\ bids' = Append(bids, bid)
  /\ UNCHANGED <<auction, winners, now, counted, missed>>

Pass ==
  /\ now' = now + 1
  /\ UNCHANGED <<auction, bids, winners, counted, missed>>

Count ==
  /\ counted = {}
  /\ auction.status = "ACTIVE" /\ auction.end_time < now
  /\ counted' = {[total |-> Len(bids), winners |-> Lowest]}
  /\ UNCHANGED <<auction, bids, winners, now, missed>>

\* Where no bid was found the index is asked, which may know of a later one.
Recount ==
  /\ \E count \in counted : count.total = 0
  /\ \E count \in counted' :
       /\ counted' = {count}
       /\ count \in [total: Nat, winners: {{}} \cup {{bids[i]} : i \in Valid}]
       /\ missed' = (missed \/ count.winners # {})
  /\ UNCHANGED <<auction, bids, winners, now>>

\* The closure fails, and begins again.
Drop ==
  /\ counted' = {}
  /\ UNCHANGED <<auction, bids, winners, now, missed>>

TooFew(count)    == 0 < count.total /\ count.total < MinBid
NoneAlone(count) == 0 < count.total /\ MinBid <= count.total /\ count.winners = {}

ExtendTooFew(count) ==
  /\ TooFew(count)
  /\ auction' = [auction EXCEPT !.end_time = now + Extension]
  /\ UNCHANGED winners

ExtendNoneAlone(count) ==
  /\ NoneAlone(count)
  /\ auction' = [auction EXCEPT !.end_time = now + Extension, !.extensions = @ + 1]
  /\ UNCHANGED winners

Expire(count) ==
  /\ count.total = 0
  /\ auction' = [auction EXCEPT !.status = "EXPIRED"]
  /\ UNCHANGED winners

Sell(count) ==
  /\ 0 < count.total /\ MinBid <= count.total /\ count.winners # {}
  /\ auction' = [auction EXCEPT !.status = "CLOSED", !.winner = count.winners]
  /\ winners' = count.winners

Act ==
  /\ \E count \in counted :
       ExtendTooFew(count) \/ ExtendNoneAlone(count) \/ Expire(count) \/ Sell(count)
  /\ counted' = {}
  /\ UNCHANGED <<bids, now, missed>>

Next ==
  \/ \E bid \in Bid : Place(bid)
  \/ Pass
  \/ Count \/ Recount \/ Drop
  \/ Act

Spec == Init /\ [][Next]_<<auction, bids, winners, now, counted, missed>>

=============================================================================
