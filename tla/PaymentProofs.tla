--------------------------- MODULE PaymentProofs ---------------------------
(***************************************************************************)
(* Theorems of the payments of an auction, for any users, links, requests, *)
(* runs of the crons, deadlines and failures.                              *)
(***************************************************************************)
EXTENDS Payment, FiniteSetTheorems, TLAPS

-----------------------------------------------------------------------------
(* Types. *)

\* What the process p holds at its place in the code.
Holds(p) ==
  /\ pc[p] \in TxnSteps => txn[p] \in Txn
  /\ pc[p] \in SnapSteps => snap[p] \in Row /\ snap[p].winner # None
  /\ pc[p] \in RefSteps \cup {"save"} => ref[p] \in Refs
  /\ pc[p] \in {"read", "stamp"} => txns[ref[p]] # None

LocalOK ==
  /\ pc \in [Processes -> Steps]
  /\ ref \in [Processes -> Refs \cup {None}]
  /\ txn \in [Processes -> Txn \cup {None}]
  /\ snap \in [Processes -> Row \cup {None}]
  /\ \A p \in Processes : Holds(p)

\* A CLOSED auction has a winner: a run that reads one holds a winner.
RowsOK ==
  /\ auction \in Row
  /\ auction.status = "CLOSED" => auction.winner # None
  /\ winners \in [Users -> WinnerRow \cup {None}]
  /\ txns \in [Refs -> Txn \cup {None}]
  /\ debits \in [Users -> [Types -> Nat]]

WorldOK ==
  /\ gateway \in [Refs -> Outcomes \cup {None, "OPEN"}]
  /\ events \subseteq Event
  /\ deducted \in [Users -> [Types -> Nat]]
  /\ confirmed \subseteq Users
  /\ now \in Nat
  /\ faults \in Nat

TypeInv == LocalOK /\ RowsOK /\ WorldOK

LEMMA TypeInvImplies == TypeInv => TypeOK
BY DEF TypeInv, LocalOK, RowsOK, WorldOK, Holds, TypeOK

LEMMA InitType == Init => TypeInv
<1> SUFFICES ASSUME Init PROVE TypeInv
  OBVIOUS
<1>1. auction \in Row /\ auction.status # "CLOSED"
  BY DEF Init, Row
<1>2. LocalOK
  BY DEF Init, LocalOK, Holds, Steps, TxnSteps, SnapSteps, RefSteps
<1>3. WorldOK
  BY DEF Init, WorldOK
<1> QED
  BY <1>1, <1>2, <1>3 DEF Init, RowsOK, TypeInv

\* A link keeps its row.
Kept == \A r \in Refs : txns[r] # None => txns'[r] # None

\* The process p moves to step and holds these values; the others stay.
LEMMA MoveType ==
  ASSUME LocalOK, Kept, NEW p \in Processes,
         NEW step \in Steps, NEW r \in Refs \cup {None},
         NEW t \in Txn \cup {None}, NEW row \in Row \cup {None},
         Goto(p, step), ref' = Hold(ref, p, r), txn' = Hold(txn, p, t),
         snap' = Hold(snap, p, row),
         step \in TxnSteps => t \in Txn,
         step \in SnapSteps => row \in Row /\ row.winner # None,
         step \in RefSteps \cup {"save"} => r \in Refs,
         step \in {"read", "stamp"} => txns'[r] # None
  PROVE  LocalOK'
<1>1. /\ pc' \in [Processes -> Steps]
      /\ ref' \in [Processes -> Refs \cup {None}]
      /\ txn' \in [Processes -> Txn \cup {None}]
      /\ snap' \in [Processes -> Row \cup {None}]
  BY DEF LocalOK, Goto, Hold
<1>2. pc'[p] = step /\ ref'[p] = r /\ txn'[p] = t /\ snap'[p] = row
  BY DEF LocalOK, Goto, Hold
<1>3. Holds(p)'
  BY <1>2 DEF Holds
<1>4. ASSUME NEW q \in Processes \ {p} PROVE Holds(q)'
  <2>1. pc'[q] = pc[q] /\ ref'[q] = ref[q] /\ txn'[q] = txn[q] /\ snap'[q] = snap[q]
    BY DEF LocalOK, Goto, Hold
  <2>2. Holds(q) /\ (pc[q] \in {"read", "stamp"} => ref[q] \in Refs)
    BY DEF LocalOK, Holds, RefSteps
  <2> QED
    BY <2>1, <2>2 DEF Holds, Kept
<1> QED
  BY <1>1, <1>3, <1>4 DEF LocalOK

LEMMA ReturnType ==
  ASSUME LocalOK, Kept, NEW p \in Processes, Return(p)
  PROVE  LocalOK'
BY MoveType DEF Return, Steps, TxnSteps, SnapSteps, RefSteps

\* The process p moves and holds what it held.
LEMMA GotoType ==
  ASSUME LocalOK, Kept, NEW p \in Processes, NEW step \in Steps, Goto(p, step),
         UNCHANGED local,
         step \in TxnSteps => txn[p] \in Txn,
         step \in SnapSteps => snap[p] \in Row /\ snap[p].winner # None,
         step \in RefSteps \cup {"save"} => ref[p] \in Refs,
         step \in {"read", "stamp"} => txns'[ref[p]] # None
  PROVE  LocalOK'
<1>1. ref[p] \in Refs \cup {None} /\ txn[p] \in Txn \cup {None} /\ snap[p] \in Row \cup {None}
  BY DEF LocalOK
<1>2. /\ ref' = Hold(ref, p, ref[p]) /\ txn' = Hold(txn, p, txn[p])
      /\ snap' = Hold(snap, p, snap[p])
  BY DEF LocalOK, Hold, local
<1> QED
  BY <1>1, <1>2, MoveType

LEMMA SameKept == UNCHANGED txns => Kept
BY DEF Kept

LEMMA RequestType ==
  ASSUME TypeInv, NEW p \in Processes, RequestStep(p) \/ \E r \in Refs : FindPending(p, r)
  PROVE  TypeInv'
<1> USE DEF rows, world, local
<1> USE SameKept
<1>1. ASSUME NEW u \in Users, NEW type \in Types, NEW status \in {"PENDING", "SUCCESSFUL"},
             Ask(p, u, type, status)
      PROVE  TypeInv'
  <2>1. [user |-> u, type |-> type, status |-> status] \in Txn
    BY DEF Txn, Outcomes
  <2>2. /\ ref' = Hold(ref, p, ref[p]) /\ ref[p] \in Refs \cup {None}
        /\ snap' = Hold(snap, p, snap[p]) /\ snap[p] \in Row \cup {None}
    BY <1>1 DEF Ask, TypeInv, LocalOK, Hold
  <2>3. LocalOK'
    BY <1>1, <2>1, <2>2, MoveType
    DEF Ask, TypeInv, Steps, TxnSteps, SnapSteps, RefSteps
  <2> QED
    BY <1>1, <2>3 DEF Ask, TypeInv, RowsOK, WorldOK
<1>2. CASE AskForLink(p) \/ AskForWallet(p)
  BY <1>1, <1>2 DEF AskForLink, AskForWallet, Types
<1>3. CASE ConfirmWinning(p)
  <2>1. [user |-> auction.winner, type |-> "WINNING_BID", status |-> "SUCCESSFUL"] \in Txn
    BY <1>3 DEF ConfirmWinning, Txn, Types, Outcomes, TypeInv, RowsOK, Row
  <2>2. /\ ref' = Hold(ref, p, ref[p]) /\ ref[p] \in Refs \cup {None}
        /\ snap' = Hold(snap, p, snap[p]) /\ snap[p] \in Row \cup {None}
    BY <1>3 DEF ConfirmWinning, TypeInv, LocalOK, Hold
  <2>3. LocalOK'
    BY <1>3, <2>1, <2>2, MoveType
    DEF ConfirmWinning, TypeInv, Steps, TxnSteps, SnapSteps, RefSteps
  <2> QED
    BY <1>3, <2>3 DEF ConfirmWinning, TypeInv, RowsOK, WorldOK
<1>4. CASE RotateOut(p)
  <2>1. LocalOK'
    BY <1>4, GotoType DEF RotateOut, TypeInv, Steps, TxnSteps, SnapSteps, RefSteps
  <2>2. winners' \in [Users -> WinnerRow \cup {None}]
    BY <1>4 DEF RotateOut, Unpaid, TypeInv, RowsOK, WinnerRow
  <2> QED
    BY <1>4, <2>1, <2>2 DEF RotateOut, TypeInv, RowsOK, WorldOK
<1>5. ASSUME NEW r \in Refs, NEW step \in {"succeed", "fail", "ask"}, ref' = Hold(ref, p, r),
             Goto(p, step), UNCHANGED <<rows, world, txn, snap, faults>>
      PROVE  TypeInv'
  <2>1. /\ txn' = Hold(txn, p, txn[p]) /\ txn[p] \in Txn \cup {None}
        /\ snap' = Hold(snap, p, snap[p]) /\ snap[p] \in Row \cup {None}
    BY <1>5 DEF TypeInv, LocalOK, Hold
  <2>2. LocalOK'
    BY <1>5, <2>1, MoveType DEF TypeInv, Steps, TxnSteps, SnapSteps, RefSteps
  <2> QED
    BY <1>5, <2>2 DEF TypeInv, RowsOK, WorldOK
<1>6. CASE DeliverWebhook(p)
  BY <1>5, <1>6 DEF DeliverWebhook, Event, TypeInv, WorldOK
<1>7. ASSUME NEW r \in Refs, FindPending(p, r) PROVE TypeInv'
  BY <1>5, <1>7 DEF FindPending
<1> QED
  BY <1>2, <1>3, <1>4, <1>6, <1>7 DEF RequestStep

LEMMA PayType ==
  ASSUME TypeInv, NEW p \in Processes, PayStep(p)
  PROVE  TypeInv'
<1> USE DEF rows, world, local
<1>1. CASE Reuse(p) \/ RefuseDeduction(p)
  BY <1>1, SameKept, ReturnType
  DEF Reuse, RefuseDeduction, TypeInv, RowsOK, WorldOK
<1>2. CASE PayAnew(p)
  <2>1. txn[p] \in Txn
    BY <1>2 DEF PayAnew, TypeInv, LocalOK, Holds, TxnSteps
  <2>2. LocalOK'
    BY <1>2, <2>1, SameKept, GotoType DEF PayAnew, TypeInv, Steps, TxnSteps, SnapSteps, RefSteps
  <2> QED
    BY <1>2, <2>2 DEF PayAnew, TypeInv, RowsOK, WorldOK
<1>3. CASE OpenLink(p)
  <2>1. PICK r \in Refs : gateway' = [gateway EXCEPT ![r] = "OPEN"] /\ ref' = Hold(ref, p, r)
    BY <1>3 DEF OpenLink
  <2>2. txn[p] \in Txn
    BY <1>3 DEF OpenLink, TypeInv, LocalOK, Holds, TxnSteps
  <2>3. /\ txn' = Hold(txn, p, txn[p])
        /\ snap' = Hold(snap, p, snap[p]) /\ snap[p] \in Row \cup {None}
    BY <1>3 DEF OpenLink, TypeInv, LocalOK, Hold
  <2>4. LocalOK'
    BY <1>3, <2>1, <2>2, <2>3, SameKept, MoveType
    DEF OpenLink, TypeInv, Steps, TxnSteps, SnapSteps, RefSteps
  <2> QED
    BY <1>3, <2>1, <2>4 DEF OpenLink, TypeInv, RowsOK, WorldOK
<1>4. CASE Deduct(p)
  <2>1. txn[p] \in Txn /\ txn[p].user \in Users /\ txn[p].type \in Types
    BY <1>4 DEF Deduct, TypeInv, LocalOK, Holds, TxnSteps, Txn
  <2>2. LocalOK'
    BY <1>4, <2>1, SameKept, GotoType DEF Deduct, TypeInv, Steps, TxnSteps, SnapSteps, RefSteps
  <2>3. deducted' \in [Users -> [Types -> Nat]]
    BY <1>4, <2>1 DEF Deduct, TypeInv, WorldOK
  <2> QED
    BY <1>4, <2>2, <2>3 DEF Deduct, TypeInv, RowsOK, WorldOK
<1>5. CASE SaveLink(p)
  <2>1. ref[p] \in Refs /\ txn[p] \in Txn
    BY <1>5 DEF SaveLink, TypeInv, LocalOK, Holds, TxnSteps
  <2>2. txns' \in [Refs -> Txn \cup {None}] /\ Kept
    <3>1. \A t \in Txn : t # None
      BY PaymentAssumption
    <3> QED
      BY <1>5, <2>1, <3>1 DEF SaveLink, TypeInv, RowsOK, Kept
  <2> QED
    BY <1>5, <2>2, ReturnType DEF SaveLink, TypeInv, RowsOK, WorldOK
<1>6. CASE SaveDebit(p)
  <2>1. txn[p] \in Txn /\ txn[p].user \in Users /\ txn[p].type \in Types
    BY <1>6 DEF SaveDebit, TypeInv, LocalOK, Holds, TxnSteps, Txn
  <2>2. LocalOK'
    <3>1. CASE txn[p].type = "WALLET"
      BY <1>6, <2>1, <3>1, SameKept, GotoType
      DEF SaveDebit, TypeInv, Steps, TxnSteps, SnapSteps, RefSteps
    <3>2. CASE txn[p].type # "WALLET"
      BY <1>6, <3>2, SameKept, ReturnType DEF SaveDebit, TypeInv
    <3> QED
      BY <3>1, <3>2
  <2>3. debits' \in [Users -> [Types -> Nat]]
    BY <1>6, <2>1 DEF SaveDebit, TypeInv, RowsOK
  <2> QED
    BY <1>6, <2>2, <2>3 DEF SaveDebit, TypeInv, RowsOK, WorldOK
<1>7. CASE AssignNext(p)
  <2>1. LocalOK'
    BY <1>7, SameKept, ReturnType DEF AssignNext, TypeInv
  <2>2. auction' \in Row /\ (auction'.status = "CLOSED" => auction'.winner # None)
    <3>1. CASE Unpaid = {}
      BY <1>7, <3>1 DEF AssignNext, TypeInv, RowsOK
    <3>2. CASE Unpaid # {}
      <4>1. PICK u \in Users : auction' = [auction EXCEPT !.winner = u]
        BY <1>7, <3>2 DEF AssignNext, Unpaid
      <4>2. u # None
        BY PaymentAssumption
      <4> QED
        BY <4>1, <4>2 DEF TypeInv, RowsOK, Row
    <3> QED
      BY <3>1, <3>2
  <2> QED
    BY <1>7, <2>1, <2>2 DEF AssignNext, TypeInv, RowsOK, WorldOK
<1> QED
  BY <1>1, <1>2, <1>3, <1>4, <1>5, <1>6, <1>7 DEF PayStep

LEMMA EnvironmentType ==
  ASSUME TypeInv,
         \/ \E r \in Refs : UserPays(r) \/ PaymentFails(r)
         \/ \E u \in Users : AdminConfirms(u) \/ AdminExtends(u)
         \/ CloseAuction \/ Tick \/ \E p \in Processes : Fail(p)
  PROVE  TypeInv'
<1> USE DEF rows, world, local
<1>0. UNCHANGED <<pc, ref, txn, snap>> /\ Kept => LocalOK'
  BY DEF TypeInv, LocalOK, Holds, Kept, RefSteps
<1>1. ASSUME NEW r \in Refs, UserPays(r) \/ PaymentFails(r) PROVE TypeInv'
  <2>1. PICK outcome \in Outcomes : Decide(r, outcome)
    BY <1>1 DEF UserPays, PaymentFails, Outcomes
  <2>2. gateway' \in [Refs -> Outcomes \cup {None, "OPEN"}] /\ events' \subseteq Event
    BY <2>1 DEF Decide, Event, TypeInv, WorldOK
  <2> QED
    BY <1>0, <2>1, <2>2, SameKept DEF Decide, TypeInv, RowsOK, WorldOK
<1>2. ASSUME NEW u \in Users, AdminConfirms(u) PROVE TypeInv'
  <2>1. winners' \in [Users -> WinnerRow \cup {None}] /\ confirmed' \subseteq Users
    BY <1>2 DEF AdminConfirms, TypeInv, RowsOK, WorldOK, WinnerRow
  <2> QED
    BY <1>0, <1>2, <2>1, SameKept DEF AdminConfirms, TypeInv, RowsOK, WorldOK
<1>3. ASSUME NEW u \in Users, AdminExtends(u) PROVE TypeInv'
  <2>1. now + Window \in Nat
    BY PaymentAssumption DEF TypeInv, WorldOK
  <2>2. winners' \in [Users -> WinnerRow \cup {None}]
    BY <1>3, <2>1 DEF AdminExtends, TypeInv, RowsOK, WinnerRow
  <2> QED
    BY <1>0, <1>3, <2>2, SameKept DEF AdminExtends, TypeInv, RowsOK, WorldOK
<1>4. CASE CloseAuction
  <2>1. PICK u \in Users, w \in Users :
          /\ auction' = [status |-> "CLOSED", payment |-> "PENDING", winner |-> u,
                         deadline |-> now + Window]
          /\ winners' = [winners EXCEPT ![w] = [status |-> "PENDING",
                                                deadline |-> now + Window]]
    BY <1>4 DEF CloseAuction
  <2>2. now + Window \in Nat /\ u # None
    BY PaymentAssumption DEF TypeInv, WorldOK
  <2>3. auction' \in Row /\ auction'.winner # None
    BY <2>1, <2>2 DEF Row
  <2>4. winners' \in [Users -> WinnerRow \cup {None}]
    BY <2>1, <2>2 DEF TypeInv, RowsOK, WinnerRow
  <2> QED
    BY <1>0, <1>4, <2>3, <2>4, SameKept DEF CloseAuction, TypeInv, RowsOK, WorldOK
<1>5. CASE Tick
  BY <1>0, <1>5, SameKept DEF Tick, TypeInv, RowsOK, WorldOK
<1>6. ASSUME NEW p \in Processes, Fail(p) PROVE TypeInv'
  BY <1>6, SameKept, ReturnType DEF Fail, TypeInv, RowsOK, WorldOK
<1> QED
  BY <1>1, <1>2, <1>3, <1>4, <1>5, <1>6

\* The row that the process p will install, with its next winner.
LEMMA AwardType ==
  ASSUME TypeInv, NEW p \in Processes, NEW u \in Users, Award(p, u), snap[p] \in Row,
         Goto(p, "promote"), UNCHANGED <<rows, world, ref, txn, faults>>
  PROVE  TypeInv'
<1> USE DEF rows, world, local
<1> DEFINE row == [snap[p] EXCEPT !.payment = "PENDING", !.winner = u, !.deadline = now + Window]
<1>1. now + Window \in Nat /\ u # None
  BY PaymentAssumption DEF TypeInv, WorldOK
<1>2. row \in Row /\ row.winner = u
  BY <1>1 DEF Row
<1>3. snap' = Hold(snap, p, row)
  BY DEF Award
<1>4. /\ ref' = Hold(ref, p, ref[p]) /\ ref[p] \in Refs \cup {None}
      /\ txn' = Hold(txn, p, txn[p]) /\ txn[p] \in Txn \cup {None}
  BY DEF TypeInv, LocalOK, Hold
<1> HIDE DEF row
<1>5. LocalOK'
  BY <1>1, <1>2, <1>3, <1>4, SameKept, MoveType
  DEF TypeInv, Steps, TxnSteps, SnapSteps, RefSteps
<1> QED
  BY <1>5 DEF TypeInv, RowsOK, WorldOK

LEMMA ExpireType ==
  ASSUME TypeInv, NEW p \in Processes, ExpireStep(p)
  PROVE  TypeInv'
<1> USE DEF rows, world, local
<1>0. ASSUME pc[p] \in {"lapse", "next", "void", "expire"}
      PROVE  snap[p] \in Row /\ snap[p].winner \in Users
  BY <1>0 DEF TypeInv, LocalOK, Holds, SnapSteps, Row
<1>1. CASE FindOverdue(p)
  <2>1. auction \in Row /\ auction.winner # None
    BY <1>1 DEF FindOverdue, IsOverdue, TypeInv, RowsOK
  <2>2. /\ ref' = Hold(ref, p, ref[p]) /\ ref[p] \in Refs \cup {None}
        /\ txn' = Hold(txn, p, txn[p]) /\ txn[p] \in Txn \cup {None}
    BY <1>1 DEF FindOverdue, TypeInv, LocalOK, Hold
  <2>3. LocalOK'
    BY <1>1, <2>1, <2>2, SameKept, MoveType
    DEF FindOverdue, TypeInv, Steps, TxnSteps, SnapSteps, RefSteps
  <2> QED
    BY <1>1, <2>3 DEF FindOverdue, TypeInv, RowsOK, WorldOK
<1>2. CASE ExpireWinner(p)
  <2>1. snap[p] \in Row /\ snap[p].winner \in Users /\ snap[p].winner # None
    BY <1>0, <1>2, PaymentAssumption DEF ExpireWinner
  <2>2. winners' \in [Users -> WinnerRow \cup {None}]
    BY <1>2, <2>1 DEF ExpireWinner, TypeInv, RowsOK, WinnerRow
  <2>3. LocalOK'
    BY <1>2, <2>1, SameKept, GotoType
    DEF ExpireWinner, TypeInv, Steps, TxnSteps, SnapSteps, RefSteps
  <2> QED
    BY <1>2, <2>2, <2>3 DEF ExpireWinner, TypeInv, RowsOK, WorldOK
<1>3. CASE AwardNext(p)
  BY <1>0, <1>3, AwardType DEF AwardNext, Unpaid
<1>4. CASE AwardNobody(p)
  <2>1. snap[p] \in Row /\ snap[p].winner # None
    BY <1>0, <1>4, PaymentAssumption DEF AwardNobody
  <2>2. LocalOK'
    BY <1>4, <2>1, SameKept, GotoType
    DEF AwardNobody, TypeInv, Steps, TxnSteps, SnapSteps, RefSteps
  <2> QED
    BY <1>4, <2>2 DEF AwardNobody, TypeInv, RowsOK, WorldOK
<1>5. CASE VoidUnpaid(p)
  <2>1. snap[p] \in Row /\ snap[p].winner # None
    BY <1>0, <1>5, PaymentAssumption DEF VoidUnpaid
  <2>2. winners' \in [Users -> WinnerRow \cup {None}]
    BY <1>5 DEF VoidUnpaid, Unpaid, TypeInv, RowsOK, WinnerRow
  <2>3. LocalOK'
    BY <1>5, <2>1, SameKept, GotoType
    DEF VoidUnpaid, TypeInv, Steps, TxnSteps, SnapSteps, RefSteps
  <2> QED
    BY <1>5, <2>2, <2>3 DEF VoidUnpaid, TypeInv, RowsOK, WorldOK
<1>6. CASE ExpireAuction(p)
  <2>1. snap[p] \in Row
    BY <1>0, <1>6 DEF ExpireAuction
  <2>2. auction' \in Row /\ auction'.status = "EXPIRED"
    BY <1>6, <2>1 DEF ExpireAuction, Row
  <2> QED
    BY <1>6, <2>2, SameKept, ReturnType DEF ExpireAuction, TypeInv, RowsOK, WorldOK
<1> QED
  BY <1>1, <1>2, <1>3, <1>4, <1>5, <1>6 DEF ExpireStep

\* Answers of the provider, and the rows that learn of them.
LearnStep(p) ==
  \/ Answered(p) \/ StillOpen(p) \/ RecordFailure(p)
  \/ RecordSuccess(p) \/ ReadTransaction(p) \/ StampTransaction(p)

LEMMA LearnType ==
  ASSUME TypeInv, NEW p \in Processes, LearnStep(p)
  PROVE  TypeInv'
<1> USE DEF rows, world, local
<1>0. pc[p] \in RefSteps /\ ref[p] \in Refs /\ txns[ref[p]] \in Txn \cup {None}
  BY DEF LearnStep, Answered, StillOpen, RecordFailure, RecordSuccess, ReadTransaction,
     StampTransaction, RefSteps, TypeInv, LocalOK, Holds, RowsOK
<1>1. CASE Answered(p)
  <2>1. LocalOK'
    BY <1>0, <1>1, SameKept, GotoType
    DEF Answered, TypeInv, Steps, TxnSteps, SnapSteps, RefSteps
  <2> QED
    BY <1>1, <2>1 DEF Answered, TypeInv, RowsOK, WorldOK
<1>2. CASE StillOpen(p)
  BY <1>2, SameKept, ReturnType DEF StillOpen, TypeInv, RowsOK, WorldOK
<1>3. ASSUME NEW status \in Outcomes, txns[ref[p]] # None,
             txns' = [txns EXCEPT ![ref[p]].status = status]
      PROVE  txns' \in [Refs -> Txn \cup {None}] /\ Kept /\ txns'[ref[p]] # None
  <2>1. [txns[ref[p]] EXCEPT !.status = status] \in Txn
    BY <1>0, <1>3 DEF Txn
  <2>2. [txns[ref[p]] EXCEPT !.status = status] # None
    BY <2>1, PaymentAssumption
  <2>3. txns' = [txns EXCEPT ![ref[p]] = [txns[ref[p]] EXCEPT !.status = status]]
    BY <1>0, <1>3 DEF TypeInv, RowsOK
  <2> HIDE DEF TypeInv
  <2> QED
    BY <1>0, <2>1, <2>2, <2>3 DEF TypeInv, RowsOK, Kept
<1>4. CASE RecordFailure(p)
  <2>1. txns' \in [Refs -> Txn \cup {None}] /\ Kept
    <3>1. CASE txns[ref[p]] = None
      BY <1>4, <3>1, SameKept DEF RecordFailure, TypeInv, RowsOK
    <3>2. CASE txns[ref[p]] # None
      BY <1>3, <1>4, <3>2 DEF RecordFailure, Outcomes
    <3> QED
      BY <3>1, <3>2
  <2> QED
    BY <1>4, <2>1, ReturnType DEF RecordFailure, TypeInv, RowsOK, WorldOK
<1>5. CASE RecordSuccess(p)
  <2>1. CASE Unsettled(ref[p])
    <3>1. txns' \in [Refs -> Txn \cup {None}] /\ Kept /\ txns'[ref[p]] # None
      BY <1>3, <1>5, <2>1 DEF RecordSuccess, Unsettled, Outcomes
    <3>2. LocalOK'
      BY <1>0, <1>5, <2>1, <3>1, GotoType
      DEF RecordSuccess, TypeInv, Steps, TxnSteps, SnapSteps, RefSteps
    <3> QED
      BY <1>5, <3>1, <3>2 DEF RecordSuccess, TypeInv, RowsOK, WorldOK
  <2>2. CASE ~Unsettled(ref[p])
    BY <1>5, <2>2, SameKept, ReturnType DEF RecordSuccess, TypeInv, RowsOK, WorldOK
  <2> QED
    BY <2>1, <2>2
<1>6. CASE ReadTransaction(p)
  <2>1. txns[ref[p]] \in Txn
    BY <1>0, <1>6 DEF ReadTransaction, TypeInv, LocalOK, Holds
  <2>2. /\ ref' = Hold(ref, p, ref[p])
        /\ snap' = Hold(snap, p, snap[p]) /\ snap[p] \in Row \cup {None}
    BY <1>6 DEF ReadTransaction, TypeInv, LocalOK, Hold
  <2>3. txns'[ref[p]] # None
    BY <1>6, <2>1, PaymentAssumption DEF ReadTransaction
  <2>4. LocalOK'
    BY <1>0, <1>6, <2>1, <2>2, <2>3, SameKept, MoveType
    DEF ReadTransaction, TypeInv, Steps, TxnSteps, SnapSteps, RefSteps
  <2> QED
    BY <1>6, <2>4 DEF ReadTransaction, TypeInv, RowsOK, WorldOK
<1>7. CASE StampTransaction(p)
  <2>1. txn[p] \in Txn /\ txn[p] # None
    BY <1>7, PaymentAssumption DEF StampTransaction, TypeInv, LocalOK, Holds, TxnSteps
  <2>2. txns' \in [Refs -> Txn \cup {None}] /\ Kept
    BY <1>0, <1>7, <2>1 DEF StampTransaction, TypeInv, RowsOK, Kept
  <2>3. LocalOK'
    <3>1. CASE txn[p].type \in Winning
      <4>1. /\ txn' = Hold(txn, p, txn[p])
            /\ snap' = Hold(snap, p, snap[p]) /\ snap[p] \in Row \cup {None}
        BY <1>7, <3>1 DEF StampTransaction, TypeInv, LocalOK, Hold
      <4> QED
        BY <1>7, <2>1, <2>2, <3>1, <4>1, MoveType
        DEF StampTransaction, TypeInv, Steps, TxnSteps, SnapSteps, RefSteps
    <3>2. CASE txn[p].type \notin Winning
      BY <1>7, <2>2, <3>2, ReturnType DEF StampTransaction, TypeInv
    <3> QED
      BY <3>1, <3>2
  <2> QED
    BY <1>7, <2>2, <2>3 DEF StampTransaction, TypeInv, RowsOK, WorldOK
<1> QED
  BY <1>1, <1>2, <1>4, <1>5, <1>6, <1>7 DEF LearnStep

\* markAsPaid.
MarkStep(p) ==
  \/ ReadAuction(p) \/ MarkWinner(p) \/ CountUnpaid(p) \/ SettleAuction(p)
  \/ PickNext(p) \/ PickNobody(p) \/ PromoteWinner(p) \/ InstallWinner(p)

LEMMA MarkType ==
  ASSUME TypeInv, NEW p \in Processes, MarkStep(p)
  PROVE  TypeInv'
<1> USE DEF rows, world, local
<1>0. /\ pc[p] \in SnapSteps => snap[p] \in Row /\ snap[p].winner # None
      /\ pc[p] \in TxnSteps => txn[p] \in Txn
  BY DEF TypeInv, LocalOK, Holds
<1>1. CASE ReadAuction(p)
  <2>1. CASE Due
    <3>1. auction \in Row /\ auction.winner # None /\ txn[p] \in Txn
      BY <1>0, <1>1, <2>1 DEF ReadAuction, Due, TxnSteps, TypeInv, RowsOK
    <3>2. /\ ref' = Hold(ref, p, ref[p]) /\ ref[p] \in Refs \cup {None}
          /\ txn' = Hold(txn, p, txn[p])
      BY <1>1, <2>1 DEF ReadAuction, TypeInv, LocalOK, Hold
    <3>3. LocalOK'
      BY <1>1, <2>1, <3>1, <3>2, SameKept, MoveType
      DEF ReadAuction, TypeInv, Steps, TxnSteps, SnapSteps, RefSteps
    <3> QED
      BY <1>1, <3>3 DEF ReadAuction, TypeInv, RowsOK, WorldOK
  <2>2. CASE ~Due
    BY <1>1, <2>2, SameKept, ReturnType DEF ReadAuction, TypeInv, RowsOK, WorldOK
  <2> QED
    BY <2>1, <2>2
<1>2. CASE MarkWinner(p)
  <2>1. txn[p] \in Txn /\ txn[p].user \in Users
    BY <1>0, <1>2 DEF MarkWinner, TxnSteps, Txn
  <2>2. winners' \in [Users -> WinnerRow \cup {None}]
    BY <1>2, <2>1 DEF MarkWinner, TypeInv, RowsOK, WinnerRow
  <2>3. LocalOK'
    BY <1>0, <1>2, SameKept, GotoType
    DEF MarkWinner, TypeInv, Steps, TxnSteps, SnapSteps, RefSteps
  <2> QED
    BY <1>2, <2>2, <2>3 DEF MarkWinner, TypeInv, RowsOK, WorldOK
<1>3. CASE CountUnpaid(p)
  <2>1. LocalOK'
    BY <1>0, <1>3, SameKept, GotoType
    DEF CountUnpaid, TypeInv, Steps, TxnSteps, SnapSteps, RefSteps
  <2> QED
    BY <1>3, <2>1 DEF CountUnpaid, TypeInv, RowsOK, WorldOK
<1>4. CASE SettleAuction(p)
  <2>1. snap[p] \in Row /\ snap[p].winner # None
    BY <1>0, <1>4 DEF SettleAuction, SnapSteps
  <2>2. auction' \in Row /\ auction'.winner # None
    BY <1>4, <2>1 DEF SettleAuction, Row
  <2> QED
    BY <1>4, <2>2, SameKept, ReturnType DEF SettleAuction, TypeInv, RowsOK, WorldOK
<1>5. CASE PickNext(p)
  BY <1>0, <1>5, AwardType DEF PickNext, Unpaid, SnapSteps
<1>6. CASE PickNobody(p)
  BY <1>6, SameKept, ReturnType DEF PickNobody, TypeInv, RowsOK, WorldOK
<1>7. CASE PromoteWinner(p)
  <2>1. snap[p] \in Row /\ snap[p].winner # None /\ snap[p].winner \in Users
        /\ snap[p].deadline \in Nat
    BY <1>0, <1>7 DEF PromoteWinner, SnapSteps, Row
  <2>2. winners' \in [Users -> WinnerRow \cup {None}]
    BY <1>7, <2>1 DEF PromoteWinner, TypeInv, RowsOK, WinnerRow
  <2>3. LocalOK'
    BY <1>7, <2>1, SameKept, GotoType
    DEF PromoteWinner, TypeInv, Steps, TxnSteps, SnapSteps, RefSteps
  <2> QED
    BY <1>7, <2>2, <2>3 DEF PromoteWinner, TypeInv, RowsOK, WorldOK
<1>8. CASE InstallWinner(p)
  <2>1. snap[p] \in Row /\ snap[p].winner # None
    BY <1>0, <1>8 DEF InstallWinner, SnapSteps
  <2> QED
    BY <1>8, <2>1, SameKept, ReturnType DEF InstallWinner, TypeInv, RowsOK, WorldOK
<1> QED
  BY <1>1, <1>2, <1>3, <1>4, <1>5, <1>6, <1>7, <1>8 DEF MarkStep

LEMMA NextType == TypeInv /\ [Next]_vars => TypeInv'
<1> SUFFICES ASSUME TypeInv, [Next]_vars PROVE TypeInv'
  OBVIOUS
<1>1. CASE UNCHANGED vars
  BY <1>1 DEF vars, TypeInv, LocalOK, Holds, RowsOK, WorldOK
<1>2. ASSUME NEW p \in Processes, SettleStep(p) PROVE TypeInv'
  BY <1>2, LearnType, MarkType DEF SettleStep, LearnStep, MarkStep
<1>3. CASE Next
  BY <1>2, <1>3, RequestType, PayType, ExpireType, EnvironmentType DEF Next, Processes
<1> QED
  BY <1>1, <1>3

(* Every row keeps its type, and a request, a webhook or a cron always has the
   transaction, the auction with its winner, or the reference that its place in
   the code works on: none of them follows a null. *)
THEOREM TypeCorrect == Spec => []TypeOK
<1>1. Spec => []TypeInv
  BY InitType, NextType, PTL DEF Spec
<1> QED
  BY <1>1, TypeInvImplies, PTL

-----------------------------------------------------------------------------
(* Transactions and links.  A provider that has taken the money says so for
   good, and whoever is about to record a success was told so by it. *)

\* What the process p holds of a link.
LinkHeld(p) ==
  /\ pc[p] \in {"succeed", "read", "stamp"} => gateway[ref[p]] = "SUCCESSFUL"
  /\ pc[p] \in {"link", "save"} => txn[p].status = "PENDING" /\ txn[p].type # "WALLET"
  /\ pc[p] = "reuse" /\ txn[p].status = "PENDING" => txn[p].type # "WALLET"
  /\ pc[p] = "save" => txns[ref[p]] = None /\ gateway[ref[p]] # None
  /\ pc[p] = "stamp" => /\ txn[p].user = txns[ref[p]].user
                        /\ txn[p].type = txns[ref[p]].type

\* A link is saved by one request.
OneSaves ==
  \A p, q \in Processes : pc[p] = "save" /\ pc[q] = "save" /\ ref[p] = ref[q] => p = q

LinkInv ==
  /\ \A r \in Refs : txns[r] # None =>
       /\ txns[r].status = "SUCCESSFUL" => gateway[r] = "SUCCESSFUL"
       /\ txns[r].type # "WALLET"
  /\ \A e \in events : e.outcome = "SUCCESSFUL" => gateway[e.ref] = "SUCCESSFUL"
  /\ \A p \in Processes : LinkHeld(p)
  /\ OneSaves

LEMMA InitLinks == Init => LinkInv
BY DEF Init, LinkInv, LinkHeld, OneSaves

\* Only p moves.
OthersStay(p) ==
  \A q \in Processes \ {p} :
    pc'[q] = pc[q] /\ ref'[q] = ref[q] /\ txn'[q] = txn[q] /\ snap'[q] = snap[q]

LEMMA StepIsLocal ==
  ASSUME TypeInv, NEW p \in Processes,
         \/ RequestStep(p) \/ (\E r \in Refs : FindPending(p, r))
         \/ PayStep(p) \/ ExpireStep(p) \/ SettleStep(p) \/ Fail(p)
  PROVE  OthersStay(p)
<1>1. Return(p) => OthersStay(p)
  BY DEF Return, Goto, Hold, OthersStay, TypeInv, LocalOK
<1>2. ASSUME NEW step, Goto(p, step), UNCHANGED local PROVE OthersStay(p)
  BY <1>2 DEF Goto, local, OthersStay, TypeInv, LocalOK
<1>3. ASSUME NEW step, NEW r, Goto(p, step), ref' = Hold(ref, p, r), UNCHANGED <<txn, snap>>
      PROVE  OthersStay(p)
  BY <1>3 DEF Goto, Hold, OthersStay, TypeInv, LocalOK
<1>4. ASSUME NEW step, NEW t, Goto(p, step), txn' = Hold(txn, p, t), UNCHANGED <<ref, snap>>
      PROVE  OthersStay(p)
  BY <1>4 DEF Goto, Hold, OthersStay, TypeInv, LocalOK
<1>5. ASSUME NEW step, NEW row, Goto(p, step), snap' = Hold(snap, p, row),
             UNCHANGED <<ref, txn>>
      PROVE  OthersStay(p)
  BY <1>5 DEF Goto, Hold, OthersStay, TypeInv, LocalOK
<1>6. CASE RequestStep(p) \/ \E r \in Refs : FindPending(p, r)
  BY <1>2, <1>3, <1>4, <1>6
  DEF RequestStep, AskForLink, AskForWallet, Ask, ConfirmWinning, RotateOut, DeliverWebhook,
      FindPending
<1>7. CASE PayStep(p)
  BY <1>1, <1>2, <1>3, <1>7
  DEF PayStep, Reuse, PayAnew, OpenLink, Deduct, RefuseDeduction, SaveLink, SaveDebit,
      AssignNext
<1>8. CASE ExpireStep(p)
  BY <1>2, <1>1, <1>5, <1>8
  DEF ExpireStep, FindOverdue, ExpireWinner, AwardNext, AwardNobody, VoidUnpaid,
      ExpireAuction, Award
<1>9. CASE LearnStep(p)
  BY <1>1, <1>2, <1>3, <1>4, <1>9
  DEF LearnStep, Answered, StillOpen, RecordFailure, RecordSuccess, ReadTransaction,
      StampTransaction
<1>10. CASE MarkStep(p)
  BY <1>1, <1>2, <1>5, <1>10
  DEF MarkStep, ReadAuction, MarkWinner, CountUnpaid, SettleAuction, PickNext, PickNobody,
      PromoteWinner, InstallWinner, Award
<1>11. CASE Fail(p)
  BY <1>1, <1>11 DEF Fail
<1> QED
  BY <1>6, <1>7, <1>8, <1>9, <1>10, <1>11 DEF SettleStep, LearnStep, MarkStep

LinkSteps == {"reuse", "link", "save", "ask", "succeed", "fail", "read", "stamp"}

\* A step that has to do with no link.
LEMMA QuietLinks ==
  ASSUME LinkInv, NEW p \in Processes, OthersStay(p), UNCHANGED <<txns, gateway, events>>,
         pc'[p] \notin LinkSteps
  PROVE  LinkInv'
BY DEF LinkInv, LinkHeld, OneSaves, OthersStay, LinkSteps

\* What no step of the code or of the provider takes back.
Steady ==
  /\ \A r \in Refs : gateway[r] = "SUCCESSFUL" => gateway'[r] = "SUCCESSFUL"
  /\ \A r \in Refs : gateway[r] # None => gateway'[r] # None
  /\ \A r \in Refs : txns[r] # None => /\ txns'[r].user = txns[r].user
                                       /\ txns'[r].type = txns[r].type

LEMMA OthersLinks ==
  ASSUME TypeInv, LinkInv, Steady, NEW p \in Processes, OthersStay(p),
         \A q \in Processes \ {p} : pc[q] = "save" => txns'[ref[q]] = None
  PROVE  \A q \in Processes \ {p} : LinkHeld(q)'
<1> TAKE q \in Processes \ {p}
<1>1. /\ LinkHeld(q)
      /\ pc[q] \in {"succeed", "read", "stamp", "save"} => ref[q] \in Refs
      /\ pc[q] = "stamp" => txns[ref[q]] # None
  BY DEF LinkInv, TypeInv, LocalOK, Holds, RefSteps
<1> QED
  BY <1>1 DEF LinkHeld, OthersStay, Steady

LEMMA RequestLinks ==
  ASSUME TypeInv, LinkInv, NEW p \in Processes,
         RequestStep(p) \/ \E r \in Refs : FindPending(p, r)
  PROVE  LinkInv'
<1> USE DEF rows, world, local
<1>0. OthersStay(p)
  BY StepIsLocal
<1>1. CASE AskForLink(p) \/ AskForWallet(p)
  <2>1. PICK u \in Users, type \in Types, status \in {"PENDING", "SUCCESSFUL"} :
          /\ Ask(p, u, type, status)
          /\ status = "PENDING" => type # "WALLET"
    BY <1>1 DEF AskForLink, AskForWallet, Types
  <2>2. pc'[p] = "reuse" /\ txn'[p].status = status /\ txn'[p].type = type
    BY <2>1 DEF Ask, Goto, Hold, TypeInv, LocalOK
  <2>3. LinkHeld(p)'
    BY <2>1, <2>2 DEF LinkHeld
  <2>4. \A q \in Processes \ {p} : LinkHeld(q)'
    BY <1>0, <2>1, OthersLinks DEF Ask, Steady, LinkInv, LinkHeld
  <2> QED
    BY <1>0, <2>1, <2>2, <2>3, <2>4 DEF Ask, LinkInv, OneSaves, OthersStay
<1>2. CASE ConfirmWinning(p) \/ RotateOut(p)
  BY <1>0, <1>2, QuietLinks DEF ConfirmWinning, RotateOut, Goto, LinkSteps, TypeInv, LocalOK
<1>3. ASSUME NEW r \in Refs, NEW step \in {"succeed", "fail", "ask"}, ref' = Hold(ref, p, r),
             Goto(p, step), step = "succeed" => gateway[r] = "SUCCESSFUL",
             UNCHANGED <<rows, world, txn, snap, faults>>
      PROVE  LinkInv'
  <2>1. pc'[p] = step /\ ref'[p] = r
    BY <1>3 DEF Goto, Hold, TypeInv, LocalOK
  <2>2. LinkHeld(p)'
    BY <1>3, <2>1 DEF LinkHeld
  <2>3. \A q \in Processes \ {p} : LinkHeld(q)'
    BY <1>0, <1>3, OthersLinks DEF Steady, LinkInv, LinkHeld
  <2> QED
    BY <1>0, <1>3, <2>1, <2>2, <2>3 DEF LinkInv, OneSaves, OthersStay
<1>4. CASE DeliverWebhook(p)
  <2>1. PICK e \in events : /\ ref' = Hold(ref, p, e.ref)
                            /\ Goto(p, IF e.outcome = "SUCCESSFUL" THEN "succeed" ELSE "fail")
    BY <1>4 DEF DeliverWebhook
  <2>2. e.ref \in Refs /\ (e.outcome = "SUCCESSFUL" => gateway[e.ref] = "SUCCESSFUL")
    BY DEF Event, LinkInv, TypeInv, WorldOK
  <2> QED
    BY <1>3, <1>4, <2>1, <2>2 DEF DeliverWebhook
<1>5. ASSUME NEW r \in Refs, FindPending(p, r) PROVE LinkInv'
  BY <1>3, <1>5 DEF FindPending
<1> QED
  BY <1>1, <1>2, <1>4, <1>5 DEF RequestStep

LEMMA PayLinks ==
  ASSUME TypeInv, LinkInv, NEW p \in Processes, PayStep(p)
  PROVE  LinkInv'
<1> USE DEF rows, world, local
<1>0. OthersStay(p)
  BY StepIsLocal
<1>1. CASE Reuse(p) \/ RefuseDeduction(p) \/ Deduct(p) \/ SaveDebit(p) \/ AssignNext(p)
  <2>1. pc'[p] \in {"idle", "debited", "mark"}
    BY <1>1 DEF Reuse, RefuseDeduction, Deduct, SaveDebit, AssignNext, Return, Goto, TypeInv, LocalOK
  <2>2. UNCHANGED <<txns, gateway, events>>
    BY <1>1 DEF Reuse, RefuseDeduction, Deduct, SaveDebit, AssignNext
  <2> QED
    BY <1>0, <2>1, <2>2, QuietLinks DEF LinkSteps
<1>2. CASE PayAnew(p)
  <2>1. pc'[p] = (IF txn[p].status = "PENDING" THEN "link" ELSE "wallet") /\ txn' = txn
    BY <1>2 DEF PayAnew, Goto, TypeInv, LocalOK
  <2>2. LinkHeld(p)'
    BY <1>2, <2>1 DEF PayAnew, LinkHeld, LinkInv
  <2>3. \A q \in Processes \ {p} : LinkHeld(q)'
    BY <1>0, <1>2, OthersLinks DEF PayAnew, Steady, LinkInv, LinkHeld
  <2> QED
    BY <1>0, <1>2, <2>1, <2>2, <2>3 DEF PayAnew, LinkInv, OneSaves, OthersStay
<1>3. CASE OpenLink(p)
  <2>1. PICK r \in Refs : /\ Fresh(r)
                          /\ gateway' = [gateway EXCEPT ![r] = "OPEN"]
                          /\ ref' = Hold(ref, p, r)
    BY <1>3 DEF OpenLink
  <2>2. pc'[p] = "save" /\ ref'[p] = r /\ txn' = txn /\ gateway'[r] = "OPEN"
    BY <1>3, <2>1 DEF OpenLink, Goto, Hold, TypeInv, LocalOK, WorldOK
  <2>3. Steady
    <3>1. \A s \in Refs \ {r} : gateway'[s] = gateway[s]
      BY <2>1 DEF TypeInv, WorldOK
    <3>2. gateway[r] = None
      BY <2>1 DEF Fresh
    <3> QED
      BY <1>3, <2>2, <3>1, <3>2, PaymentAssumption DEF OpenLink, Steady
  <2>4. LinkHeld(p)'
    BY <1>3, <2>1, <2>2, PaymentAssumption DEF OpenLink, Fresh, LinkHeld, LinkInv
  <2>5. \A q \in Processes \ {p} : LinkHeld(q)'
    BY <1>0, <1>3, <2>3, OthersLinks DEF OpenLink, LinkInv, LinkHeld
  <2>6. OneSaves'
    BY <1>0, <2>1, <2>2 DEF Fresh, LinkInv, OneSaves, OthersStay
  <2> QED
    BY <1>3, <2>3, <2>4, <2>5, <2>6 DEF OpenLink, Steady, LinkInv, Event, TypeInv, WorldOK
<1>4. CASE SaveLink(p)
  <2>1. /\ ref[p] \in Refs /\ txn[p] \in Txn /\ txns[ref[p]] = None
        /\ txn[p].status = "PENDING" /\ txn[p].type # "WALLET"
    BY <1>4 DEF SaveLink, TypeInv, LocalOK, Holds, TxnSteps, LinkInv, LinkHeld
  <2>2. pc'[p] = "idle"
    BY <1>4 DEF SaveLink, Return, Goto, TypeInv, LocalOK
  <2>3. txns'[ref[p]] = txn[p] /\ \A r \in Refs \ {ref[p]} : txns'[r] = txns[r]
    BY <1>4, <2>1 DEF SaveLink, TypeInv, RowsOK
  <2>4. Steady
    BY <1>4, <2>1, <2>3 DEF SaveLink, Steady
  <2>5. \A q \in Processes \ {p} : pc[q] = "save" => txns'[ref[q]] = None
    <3> TAKE q \in Processes \ {p}
    <3> HAVE pc[q] = "save"
    <3>1. ref[q] # ref[p] /\ ref[q] \in Refs
      BY <1>4 DEF SaveLink, LinkInv, OneSaves, TypeInv, LocalOK, Holds
    <3> QED
      BY <2>3, <3>1 DEF LinkInv, LinkHeld
  <2>6. \A q \in Processes \ {p} : LinkHeld(q)'
    BY <1>0, <2>4, <2>5, OthersLinks
  <2>7. LinkHeld(p)'
    BY <2>2 DEF LinkHeld
  <2>8. \A r \in Refs : txns'[r] # None =>
          /\ txns'[r].status = "SUCCESSFUL" => gateway'[r] = "SUCCESSFUL"
          /\ txns'[r].type # "WALLET"
    BY <1>4, <2>1, <2>3 DEF SaveLink, LinkInv
  <2> QED
    BY <1>0, <1>4, <2>2, <2>6, <2>7, <2>8 DEF SaveLink, LinkInv, OneSaves, OthersStay
<1> QED
  BY <1>1, <1>2, <1>3, <1>4 DEF PayStep

LEMMA QuietStepLinks ==
  ASSUME TypeInv, LinkInv, NEW p \in Processes, ExpireStep(p) \/ MarkStep(p) \/ Fail(p)
  PROVE  LinkInv'
<1>1. OthersStay(p)
  BY StepIsLocal DEF MarkStep, SettleStep
<1>2. CASE ExpireStep(p)
  <2>1. UNCHANGED <<txns, gateway, events>> /\ pc'[p] \notin LinkSteps
    BY <1>2 DEF ExpireStep, FindOverdue, ExpireWinner, AwardNext, AwardNobody, VoidUnpaid,
       ExpireAuction, Return, Goto, LinkSteps, TypeInv, LocalOK, rows, world
  <2> QED
    BY <1>1, <2>1, QuietLinks
<1>3. CASE MarkStep(p)
  <2>1. UNCHANGED <<txns, gateway, events>> /\ pc'[p] \notin LinkSteps
    BY <1>3 DEF MarkStep, ReadAuction, MarkWinner, CountUnpaid, SettleAuction, PickNext,
       PickNobody, PromoteWinner, InstallWinner, Return, Goto, LinkSteps, TypeInv, LocalOK,
       rows, world
  <2> QED
    BY <1>1, <2>1, QuietLinks
<1>4. CASE Fail(p)
  <2>1. UNCHANGED <<txns, gateway, events>> /\ pc'[p] \notin LinkSteps
    BY <1>4 DEF Fail, Return, Goto, LinkSteps, TypeInv, LocalOK, rows, world
  <2> QED
    BY <1>1, <2>1, QuietLinks
<1> QED
  BY <1>2, <1>3, <1>4

LEMMA LearnLinks ==
  ASSUME TypeInv, LinkInv, NEW p \in Processes, LearnStep(p)
  PROVE  LinkInv'
<1> USE DEF rows, world, local
<1>0. OthersStay(p)
  BY StepIsLocal DEF LearnStep, SettleStep
<1>1. pc[p] \in RefSteps /\ ref[p] \in Refs /\ txns[ref[p]] \in Txn \cup {None}
  BY DEF LearnStep, Answered, StillOpen, RecordFailure, RecordSuccess, ReadTransaction,
     StampTransaction, RefSteps, TypeInv, LocalOK, Holds, RowsOK
<1>2. UNCHANGED <<gateway, events>> /\ pc'[p] # "save"
  BY DEF LearnStep, Answered, StillOpen, RecordFailure, RecordSuccess, ReadTransaction,
     StampTransaction, Return, Goto, TypeInv, LocalOK
<1> DEFINE Rows == \A r \in Refs : txns'[r] # None =>
                     /\ txns'[r].status = "SUCCESSFUL" => gateway'[r] = "SUCCESSFUL"
                     /\ txns'[r].type # "WALLET"
           NoNew == \A r \in Refs : txns[r] = None => txns'[r] = None
<1>3. ASSUME Rows, Steady, NoNew, LinkHeld(p)' PROVE LinkInv'
  <2>1. \A q \in Processes \ {p} : pc[q] = "save" => txns'[ref[q]] = None
    BY <1>3 DEF LinkInv, LinkHeld, TypeInv, LocalOK, Holds
  <2>2. \A q \in Processes \ {p} : LinkHeld(q)'
    BY <1>0, <1>3, <2>1, OthersLinks
  <2> QED
    BY <1>0, <1>2, <1>3, <2>2 DEF LinkInv, OneSaves, OthersStay
<1>4. UNCHANGED <<txns, gateway>> => Rows /\ Steady /\ NoNew
  BY DEF LinkInv, Steady
<1>5. ASSUME NEW status \in Outcomes, txns[ref[p]] # None,
             txns' = [txns EXCEPT ![ref[p]].status = status],
             status = "SUCCESSFUL" => gateway[ref[p]] = "SUCCESSFUL"
      PROVE  Rows /\ Steady /\ NoNew
  <2>1. \A r \in Refs \ {ref[p]} : txns'[r] = txns[r]
    BY <1>5 DEF TypeInv, RowsOK
  <2>2. /\ txns'[ref[p]].status = status
        /\ txns'[ref[p]].user = txns[ref[p]].user
        /\ txns'[ref[p]].type = txns[ref[p]].type
    <3>1. txns[ref[p]] \in Txn
      BY <1>1, <1>5
    <3>2. txns'[ref[p]] = [txns[ref[p]] EXCEPT !.status = status]
      BY <1>1, <1>5 DEF TypeInv, RowsOK
    <3> QED
      BY <3>1, <3>2 DEF Txn
  <2> QED
    BY <1>1, <1>2, <1>5, <2>1, <2>2 DEF LinkInv, Steady
<1> HIDE DEF Rows, NoNew
<1>6. CASE Answered(p) \/ StillOpen(p)
  <2>1. LinkHeld(p)'
    BY <1>1, <1>6 DEF Answered, StillOpen, Return, Goto, LinkHeld, TypeInv, LocalOK
  <2> QED
    BY <1>3, <1>4, <1>6, <2>1 DEF Answered, StillOpen
<1>7. CASE RecordFailure(p)
  <2>1. LinkHeld(p)'
    BY <1>7 DEF RecordFailure, Return, Goto, LinkHeld, TypeInv, LocalOK
  <2>2. CASE txns[ref[p]] = None
    BY <1>3, <1>4, <1>7, <2>1, <2>2 DEF RecordFailure
  <2>3. CASE txns[ref[p]] # None
    <3>1. Rows /\ Steady /\ NoNew
      BY <1>5, <1>7, <2>3 DEF RecordFailure, Outcomes
    <3> QED
      BY <1>3, <2>1, <3>1
  <2> QED
    BY <2>2, <2>3
<1>8. CASE RecordSuccess(p)
  <2>1. CASE Unsettled(ref[p])
    <3>1. gateway[ref[p]] = "SUCCESSFUL"
      BY <1>8 DEF RecordSuccess, LinkInv, LinkHeld
    <3>2. Rows /\ Steady /\ NoNew
      BY <1>5, <1>8, <2>1, <3>1 DEF RecordSuccess, Unsettled, Outcomes
    <3>3. LinkHeld(p)'
      BY <1>8, <2>1, <3>1 DEF RecordSuccess, Goto, LinkHeld, TypeInv, LocalOK
    <3> QED
      BY <1>3, <3>2, <3>3
  <2>2. CASE ~Unsettled(ref[p])
    <3>1. LinkHeld(p)'
      BY <1>8, <2>2 DEF RecordSuccess, Return, Goto, LinkHeld, TypeInv, LocalOK
    <3> QED
      BY <1>3, <1>4, <1>8, <2>2, <3>1 DEF RecordSuccess
  <2> QED
    BY <2>1, <2>2
<1>9. CASE ReadTransaction(p)
  <2>1. txn'[p] = txns[ref[p]] /\ pc'[p] = "stamp" /\ ref' = ref
    BY <1>9 DEF ReadTransaction, Hold, Goto, TypeInv, LocalOK
  <2>2. LinkHeld(p)'
    BY <1>9, <2>1 DEF ReadTransaction, LinkInv, LinkHeld
  <2> QED
    BY <1>3, <1>4, <1>9, <2>2 DEF ReadTransaction
<1>10. CASE StampTransaction(p)
  <2>1. /\ gateway[ref[p]] = "SUCCESSFUL" /\ txns[ref[p]] # None
        /\ txn[p].user = txns[ref[p]].user /\ txn[p].type = txns[ref[p]].type
    BY <1>10 DEF StampTransaction, LinkInv, LinkHeld, TypeInv, LocalOK, Holds
  <2>2. txns'[ref[p]] = txn[p] /\ \A r \in Refs \ {ref[p]} : txns'[r] = txns[r]
    BY <1>1, <1>10 DEF StampTransaction, TypeInv, RowsOK
  <2>3. Rows /\ Steady /\ NoNew
    BY <1>1, <1>2, <2>1, <2>2 DEF Rows, NoNew, LinkInv, Steady
  <2>4. LinkHeld(p)'
    BY <1>10 DEF StampTransaction, Return, Goto, LinkHeld, TypeInv, LocalOK
  <2> QED
    BY <1>3, <2>3, <2>4
<1> QED
  BY <1>6, <1>7, <1>8, <1>9, <1>10 DEF LearnStep

LEMMA EnvironmentLinks ==
  ASSUME TypeInv, LinkInv,
         \/ \E r \in Refs : UserPays(r) \/ PaymentFails(r)
         \/ \E u \in Users : AdminConfirms(u) \/ AdminExtends(u)
         \/ CloseAuction \/ Tick
  PROVE  LinkInv'
<1> USE DEF rows, world, local
<1>1. ASSUME NEW r \in Refs, UserPays(r) \/ PaymentFails(r) PROVE LinkInv'
  <2>1. PICK outcome \in Outcomes : Decide(r, outcome) /\ gateway[r] \in {"OPEN", "FAILED"}
    BY <1>1 DEF UserPays, PaymentFails, Outcomes
  <2>2. gateway'[r] = outcome /\ \A s \in Refs \ {r} : gateway'[s] = gateway[s]
    BY <2>1 DEF Decide, TypeInv, WorldOK
  <2>3. gateway'[r] # None
    BY <2>2, PaymentAssumption DEF Outcomes
  <2>4. \A s \in Refs : /\ gateway[s] = "SUCCESSFUL" => gateway'[s] = "SUCCESSFUL"
                        /\ gateway[s] # None => gateway'[s] # None
    BY <2>1, <2>2, <2>3
  <2>5. \A p \in Processes : LinkHeld(p)'
    <3> TAKE p \in Processes
    <3>1. LinkHeld(p) /\ (pc[p] \in {"succeed", "read", "stamp", "save"} => ref[p] \in Refs)
      BY DEF LinkInv, TypeInv, LocalOK, Holds, RefSteps
    <3> QED
      BY <2>1, <2>4, <3>1 DEF Decide, LinkHeld
  <2>6. \A e \in events' : e.outcome = "SUCCESSFUL" => gateway'[e.ref] = "SUCCESSFUL"
    <3>1. \A e \in events : e.ref \in Refs
      BY DEF TypeInv, WorldOK, Event
    <3> QED
      BY <2>1, <2>2, <2>4, <3>1 DEF Decide, LinkInv
  <2> QED
    BY <2>1, <2>4, <2>5, <2>6 DEF Decide, LinkInv, OneSaves
<1>2. CASE \/ \E u \in Users : AdminConfirms(u) \/ AdminExtends(u)
           \/ CloseAuction \/ Tick
  <2>1. UNCHANGED <<txns, gateway, events, pc, ref, txn>>
    BY <1>2 DEF AdminConfirms, AdminExtends, CloseAuction, Tick
  <2> QED
    BY <2>1 DEF LinkInv, LinkHeld, OneSaves
<1> QED
  BY <1>1, <1>2

LEMMA NextLinks == TypeInv /\ LinkInv /\ [Next]_vars => LinkInv'
<1> SUFFICES ASSUME TypeInv, LinkInv, [Next]_vars PROVE LinkInv'
  OBVIOUS
<1>1. CASE UNCHANGED vars
  BY <1>1 DEF vars, LinkInv, LinkHeld, OneSaves
<1>2. ASSUME NEW p \in Processes, SettleStep(p) PROVE LinkInv'
  BY <1>2, LearnLinks, QuietStepLinks DEF SettleStep, LearnStep, MarkStep
<1>3. CASE Next
  BY <1>2, <1>3, RequestLinks, PayLinks, QuietStepLinks, EnvironmentLinks DEF Next, Processes
<1> QED
  BY <1>1, <1>3

-----------------------------------------------------------------------------
(* Payments from the wallet.  A deduction is one that has been recorded, one
   that its request is about to record, or one whose request failed. *)

Debited(u, type) ==
  {p \in Requests : pc[p] = "debited" /\ txn[p].user = u /\ txn[p].type = type}

AboutToDebit(u, type) ==
  {p \in Requests : pc[p] = "wallet" /\ txn[p].user = u /\ txn[p].type = type}

\* Requests that found no payment may all debit, those that come later do not.
Spent(u, type) ==
  /\ debits[u][type] + Cardinality(Debited(u, type)) <= deducted[u][type]
  /\ debits[u][type] = 0 => deducted[u][type] <= faults + Cardinality(Debited(u, type))
  /\ debits[u][type] > 0 =>
       deducted[u][type] + Cardinality(AboutToDebit(u, type)) <= Cardinality(Requests) + faults

MoneyInv ==
  /\ \A u \in Users, type \in Types : Spent(u, type)
  /\ \A p \in Processes : pc[p] = "reuse" => txn[p].status # "FAILED"

LEMMA Counts ==
  ASSUME NEW u, NEW type
  PROVE  /\ IsFiniteSet(Debited(u, type)) /\ IsFiniteSet(AboutToDebit(u, type))
         /\ IsFiniteSet(Debited(u, type)') /\ IsFiniteSet(AboutToDebit(u, type)')
         /\ Cardinality(Debited(u, type)) \in Nat
         /\ Cardinality(AboutToDebit(u, type)) \in Nat
         /\ Cardinality(Debited(u, type)') \in Nat
         /\ Cardinality(AboutToDebit(u, type)') \in Nat
         /\ Cardinality(Requests) \in Nat
         /\ Cardinality(Debited(u, type)) + Cardinality(AboutToDebit(u, type))
              <= Cardinality(Requests)
<1> DEFINE D == Debited(u, type)
           A == AboutToDebit(u, type)
<1>1. /\ D \subseteq Requests /\ A \subseteq Requests /\ D \cap A = {}
      /\ Debited(u, type)' \subseteq Requests /\ AboutToDebit(u, type)' \subseteq Requests
  BY DEF Debited, AboutToDebit
<1>2. IsFiniteSet(Requests)
  BY PaymentAssumption
<1>3. /\ IsFiniteSet(D) /\ IsFiniteSet(A)
      /\ IsFiniteSet(Debited(u, type)') /\ IsFiniteSet(AboutToDebit(u, type)')
  BY <1>1, <1>2, FS_Subset
<1>4. /\ Cardinality(D) \in Nat /\ Cardinality(A) \in Nat /\ Cardinality(Requests) \in Nat
      /\ Cardinality(Debited(u, type)') \in Nat /\ Cardinality(AboutToDebit(u, type)') \in Nat
  BY <1>2, <1>3, FS_CardinalityType
<1> HIDE DEF D, A
<1>5. Cardinality(D \cup A) = Cardinality(D) + Cardinality(A)
  <2>1. Cardinality(D \cup A) = Cardinality(D) + Cardinality(A) - Cardinality(D \cap A)
    BY <1>3, FS_Union
  <2>2. Cardinality(D \cap A) = 0
    BY <1>1, FS_EmptySet
  <2> QED
    BY <1>4, <2>1, <2>2
<1>6. Cardinality(D \cup A) <= Cardinality(Requests)
  BY <1>1, <1>2, FS_Subset
<1> QED
  BY <1>3, <1>4, <1>5, <1>6 DEF D, A

\* What a set of which only p may leave or join counts.
LEMMA CountOne ==
  ASSUME NEW S, NEW T, NEW p, IsFiniteSet(S), IsFiniteSet(T), S \ {p} = T \ {p}
  PROVE  /\ (p \in S <=> p \in T) => Cardinality(T) = Cardinality(S)
         /\ p \in S /\ p \notin T => Cardinality(T) = Cardinality(S) - 1
         /\ p \notin S /\ p \in T => Cardinality(T) = Cardinality(S) + 1
<1>1. (p \in S <=> p \in T) => T = S
  OBVIOUS
<1>2. ASSUME p \in S, p \notin T PROVE Cardinality(T) = Cardinality(S) - 1
  <2>1. T = S \ {p}
    BY <1>2
  <2> QED
    BY <1>2, <2>1, FS_RemoveElement
<1>3. ASSUME p \notin S, p \in T PROVE Cardinality(T) = Cardinality(S) + 1
  <2>1. T = S \cup {p}
    BY <1>3
  <2> QED
    BY <1>3, <2>1, FS_AddElement
<1> QED
  BY <1>1, <1>2, <1>3

LEMMA OthersCount ==
  ASSUME NEW p \in Processes, OthersStay(p), NEW u, NEW type
  PROVE  /\ Debited(u, type) \ {p} = Debited(u, type)' \ {p}
         /\ AboutToDebit(u, type) \ {p} = AboutToDebit(u, type)' \ {p}
BY DEF OthersStay, Debited, AboutToDebit, Processes

LEMMA InitMoney == Init => MoneyInv
<1> SUFFICES ASSUME Init PROVE MoneyInv
  OBVIOUS
<1>1. ASSUME NEW u \in Users, NEW type \in Types PROVE Spent(u, type)
  <2>1. Debited(u, type) = {}
    BY DEF Init, Debited, Processes
  <2>2. Cardinality(Debited(u, type)) = 0
    BY <2>1, FS_EmptySet
  <2> QED
    BY <1>1, <2>2 DEF Init, Spent
<1>2. \A p \in Processes : pc[p] # "reuse"
  BY DEF Init
<1> QED
  BY <1>1, <1>2 DEF MoneyInv

\* A step that has to do with no payment from the wallet.
LEMMA QuietMoney ==
  ASSUME MoneyInv, NEW p \in Processes, OthersStay(p), UNCHANGED <<debits, deducted, faults>>,
         pc[p] \notin {"wallet", "debited"}, pc'[p] \notin {"wallet", "debited"},
         pc'[p] = "reuse" => txn'[p].status # "FAILED"
  PROVE  MoneyInv'
<1>1. ASSUME NEW u \in Users, NEW type \in Types PROVE Spent(u, type)'
  <2>1. Debited(u, type)' = Debited(u, type) /\ AboutToDebit(u, type)' = AboutToDebit(u, type)
    BY OthersCount DEF Debited, AboutToDebit
  <2> QED
    BY <2>1 DEF MoneyInv, Spent
<1> QED
  BY <1>1 DEF MoneyInv, OthersStay

LEMMA PayMoney ==
  ASSUME TypeInv, MoneyInv, NEW p \in Requests, PayStep(p)
  PROVE  MoneyInv'
<1> USE DEF rows, world, local
<1>0. p \in Processes /\ OthersStay(p)
  BY StepIsLocal DEF Processes
<1>1. CASE Reuse(p) \/ OpenLink(p) \/ SaveLink(p) \/ AssignNext(p)
  <2>1. /\ pc[p] \notin {"wallet", "debited"}
        /\ pc'[p] \in {"idle", "save"}
        /\ UNCHANGED <<debits, deducted, faults>>
    BY <1>0, <1>1 DEF Reuse, OpenLink, SaveLink, AssignNext, Return, Goto, TypeInv, LocalOK
  <2> QED
    BY <1>0, <2>1, QuietMoney
<1> DEFINE u == txn[p].user
           type == txn[p].type
<1>2. ASSUME NEW v \in Users, NEW t \in Types
      PROVE  /\ debits[v][t] \in Nat /\ deducted[v][t] \in Nat /\ faults \in Nat
             /\ Spent(v, t)
  BY DEF TypeInv, RowsOK, WorldOK, MoneyInv
<1>3. CASE PayAnew(p)
  <2>1. CASE txn[p].status = "PENDING"
    <3>1. pc[p] = "reuse" /\ pc'[p] = "link" /\ UNCHANGED <<debits, deducted, faults>>
      BY <1>0, <1>3, <2>1 DEF PayAnew, Goto, TypeInv, LocalOK
    <3> QED
      BY <1>0, <3>1, QuietMoney
  <2>2. CASE txn[p].status # "PENDING"
    <3>1. /\ pc[p] = "reuse" /\ pc'[p] = "wallet" /\ UNCHANGED <<debits, deducted, faults, txn>>
      BY <1>0, <1>3, <2>2 DEF PayAnew, Goto, TypeInv, LocalOK
    <3>2. txn[p] \in Txn /\ txn[p].status = "SUCCESSFUL"
      BY <1>0, <2>2, <3>1 DEF MoneyInv, TypeInv, LocalOK, Holds, TxnSteps, Txn, Outcomes
    <3>3. u \in Users /\ type \in Types /\ debits[u][type] = 0
      BY <1>2, <1>3, <3>2 DEF PayAnew, Exists, Txn
    <3>4. ASSUME NEW v \in Users, NEW t \in Types PROVE Spent(v, t)'
      <4>1. Debited(v, t)' = Debited(v, t)
        BY <1>0, <3>1, OthersCount DEF Debited
      <4>2. CASE v = u /\ t = type
        BY <1>2, <3>1, <3>3, <4>1, <4>2 DEF Spent
      <4>3. CASE ~(v = u /\ t = type)
        <5>1. AboutToDebit(v, t)' = AboutToDebit(v, t)
          BY <1>0, <3>1, <4>3, OthersCount DEF AboutToDebit
        <5> QED
          BY <1>2, <3>1, <4>1, <5>1 DEF Spent
      <4> QED
        BY <4>2, <4>3
    <3> QED
      BY <1>0, <3>1, <3>4 DEF MoneyInv, OthersStay
  <2> QED
    BY <2>1, <2>2
\* p leaves "wallet" or "debited": the others of each count stay.
<1>4. ASSUME pc[p] \in {"wallet", "debited"}, pc'[p] # "reuse",
             \A v \in Users, t \in Types : Spent(v, t)'
      PROVE  MoneyInv'
  BY <1>0, <1>4 DEF MoneyInv, OthersStay
<1>5. CASE RefuseDeduction(p)
  <2>1. pc[p] = "wallet" /\ pc'[p] = "idle" /\ UNCHANGED <<debits, deducted, faults>>
    BY <1>0, <1>5 DEF RefuseDeduction, Return, Goto, TypeInv, LocalOK
  <2>2. ASSUME NEW v \in Users, NEW t \in Types PROVE Spent(v, t)'
    <3>1. Debited(v, t)' = Debited(v, t)
      BY <1>0, <2>1, OthersCount DEF Debited
    <3>2. Cardinality(AboutToDebit(v, t)') <= Cardinality(AboutToDebit(v, t))
      <4>1. p \notin AboutToDebit(v, t)'
        BY <2>1 DEF AboutToDebit
      <4> QED
        BY <1>0, <4>1, OthersCount, Counts, CountOne
    <3> QED
      BY <1>2, <2>1, <3>1, <3>2, Counts DEF Spent
  <2> QED
    BY <1>4, <2>1, <2>2
<1>6. CASE Deduct(p)
  <2>1. /\ pc[p] = "wallet" /\ pc'[p] = "debited" /\ UNCHANGED <<debits, faults, txn>>
        /\ deducted' = [deducted EXCEPT ![u][type] = @ + 1]
    BY <1>0, <1>6 DEF Deduct, Goto, TypeInv, LocalOK
  <2>2. u \in Users /\ type \in Types
    BY <1>0, <2>1 DEF TypeInv, LocalOK, Holds, TxnSteps, Txn
  <2>3. ASSUME NEW v \in Users, NEW t \in Types PROVE Spent(v, t)'
    <3>1. CASE v = u /\ t = type
      <4>1. deducted'[v][t] = deducted[v][t] + 1
        BY <2>1, <2>2, <3>1 DEF TypeInv, WorldOK
      <4>2. /\ p \notin Debited(v, t) /\ p \in Debited(v, t)'
            /\ p \in AboutToDebit(v, t) /\ p \notin AboutToDebit(v, t)'
        BY <1>0, <2>1, <3>1 DEF Debited, AboutToDebit
      <4>3. /\ Cardinality(Debited(v, t)') = Cardinality(Debited(v, t)) + 1
            /\ Cardinality(AboutToDebit(v, t)') = Cardinality(AboutToDebit(v, t)) - 1
        BY <1>0, <4>2, OthersCount, Counts, CountOne
      <4> QED
        BY <1>2, <2>1, <4>1, <4>3, Counts DEF Spent
    <3>2. CASE ~(v = u /\ t = type)
      <4>1. deducted'[v][t] = deducted[v][t]
        BY <2>1, <2>2, <3>2 DEF TypeInv, WorldOK
      <4>2. Debited(v, t)' = Debited(v, t) /\ AboutToDebit(v, t)' = AboutToDebit(v, t)
        BY <1>0, <2>1, <3>2, OthersCount DEF Debited, AboutToDebit
      <4> QED
        BY <1>2, <2>1, <4>1, <4>2 DEF Spent
    <3> QED
      BY <3>1, <3>2
  <2> QED
    BY <1>4, <2>1, <2>3
<1>7. CASE SaveDebit(p)
  <2>1. /\ pc[p] = "debited" /\ pc'[p] \in {"mark", "idle"} /\ UNCHANGED <<deducted, faults>>
        /\ debits' = [debits EXCEPT ![u][type] = @ + 1]
    BY <1>0, <1>7 DEF SaveDebit, Return, Goto, TypeInv, LocalOK
  <2>2. u \in Users /\ type \in Types
    BY <1>0, <2>1 DEF TypeInv, LocalOK, Holds, TxnSteps, Txn
  <2>3. ASSUME NEW v \in Users, NEW t \in Types PROVE Spent(v, t)'
    <3>0. AboutToDebit(v, t)' = AboutToDebit(v, t)
      BY <1>0, <2>1, OthersCount DEF AboutToDebit
    <3>1. CASE v = u /\ t = type
      <4>1. debits'[v][t] = debits[v][t] + 1
        BY <2>1, <2>2, <3>1 DEF TypeInv, RowsOK
      <4>2. p \in Debited(v, t) /\ p \notin Debited(v, t)'
        BY <1>0, <2>1, <3>1 DEF Debited
      <4>3. Cardinality(Debited(v, t)') = Cardinality(Debited(v, t)) - 1
        BY <1>0, <4>2, OthersCount, Counts, CountOne
      <4> QED
        BY <1>2, <2>1, <3>0, <4>1, <4>3, Counts DEF Spent
    <3>2. CASE ~(v = u /\ t = type)
      <4>1. debits'[v][t] = debits[v][t]
        BY <2>1, <2>2, <3>2 DEF TypeInv, RowsOK
      <4>2. Debited(v, t)' = Debited(v, t)
        BY <1>0, <2>1, <3>2, OthersCount DEF Debited
      <4> QED
        BY <1>2, <2>1, <3>0, <4>1, <4>2 DEF Spent
    <3> QED
      BY <3>1, <3>2
  <2> QED
    BY <1>4, <2>1, <2>3
<1> QED
  BY <1>1, <1>3, <1>5, <1>6, <1>7 DEF PayStep

LEMMA OtherMoney ==
  ASSUME TypeInv, MoneyInv, NEW p \in Processes,
         \/ RequestStep(p) \/ (\E r \in Refs : FindPending(p, r))
         \/ ExpireStep(p) \/ SettleStep(p)
  PROVE  MoneyInv'
<1> USE DEF rows, world, local
<1>0. OthersStay(p)
  BY StepIsLocal
<1>1. CASE AskForLink(p) \/ AskForWallet(p)
  <2>1. PICK u \in Users, type \in Types, status \in {"PENDING", "SUCCESSFUL"} :
          Ask(p, u, type, status)
    BY <1>1 DEF AskForLink, AskForWallet, Types
  <2>2. /\ pc[p] = "idle" /\ pc'[p] = "reuse" /\ txn'[p].status = status
        /\ UNCHANGED <<debits, deducted, faults>>
    BY <2>1 DEF Ask, Goto, Hold, TypeInv, LocalOK
  <2> QED
    BY <1>0, <2>2, QuietMoney
<1>2. CASE ConfirmWinning(p) \/ RotateOut(p) \/ DeliverWebhook(p) \/ \E r \in Refs : FindPending(p, r)
  <2>1. /\ pc[p] = "idle" /\ pc'[p] \in {"mark", "assign", "succeed", "fail", "ask"}
        /\ UNCHANGED <<debits, deducted, faults>>
    BY <1>2 DEF ConfirmWinning, RotateOut, DeliverWebhook, FindPending, Goto, TypeInv, LocalOK
  <2> QED
    BY <1>0, <2>1, QuietMoney
<1>3. CASE ExpireStep(p)
  <2>1. /\ pc[p] \notin {"wallet", "debited"} /\ pc'[p] \notin {"reuse", "wallet", "debited"}
        /\ UNCHANGED <<debits, deducted, faults>>
    BY <1>3 DEF ExpireStep, FindOverdue, ExpireWinner, AwardNext, AwardNobody, VoidUnpaid,
       ExpireAuction, Return, Goto, TypeInv, LocalOK
  <2> QED
    BY <1>0, <2>1, QuietMoney
<1>4. CASE LearnStep(p)
  <2>1. /\ pc[p] \notin {"wallet", "debited"} /\ pc'[p] \notin {"reuse", "wallet", "debited"}
        /\ UNCHANGED <<debits, deducted, faults>>
    BY <1>4 DEF LearnStep, Answered, StillOpen, RecordFailure, RecordSuccess, ReadTransaction,
       StampTransaction, Return, Goto, TypeInv, LocalOK
  <2> QED
    BY <1>0, <2>1, QuietMoney
<1>5. CASE MarkStep(p)
  <2>1. /\ pc[p] \notin {"wallet", "debited"} /\ pc'[p] \notin {"reuse", "wallet", "debited"}
        /\ UNCHANGED <<debits, deducted, faults>>
    BY <1>5 DEF MarkStep, ReadAuction, MarkWinner, CountUnpaid, SettleAuction, PickNext,
       PickNobody, PromoteWinner, InstallWinner, Return, Goto, TypeInv, LocalOK
  <2> QED
    BY <1>0, <2>1, QuietMoney
<1> QED
  BY <1>1, <1>2, <1>3, <1>4, <1>5 DEF RequestStep, SettleStep, LearnStep, MarkStep

\* A request that fails after the wallet has paid adds a fault for its deduction.
LEMMA FailMoney ==
  ASSUME TypeInv, MoneyInv, NEW p \in Processes, Fail(p)
  PROVE  MoneyInv'
<1>0. OthersStay(p) /\ pc'[p] = "idle"
  BY StepIsLocal DEF Fail, Return, Goto, TypeInv, LocalOK
<1>1. faults' = faults + 1 /\ faults \in Nat /\ UNCHANGED <<debits, deducted>>
  BY DEF Fail, rows, world, TypeInv, WorldOK
<1>2. ASSUME NEW v \in Users, NEW t \in Types PROVE Spent(v, t)'
  <2>1. debits[v][t] \in Nat /\ deducted[v][t] \in Nat /\ Spent(v, t)
    BY DEF TypeInv, RowsOK, WorldOK, MoneyInv
  <2>2. p \notin Debited(v, t)' /\ p \notin AboutToDebit(v, t)'
    BY <1>0 DEF Debited, AboutToDebit
  <2>3. \/ Cardinality(Debited(v, t)') = Cardinality(Debited(v, t))
        \/ Cardinality(Debited(v, t)') = Cardinality(Debited(v, t)) - 1
    BY <1>0, <2>2, OthersCount, Counts, CountOne
  <2>4. \/ Cardinality(AboutToDebit(v, t)') = Cardinality(AboutToDebit(v, t))
        \/ Cardinality(AboutToDebit(v, t)') = Cardinality(AboutToDebit(v, t)) - 1
    BY <1>0, <2>2, OthersCount, Counts, CountOne
  <2>5. /\ Cardinality(Debited(v, t)) \in Nat /\ Cardinality(AboutToDebit(v, t)) \in Nat
        /\ Cardinality(Requests) \in Nat
    BY Counts
  <2> QED
    BY <1>1, <2>1, <2>3, <2>4, <2>5 DEF Spent
<1> QED
  BY <1>0, <1>2 DEF MoneyInv, OthersStay

LEMMA EnvironmentMoney ==
  ASSUME MoneyInv,
         \/ \E r \in Refs : UserPays(r) \/ PaymentFails(r)
         \/ \E u \in Users : AdminConfirms(u) \/ AdminExtends(u)
         \/ CloseAuction \/ Tick \/ UNCHANGED vars
  PROVE  MoneyInv'
<1>1. UNCHANGED <<debits, deducted, faults, pc, txn>>
  BY DEF UserPays, PaymentFails, Decide, AdminConfirms, AdminExtends, CloseAuction, Tick,
     rows, world, local, vars
<1> QED
  BY <1>1 DEF MoneyInv, Spent, Debited, AboutToDebit

LEMMA NextMoney == TypeInv /\ MoneyInv /\ [Next]_vars => MoneyInv'
<1> SUFFICES ASSUME TypeInv, MoneyInv, [Next]_vars PROVE MoneyInv'
  OBVIOUS
<1>1. CASE UNCHANGED vars
  BY <1>1, EnvironmentMoney
<1>2. CASE Next
  BY <1>2, PayMoney, OtherMoney, FailMoney, EnvironmentMoney DEF Next, Processes
<1> QED
  BY <1>1, <1>2

LEMMA MoneyImplies ==
  ASSUME TypeInv, LinkInv, MoneyInv
  PROVE  SuccessIsPaidFor /\ DebitsBounded
<1>1. ASSUME NEW u \in Users, NEW type \in Types
      PROVE  /\ debits[u][type] <= deducted[u][type]
             /\ deducted[u][type] <= Cardinality(Requests) + faults
  <2>1. /\ debits[u][type] \in Nat /\ deducted[u][type] \in Nat /\ faults \in Nat
        /\ Spent(u, type)
    BY DEF TypeInv, RowsOK, WorldOK, MoneyInv
  <2>2. /\ Cardinality(Debited(u, type)) \in Nat /\ Cardinality(AboutToDebit(u, type)) \in Nat
        /\ Cardinality(Requests) \in Nat
        /\ Cardinality(Debited(u, type)) + Cardinality(AboutToDebit(u, type))
             <= Cardinality(Requests)
    BY Counts
  <2> QED
    BY <2>1, <2>2 DEF Spent
<1> QED
  BY <1>1 DEF LinkInv, SuccessIsPaidFor, DebitsBounded

LEMMA PaymentInvariant == Spec => [](TypeInv /\ LinkInv /\ MoneyInv)
<1>1. Init => TypeInv /\ LinkInv /\ MoneyInv
  BY InitType, InitLinks, InitMoney
<1>2. TypeInv /\ LinkInv /\ MoneyInv /\ [Next]_vars => (TypeInv /\ LinkInv /\ MoneyInv)'
  BY NextType, NextLinks, NextMoney
<1> QED
  BY <1>1, <1>2, PTL DEF Spec

(* A transaction is SUCCESSFUL only when its money has moved, for any number of
   webhooks, polls and cron tasks, links that are retried, and failures between
   any two statements. *)
THEOREM PaidFor == Spec => []SuccessIsPaidFor
BY PaymentInvariant, MoneyImplies, PTL

(* Repeated clicks and failed calls cost a user one debit each at most beyond
   the first: those that did not find a payment before one was recorded. *)
THEOREM DebitsAreBounded == Spec => []DebitsBounded
BY PaymentInvariant, MoneyImplies, PTL

-----------------------------------------------------------------------------
(* What is PAID has been charged. *)

\* What a step does to the links and the wallet is never taken back.
LEMMA NextSteady ==
  ASSUME TypeInv, LinkInv, [Next]_vars
  PROVE  /\ Steady /\ Kept
         /\ \A u \in Users, type \in Types : deducted'[u][type] >= deducted[u][type]
<1> USE DEF rows, world, local
<1> DEFINE Grows == \A u \in Users, type \in Types : deducted'[u][type] >= deducted[u][type]
<1>0. \A u \in Users, type \in Types : deducted[u][type] \in Nat
  BY DEF TypeInv, WorldOK
<1>1. UNCHANGED deducted => Grows
  BY <1>0
<1>2. UNCHANGED <<txns, gateway>> => Steady /\ Kept
  BY DEF Steady, Kept
<1> HIDE DEF Grows
<1>3. CASE UNCHANGED <<txns, gateway, deducted>>
  BY <1>1, <1>2, <1>3 DEF Grows
<1>4. ASSUME NEW p \in Processes, OpenLink(p) PROVE Steady /\ Kept /\ Grows
  <2>1. PICK r \in Refs : gateway[r] = None /\ gateway' = [gateway EXCEPT ![r] = "OPEN"]
    BY <1>4 DEF OpenLink, Fresh
  <2>2. \A s \in Refs : gateway[s] # None => gateway'[s] = gateway[s]
    BY <2>1 DEF TypeInv, WorldOK
  <2>3. "SUCCESSFUL" # None
    BY PaymentAssumption
  <2> QED
    BY <1>1, <1>4, <2>2, <2>3 DEF OpenLink, Steady, Kept
<1>5. ASSUME NEW p \in Processes, Deduct(p) PROVE Steady /\ Kept /\ Grows
  <2>1. txn[p].user \in Users /\ txn[p].type \in Types
    BY <1>5 DEF Deduct, TypeInv, LocalOK, Holds, TxnSteps, Txn
  <2>2. Grows
    BY <1>0, <1>5, <2>1 DEF Deduct, Grows, TypeInv, WorldOK
  <2> QED
    BY <1>2, <1>5, <2>2 DEF Deduct
<1>6. ASSUME NEW r \in Refs, UserPays(r) \/ PaymentFails(r) PROVE Steady /\ Kept /\ Grows
  <2>1. PICK outcome \in Outcomes : Decide(r, outcome) /\ gateway[r] # "SUCCESSFUL"
    BY <1>6 DEF UserPays, PaymentFails, Outcomes
  <2>2. gateway'[r] = outcome /\ \A s \in Refs \ {r} : gateway'[s] = gateway[s]
    BY <2>1 DEF Decide, TypeInv, WorldOK
  <2>3. outcome # None
    BY PaymentAssumption DEF Outcomes
  <2> QED
    BY <1>1, <2>1, <2>2, <2>3 DEF Decide, Steady, Kept
<1>7. ASSUME NEW p \in Processes, NEW t \in Txn, ref[p] \in Refs,
             txns' = [txns EXCEPT ![ref[p]] = t], UNCHANGED <<gateway, deducted>>,
             txns[ref[p]] # None => t.user = txns[ref[p]].user /\ t.type = txns[ref[p]].type
      PROVE  Steady /\ Kept /\ Grows
  <2>1. t # None
    BY PaymentAssumption
  <2>2. txns'[ref[p]] = t /\ \A s \in Refs \ {ref[p]} : txns'[s] = txns[s]
    BY <1>7 DEF TypeInv, RowsOK
  <2> QED
    BY <1>1, <1>7, <2>1, <2>2 DEF Steady, Kept
<1>8. ASSUME NEW p \in Processes, SaveLink(p) PROVE Steady /\ Kept /\ Grows
  <2>1. ref[p] \in Refs /\ txn[p] \in Txn /\ txns[ref[p]] = None
    BY <1>8 DEF SaveLink, TypeInv, LocalOK, Holds, TxnSteps, LinkInv, LinkHeld
  <2> QED
    BY <1>7, <1>8, <2>1 DEF SaveLink
<1>9. ASSUME NEW p \in Processes, StampTransaction(p) PROVE Steady /\ Kept /\ Grows
  <2>1. /\ ref[p] \in Refs /\ txn[p] \in Txn
        /\ txn[p].user = txns[ref[p]].user /\ txn[p].type = txns[ref[p]].type
    BY <1>9 DEF StampTransaction, TypeInv, LocalOK, Holds, TxnSteps, RefSteps, LinkInv, LinkHeld
  <2> QED
    BY <1>7, <1>9, <2>1 DEF StampTransaction
<1>10. ASSUME NEW p \in Processes, RecordFailure(p) \/ RecordSuccess(p)
       PROVE  Steady /\ Kept /\ Grows
  <2>1. ref[p] \in Refs /\ txns[ref[p]] \in Txn \cup {None} /\ UNCHANGED <<gateway, deducted>>
    BY <1>10 DEF RecordFailure, RecordSuccess, TypeInv, RowsOK, LocalOK, Holds, RefSteps
  <2>2. CASE UNCHANGED txns
    BY <1>1, <1>2, <2>1, <2>2
  <2>3. ASSUME NEW status \in Outcomes, txns[ref[p]] # None,
               txns' = [txns EXCEPT ![ref[p]].status = status]
        PROVE  Steady /\ Kept /\ Grows
    <3> DEFINE t == [txns[ref[p]] EXCEPT !.status = status]
    <3>1. t \in Txn /\ t.user = txns[ref[p]].user /\ t.type = txns[ref[p]].type
      BY <2>1, <2>3 DEF Txn
    <3>2. txns' = [txns EXCEPT ![ref[p]] = t]
      BY <2>1, <2>3 DEF TypeInv, RowsOK
    <3> HIDE DEF t
    <3> QED
      BY <1>7, <2>1, <3>1, <3>2
  <2> QED
    BY <1>10, <2>2, <2>3 DEF RecordFailure, RecordSuccess, Unsettled, Outcomes
<1>11. CASE Next
  <2>1. ASSUME NEW p \in Processes, RequestStep(p) \/ \E r \in Refs : FindPending(p, r)
        PROVE  UNCHANGED <<txns, gateway, deducted>>
    BY <2>1 DEF RequestStep, AskForLink, AskForWallet, Ask, ConfirmWinning, RotateOut,
       DeliverWebhook, FindPending
  <2>2. ASSUME NEW p \in Processes, PayStep(p)
        PROVE  \/ UNCHANGED <<txns, gateway, deducted>>
               \/ OpenLink(p) \/ Deduct(p) \/ SaveLink(p)
    BY <2>2 DEF PayStep, Reuse, PayAnew, RefuseDeduction, SaveDebit, AssignNext
  <2>3. ASSUME NEW p \in Processes, ExpireStep(p) \/ MarkStep(p) \/ Fail(p)
        PROVE  UNCHANGED <<txns, gateway, deducted>>
    BY <2>3 DEF ExpireStep, FindOverdue, ExpireWinner, AwardNext, AwardNobody, VoidUnpaid,
       ExpireAuction, MarkStep, ReadAuction, MarkWinner, CountUnpaid, SettleAuction, PickNext,
       PickNobody, PromoteWinner, InstallWinner, Fail
  <2>4. ASSUME NEW p \in Processes, LearnStep(p)
        PROVE  \/ UNCHANGED <<txns, gateway, deducted>>
               \/ RecordFailure(p) \/ RecordSuccess(p) \/ StampTransaction(p)
    BY <2>4 DEF LearnStep, Answered, StillOpen, ReadTransaction
  <2>5. ASSUME NEW p \in Processes, SettleStep(p) PROVE LearnStep(p) \/ MarkStep(p)
    BY <2>5 DEF SettleStep, LearnStep, MarkStep
  <2>6. ASSUME \/ \E u \in Users : AdminConfirms(u) \/ AdminExtends(u)
               \/ CloseAuction \/ Tick
        PROVE  UNCHANGED <<txns, gateway, deducted>>
    BY <2>6 DEF AdminConfirms, AdminExtends, CloseAuction, Tick
  <2>7. \/ UNCHANGED <<txns, gateway, deducted>>
        \/ \E p \in Processes : \/ OpenLink(p) \/ Deduct(p) \/ SaveLink(p)
                                \/ RecordFailure(p) \/ RecordSuccess(p) \/ StampTransaction(p)
        \/ \E r \in Refs : UserPays(r) \/ PaymentFails(r)
    BY <1>11, <2>1, <2>2, <2>3, <2>4, <2>5, <2>6 DEF Next, Processes
  <2> QED
    BY <1>3, <1>4, <1>5, <1>6, <1>8, <1>9, <1>10, <2>7 DEF Grows
<1>12. CASE UNCHANGED vars
  BY <1>3, <1>12 DEF vars
<1> QED
  BY <1>11, <1>12 DEF Grows

LEMMA ChargedStays ==
  ASSUME TypeInv, LinkInv, [Next]_vars, NEW u \in Users, Charged(u)
  PROVE  Charged(u)'
<1>1. /\ Steady /\ Kept
      /\ deducted'[u]["WALLET"] >= deducted[u]["WALLET"]
  BY NextSteady DEF Types
<1>2. deducted[u]["WALLET"] \in Nat /\ deducted'[u]["WALLET"] \in Nat
  <2>1. TypeInv'
    BY NextType
  <2> QED
    BY <2>1 DEF TypeInv, WorldOK, Types
<1> QED
  BY <1>1, <1>2 DEF Charged, Steady, Kept

\* What the process p knows of the winning amount.
ChargeHeld(p) ==
  /\ pc[p] \in {"mark", "paid", "count", "settle", "pick"} => Charged(txn[p].user)
  /\ pc[p] \in {"promote", "install"} => snap[p].payment # "PAID"
  /\ pc[p] = "debited" => deducted[txn[p].user][txn[p].type] > 0

ChargeInv == PaidIsPaidFor /\ \A p \in Processes : ChargeHeld(p)

LEMMA InitCharges == Init => ChargeInv
<1>1. None # "PAID"
  BY PaymentAssumption
<1> QED
  BY <1>1 DEF Init, ChargeInv, ChargeHeld, PaidIsPaidFor, HasPaid

\* The users whose row becomes PAID, and the auction when it does, are charged.
LEMMA ChargeStep ==
  ASSUME TypeInv, LinkInv, ChargeInv, [Next]_vars, NEW p \in Processes, OthersStay(p),
         ChargeHeld(p)', confirmed \subseteq confirmed',
         \A u \in Users : HasPaid(u)' => HasPaid(u) \/ Charged(u) \/ u \in confirmed',
         auction'.payment = "PAID" => auction.payment = "PAID" \/ \E u \in Users : Charged(u)
  PROVE  ChargeInv'
<1>1. \A u \in Users : Charged(u) => Charged(u)'
  BY ChargedStays
<1>2. PaidIsPaidFor'
  BY <1>1 DEF ChargeInv, PaidIsPaidFor
<1>3. ASSUME NEW q \in Processes \ {p} PROVE ChargeHeld(q)'
  <2>1. ChargeHeld(q) /\ OthersStay(p)
    BY DEF ChargeInv
  <2>2. pc[q] \in {"mark", "paid", "count", "settle", "pick", "debited"} =>
          txn[q].user \in Users /\ txn[q].type \in Types
    BY DEF TypeInv, LocalOK, Holds, TxnSteps, Txn
  <2>3. pc[q] = "debited" => deducted'[txn[q].user][txn[q].type] > 0
    <3> SUFFICES ASSUME pc[q] = "debited"
                 PROVE  deducted'[txn[q].user][txn[q].type] > 0
      OBVIOUS
    <3>1. deducted'[txn[q].user][txn[q].type] >= deducted[txn[q].user][txn[q].type]
      BY <2>2, NextSteady
    <3>2. /\ deducted[txn[q].user][txn[q].type] \in Nat
          /\ deducted'[txn[q].user][txn[q].type] \in Nat
      <4>1. TypeInv'
        BY NextType
      <4> QED
        BY <2>2, <4>1 DEF TypeInv, WorldOK
    <3> QED
      BY <2>1, <3>1, <3>2 DEF ChargeHeld
  <2> QED
    BY <1>1, <2>1, <2>2, <2>3 DEF ChargeHeld, OthersStay
<1> QED
  BY <1>2, <1>3 DEF ChargeInv

\* Steps that mark nothing.
LEMMA QuietCharges ==
  ASSUME TypeInv, LinkInv, ChargeInv, [Next]_vars, NEW p \in Processes, OthersStay(p),
         pc'[p] \notin {"mark", "paid", "count", "settle", "pick", "promote", "install",
                        "debited"},
         UNCHANGED <<auction, winners, confirmed>>
  PROVE  ChargeInv'
BY ChargeStep DEF ChargeHeld, HasPaid

LEMMA RequestCharges ==
  ASSUME TypeInv, LinkInv, MoneyInv, ChargeInv, [Next]_vars, NEW p \in Processes,
         RequestStep(p) \/ \E r \in Refs : FindPending(p, r)
  PROVE  ChargeInv'
<1> USE DEF rows, world, local
<1>0. OthersStay(p)
  BY StepIsLocal
<1>1. CASE AskForLink(p) \/ AskForWallet(p) \/ DeliverWebhook(p) \/ \E r \in Refs : FindPending(p, r)
  <2>1. /\ pc'[p] \in {"reuse", "succeed", "fail", "ask"}
        /\ UNCHANGED <<auction, winners, confirmed>>
    BY <1>1 DEF AskForLink, AskForWallet, Ask, DeliverWebhook, FindPending, Goto, TypeInv, LocalOK
  <2> QED
    BY <1>0, <2>1, QuietCharges
<1>2. CASE ConfirmWinning(p)
  <2>1. /\ pc'[p] = "mark" /\ txn'[p].user = auction.winner
        /\ auction.winner \in Users /\ UNCHANGED <<auction, winners, confirmed>>
    BY <1>2 DEF ConfirmWinning, Goto, Hold, TypeInv, LocalOK, RowsOK, Row
  <2>2. Charged(auction.winner)
    <3>1. CASE Links(auction.winner, Winning, "SUCCESSFUL") # {}
      <4>1. PICK r \in Refs : /\ txns[r] # None /\ txns[r].user = auction.winner
                              /\ txns[r].type \in Winning /\ txns[r].status = "SUCCESSFUL"
        BY <3>1 DEF Links
      <4>2. gateway[r] = "SUCCESSFUL" /\ txns[r].type = "WINNING_BID"
        BY <4>1 DEF LinkInv, Winning
      <4> QED
        BY <4>1, <4>2 DEF Charged
    <3>2. CASE debits[auction.winner]["WALLET"] > 0
      <4>1. debits[auction.winner]["WALLET"] <= deducted[auction.winner]["WALLET"]
        BY <2>1, MoneyImplies DEF SuccessIsPaidFor, Types
      <4>2. /\ debits[auction.winner]["WALLET"] \in Nat
            /\ deducted[auction.winner]["WALLET"] \in Nat
        BY <2>1 DEF TypeInv, RowsOK, WorldOK, Types
      <4> QED
        BY <3>2, <4>1, <4>2 DEF Charged
    <3> QED
      BY <1>2, <3>1, <3>2 DEF ConfirmWinning
  <2>3. Charged(auction.winner)'
    <3>1. PICK u \in Users : u = auction.winner /\ Charged(u)
      BY <2>1, <2>2
    <3>2. Charged(u)'
      BY <3>1, ChargedStays
    <3>3. u = auction'.winner
      BY <2>1, <3>1
    <3> QED
      BY <3>2, <3>3 DEF Charged
  <2>4. ChargeHeld(p)'
    BY <2>1, <2>3 DEF ChargeHeld
  <2> QED
    BY <1>0, <2>1, <2>4, ChargeStep DEF HasPaid
<1>3. CASE RotateOut(p)
  <2>1. /\ pc'[p] = "assign" /\ UNCHANGED <<auction, confirmed>>
    BY <1>3 DEF RotateOut, Goto, TypeInv, LocalOK
  <2>2. \A u \in Users : HasPaid(u)' => HasPaid(u)
    BY <1>3 DEF RotateOut, HasPaid, Unpaid, TypeInv, RowsOK, WinnerRow
  <2>3. ChargeHeld(p)'
    BY <2>1 DEF ChargeHeld
  <2> QED
    BY <1>0, <2>1, <2>2, <2>3, ChargeStep
<1> QED
  BY <1>1, <1>2, <1>3 DEF RequestStep

LEMMA PayCharges ==
  ASSUME TypeInv, LinkInv, ChargeInv, [Next]_vars, NEW p \in Processes, PayStep(p)
  PROVE  ChargeInv'
<1> USE DEF rows, world, local
<1>0. OthersStay(p)
  BY StepIsLocal
<1>1. CASE Reuse(p) \/ PayAnew(p) \/ OpenLink(p) \/ RefuseDeduction(p) \/ SaveLink(p)
  <2>1. /\ pc'[p] \in {"idle", "link", "wallet", "save"}
        /\ UNCHANGED <<auction, winners, confirmed>>
    BY <1>1 DEF Reuse, PayAnew, OpenLink, RefuseDeduction, SaveLink, Return, Goto, TypeInv, LocalOK
  <2> QED
    BY <1>0, <2>1, QuietCharges
<1>2. CASE Deduct(p)
  <2>1. /\ pc[p] = "wallet" /\ pc'[p] = "debited" /\ txn' = txn
        /\ UNCHANGED <<auction, winners, confirmed>>
        /\ deducted' = [deducted EXCEPT ![txn[p].user][txn[p].type] = @ + 1]
    BY <1>2 DEF Deduct, Goto, TypeInv, LocalOK
  <2>2. txn[p].user \in Users /\ txn[p].type \in Types
    BY <2>1 DEF TypeInv, LocalOK, Holds, TxnSteps, Txn
  <2>3. deducted'[txn[p].user][txn[p].type] > 0
    BY <2>1, <2>2 DEF TypeInv, WorldOK
  <2>4. ChargeHeld(p)'
    BY <2>1, <2>3 DEF ChargeHeld
  <2> QED
    BY <1>0, <2>1, <2>4, ChargeStep DEF HasPaid
<1>3. CASE SaveDebit(p)
  <2>1. /\ pc[p] = "debited" /\ UNCHANGED <<auction, winners, confirmed, deducted, txns, gateway>>
        /\ \/ pc'[p] = "mark" /\ txn' = txn /\ txn[p].type = "WALLET"
           \/ pc'[p] = "idle"
    BY <1>3 DEF SaveDebit, Return, Goto, TypeInv, LocalOK
  <2>2. deducted[txn[p].user][txn[p].type] > 0
    BY <2>1 DEF ChargeInv, ChargeHeld
  <2>3. ChargeHeld(p)'
    BY <2>1, <2>2 DEF ChargeHeld, Charged
  <2> QED
    BY <1>0, <2>1, <2>3, ChargeStep DEF HasPaid
<1>4. CASE AssignNext(p)
  <2>1. pc'[p] = "idle" /\ UNCHANGED <<winners, confirmed>>
    BY <1>4 DEF AssignNext, Return, Goto, TypeInv, LocalOK
  <2>2. auction'.payment = auction.payment
    BY <1>4 DEF AssignNext, TypeInv, RowsOK, Row
  <2>3. ChargeHeld(p)'
    BY <2>1 DEF ChargeHeld
  <2> QED
    BY <1>0, <2>1, <2>2, <2>3, ChargeStep DEF HasPaid
<1> QED
  BY <1>1, <1>2, <1>3, <1>4 DEF PayStep

LEMMA ExpireCharges ==
  ASSUME TypeInv, LinkInv, ChargeInv, [Next]_vars, NEW p \in Processes, ExpireStep(p) \/ Fail(p)
  PROVE  ChargeInv'
<1> USE DEF rows, world, local
<1>0. OthersStay(p)
  BY StepIsLocal
<1>1. CASE FindOverdue(p) \/ AwardNobody(p) \/ Fail(p)
  <2>1. /\ pc'[p] \in {"lapse", "void", "idle"} /\ UNCHANGED <<auction, winners, confirmed>>
    BY <1>1 DEF FindOverdue, AwardNobody, Fail, Return, Goto, TypeInv, LocalOK
  <2> QED
    BY <1>0, <2>1, QuietCharges
<1>2. CASE ExpireWinner(p) \/ VoidUnpaid(p)
  <2>1. pc'[p] \in {"next", "expire"} /\ UNCHANGED <<auction, confirmed>>
    BY <1>2 DEF ExpireWinner, VoidUnpaid, Goto, TypeInv, LocalOK
  <2>2. \A u \in Users : HasPaid(u)' => HasPaid(u)
    <3>1. CASE ExpireWinner(p)
      <4>1. PICK v \in Users : v = snap[p].winner
        BY <3>1 DEF ExpireWinner, TypeInv, LocalOK, Holds, SnapSteps, Row
      <4>2. /\ winners[v] # None => winners'[v].status = "EXPIRED"
            /\ winners[v] = None => winners'[v] = None
            /\ \A u \in Users \ {v} : winners'[u] = winners[u]
        BY <3>1, <4>1 DEF ExpireWinner, TypeInv, RowsOK, WinnerRow
      <4> QED
        BY <4>2 DEF HasPaid
    <3>2. CASE VoidUnpaid(p)
      BY <3>2 DEF VoidUnpaid, HasPaid, Unpaid, TypeInv, RowsOK, WinnerRow
    <3> QED
      BY <1>2, <3>1, <3>2
  <2>3. ChargeHeld(p)'
    BY <2>1 DEF ChargeHeld
  <2> QED
    BY <1>0, <2>1, <2>2, <2>3, ChargeStep
<1>3. CASE AwardNext(p)
  <2>1. PICK u \in Unpaid : Award(p, u)
    BY <1>3 DEF AwardNext
  <2>2. snap[p] \in Row
    BY <1>3 DEF AwardNext, TypeInv, LocalOK, Holds, SnapSteps
  <2>3. snap'[p].payment = "PENDING"
    BY <2>1, <2>2 DEF Award, Hold, Row, TypeInv, LocalOK
  <2>4. pc'[p] = "promote" /\ UNCHANGED <<auction, winners, confirmed>>
    BY <1>3 DEF AwardNext, Goto, TypeInv, LocalOK
  <2>5. ChargeHeld(p)'
    BY <2>3, <2>4 DEF ChargeHeld
  <2> QED
    BY <1>0, <2>4, <2>5, ChargeStep DEF HasPaid
<1>4. CASE ExpireAuction(p)
  <2>1. pc'[p] = "idle" /\ UNCHANGED <<winners, confirmed>>
    BY <1>4 DEF ExpireAuction, Return, Goto, TypeInv, LocalOK
  <2>2. snap[p] \in Row
    BY <1>4 DEF ExpireAuction, TypeInv, LocalOK, Holds, SnapSteps
  <2>3. auction'.payment = "EXPIRED"
    BY <1>4, <2>2 DEF ExpireAuction, Row
  <2>4. ChargeHeld(p)'
    BY <2>1 DEF ChargeHeld
  <2> QED
    BY <1>0, <2>1, <2>3, <2>4, ChargeStep DEF HasPaid
<1> QED
  BY <1>1, <1>2, <1>3, <1>4 DEF ExpireStep

LEMMA LearnCharges ==
  ASSUME TypeInv, LinkInv, ChargeInv, [Next]_vars, NEW p \in Processes, LearnStep(p)
  PROVE  ChargeInv'
<1> USE DEF rows, world, local
<1>0. OthersStay(p) /\ UNCHANGED <<auction, winners, confirmed>>
  BY StepIsLocal DEF LearnStep, SettleStep, Answered, StillOpen, RecordFailure, RecordSuccess,
     ReadTransaction, StampTransaction
<1>1. CASE ~StampTransaction(p)
  <2>1. pc'[p] \in {"idle", "succeed", "fail", "read", "stamp"}
    BY <1>1 DEF LearnStep, Answered, StillOpen, RecordFailure, RecordSuccess, ReadTransaction,
       Return, Goto, TypeInv, LocalOK
  <2> QED
    BY <1>0, <2>1, QuietCharges
<1>2. CASE StampTransaction(p)
  <2>1. /\ ref[p] \in Refs /\ txns[ref[p]] # None /\ txn[p] \in Txn
        /\ gateway[ref[p]] = "SUCCESSFUL"
        /\ txn[p].user = txns[ref[p]].user /\ txn[p].type = txns[ref[p]].type
        /\ txn[p].type # "WALLET"
    BY <1>2 DEF StampTransaction, TypeInv, LocalOK, Holds, TxnSteps, RefSteps, LinkInv, LinkHeld
  <2>2. CASE txn[p].type \in Winning
    <3>1. pc'[p] = "mark" /\ txn' = txn
      BY <1>2, <2>2 DEF StampTransaction, Goto, TypeInv, LocalOK
    <3>2. Charged(txn[p].user) /\ txn[p].user \in Users
      BY <2>1, <2>2 DEF Charged, Winning, Txn
    <3>3. ChargeHeld(p)'
      <4>1. PICK u \in Users : u = txn[p].user /\ Charged(u)
        BY <3>2
      <4>2. Charged(u)'
        BY <4>1, ChargedStays
      <4> QED
        BY <3>1, <4>1, <4>2 DEF ChargeHeld
    <3> QED
      BY <1>0, <3>3, ChargeStep DEF HasPaid
  <2>3. CASE txn[p].type \notin Winning
    <3>1. pc'[p] = "idle"
      BY <1>2, <2>3 DEF StampTransaction, Return, Goto, TypeInv, LocalOK
    <3> QED
      BY <1>0, <3>1, QuietCharges
  <2> QED
    BY <2>2, <2>3
<1> QED
  BY <1>1, <1>2

LEMMA MarkCharges ==
  ASSUME TypeInv, LinkInv, ChargeInv, [Next]_vars, NEW p \in Processes, MarkStep(p)
  PROVE  ChargeInv'
<1> USE DEF rows, world, local
<1>0. OthersStay(p) /\ UNCHANGED confirmed
  BY StepIsLocal DEF MarkStep, SettleStep, ReadAuction, MarkWinner, CountUnpaid, SettleAuction,
     PickNext, PickNobody, PromoteWinner, InstallWinner
<1>1. pc[p] \in {"mark", "paid", "count", "settle", "pick"} =>
        Charged(txn[p].user) /\ txn[p].user \in Users
  BY DEF ChargeInv, ChargeHeld, TypeInv, LocalOK, Holds, TxnSteps, Txn
\* p goes on with the transaction that it holds.
<1>2. ASSUME Charged(txn[p].user), txn[p].user \in Users, txn'[p] = txn[p],
             pc'[p] \in {"paid", "count", "settle", "pick"}
      PROVE  ChargeHeld(p)'
  <2>1. PICK u \in Users : u = txn[p].user /\ Charged(u)
    BY <1>2
  <2>2. Charged(u)'
    BY <2>1, ChargedStays
  <2> QED
    BY <1>2, <2>1, <2>2 DEF ChargeHeld
<1>3. CASE ReadAuction(p)
  <2>1. UNCHANGED <<auction, winners>> /\ pc[p] = "mark"
    BY <1>3 DEF ReadAuction
  <2>2. CASE Due
    <3>1. pc'[p] = "paid" /\ txn' = txn
      BY <1>3, <2>2 DEF ReadAuction, Goto, TypeInv, LocalOK
    <3>2. ChargeHeld(p)'
      BY <1>1, <1>2, <2>1, <3>1
    <3> QED
      BY <1>0, <2>1, <3>2, ChargeStep DEF HasPaid
  <2>3. CASE ~Due
    <3>1. pc'[p] = "idle"
      BY <1>3, <2>3 DEF ReadAuction, Return, Goto, TypeInv, LocalOK
    <3> QED
      BY <1>0, <2>1, <3>1, QuietCharges
  <2> QED
    BY <2>2, <2>3
<1>4. CASE MarkWinner(p)
  <2>1. pc[p] = "paid" /\ pc'[p] = "count" /\ txn' = txn /\ UNCHANGED auction
    BY <1>4 DEF MarkWinner, Goto, TypeInv, LocalOK
  <2>2. ChargeHeld(p)'
    BY <1>1, <1>2, <2>1
  <2>3. \A u \in Users : HasPaid(u)' => HasPaid(u) \/ Charged(u)
    <3>1. \A u \in Users : u # txn[p].user => winners'[u] = winners[u]
      BY <1>4, <2>1 DEF MarkWinner, TypeInv, RowsOK
    <3> QED
      BY <1>1, <2>1, <3>1 DEF HasPaid
  <2> QED
    BY <1>0, <2>1, <2>2, <2>3, ChargeStep
<1>5. CASE CountUnpaid(p)
  <2>1. pc[p] = "count" /\ pc'[p] \in {"settle", "pick"} /\ txn' = txn /\ UNCHANGED <<auction, winners>>
    BY <1>5 DEF CountUnpaid, Goto, TypeInv, LocalOK
  <2>2. ChargeHeld(p)'
    BY <1>1, <1>2, <2>1
  <2> QED
    BY <1>0, <2>1, <2>2, ChargeStep DEF HasPaid
<1>6. CASE SettleAuction(p)
  <2>1. pc[p] = "settle" /\ pc'[p] = "idle" /\ UNCHANGED winners
    BY <1>6 DEF SettleAuction, Return, Goto, TypeInv, LocalOK
  <2>2. ChargeHeld(p)'
    BY <2>1 DEF ChargeHeld
  <2> QED
    BY <1>0, <1>1, <2>1, <2>2, ChargeStep DEF HasPaid
<1>7. CASE PickNext(p)
  <2>1. PICK u \in Unpaid : Award(p, u)
    BY <1>7 DEF PickNext
  <2>2. snap[p] \in Row
    BY <1>7 DEF PickNext, TypeInv, LocalOK, Holds, SnapSteps
  <2>3. snap'[p].payment = "PENDING"
    BY <2>1, <2>2 DEF Award, Hold, Row, TypeInv, LocalOK
  <2>4. pc'[p] = "promote" /\ UNCHANGED <<auction, winners>>
    BY <1>7 DEF PickNext, Goto, TypeInv, LocalOK
  <2>5. ChargeHeld(p)'
    BY <2>3, <2>4 DEF ChargeHeld
  <2> QED
    BY <1>0, <2>4, <2>5, ChargeStep DEF HasPaid
<1>8. CASE PickNobody(p)
  <2>1. pc'[p] = "idle" /\ UNCHANGED <<auction, winners>>
    BY <1>8 DEF PickNobody, Return, Goto, TypeInv, LocalOK
  <2> QED
    BY <1>0, <2>1, QuietCharges
<1>9. CASE PromoteWinner(p)
  <2>1. /\ pc[p] = "promote" /\ pc'[p] = "install" /\ snap' = snap /\ UNCHANGED auction
    BY <1>9 DEF PromoteWinner, Goto, TypeInv, LocalOK
  <2>2. ChargeHeld(p)'
    BY <2>1 DEF ChargeHeld, ChargeInv
  <2>3. \A u \in Users : HasPaid(u)' => HasPaid(u)
    <3>1. PICK v \in Users : v = snap[p].winner
      BY <2>1 DEF TypeInv, LocalOK, Holds, SnapSteps, Row
    <3>2. /\ winners'[v].status = "PENDING"
          /\ \A u \in Users \ {v} : winners'[u] = winners[u]
      BY <1>9, <3>1 DEF PromoteWinner, TypeInv, RowsOK
    <3> QED
      BY <3>2 DEF HasPaid
  <2> QED
    BY <1>0, <2>1, <2>2, <2>3, ChargeStep
<1>10. CASE InstallWinner(p)
  <2>1. pc[p] = "install" /\ pc'[p] = "idle" /\ auction' = snap[p] /\ UNCHANGED winners
    BY <1>10 DEF InstallWinner, Return, Goto, TypeInv, LocalOK
  <2>2. auction'.payment # "PAID"
    BY <2>1 DEF ChargeInv, ChargeHeld
  <2>3. ChargeHeld(p)'
    BY <2>1 DEF ChargeHeld
  <2> QED
    BY <1>0, <2>1, <2>2, <2>3, ChargeStep DEF HasPaid
<1> QED
  BY <1>3, <1>4, <1>5, <1>6, <1>7, <1>8, <1>9, <1>10 DEF MarkStep

LEMMA EnvironmentCharges ==
  ASSUME TypeInv, LinkInv, ChargeInv, [Next]_vars,
         \/ \E r \in Refs : UserPays(r) \/ PaymentFails(r)
         \/ \E u \in Users : AdminConfirms(u) \/ AdminExtends(u)
         \/ CloseAuction \/ Tick \/ UNCHANGED vars
  PROVE  ChargeInv'
<1> USE DEF rows, world, local
<1>1. /\ UNCHANGED <<pc, txn, snap, deducted>>
      /\ confirmed \subseteq confirmed'
  BY DEF UserPays, PaymentFails, Decide, AdminConfirms, AdminExtends, CloseAuction, Tick, vars
<1>2. \A u \in Users : Charged(u) => Charged(u)'
  BY ChargedStays
<1>3. \A p \in Processes : ChargeHeld(p)'
  <2> TAKE p \in Processes
  <2>1. /\ ChargeHeld(p)
        /\ pc[p] \in {"mark", "paid", "count", "settle", "pick"} => txn[p].user \in Users
    BY DEF ChargeInv, TypeInv, LocalOK, Holds, TxnSteps, Txn
  <2>2. ASSUME pc[p] \in {"mark", "paid", "count", "settle", "pick"}
        PROVE  Charged(txn[p].user)'
    <3>1. PICK u \in Users : u = txn[p].user /\ Charged(u)
      BY <2>1, <2>2 DEF ChargeHeld
    <3>2. Charged(u)' /\ u = txn'[p].user
      BY <1>1, <1>2, <3>1
    <3> QED
      BY <3>2 DEF Charged
  <2> QED
    BY <1>1, <2>1, <2>2 DEF ChargeHeld
<1>4. \A u \in Users : HasPaid(u)' => HasPaid(u) \/ u \in confirmed'
  <2>1. CASE \E u \in Users : AdminConfirms(u)
    BY <2>1 DEF AdminConfirms, HasPaid, TypeInv, RowsOK
  <2>2. CASE \E u \in Users : AdminExtends(u)
    BY <2>2 DEF AdminExtends, HasPaid, TypeInv, RowsOK, WinnerRow
  <2>3. CASE CloseAuction
    BY <2>3 DEF CloseAuction, HasPaid, TypeInv, RowsOK
  <2>4. CASE (\E r \in Refs : UserPays(r) \/ PaymentFails(r)) \/ Tick \/ UNCHANGED vars
    BY <2>4 DEF UserPays, PaymentFails, Decide, Tick, vars, HasPaid
  <2> QED
    BY <2>1, <2>2, <2>3, <2>4
<1>5. auction'.payment = "PAID" => auction.payment = "PAID"
  BY DEF UserPays, PaymentFails, Decide, AdminConfirms, AdminExtends, CloseAuction, Tick, vars
<1> QED
  BY <1>1, <1>2, <1>3, <1>4, <1>5 DEF ChargeInv, PaidIsPaidFor

LEMMA NextCharges ==
  TypeInv /\ LinkInv /\ MoneyInv /\ ChargeInv /\ [Next]_vars => ChargeInv'
<1> SUFFICES ASSUME TypeInv, LinkInv, MoneyInv, ChargeInv, [Next]_vars PROVE ChargeInv'
  OBVIOUS
<1>1. CASE UNCHANGED vars
  BY <1>1, EnvironmentCharges
<1>2. ASSUME NEW p \in Processes, SettleStep(p) PROVE ChargeInv'
  BY <1>2, LearnCharges, MarkCharges DEF SettleStep, LearnStep, MarkStep
<1>3. CASE Next
  BY <1>2, <1>3, RequestCharges, PayCharges, ExpireCharges, EnvironmentCharges
  DEF Next, Processes
<1> QED
  BY <1>1, <1>3

(* Nobody's row is PAID unless the winning amount was taken from that user or
   an admin said so, and the auction is PAID only when it was taken from
   somebody: whichever rows, read before the others wrote, are saved whole by
   the payments, the deadline cron and the winner desk. *)
THEOREM PaidAreCharged == Spec => []PaidIsPaidFor
<1>1. TypeInv /\ LinkInv /\ MoneyInv /\ ChargeInv /\ [Next]_vars => ChargeInv'
  BY NextCharges
<1> QED
  BY <1>1, InitCharges, PaymentInvariant, PTL DEF Spec, ChargeInv

-----------------------------------------------------------------------------
(* When a link is paid or fails but once, what is decided is final. *)

FinalHeld(p) ==
  /\ pc[p] = "fail" => gateway[ref[p]] = "FAILED"
  /\ pc[p] \in {"read", "stamp"} => txns[ref[p]].status = "SUCCESSFUL"
  /\ pc[p] = "stamp" => txn[p].status = "SUCCESSFUL"

FinalInv ==
  /\ \A r \in Refs : txns[r] # None /\ txns[r].status = "FAILED" => gateway[r] = "FAILED"
  /\ \A e \in events : e.outcome = "FAILED" => gateway[e.ref] = "FAILED"
  /\ \A p \in Processes : FinalHeld(p)
  /\ OneSettles

LEMMA InitFinal == Init => FinalInv
BY DEF Init, FinalInv, FinalHeld, OneSettles

\* A decision of the provider stays, and so does a SUCCESSFUL row.
Final ==
  /\ \A r \in Refs : gateway[r] = "FAILED" => gateway'[r] = "FAILED"
  /\ \A r \in Refs : txns[r] # None /\ txns[r].status = "SUCCESSFUL" =>
       txns'[r].status = "SUCCESSFUL"

\* Rows that say FAILED say what the provider says.
RowsFinal ==
  \A r \in Refs : txns'[r] # None /\ txns'[r].status = "FAILED" => gateway'[r] = "FAILED"

\* p settles a payment that nobody settles.
LEMMA FinalStep ==
  ASSUME TypeInv, FinalInv, NEW p \in Processes, OthersStay(p), Final, RowsFinal,
         UNCHANGED events, FinalHeld(p)',
         pc'[p] \in {"read", "stamp"} =>
           \/ pc[p] \in {"read", "stamp"} /\ ref'[p] = ref[p]
           \/ ref'[p] \in Refs /\ Unsettled(ref'[p])
  PROVE  FinalInv'
<1>1. \A q \in Processes : pc[q] \in {"fail", "read", "stamp"} => ref[q] \in Refs
  BY DEF TypeInv, LocalOK, Holds, RefSteps
<1>2. \A q \in Processes : pc[q] \in {"read", "stamp"} =>
        txns[ref[q]] # None /\ txns[ref[q]].status = "SUCCESSFUL"
  BY DEF TypeInv, LocalOK, Holds, FinalInv, FinalHeld
<1>3. \A q \in Processes \ {p} : FinalHeld(q)'
  <2> TAKE q \in Processes \ {p}
  <2>1. FinalHeld(q)
    BY DEF FinalInv
  <2> QED
    BY <1>1, <1>2, <2>1 DEF FinalHeld, OthersStay, Final
<1>4. OneSettles'
  <2> SUFFICES ASSUME NEW q \in Processes, NEW o \in Processes,
                      pc'[q] \in {"read", "stamp"}, pc'[o] \in {"read", "stamp"},
                      ref'[q] = ref'[o]
               PROVE  q = o
    BY DEF OneSettles
  <2>1. CASE q # p /\ o # p
    BY <2>1 DEF OthersStay, FinalInv, OneSettles
  <2>2. ASSUME NEW a \in Processes \ {p}, pc'[a] \in {"read", "stamp"},
               pc'[p] \in {"read", "stamp"}, ref'[a] = ref'[p]
        PROVE  FALSE
    <3>1. pc[a] \in {"read", "stamp"} /\ ref[a] = ref'[p]
      BY <2>2 DEF OthersStay
    <3>2. ~Unsettled(ref[a])
      BY <1>2, <3>1 DEF Unsettled
    <3>3. pc[p] \in {"read", "stamp"} /\ ref[p] = ref[a]
      BY <2>2, <3>1, <3>2
    <3> QED
      BY <3>1, <3>3 DEF FinalInv, OneSettles
  <2> QED
    BY <2>1, <2>2
<1>5. \A e \in events : e.ref \in Refs
  BY DEF TypeInv, WorldOK, Event
<1> QED
  BY <1>3, <1>4, <1>5 DEF FinalInv, RowsFinal, Final

\* A step that has to do with no link.
LEMMA QuietFinal ==
  ASSUME TypeInv, FinalInv, NEW p \in Processes, OthersStay(p),
         UNCHANGED <<txns, gateway, events>>, pc'[p] \notin {"fail", "read", "stamp"}
  PROVE  FinalInv'
<1>1. FinalHeld(p)'
  BY DEF FinalHeld
<1>2. Final /\ RowsFinal
  BY DEF Final, RowsFinal, FinalInv
<1> QED
  BY <1>1, <1>2, FinalStep

LEMMA LearnFinal ==
  ASSUME TypeInv, LinkInv, FinalInv, NEW p \in Processes, LearnStep(p)
  PROVE  FinalInv'
<1> USE DEF rows, world, local
<1>0. /\ OthersStay(p) /\ UNCHANGED <<gateway, events>>
      /\ ref[p] \in Refs /\ txns[ref[p]] \in Txn \cup {None}
  BY StepIsLocal DEF LearnStep, SettleStep, Answered, StillOpen, RecordFailure, RecordSuccess,
     ReadTransaction, StampTransaction, RefSteps, TypeInv, LocalOK, Holds, RowsOK
<1>1. UNCHANGED txns => Final /\ RowsFinal
  BY <1>0 DEF Final, RowsFinal, FinalInv
<1>2. ASSUME NEW t \in Txn, txns' = [txns EXCEPT ![ref[p]] = t],
             t.status = "FAILED" => gateway[ref[p]] = "FAILED",
             t.status # "SUCCESSFUL" /\ txns[ref[p]] # None =>
               txns[ref[p]].status # "SUCCESSFUL"
      PROVE  Final /\ RowsFinal
  <2>1. txns'[ref[p]] = t /\ \A s \in Refs \ {ref[p]} : txns'[s] = txns[s]
    BY <1>0, <1>2 DEF TypeInv, RowsOK
  <2> QED
    BY <1>0, <1>2, <2>1 DEF Final, RowsFinal, FinalInv
<1>3. ASSUME NEW status \in Outcomes, txns[ref[p]] # None,
             txns' = [txns EXCEPT ![ref[p]].status = status]
      PROVE  \E t \in Txn : t.status = status /\ txns' = [txns EXCEPT ![ref[p]] = t]
  <2> DEFINE t == [txns[ref[p]] EXCEPT !.status = status]
  <2>1. t \in Txn /\ t.status = status
    BY <1>0, <1>3 DEF Txn
  <2>2. txns' = [txns EXCEPT ![ref[p]] = t]
    BY <1>0, <1>3 DEF TypeInv, RowsOK
  <2> HIDE DEF t
  <2> QED
    BY <2>1, <2>2
<1>4. CASE Answered(p)
  <2>1. /\ UNCHANGED <<txns, ref>> /\ pc'[p] \in {"succeed", "fail"}
        /\ pc'[p] = "fail" => gateway[ref[p]] = "FAILED"
    BY <1>4 DEF Answered, Goto, Outcomes, TypeInv, LocalOK
  <2>2. FinalHeld(p)'
    BY <1>0, <2>1 DEF FinalHeld
  <2> QED
    BY <1>0, <1>1, <2>1, <2>2, FinalStep
<1>5. CASE StillOpen(p)
  BY <1>0, <1>5, QuietFinal DEF StillOpen, Return, Goto, TypeInv, LocalOK
<1>6. CASE RecordFailure(p)
  <2>1. pc'[p] = "idle" /\ gateway[ref[p]] = "FAILED"
    BY <1>6 DEF RecordFailure, Return, Goto, TypeInv, LocalOK, FinalInv, FinalHeld
  <2>2. Final /\ RowsFinal
    <3>1. CASE txns[ref[p]] = None
      BY <1>1, <1>6, <3>1 DEF RecordFailure
    <3>2. CASE txns[ref[p]] # None
      <4>1. PICK t \in Txn : t.status = "FAILED" /\ txns' = [txns EXCEPT ![ref[p]] = t]
        BY <1>3, <1>6, <3>2 DEF RecordFailure, Outcomes
      <4>2. txns[ref[p]].status # "SUCCESSFUL"
        BY <1>0, <2>1, <3>2 DEF LinkInv
      <4> QED
        BY <1>2, <2>1, <4>1, <4>2
    <3> QED
      BY <3>1, <3>2
  <2>3. FinalHeld(p)'
    BY <2>1 DEF FinalHeld
  <2> QED
    BY <1>0, <2>1, <2>2, <2>3, FinalStep
<1>7. CASE RecordSuccess(p)
  <2>1. CASE Unsettled(ref[p])
    <3>1. pc'[p] = "read" /\ ref' = ref
      BY <1>7, <2>1 DEF RecordSuccess, Goto, TypeInv, LocalOK
    <3>2. PICK t \in Txn : t.status = "SUCCESSFUL" /\ txns' = [txns EXCEPT ![ref[p]] = t]
      BY <1>3, <1>7, <2>1 DEF RecordSuccess, Unsettled, Outcomes
    <3>3. Final /\ RowsFinal
      BY <1>2, <3>2
    <3>4. txns'[ref[p]] = t
      BY <1>0, <3>2 DEF TypeInv, RowsOK
    <3>5. FinalHeld(p)'
      BY <3>1, <3>2, <3>4 DEF FinalHeld
    <3> QED
      BY <1>0, <2>1, <3>1, <3>3, <3>5, FinalStep
  <2>2. CASE ~Unsettled(ref[p])
    BY <1>0, <1>7, <2>2, QuietFinal DEF RecordSuccess, Return, Goto, TypeInv, LocalOK
  <2> QED
    BY <2>1, <2>2
<1>8. CASE ReadTransaction(p)
  <2>1. /\ pc[p] = "read" /\ pc'[p] = "stamp" /\ txn'[p] = txns[ref[p]] /\ UNCHANGED <<txns, ref>>
    BY <1>8 DEF ReadTransaction, Hold, Goto, TypeInv, LocalOK
  <2>2. FinalHeld(p)'
    BY <2>1 DEF FinalHeld, FinalInv
  <2> QED
    BY <1>0, <1>1, <2>1, <2>2, FinalStep
<1>9. CASE StampTransaction(p)
  <2>1. /\ pc[p] = "stamp" /\ pc'[p] \in {"mark", "idle"}
        /\ txns' = [txns EXCEPT ![ref[p]] = txn[p]]
    BY <1>9 DEF StampTransaction, Return, Goto, TypeInv, LocalOK
  <2>2. txn[p] \in Txn /\ txn[p].status = "SUCCESSFUL"
    BY <2>1 DEF FinalInv, FinalHeld, TypeInv, LocalOK, Holds, TxnSteps
  <2>3. Final /\ RowsFinal
    BY <1>2, <2>1, <2>2
  <2>4. FinalHeld(p)'
    BY <2>1 DEF FinalHeld
  <2> QED
    BY <1>0, <2>1, <2>3, <2>4, FinalStep
<1> QED
  BY <1>4, <1>5, <1>6, <1>7, <1>8, <1>9 DEF LearnStep

LEMMA PayFinal ==
  ASSUME TypeInv, LinkInv, FinalInv, NEW p \in Processes, PayStep(p)
  PROVE  FinalInv'
<1> USE DEF rows, world, local
<1>0. OthersStay(p)
  BY StepIsLocal
<1>1. CASE \/ Reuse(p) \/ PayAnew(p) \/ RefuseDeduction(p) \/ Deduct(p) \/ SaveDebit(p)
           \/ AssignNext(p)
  <2>1. pc'[p] \in {"idle", "link", "wallet", "debited", "mark"}
    BY <1>1 DEF Reuse, PayAnew, RefuseDeduction, Deduct, SaveDebit, AssignNext, Return, Goto,
       TypeInv, LocalOK
  <2>2. UNCHANGED <<txns, gateway, events>>
    BY <1>1 DEF Reuse, PayAnew, RefuseDeduction, Deduct, SaveDebit, AssignNext
  <2> QED
    BY <1>0, <2>1, <2>2, QuietFinal
<1>2. CASE OpenLink(p)
  <2>1. PICK r \in Refs : Fresh(r) /\ gateway' = [gateway EXCEPT ![r] = "OPEN"]
    BY <1>2 DEF OpenLink
  <2>2. gateway[r] = None /\ \A s \in Refs \ {r} : gateway'[s] = gateway[s]
    BY <2>1 DEF Fresh, TypeInv, WorldOK
  <2>3. None # "FAILED"
    BY PaymentAssumption
  <2>4. /\ pc'[p] = "save" /\ UNCHANGED <<txns, events>>
    BY <1>2 DEF OpenLink, Goto, TypeInv, LocalOK
  <2>5. Final /\ RowsFinal
    BY <2>2, <2>3, <2>4 DEF Final, RowsFinal, FinalInv
  <2>6. FinalHeld(p)'
    BY <2>4 DEF FinalHeld
  <2> QED
    BY <1>0, <2>4, <2>5, <2>6, FinalStep
<1>3. CASE SaveLink(p)
  <2>1. /\ ref[p] \in Refs /\ txns[ref[p]] = None /\ txn[p].status = "PENDING"
        /\ pc'[p] = "idle" /\ UNCHANGED <<gateway, events>>
    BY <1>3 DEF SaveLink, Return, Goto, TypeInv, LocalOK, Holds, LinkInv, LinkHeld
  <2>2. txns'[ref[p]] = txn[p] /\ \A s \in Refs \ {ref[p]} : txns'[s] = txns[s]
    BY <1>3, <2>1 DEF SaveLink, TypeInv, RowsOK
  <2>3. Final /\ RowsFinal
    BY <2>1, <2>2 DEF Final, RowsFinal, FinalInv
  <2>4. FinalHeld(p)'
    BY <2>1 DEF FinalHeld
  <2> QED
    BY <1>0, <2>1, <2>3, <2>4, FinalStep
<1> QED
  BY <1>1, <1>2, <1>3 DEF PayStep

LEMMA OtherFinal ==
  ASSUME TypeInv, FinalInv, NEW p \in Processes,
         \/ RequestStep(p) \/ (\E r \in Refs : FindPending(p, r))
         \/ ExpireStep(p) \/ MarkStep(p) \/ Fail(p)
  PROVE  FinalInv'
<1> USE DEF rows, world, local
<1>0. OthersStay(p)
  BY StepIsLocal DEF MarkStep, SettleStep
<1>1. CASE DeliverWebhook(p)
  <2>1. PICK e \in events : /\ ref' = Hold(ref, p, e.ref)
                            /\ Goto(p, IF e.outcome = "SUCCESSFUL" THEN "succeed" ELSE "fail")
    BY <1>1 DEF DeliverWebhook
  <2>2. /\ ref'[p] = e.ref /\ pc'[p] \in {"succeed", "fail"}
        /\ pc'[p] = "fail" => e.outcome # "SUCCESSFUL"
        /\ UNCHANGED <<txns, gateway, events>>
    BY <1>1, <2>1 DEF DeliverWebhook, Hold, Goto, TypeInv, LocalOK
  <2>3. e.outcome \in Outcomes
    BY DEF TypeInv, WorldOK, Event
  <2>4. FinalHeld(p)'
    BY <2>2, <2>3 DEF FinalHeld, FinalInv, Outcomes
  <2>5. Final /\ RowsFinal
    BY <2>2 DEF Final, RowsFinal, FinalInv
  <2> QED
    BY <1>0, <2>2, <2>4, <2>5, FinalStep
<1>2. CASE \/ AskForLink(p) \/ AskForWallet(p) \/ ConfirmWinning(p) \/ RotateOut(p)
           \/ \E r \in Refs : FindPending(p, r)
  <2>1. pc'[p] \in {"reuse", "mark", "assign", "ask"} /\ UNCHANGED <<txns, gateway, events>>
    BY <1>2 DEF AskForLink, AskForWallet, Ask, ConfirmWinning, RotateOut, FindPending, Goto,
       TypeInv, LocalOK
  <2> QED
    BY <1>0, <2>1, QuietFinal
<1>3. CASE ExpireStep(p) \/ Fail(p)
  <2>1. pc'[p] \notin {"fail", "read", "stamp"} /\ UNCHANGED <<txns, gateway, events>>
    BY <1>3 DEF ExpireStep, FindOverdue, ExpireWinner, AwardNext, AwardNobody, VoidUnpaid,
       ExpireAuction, Fail, Return, Goto, TypeInv, LocalOK
  <2> QED
    BY <1>0, <2>1, QuietFinal
<1>4. CASE MarkStep(p)
  <2>1. pc'[p] \notin {"fail", "read", "stamp"} /\ UNCHANGED <<txns, gateway, events>>
    BY <1>4 DEF MarkStep, ReadAuction, MarkWinner, CountUnpaid, SettleAuction, PickNext,
       PickNobody, PromoteWinner, InstallWinner, Return, Goto, TypeInv, LocalOK
  <2> QED
    BY <1>0, <2>1, QuietFinal
<1> QED
  BY <1>1, <1>2, <1>3, <1>4 DEF RequestStep

LEMMA EnvironmentFinal ==
  ASSUME ~Retries, TypeInv, LinkInv, FinalInv,
         \/ \E r \in Refs : UserPays(r) \/ PaymentFails(r)
         \/ \E u \in Users : AdminConfirms(u) \/ AdminExtends(u)
         \/ CloseAuction \/ Tick \/ UNCHANGED vars
  PROVE  FinalInv'
<1> USE DEF rows, world, local
<1>1. ASSUME NEW r \in Refs, UserPays(r) \/ PaymentFails(r) PROVE FinalInv'
  <2>1. PICK outcome \in Outcomes : Decide(r, outcome) /\ gateway[r] = "OPEN"
    BY <1>1 DEF UserPays, PaymentFails, Outcomes
  <2>2. gateway'[r] = outcome /\ \A s \in Refs \ {r} : gateway'[s] = gateway[s]
    BY <2>1 DEF Decide, TypeInv, WorldOK
  <2>3. \A e \in events : e.ref \in Refs
    BY DEF TypeInv, WorldOK, Event
  <2>4. \A e \in events' : e.outcome = "FAILED" => gateway'[e.ref] = "FAILED"
    BY <2>1, <2>2, <2>3 DEF Decide, FinalInv
  <2>5. \A p \in Processes : pc[p] = "fail" => ref[p] \in Refs
    BY DEF TypeInv, LocalOK, Holds, RefSteps
  <2> QED
    BY <2>1, <2>2, <2>4, <2>5 DEF Decide, FinalInv, FinalHeld, OneSettles
<1>2. CASE \/ \E u \in Users : AdminConfirms(u) \/ AdminExtends(u)
           \/ CloseAuction \/ Tick \/ UNCHANGED vars
  <2>1. UNCHANGED <<txns, gateway, events, pc, ref, txn>>
    BY <1>2 DEF AdminConfirms, AdminExtends, CloseAuction, Tick, vars
  <2> QED
    BY <2>1 DEF FinalInv, FinalHeld, OneSettles
<1> QED
  BY <1>1, <1>2

LEMMA NextFinal ==
  ASSUME ~Retries
  PROVE  TypeInv /\ LinkInv /\ FinalInv /\ [Next]_vars => FinalInv'
<1> SUFFICES ASSUME TypeInv, LinkInv, FinalInv, [Next]_vars PROVE FinalInv'
  OBVIOUS
<1>1. CASE UNCHANGED vars
  BY <1>1, EnvironmentFinal
<1>2. ASSUME NEW p \in Processes, SettleStep(p) PROVE FinalInv'
  BY <1>2, LearnFinal, OtherFinal DEF SettleStep, LearnStep, MarkStep
<1>3. CASE Next
  BY <1>2, <1>3, PayFinal, OtherFinal, EnvironmentFinal DEF Next, Processes
<1> QED
  BY <1>1, <1>3

LEMMA FinalInvariant ==
  ASSUME ~Retries
  PROVE  Spec => [](TypeInv /\ LinkInv /\ FinalInv)
<1>1. TypeInv /\ LinkInv /\ FinalInv /\ [Next]_vars => FinalInv'
  BY NextFinal
<1> QED
  BY <1>1, InitFinal, PaymentInvariant, PTL DEF Spec

(* Of all that learn of one payment exactly one goes on to mark it, unless the
   provider changes its mind on a link that failed. *)
THEOREM OneAtATime ==
  ASSUME ~Retries
  PROVE  Spec => []OneSettles
<1>1. FinalInv => OneSettles
  BY DEF FinalInv
<1> QED
  BY <1>1, FinalInvariant, PTL

-----------------------------------------------------------------------------
(* Settlement, which says what is promised of payments through the provider. *)

Known == [r \in Refs |-> IF txns[r] = None THEN None ELSE txns[r].status]

LEMMA InitRefines == Init => Promise!Init
BY DEF Init, Promise!Init

\* A step that writes the row of one link writes its status only.
LEMMA KnownStep ==
  ASSUME NEW r \in Refs, NEW status, \A s \in Refs \ {r} : txns'[s] = txns[s],
         (IF txns'[r] = None THEN None ELSE txns'[r].status) = status
  PROVE  Known' = [Known EXCEPT ![r] = status]
BY DEF Known

LEMMA StepRefines ==
  ASSUME ~Retries, TypeInv, LinkInv, FinalInv, [Next]_vars
  PROVE  \/ \E r \in Refs : Promise!Open(r) \/ Promise!Register(r) \/ Promise!Decide(r)
                            \/ Promise!Learn(r)
         \/ UNCHANGED <<gateway, Known>>
<1> USE DEF rows, world, local
<1> DEFINE Refined == \/ \E r \in Refs : Promise!Open(r) \/ Promise!Register(r)
                                         \/ Promise!Decide(r) \/ Promise!Learn(r)
                      \/ UNCHANGED <<gateway, Known>>
<1>1. UNCHANGED txns => UNCHANGED Known
  BY DEF Known
<1>2. CASE UNCHANGED <<txns, gateway>>
  BY <1>1, <1>2
<1>3. ASSUME NEW p \in Processes, OpenLink(p) PROVE Refined
  <2>1. PICK r \in Refs : gateway[r] = None /\ gateway' = [gateway EXCEPT ![r] = "OPEN"]
    BY <1>3 DEF OpenLink, Fresh
  <2>2. UNCHANGED Known
    BY <1>1, <1>3 DEF OpenLink
  <2>3. Promise!Open(r)
    BY <2>1, <2>2 DEF Promise!Open, Known
  <2> QED
    BY <2>3
<1>4. ASSUME NEW r \in Refs, UserPays(r) \/ PaymentFails(r) PROVE Refined
  <2>1. PICK outcome \in Outcomes : Decide(r, outcome) /\ gateway[r] = "OPEN"
    BY <1>4 DEF UserPays, PaymentFails, Outcomes
  <2>2. UNCHANGED Known /\ gateway' = [gateway EXCEPT ![r] = outcome]
    BY <1>1, <2>1 DEF Decide
  <2>3. Promise!Decide(r)
    BY <2>1, <2>2 DEF Promise!Decide, Promise!Outcomes, Outcomes, Known
  <2> QED
    BY <2>3
<1>5. ASSUME NEW p \in Processes, SaveLink(p) PROVE Refined
  <2>1. /\ ref[p] \in Refs /\ txn[p] \in Txn /\ txns[ref[p]] = None /\ gateway[ref[p]] # None
        /\ txn[p].status = "PENDING" /\ UNCHANGED gateway
    BY <1>5 DEF SaveLink, TypeInv, LocalOK, Holds, TxnSteps, LinkInv, LinkHeld
  <2>2. txns'[ref[p]] = txn[p] /\ \A s \in Refs \ {ref[p]} : txns'[s] = txns[s]
    BY <1>5, <2>1 DEF SaveLink, TypeInv, RowsOK
  <2>3. txn[p] # None
    BY <2>1, PaymentAssumption
  <2>4. Known' = [Known EXCEPT ![ref[p]] = "PENDING"]
    BY <2>1, <2>2, <2>3, KnownStep
  <2>5. PICK r \in Refs : r = ref[p]
    BY <2>1
  <2>6. Promise!Register(r)
    BY <2>1, <2>4, <2>5 DEF Promise!Register, Known
  <2> QED
    BY <2>6
\* A row that becomes or stays what the provider has decided.
<1>6. ASSUME NEW r \in Refs, NEW t \in Txn, txns[r] # None, txns' = [txns EXCEPT ![r] = t],
             gateway[r] = t.status, t.status \in Outcomes, UNCHANGED gateway
      PROVE  Refined
  <2>1. txns'[r] = t /\ \A s \in Refs \ {r} : txns'[s] = txns[s]
    BY <1>6 DEF TypeInv, RowsOK
  <2>2. t # None
    BY PaymentAssumption
  <2>3. Known' = [Known EXCEPT ![r] = gateway[r]]
    BY <1>6, <2>1, <2>2, KnownStep
  <2>4. txns[r] \in Txn
    BY <1>6 DEF TypeInv, RowsOK
  <2>5. CASE txns[r].status = "PENDING"
    <3>1. Promise!Learn(r)
      BY <1>6, <2>3, <2>5 DEF Promise!Learn, Promise!Outcomes, Outcomes, Known
    <3> QED
      BY <3>1
  <2>6. CASE txns[r].status # "PENDING"
    <3>1. txns[r].status = gateway[r]
      BY <1>6, <2>4, <2>6 DEF Txn, Outcomes, LinkInv, FinalInv
    <3>2. UNCHANGED Known
      BY <1>6, <2>3, <3>1 DEF Known
    <3> QED
      BY <1>6, <3>2
  <2> QED
    BY <2>5, <2>6
<1>7. ASSUME NEW p \in Processes, RecordFailure(p) \/ RecordSuccess(p), ~UNCHANGED txns
      PROVE  Refined
  <2>1. /\ ref[p] \in Refs /\ txns[ref[p]] # None /\ txns[ref[p]] \in Txn /\ UNCHANGED gateway
    BY <1>7 DEF RecordFailure, RecordSuccess, Unsettled, TypeInv, RowsOK, LocalOK, Holds, RefSteps
  <2>2. PICK status \in Outcomes : /\ gateway[ref[p]] = status
                                   /\ txns' = [txns EXCEPT ![ref[p]].status = status]
    BY <1>7 DEF RecordFailure, RecordSuccess, LinkInv, LinkHeld, FinalInv, FinalHeld, Outcomes
  <2> DEFINE t == [txns[ref[p]] EXCEPT !.status = status]
  <2>3. t \in Txn /\ t.status = status
    BY <2>1 DEF Txn
  <2>4. txns' = [txns EXCEPT ![ref[p]] = t]
    BY <2>1, <2>2 DEF TypeInv, RowsOK
  <2> HIDE DEF t
  <2> QED
    BY <1>6, <2>1, <2>2, <2>3, <2>4
<1>8. ASSUME NEW p \in Processes, StampTransaction(p) PROVE Refined
  <2>1. /\ ref[p] \in Refs /\ txns[ref[p]] # None /\ txn[p] \in Txn
        /\ txn[p].status = "SUCCESSFUL" /\ gateway[ref[p]] = "SUCCESSFUL" /\ UNCHANGED gateway
        /\ txns' = [txns EXCEPT ![ref[p]] = txn[p]]
    BY <1>8 DEF StampTransaction, TypeInv, LocalOK, Holds, TxnSteps, RefSteps, LinkInv, LinkHeld,
       FinalInv, FinalHeld
  <2> QED
    BY <1>6, <2>1 DEF Outcomes
<1> HIDE DEF Refined
<1>9. CASE Next
  <2>1. ASSUME NEW p \in Processes, RequestStep(p) \/ \E r \in Refs : FindPending(p, r)
        PROVE  UNCHANGED <<txns, gateway>>
    BY <2>1 DEF RequestStep, AskForLink, AskForWallet, Ask, ConfirmWinning, RotateOut,
       DeliverWebhook, FindPending
  <2>2. ASSUME NEW p \in Processes, PayStep(p)
        PROVE  UNCHANGED <<txns, gateway>> \/ OpenLink(p) \/ SaveLink(p)
    BY <2>2 DEF PayStep, Reuse, PayAnew, Deduct, RefuseDeduction, SaveDebit, AssignNext
  <2>3. ASSUME NEW p \in Processes, ExpireStep(p) \/ MarkStep(p) \/ Fail(p)
        PROVE  UNCHANGED <<txns, gateway>>
    BY <2>3 DEF ExpireStep, FindOverdue, ExpireWinner, AwardNext, AwardNobody, VoidUnpaid,
       ExpireAuction, MarkStep, ReadAuction, MarkWinner, CountUnpaid, SettleAuction, PickNext,
       PickNobody, PromoteWinner, InstallWinner, Fail
  <2>4. ASSUME NEW p \in Processes, LearnStep(p)
        PROVE  \/ UNCHANGED <<txns, gateway>>
               \/ (RecordFailure(p) \/ RecordSuccess(p)) /\ ~UNCHANGED txns
               \/ StampTransaction(p)
    BY <2>4 DEF LearnStep, Answered, StillOpen, RecordFailure, RecordSuccess, ReadTransaction
  <2>5. ASSUME NEW p \in Processes, SettleStep(p) PROVE LearnStep(p) \/ MarkStep(p)
    BY <2>5 DEF SettleStep, LearnStep, MarkStep
  <2>6. ASSUME \/ \E u \in Users : AdminConfirms(u) \/ AdminExtends(u)
               \/ CloseAuction \/ Tick
        PROVE  UNCHANGED <<txns, gateway>>
    BY <2>6 DEF AdminConfirms, AdminExtends, CloseAuction, Tick
  <2>7. \/ UNCHANGED <<txns, gateway>>
        \/ \E p \in Processes : \/ OpenLink(p) \/ SaveLink(p) \/ StampTransaction(p)
                                \/ (RecordFailure(p) \/ RecordSuccess(p)) /\ ~UNCHANGED txns
        \/ \E r \in Refs : UserPays(r) \/ PaymentFails(r)
    BY <1>9, <2>1, <2>2, <2>3, <2>4, <2>5, <2>6 DEF Next, Processes
  <2> QED
    BY <1>2, <1>3, <1>4, <1>5, <1>7, <1>8, <2>7 DEF Refined
<1>10. CASE UNCHANGED vars
  BY <1>2, <1>10 DEF vars
<1> QED
  BY <1>9, <1>10 DEF Refined

(* The transactions implement what is promised of them: each says what the
   provider has decided, once it knows, and never takes it back, in whichever
   order webhooks, polls and crons read and write the rows. *)
THEOREM TransactionsFollow ==
  ASSUME ~Retries
  PROVE  Spec => FollowsProvider
<1>1. TypeInv /\ LinkInv /\ FinalInv /\ [Next]_vars =>
        [Promise!Next]_<<gateway, [r \in Refs |-> IF txns[r] = None THEN None ELSE txns[r].status]>>
  BY StepRefines DEF Promise!Next, Known
<1> QED
  BY <1>1, InitRefines, FinalInvariant, PTL DEF Spec, FollowsProvider, Promise!Safe

=============================================================================
