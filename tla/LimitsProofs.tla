---------------------------- MODULE LimitsProofs ----------------------------
(***************************************************************************)
(* Theorems of the counters and the one-time passwords, for any number of  *)
(* requests, codes and failures, any limits and any windows.               *)
(***************************************************************************)
EXTENDS Limits, FiniteSetTheorems, TLAPS

LEMMA InitType == Init => TypeOK
<1> SUFFICES ASSUME Init PROVE TypeOK
  OBVIOUS
<1>1. issued \in 0..MaxCodes
  BY LimitsAssumption DEF Init
<1> QED
  BY <1>1 DEF Init, TypeOK, Keys, Steps

\* What Leave and Enter leave of a request.
LEMMA LeaveType ==
  ASSUME TypeOK, NEW r \in Requests, Leave(r)
  PROVE  /\ pc' \in [Requests -> Steps]
         /\ key' \in [Requests -> Keys \cup {None}]
         /\ got' \in [Requests -> Nat]
         /\ seen' \in [Requests -> OtpRow \cup {None}]
         /\ \A q \in Requests :
              /\ pc'[q] # "idle" => key'[q] \in Keys
              /\ pc'[q] \in {"delete", "mark"} => seen'[q] \in OtpRow
BY DEF Leave, Goto, TypeOK, Steps

LEMMA EnterType ==
  ASSUME TypeOK, NEW r \in Requests, NEW k \in Keys, NEW n, Enter(r, k, n)
  PROVE  /\ pc' \in [Requests -> Steps]
         /\ key' \in [Requests -> Keys \cup {None}]
         /\ got' \in [Requests -> Nat]
         /\ seen' \in [Requests -> OtpRow \cup {None}]
         /\ \A q \in Requests :
              /\ pc'[q] # "idle" => key'[q] \in Keys
              /\ pc'[q] \in {"delete", "mark"} => seen'[q] \in OtpRow
<1>1. CASE ~Passes(k, n) \/ k \in {"gate", "api"}
  BY <1>1, LeaveType DEF Enter
<1>2. CASE ~(~Passes(k, n) \/ k \in {"gate", "api"})
  BY <1>2 DEF Enter, Goto, TypeOK, Steps
<1> QED
  BY <1>1, <1>2

LEMMA WaitType ==
  ASSUME TypeOK, NEW r \in Requests, NEW k \in Keys, NEW n \in Nat,
         NEW step \in {"arm", "ttl"}, Wait(r, k, n, step)
  PROVE  /\ pc' \in [Requests -> Steps]
         /\ key' \in [Requests -> Keys \cup {None}]
         /\ got' \in [Requests -> Nat]
         /\ seen' \in [Requests -> OtpRow \cup {None}]
         /\ \A q \in Requests :
              /\ pc'[q] # "idle" => key'[q] \in Keys
              /\ pc'[q] \in {"delete", "mark"} => seen'[q] \in OtpRow
BY DEF Wait, Goto, TypeOK, Steps

\* A row with a new code.
LEMMA IssueType ==
  ASSUME TypeOK, issued < MaxCodes, NEW id \in Codes, Issue(id)
  PROVE  otp' \in OtpRow /\ issued' \in 0..MaxCodes
<1>1. issued \in Nat /\ issued + 1 \in Codes /\ issued + 1 \in 0..MaxCodes
  BY LimitsAssumption DEF TypeOK, Codes
<1>2. Lifetime \in 0..Lifetime
  BY LimitsAssumption
<1> QED
  BY <1>1, <1>2 DEF Issue, OtpRow

LEMMA IncrementType ==
  ASSUME TypeOK, NEW r \in Requests, Increment(r)
  PROVE  TypeOK'
<1> USE LimitsAssumption
<1>1. PICK k \in scope :
        /\ count' = [count EXCEPT ![k] = IF @ <= Max[k] THEN @ + 1 ELSE @]
        /\ IF IsFirst(count'[k]) THEN Wait(r, k, count'[k], "arm")
           ELSE IF k = "api"     THEN Wait(r, k, count'[k], "ttl")
           ELSE Enter(r, k, count'[k])
  BY DEF Increment
<1>2. k \in Keys /\ count' \in [Keys -> Nat] /\ count'[k] \in Nat
  BY <1>1 DEF TypeOK
<1>3. \/ Wait(r, k, count'[k], "arm")
      \/ Wait(r, k, count'[k], "ttl")
      \/ Enter(r, k, count'[k])
  BY <1>1
<1>4. UNCHANGED <<scope, ttl, orphaned, otp, issued, compared, used, faults>>
  BY DEF Increment, codes
<1> HIDE DEF TypeOK
<1>5. CASE Wait(r, k, count'[k], "arm")
  BY <1>2, <1>4, <1>5, WaitType DEF TypeOK
<1>6. CASE Wait(r, k, count'[k], "ttl")
  BY <1>2, <1>4, <1>6, WaitType DEF TypeOK
<1>7. CASE Enter(r, k, count'[k])
  BY <1>2, <1>4, <1>7, EnterType DEF TypeOK
<1> QED
  BY <1>3, <1>5, <1>6, <1>7

LEMMA ContinueType ==
  ASSUME TypeOK, NEW r \in Requests, Continue(r)
  PROVE  TypeOK'
<1> USE LimitsAssumption DEF counters, codes
<1>1. CASE AskTtl(r)
  <2>1. CASE count[key[r]] > 0 /\ ttl[key[r]] = None
    BY <1>1, <2>1 DEF AskTtl, Goto, TypeOK, Steps
  <2>2. CASE ~(count[key[r]] > 0 /\ ttl[key[r]] = None)
    <3>1. key[r] \in Keys /\ Enter(r, key[r], got[r])
      BY <1>1, <2>2 DEF AskTtl, TypeOK
    <3> QED
      BY <1>1, <3>1, EnterType DEF AskTtl, TypeOK
  <2> QED
    BY <2>1, <2>2
<1>2. CASE Arm(r)
  <2>1. key[r] \in Keys /\ Enter(r, key[r], got[r])
    BY <1>2 DEF Arm, TypeOK
  <2>2. ttl' \in [Keys -> (Nat \ {0}) \cup {None}] /\ orphaned' \subseteq Keys
    BY <1>2, <2>1 DEF Arm, TypeOK
  <2> QED
    BY <1>2, <2>1, <2>2, EnterType DEF Arm, TypeOK
<1>3. CASE LookUp(r)
  BY <1>3 DEF LookUp, Goto, TypeOK, Steps
<1>4. CASE UpdateOtp(r)
  <2>1. otp' \in OtpRow \cup {None} /\ issued' \in 0..MaxCodes
    <3>1. CASE otp = None
      BY <1>4, <3>1 DEF UpdateOtp, TypeOK
    <3>2. CASE otp # None
      <4>1. otp.id \in Codes /\ Issue(otp.id) /\ issued < MaxCodes
        BY <1>4, <3>2 DEF UpdateOtp, TypeOK, OtpRow
      <4> QED
        BY <4>1, IssueType
    <3> QED
      BY <3>1, <3>2
  <2> QED
    BY <1>4, <2>1, LeaveType DEF UpdateOtp, TypeOK
<1>5. CASE CreateOtp(r)
  <2>1. otp' \in OtpRow \cup {None} /\ issued' \in 0..MaxCodes
    <3>1. CASE otp # None
      BY <1>5, <3>1 DEF CreateOtp, TypeOK
    <3>2. CASE otp = None
      <4>1. issued + 1 \in Codes /\ Issue(issued + 1) /\ issued < MaxCodes
        BY <1>5, <3>2 DEF CreateOtp, TypeOK, Codes
      <4> QED
        BY <4>1, IssueType
    <3> QED
      BY <3>1, <3>2
  <2> QED
    BY <1>5, <2>1, LeaveType DEF CreateOtp, TypeOK
<1>6. CASE FindOtp(r)
  <2>1. CASE ~Open(otp)
    BY <1>6, <2>1, LeaveType DEF FindOtp, TypeOK
  <2>2. CASE Open(otp) /\ otp.left = 0
    <3>1. otp \in OtpRow
      BY <2>2 DEF Open, TypeOK
    <3> QED
      BY <1>6, <2>2, <3>1 DEF FindOtp, Remember, Goto, TypeOK, Steps
  <2>3. CASE Open(otp) /\ otp.left # 0
    <3>1. otp \in OtpRow /\ otp.code \in Codes
      BY <2>3 DEF Open, TypeOK, OtpRow
    <3>2. compared' \in [Codes -> Nat]
      BY <1>6, <2>3, <3>1 DEF FindOtp, TypeOK
    <3>3. Remember(r, otp, "mark") \/ Leave(r)
      BY <1>6, <2>3 DEF FindOtp
    <3>4. CASE Remember(r, otp, "mark")
      BY <1>6, <3>1, <3>2, <3>4 DEF FindOtp, Remember, Goto, TypeOK, Steps
    <3>5. CASE Leave(r)
      BY <1>6, <3>2, <3>5, LeaveType DEF FindOtp, TypeOK
    <3> QED
      BY <3>3, <3>4, <3>5
  <2> QED
    BY <2>1, <2>2, <2>3
<1>7. CASE DeleteOtp(r)
  BY <1>7, LeaveType DEF DeleteOtp, TypeOK
<1>8. CASE MarkVerified(r)
  <2>1. seen[r] \in OtpRow /\ seen[r].code \in Codes
    BY <1>8 DEF MarkVerified, TypeOK, OtpRow
  <2>2. CASE IsRow(seen[r].id)
    <3>1. otp \in OtpRow
      BY <2>2 DEF IsRow, TypeOK
    <3>2. otp' \in OtpRow
      BY <1>8, <2>2, <3>1 DEF MarkVerified, OtpRow
    <3>3. used' \in [Codes -> Nat]
      BY <1>8, <2>1, <2>2 DEF MarkVerified, TypeOK
    <3> QED
      BY <1>8, <2>2, <3>2, <3>3 DEF MarkVerified, Remember, Goto, TypeOK, Steps
  <2>3. CASE ~IsRow(seen[r].id)
    BY <1>8, <2>3, LeaveType DEF MarkVerified, TypeOK
  <2> QED
    BY <2>2, <2>3
<1>9. CASE DropCounter(r)
  <2>1. /\ count' \in [Keys -> Nat] /\ ttl' \in [Keys -> (Nat \ {0}) \cup {None}]
        /\ orphaned' \subseteq Keys
    BY <1>9 DEF DropCounter, Remove, TypeOK
  <2> QED
    BY <1>9, <2>1, LeaveType DEF DropCounter, TypeOK
<1> QED
  BY <1>1, <1>2, <1>3, <1>4, <1>5, <1>6, <1>7, <1>8, <1>9 DEF Continue

LEMMA EnvironmentType ==
  ASSUME TypeOK, CleanUp \/ Tick \/ \E r \in Requests : Crash(r)
  PROVE  TypeOK'
<1> USE LimitsAssumption
<1>1. CASE CleanUp
  BY <1>1 DEF CleanUp, counters, TypeOK
<1>2. CASE Tick
  <2>1. count' \in [Keys -> Nat]
    BY <1>2 DEF Tick, TypeOK
  <2>2. ttl' \in [Keys -> (Nat \ {0}) \cup {None}]
    <3>1. \A k \in Keys : ~(ttl[k] = None \/ Expires(k)) => ttl[k] - 1 \in Nat \ {0}
      BY DEF TypeOK, Expires
    <3> QED
      BY <1>2, <3>1 DEF Tick, TypeOK
  <2>3. otp' \in OtpRow \cup {None}
    <3>1. CASE otp # None /\ otp.left > 0
      <4>1. otp \in OtpRow /\ otp.left - 1 \in 0..Lifetime
        BY <3>1 DEF TypeOK, OtpRow
      <4> QED
        BY <1>2, <3>1, <4>1 DEF Tick, OtpRow
    <3>2. CASE ~(otp # None /\ otp.left > 0)
      BY <1>2, <3>2 DEF Tick, TypeOK
    <3> QED
      BY <3>1, <3>2
  <2> QED
    BY <1>2, <2>1, <2>2, <2>3 DEF Tick, TypeOK
<1>3. ASSUME NEW r \in Requests, Crash(r) PROVE TypeOK'
  <2>1. orphaned' \subseteq Keys /\ faults' \in Nat
    BY <1>3 DEF Crash, TypeOK
  <2> QED
    BY <1>3, <2>1, LeaveType DEF Crash, codes, TypeOK
<1> QED
  BY <1>1, <1>2, <1>3

LEMMA NextType == TypeOK /\ [Next]_vars => TypeOK'
<1> SUFFICES ASSUME TypeOK, [Next]_vars PROVE TypeOK'
  OBVIOUS
<1>1. CASE UNCHANGED vars
  BY <1>1 DEF vars, TypeOK
<1>2. CASE Next
  BY <1>2, IncrementType, ContinueType, EnvironmentType DEF Next
<1> QED
  BY <1>1, <1>2

(* Every variable keeps its type, and a request always has the counter and the
   row that its place in the code works on. *)
THEOREM TypeCorrect == Spec => []TypeOK
BY InitType, NextType, PTL DEF Spec

-----------------------------------------------------------------------------
(* The expiry of the counters.  What a request does changes its own place and
   counter only, so the request that is about to set an expiry stays there. *)

\* r alone moves, and it is not about to set an expiry.
Elsewhere(r) ==
  /\ pc[r] # "arm"
  /\ \A q \in Requests \ {r} : pc'[q] = pc[q] /\ key'[q] = key[q]

\* Every way to go on changes the place and the counter of r only.
LEMMA ContinueLocal ==
  ASSUME TypeOK, NEW r \in Requests, Continue(r)
  PROVE  \A q \in Requests \ {r} : pc'[q] = pc[q] /\ key'[q] = key[q]
<1> DEFINE Same == \A q \in Requests \ {r} : pc'[q] = pc[q] /\ key'[q] = key[q]
<1>1. Leave(r) => Same
  BY DEF Leave, Goto, TypeOK
<1>2. ASSUME NEW step, Goto(r, step), key' = key PROVE Same
  BY <1>2 DEF Goto, TypeOK
<1>3. ASSUME NEW k, NEW n, Enter(r, k, n) PROVE Same
  <2>1. CASE Leave(r)
    BY <1>1, <2>1
  <2>2. CASE ~Leave(r)
    BY <1>3, <2>2 DEF Enter, Goto, TypeOK
  <2> QED
    BY <2>1, <2>2
<1>4. ASSUME NEW row, NEW step, Remember(r, row, step) PROVE Same
  BY <1>2, <1>4 DEF Remember
<1> HIDE DEF Same
<1>5. AskTtl(r) => Same
  BY <1>2, <1>3 DEF AskTtl
<1>6. Arm(r) => Same
  BY <1>3 DEF Arm
<1>7. LookUp(r) => Same
  BY <1>2 DEF LookUp
<1>8. UpdateOtp(r) \/ CreateOtp(r) \/ DeleteOtp(r) \/ DropCounter(r) => Same
  BY <1>1 DEF UpdateOtp, CreateOtp, DeleteOtp, DropCounter
<1>9. FindOtp(r) \/ MarkVerified(r) => Same
  BY <1>1, <1>4 DEF FindOtp, MarkVerified
<1> QED
  BY <1>5, <1>6, <1>7, <1>8, <1>9 DEF Continue, Same

LEMMA InitMortal == Init => NoImmortalCounter
BY DEF Init, NoImmortalCounter

\* A step that leaves the counters alone keeps the request that is at "arm".
LEMMA ElsewhereMortal ==
  ASSUME TypeOK, NoImmortalCounter, NEW r \in Requests, Elsewhere(r), UNCHANGED counters
  PROVE  NoImmortalCounter'
BY DEF Elsewhere, counters, NoImmortalCounter

\* The first INCR of a counter takes its request to "arm".
LEMMA IncrementMortal ==
  ASSUME TypeOK, NoImmortalCounter, NEW r \in Requests, Increment(r)
  PROVE  NoImmortalCounter'
<1> USE LimitsAssumption
<1>1. PICK k \in scope :
        /\ count' = [count EXCEPT ![k] = IF @ <= Max[k] THEN @ + 1 ELSE @]
        /\ IF IsFirst(count'[k]) THEN Wait(r, k, count'[k], "arm")
           ELSE IF k = "api"     THEN Wait(r, k, count'[k], "ttl")
           ELSE Enter(r, k, count'[k])
  BY DEF Increment
<1>2. /\ k \in Keys
      /\ \A j \in Keys \ {k} : count'[j] = count[j]
      /\ count'[k] = 1 \/ count[k] > 0
  BY <1>1 DEF TypeOK
<1>3. \A q \in Requests \ {r} : pc'[q] = pc[q] /\ key'[q] = key[q]
  BY <1>1 DEF Wait, Enter, Leave, Goto, TypeOK
<1>4. pc[r] = "idle" /\ UNCHANGED <<ttl, orphaned>>
  BY DEF Increment
<1>5. count'[k] = 1 => pc'[r] = "arm" /\ key'[r] = k
  BY <1>1 DEF IsFirst, Wait, Goto, TypeOK
<1>6. ASSUME NEW j \in Keys, count'[j] > 0, ttl'[j] = None, j \notin orphaned'
      PROVE  \E q \in Requests : pc'[q] = "arm" /\ key'[q] = j
  <2>1. CASE j = k /\ count'[k] = 1
    BY <1>5, <2>1
  <2>2. CASE ~(j = k /\ count'[k] = 1)
    <3>1. count[j] > 0 /\ ttl[j] = None /\ j \notin orphaned
      BY <1>2, <1>4, <1>6, <2>2
    <3>2. PICK q \in Requests : pc[q] = "arm" /\ key[q] = j
      BY <3>1 DEF NoImmortalCounter
    <3> QED
      BY <1>3, <1>4, <3>2
  <2> QED
    BY <2>1, <2>2
<1> QED
  BY <1>6 DEF NoImmortalCounter

\* PEXPIRE is sent, or its request goes on from elsewhere.
LEMMA ContinueMortal ==
  ASSUME TypeOK, NoImmortalCounter, NEW r \in Requests, Continue(r)
  PROVE  NoImmortalCounter'
<1>1. \A q \in Requests \ {r} : pc'[q] = pc[q] /\ key'[q] = key[q]
  BY ContinueLocal
<1>2. CASE Arm(r)
  <2>1. key[r] \in Keys
    BY <1>2 DEF Arm, TypeOK
  <2>2. Window[key[r]] # None
    BY <2>1, LimitsAssumption
  <2>3. /\ count' = count
        /\ \A j \in Keys \ {key[r]} : ttl'[j] = ttl[j] /\ (j \in orphaned => j \in orphaned')
        /\ count[key[r]] > 0 => ttl'[key[r]] = Window[key[r]]
    BY <1>2, <2>1 DEF Arm, TypeOK
  <2> QED
    BY <1>1, <2>1, <2>2, <2>3 DEF NoImmortalCounter
<1>3. CASE DropCounter(r)
  <2>1. /\ \A j \in Keys \ {"verify"} : count'[j] = count[j] /\ ttl'[j] = ttl[j]
        /\ count'["verify"] = 0
        /\ orphaned' = orphaned \ {"verify"}
        /\ pc[r] # "arm"
    BY <1>3 DEF DropCounter, Remove, TypeOK, Keys
  <2> QED
    BY <1>1, <2>1 DEF NoImmortalCounter
<1>4. CASE ~Arm(r) /\ ~DropCounter(r)
  <2>1. pc[r] # "arm" /\ UNCHANGED counters
    BY <1>4 DEF Continue, AskTtl, LookUp, UpdateOtp, CreateOtp, FindOtp, DeleteOtp, MarkVerified
  <2> QED
    BY <1>1, <2>1, ElsewhereMortal DEF Elsewhere
<1> QED
  BY <1>2, <1>3, <1>4

\* What expires counts no more; a request that dies at "arm" is remembered.
LEMMA EnvironmentMortal ==
  ASSUME TypeOK, NoImmortalCounter, CleanUp \/ Tick \/ \E r \in Requests : Crash(r)
  PROVE  NoImmortalCounter'
<1>1. CASE CleanUp
  BY <1>1 DEF CleanUp, counters, NoImmortalCounter
<1>2. CASE Tick
  <2>1. \A k \in Keys : count'[k] > 0 => count'[k] = count[k] /\ ~Expires(k)
    BY <1>2 DEF Tick
  <2>2. \A k \in Keys : ttl'[k] = None /\ ~Expires(k) => ttl[k] = None
    <3>1. \A k \in Keys : ttl[k] \in Nat \ {0} => ttl[k] - 1 # None
      BY LimitsAssumption
    <3> QED
      BY <1>2, <3>1 DEF Tick, TypeOK
  <2> QED
    BY <1>2, <2>1, <2>2 DEF Tick, NoImmortalCounter
<1>3. ASSUME NEW r \in Requests, Crash(r) PROVE NoImmortalCounter'
  <2>1. /\ \A q \in Requests \ {r} : pc'[q] = pc[q] /\ key'[q] = key[q]
        /\ UNCHANGED <<count, ttl>>
        /\ orphaned \subseteq orphaned'
        /\ pc[r] = "arm" => key[r] \in orphaned'
    BY <1>3 DEF Crash, Leave, Goto, TypeOK
  <2> QED
    BY <2>1 DEF NoImmortalCounter
<1> QED
  BY <1>1, <1>2, <1>3

LEMMA NextMortal == TypeOK /\ NoImmortalCounter /\ [Next]_vars => NoImmortalCounter'
<1> SUFFICES ASSUME TypeOK, NoImmortalCounter, [Next]_vars PROVE NoImmortalCounter'
  OBVIOUS
<1>1. CASE UNCHANGED vars
  BY <1>1 DEF vars, NoImmortalCounter
<1>2. CASE Next
  BY <1>2, IncrementMortal, ContinueMortal, EnvironmentMortal DEF Next
<1> QED
  BY <1>1, <1>2

(* The hazard of INCR and then PEXPIRE comes to this and no more: a counter
   without an expiry is one whose first request is still to set it or died
   before it did, whatever expires, is deleted or counted in between. *)
THEOREM CountersExpire == Spec => []NoImmortalCounter
<1>1. Init => TypeOK /\ NoImmortalCounter
  BY InitType, InitMortal
<1>2. TypeOK /\ NoImmortalCounter /\ [Next]_vars => (TypeOK /\ NoImmortalCounter)'
  BY NextType, NextMortal
<1> QED
  BY <1>1, <1>2, PTL DEF Spec

-----------------------------------------------------------------------------
(* The use of a code.  A code that can still be found was never used, so what  *)
(* uses it are the requests that hold it when it is used for the first time.  *)

Holders(c) == {r \in Requests : pc[r] = "mark" /\ seen[r].code = c}

Fresh ==
  /\ Open(otp) => used[otp.code] = 0
  /\ otp # None => otp.code <= issued
  /\ \A c \in Codes : c > issued => used[c] = 0

Held == \A r \in Requests : pc[r] = "mark" => seen[r].code <= issued

CodesInv ==
  /\ Fresh
  /\ Held
  /\ \A c \in Codes : used[c] + Cardinality(Holders(c)) <= Cardinality(Requests)

LEMMA HoldersFinite ==
  ASSUME IsFiniteSet(Requests), NEW c
  PROVE  /\ IsFiniteSet(Holders(c))
         /\ Cardinality(Holders(c)) \in Nat /\ Cardinality(Requests) \in Nat
         /\ Cardinality(Holders(c)) <= Cardinality(Requests)
<1>1. Holders(c) \subseteq Requests
  BY DEF Holders
<1> QED
  BY <1>1, FS_Subset, FS_CardinalityType

\* Requests that leave or move take no code into their hands.
LEMMA HoldersShrink ==
  ASSUME IsFiniteSet(Requests), TypeOK, CodesInv, used' = used, Fresh',
         issued' = issued \/ issued' = issued + 1,
         \A q \in Requests : pc'[q] = "mark" => pc[q] = "mark" /\ seen'[q] = seen[q]
  PROVE  CodesInv'
<1>1. ASSUME NEW c \in Codes
      PROVE  used'[c] + Cardinality(Holders(c)') <= Cardinality(Requests)
  <2>1. Holders(c)' \subseteq Holders(c)
    BY DEF Holders
  <2>2. /\ IsFiniteSet(Holders(c)) /\ Cardinality(Holders(c)) \in Nat
        /\ Cardinality(Requests) \in Nat
    BY HoldersFinite
  <2>3. Cardinality(Holders(c)') \in Nat /\ Cardinality(Holders(c)') <= Cardinality(Holders(c))
    BY <2>1, <2>2, FS_Subset, FS_CardinalityType
  <2>4. used[c] \in Nat /\ used[c] + Cardinality(Holders(c)) <= Cardinality(Requests)
    BY DEF TypeOK, CodesInv
  <2> QED
    BY <2>2, <2>3, <2>4
<1>2. Held'
  <2>1. \A q \in Requests : pc[q] = "mark" => seen[q].code \in Nat
    BY DEF TypeOK, OtpRow, Codes
  <2> QED
    BY <2>1 DEF CodesInv, Held, TypeOK
<1> QED
  BY <1>1, <1>2 DEF CodesInv

LEMMA FreshStays ==
  ASSUME Fresh, UNCHANGED <<otp, issued, used>>
  PROVE  Fresh'
BY DEF Fresh, Open

\* A code that is issued is a new one.
LEMMA IssueIsFresh ==
  ASSUME TypeOK, Fresh, issued < MaxCodes, NEW id, Issue(id), used' = used
  PROVE  Fresh'
<1>1. /\ issued \in Nat /\ issued' = issued + 1 /\ issued' \in Codes
      /\ otp'.code = issued'
  BY LimitsAssumption DEF TypeOK, Codes, Issue
<1>2. \A c \in Codes : c \in Nat
  BY DEF Codes
<1> QED
  BY <1>1, <1>2 DEF Fresh, Open

LEMMA LeaveMarks ==
  ASSUME TypeOK, NEW r \in Requests, Leave(r)
  PROVE  \A q \in Requests : pc'[q] = "mark" => pc[q] = "mark" /\ seen'[q] = seen[q]
BY DEF Leave, Goto, TypeOK

LEMMA EnterMarks ==
  ASSUME TypeOK, NEW r \in Requests, NEW k, NEW n, Enter(r, k, n)
  PROVE  \A q \in Requests : pc'[q] = "mark" => pc[q] = "mark" /\ seen'[q] = seen[q]
<1>1. CASE Leave(r)
  BY <1>1, LeaveMarks
<1>2. CASE ~Leave(r)
  BY <1>2 DEF Enter, Goto, TypeOK
<1> QED
  BY <1>1, <1>2

LEMMA IncrementCodes ==
  ASSUME IsFiniteSet(Requests), TypeOK, CodesInv, NEW r \in Requests, Increment(r)
  PROVE  CodesInv'
<1>1. PICK k \in scope :
        \/ Wait(r, k, count'[k], "arm")
        \/ Wait(r, k, count'[k], "ttl")
        \/ Enter(r, k, count'[k])
  BY DEF Increment
<1>2. \A q \in Requests : pc'[q] = "mark" => pc[q] = "mark" /\ seen'[q] = seen[q]
  <2>1. CASE Enter(r, k, count'[k])
    BY <2>1, EnterMarks
  <2>2. CASE ~Enter(r, k, count'[k])
    BY <1>1, <2>2 DEF Wait, Goto, TypeOK
  <2> QED
    BY <2>1, <2>2
<1>3. UNCHANGED <<otp, issued, used>>
  BY DEF Increment, codes
<1> QED
  BY <1>2, <1>3, FreshStays, HoldersShrink DEF CodesInv

\* The request that finds a code is the first to hold it for whom it is not used.
LEMMA FindCodes ==
  ASSUME IsFiniteSet(Requests), TypeOK, CodesInv, NEW r \in Requests, FindOtp(r)
  PROVE  CodesInv'
<1>1. UNCHANGED <<otp, issued, used>> /\ Fresh'
  BY FreshStays DEF FindOtp, CodesInv
<1>2. CASE Leave(r)
  BY <1>1, <1>2, LeaveMarks, HoldersShrink
<1>3. CASE Remember(r, otp, "delete")
  <2>1. \A q \in Requests : pc'[q] = "mark" => pc[q] = "mark" /\ seen'[q] = seen[q]
    BY <1>3 DEF Remember, Goto, TypeOK
  <2> QED
    BY <1>1, <2>1, HoldersShrink
<1>4. CASE Remember(r, otp, "mark") /\ Open(otp)
  <2>1. \A q \in Requests \ {r} : pc'[q] = pc[q] /\ seen'[q] = seen[q]
    BY <1>4 DEF Remember, Goto, TypeOK
  <2>2. seen'[r] = otp
    BY <1>4 DEF Remember, TypeOK
  <2>3. ASSUME NEW c \in Codes
        PROVE  used'[c] + Cardinality(Holders(c)') <= Cardinality(Requests)
    <3>1. CASE c = otp.code
      <4>1. used'[c] = 0
        BY <1>1, <1>4, <3>1 DEF CodesInv, Fresh
      <4>2. Holders(c)' \subseteq Requests
        BY DEF Holders
      <4>3. /\ Cardinality(Holders(c)') \in Nat /\ Cardinality(Requests) \in Nat
            /\ Cardinality(Holders(c)') <= Cardinality(Requests)
        BY <4>2, FS_Subset, FS_CardinalityType
      <4> QED
        BY <4>1, <4>3
    <3>2. CASE c # otp.code
      <4>1. Holders(c)' \subseteq Holders(c)
        BY <2>1, <2>2, <3>2 DEF Holders
      <4>2. /\ IsFiniteSet(Holders(c)) /\ Cardinality(Holders(c)) \in Nat
            /\ Cardinality(Requests) \in Nat
        BY HoldersFinite
      <4>3. /\ Cardinality(Holders(c)') \in Nat
            /\ Cardinality(Holders(c)') <= Cardinality(Holders(c))
        BY <4>1, <4>2, FS_Subset, FS_CardinalityType
      <4>4. used[c] \in Nat /\ used[c] + Cardinality(Holders(c)) <= Cardinality(Requests)
        BY DEF TypeOK, CodesInv
      <4> QED
        BY <1>1, <4>2, <4>3, <4>4
    <3> QED
      BY <3>1, <3>2
  <2>4. Held'
    BY <1>1, <1>4, <2>1, <2>2 DEF CodesInv, Held, Fresh, Open
  <2> QED
    BY <1>1, <2>3, <2>4 DEF CodesInv
<1> QED
  BY <1>2, <1>3, <1>4 DEF FindOtp

\* Who uses a code holds it no more, and its row is found no more.
LEMMA MarkCodes ==
  ASSUME IsFiniteSet(Requests), TypeOK, CodesInv, NEW r \in Requests, MarkVerified(r)
  PROVE  CodesInv'
<1>1. CASE ~IsRow(seen[r].id)
  <2>1. Leave(r) /\ UNCHANGED <<otp, issued, used>>
    BY <1>1 DEF MarkVerified
  <2> QED
    BY <2>1, FreshStays, LeaveMarks, HoldersShrink DEF CodesInv
<1>2. CASE IsRow(seen[r].id)
  <2>1. /\ pc[r] = "mark"
        /\ otp' = [otp EXCEPT !.verified = TRUE]
        /\ used' = [used EXCEPT ![seen[r].code] = @ + 1]
        /\ Remember(r, None, "drop")
        /\ issued' = issued
    BY <1>2 DEF MarkVerified
  <2>2. otp \in OtpRow /\ seen[r] \in OtpRow /\ seen[r].code \in Codes
    BY <1>2, <2>1 DEF IsRow, TypeOK, OtpRow
  <2>3. otp'.verified /\ otp'.code = otp.code /\ otp # None
    BY <1>2, <2>1, <2>2 DEF OtpRow, IsRow
  <2>4. pc'[r] # "mark" /\ \A q \in Requests \ {r} : pc'[q] = pc[q] /\ seen'[q] = seen[q]
    BY <2>1 DEF Remember, Goto, TypeOK
  <2>5. ASSUME NEW c \in Codes
        PROVE  used'[c] + Cardinality(Holders(c)') <= Cardinality(Requests)
    <3>1. /\ IsFiniteSet(Holders(c)) /\ Cardinality(Holders(c)) \in Nat
          /\ Cardinality(Requests) \in Nat
      BY HoldersFinite
    <3>2. used[c] \in Nat /\ used[c] + Cardinality(Holders(c)) <= Cardinality(Requests)
      BY DEF TypeOK, CodesInv
    <3>3. CASE c = seen[r].code
      <4>1. r \in Holders(c) /\ Holders(c)' = Holders(c) \ {r}
        BY <2>1, <2>4, <3>3 DEF Holders
      <4>2. Cardinality(Holders(c)') = Cardinality(Holders(c)) - 1
        BY <3>1, <4>1, FS_RemoveElement
      <4>3. used'[c] = used[c] + 1
        BY <2>1, <3>3 DEF TypeOK
      <4> QED
        BY <3>1, <3>2, <4>2, <4>3
    <3>4. CASE c # seen[r].code
      <4>1. Holders(c)' = Holders(c)
        BY <2>1, <2>4, <3>4 DEF Holders
      <4>2. used'[c] = used[c]
        BY <2>1, <3>4 DEF TypeOK
      <4> QED
        BY <3>2, <4>1, <4>2
    <3> QED
      BY <3>3, <3>4
  <2>6. seen[r].code <= issued /\ \A c \in Codes : used[c] \in Nat /\ c \in Nat
    BY <2>1 DEF CodesInv, Held, TypeOK, Codes
  <2>7. \A c \in Codes : c > issued => used'[c] = 0
    BY <2>1, <2>2, <2>6 DEF CodesInv, Fresh, TypeOK
  <2>8. Fresh'
    BY <2>1, <2>3, <2>7 DEF CodesInv, Fresh, Open
  <2>9. Held'
    BY <2>1, <2>4 DEF CodesInv, Held
  <2> QED
    BY <2>5, <2>8, <2>9 DEF CodesInv
<1> QED
  BY <1>1, <1>2

LEMMA ContinueCodes ==
  ASSUME IsFiniteSet(Requests), TypeOK, CodesInv, NEW r \in Requests, Continue(r)
  PROVE  CodesInv'
<1> DEFINE Kept == \A q \in Requests : pc'[q] = "mark" => pc[q] = "mark" /\ seen'[q] = seen[q]
<1>1. CASE AskTtl(r) \/ Arm(r) \/ LookUp(r)
  <2>1. UNCHANGED <<otp, issued, used>>
    BY <1>1 DEF AskTtl, Arm, LookUp, codes
  <2>2. Kept
    <3>1. CASE \E k, n : Enter(r, k, n)
      BY <3>1, EnterMarks
    <3>2. CASE ~ \E k, n : Enter(r, k, n)
      BY <1>1, <3>2 DEF AskTtl, Arm, LookUp, Goto, TypeOK
    <3> QED
      BY <3>1, <3>2
  <2> QED
    BY <2>1, <2>2, FreshStays, HoldersShrink DEF CodesInv
<1>2. CASE UpdateOtp(r) \/ CreateOtp(r)
  <2>1. Leave(r) /\ used' = used /\ issued < MaxCodes
    BY <1>2 DEF UpdateOtp, CreateOtp
  <2>2. \/ UNCHANGED <<otp, issued>>
        \/ \E id : Issue(id)
    BY <1>2 DEF UpdateOtp, CreateOtp
  <2>3. Fresh' /\ (issued' = issued \/ issued' = issued + 1)
    BY <2>1, <2>2, FreshStays, IssueIsFresh DEF CodesInv, Issue
  <2> QED
    BY <2>1, <2>3, LeaveMarks, HoldersShrink
<1>3. CASE FindOtp(r)
  BY <1>3, FindCodes
<1>4. CASE DeleteOtp(r)
  <2>1. Leave(r) /\ used' = used /\ issued' = issued /\ (otp' = None \/ otp' = otp)
    BY <1>4 DEF DeleteOtp
  <2>2. Fresh'
    BY <2>1 DEF CodesInv, Fresh, Open
  <2> QED
    BY <2>1, <2>2, LeaveMarks, HoldersShrink
<1>5. CASE MarkVerified(r)
  BY <1>5, MarkCodes
<1>6. CASE DropCounter(r)
  <2>1. Leave(r) /\ UNCHANGED <<otp, issued, used>>
    BY <1>6 DEF DropCounter, codes
  <2> QED
    BY <2>1, FreshStays, LeaveMarks, HoldersShrink DEF CodesInv
<1> QED
  BY <1>1, <1>2, <1>3, <1>4, <1>5, <1>6 DEF Continue

LEMMA EnvironmentCodes ==
  ASSUME IsFiniteSet(Requests), TypeOK, CodesInv,
         CleanUp \/ Tick \/ \E r \in Requests : Crash(r)
  PROVE  CodesInv'
<1>1. ASSUME NEW r \in Requests, Crash(r) PROVE CodesInv'
  <2>1. Leave(r) /\ UNCHANGED <<otp, issued, used>>
    BY <1>1 DEF Crash, codes
  <2> QED
    BY <2>1, FreshStays, LeaveMarks, HoldersShrink DEF CodesInv
<1>2. CASE CleanUp \/ Tick
  <2>1. UNCHANGED <<issued, used, pc, seen>>
    BY <1>2 DEF CleanUp, Tick
  <2>2. \/ otp' = None \/ otp' = otp
        \/ otp # None /\ otp' = [otp EXCEPT !.left = @ - 1]
    BY <1>2 DEF CleanUp, Tick
  <2>3. otp # None => otp \in OtpRow
    BY DEF TypeOK
  <2>4. otp' # None => otp # None /\ otp'.code = otp.code /\ otp'.verified = otp.verified
    BY <2>2, <2>3 DEF OtpRow
  <2>5. Fresh'
    BY <2>1, <2>4 DEF CodesInv, Fresh, Open
  <2> QED
    BY <2>1, <2>5, HoldersShrink
<1> QED
  BY <1>1, <1>2

LEMMA NextCodes ==
  ASSUME IsFiniteSet(Requests), TypeOK, CodesInv, [Next]_vars
  PROVE  CodesInv'
<1>1. CASE UNCHANGED vars
  <2>1. UNCHANGED <<otp, issued, used, pc, seen>>
    BY <1>1 DEF vars
  <2> QED
    BY <2>1, FreshStays, HoldersShrink DEF CodesInv
<1>2. CASE Next
  BY <1>2, IncrementCodes, ContinueCodes, EnvironmentCodes DEF Next
<1> QED
  BY <1>1, <1>2

LEMMA InitCodes ==
  ASSUME IsFiniteSet(Requests), Init
  PROVE  CodesInv
<1>1. /\ otp = None /\ \A c \in Codes : used[c] = 0
      /\ \A r \in Requests : pc[r] = "idle"
  BY DEF Init
<1>2. ASSUME NEW c \in Codes
      PROVE  used[c] + Cardinality(Holders(c)) <= Cardinality(Requests)
  BY <1>1, HoldersFinite
<1> QED
  BY <1>1, <1>2 DEF CodesInv, Fresh, Held, Open

(* A code verifies at most once per request that can be under way: whatever
   codes are issued, replaced, deleted and counted in between, nobody finds a
   code again that was used. *)
THEOREM UsesAreBounded ==
  ASSUME IsFiniteSet(Requests)
  PROVE  Spec => []UsesBounded
<1>1. Init => TypeOK /\ CodesInv
  BY InitType, InitCodes
<1>2. TypeOK /\ CodesInv /\ [Next]_vars => (TypeOK /\ CodesInv)'
  BY NextType, NextCodes
<1>3. TypeOK /\ CodesInv => UsesBounded
  <2>1. ASSUME TypeOK, CodesInv, NEW c \in Codes
        PROVE  used[c] <= Cardinality(Requests)
    <3>1. used[c] \in Nat /\ used[c] + Cardinality(Holders(c)) <= Cardinality(Requests)
      BY <2>1 DEF TypeOK, CodesInv
    <3> QED
      BY <3>1, HoldersFinite
  <2> QED
    BY <2>1 DEF UsesBounded
<1> QED
  BY <1>1, <1>2, <1>3, PTL DEF Spec

-----------------------------------------------------------------------------
(* How often a code is compared.  An open code still has to face, at most: *)
(* what is left of the window that counts, the requests that the window    *)
(* has let in, a whole window for each request that is about to remove the *)
(* counter, and one more when the window ends before the code does.        *)

\* The numbers of otp.service.ts: MAX_VERIFY_ATTEMPTS is 5, and a code lives no
\* longer than the window in which attempts are counted, 5 minutes both.
OtpNumbers ==
  /\ IsFiniteSet(Requests)
  /\ Max["verify"] > 0
  /\ Lifetime <= Window["verify"]

Limit == Max["verify"]

Guessable == Open(otp) /\ (otp # None => otp.left > 0)

Room == IF count["verify"] <= Limit THEN Limit - count["verify"] ELSE 0

Admitted ==
  {r \in Requests :
     pc[r] = "find" \/ (pc[r] = "arm" /\ key[r] = "verify" /\ got[r] <= Limit)}

Removing == {r \in Requests : pc[r] = "drop"}

Early == IF ttl["verify"] # None /\ ttl["verify"] < otp.left THEN Limit ELSE 0

Debt == Room + Cardinality(Admitted) + Limit * Cardinality(Removing) + Early

Bound == (Cardinality(Requests) + 1) * Limit

GuessInv ==
  /\ ttl["verify"] # None => count["verify"] > 0
  /\ \A r \in Requests : pc[r] = "ttl" => key[r] = "api"
  /\ \A c \in Codes : compared[c] < Bound /\ (c > issued => compared[c] = 0)
  /\ Guessable => compared[otp.code] + Debt < Bound

\* Products of counts.
LEMMA ProductType == \A m, d \in Nat : m * d \in Nat
OBVIOUS

LEMMA ProductMonotone == \A m, a, b \in Nat : a <= b => m * a <= m * b
<1> SUFFICES ASSUME NEW m \in Nat, NEW a \in Nat, NEW b \in Nat, a <= b
             PROVE  m * a <= m * b
  OBVIOUS
<1>1. PICK d \in Nat : b = a + d
  <2>1. b - a \in Nat /\ b = a + (b - a)
    OBVIOUS
  <2> QED
    BY <2>1
<1>2. m * b = m * a + m * d
  BY <1>1
<1>3. m * d \in Nat /\ m * a \in Nat
  OBVIOUS
<1> QED
  BY <1>2, <1>3

LEMMA ProductNext == \A m, d \in Nat : m * (d + 1) = m * d + m /\ (d + 1) * m = m * d + m
OBVIOUS

LEMMA VerifyNumbers ==
  ASSUME OtpNumbers, TypeOK
  PROVE  /\ "verify" \in Keys /\ Limit \in Nat /\ Limit > 0
         /\ Cardinality(Requests) \in Nat
         /\ Bound \in Nat /\ Bound = Limit * Cardinality(Requests) + Limit
         /\ count["verify"] \in Nat
         /\ Room \in Nat /\ Room <= Limit
         /\ Early \in {0, Limit}
<1>1. "verify" \in Keys /\ Limit \in Nat /\ Limit > 0
  BY LimitsAssumption DEF Keys, OtpNumbers, Limit
<1>2. Cardinality(Requests) \in Nat
  BY FS_CardinalityType DEF OtpNumbers
<1>3. Bound \in Nat /\ Bound = Limit * Cardinality(Requests) + Limit
  BY <1>1, <1>2, ProductNext, ProductType DEF Bound
<1>4. count["verify"] \in Nat
  BY <1>1 DEF TypeOK
<1>5. Room \in Nat /\ Room <= Limit
  BY <1>1, <1>4 DEF Room
<1> QED
  BY <1>1, <1>2, <1>3, <1>4, <1>5 DEF Early

LEMMA LaterNumbers ==
  ASSUME OtpNumbers, TypeOK'
  PROVE  Room' \in Nat /\ Room' <= Limit /\ Early' \in {0, Limit} /\ Early' \in Nat
<1>1. "verify" \in Keys /\ Limit \in Nat /\ Limit' = Limit
  BY LimitsAssumption DEF Keys, Limit
<1>2. count'["verify"] \in Nat
  BY <1>1 DEF TypeOK
<1> QED
  BY <1>1, <1>2 DEF Room, Early, Limit

LEMMA CountsOfRequests ==
  ASSUME OtpNumbers
  PROVE  /\ IsFiniteSet(Admitted) /\ Cardinality(Admitted) \in Nat
         /\ IsFiniteSet(Removing) /\ Cardinality(Removing) \in Nat
         /\ Limit * Cardinality(Removing) \in Nat
<1>1. Admitted \subseteq Requests /\ Removing \subseteq Requests
  BY DEF Admitted, Removing
<1>2. /\ IsFiniteSet(Admitted) /\ Cardinality(Admitted) \in Nat
      /\ IsFiniteSet(Removing) /\ Cardinality(Removing) \in Nat
  BY <1>1, FS_Subset, FS_CardinalityType DEF OtpNumbers
<1>3. Limit \in Nat
  BY LimitsAssumption DEF Keys, Limit
<1> QED
  BY <1>2, <1>3, ProductType

LEMMA FewerRequests ==
  ASSUME OtpNumbers
  PROVE  /\ Admitted' \subseteq Admitted => Cardinality(Admitted') <= Cardinality(Admitted)
         /\ Removing' \subseteq Removing =>
              /\ Cardinality(Removing') <= Cardinality(Removing)
              /\ Limit * Cardinality(Removing') <= Limit * Cardinality(Removing)
         /\ Cardinality(Admitted') \in Nat /\ Cardinality(Removing') \in Nat
         /\ Limit * Cardinality(Removing') \in Nat
<1>0. Limit \in Nat
  BY LimitsAssumption DEF Keys, Limit
<1>1. Admitted' \subseteq Requests /\ Removing' \subseteq Requests
  BY DEF Admitted, Removing
<1>2. Cardinality(Admitted') \in Nat /\ Cardinality(Removing') \in Nat
  BY <1>1, FS_Subset, FS_CardinalityType DEF OtpNumbers
<1>3. Admitted' \subseteq Admitted => Cardinality(Admitted') <= Cardinality(Admitted)
  BY CountsOfRequests, FS_Subset
<1>4. Removing' \subseteq Removing => Cardinality(Removing') <= Cardinality(Removing)
  BY CountsOfRequests, FS_Subset
<1> QED
  BY <1>0, <1>2, <1>3, <1>4, CountsOfRequests, ProductMonotone, ProductType

LEMMA DebtType ==
  ASSUME OtpNumbers, TypeOK, TypeOK'
  PROVE  Debt \in Nat /\ Debt' \in Nat
<1> DEFINE P == Limit * Cardinality(Removing)
           Q == Limit * Cardinality(Removing')
<1>1. P \in Nat /\ Q \in Nat
  BY CountsOfRequests, FewerRequests
<1>2. Debt = Room + Cardinality(Admitted) + P + Early
  BY DEF Debt
<1>3. Debt' = Room' + Cardinality(Admitted') + Q + Early'
  BY DEF Debt, Limit
<1> HIDE DEF P, Q
<1> QED
  BY <1>1, <1>2, <1>3, VerifyNumbers, LaterNumbers, CountsOfRequests, FewerRequests

\* The debt of a code does not grow with a step of which each part does not.
LEMMA DebtFalls ==
  ASSUME OtpNumbers, TypeOK, TypeOK',
         Room' + Cardinality(Admitted') <= Room + Cardinality(Admitted),
         Removing' \subseteq Removing, Early' <= Early
  PROVE  Debt' <= Debt
<1> DEFINE P == Limit * Cardinality(Removing)
           Q == Limit * Cardinality(Removing')
<1>1. P \in Nat /\ Q \in Nat /\ Q <= P
  BY CountsOfRequests, FewerRequests
<1>2. Debt = Room + Cardinality(Admitted) + P + Early
  BY DEF Debt
<1>3. Debt' = Room' + Cardinality(Admitted') + Q + Early'
  BY DEF Debt, Limit
<1>4. Room \in Nat /\ Room' \in Nat /\ Early \in Nat /\ Early' \in Nat
  BY VerifyNumbers, LaterNumbers
<1>5. Cardinality(Admitted) \in Nat /\ Cardinality(Admitted') \in Nat
  BY CountsOfRequests, FewerRequests
<1> HIDE DEF P, Q
<1> QED
  BY <1>1, <1>2, <1>3, <1>4, <1>5


\* A step that compares nothing.
LEMMA NothingCompared ==
  ASSUME OtpNumbers, TypeOK, TypeOK', GuessInv, compared' = compared, issued' = issued,
         ttl'["verify"] # None => count'["verify"] > 0,
         \A r \in Requests : pc'[r] = "ttl" => key'[r] = "api",
         Guessable' => Guessable /\ otp'.code = otp.code /\ Debt' <= Debt
  PROVE  GuessInv'
<1>1. Bound' = Bound /\ Bound \in Nat
  BY VerifyNumbers DEF Bound, Limit
<1>2. ASSUME Guessable' PROVE compared'[otp'.code] + Debt' < Bound
  <2>1. compared[otp.code] + Debt < Bound /\ Debt' <= Debt /\ otp'.code = otp.code
    BY <1>2 DEF GuessInv
  <2>2. otp.code \in Codes
    BY <1>2 DEF Guessable, Open, TypeOK, OtpRow
  <2>3. compared[otp.code] \in Nat
    BY <2>2 DEF TypeOK
  <2>4. Debt \in Int /\ Debt' \in Int
    BY DebtType
  <2> QED
    BY <1>1, <2>1, <2>3, <2>4
<1> QED
  BY <1>1, <1>2 DEF GuessInv

\* ... and touches neither the counter nor the code, and lets nobody in.
LEMMA NobodyEnters ==
  ASSUME OtpNumbers, TypeOK, TypeOK', GuessInv, compared' = compared, issued' = issued,
         count' = count, ttl' = ttl,
         \A r \in Requests : pc'[r] = "ttl" => key'[r] = "api",
         Guessable' => Guessable /\ otp'.code = otp.code /\ otp'.left = otp.left,
         Admitted' \subseteq Admitted, Removing' \subseteq Removing
  PROVE  GuessInv'
<1>1. ASSUME Guessable' PROVE Guessable /\ otp'.code = otp.code /\ Debt' <= Debt
  <2>1. Room' = Room /\ Early' = Early
    BY <1>1 DEF Room, Early, Limit
  <2>2. Room' + Cardinality(Admitted') <= Room + Cardinality(Admitted) /\ Early' <= Early
    BY <2>1, VerifyNumbers, FewerRequests, CountsOfRequests
  <2> QED
    BY <1>1, <2>2, DebtFalls
<1> QED
  BY <1>1, NothingCompared DEF GuessInv

-----------------------------------------------------------------------------
(* One lemma per action. *)

\* The other requests stay where they are.
OthersStay(r) ==
  \A q \in Requests \ {r} : pc'[q] = pc[q] /\ key'[q] = key[q] /\ got'[q] = got[q]

\* r goes on to nothing that could compare a code, or remove the counter.
LEMMA OneGoesOn ==
  ASSUME GuessInv, NEW r \in Requests, OthersStay(r),
         pc'[r] \notin {"find", "arm", "drop", "ttl"}
  PROVE  /\ Admitted' \subseteq Admitted \ {r} /\ Removing' \subseteq Removing \ {r}
         /\ \A q \in Requests : pc'[q] = "ttl" => key'[q] = "api"
BY DEF OthersStay, GuessInv, Admitted, Removing, Limit

LEMMA LeaveGoesOn ==
  ASSUME TypeOK, NEW r \in Requests, Leave(r)
  PROVE  OthersStay(r) /\ pc'[r] = "idle"
BY DEF TypeOK, Leave, Goto, OthersStay

\* Who passes the limit of "verify" is admitted, and nobody else is.
LEMMA EnterGoesOn ==
  ASSUME TypeOK, NEW r \in Requests, NEW k, NEW n, Enter(r, k, n)
  PROVE  /\ OthersStay(r)
         /\ pc'[r] \in {"idle", "lookup", "find"}
         /\ pc'[r] = "find" => n <= Max[k] /\ k \notin {"rate", "gate", "api"}
<1>1. CASE Leave(r)
  BY <1>1, LeaveGoesOn
<1>2. CASE ~Leave(r)
  BY <1>2 DEF Enter, Passes, TypeOK, Goto, OthersStay
<1> QED
  BY <1>1, <1>2

\* INCR of the counter of attempts: an attempt that is let in takes from what
\* is left of the window.
LEMMA VerifyIncrement ==
  ASSUME OtpNumbers, TypeOK, TypeOK', GuessInv, NEW r \in Requests, pc[r] = "idle",
         count' = [count EXCEPT !["verify"] = IF @ <= Limit THEN @ + 1 ELSE @],
         OthersStay(r), Removing' \subseteq Removing,
         r \in Admitted' => count'["verify"] <= Limit
  PROVE  Room' + Cardinality(Admitted') <= Room + Cardinality(Admitted)
<1>1. /\ count["verify"] \in Nat /\ Limit \in Nat /\ Limit' = Limit
      /\ count'["verify"] = IF count["verify"] <= Limit THEN count["verify"] + 1
                            ELSE count["verify"]
  BY VerifyNumbers DEF TypeOK, Limit
<1>2. Admitted' \subseteq Admitted \cup {r}
  BY DEF OthersStay, Admitted, Limit
<1>3. CASE count["verify"] < Limit
  <2>1. IsFiniteSet(Admitted) /\ Cardinality(Admitted) \in Nat
    BY CountsOfRequests
  <2>2. /\ IsFiniteSet(Admitted \cup {r})
        /\ Cardinality(Admitted \cup {r}) \in Nat
        /\ Cardinality(Admitted \cup {r}) <= Cardinality(Admitted) + 1
    <3>1. /\ IsFiniteSet(Admitted \cup {r})
          /\ \/ Cardinality(Admitted \cup {r}) = Cardinality(Admitted)
             \/ Cardinality(Admitted \cup {r}) = Cardinality(Admitted) + 1
      BY <2>1, FS_AddElement
    <3> QED
      BY <2>1, <3>1
  <2>3. Cardinality(Admitted') \in Nat /\ Cardinality(Admitted') <= Cardinality(Admitted) + 1
    BY <1>2, <2>1, <2>2, FS_Subset, FewerRequests
  <2>4. Room' = Room - 1
    BY <1>1, <1>3 DEF Room
  <2> QED
    BY <2>1, <2>3, <2>4, VerifyNumbers
<1>4. CASE ~(count["verify"] < Limit)
  <2>1. Room' = 0 /\ Room = 0
    BY <1>1, <1>4 DEF Room
  <2>2. r \notin Admitted'
    BY <1>1, <1>4
  <2>3. Admitted' \subseteq Admitted
    BY <1>2, <2>2
  <2> QED
    BY <2>1, <2>3, FewerRequests, CountsOfRequests
<1> QED
  BY <1>3, <1>4

LEMMA IncrementGuess ==
  ASSUME OtpNumbers, TypeOK, TypeOK', GuessInv, NEW r \in Requests, Increment(r)
  PROVE  GuessInv'
<1>1. PICK k \in scope :
        /\ count' = [count EXCEPT ![k] = IF @ <= Max[k] THEN @ + 1 ELSE @]
        /\ IF IsFirst(count'[k]) THEN Wait(r, k, count'[k], "arm")
           ELSE IF k = "api"     THEN Wait(r, k, count'[k], "ttl")
           ELSE Enter(r, k, count'[k])
  BY DEF Increment
<1>2. /\ k \in Keys /\ pc[r] = "idle"
      /\ UNCHANGED <<ttl, otp, issued, compared>>
  BY DEF Increment, TypeOK, codes
<1>3. /\ OthersStay(r)
      /\ pc'[r] \in {"idle", "lookup", "find", "arm", "ttl"}
      /\ pc'[r] = "find" => count'[k] <= Max[k] /\ k = "verify"
      /\ pc'[r] = "arm" => key'[r] = k /\ got'[r] = count'[k]
      /\ pc'[r] = "ttl" => key'[r] = "api"
  <2>1. CASE Enter(r, k, count'[k])
    BY <1>2, <2>1, EnterGoesOn DEF Keys
  <2>2. CASE \/ Wait(r, k, count'[k], "arm")
             \/ Wait(r, k, count'[k], "ttl") /\ k = "api"
    BY <2>2 DEF Wait, Goto, TypeOK, OthersStay
  <2> QED
    BY <1>1, <2>1, <2>2
<1>4. \A q \in Requests : pc'[q] = "ttl" => key'[q] = "api"
  BY <1>3 DEF OthersStay, GuessInv
<1>5. Removing' \subseteq Removing
  BY <1>3 DEF OthersStay, Removing
<1>6. ttl'["verify"] # None => count'["verify"] > 0
  BY <1>1, <1>2, VerifyNumbers DEF GuessInv, TypeOK
<1>7. Room' + Cardinality(Admitted') <= Room + Cardinality(Admitted)
  <2>1. CASE k = "verify"
    <3>1. r \in Admitted' => count'["verify"] <= Limit
      BY <1>3, <2>1 DEF Admitted, Limit
    <3> QED
      BY <1>1, <1>2, <1>3, <1>5, <2>1, <3>1, VerifyIncrement DEF Limit
  <2>2. CASE k # "verify"
    <3>1. count'["verify"] = count["verify"]
      BY <1>1, <2>2 DEF TypeOK, Keys
    <3>2. Room' = Room
      BY <3>1 DEF Room, Limit
    <3>3. Admitted' \subseteq Admitted
      BY <1>3, <2>2 DEF OthersStay, Admitted, Limit
    <3> QED
      BY <3>2, <3>3, VerifyNumbers, FewerRequests, CountsOfRequests
  <2> QED
    BY <2>1, <2>2
<1>8. Guessable' => Guessable /\ otp'.code = otp.code /\ Debt' <= Debt
  <2>1. Early' = Early
    BY <1>2 DEF Early, Limit
  <2>2. Early' <= Early
    BY <2>1, VerifyNumbers
  <2> QED
    BY <1>2, <1>5, <1>7, <2>2, DebtFalls DEF Guessable
<1> QED
  BY <1>2, <1>4, <1>6, <1>8, NothingCompared

LEMMA AskTtlGuess ==
  ASSUME OtpNumbers, TypeOK, TypeOK', GuessInv, NEW r \in Requests, AskTtl(r)
  PROVE  GuessInv'
<1>1. key[r] = "api" /\ UNCHANGED <<count, ttl, otp, issued, compared>>
  BY DEF AskTtl, GuessInv, counters, codes
<1>2. /\ OthersStay(r) /\ pc'[r] \notin {"drop", "ttl", "find"}
      /\ pc'[r] = "arm" => key'[r] = "api"
  <2>1. CASE Goto(r, "arm") /\ UNCHANGED <<key, got, seen>>
    BY <1>1, <2>1 DEF Goto, TypeOK, OthersStay
  <2>2. CASE Enter(r, key[r], got[r])
    BY <1>1, <2>2, EnterGoesOn
  <2> QED
    BY <2>1, <2>2 DEF AskTtl
<1>3. /\ Admitted' \subseteq Admitted /\ Removing' \subseteq Removing
      /\ \A q \in Requests : pc'[q] = "ttl" => key'[q] = "api"
  BY <1>2 DEF OthersStay, GuessInv, Admitted, Removing, Limit
<1> QED
  BY <1>1, <1>3, NobodyEnters DEF Guessable

\* A window that is armed ends no sooner than the code.
LEMMA ArmGuess ==
  ASSUME OtpNumbers, TypeOK, TypeOK', GuessInv, NEW r \in Requests, Arm(r)
  PROVE  GuessInv'
<1>1. /\ pc[r] = "arm" /\ key[r] \in Keys /\ Enter(r, key[r], got[r])
      /\ UNCHANGED <<count, otp, issued, compared>>
  BY DEF Arm, TypeOK, codes
<1>2. /\ OthersStay(r) /\ pc'[r] \in {"idle", "lookup", "find"}
      /\ pc'[r] = "find" => got[r] <= Max[key[r]] /\ key[r] = "verify"
  BY <1>1, EnterGoesOn DEF Keys
<1>3. /\ Admitted' \subseteq Admitted /\ Removing' \subseteq Removing
      /\ \A q \in Requests : pc'[q] = "ttl" => key'[q] = "api"
  BY <1>1, <1>2 DEF OthersStay, GuessInv, Admitted, Removing, Limit
<1>4. \/ ttl'["verify"] = ttl["verify"]
      \/ count["verify"] > 0 /\ ttl'["verify"] = Window["verify"]
  BY <1>1, VerifyNumbers DEF Arm, TypeOK
<1>5. ttl'["verify"] # None => count'["verify"] > 0
  BY <1>1, <1>4 DEF GuessInv
<1>6. ASSUME Guessable' PROVE Guessable /\ otp'.code = otp.code /\ Debt' <= Debt
  <2>1. Guessable /\ otp \in OtpRow
    BY <1>1, <1>6 DEF Guessable, Open, TypeOK
  <2>2. otp.left \in Nat /\ otp.left <= Lifetime /\ Window["verify"] \in Nat /\ Lifetime \in Nat
    BY <2>1, LimitsAssumption, VerifyNumbers DEF OtpRow
  <2>3. Early' <= Early
    <3>1. CASE ttl'["verify"] = ttl["verify"]
      <4>1. Early' = Early
        BY <1>1, <3>1 DEF Early, Limit
      <4> QED
        BY <4>1, VerifyNumbers
    <3>2. CASE ttl'["verify"] = Window["verify"]
      <4>1. Early' = 0
        BY <1>1, <2>2, <3>2 DEF Early, OtpNumbers
      <4> QED
        BY <4>1, VerifyNumbers
    <3> QED
      BY <1>4, <3>1, <3>2
  <2>4. Room' = Room
    BY <1>1 DEF Room, Limit
  <2>5. Room' + Cardinality(Admitted') <= Room + Cardinality(Admitted)
    BY <1>3, <2>4, VerifyNumbers, FewerRequests, CountsOfRequests
  <2> QED
    BY <1>1, <1>3, <2>1, <2>3, <2>5, DebtFalls
<1> QED
  BY <1>1, <1>3, <1>5, <1>6, NothingCompared


\* A code that is issued: nobody compared it yet, the window has at most Limit
\* attempts left, or fewer and one more window, and all others but the request
\* that issues it may be admitted or about to remove the counter.
LEMMA IssueGuess ==
  ASSUME OtpNumbers, TypeOK, TypeOK', GuessInv, NEW r \in Requests, Leave(r),
         issued < MaxCodes, NEW id, Issue(id), UNCHANGED <<count, ttl, compared>>
  PROVE  GuessInv'
<1> DEFINE A == Cardinality(Admitted')
           R == Cardinality(Removing')
           P == Limit * Cardinality(Removing')
           S == Limit * Cardinality(Requests)
<1>1. /\ issued \in Nat /\ issued' = issued + 1 /\ issued' \in Codes
      /\ otp'.code = issued'
  BY LimitsAssumption DEF TypeOK, Codes, Issue
<1>2. compared'[otp'.code] = 0 /\ Bound' = Bound
  BY <1>1 DEF GuessInv, Bound, Limit
<1>3. /\ Admitted' \subseteq Requests \ {r} /\ Removing' \subseteq Requests \ {r}
      /\ Admitted' \cap Removing' = {}
      /\ \A q \in Requests : pc'[q] = "ttl" => key'[q] = "api"
  BY LeaveGoesOn, OneGoesOn DEF Admitted, Removing
<1>4. A + R <= Cardinality(Requests) - 1 /\ A \in Nat /\ R \in Nat
  <2>1. /\ IsFiniteSet(Requests \ {r})
        /\ Cardinality(Requests \ {r}) = Cardinality(Requests) - 1
    BY FS_RemoveElement DEF OtpNumbers
  <2>2. IsFiniteSet(Admitted') /\ IsFiniteSet(Removing')
    BY <1>3, <2>1, FS_Subset
  <2>3. Cardinality(Admitted' \cup Removing') = A + R - Cardinality(Admitted' \cap Removing')
    BY <2>2, FS_Union
  <2>4. Cardinality(Admitted' \cap Removing') = 0
    BY <1>3, FS_EmptySet
  <2>5. Cardinality(Admitted' \cup Removing') <= Cardinality(Requests \ {r})
    BY <1>3, <2>1, FS_Subset
  <2>6. A \in Nat /\ R \in Nat
    BY FewerRequests
  <2> HIDE DEF A, R
  <2> QED
    BY <2>1, <2>3, <2>4, <2>5, <2>6, VerifyNumbers
<1>5. A + P + Limit <= S
  <2>1. Limit \in Nat /\ Limit > 0 /\ Cardinality(Requests) \in Nat
    BY VerifyNumbers
  <2> HIDE DEF A, R
  <2>2. Limit * (A + R + 1) <= Limit * Cardinality(Requests)
    BY <1>4, <2>1, ProductMonotone
  <2>3. Limit * (A + R + 1) = Limit * A + Limit * R + Limit
    BY <1>4, <2>1
  <2>4. 1 * A <= Limit * A
    BY <1>4, <2>1
  <2>5. Limit * A \in Nat /\ Limit * R \in Nat /\ S \in Nat
    BY <1>4, <2>1, ProductType
  <2>6. P = Limit * R
    BY DEF R
  <2> QED
    BY <1>4, <2>1, <2>2, <2>3, <2>4, <2>5, <2>6
<1>6. Room' + Early' < 2 * Limit
  <2>1. Room' = Room /\ ttl'["verify"] = ttl["verify"] /\ Early' \in {0, Limit}
    BY LaterNumbers DEF Room, Limit
  <2>2. CASE Early' = 0
    BY <2>1, <2>2, VerifyNumbers
  <2>3. CASE Early' # 0
    <3>1. count["verify"] > 0
      BY <2>1, <2>3 DEF Early, GuessInv
    <3>2. Room < Limit
      BY <3>1, VerifyNumbers DEF Room
    <3> QED
      BY <2>1, <3>2, VerifyNumbers
  <2> QED
    BY <2>2, <2>3
<1>7. compared'[otp'.code] + Debt' < Bound'
  <2>1. Debt' = Room' + A + P + Early'
    BY DEF Debt, Limit
  <2>2. P \in Nat /\ S \in Nat /\ Bound = S + Limit
    BY FewerRequests, VerifyNumbers, ProductType
  <2> HIDE DEF A, P, S
  <2> QED
    BY <1>2, <1>4, <1>5, <1>6, <2>1, <2>2, VerifyNumbers, LaterNumbers
<1>8. \A c \in Codes : compared'[c] < Bound' /\ (c > issued' => compared'[c] = 0)
  <2>1. \A c \in Codes : c > issued' => c > issued
    BY <1>1 DEF Codes
  <2>2. compared' = compared /\ Bound' = Bound
    BY <1>2
  <2> QED
    BY <2>1, <2>2 DEF GuessInv
<1> QED
  BY <1>3, <1>7, <1>8 DEF GuessInv

LEMMA GenerateGuess ==
  ASSUME OtpNumbers, TypeOK, TypeOK', GuessInv, NEW r \in Requests,
         LookUp(r) \/ UpdateOtp(r) \/ CreateOtp(r)
  PROVE  GuessInv'
<1>1. CASE LookUp(r)
  <2>1. OthersStay(r) /\ pc'[r] \in {"create", "update"}
    BY <1>1 DEF LookUp, Goto, TypeOK, OthersStay
  <2>2. UNCHANGED <<count, ttl, otp, issued, compared>>
    BY <1>1 DEF LookUp, counters, codes
  <2> QED
    BY <2>1, <2>2, OneGoesOn, NobodyEnters DEF Guessable
<1>2. CASE UpdateOtp(r) \/ CreateOtp(r)
  <2>1. Leave(r) /\ UNCHANGED <<count, ttl, compared>> /\ issued < MaxCodes
    BY <1>2 DEF UpdateOtp, CreateOtp, counters
  <2>2. CASE \E id : Issue(id)
    BY <2>1, <2>2, IssueGuess
  <2>3. CASE UNCHANGED <<otp, issued>>
    BY <2>1, <2>3, LeaveGoesOn, OneGoesOn, NobodyEnters DEF Guessable
  <2> QED
    BY <1>2, <2>2, <2>3 DEF UpdateOtp, CreateOtp
<1> QED
  BY <1>1, <1>2

\* A code that is compared costs the request its place.
LEMMA CompareGuess ==
  ASSUME OtpNumbers, TypeOK, TypeOK', GuessInv, NEW r \in Requests, pc[r] = "find",
         Guessable, otp.code <= issued,
         compared' = [compared EXCEPT ![otp.code] = @ + 1],
         UNCHANGED <<count, ttl, otp, issued>>,
         OthersStay(r), pc'[r] \notin {"find", "arm", "drop", "ttl"}
  PROVE  GuessInv'
<1>1. /\ otp.code \in Codes /\ otp.code \in Nat /\ issued \in Nat
      /\ compared[otp.code] \in Nat /\ compared'[otp.code] = compared[otp.code] + 1
      /\ \A c \in Codes \ {otp.code} : compared'[c] = compared[c]
      /\ Bound' = Bound /\ Bound \in Nat
  <2>1. otp \in OtpRow /\ otp.code \in Codes
    BY DEF Guessable, Open, TypeOK, OtpRow
  <2>2. otp.code \in Nat /\ issued \in Nat
    BY <2>1 DEF Codes, TypeOK
  <2>3. /\ compared[otp.code] \in Nat /\ compared'[otp.code] = compared[otp.code] + 1
        /\ \A c \in Codes \ {otp.code} : compared'[c] = compared[c]
    BY <2>1 DEF TypeOK
  <2>4. Bound' = Bound /\ Bound \in Nat
    BY VerifyNumbers DEF Bound, Limit
  <2> QED
    BY <2>1, <2>2, <2>3, <2>4
<1>2. /\ Admitted' \subseteq Admitted \ {r} /\ Removing' \subseteq Removing
      /\ \A q \in Requests : pc'[q] = "ttl" => key'[q] = "api"
  BY OneGoesOn
<1>3. Cardinality(Admitted') <= Cardinality(Admitted) - 1
  <2>1. r \in Admitted /\ IsFiniteSet(Admitted)
    BY CountsOfRequests DEF Admitted
  <2>2. /\ IsFiniteSet(Admitted \ {r})
        /\ Cardinality(Admitted \ {r}) = Cardinality(Admitted) - 1
    BY <2>1, FS_RemoveElement
  <2> QED
    BY <1>2, <2>2, FS_Subset
<1>4. Debt' <= Debt - 1
  <2> DEFINE P == Limit * Cardinality(Removing)
             Q == Limit * Cardinality(Removing')
  <2>1. Room' = Room /\ Early' = Early
    BY DEF Room, Early, Limit
  <2>2. P \in Nat /\ Q \in Nat /\ Q <= P
    BY <1>2, CountsOfRequests, FewerRequests
  <2>3. Debt = Room + Cardinality(Admitted) + P + Early
    BY DEF Debt
  <2>4. Debt' = Room + Cardinality(Admitted') + Q + Early
    BY <2>1 DEF Debt, Limit
  <2> HIDE DEF P, Q
  <2> QED
    BY <1>3, <2>2, <2>3, <2>4, VerifyNumbers, CountsOfRequests, FewerRequests
<1>5. compared[otp.code] + Debt < Bound
  BY DEF GuessInv
<1>6. compared'[otp'.code] + Debt' < Bound'
  BY <1>1, <1>4, <1>5, DebtType
<1>7. compared'[otp.code] < Bound'
  BY <1>1, <1>4, <1>5, DebtType
<1>8. \A c \in Codes : compared'[c] < Bound' /\ (c > issued' => compared'[c] = 0)
  <2>1. ~(otp.code > issued)
    BY <1>1
  <2> QED
    BY <1>1, <1>7, <2>1 DEF GuessInv
<1> QED
  BY <1>2, <1>6, <1>8 DEF GuessInv


LEMMA FindGuess ==
  ASSUME OtpNumbers, TypeOK, TypeOK', CodesInv, GuessInv, NEW r \in Requests, FindOtp(r)
  PROVE  GuessInv'
<1>1. pc[r] = "find" /\ UNCHANGED <<count, ttl, otp, issued>>
  BY DEF FindOtp, counters
<1>2. OthersStay(r) /\ pc'[r] \in {"idle", "delete", "mark"}
  <2>1. CASE Leave(r)
    BY <2>1, LeaveGoesOn
  <2>2. CASE Remember(r, otp, "delete") \/ Remember(r, otp, "mark")
    BY <2>2 DEF Remember, Goto, TypeOK, OthersStay
  <2> QED
    BY <2>1, <2>2 DEF FindOtp
<1>3. CASE compared' = compared
  BY <1>1, <1>2, <1>3, OneGoesOn, NobodyEnters DEF Guessable
<1>4. CASE compared' # compared
  <2>1. Open(otp) /\ otp.left # 0 /\ compared' = [compared EXCEPT ![otp.code] = @ + 1]
    BY <1>4 DEF FindOtp
  <2>2. otp \in OtpRow /\ otp # None
    BY <2>1 DEF Open, TypeOK
  <2>3. otp.left > 0 /\ otp.code <= issued
    BY <2>1, <2>2, LimitsAssumption DEF OtpRow, CodesInv, Fresh
  <2>4. Guessable
    BY <2>1, <2>3 DEF Guessable
  <2> QED
    BY <1>1, <1>2, <2>1, <2>3, <2>4, CompareGuess
<1> QED
  BY <1>3, <1>4

\* Steps on the row that compare nothing: it is deleted, or can be found no more.
LEMMA RowGuess ==
  ASSUME OtpNumbers, TypeOK, TypeOK', GuessInv, NEW r \in Requests,
         DeleteOtp(r) \/ MarkVerified(r)
  PROVE  GuessInv'
<1>1. UNCHANGED <<count, ttl, issued, compared>>
  BY DEF DeleteOtp, MarkVerified, counters
<1>2. CASE Leave(r)
  <2>1. otp' = otp \/ otp' = None \/ ~Open(otp')
    <3>1. CASE IsRow(seen[r].id) /\ MarkVerified(r)
      <4>1. otp \in OtpRow /\ otp' = [otp EXCEPT !.verified = TRUE]
        BY <3>1 DEF MarkVerified, IsRow, TypeOK
      <4> QED
        BY <4>1 DEF OtpRow, Open
    <3>2. CASE ~(IsRow(seen[r].id) /\ MarkVerified(r))
      BY <3>2 DEF DeleteOtp, MarkVerified
    <3> QED
      BY <3>1, <3>2
  <2>2. Guessable' => otp' = otp /\ Guessable
    BY <2>1 DEF Guessable, Open
  <2> QED
    BY <1>1, <1>2, <2>2, LeaveGoesOn, OneGoesOn, NobodyEnters
<1>3. CASE ~Leave(r)
  <2>1. /\ IsRow(seen[r].id) /\ otp' = [otp EXCEPT !.verified = TRUE]
        /\ Remember(r, None, "drop")
    BY <1>3 DEF DeleteOtp, MarkVerified
  <2>2. otp \in OtpRow
    BY <2>1 DEF IsRow, TypeOK
  <2>3. ~Guessable'
    BY <2>1, <2>2 DEF Guessable, Open, OtpRow
  <2>4. OthersStay(r) /\ pc'[r] = "drop"
    BY <2>1 DEF Remember, Goto, TypeOK, OthersStay
  <2>5. \A q \in Requests : pc'[q] = "ttl" => key'[q] = "api"
    BY <2>4 DEF OthersStay, GuessInv
  <2>6. ttl'["verify"] # None => count'["verify"] > 0
    BY <1>1 DEF GuessInv
  <2> QED
    BY <1>1, <2>3, <2>5, <2>6, NothingCompared
<1> QED
  BY <1>2, <1>3

\* DEL of the counter opens a whole window; the request that sends it has paid
\* for that.
LEMMA DropGuess ==
  ASSUME OtpNumbers, TypeOK, TypeOK', GuessInv, NEW r \in Requests, DropCounter(r)
  PROVE  GuessInv'
<1> DEFINE P == Limit * Cardinality(Removing)
           Q == Limit * Cardinality(Removing')
<1>1. /\ pc[r] = "drop" /\ Leave(r) /\ UNCHANGED <<otp, issued, compared>>
      /\ count'["verify"] = 0 /\ ttl'["verify"] = None
  BY VerifyNumbers DEF DropCounter, Remove, codes, TypeOK
<1>2. /\ Admitted' \subseteq Admitted /\ Removing' \subseteq Removing \ {r}
      /\ \A q \in Requests : pc'[q] = "ttl" => key'[q] = "api"
  BY <1>1, LeaveGoesOn, OneGoesOn
<1>3. Q + Limit <= P /\ P \in Nat /\ Q \in Nat
  <2>1. r \in Removing /\ IsFiniteSet(Removing) /\ Cardinality(Removing) \in Nat
    BY <1>1, CountsOfRequests DEF Removing
  <2>2. /\ IsFiniteSet(Removing \ {r})
        /\ Cardinality(Removing \ {r}) = Cardinality(Removing) - 1
    BY <2>1, FS_RemoveElement
  <2>3. Cardinality(Removing') + 1 <= Cardinality(Removing) /\ Cardinality(Removing') \in Nat
    BY <1>2, <2>1, <2>2, FS_Subset, FewerRequests
  <2>4. Limit * (Cardinality(Removing') + 1) <= P
    BY <2>1, <2>3, VerifyNumbers, ProductMonotone
  <2>5. Limit * (Cardinality(Removing') + 1) = Q + Limit
    BY <2>3, VerifyNumbers, ProductNext
  <2>6. P \in Nat /\ Q \in Nat
    BY CountsOfRequests, FewerRequests
  <2> HIDE DEF P, Q
  <2> QED
    BY <2>4, <2>5, <2>6
<1>4. Room' <= Limit /\ Early' = 0
  BY <1>1, LaterNumbers DEF Early
<1>5. Debt' <= Debt
  <2>1. Debt = Room + Cardinality(Admitted) + P + Early
    BY DEF Debt
  <2>2. Debt' = Room' + Cardinality(Admitted') + Q + Early'
    BY DEF Debt, Limit
  <2>3. Cardinality(Admitted') <= Cardinality(Admitted)
    BY <1>2, FewerRequests
  <2> HIDE DEF P, Q
  <2> QED
    BY <1>3, <1>4, <2>1, <2>2, <2>3, VerifyNumbers, LaterNumbers, CountsOfRequests, FewerRequests
<1> QED
  BY <1>1, <1>2, <1>5, NothingCompared DEF Guessable

LEMMA ContinueGuess ==
  ASSUME OtpNumbers, TypeOK, TypeOK', CodesInv, GuessInv, NEW r \in Requests, Continue(r)
  PROVE  GuessInv'
BY AskTtlGuess, ArmGuess, GenerateGuess, FindGuess, RowGuess, DropGuess DEF Continue

\* A window that ends before the code gives way to the next, which was counted.
LEMMA TickGuess ==
  ASSUME OtpNumbers, TypeOK, TypeOK', GuessInv, Tick
  PROVE  GuessInv'
<1>1. UNCHANGED <<issued, compared, pc, key, got>>
  BY DEF Tick
<1>2. Admitted' = Admitted /\ Removing' = Removing
  BY <1>1 DEF Admitted, Removing, Limit
<1>3. /\ count'["verify"] = IF Expires("verify") THEN 0 ELSE count["verify"]
      /\ ttl'["verify"] = IF ttl["verify"] = None \/ Expires("verify") THEN None
                          ELSE ttl["verify"] - 1
      /\ ttl["verify"] # None => ttl["verify"] \in Nat \ {0}
      /\ None \notin Nat
  BY VerifyNumbers, LimitsAssumption DEF Tick, TypeOK
<1>4. ttl'["verify"] # None => count'["verify"] > 0
  BY <1>3 DEF GuessInv
<1>5. ASSUME Guessable' PROVE Guessable /\ otp'.code = otp.code /\ Debt' <= Debt
  <2>1. otp # None /\ otp \in OtpRow
    BY <1>5 DEF Tick, Guessable, Open, TypeOK
  <2>2. otp.left \in Nat
    BY <2>1, LimitsAssumption DEF OtpRow
  <2>3. otp.left > 0 /\ otp' = [otp EXCEPT !.left = @ - 1]
    BY <1>5, <2>1 DEF Tick, Guessable
  <2>4. /\ otp'.left = otp.left - 1 /\ otp'.code = otp.code /\ otp'.verified = otp.verified
        /\ otp'.left > 0
    BY <1>5, <2>1, <2>3 DEF OtpRow, Guessable, Open
  <2>5. Guessable
    BY <1>5, <2>1, <2>3, <2>4 DEF Guessable, Open
  <2>6. Room' + Early' <= Room + Early
    <3>1. CASE ttl["verify"] = None
      <4>1. Room' = Room /\ Early' = 0
        BY <1>3, <3>1, LimitsAssumption DEF Room, Early, Limit, Expires
      <4> QED
        BY <4>1, VerifyNumbers
    <3>2. CASE Expires("verify")
      <4>1. ttl["verify"] = 1 /\ ttl["verify"] # None
        BY <3>2, LimitsAssumption DEF Expires
      <4>2. Early = Limit
        BY <2>2, <2>4, <4>1 DEF Early
      <4>3. Early' = 0 /\ Room' <= Limit
        BY <1>3, <3>2, LaterNumbers DEF Early
      <4> QED
        BY <4>2, <4>3, VerifyNumbers, LaterNumbers
    <3>3. CASE ttl["verify"] # None /\ ~Expires("verify")
      <4>1. /\ ttl'["verify"] = ttl["verify"] - 1 /\ count'["verify"] = count["verify"]
            /\ ttl["verify"] \in Nat /\ ttl'["verify"] # None
        BY <1>3, <3>3 DEF Expires
      <4>2. Room' = Room
        BY <4>1 DEF Room, Limit
      <4>3. ttl'["verify"] < otp'.left <=> ttl["verify"] < otp.left
        BY <2>2, <2>4, <4>1
      <4>4. Early' = Early
        BY <3>3, <4>1, <4>3 DEF Early, Limit
      <4> QED
        BY <4>2, <4>4, VerifyNumbers
    <3> QED
      BY <3>1, <3>2, <3>3
  <2>7. Debt' <= Debt
    <3> DEFINE P == Limit * Cardinality(Removing)
    <3>1. P \in Nat
      BY CountsOfRequests
    <3>2. Debt = Room + Cardinality(Admitted) + P + Early
      BY DEF Debt
    <3>3. Debt' = Room' + Cardinality(Admitted) + P + Early'
      BY <1>2 DEF Debt, Limit
    <3> HIDE DEF P
    <3> QED
      BY <2>6, <3>1, <3>2, <3>3, VerifyNumbers, LaterNumbers, CountsOfRequests
  <2> QED
    BY <2>4, <2>5, <2>7
<1>6. \A q \in Requests : pc'[q] = "ttl" => key'[q] = "api"
  BY <1>1 DEF GuessInv
<1> QED
  BY <1>1, <1>4, <1>5, <1>6, NothingCompared

LEMMA EnvironmentGuess ==
  ASSUME OtpNumbers, TypeOK, TypeOK', GuessInv,
         CleanUp \/ Tick \/ \E r \in Requests : Crash(r)
  PROVE  GuessInv'
<1>1. ASSUME NEW r \in Requests, Crash(r) PROVE GuessInv'
  <2>1. Leave(r) /\ UNCHANGED <<count, ttl, otp, issued, compared>>
    BY <1>1 DEF Crash, codes
  <2> QED
    BY <2>1, LeaveGoesOn, OneGoesOn, NobodyEnters DEF Guessable
<1>2. CASE CleanUp
  <2>1. UNCHANGED <<count, ttl, issued, compared, pc, key, got>> /\ otp' = None
    BY <1>2 DEF CleanUp, counters
  <2>2. Admitted' = Admitted /\ Removing' = Removing /\ ~Guessable'
    BY <2>1 DEF Admitted, Removing, Limit, Guessable, Open
  <2>3. \A q \in Requests : pc'[q] = "ttl" => key'[q] = "api"
    BY <2>1 DEF GuessInv
  <2> QED
    BY <2>1, <2>2, <2>3, NobodyEnters
<1> QED
  BY <1>1, <1>2, TickGuess

LEMMA NextGuess ==
  ASSUME OtpNumbers, TypeOK, CodesInv, GuessInv, [Next]_vars
  PROVE  GuessInv'
<1>1. TypeOK'
  BY NextType
<1>2. CASE UNCHANGED vars
  <2>1. UNCHANGED <<count, ttl, otp, issued, compared, pc, key, got>>
    BY <1>2 DEF vars
  <2>2. Admitted' = Admitted /\ Removing' = Removing
    BY <2>1 DEF Admitted, Removing, Limit
  <2>3. \A q \in Requests : pc'[q] = "ttl" => key'[q] = "api"
    BY <2>1 DEF GuessInv
  <2> QED
    BY <1>1, <2>1, <2>2, <2>3, NobodyEnters DEF Guessable
<1>3. CASE Next
  BY <1>1, <1>3, IncrementGuess, ContinueGuess, EnvironmentGuess DEF Next
<1> QED
  BY <1>2, <1>3

LEMMA InitGuess ==
  ASSUME OtpNumbers, Init
  PROVE  GuessInv
<1>1. TypeOK /\ "verify" \in Keys
  BY InitType DEF Keys
<1>2. /\ ttl["verify"] = None /\ otp = None
      /\ \A r \in Requests : pc[r] = "idle"
      /\ \A c \in Codes : compared[c] = 0
  BY <1>1 DEF Init
<1>3. 0 < Bound
  <2>1. Limit * Cardinality(Requests) \in Nat
    BY <1>1, VerifyNumbers, ProductType
  <2> QED
    BY <1>1, <2>1, VerifyNumbers
<1> QED
  BY <1>2, <1>3 DEF GuessInv, Guessable, Open

(* A code is compared in fewer attempts than one window for each request that
   can be under way, and one more, allow: however the requests overlap, whoever
   removes the counter late, and whether its expiry was set, set again or
   never, as long as a window is no shorter than the life of a code. *)
THEOREM GuessesAreBounded ==
  ASSUME OtpNumbers
  PROVE  Spec => []GuessesBounded
<1>1. Init => TypeOK /\ CodesInv /\ GuessInv
  BY InitType, InitCodes, InitGuess DEF OtpNumbers
<1>2. TypeOK /\ CodesInv /\ GuessInv /\ [Next]_vars => (TypeOK /\ CodesInv /\ GuessInv)'
  BY NextType, NextCodes, NextGuess DEF OtpNumbers
<1>3. GuessInv => GuessesBounded
  BY DEF GuessInv, GuessesBounded, Bound, Limit
<1> QED
  BY <1>1, <1>2, <1>3, PTL DEF Spec

=============================================================================
