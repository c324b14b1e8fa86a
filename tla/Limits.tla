------------------------------- MODULE Limits -------------------------------
(***************************************************************************)
(* The counters in Redis that limit how often something is done, and the   *)
(* one-time passwords of the identity service that two of them guard.      *)
(*                                                                         *)
(*   rate    generateOtp of otp.service.ts, for a phone number             *)
(*   verify  verifyOtp of otp.service.ts, for a phone number               *)
(*   gate    throttle.guard.ts (bids of a user) and checkLoginRateLimit of *)
(*           auth.controller.ts (logins of an identifier)                  *)
(*   api     global-rate-limit.middleware.ts of every service              *)
(*                                                                         *)
(* INCR and PEXPIRE are two calls, so a counter may be left without an     *)
(* expiry; only the middleware looks for that.  Time is what remains of    *)
(* each expiry.                                                            *)
(***************************************************************************)
EXTENDS Integers, FiniteSets

CONSTANTS Requests,  \* requests, each on one of the counters at a time
          Max,       \* Max[k]: what is passed in a window of counter k
          Window,    \* Window[k]: its length, in ticks of the clock
          Lifetime,  \* of a code, in ticks
          None,
          MaxCodes,  \* bound: codes issued
          MaxFaults  \* bound: requests that end half-way

Keys == {"rate", "verify", "gate", "api"}

ASSUME LimitsAssumption ==
  /\ Max \in [Keys -> Nat]
  /\ Window \in [Keys -> Nat \ {0}]
  /\ {Lifetime, MaxCodes, MaxFaults} \subseteq Nat
  /\ None \notin Nat \cup Keys

VARIABLES scope,    \* bound: the counters that a behaviour exercises.  The
                    \* counters of different scopes share nothing.
          count,    \* the value of each counter, 0 when the key is absent
          ttl,      \* what remains until it expires, or None
          otp,      \* the row of the otps table for the phone number, or None
          issued,   \* the number of codes issued: they are 1..issued
          pc,
          key,      \* the counter of a request
          got,      \* what its INCR returned
          seen,     \* the row it found
          compared, \* history: how often each code was compared
          used,     \* history: how often each code verified the number
          orphaned, \* history: counters whose PEXPIRE was never sent
          faults

vars     == <<scope, count, ttl, otp, issued, pc, key, got, seen, compared,
              used, orphaned, faults>>
counters == <<count, ttl, orphaned>>
codes    == <<otp, issued, compared, used>>

Codes   == 1..MaxCodes
OtpRow  == [id: Codes, code: Codes, left: 0..Lifetime, verified: BOOLEAN]
Steps   == {"idle", "arm", "ttl", "lookup", "update", "create", "find",
            "delete", "mark", "drop"}

Init ==
  /\ scope \in {{"rate", "verify"}, {"gate"}, {"api"}}
  /\ count = [k \in Keys |-> 0]
  /\ ttl = [k \in Keys |-> None]
  /\ otp = None
  /\ issued = 0
  /\ pc = [r \in Requests |-> "idle"]
  /\ key = [r \in Requests |-> None]
  /\ got = [r \in Requests |-> 0]
  /\ seen = [r \in Requests |-> None]
  /\ compared = [c \in Codes |-> 0]
  /\ used = [c \in Codes |-> 0]
  /\ orphaned = {}
  /\ faults = 0

Goto(r, step) == pc' = [pc EXCEPT ![r] = step]

\* The request r is answered: what it held is gone.
Leave(r) ==
  /\ Goto(r, "idle")
  /\ key' = [key EXCEPT ![r] = None]
  /\ got' = [got EXCEPT ![r] = 0]
  /\ seen' = [seen EXCEPT ![r] = None]

-----------------------------------------------------------------------------
(* Counting. *)

\* Mutant of Passes: the window admits one more.
PassesOneMore(k, n) == n <= Max[k] + 1

Passes(k, n) == n <= Max[k]

\* The count n is compared with the limit: 429, or on to what is guarded.
Enter(r, k, n) ==
  IF ~Passes(k, n) \/ k \in {"gate", "api"}
  THEN Leave(r)
  ELSE /\ Goto(r, IF k = "rate" THEN "lookup" ELSE "find")
       /\ key' = [key EXCEPT ![r] = k]
       /\ got' = [got EXCEPT ![r] = 0]
       /\ UNCHANGED seen

\* Mutants of IsFirst: no request sends PEXPIRE; every request does.
IsFirstNever(n) == n = 0
IsFirstAny(n) == n > 0

IsFirst(n) == n = 1

Wait(r, k, n, step) ==
  /\ Goto(r, step)
  /\ key' = [key EXCEPT ![r] = k]
  /\ got' = [got EXCEPT ![r] = n]
  /\ UNCHANGED seen

\* INCR; bound: a count above the limit is counted no further.
Increment(r) ==
  /\ pc[r] = "idle"
  /\ \E k \in scope :
       /\ count' = [count EXCEPT ![k] = IF @ <= Max[k] THEN @ + 1 ELSE @]
       /\ IF IsFirst(count'[k]) THEN Wait(r, k, count'[k], "arm")
          ELSE IF k = "api"     THEN Wait(r, k, count'[k], "ttl")
          ELSE Enter(r, k, count'[k])
  /\ UNCHANGED <<scope, ttl, orphaned, codes, faults>>

\* The middleware asks for the TTL when it was not the first: -1, no expiry.
AskTtl(r) ==
  /\ pc[r] = "ttl"
  /\ IF count[key[r]] > 0 /\ ttl[key[r]] = None
     THEN Goto(r, "arm") /\ UNCHANGED <<key, got, seen>>
     ELSE Enter(r, key[r], got[r])
  /\ UNCHANGED <<scope, counters, codes, faults>>

\* PEXPIRE, or EXPIRE: nothing when the key is gone.
Arm(r) ==
  /\ pc[r] = "arm"
  /\ IF count[key[r]] > 0
     THEN /\ ttl' = [ttl EXCEPT ![key[r]] = Window[key[r]]]
          /\ orphaned' = orphaned \ {key[r]}
     ELSE UNCHANGED <<ttl, orphaned>>
  /\ Enter(r, key[r], got[r])
  /\ UNCHANGED <<scope, count, codes, faults>>

-----------------------------------------------------------------------------
(* generateOtp. *)

LookUp(r) ==
  /\ pc[r] = "lookup"
  /\ issued < MaxCodes
  /\ Goto(r, IF otp = None THEN "create" ELSE "update")
  /\ UNCHANGED <<scope, counters, codes, key, got, seen, faults>>

\* A new code, in the row with this id.
Issue(id) ==
  /\ issued' = issued + 1
  /\ otp' = [id |-> id, code |-> issued', left |-> Lifetime, verified |-> FALSE]

\* UPDATE by phone number: it throws when the row is gone.
UpdateOtp(r) ==
  /\ pc[r] = "update"
  /\ issued < MaxCodes
  /\ IF otp = None THEN UNCHANGED <<otp, issued>> ELSE Issue(otp.id)
  /\ Leave(r)
  /\ UNCHANGED <<scope, counters, compared, used, faults>>

\* INSERT: phone_number is unique, so it throws when there is a row by now.
CreateOtp(r) ==
  /\ pc[r] = "create"
  /\ issued < MaxCodes
  /\ IF otp = None THEN Issue(issued + 1) ELSE UNCHANGED <<otp, issued>>
  /\ Leave(r)
  /\ UNCHANGED <<scope, counters, compared, used, faults>>

-----------------------------------------------------------------------------
(* verifyOtp. *)

\* Mutant of Open: a verified row is found again.
OpenAlways(row) == row # None

Open(row) == row # None /\ (row # None => ~row.verified)

\* Mutant of Remember: the row is not held.
RememberStep(r, row, step) ==
  /\ Goto(r, step)
  /\ UNCHANGED <<seen, key, got>>

Remember(r, row, step) ==
  /\ Goto(r, step)
  /\ seen' = [seen EXCEPT ![r] = row]
  /\ UNCHANGED <<key, got>>

\* The row that is not verified is found; when it is not over its code is
\* compared with the one typed, right or wrong.
FindOtp(r) ==
  /\ pc[r] = "find"
  /\ IF ~Open(otp)
     THEN Leave(r) /\ UNCHANGED compared
     ELSE IF otp.left = 0
     THEN Remember(r, otp, "delete") /\ UNCHANGED compared
     ELSE /\ compared' = [compared EXCEPT ![otp.code] = @ + 1]
          /\ \E right \in BOOLEAN : IF right THEN Remember(r, otp, "mark") ELSE Leave(r)
  /\ UNCHANGED <<scope, counters, otp, issued, used, faults>>

IsRow(id) == otp # None /\ (otp # None => otp.id = id)

\* DELETE by id of what was over when it was found.
DeleteOtp(r) ==
  /\ pc[r] = "delete"
  /\ otp' = IF IsRow(seen[r].id) THEN None ELSE otp
  /\ Leave(r)
  /\ UNCHANGED <<scope, counters, issued, compared, used, faults>>

\* UPDATE by id: it throws when the row is gone, and does not look whether it
\* has another code by now.
MarkVerified(r) ==
  /\ pc[r] = "mark"
  /\ IF IsRow(seen[r].id)
     THEN /\ otp' = [otp EXCEPT !.verified = TRUE]
          /\ used' = [used EXCEPT ![seen[r].code] = @ + 1]
          /\ Remember(r, None, "drop")
     ELSE Leave(r) /\ UNCHANGED <<otp, used>>
  /\ UNCHANGED <<scope, counters, issued, compared, faults>>

Remove(k) ==
  /\ count' = [count EXCEPT ![k] = 0]
  /\ ttl' = [ttl EXCEPT ![k] = None]
  /\ orphaned' = orphaned \ {k}

\* DEL of the counter of attempts.
DropCounter(r) ==
  /\ pc[r] = "drop"
  /\ Remove("verify")
  /\ Leave(r)
  /\ UNCHANGED <<scope, codes, faults>>

\* cleanupExpiredOtps, every hour.
CleanUp ==
  /\ otp # None
  /\ otp.left = 0
  /\ otp' = None
  /\ UNCHANGED <<scope, counters, issued, pc, key, got, seen, compared, used, faults>>

-----------------------------------------------------------------------------
(* The environment. *)

Expires(k) == ttl[k] = 1

\* Redis removes what expires.
Tick ==
  /\ (\E k \in Keys : ttl[k] # None) \/ (otp # None /\ otp.left > 0)
  /\ count' = [k \in Keys |-> IF Expires(k) THEN 0 ELSE count[k]]
  /\ ttl' = [k \in Keys |-> IF ttl[k] = None \/ Expires(k) THEN None ELSE ttl[k] - 1]
  /\ otp' = IF otp # None /\ otp.left > 0 THEN [otp EXCEPT !.left = @ - 1] ELSE otp
  /\ UNCHANGED <<scope, orphaned, issued, pc, key, got, seen, compared, used, faults>>

\* The server of a request dies, or its call to Redis or to Postgres fails.
Crash(r) ==
  /\ pc[r] # "idle"
  /\ faults < MaxFaults
  /\ faults' = faults + 1
  /\ orphaned' = IF pc[r] = "arm" THEN orphaned \cup {key[r]} ELSE orphaned
  /\ Leave(r)
  /\ UNCHANGED <<scope, count, ttl, codes>>

-----------------------------------------------------------------------------

Continue(r) ==
  \/ AskTtl(r) \/ Arm(r) \/ LookUp(r) \/ UpdateOtp(r) \/ CreateOtp(r)
  \/ FindOtp(r) \/ DeleteOtp(r) \/ MarkVerified(r) \/ DropCounter(r)

Next ==
  \/ \E r \in Requests : Increment(r) \/ Continue(r) \/ Crash(r)
  \/ CleanUp
  \/ Tick

Spec == Init /\ [][Next]_vars

\* Requests under way go on, and time passes; nobody has to send a request.
FairSpec ==
  /\ Spec
  /\ WF_vars(Tick)
  /\ \A r \in Requests : WF_vars(Continue(r))

-----------------------------------------------------------------------------

\* Of every variable the type, and of every request what its place in the code
\* has read.
TypeOK ==
  /\ scope \subseteq Keys
  /\ count \in [Keys -> Nat]
  /\ ttl \in [Keys -> (Nat \ {0}) \cup {None}]
  /\ otp \in OtpRow \cup {None}
  /\ issued \in 0..MaxCodes
  /\ pc \in [Requests -> Steps]
  /\ key \in [Requests -> Keys \cup {None}]
  /\ got \in [Requests -> Nat]
  /\ seen \in [Requests -> OtpRow \cup {None}]
  /\ compared \in [Codes -> Nat]
  /\ used \in [Codes -> Nat]
  /\ orphaned \subseteq Keys
  /\ faults \in Nat
  /\ \A r \in Requests :
       /\ pc[r] # "idle" => key[r] \in Keys
       /\ pc[r] \in {"delete", "mark"} => seen[r] \in OtpRow

\* The one hazard of INCR and then PEXPIRE: a counter that counts has an
\* expiry, or the request that has to set it is about to, or died before it.
\* A DEL, an expiry or another request between the two calls does not matter.
NoImmortalCounter ==
  \A k \in Keys :
    count[k] > 0 /\ ttl[k] = None =>
      k \in orphaned \/ \E r \in Requests : pc[r] = "arm" /\ key[r] = k

\* A code verifies the number once for each request that found it before it was
\* used: the search and the UPDATE are two statements, and the UPDATE has no
\* condition.  No later request uses it again.
UsesBounded == \A c \in Codes : used[c] <= Cardinality(Requests)

\* verifyOtp compares a code in at most two windows of the counter, the first
\* opened before the code was issued, and in one more for each other request
\* that verified an earlier code and removes the counter late.
GuessesBounded ==
  \A c \in Codes : compared[c] < (Cardinality(Requests) + 1) * Max["verify"]

\* "Wait 60 seconds": who is refused is let in again without doing anything,
\* unless the request that had to set the expiry died.
RefusalEnds ==
  \A k \in Keys : count[k] > Max[k] ~> (count[k] <= Max[k] \/ k \in orphaned)

=============================================================================
