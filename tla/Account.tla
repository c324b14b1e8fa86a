------------------------------ MODULE Account ------------------------------
(***************************************************************************)
(* The wallet PIN of the identity service (wallet-pin.service.ts), on the  *)
(* same users rows as the balance of module Wallet: verifyPin, its count   *)
(* of wrong PINs and its lockout.  verifyPin updates single columns, each  *)
(* update a step of its own; the sessions of Wallet (setPin, login,        *)
(* refreshToken) write these columns back with the rest of the row.        *)
(***************************************************************************)
EXTENDS Wallet

CONSTANTS Verifiers,   \* requests that execute verifyPin
          MaxAttempts, \* MAX_PIN_ATTEMPTS
          Lockout,     \* PIN_LOCKOUT_MINUTES, in ticks of the clock
          MaxNow,      \* bound: the last value of the clock
          MaxWrong,    \* bound: the largest pin_attempts (sessions that write
                       \* an old lock back let it grow without end)
          MaxFaults    \* bound: requests that end half-way

ASSUME AccountAssumption ==
  /\ MaxAttempts \in Nat \ {0}
  /\ {Lockout, MaxNow, MaxWrong, MaxFaults} \subseteq Nat
  /\ None \notin Nat \cup Users

VARIABLES attempts,  \* pin_attempts of each user
          locked,    \* pin_locked_until of each user, or None
          now,
          at,        \* where each verifier is
          who,       \* the user of a verifier
          had,       \* whether the row it read had attempts or a lock
          pinRow,    \* the PIN columns of the row a session holds
          rewound,   \* history: users whose PIN columns a session changed back
          faults

pinVars  == <<attempts, locked, now, at, who, had, pinRow, rewound, faults>>
verifier == <<at, who, had>>

PinRow == [attempts: Nat, locked: Nat \cup {None}]

AccountInit ==
  /\ Init
  /\ attempts = [u \in Users |-> 0]
  /\ locked = [u \in Users |-> None]
  /\ now = 0
  /\ at = [v \in Verifiers |-> "idle"]
  /\ who = [v \in Verifiers |-> None]
  /\ had = [v \in Verifiers |-> FALSE]
  /\ pinRow = [s \in Sessions |-> None]
  /\ rewound = {}
  /\ faults = 0

Move(v, step) == at' = [at EXCEPT ![v] = step]

Finish(v) ==
  /\ Move(v, "idle")
  /\ who' = [who EXCEPT ![v] = None]
  /\ had' = [had EXCEPT ![v] = FALSE]

-----------------------------------------------------------------------------
(* verifyPin. *)

IsLocked(u)   == locked[u] # None /\ locked[u] > now
LockIsOver(u) == locked[u] # None /\ locked[u] <= now

\* The row is read; a locked one is refused, and nothing changes.
ReadPin(v) ==
  /\ at[v] = "idle"
  /\ \E u \in Users :
       /\ ~IsLocked(u)
       /\ who' = [who EXCEPT ![v] = u]
       /\ had' = [had EXCEPT ![v] = attempts[u] > 0 \/ locked[u] # None]
       /\ Move(v, IF LockIsOver(u) THEN "reset" ELSE "compare")
  /\ UNCHANGED <<attempts, locked, now, pinRow, rewound, faults>>

ResetColumns(u) ==
  /\ attempts' = [attempts EXCEPT ![u] = 0]
  /\ locked' = [locked EXCEPT ![u] = None]

\* The lock that was read is over: UPDATE pin_attempts = 0, no lock.
ResetLock(v) ==
  /\ at[v] = "reset"
  /\ ResetColumns(who[v])
  /\ Move(v, "compare")
  /\ UNCHANGED <<now, who, had, pinRow, rewound, faults>>

\* bcrypt.compare says no: UPDATE pin_attempts = pin_attempts + 1.
WrongPin(v) ==
  /\ at[v] = "compare"
  /\ attempts[who[v]] < MaxWrong
  /\ attempts' = [attempts EXCEPT ![who[v]] = @ + 1]
  /\ Move(v, "count")
  /\ UNCHANGED <<locked, now, who, had, pinRow, rewound, faults>>

\* It says yes: the row is cleared if it was seen to need it.
RightPin(v) ==
  /\ at[v] = "compare"
  /\ IF had[v] THEN Move(v, "clear") /\ UNCHANGED <<who, had>> ELSE Finish(v)
  /\ UNCHANGED <<attempts, locked, now, pinRow, rewound, faults>>

ClearPin(v) ==
  /\ at[v] = "clear"
  /\ ResetColumns(who[v])
  /\ Finish(v)
  /\ UNCHANGED <<now, pinRow, rewound, faults>>

\* Mutant of TooMany: one more.
TooManyLax(n) == n > MaxAttempts + 1

TooMany(n) == n >= MaxAttempts

\* pin_attempts is read again, and may count the wrong PINs of others.
CountAttempts(v) ==
  /\ at[v] = "count"
  /\ IF TooMany(attempts[who[v]])
     THEN Move(v, "lock") /\ UNCHANGED <<who, had>>
     ELSE Finish(v)
  /\ UNCHANGED <<attempts, locked, now, pinRow, rewound, faults>>

LockPin(v) ==
  /\ at[v] = "lock"
  /\ locked' = [locked EXCEPT ![who[v]] = now + Lockout]
  /\ Finish(v)
  /\ UNCHANGED <<attempts, now, pinRow, rewound, faults>>

\* A query fails or the server dies.
AbortPin(v) ==
  /\ at[v] # "idle"
  /\ faults < MaxFaults
  /\ faults' = faults + 1
  /\ Finish(v)
  /\ UNCHANGED <<attempts, locked, now, pinRow, rewound>>

-----------------------------------------------------------------------------
(* The sessions of Wallet hold the whole row. *)

\* Mutant of ReadRow: the PIN columns are not read.
ReadRowPartly(s) ==
  /\ ReadUser(s)
  /\ UNCHANGED <<attempts, locked, now, verifier, pinRow, rewound, faults>>

ReadRow(s) ==
  /\ ReadUser(s)
  /\ LET u == row'[s].user
     IN pinRow' = [pinRow EXCEPT ![s] = [attempts |-> attempts[u], locked |-> locked[u]]]
  /\ UNCHANGED <<attempts, locked, now, verifier, rewound, faults>>

SaveRow(s) ==
  /\ SaveUser(s)
  /\ LET u == row[s].user
     IN /\ attempts' = [attempts EXCEPT ![u] = pinRow[s].attempts]
        /\ locked' = [locked EXCEPT ![u] = pinRow[s].locked]
        /\ rewound' = IF attempts' = attempts /\ locked' = locked
                      THEN rewound ELSE rewound \cup {u}
  /\ pinRow' = [pinRow EXCEPT ![s] = None]
  /\ UNCHANGED <<now, verifier, faults>>

AccountTick ==
  /\ now < MaxNow
  /\ now' = now + 1
  /\ UNCHANGED <<attempts, locked, verifier, pinRow, rewound, faults>>

-----------------------------------------------------------------------------

PinStep(v) ==
  \/ ReadPin(v) \/ ResetLock(v) \/ WrongPin(v) \/ RightPin(v) \/ ClearPin(v)
  \/ CountAttempts(v) \/ LockPin(v) \/ AbortPin(v)

MoneyStep ==
  \/ \E p \in Depositors : DepositStep(p)
  \/ \E u \in Users, fee \in Fees : DeductFee(u, fee)

AccountNext ==
  \/ MoneyStep /\ UNCHANGED pinVars
  \/ \E v \in Verifiers : PinStep(v) /\ UNCHANGED vars
  \/ \E s \in Sessions : ReadRow(s) \/ SaveRow(s)
  \/ AccountTick /\ UNCHANGED vars

AccountSpec == AccountInit /\ [][AccountNext]_<<vars, pinVars>>

\* Of module Wallet and of the PIN: the types, and what each process holds.
AccountTypeOK ==
  /\ TypeOK
  /\ attempts \in [Users -> Nat]
  /\ locked \in [Users -> Nat \cup {None}]
  /\ now \in Nat
  /\ at \in [Verifiers -> {"idle", "reset", "compare", "clear", "count", "lock"}]
  /\ who \in [Verifiers -> Users \cup {None}]
  /\ had \in [Verifiers -> BOOLEAN]
  /\ pinRow \in [Sessions -> PinRow \cup {None}]
  /\ rewound \subseteq Users
  /\ faults \in Nat
  /\ \A v \in Verifiers : at[v] # "idle" => who[v] \in Users
  /\ \A s \in Sessions : pc[s] # "idle" => pinRow[s] \in PinRow

\* Between two resets of the count at most MaxAttempts wrong PINs are compared,
\* but for one more by each request that overlaps, or that ended after its
\* increment and before its lock: the increment and the re-read count the wrong
\* PINs of others too.  Unless a session has written the columns back.
AttemptsBounded ==
  \A u \in Users :
    u \in rewound \/ attempts[u] < MaxAttempts + Cardinality(Verifiers) + faults

=============================================================================
