--------------------------- MODULE SessionProofs ---------------------------
(***************************************************************************)
(* Theorems of the session of the web front end, for any tabs, requests,   *)
(* logins, messages and reloads.                                           *)
(***************************************************************************)
EXTENDS Session, TLAPS

-----------------------------------------------------------------------------
(* Types. *)

PageOK ==
  /\ token \in [Tabs -> Login \cup {None}]
  /\ refresh \in [Tabs -> Login \cup {None}]
  /\ timer \in [Tabs -> BOOLEAN]
  /\ refreshing \in [Tabs -> Login \cup {None}]
  /\ onTimer \in [Tabs -> BOOLEAN]
  /\ user \in [Tabs -> Login \cup {None}]
  /\ inbox \in [Tabs -> 0..MaxPending]
  /\ stored \in Login \cup {None}
  /\ logins \in 0..MaxLogins
  /\ reloads \in 0..MaxReloads
  /\ overlapped \subseteq Tabs

RequestOK ==
  /\ pc \in [Requests -> {"idle", "sent", "delay", "refresh"}]
  /\ tab \in [Requests -> Tabs \cup {None}]
  /\ kind \in [Requests -> Kinds \cup {None}]
  /\ attempt \in [Requests -> 0..MaxRetries]
  /\ held \in [Requests -> Login \cup {None}]

\* A request is in a tab, and one that will be sent again is not at its last
\* attempt.
Placed ==
  \A r \in Requests :
    /\ pc[r] # "idle" => tab[r] \in Tabs
    /\ pc[r] \in {"delay", "refresh"} => attempt[r] < MaxRetries

TypeInv == PageOK /\ RequestOK /\ Placed

LEMMA TypeInvImplies == TypeInv => TypeOK
BY DEF TypeInv, PageOK, RequestOK, TypeOK

LEMMA InitType == Init => TypeInv
<1> SUFFICES ASSUME Init PROVE TypeInv
  OBVIOUS
<1>1. /\ 0 \in 0..MaxPending /\ 0 \in 0..MaxLogins /\ 0 \in 0..MaxReloads
      /\ 0 \in 0..MaxRetries
  BY SessionAssumption
<1> QED
  BY <1>1 DEF Init, TypeInv, PageOK, RequestOK, Placed

\* No login is None.
LEMMA NoneIsNoLogin == None \notin Login
BY SessionAssumption DEF Login

LEMMA SetTokensType ==
  ASSUME PageOK, NEW t \in Tabs, NEW l \in Login \cup {None}, SetTokens(t, l)
  PROVE  /\ token' \in [Tabs -> Login \cup {None}]
         /\ refresh' \in [Tabs -> Login \cup {None}]
         /\ timer' \in [Tabs -> BOOLEAN]
BY DEF PageOK, SetTokens

LEMMA MarkType ==
  ASSUME PageOK, NEW t \in Tabs, NEW rs, NEW lapped, Mark(t, rs, lapped)
  PROVE  overlapped' \subseteq Tabs
BY DEF PageOK, Mark

LEMMA LogOutType ==
  ASSUME PageOK, NEW t \in Tabs, NEW rs, NEW shown \in Login \cup {None},
         LogOut(t, rs, shown)
  PROVE  /\ token' \in [Tabs -> Login \cup {None}]
         /\ refresh' \in [Tabs -> Login \cup {None}]
         /\ timer' \in [Tabs -> BOOLEAN]
         /\ user' \in [Tabs -> Login \cup {None}]
         /\ stored' \in Login \cup {None}
         /\ overlapped' \subseteq Tabs
BY SetTokensType, MarkType DEF PageOK, LogOut, Forget

LEMMA StoresType ==
  ASSUME PageOK, token' \in [Tabs -> Login \cup {None}], NEW t \in Tabs, Stores(t)
  PROVE  stored' \in Login \cup {None}
BY DEF PageOK, Stores

LEMMA TellType ==
  ASSUME NEW box \in [Tabs -> 0..MaxPending], NEW t \in Tabs
  PROVE  Tell(box, t) \in [Tabs -> 0..MaxPending]
BY SessionAssumption DEF Tell

LEMMA ExpireType ==
  ASSUME PageOK, NEW t \in Tabs, NEW rs, NEW shown \in Login \cup {None},
         Expire(t, rs, shown)
  PROVE  /\ token' \in [Tabs -> Login \cup {None}]
         /\ refresh' \in [Tabs -> Login \cup {None}]
         /\ timer' \in [Tabs -> BOOLEAN]
         /\ user' \in [Tabs -> Login \cup {None}]
         /\ stored' \in Login \cup {None}
         /\ overlapped' \subseteq Tabs
         /\ inbox' \in [Tabs -> 0..MaxPending]
BY LogOutType, TellType DEF PageOK, Expire

LEMMA CaughtType ==
  ASSUME RequestOK, NEW t, NEW rs, rs \subseteq Requests, NEW shown \in Caught(t, rs)
  PROVE  shown \in Login \cup {None}
BY DEF Caught, RequestOK

LEMMA SendType ==
  ASSUME RequestOK, Placed, NEW r \in Requests, NEW t \in Tabs, NEW what \in Kinds,
         NEW l \in Login \cup {None}, Send(r, t, what, l)
  PROVE  RequestOK' /\ Placed'
BY SessionAssumption DEF RequestOK, Placed, Send

LEMMA CloseType ==
  ASSUME RequestOK, Placed, NEW r \in Requests, Close(r)
  PROVE  RequestOK' /\ Placed'
BY SessionAssumption DEF RequestOK, Placed, Close

LEMMA EndAllType ==
  ASSUME RequestOK, Placed, NEW rs, rs \subseteq Requests, \A r \in rs : pc[r] # "idle",
         EndAll(rs)
  PROVE  RequestOK' /\ Placed'
<1>1. 0 \in 0..MaxRetries
  BY SessionAssumption
<1>2. /\ pc' = [r \in Requests |-> IF r \in rs /\ kind[r] = "restore" THEN "sent"
                                   ELSE IF r \in rs THEN "idle" ELSE pc[r]]
      /\ tab' = [r \in Requests |-> IF r \in rs /\ kind[r] = "restore" THEN tab[r]
                                    ELSE IF r \in rs THEN None ELSE tab[r]]
      /\ kind' = [r \in Requests |-> IF r \in rs /\ kind[r] = "restore" THEN "renew"
                                     ELSE IF r \in rs THEN None ELSE kind[r]]
      /\ attempt' = [r \in Requests |-> IF r \in rs /\ kind[r] = "restore" THEN 0
                                        ELSE IF r \in rs THEN 0 ELSE attempt[r]]
      /\ held' = [r \in Requests |-> IF r \in rs /\ kind[r] = "restore" THEN held[r]
                                     ELSE IF r \in rs THEN None ELSE held[r]]
  BY DEF EndAll
<1>3. RequestOK'
  BY <1>1, <1>2 DEF RequestOK, Kinds
<1>4. Placed'
  BY <1>2 DEF RequestOK, Placed
<1> QED
  BY <1>3, <1>4

-----------------------------------------------------------------------------
(* Types: one lemma per action. *)

LEMMA RequestsStay ==
  ASSUME RequestOK, Placed, UNCHANGED request
  PROVE  RequestOK' /\ Placed'
BY DEF RequestOK, Placed, request

LEMMA NoLoginType == None \in Login \cup {None} /\ 0 \in 0..MaxRetries /\ 0 \in 0..MaxPending
BY SessionAssumption

LEMMA StartType ==
  ASSUME TypeInv, NEW r \in Requests, Call(r) \/ SubmitLogin(r)
  PROVE  TypeInv'
<1>1. PICK t \in Tabs : Send(r, t, "call", None) \/ Send(r, t, "login", None)
  BY DEF Call, SubmitLogin
<1>2. RequestOK' /\ Placed'
  BY <1>1, SendType DEF TypeInv, Kinds
<1>3. PageOK'
  BY DEF TypeInv, PageOK, Call, SubmitLogin, client, page
<1> QED
  BY <1>2, <1>3 DEF TypeInv

LEMMA ShowsType ==
  ASSUME TypeInv, NEW r \in Requests, tab[r] \in Tabs, Shows(r),
         UNCHANGED <<refreshing, onTimer, inbox, logins, reloads>>
  PROVE  TypeInv'
<1>1. RequestOK' /\ Placed'
  BY CloseType DEF TypeInv, Shows
<1>2. /\ token' \in [Tabs -> Login \cup {None}]
      /\ user' \in [Tabs -> Login \cup {None}]
  BY DEF TypeInv, PageOK, RequestOK, Shows, client
<1>3. stored' \in Login \cup {None}
  BY <1>2, StoresType DEF TypeInv, Shows
<1>4. PageOK'
  BY <1>2, <1>3 DEF TypeInv, PageOK, Shows, client
<1> QED
  BY <1>1, <1>4 DEF TypeInv

LEMMA GivesUpType ==
  ASSUME TypeInv, NEW r \in Requests, tab[r] \in Tabs, GivesUp(r),
         UNCHANGED <<refreshing, onTimer, inbox, logins, reloads>>
  PROVE  TypeInv'
<1>1. RequestOK' /\ Placed'
  BY CloseType DEF TypeInv, GivesUp
<1>2. /\ token' \in [Tabs -> Login \cup {None}]
      /\ refresh' \in [Tabs -> Login \cup {None}]
      /\ timer' \in [Tabs -> BOOLEAN]
      /\ overlapped' \subseteq Tabs
  BY SetTokensType, MarkType DEF TypeInv, GivesUp
<1>3. stored' \in Login \cup {None}
  BY <1>2, StoresType DEF TypeInv, GivesUp
<1>4. PageOK'
  BY <1>2, <1>3 DEF TypeInv, PageOK, GivesUp
<1> QED
  BY <1>1, <1>4 DEF TypeInv

LEMMA CallEndsType ==
  ASSUME TypeInv, NEW r \in Requests, Close(r),
         UNCHANGED <<client, page, refreshing, onTimer, inbox, logins, reloads>>
  PROVE  TypeInv'
<1>1. RequestOK' /\ Placed'
  BY CloseType DEF TypeInv
<1>2. PageOK'
  BY DEF TypeInv, PageOK, client, page
<1> QED
  BY <1>1, <1>2 DEF TypeInv

LEMMA SignsInType ==
  ASSUME TypeInv, NEW r \in Requests, tab[r] \in Tabs, SignsIn(r, logins + 1),
         UNCHANGED <<refreshing, onTimer, inbox, reloads>>
  PROVE  TypeInv' /\ logins + 1 \in Login
<1>1. logins + 1 \in 0..MaxLogins /\ logins + 1 \in Login
  BY SessionAssumption DEF SignsIn, TypeInv, PageOK, Login
<1>2. RequestOK' /\ Placed'
  BY <1>1, SendType DEF TypeInv, SignsIn, Kinds
<1>3. PageOK'
  BY <1>1, SetTokensType, MarkType DEF TypeInv, PageOK, SignsIn
<1> QED
  BY <1>1, <1>2, <1>3 DEF TypeInv

LEMMA AnswerOkType ==
  ASSUME TypeInv, NEW r \in Requests, AnswerOk(r)
  PROVE  TypeInv'
<1>1. tab[r] \in Tabs /\ held[r] \in Login \cup {None}
  BY DEF AnswerOk, TypeInv, RequestOK, Placed
<1>2. UNCHANGED <<refreshing, onTimer, inbox, reloads>>
  BY DEF AnswerOk
<1>3. CASE kind[r] = "login"
  BY <1>1, <1>2, <1>3, SignsInType DEF AnswerOk
<1>4. CASE kind[r] = "renew"
  <2>1. /\ SetTokens(tab[r], held[r])
        /\ Send(r, tab[r], "restored", held[r])
        /\ UNCHANGED <<page, logins>>
    BY <1>4 DEF AnswerOk
  <2>2. RequestOK' /\ Placed'
    BY <1>1, <2>1, SendType DEF TypeInv, Kinds
  <2>3. PageOK'
    BY <1>1, <1>2, <2>1, SetTokensType DEF TypeInv, PageOK, page
  <2> QED
    BY <2>2, <2>3 DEF TypeInv
<1>5. CASE kind[r] \in {"profile", "restore", "restored"}
  BY <1>1, <1>2, <1>5, ShowsType DEF AnswerOk
<1>6. CASE kind[r] \notin {"login", "renew", "profile", "restore", "restored"}
  BY <1>2, <1>6, CallEndsType DEF AnswerOk
<1> QED
  BY <1>3, <1>4, <1>5, <1>6

LEMMA AnswerFailsType ==
  ASSUME TypeInv, NEW r \in Requests, AnswerFails(r)
  PROVE  TypeInv'
<1>1. tab[r] \in Tabs /\ held[r] \in Login \cup {None}
  BY DEF AnswerFails, TypeInv, RequestOK, Placed
<1>2. UNCHANGED <<refreshing, onTimer, inbox, logins, reloads>> /\ Fails(r)
  BY DEF AnswerFails
<1>3. CASE kind[r] = "restore"
  <2>1. Send(r, tab[r], "renew", held[r]) /\ UNCHANGED <<client, page>>
    BY <1>2, <1>3 DEF Fails
  <2>2. RequestOK' /\ Placed'
    BY <1>1, <2>1, SendType DEF TypeInv, Kinds
  <2>3. PageOK'
    BY <1>2, <2>1 DEF TypeInv, PageOK, client, page
  <2> QED
    BY <2>2, <2>3 DEF TypeInv
<1>4. CASE kind[r] \in {"renew", "restored"}
  BY <1>1, <1>2, <1>4, GivesUpType DEF Fails
<1>5. CASE kind[r] = "profile"
  BY <1>1, <1>2, <1>5, ShowsType DEF Fails
<1>6. CASE kind[r] \notin {"restore", "renew", "restored", "profile"}
  BY <1>2, <1>6, CallEndsType DEF Fails
<1> QED
  BY <1>3, <1>4, <1>5, <1>6

LEMMA RetryType ==
  ASSUME TypeInv, NEW r \in Requests, AnswerBroken(r) \/ AnswerLate(r) \/ Resend(r)
  PROVE  TypeInv'
<1>1. PageOK'
  BY DEF TypeInv, PageOK, AnswerBroken, AnswerLate, Resend, client, page
<1>2. RequestOK'
  BY SessionAssumption
     DEF TypeInv, RequestOK, Placed, AnswerBroken, AnswerLate, Resend, LastAttempt
<1>3. Placed'
  BY SessionAssumption
     DEF TypeInv, RequestOK, Placed, AnswerBroken, AnswerLate, Resend, LastAttempt
<1> QED
  BY <1>1, <1>2, <1>3 DEF TypeInv

LEMMA JoinType ==
  ASSUME PageOK, NEW t \in Tabs, Join(t)
  PROVE  refreshing' \in [Tabs -> Login \cup {None}]
BY DEF PageOK, Join

LEMMA UnauthorizedType ==
  ASSUME TypeInv, NEW r \in Requests, AnswerUnauthorized(r)
  PROVE  TypeInv'
<1>1. tab[r] \in Tabs
  BY DEF AnswerUnauthorized, TypeInv, RequestOK, Placed
<1>2. PageOK'
  BY <1>1, JoinType DEF TypeInv, PageOK, AnswerUnauthorized, client, page
<1>3. RequestOK' /\ Placed'
  BY SessionAssumption DEF TypeInv, RequestOK, Placed, AnswerUnauthorized, LastAttempt
<1> QED
  BY <1>2, <1>3 DEF TypeInv

LEMMA ExpiredType ==
  ASSUME TypeInv, NEW r \in Requests, AnswerExpired(r)
  PROVE  TypeInv'
<1>1. PICK shown \in Caught(tab[r], {r}) : Expire(tab[r], {r}, shown)
  BY DEF AnswerExpired
<1>2. tab[r] \in Tabs /\ shown \in Login \cup {None}
  BY CaughtType DEF AnswerExpired, TypeInv, RequestOK, Placed
<1>3. RequestOK' /\ Placed'
  BY EndAllType DEF TypeInv, AnswerExpired
<1>4. PageOK'
  BY <1>1, <1>2, ExpireType DEF TypeInv, PageOK, AnswerExpired
<1> QED
  BY <1>3, <1>4 DEF TypeInv

LEMMA TimerType ==
  ASSUME TypeInv, NEW t \in Tabs, TimerFires(t)
  PROVE  TypeInv'
<1>1. RequestOK' /\ Placed'
  BY RequestsStay DEF TypeInv, TimerFires
<1>2. PageOK'
  BY JoinType DEF TypeInv, PageOK, TimerFires, page
<1> QED
  BY <1>1, <1>2 DEF TypeInv

LEMMA SettleType ==
  ASSUME PageOK, NEW t \in Tabs, Settle(t)
  PROVE  /\ refreshing' \in [Tabs -> Login \cup {None}]
         /\ onTimer' \in [Tabs -> BOOLEAN]
         /\ refreshing[t] \in Login \cup {None}
BY DEF PageOK, Settle

LEMMA SucceedsType ==
  ASSUME TypeInv, NEW t \in Tabs, RefreshSucceeds(t)
  PROVE  TypeInv'
<1>1. PageOK'
  BY SettleType, SetTokensType DEF TypeInv, PageOK, RefreshSucceeds, Renewed, page
<1>2. \A r \in Waiters(t) : pc[r] = "refresh" /\ tab[r] = t /\ attempt[r] < MaxRetries
  BY DEF Waiters, TypeInv, Placed
<1>3. RequestOK'
  BY <1>2, SettleType, SessionAssumption DEF TypeInv, RequestOK, RefreshSucceeds
<1>4. Placed'
  BY <1>2 DEF TypeInv, RequestOK, Placed, RefreshSucceeds
<1> QED
  BY <1>1, <1>3, <1>4 DEF TypeInv

LEMMA WaitersWait ==
  ASSUME NEW t
  PROVE  Waiters(t) \subseteq Requests /\ \A r \in Waiters(t) : pc[r] # "idle"
BY DEF Waiters

LEMMA RefusedType ==
  ASSUME TypeInv, NEW t \in Tabs, RefreshRefused(t)
  PROVE  TypeInv'
<1>1. PICK shown \in Caught(t, Waiters(t)) : Expire(t, Waiters(t), shown)
  BY DEF RefreshRefused
<1>2. shown \in Login \cup {None}
  BY CaughtType, WaitersWait DEF TypeInv
<1>3. RequestOK' /\ Placed'
  BY EndAllType, WaitersWait DEF TypeInv, RefreshRefused
<1>4. PageOK'
  BY <1>1, <1>2, ExpireType, SettleType DEF TypeInv, PageOK, RefreshRefused
<1> QED
  BY <1>3, <1>4 DEF TypeInv

LEMMA LostType ==
  ASSUME TypeInv, NEW t \in Tabs, RefreshLost(t)
  PROVE  TypeInv'
<1>1. PICK shown \in Caught(t, Waiters(t)) :
        IF onTimer[t] THEN \E last \in {None, shown} : Expire(t, Waiters(t), last)
        ELSE LostToCalls(t, shown)
  BY DEF RefreshLost
<1>2. shown \in Login \cup {None}
  BY CaughtType, WaitersWait DEF TypeInv
<1>3. RequestOK' /\ Placed'
  BY EndAllType, WaitersWait DEF TypeInv, RefreshLost
<1>4. Settle(t) /\ UNCHANGED <<logins, reloads>>
  BY DEF RefreshLost
<1>5. CASE onTimer[t]
  <2>1. PICK last \in {None, shown} : Expire(t, Waiters(t), last)
    BY <1>1, <1>5
  <2>2. last \in Login \cup {None}
    BY <1>2
  <2> QED
    BY <1>3, <1>4, <2>1, <2>2, ExpireType, SettleType DEF TypeInv, PageOK
<1>6. CASE LostToCalls(t, shown)
  <2>1. /\ SetTokens(t, None) \/ UNCHANGED client
        /\ \/ user' = user
           \/ user' = [user EXCEPT ![t] = shown]
        /\ Stores(t) \/ UNCHANGED stored
        /\ UNCHANGED <<overlapped, inbox>>
    BY <1>6 DEF LostToCalls
  <2>2. /\ token' \in [Tabs -> Login \cup {None}]
        /\ refresh' \in [Tabs -> Login \cup {None}]
        /\ timer' \in [Tabs -> BOOLEAN]
    BY <2>1, SetTokensType DEF TypeInv, PageOK, client
  <2>3. user' \in [Tabs -> Login \cup {None}]
    BY <1>2, <2>1 DEF TypeInv, PageOK
  <2>4. stored' \in Login \cup {None}
    BY <2>1, <2>2, StoresType DEF TypeInv, PageOK
  <2> QED
    BY <1>3, <1>4, <2>1, <2>2, <2>3, <2>4, SettleType DEF TypeInv, PageOK
<1> QED
  BY <1>1, <1>5, <1>6

LEMMA GarbledType ==
  ASSUME TypeInv, NEW t \in Tabs, RefreshGarbled(t)
  PROVE  TypeInv'
<1>1. \A r \in Waiters(t) : pc[r] = "refresh" /\ tab[r] = t /\ attempt[r] < MaxRetries
  BY DEF Waiters, TypeInv, Placed
<1>2. RequestOK' /\ Placed'
  BY <1>1 DEF TypeInv, RequestOK, Placed, RefreshGarbled
<1>3. Settle(t) /\ UNCHANGED <<logins, reloads>>
  BY DEF RefreshGarbled
<1>4. Expire(t, {}, None) \/ UNCHANGED <<client, page, inbox>>
  BY DEF RefreshGarbled
<1>5. CASE Expire(t, {}, None)
  BY <1>2, <1>3, <1>5, ExpireType, SettleType DEF TypeInv, PageOK
<1>6. CASE UNCHANGED <<client, page, inbox>>
  BY <1>2, <1>3, <1>6, SettleType DEF TypeInv, PageOK, client, page
<1> QED
  BY <1>4, <1>5, <1>6

LEMMA PageType ==
  ASSUME TypeInv, NEW t \in Tabs, SignOut(t) \/ TimeOut(t) \/ Receive(t) \/ Persist(t)
  PROVE  TypeInv'
<1>1. RequestOK' /\ Placed'
  BY RequestsStay DEF TypeInv, SignOut, TimeOut, Receive, Persist
<1>2. CASE SignOut(t)
  BY <1>1, <1>2, LogOutType DEF TypeInv, PageOK, SignOut
<1>3. CASE TimeOut(t)
  BY <1>1, <1>3, ExpireType DEF TypeInv, PageOK, TimeOut
<1>4. CASE Receive(t)
  <2>1. [inbox EXCEPT ![t] = @ - 1] \in [Tabs -> 0..MaxPending]
    BY <1>4, SessionAssumption DEF TypeInv, PageOK, Receive
  <2> QED
    BY <1>1, <1>4, <2>1, LogOutType, TellType DEF TypeInv, PageOK, Receive
<1>5. CASE Persist(t)
  BY <1>1, <1>5, StoresType DEF TypeInv, PageOK, Persist, client
<1> QED
  BY <1>2, <1>3, <1>4, <1>5

\* What a reload leaves of the requests.
LEMMA ReloadRequests ==
  ASSUME TypeInv, NEW t \in Tabs, Reload(t)
  PROVE  \E r \in Requests :
           /\ pc' = [s \in Requests |-> IF s = r /\ stored # None THEN "sent"
                                        ELSE IF tab[s] = t THEN "idle" ELSE pc[s]]
           /\ tab' = [s \in Requests |-> IF s = r /\ stored # None THEN t
                                         ELSE IF tab[s] = t THEN None ELSE tab[s]]
           /\ kind' = [s \in Requests |-> IF s = r /\ stored # None THEN "restore"
                                          ELSE IF tab[s] = t THEN None ELSE kind[s]]
           /\ attempt' = [s \in Requests |-> IF s = r /\ stored # None THEN 0
                                             ELSE IF tab[s] = t THEN 0 ELSE attempt[s]]
           /\ held' = [s \in Requests |-> IF s = r /\ stored # None THEN stored
                                          ELSE IF tab[s] = t THEN None ELSE held[s]]
BY DEF Reload

LEMMA ReloadType ==
  ASSUME TypeInv, NEW t \in Tabs, Reload(t)
  PROVE  TypeInv'
<1>1. RequestOK'
  BY ReloadRequests, NoLoginType DEF TypeInv, RequestOK, PageOK, Kinds
<1>2. Placed'
  BY ReloadRequests DEF TypeInv, RequestOK, Placed
<1>3. SetTokens(t, stored) /\ stored \in Login \cup {None}
  BY DEF Reload, TypeInv, PageOK
<1>4. reloads' \in 0..MaxReloads
  BY SessionAssumption DEF Reload, TypeInv, PageOK
<1>5. PageOK'
  BY <1>3, <1>4, SetTokensType, NoLoginType DEF Reload, TypeInv, PageOK
<1> QED
  BY <1>1, <1>2, <1>5 DEF TypeInv

LEMMA StutterType ==
  ASSUME TypeInv, UNCHANGED vars
  PROVE  TypeInv'
BY DEF TypeInv, PageOK, RequestOK, Placed, vars

LEMMA NextType ==
  ASSUME TypeInv, [Next]_vars
  PROVE  TypeInv'
BY StartType, AnswerOkType, AnswerFailsType, RetryType, UnauthorizedType, ExpiredType,
   TimerType, SucceedsType, RefusedType, LostType, GarbledType, PageType, ReloadType,
   StutterType
   DEF Next, Answer, RefreshEnds

\* Every variable has its type in every state: a retry never passes the last
\* attempt, a message is counted up to the bound.
THEOREM TypeCorrect == Spec => []TypeOK
<1>1. Spec => []TypeInv
  BY InitType, NextType, PTL DEF Spec
<1> QED
  BY <1>1, TypeInvImplies, PTL

-----------------------------------------------------------------------------
(* The refresh.  Who has tokens has a timer for them, and who awaits a     *)
(* refresh has one under way: of tab t and of request r.                   *)

Scheduled(t) ==
  /\ token[t] = refresh[t]
  /\ token[t] # None => timer[t] \/ onTimer[t]
  /\ timer[t] => token[t] # None
  /\ onTimer[t] => refreshing[t] # None

Awaited(r) == pc[r] = "refresh" => refreshing[tab[r]] # None

RefreshInv ==
  /\ \A t \in Tabs : Scheduled(t)
  /\ \A r \in Requests : Awaited(r)

LEMMA RefreshInvImplies == RefreshInv => NobodyIsStranded /\ RefreshIsScheduled
BY DEF RefreshInv, Scheduled, Awaited, NobodyIsStranded, RefreshIsScheduled

LEMMA InitRefresh == Init => RefreshInv
BY DEF Init, RefreshInv, Scheduled, Awaited

\* Tokens come and go with their timer.
LEMMA SetTokensKeeps ==
  ASSUME PageOK, \A t \in Tabs : Scheduled(t),
         NEW t \in Tabs, NEW l \in Login \cup {None}, SetTokens(t, l),
         UNCHANGED <<refreshing, onTimer>>
  PROVE  \A u \in Tabs : Scheduled(u)'
BY DEF PageOK, Scheduled, SetTokens

LEMMA ClientStays ==
  ASSUME \A t \in Tabs : Scheduled(t), UNCHANGED client, UNCHANGED <<refreshing, onTimer>>
  PROVE  \A u \in Tabs : Scheduled(u)'
BY DEF Scheduled, client

\* Requests that go on, begin or end while the refreshes stay as they are.
LEMMA RequestsKeep ==
  ASSUME RefreshInv, UNCHANGED refreshing,
         \A r \in Requests : pc'[r] = "refresh" => pc[r] = "refresh" /\ tab'[r] = tab[r]
  PROVE  \A r \in Requests : Awaited(r)'
BY DEF RefreshInv, Awaited

LEMMA SendKeeps ==
  ASSUME TypeInv, NEW r \in Requests, NEW t, NEW what, NEW l, Send(r, t, what, l)
  PROVE  \A s \in Requests : pc'[s] = "refresh" => pc[s] = "refresh" /\ tab'[s] = tab[s]
BY DEF TypeInv, RequestOK, Send

LEMMA CloseKeeps ==
  ASSUME TypeInv, NEW r \in Requests, Close(r)
  PROVE  \A s \in Requests : pc'[s] = "refresh" => pc[s] = "refresh" /\ tab'[s] = tab[s]
BY DEF TypeInv, RequestOK, Close

LEMMA EndAllKeeps ==
  ASSUME TypeInv, NEW rs, rs \subseteq Requests, EndAll(rs)
  PROVE  \A s \in Requests :
           pc'[s] = "refresh" => s \notin rs /\ pc[s] = "refresh" /\ tab'[s] = tab[s]
BY DEF TypeInv, RequestOK, EndAll

LEMMA StartKeeps ==
  ASSUME TypeInv, RefreshInv, NEW r \in Requests, Call(r) \/ SubmitLogin(r)
  PROVE  RefreshInv'
<1>1. PICK t \in Tabs : Send(r, t, "call", None) \/ Send(r, t, "login", None)
  BY DEF Call, SubmitLogin
<1>2. UNCHANGED client /\ UNCHANGED <<refreshing, onTimer>>
  BY DEF Call, SubmitLogin
<1>3. \A s \in Requests : pc'[s] = "refresh" => pc[s] = "refresh" /\ tab'[s] = tab[s]
  BY <1>1, SendKeeps
<1> QED
  BY <1>2, <1>3, ClientStays, RequestsKeep DEF RefreshInv

LEMMA AnswerOkKeeps ==
  ASSUME TypeInv, RefreshInv, NEW r \in Requests, AnswerOk(r)
  PROVE  RefreshInv'
<1>1. tab[r] \in Tabs /\ held[r] \in Login \cup {None}
  BY DEF AnswerOk, TypeInv, RequestOK, Placed
<1>2. UNCHANGED <<refreshing, onTimer, inbox, reloads>>
  BY DEF AnswerOk
<1>3. \/ Close(r) /\ UNCHANGED client
      \/ Send(r, tab[r], "restored", held[r]) /\ SetTokens(tab[r], held[r])
      \/ SignsIn(r, logins + 1)
  BY DEF AnswerOk, Shows
<1>4. \A s \in Requests : pc'[s] = "refresh" => pc[s] = "refresh" /\ tab'[s] = tab[s]
  BY <1>3, SendKeeps, CloseKeeps DEF SignsIn
<1>5. SignsIn(r, logins + 1) => logins + 1 \in Login /\ SetTokens(tab[r], logins + 1)
  BY <1>1, <1>2, SignsInType DEF SignsIn
<1>6. \A u \in Tabs : Scheduled(u)'
  BY <1>1, <1>2, <1>3, <1>5, SetTokensKeeps, ClientStays DEF TypeInv, RefreshInv
<1> QED
  BY <1>2, <1>4, <1>6, RequestsKeep DEF RefreshInv

LEMMA AnswerFailsKeeps ==
  ASSUME TypeInv, RefreshInv, NEW r \in Requests, AnswerFails(r)
  PROVE  RefreshInv'
<1>1. tab[r] \in Tabs
  BY DEF AnswerFails, TypeInv, RequestOK, Placed
<1>2. UNCHANGED <<refreshing, onTimer>> /\ Fails(r)
  BY DEF AnswerFails
<1>3. \/ Send(r, tab[r], "renew", held[r]) /\ UNCHANGED client
      \/ Close(r) /\ UNCHANGED client
      \/ Close(r) /\ SetTokens(tab[r], None)
  BY <1>2 DEF Fails, Shows, GivesUp
<1>4. \A s \in Requests : pc'[s] = "refresh" => pc[s] = "refresh" /\ tab'[s] = tab[s]
  BY <1>3, SendKeeps, CloseKeeps
<1>5. \A u \in Tabs : Scheduled(u)'
  BY <1>1, <1>2, <1>3, SetTokensKeeps, ClientStays DEF TypeInv, RefreshInv
<1> QED
  BY <1>2, <1>4, <1>5, RequestsKeep DEF RefreshInv

LEMMA RetryKeeps ==
  ASSUME TypeInv, RefreshInv, NEW r \in Requests, AnswerBroken(r) \/ AnswerLate(r) \/ Resend(r)
  PROVE  RefreshInv'
<1>1. UNCHANGED client /\ UNCHANGED <<refreshing, onTimer>>
  BY DEF AnswerBroken, AnswerLate, Resend
<1>2. \A s \in Requests : pc'[s] = "refresh" => pc[s] = "refresh" /\ tab'[s] = tab[s]
  BY DEF TypeInv, RequestOK, AnswerBroken, AnswerLate, Resend
<1> QED
  BY <1>1, <1>2, ClientStays, RequestsKeep DEF RefreshInv

\* A refresh that is joined is under way, and those that were stay.
LEMMA JoinKeeps ==
  ASSUME TypeInv, NEW t \in Tabs, refresh[t] # None, Join(t)
  PROVE  /\ refreshing'[t] # None
         /\ \A u \in Tabs : refreshing[u] # None => refreshing'[u] # None
BY DEF TypeInv, PageOK, Join

LEMMA UnauthorizedKeeps ==
  ASSUME TypeInv, RefreshInv, NEW r \in Requests, AnswerUnauthorized(r)
  PROVE  RefreshInv'
<1>1. tab[r] \in Tabs /\ refresh[tab[r]] # None /\ Join(tab[r])
  BY DEF AnswerUnauthorized, TypeInv, RequestOK, Placed
<1>2. /\ refreshing'[tab[r]] # None
      /\ \A u \in Tabs : refreshing[u] # None => refreshing'[u] # None
  BY <1>1, JoinKeeps
<1>3. \A u \in Tabs : Scheduled(u)'
  BY <1>2 DEF AnswerUnauthorized, RefreshInv, Scheduled, client
<1>4. /\ pc' = [pc EXCEPT ![r] = "refresh"] /\ tab' = tab
      /\ \A s \in Requests : pc[s] = "refresh" => tab[s] \in Tabs
  BY DEF AnswerUnauthorized, TypeInv, Placed
<1>5. \A s \in Requests : Awaited(s)'
  BY <1>2, <1>4 DEF TypeInv, RequestOK, RefreshInv, Awaited
<1> QED
  BY <1>3, <1>5 DEF RefreshInv

LEMMA ExpiredKeeps ==
  ASSUME TypeInv, RefreshInv, NEW r \in Requests, AnswerExpired(r)
  PROVE  RefreshInv'
<1>1. tab[r] \in Tabs
  BY DEF AnswerExpired, TypeInv, RequestOK, Placed
<1>2. SetTokens(tab[r], None) /\ UNCHANGED <<refreshing, onTimer>> /\ EndAll({r})
  BY DEF AnswerExpired, Expire, LogOut, Forget
<1>3. \A s \in Requests : pc'[s] = "refresh" => pc[s] = "refresh" /\ tab'[s] = tab[s]
  BY <1>2, EndAllKeeps
<1>4. \A u \in Tabs : Scheduled(u)'
  BY <1>1, <1>2, SetTokensKeeps DEF TypeInv, RefreshInv
<1> QED
  BY <1>2, <1>3, <1>4, RequestsKeep DEF RefreshInv

LEMMA TimerKeeps ==
  ASSUME TypeInv, RefreshInv, NEW t \in Tabs, TimerFires(t)
  PROVE  RefreshInv'
<1>1. refresh[t] # None /\ Join(t)
  BY DEF TimerFires, RefreshInv, Scheduled
<1>2. /\ refreshing'[t] # None
      /\ \A u \in Tabs : refreshing[u] # None => refreshing'[u] # None
  BY <1>1, JoinKeeps
<1>3. /\ timer' = [timer EXCEPT ![t] = FALSE]
      /\ onTimer' = [onTimer EXCEPT ![t] = TRUE]
      /\ UNCHANGED <<token, refresh>>
  BY DEF TimerFires
<1>4. \A u \in Tabs : Scheduled(u)'
  BY <1>2, <1>3 DEF TypeInv, PageOK, RefreshInv, Scheduled
<1>5. /\ pc' = pc /\ tab' = tab
      /\ \A s \in Requests : pc[s] = "refresh" => tab[s] \in Tabs
  BY DEF TimerFires, request, TypeInv, Placed
<1>6. \A s \in Requests : Awaited(s)'
  BY <1>2, <1>5 DEF RefreshInv, Awaited
<1> QED
  BY <1>4, <1>6 DEF RefreshInv

\* When a refresh ends, those that awaited it go on, and the tokens of its tab
\* are set, forgotten, or kept with their timer.
LEMMA SettleKeeps ==
  ASSUME TypeInv, RefreshInv, NEW t \in Tabs, Settle(t),
         \A s \in Requests :
           pc'[s] = "refresh" => s \notin Waiters(t) /\ pc[s] = "refresh" /\ tab'[s] = tab[s],
         \/ \E l \in Login \cup {None} : SetTokens(t, l)
         \/ ~onTimer[t] /\ UNCHANGED client
  PROVE  RefreshInv'
<1>1. /\ refreshing' = [refreshing EXCEPT ![t] = None]
      /\ onTimer' = [onTimer EXCEPT ![t] = FALSE]
  BY DEF Settle
<1>2. \A s \in Requests : Awaited(s)'
  BY <1>1 DEF TypeInv, PageOK, RefreshInv, Awaited, Waiters
<1>3. CASE \E l \in Login \cup {None} : SetTokens(t, l)
  <2>1. PICK l \in Login \cup {None} : SetTokens(t, l)
    BY <1>3
  <2>2. \A u \in Tabs : Scheduled(u)'
    BY <1>1, <2>1 DEF TypeInv, PageOK, RefreshInv, Scheduled, SetTokens
  <2> QED
    BY <1>2, <2>2 DEF RefreshInv
<1>4. CASE ~onTimer[t] /\ UNCHANGED client
  <2>1. \A u \in Tabs : Scheduled(u)'
    BY <1>1, <1>4 DEF TypeInv, PageOK, RefreshInv, Scheduled, client
  <2> QED
    BY <1>2, <2>1 DEF RefreshInv
<1> QED
  BY <1>3, <1>4

LEMMA RefreshEndsKeeps ==
  ASSUME TypeInv, RefreshInv, NEW t \in Tabs, RefreshEnds(t)
  PROVE  RefreshInv'
<1>1. Waiters(t) \subseteq Requests
  BY WaitersWait
<1>2. CASE RefreshSucceeds(t)
  <2>1. Settle(t) /\ SetTokens(t, refreshing[t]) /\ refreshing[t] \in Login \cup {None}
    BY <1>2 DEF RefreshSucceeds, Renewed, TypeInv, PageOK
  <2>2. \A s \in Requests :
          pc'[s] = "refresh" => s \notin Waiters(t) /\ pc[s] = "refresh" /\ tab'[s] = tab[s]
    BY <1>2 DEF RefreshSucceeds
  <2> QED
    BY <2>1, <2>2, SettleKeeps
<1>3. CASE RefreshRefused(t)
  <2>1. Settle(t) /\ SetTokens(t, None) /\ EndAll(Waiters(t))
    BY <1>3 DEF RefreshRefused, Expire, LogOut, Forget
  <2> QED
    BY <1>1, <2>1, EndAllKeeps, SettleKeeps
<1>4. CASE RefreshLost(t)
  <2>1. Settle(t) /\ EndAll(Waiters(t))
    BY <1>4 DEF RefreshLost
  <2>2. \/ SetTokens(t, None)
        \/ ~onTimer[t] /\ UNCHANGED client
    BY <1>4 DEF RefreshLost, LostToCalls, Expire, LogOut, Forget
  <2> QED
    BY <1>1, <2>1, <2>2, EndAllKeeps, SettleKeeps
<1>5. CASE RefreshGarbled(t)
  <2>1. /\ Settle(t)
        /\ SetTokens(t, None) \/ (~onTimer[t] /\ UNCHANGED client)
    BY <1>5 DEF RefreshGarbled, Expire, LogOut, Forget
  <2>2. \A s \in Requests :
          pc'[s] = "refresh" => s \notin Waiters(t) /\ pc[s] = "refresh" /\ tab'[s] = tab[s]
    BY <1>5 DEF RefreshGarbled
  <2> QED
    BY <2>1, <2>2, SettleKeeps
<1> QED
  BY <1>2, <1>3, <1>4, <1>5 DEF RefreshEnds

LEMMA PageKeeps ==
  ASSUME TypeInv, RefreshInv, NEW t \in Tabs,
         SignOut(t) \/ TimeOut(t) \/ Receive(t) \/ Persist(t)
  PROVE  RefreshInv'
<1>1. /\ UNCHANGED request
      /\ UNCHANGED <<refreshing, onTimer>>
      /\ SetTokens(t, None) \/ UNCHANGED client
  BY DEF SignOut, TimeOut, Receive, Persist, Expire, LogOut, Forget
<1>2. \A s \in Requests : pc'[s] = "refresh" => pc[s] = "refresh" /\ tab'[s] = tab[s]
  BY <1>1 DEF request
<1>3. \A u \in Tabs : Scheduled(u)'
  BY <1>1, SetTokensKeeps, ClientStays DEF TypeInv, RefreshInv
<1> QED
  BY <1>1, <1>2, <1>3, RequestsKeep DEF RefreshInv

\* The refresh of a page that is loaded again is gone with its requests.
LEMMA ReloadKeeps ==
  ASSUME TypeInv, RefreshInv, NEW t \in Tabs, Reload(t)
  PROVE  RefreshInv'
<1>1. /\ SetTokens(t, stored) /\ stored \in Login \cup {None}
      /\ refreshing' = [refreshing EXCEPT ![t] = None]
      /\ onTimer' = [onTimer EXCEPT ![t] = FALSE]
  BY DEF Reload, TypeInv, PageOK
<1>2. \A u \in Tabs : Scheduled(u)'
  BY <1>1 DEF TypeInv, PageOK, RefreshInv, Scheduled, SetTokens
<1>3. \A s \in Requests :
        pc'[s] = "refresh" => pc[s] = "refresh" /\ tab'[s] = tab[s] /\ tab[s] # t
  BY ReloadRequests
<1>4. \A s \in Requests : Awaited(s)'
  BY <1>1, <1>3 DEF TypeInv, PageOK, RefreshInv, Awaited
<1> QED
  BY <1>2, <1>4 DEF RefreshInv

LEMMA StutterKeeps ==
  ASSUME RefreshInv, UNCHANGED vars
  PROVE  RefreshInv'
BY DEF RefreshInv, Scheduled, Awaited, vars

LEMMA NextRefresh ==
  ASSUME TypeInv, RefreshInv, [Next]_vars
  PROVE  RefreshInv'
BY StartKeeps, AnswerOkKeeps, AnswerFailsKeeps, RetryKeeps, UnauthorizedKeeps, ExpiredKeeps,
   TimerKeeps, RefreshEndsKeeps, PageKeeps, ReloadKeeps, StutterKeeps
   DEF Next, Answer

LEMMA RefreshInvariant == Spec => []RefreshInv
<1>1. Init => TypeInv /\ RefreshInv
  BY InitType, InitRefresh
<1>2. TypeInv /\ RefreshInv /\ [Next]_vars => (TypeInv /\ RefreshInv)'
  BY NextType, NextRefresh
<1> QED
  BY <1>1, <1>2, PTL DEF Spec

\* Whatever answers, refreshes, sign-outs, messages of other tabs and reloads
\* come in between, no request and no timer is left to await a refresh that has
\* ended.
THEOREM Answered == Spec => []NobodyIsStranded
BY RefreshInvariant, RefreshInvImplies, PTL

\* A tab with tokens always has what will renew them, and no timer outlives its
\* session.
THEOREM KeptFresh == Spec => []RefreshIsScheduled
BY RefreshInvariant, RefreshInvImplies, PTL

-----------------------------------------------------------------------------
(* What a tab shows.  A tab in which nothing crossed shows the user of its *)
(* token, and the one thing under way in it has that token in hand.        *)

\* Requests: one that is idle is for nothing, a tab restores one session, and
\* what carries a login has one.
Tidy ==
  \A r \in Requests :
    /\ pc[r] = "idle" => tab[r] = None /\ kind[r] = None
    /\ kind[r] \in Carries => held[r] # None

OneRestore ==
  \A r, s \in Requests :
    tab[r] = tab[s] /\ kind[r] \in Restores /\ kind[s] \in Restores => r = s

\* r has a login in hand in the tab t.
In(r, t) == tab[r] = t /\ kind[r] \in Carries

\* The login in hand is that of the token; a restore whose session has ended
\* still has the login that it will ask for again; who restores shows nobody.
Fits(r, t) ==
  /\ held[r] = token[t] \/ (kind[r] = "renew" /\ token[t] = None)
  /\ kind[r] # "profile" => user[t] = None

Smooth(t) ==
  /\ refreshing[t] # None => refreshing[t] = token[t]
  /\ \A r \in Requests : In(r, t) => Fits(r, t)
  /\ \A r, s \in Requests : In(r, t) /\ In(s, t) => r = s
  /\ Entering(t) \/ user[t] = token[t]

Consistent(t) == t \in overlapped \/ Smooth(t)

\* The stored session is of a tab that shows a user or is about to.
Kept == stored # None => \E t \in Tabs : user[t] # None \/ Entering(t)

ShowInv ==
  /\ Tidy
  /\ OneRestore
  /\ \A t \in Tabs : Consistent(t)
  /\ Kept

LEMMA KindsAre ==
  /\ Carries = {"profile", "restore", "renew", "restored"}
  /\ Restores = {"restore", "renew", "restored"}
  /\ None \notin Carries /\ None \notin Restores
BY SessionAssumption DEF Carries, Restores, Kinds

\* A request that carries a login is in a tab.
LEMMA CarriersAreInTabs ==
  ASSUME TypeInv, Tidy, NEW r \in Requests, kind[r] \in Carries
  PROVE  tab[r] \in Tabs /\ held[r] # None /\ held[r] \in Login
<1>1. kind[r] # None
  BY KindsAre
<1> QED
  BY <1>1 DEF TypeInv, RequestOK, Placed, Tidy

LEMMA InitShow == Init => ShowInv
<1> SUFFICES ASSUME Init PROVE ShowInv
  OBVIOUS
<1>1. \A r \in Requests : kind[r] \notin Carries /\ kind[r] \notin Restores
                          /\ tab[r] = None /\ kind[r] = None
  BY KindsAre DEF Init
<1>2. \A t \in Tabs : refreshing[t] = None /\ user[t] = token[t]
  BY DEF Init
<1> QED
  BY <1>1, <1>2 DEF Init, ShowInv, Tidy, OneRestore, Consistent, Smooth, In, Kept

-----------------------------------------------------------------------------
(* Requests. *)

\* Only r changes, into one that carries a login only if it has one, and that
\* restores a session only if it did.
LEMMA OneMoves ==
  ASSUME Tidy, OneRestore, NEW r \in Requests,
         \A s \in Requests \ {r} : /\ pc'[s] = pc[s] /\ tab'[s] = tab[s]
                                   /\ kind'[s] = kind[s] /\ held'[s] = held[s],
         pc'[r] = "idle" => tab'[r] = None /\ kind'[r] = None,
         kind'[r] \in Carries => held'[r] # None,
         kind'[r] \in Restores => kind[r] \in Restores /\ tab'[r] = tab[r]
  PROVE  Tidy' /\ OneRestore'
BY DEF Tidy, OneRestore

\* What Send and Close leave of the requests.
LEMMA SendMoves ==
  ASSUME TypeInv, NEW r \in Requests, NEW t, NEW what, NEW l, Send(r, t, what, l)
  PROVE  /\ \A s \in Requests \ {r} : /\ pc'[s] = pc[s] /\ tab'[s] = tab[s]
                                      /\ kind'[s] = kind[s] /\ held'[s] = held[s]
         /\ pc'[r] = "sent" /\ tab'[r] = t /\ kind'[r] = what /\ held'[r] = l
BY DEF TypeInv, RequestOK, Send

LEMMA CloseMoves ==
  ASSUME TypeInv, NEW r \in Requests, Close(r)
  PROVE  /\ \A s \in Requests \ {r} : /\ pc'[s] = pc[s] /\ tab'[s] = tab[s]
                                      /\ kind'[s] = kind[s] /\ held'[s] = held[s]
         /\ pc'[r] = "idle" /\ tab'[r] = None /\ kind'[r] = None /\ held'[r] = None
BY DEF TypeInv, RequestOK, Close

LEMMA CloseTidy ==
  ASSUME TypeInv, Tidy, OneRestore, NEW r \in Requests, Close(r)
  PROVE  Tidy' /\ OneRestore'
BY CloseMoves, OneMoves, KindsAre

\* Requests that end, or go from a restore to its refresh.
LEMMA EndAllMoves ==
  ASSUME TypeInv, NEW rs, rs \subseteq Requests, EndAll(rs)
  PROVE  /\ \A s \in Requests \ rs : /\ pc'[s] = pc[s] /\ tab'[s] = tab[s]
                                     /\ kind'[s] = kind[s] /\ held'[s] = held[s]
         /\ \A s \in rs : IF kind[s] = "restore"
              THEN /\ pc'[s] = "sent" /\ tab'[s] = tab[s]
                   /\ kind'[s] = "renew" /\ held'[s] = held[s]
              ELSE /\ pc'[s] = "idle" /\ tab'[s] = None
                   /\ kind'[s] = None /\ held'[s] = None
BY DEF TypeInv, RequestOK, EndAll

LEMMA EndAllTidy ==
  ASSUME TypeInv, Tidy, OneRestore, NEW rs, rs \subseteq Requests, EndAll(rs)
  PROVE  Tidy' /\ OneRestore'
<1>1. \A s \in Requests :
        \/ pc'[s] = pc[s] /\ tab'[s] = tab[s] /\ kind'[s] = kind[s] /\ held'[s] = held[s]
        \/ /\ pc'[s] = "sent" /\ tab'[s] = tab[s] /\ kind[s] = "restore"
           /\ kind'[s] = "renew" /\ held'[s] = held[s]
        \/ pc'[s] = "idle" /\ tab'[s] = None /\ kind'[s] = None
  BY EndAllMoves
<1> QED
  BY <1>1, KindsAre DEF Tidy, OneRestore

-----------------------------------------------------------------------------
(* Tabs. *)

\* The requests that carry a login in tab u stay as they are.
CarriersStayIn(u) ==
  \A s \in Requests :
    /\ In(s, u)' <=> In(s, u)
    /\ In(s, u) => kind'[s] = kind[s] /\ held'[s] = held[s]

\* A step that is none of tab u's.
LEMMA ElsewhereStays ==
  ASSUME NEW u \in Tabs, Consistent(u), CarriersStayIn(u),
         u \in overlapped => u \in overlapped',
         refreshing'[u] = refreshing[u], token'[u] = token[u], user'[u] = user[u]
  PROVE  Consistent(u)' /\ (Entering(u)' <=> Entering(u))
<1>1. Entering(u)' <=> Entering(u)
  BY DEF CarriersStayIn, In, Entering
<1>2. Smooth(u) => Smooth(u)'
  BY <1>1 DEF CarriersStayIn, Smooth, Fits
<1> QED
  BY <1>1, <1>2 DEF Consistent

LEMMA AllStay ==
  ASSUME ShowInv, \A u \in Tabs : CarriersStayIn(u),
         UNCHANGED <<refreshing, token, user, stored, overlapped>>
  PROVE  Kept' /\ \A u \in Tabs : Consistent(u)'
<1>1. \A u \in Tabs : Consistent(u)' /\ (Entering(u)' <=> Entering(u))
  BY ElsewhereStays DEF ShowInv
<1> QED
  BY <1>1 DEF ShowInv, Kept

\* What one request does leaves the other tabs alone.
LEMMA OneLocal ==
  ASSUME NEW r \in Requests, NEW t \in Tabs, tab[r] = t \/ kind[r] \notin Carries,
         tab'[r] = t \/ kind'[r] \notin Carries,
         \A s \in Requests \ {r} : tab'[s] = tab[s] /\ kind'[s] = kind[s] /\ held'[s] = held[s]
  PROVE  \A u \in Tabs \ {t} : CarriersStayIn(u)
BY DEF CarriersStayIn, In

\* What is stored is the session of a tab.
LEMMA StoresKept ==
  ASSUME NEW t \in Tabs, Stores(t)
  PROVE  Kept'
<1>1. CASE \E r \in Requests : tab'[r] = t /\ kind'[r] \in Restores
  BY <1>1, KindsAre DEF Kept, Entering
<1>2. CASE ~ \E r \in Requests : tab'[r] = t /\ kind'[r] \in Restores
  BY <1>2 DEF Kept, Stores
<1> QED
  BY <1>1, <1>2

\* Something that leaves the user, the stored session and what is under way.
LEMMA KeptStays ==
  ASSUME Kept, stored' = stored,
         \A u \in Tabs : (user[u] # None \/ Entering(u)) => (user'[u] # None \/ Entering(u)')
  PROVE  Kept'
BY DEF Kept

-----------------------------------------------------------------------------
(* Requests that begin, go on and end. *)

LEMMA StartShow ==
  ASSUME TypeInv, ShowInv, NEW r \in Requests, Call(r) \/ SubmitLogin(r)
  PROVE  ShowInv'
<1>1. PICK t \in Tabs, what \in {"call", "login"} : Send(r, t, what, None)
  BY DEF Call, SubmitLogin
<1>2. kind[r] = None /\ what \notin Carries /\ what \notin Restores
  BY KindsAre DEF ShowInv, Tidy, Call, SubmitLogin
<1>3. Tidy' /\ OneRestore'
  BY <1>1, <1>2, SendMoves, OneMoves DEF ShowInv
<1>4. \A u \in Tabs : CarriersStayIn(u)
  BY <1>1, <1>2, SendMoves, KindsAre DEF CarriersStayIn, In
<1> QED
  BY <1>3, <1>4, AllStay DEF ShowInv, Call, SubmitLogin, client, page

\* A request that carries no login ends.
LEMMA CallEnds ==
  ASSUME TypeInv, ShowInv, NEW r \in Requests, kind[r] \notin Carries, Close(r),
         UNCHANGED <<refreshing, token, user, stored, overlapped>>
  PROVE  ShowInv'
<1>1. \A u \in Tabs : CarriersStayIn(u)
  BY CloseMoves, KindsAre DEF CarriersStayIn, In
<1> QED
  BY <1>1, CloseTidy, AllStay DEF ShowInv

\* r shows the login it has in hand, and is over.
LEMMA ShowsShow ==
  ASSUME TypeInv, ShowInv, NEW r \in Requests, kind[r] \in {"profile", "restore", "restored"},
         Shows(r), UNCHANGED refreshing
  PROVE  ShowInv'
<1>1. PICK t \in Tabs : tab[r] = t /\ In(r, t) /\ held[r] # None
  BY KindsAre, CarriersAreInTabs DEF ShowInv, In
<1>2. /\ user' = [user EXCEPT ![t] = held[r]] /\ Close(r) /\ Stores(t)
      /\ UNCHANGED <<token, overlapped>>
  BY <1>1 DEF Shows, client
<1>3. /\ \A s \in Requests \ {r} : tab'[s] = tab[s] /\ kind'[s] = kind[s] /\ held'[s] = held[s]
      /\ kind'[r] \notin Carries
  BY <1>2, CloseMoves, KindsAre
<1>4. user'[t] = held[r] /\ \A u \in Tabs \ {t} : user'[u] = user[u]
  BY <1>2 DEF TypeInv, PageOK
<1>5. \A u \in Tabs \ {t} : Consistent(u)'
  BY <1>1, <1>2, <1>3, <1>4, OneLocal, ElsewhereStays DEF ShowInv
<1>6. Smooth(t) => Smooth(t)'
  <2> SUFFICES ASSUME Smooth(t) PROVE Smooth(t)'
    OBVIOUS
  <2>1. held[r] = token[t]
    BY <1>1 DEF Smooth, Fits
  <2>2. \A s \in Requests : ~In(s, t)'
    BY <1>1, <1>3 DEF Smooth, In
  <2> QED
    BY <1>2, <1>4, <2>1, <2>2 DEF Smooth
<1>7. Consistent(t)'
  BY <1>2, <1>6 DEF ShowInv, Consistent
<1> QED
  BY <1>2, <1>5, <1>7, CloseTidy, StoresKept DEF ShowInv

\* The tokens of the tab in which r was to restore a session are gone.
LEMMA GivesUpShow ==
  ASSUME TypeInv, ShowInv, NEW r \in Requests, kind[r] \in {"renew", "restored"},
         GivesUp(r), UNCHANGED refreshing
  PROVE  ShowInv'
<1>1. PICK t \in Tabs : tab[r] = t /\ In(r, t)
  BY KindsAre, CarriersAreInTabs DEF ShowInv, In
<1>2. /\ token' = [token EXCEPT ![t] = None] /\ Mark(t, {r}, t \in overlapped)
      /\ Close(r) /\ UNCHANGED user /\ Stores(t)
  BY <1>1 DEF GivesUp, SetTokens
<1>3. /\ \A s \in Requests \ {r} : tab'[s] = tab[s] /\ kind'[s] = kind[s] /\ held'[s] = held[s]
      /\ kind'[r] \notin Carries
  BY <1>2, CloseMoves, KindsAre
<1>4. token'[t] = None /\ \A u \in Tabs \ {t} : token'[u] = token[u]
  BY <1>2 DEF TypeInv, PageOK
<1>5. \A u \in Tabs \ {t} : u \in overlapped => u \in overlapped'
  BY <1>2 DEF Mark
<1>6. \A u \in Tabs \ {t} : Consistent(u)'
  BY <1>1, <1>2, <1>3, <1>4, <1>5, OneLocal, ElsewhereStays DEF ShowInv
<1>7. Consistent(t)'
  <2>1. CASE t \in overlapped \/ Crossed(t, {r})
    BY <1>2, <2>1 DEF Mark, Consistent
  <2>2. CASE t \notin overlapped /\ ~Crossed(t, {r})
    <3>1. user[t] = None
      BY <1>1, <2>2 DEF ShowInv, Consistent, Smooth, Fits
    <3>2. \A s \in Requests : ~In(s, t)'
      BY <1>3, <2>2 DEF Crossed, In
    <3>3. Smooth(t)'
      BY <1>2, <1>4, <2>2, <3>1, <3>2 DEF Smooth, Crossed
    <3> QED
      BY <3>3 DEF Consistent
  <2> QED
    BY <2>1, <2>2
<1> QED
  BY <1>2, <1>6, <1>7, CloseTidy, StoresKept DEF ShowInv

\* What r has in hand goes on under another name, in a tab with the token that
\* it has by now.
LEMMA GoesOnShows ==
  ASSUME TypeInv, ShowInv, NEW r \in Requests, NEW t \in Tabs, tab[r] = t,
         NEW what \in Carries, what \in Restores => kind[r] \in Restores,
         NEW l \in Login, Send(r, t, what, l),
         UNCHANGED <<user, stored>>,
         \A u \in Tabs \ {t} :
           /\ refreshing'[u] = refreshing[u] /\ token'[u] = token[u]
           /\ u \in overlapped => u \in overlapped',
         \/ t \in overlapped'
         \/ /\ refreshing'[t] # None => refreshing'[t] = token'[t]
            /\ \A s \in Requests \ {r} : ~In(s, t)
            /\ token'[t] = l
            /\ what # "profile" => user[t] = None
  PROVE  ShowInv'
<1>1. /\ \A s \in Requests \ {r} : tab'[s] = tab[s] /\ kind'[s] = kind[s] /\ held'[s] = held[s]
      /\ tab'[r] = t /\ kind'[r] = what /\ held'[r] = l
  BY SendMoves
<1>2. Tidy' /\ OneRestore'
  BY SendMoves, OneMoves, NoneIsNoLogin DEF ShowInv
<1>3. \A u \in Tabs \ {t} : Consistent(u)' /\ (Entering(u)' <=> Entering(u))
  BY <1>1, OneLocal, ElsewhereStays DEF ShowInv
<1>4. Entering(t)'
  BY <1>1 DEF Entering
<1>5. Consistent(t)'
  <2>1. CASE t \in overlapped'
    BY <2>1 DEF Consistent
  <2>2. CASE t \notin overlapped'
    <3>1. \A s \in Requests : In(s, t)' => s = r
      BY <1>1, <2>2 DEF In
    <3>2. Fits(r, t)'
      BY <1>1, <2>2 DEF Fits
    <3>3. Smooth(t)'
      BY <1>4, <2>2, <3>1, <3>2 DEF Smooth
    <3> QED
      BY <3>3 DEF Consistent
  <2> QED
    BY <2>1, <2>2
<1>6. Kept'
  BY <1>3, <1>4, KeptStays DEF ShowInv
<1> QED
  BY <1>2, <1>3, <1>5, <1>6 DEF ShowInv

LEMMA SignsInShow ==
  ASSUME TypeInv, ShowInv, NEW r \in Requests, pc[r] # "idle", SignsIn(r, logins + 1),
         UNCHANGED <<refreshing, onTimer, inbox, reloads>>
  PROVE  ShowInv'
<1>1. PICK t \in Tabs : tab[r] = t
  BY DEF TypeInv, RequestOK, Placed
<1>2. /\ token' = [token EXCEPT ![t] = logins + 1]
      /\ Mark(t, {r}, FALSE)
      /\ Send(r, t, "profile", logins + 1)
      /\ UNCHANGED <<user, stored>>
  BY <1>1 DEF SignsIn, SetTokens
<1>3. logins + 1 \in Login
  BY <1>1, SignsInType
<1>4. token'[t] = logins + 1 /\ \A u \in Tabs \ {t} : token'[u] = token[u]
  BY <1>2 DEF TypeInv, PageOK
<1>5. \A u \in Tabs \ {t} : u \in overlapped => u \in overlapped'
  BY <1>2 DEF Mark
<1>6. t \notin overlapped' => refreshing'[t] = None /\ \A s \in Requests \ {r} : ~In(s, t)
  BY <1>2 DEF Mark, Crossed, In
<1>7. "profile" \in Carries /\ "profile" \notin Restores
  BY KindsAre
<1> QED
  BY <1>1, <1>2, <1>3, <1>4, <1>5, <1>6, <1>7, GoesOnShows

LEMMA AnswerOkShow ==
  ASSUME TypeInv, ShowInv, NEW r \in Requests, AnswerOk(r)
  PROVE  ShowInv'
<1>1. PICK t \in Tabs : tab[r] = t
  BY DEF AnswerOk, TypeInv, RequestOK, Placed
<1>2. UNCHANGED <<refreshing, onTimer, inbox, reloads>> /\ pc[r] # "idle"
  BY DEF AnswerOk
<1>3. CASE kind[r] = "login"
  BY <1>2, <1>3, SignsInShow DEF AnswerOk
<1>4. CASE kind[r] = "renew"
  <2>1. /\ SetTokens(t, held[r])
        /\ Send(r, t, "restored", held[r])
        /\ UNCHANGED <<user, stored, overlapped>>
    BY <1>1, <1>4 DEF AnswerOk, page
  <2>2. In(r, t) /\ "restored" \in Carries /\ kind[r] \in Restores
    BY <1>1, <1>4, KindsAre DEF In
  <2>3. held[r] \in Login /\ held[r] # None
    BY <2>2, CarriersAreInTabs DEF ShowInv, In
  <2>4. token'[t] = held[r] /\ \A u \in Tabs \ {t} : token'[u] = token[u]
    BY <2>1 DEF SetTokens, TypeInv, PageOK
  <2>5. Smooth(t) => /\ refreshing[t] # None => refreshing[t] = held[r]
                     /\ \A s \in Requests \ {r} : ~In(s, t)
                     /\ user[t] = None
    BY <1>4, <2>2 DEF Smooth, Fits
  <2> QED
    BY <1>1, <1>2, <2>1, <2>2, <2>3, <2>4, <2>5, GoesOnShows DEF ShowInv, Consistent
<1>5. CASE kind[r] \in {"profile", "restore", "restored"}
  BY <1>2, <1>5, ShowsShow DEF AnswerOk
<1>6. CASE kind[r] \notin {"login", "profile", "restore", "renew", "restored"}
  <2>1. Close(r) /\ UNCHANGED <<token, user, stored, overlapped>>
    BY <1>6 DEF AnswerOk, client, page
  <2>2. kind[r] \notin Carries
    BY <1>6, KindsAre
  <2> QED
    BY <1>2, <2>1, <2>2, CallEnds
<1> QED
  BY <1>3, <1>4, <1>5, <1>6

LEMMA AnswerFailsShow ==
  ASSUME TypeInv, ShowInv, NEW r \in Requests, AnswerFails(r)
  PROVE  ShowInv'
<1>1. PICK t \in Tabs : tab[r] = t
  BY DEF AnswerFails, TypeInv, RequestOK, Placed
<1>2. refreshing' = refreshing /\ Fails(r)
  BY DEF AnswerFails
<1>3. CASE kind[r] = "restore"
  <2>1. Send(r, t, "renew", held[r]) /\ UNCHANGED <<token, user, stored, overlapped>>
    BY <1>1, <1>2, <1>3 DEF Fails, client, page
  <2>2. In(r, t) /\ "renew" \in Carries /\ kind[r] \in Restores
    BY <1>1, <1>3, KindsAre DEF In
  <2>3. held[r] \in Login
    BY <2>2, CarriersAreInTabs DEF ShowInv, In
  <2>4. Smooth(t) => /\ refreshing[t] # None => refreshing[t] = token[t]
                     /\ \A s \in Requests \ {r} : ~In(s, t)
                     /\ token[t] = held[r]
                     /\ user[t] = None
    BY <1>3, <2>2 DEF Smooth, Fits
  <2> QED
    BY <1>1, <1>2, <2>1, <2>2, <2>3, <2>4, GoesOnShows DEF ShowInv, Consistent
<1>4. CASE kind[r] \in {"renew", "restored"}
  BY <1>2, <1>4, GivesUpShow DEF Fails
<1>5. CASE kind[r] = "profile"
  BY <1>2, <1>5, ShowsShow DEF Fails
<1>6. CASE kind[r] \notin {"restore", "renew", "restored", "profile"}
  <2>1. Close(r) /\ UNCHANGED <<token, user, stored, overlapped>>
    BY <1>2, <1>6 DEF Fails, client, page
  <2>2. kind[r] \notin Carries
    BY <1>6, KindsAre
  <2> QED
    BY <1>2, <2>1, <2>2, CallEnds
<1> QED
  BY <1>3, <1>4, <1>5, <1>6

\* Requests that wait or are sent again, with what they have.
LEMMA WaitingStays ==
  ASSUME ShowInv, UNCHANGED <<tab, kind, held>>,
         \A s \in Requests : pc'[s] = "idle" => pc[s] = "idle"
  PROVE  Tidy' /\ OneRestore' /\ \A u \in Tabs : CarriersStayIn(u)
BY DEF ShowInv, Tidy, OneRestore, CarriersStayIn, In

LEMMA RetryShow ==
  ASSUME TypeInv, ShowInv, NEW r \in Requests, AnswerBroken(r) \/ AnswerLate(r) \/ Resend(r)
  PROVE  ShowInv'
<1>1. UNCHANGED <<tab, kind, held>> /\ \A s \in Requests : pc'[s] = "idle" => pc[s] = "idle"
  BY DEF AnswerBroken, AnswerLate, Resend, TypeInv, RequestOK
<1>2. UNCHANGED <<refreshing, token, user, stored, overlapped>>
  BY DEF AnswerBroken, AnswerLate, Resend, client, page
<1> QED
  BY <1>1, <1>2, WaitingStays, AllStay DEF ShowInv

\* A refresh that begins sends the refresh token of the session.
LEMMA JoinShows ==
  ASSUME TypeInv, RefreshInv, ShowInv, NEW t \in Tabs, Join(t), UNCHANGED <<tab, kind, held>>,
         \A s \in Requests : pc'[s] = "idle" => pc[s] = "idle",
         UNCHANGED <<token, user, stored, overlapped>>
  PROVE  ShowInv'
<1>1. Tidy' /\ OneRestore'
  BY WaitingStays
<1>2. token[t] = refresh[t]
  BY DEF RefreshInv, Scheduled
<1>3. \A u \in Tabs : refreshing'[u] = refreshing[u]
                      \/ (u = t /\ refreshing'[u] = token[u])
  BY <1>2 DEF Join, TypeInv, PageOK
<1>4. \A u \in Tabs : Consistent(u)' /\ (Entering(u)' <=> Entering(u))
  BY <1>3 DEF ShowInv, Consistent, Smooth, Fits, In, Entering
<1> QED
  BY <1>1, <1>4 DEF ShowInv, Kept

LEMMA UnauthorizedShow ==
  ASSUME TypeInv, RefreshInv, ShowInv, NEW r \in Requests, AnswerUnauthorized(r)
  PROVE  ShowInv'
<1>1. tab[r] \in Tabs /\ Join(tab[r])
  BY DEF AnswerUnauthorized, TypeInv, RequestOK, Placed
<1>2. UNCHANGED <<tab, kind, held>> /\ \A s \in Requests : pc'[s] = "idle" => pc[s] = "idle"
  BY DEF AnswerUnauthorized, TypeInv, RequestOK
<1> QED
  BY <1>1, <1>2, JoinShows DEF AnswerUnauthorized, client, page

LEMMA TimerShow ==
  ASSUME TypeInv, RefreshInv, ShowInv, NEW t \in Tabs, TimerFires(t)
  PROVE  ShowInv'
<1>1. Join(t) /\ UNCHANGED <<pc, tab, kind, held>> /\ UNCHANGED <<token, user, stored, overlapped>>
  BY DEF TimerFires, request, page
<1> QED
  BY <1>1, JoinShows

-----------------------------------------------------------------------------
(* The end of a session. *)

\* Requests of one tab that end leave the other tabs alone, and of them only a
\* restore goes on, to its own refresh.
LEMMA EndAllLocal ==
  ASSUME TypeInv, ShowInv, NEW t \in Tabs, NEW rs, rs \subseteq Requests,
         \A s \in rs : tab[s] = t, EndAll(rs)
  PROVE  /\ \A u \in Tabs \ {t} : CarriersStayIn(u)
         /\ \A s \in Requests : In(s, t)' =>
              \/ s \notin rs /\ In(s, t)
              \/ s \in rs /\ kind'[s] = "renew"
         /\ \A s, q \in rs : In(s, t)' /\ In(q, t)' => s = q
<1>1. \A s \in Requests :
        \/ s \notin rs /\ tab'[s] = tab[s] /\ kind'[s] = kind[s] /\ held'[s] = held[s]
        \/ /\ s \in rs /\ tab[s] = t /\ tab'[s] = t
           /\ kind[s] = "restore" /\ kind'[s] = "renew"
        \/ s \in rs /\ tab[s] = t /\ kind'[s] \notin Carries
  BY EndAllMoves, KindsAre
<1>2. \A u \in Tabs \ {t} : CarriersStayIn(u)
  BY <1>1 DEF CarriersStayIn, In
<1>3. \A s \in Requests : In(s, t)' =>
        \/ s \notin rs /\ In(s, t)
        \/ s \in rs /\ kind'[s] = "renew"
  BY <1>1 DEF In
<1>4. ASSUME NEW s \in rs, NEW q \in rs, In(s, t)', In(q, t)' PROVE s = q
  <2>1. tab[s] = tab[q] /\ kind[s] \in Restores /\ kind[q] \in Restores
    BY <1>1, <1>4, KindsAre DEF In
  <2> QED
    BY <2>1 DEF ShowInv, OneRestore
<1> QED
  BY <1>2, <1>3, <1>4

\* The tab t is logged out: what crosses it is remembered, or nothing is left
\* but a restore that goes on to its refresh.
LEMMA LogOutShows ==
  ASSUME TypeInv, ShowInv, NEW t \in Tabs, NEW rs, NEW shown, LogOut(t, rs, shown),
         \A u \in Tabs \ {t} : CarriersStayIn(u) /\ refreshing'[u] = refreshing[u],
         \A s \in Requests : In(s, t)' =>
              \/ s \notin rs /\ In(s, t)
              \/ s \in rs /\ kind'[s] = "renew",
         \A s, q \in rs : In(s, t)' /\ In(q, t)' => s = q
  PROVE  Kept' /\ \A u \in Tabs : Consistent(u)'
<1>1. /\ token' = [token EXCEPT ![t] = None] /\ user' = [user EXCEPT ![t] = shown]
      /\ Mark(t, rs, shown # None)
      /\ stored' = None
  BY DEF LogOut, Forget, SetTokens
<1>2. ASSUME NEW u \in Tabs \ {t} PROVE Consistent(u)'
  <2>1. token'[u] = token[u] /\ user'[u] = user[u] /\ (u \in overlapped => u \in overlapped')
    BY <1>1 DEF TypeInv, PageOK, Mark
  <2> QED
    BY <2>1, ElsewhereStays DEF ShowInv
<1>3. Consistent(t)'
  <2>1. CASE shown # None \/ Crossed(t, rs)
    BY <1>1, <2>1 DEF Mark, Consistent
  <2>2. CASE shown = None /\ ~Crossed(t, rs)
    <3>1. refreshing'[t] = None /\ token'[t] = None /\ user'[t] = None
      BY <1>1, <2>2 DEF Crossed, TypeInv, PageOK
    <3>2. \A s \in Requests : In(s, t)' => s \in rs /\ kind'[s] = "renew"
      BY <2>2 DEF Crossed, In
    <3>3. Smooth(t)'
      BY <3>1, <3>2 DEF Smooth, Fits
    <3> QED
      BY <3>3 DEF Consistent
  <2> QED
    BY <2>1, <2>2
<1> QED
  BY <1>1, <1>2, <1>3 DEF Kept

LEMMA ExpiredShow ==
  ASSUME TypeInv, ShowInv, NEW r \in Requests, AnswerExpired(r)
  PROVE  ShowInv'
<1>1. PICK t \in Tabs : tab[r] = t
  BY DEF AnswerExpired, TypeInv, RequestOK, Placed
<1>2. PICK shown : LogOut(t, {r}, shown)
  BY <1>1 DEF AnswerExpired, Expire
<1>3. EndAll({r}) /\ refreshing' = refreshing
  BY DEF AnswerExpired
<1>4. Tidy' /\ OneRestore'
  BY <1>3, EndAllTidy DEF ShowInv
<1>5. /\ \A u \in Tabs \ {t} : CarriersStayIn(u)
      /\ \A s \in Requests : In(s, t)' =>
           \/ s \notin {r} /\ In(s, t)
           \/ s \in {r} /\ kind'[s] = "renew"
      /\ \A s, q \in {r} : In(s, t)' /\ In(q, t)' => s = q
  BY <1>1, <1>3, EndAllLocal
<1> QED
  BY <1>2, <1>3, <1>4, <1>5, LogOutShows DEF ShowInv

\* Settle is of one tab.
LEMMA SettleLocal ==
  ASSUME TypeInv, NEW t \in Tabs, Settle(t)
  PROVE  /\ refreshing'[t] = None /\ refreshing[t] # None
         /\ \A u \in Tabs \ {t} : refreshing'[u] = refreshing[u]
BY DEF TypeInv, PageOK, Settle

LEMMA WaitersAreThere ==
  ASSUME NEW t
  PROVE  Waiters(t) \subseteq Requests /\ \A s \in Waiters(t) : tab[s] = t
BY DEF Waiters

\* A refresh that ends the session ends those that await it.
LEMMA SettledOutShows ==
  ASSUME TypeInv, ShowInv, NEW t \in Tabs, Settle(t), NEW shown, LogOut(t, Waiters(t), shown),
         EndAll(Waiters(t))
  PROVE  ShowInv'
<1> DEFINE W == Waiters(t)
<1>1. W \subseteq Requests /\ \A s \in W : tab[s] = t
  BY WaitersAreThere
<1>2. Tidy' /\ OneRestore'
  BY <1>1, EndAllTidy DEF ShowInv
<1>3. /\ \A u \in Tabs \ {t} : CarriersStayIn(u)
      /\ \A s \in Requests : In(s, t)' =>
           \/ s \notin W /\ In(s, t)
           \/ s \in W /\ kind'[s] = "renew"
      /\ \A s, q \in W : In(s, t)' /\ In(q, t)' => s = q
  BY <1>1, EndAllLocal
<1>4. LogOut(t, W, shown)
  OBVIOUS
<1> HIDE DEF W
<1> QED
  BY <1>2, <1>3, <1>4, SettleLocal, LogOutShows DEF ShowInv

\* The token that is renewed is the one that the tab has.
LEMMA SucceedsShow ==
  ASSUME TypeInv, ShowInv, NEW t \in Tabs, RefreshSucceeds(t)
  PROVE  ShowInv'
<1>1. Settle(t) /\ token' = [token EXCEPT ![t] = refreshing[t]]
      /\ UNCHANGED <<tab, kind, user, stored, overlapped>>
  BY DEF RefreshSucceeds, Renewed, SetTokens, page
<1>2. /\ refreshing'[t] = None /\ refreshing[t] # None /\ token'[t] = refreshing[t]
      /\ \A u \in Tabs \ {t} : refreshing'[u] = refreshing[u] /\ token'[u] = token[u]
  BY <1>1, SettleLocal DEF TypeInv, PageOK
<1>3. \A s \in Requests :
        /\ pc'[s] = "idle" => pc[s] = "idle"
        /\ held'[s] = held[s] \/ (tab[s] = t /\ held'[s] = refreshing[t])
  BY WaitersAreThere DEF RefreshSucceeds, TypeInv, RequestOK
<1>4. Tidy' /\ OneRestore'
  BY <1>1, <1>2, <1>3 DEF ShowInv, Tidy, OneRestore
<1>5. \A u \in Tabs : Entering(u)' <=> Entering(u)
  BY <1>1 DEF Entering
<1>6. ASSUME NEW u \in Tabs \ {t} PROVE Consistent(u)'
  <2>1. CarriersStayIn(u)
    BY <1>1, <1>3, <1>6 DEF CarriersStayIn, In
  <2> QED
    BY <1>1, <1>2, <2>1, ElsewhereStays DEF ShowInv
<1>7. Smooth(t) => Smooth(t)'
  <2> SUFFICES ASSUME Smooth(t) PROVE Smooth(t)'
    OBVIOUS
  <2>1. token'[t] = token[t] /\ token[t] = refreshing[t]
    BY <1>2 DEF Smooth
  <2>2. \A s \in Requests : In(s, t)' => In(s, t) /\ Fits(s, t)'
    BY <1>1, <1>2, <1>3, <2>1 DEF Smooth, Fits, In
  <2> QED
    BY <1>1, <1>2, <1>5, <2>1, <2>2 DEF Smooth
<1>8. Consistent(t)'
  BY <1>1, <1>7 DEF ShowInv, Consistent
<1>9. Kept'
  BY <1>1, <1>5 DEF ShowInv, Kept
<1> QED
  BY <1>4, <1>6, <1>8, <1>9 DEF ShowInv

LEMMA RefusedShow ==
  ASSUME TypeInv, ShowInv, NEW t \in Tabs, RefreshRefused(t)
  PROVE  ShowInv'
<1>1. PICK shown : LogOut(t, Waiters(t), shown)
  BY DEF RefreshRefused, Expire
<1> QED
  BY <1>1, SettledOutShows DEF RefreshRefused

\* What a sign-in among rs shows is what it has in hand.
LEMMA CaughtIsAProfile ==
  ASSUME NEW t, NEW rs, NEW shown \in Caught(t, rs)
  PROVE  /\ shown # None => \E r \in rs : tab[r] = t /\ kind[r] = "profile" /\ shown = held[r]
         /\ shown = None => \A r \in rs :
              tab[r] = t /\ kind[r] = "profile" => \E q \in rs :
                tab[q] = t /\ kind[q] = "profile" /\ held[q] = None
BY DEF Caught

\* Nobody answers a refresh that the timer does not await: a sign-in shows its
\* user, a restore goes on or gives up, calls fail.
LEMMA LostCallsShow ==
  ASSUME TypeInv, ShowInv, NEW t \in Tabs, Settle(t), EndAll(Waiters(t)),
         NEW shown \in Caught(t, Waiters(t)), LostToCalls(t, shown)
  PROVE  ShowInv'
<1> DEFINE W == Waiters(t)
           gives == \E r \in W : kind[r] \in {"renew", "restored"}
<1>1. W \subseteq Requests /\ \A s \in W : tab[s] = t
  BY WaitersAreThere
<1>2. /\ IF gives THEN SetTokens(t, None) ELSE UNCHANGED client
      /\ user' = IF shown = None THEN user ELSE [user EXCEPT ![t] = shown]
      /\ IF gives \/ shown # None THEN Stores(t) ELSE UNCHANGED stored
      /\ UNCHANGED overlapped
  BY DEF LostToCalls
<1>3. \A u \in Tabs \ {t} : CarriersStayIn(u)
  BY <1>1, EndAllLocal
<1>4. /\ \A s \in Requests \ W : tab'[s] = tab[s] /\ kind'[s] = kind[s] /\ held'[s] = held[s]
      /\ \A s \in W : IF kind[s] = "restore"
           THEN tab'[s] = tab[s] /\ kind'[s] = "renew" /\ held'[s] = held[s]
           ELSE kind'[s] = None
  BY <1>1, EndAllMoves
<1>5. /\ shown # None => \E r \in W : kind[r] = "profile" /\ shown = held[r]
      /\ shown = None => \A r \in W : kind[r] # "profile"
  BY <1>1, CaughtIsAProfile, KindsAre DEF ShowInv, Tidy
<1>6. Tidy' /\ OneRestore'
  BY <1>1, EndAllTidy DEF ShowInv
<1> HIDE DEF W
<1>7. /\ \A u \in Tabs \ {t} : token'[u] = token[u] /\ user'[u] = user[u]
                               /\ refreshing'[u] = refreshing[u]
      /\ refreshing'[t] = None
      /\ token'[t] = IF gives THEN None ELSE token[t]
      /\ user'[t] = IF shown = None THEN user[t] ELSE shown
  BY <1>2, SettleLocal DEF SetTokens, client, TypeInv, PageOK
<1>8. \A u \in Tabs \ {t} : Consistent(u)' /\ (Entering(u)' <=> Entering(u))
  BY <1>2, <1>3, <1>7, ElsewhereStays DEF ShowInv
<1>9. Smooth(t) => Smooth(t)'
  <2> SUFFICES ASSUME Smooth(t) PROVE Smooth(t)'
    OBVIOUS
  <2>1. \A r, s \in Requests : In(r, t) /\ In(s, t) => r = s
    BY DEF Smooth
  <2>2. \A s \in Requests : In(s, t)' => In(s, t)
    BY <1>1, <1>4, KindsAre DEF In
  <2>3. CASE gives
    <3>1. PICK r \in W : kind[r] \in {"renew", "restored"}
      BY <2>3
    <3>2. r \in Requests /\ In(r, t) /\ kind[r] # "profile" /\ kind'[r] \notin Carries
      BY <1>1, <1>4, <3>1, KindsAre DEF In
    <3>3. shown = None
      BY <1>1, <1>5, <2>1, <3>2, KindsAre DEF In
    <3>4. user[t] = None /\ \A s \in Requests : ~In(s, t)'
      BY <2>1, <2>2, <3>2 DEF Smooth, Fits, In
    <3> QED
      BY <1>7, <2>3, <3>3, <3>4 DEF Smooth
  <2>4. CASE shown # None
    <3>1. PICK r \in W : kind[r] = "profile" /\ shown = held[r]
      BY <1>5, <2>4
    <3>2. r \in Requests /\ In(r, t) /\ kind'[r] \notin Carries
      BY <1>1, <1>4, <3>1, KindsAre DEF In
    <3>3. ~gives
      BY <1>1, <2>1, <3>1, <3>2, KindsAre DEF In
    <3>4. held[r] = token[t] /\ \A s \in Requests : ~In(s, t)'
      BY <2>1, <2>2, <3>1, <3>2 DEF Smooth, Fits, In
    <3> QED
      BY <1>7, <2>4, <3>1, <3>3, <3>4 DEF Smooth
  <2>5. CASE ~gives /\ shown = None
    <3>1. \A s \in Requests : In(s, t) =>
            /\ In(s, t)' /\ held'[s] = held[s]
            /\ kind'[s] = kind[s] \/ (kind[s] = "restore" /\ kind'[s] = "renew")
      BY <1>1, <1>4, <1>5, <2>5, KindsAre DEF In
    <3>2. Entering(t)' <=> Entering(t)
      BY <2>2, <3>1 DEF Entering, In
    <3>3. \A s \in Requests : In(s, t)' => Fits(s, t)'
      BY <1>7, <2>2, <2>5, <3>1 DEF Smooth, Fits
    <3> QED
      BY <1>7, <2>1, <2>2, <2>5, <3>2, <3>3 DEF Smooth
  <2> QED
    BY <2>3, <2>4, <2>5
<1>10. Consistent(t)'
  BY <1>2, <1>9 DEF ShowInv, Consistent
<1>11. Kept'
  <2>1. CASE gives \/ shown # None
    BY <1>2, <2>1, StoresKept
  <2>2. CASE ~(gives \/ shown # None)
    <3>1. \A s \in Requests : In(s, t) => In(s, t)'
      BY <1>1, <1>4, <1>5, <2>2, KindsAre DEF In
    <3>2. Entering(t) => Entering(t)'
      BY <3>1 DEF Entering, In
    <3> QED
      BY <1>2, <1>7, <1>8, <2>2, <3>2, KeptStays DEF ShowInv
  <2> QED
    BY <2>1, <2>2
<1> QED
  BY <1>6, <1>8, <1>10, <1>11 DEF ShowInv

LEMMA LostShow ==
  ASSUME TypeInv, ShowInv, NEW t \in Tabs, RefreshLost(t)
  PROVE  ShowInv'
<1>1. Settle(t) /\ EndAll(Waiters(t))
  BY DEF RefreshLost
<1>2. CASE onTimer[t]
  <2>1. PICK last : LogOut(t, Waiters(t), last)
    BY <1>2 DEF RefreshLost, Expire, Caught
  <2> QED
    BY <1>1, <2>1, SettledOutShows
<1>3. CASE ~onTimer[t]
  <2>1. PICK shown \in Caught(t, Waiters(t)) : LostToCalls(t, shown)
    BY <1>3 DEF RefreshLost
  <2> QED
    BY <1>1, <2>1, LostCallsShow
<1> QED
  BY <1>2, <1>3

\* A session that ends while all that is under way in its tab goes on.
LEMMA OutShows ==
  ASSUME TypeInv, ShowInv, NEW t \in Tabs, LogOut(t, {}, None), UNCHANGED <<tab, kind, held>>,
         \A s \in Requests : pc'[s] = "idle" => pc[s] = "idle",
         \A u \in Tabs \ {t} : refreshing'[u] = refreshing[u]
  PROVE  ShowInv'
<1>1. Tidy' /\ OneRestore' /\ \A u \in Tabs : CarriersStayIn(u)
  BY WaitingStays
<1>2. \A s \in Requests : In(s, t)' => s \notin {} /\ In(s, t)
  BY DEF In
<1> QED
  BY <1>1, <1>2, LogOutShows DEF ShowInv

LEMMA GarbledShow ==
  ASSUME TypeInv, ShowInv, NEW t \in Tabs, RefreshGarbled(t)
  PROVE  ShowInv'
<1>1. /\ Settle(t) /\ UNCHANGED <<tab, kind, held>>
      /\ \A s \in Requests : pc'[s] = "idle" => pc[s] = "idle"
  BY DEF RefreshGarbled, TypeInv, RequestOK
<1>2. CASE onTimer[t]
  BY <1>1, <1>2, SettleLocal, OutShows DEF RefreshGarbled, Expire
<1>3. CASE ~onTimer[t]
  <2>1. UNCHANGED <<token, user, stored, overlapped>>
    BY <1>3 DEF RefreshGarbled, client, page
  <2>2. \A u \in Tabs : Consistent(u)' /\ (Entering(u)' <=> Entering(u))
    BY <1>1, <2>1, SettleLocal DEF ShowInv, Consistent, Smooth, Fits, In, Entering
  <2> QED
    BY <1>1, <2>1, <2>2, WaitingStays DEF ShowInv, Kept
<1> QED
  BY <1>2, <1>3

LEMMA RefreshEndsShow ==
  ASSUME TypeInv, ShowInv, NEW t \in Tabs, RefreshEnds(t)
  PROVE  ShowInv'
BY SucceedsShow, RefusedShow, LostShow, GarbledShow DEF RefreshEnds

LEMMA PageShow ==
  ASSUME TypeInv, ShowInv, NEW t \in Tabs,
         SignOut(t) \/ TimeOut(t) \/ Receive(t) \/ Persist(t)
  PROVE  ShowInv'
<1>1. UNCHANGED <<pc, tab, kind, held>> /\ refreshing' = refreshing
  BY DEF SignOut, TimeOut, Receive, Persist, request
<1>2. CASE LogOut(t, {}, None)
  BY <1>1, <1>2, OutShows
<1>3. CASE Persist(t)
  <2>1. Stores(t) /\ UNCHANGED <<token, user, overlapped>>
    BY <1>3 DEF Persist, client
  <2>2. \A u \in Tabs : Consistent(u)'
    BY <1>1, <2>1 DEF ShowInv, Consistent, Smooth, Fits, In, Entering
  <2> QED
    BY <1>1, <2>1, <2>2, WaitingStays, StoresKept DEF ShowInv
<1> QED
  BY <1>2, <1>3 DEF SignOut, TimeOut, Receive, Expire

\* A page that is loaded again has the stored session in hand, in its tokens
\* and in the request that restores it, or there is none.
LEMMA ReloadShow ==
  ASSUME TypeInv, ShowInv, NEW t \in Tabs, Reload(t)
  PROVE  ShowInv'
<1>1. PICK r \in Requests :
        /\ pc' = [s \in Requests |-> IF s = r /\ stored # None THEN "sent"
                                     ELSE IF tab[s] = t THEN "idle" ELSE pc[s]]
        /\ tab' = [s \in Requests |-> IF s = r /\ stored # None THEN t
                                      ELSE IF tab[s] = t THEN None ELSE tab[s]]
        /\ kind' = [s \in Requests |-> IF s = r /\ stored # None THEN "restore"
                                       ELSE IF tab[s] = t THEN None ELSE kind[s]]
        /\ held' = [s \in Requests |-> IF s = r /\ stored # None THEN stored
                                       ELSE IF tab[s] = t THEN None ELSE held[s]]
        /\ tab[r] \in {t, None}
  BY DEF Reload
<1>2. /\ token' = [token EXCEPT ![t] = stored] /\ user' = [user EXCEPT ![t] = None]
      /\ refreshing' = [refreshing EXCEPT ![t] = None]
      /\ overlapped' = overlapped \ {t} /\ stored' = stored
  BY DEF Reload, SetTokens
<1>3. None \notin Tabs /\ t # None
  BY SessionAssumption
<1>4. \A s \in Requests :
        \/ s = r /\ stored # None /\ pc'[s] = "sent" /\ tab'[s] = t /\ kind'[s] = "restore"
                 /\ held'[s] = stored
        \/ /\ ~(s = r /\ stored # None) /\ tab[s] = t
           /\ pc'[s] = "idle" /\ tab'[s] = None /\ kind'[s] = None
        \/ /\ ~(s = r /\ stored # None) /\ tab[s] # t
           /\ pc'[s] = pc[s] /\ tab'[s] = tab[s] /\ kind'[s] = kind[s] /\ held'[s] = held[s]
  BY <1>1
<1>5. Tidy'
  BY <1>4, KindsAre DEF ShowInv, Tidy
<1>6. OneRestore'
  BY <1>4, KindsAre DEF ShowInv, OneRestore
<1>7. ASSUME NEW u \in Tabs \ {t}
      PROVE  Consistent(u)' /\ (Entering(u)' <=> Entering(u))
  <2>1. CarriersStayIn(u)
    BY <1>1, <1>3, <1>4, <1>7, KindsAre DEF CarriersStayIn, In
  <2>2. /\ refreshing'[u] = refreshing[u] /\ token'[u] = token[u] /\ user'[u] = user[u]
        /\ u \in overlapped => u \in overlapped'
    BY <1>2, <1>7 DEF TypeInv, PageOK
  <2> QED
    BY <2>1, <2>2, ElsewhereStays DEF ShowInv
<1>8. refreshing'[t] = None /\ token'[t] = stored /\ user'[t] = None
  BY <1>2 DEF TypeInv, PageOK
<1>9. \A s \in Requests : tab'[s] = t => s = r /\ stored # None /\ held'[s] = stored
  BY <1>3, <1>4
<1>10. stored # None => Entering(t)'
  BY <1>4, KindsAre DEF Entering
<1>11. Smooth(t)'
  BY <1>8, <1>9, <1>10 DEF Smooth, Fits, In
<1>12. Consistent(t)' /\ Kept'
  BY <1>2, <1>10, <1>11 DEF Kept, Consistent
<1> QED
  BY <1>5, <1>6, <1>7, <1>12 DEF ShowInv

LEMMA StutterShow ==
  ASSUME ShowInv, UNCHANGED vars
  PROVE  ShowInv'
<1>1. UNCHANGED <<pc, tab, kind, held>> /\ UNCHANGED <<refreshing, token, user, stored, overlapped>>
  BY DEF vars
<1> QED
  BY <1>1, WaitingStays, AllStay DEF ShowInv

LEMMA NextShow ==
  ASSUME TypeInv, RefreshInv, ShowInv, [Next]_vars
  PROVE  ShowInv'
BY StartShow, AnswerOkShow, AnswerFailsShow, RetryShow, UnauthorizedShow, ExpiredShow,
   TimerShow, RefreshEndsShow, PageShow, ReloadShow, StutterShow
   DEF Next, Answer

LEMMA ShowInvariant == Spec => []ShowInv
<1>1. Init => TypeInv /\ RefreshInv /\ ShowInv
  BY InitType, InitRefresh, InitShow
<1>2. TypeInv /\ RefreshInv /\ ShowInv /\ [Next]_vars => (TypeInv /\ RefreshInv /\ ShowInv)'
  BY NextType, NextRefresh, NextShow
<1> QED
  BY <1>1, <1>2, PTL DEF Spec

\* Whatever refreshes, sign-ins, restores, messages of other tabs and reloads
\* overlap, a tab shows the user whose token it sends once no sign-in has a
\* login in hand, unless the last sign-in, sign-out or expiry of that very tab
\* was crossed by a refresh, a sign-in or a restore that went on.
THEOREM ShownHasToken == Spec => []UserHasToken
<1>1. ShowInv => UserHasToken
  BY DEF ShowInv, Consistent, Smooth, UserHasToken
<1> QED
  BY <1>1, ShowInvariant, PTL

\* Once nobody is signed in, in whatever order the tabs were left and whatever
\* was under way in them, localStorage holds no session.
THEOREM SignedOutEverywhere == Spec => []NothingIsKept
<1>1. ShowInv => NothingIsKept
  BY DEF ShowInv, Kept, NothingIsKept
<1> QED
  BY <1>1, ShowInvariant, PTL

=============================================================================
