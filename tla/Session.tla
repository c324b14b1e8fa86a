------------------------------ MODULE Session ------------------------------
(***************************************************************************)
(* The session of the web front end: the API client that every call goes   *)
(* through (packages/takelow-api/src/create-client.ts), the sign-in hook   *)
(* (takelow-web/src/hooks/useAuthSession.ts), and the tabs of a browser    *)
(* that share localStorage and a BroadcastChannel (AppContext.tsx).        *)
(*                                                                         *)
(* A tab runs JavaScript: an action is what happens between two awaits,    *)
(* with the continuations of a settled promise, which run before anything  *)
(* else does.  A token, a user and a stored session are abstracted to the  *)
(* number of the login they come from.  The services and the network are   *)
(* the answers a call may get.                                             *)
(***************************************************************************)
EXTENDS Integers, FiniteSets

CONSTANTS Tabs,
          Requests,   \* calls of request, each in one tab at a time
          MaxRetries, \* MAX_RETRIES
          None,
          MaxLogins,  \* bound: logins that succeed
          MaxPending, \* bound: messages on the way to a tab; more are as many
          MaxReloads  \* bound: pages that are loaded again

Kinds == {"call", "login", "profile", "restore", "renew", "restored"}

ASSUME SessionAssumption ==
  /\ {MaxRetries, MaxLogins, MaxPending, MaxReloads} \subseteq Nat
  /\ MaxPending > 0
  /\ None \notin Nat \cup Tabs \cup Requests \cup Kinds

VARIABLES token,      \* _token of each tab
          refresh,    \* _refreshToken
          timer,      \* whether _accessRefreshTimer is set
          refreshing, \* _refreshing: the refresh token that was sent, or None
          onTimer,    \* whether the callback of the timer awaits _refreshing
          user,       \* the user each tab shows as signed in
          inbox,      \* "session-expired" messages on the way to each tab
          stored,     \* the session in localStorage
          pc,
          tab,        \* the tab of a request
          kind,       \* what it is for
          attempt,
          held,       \* the login that a sign-in or a restore has in hand
          logins,
          reloads,
          overlapped  \* history: tabs in which the last sign-in, sign-out or expiry
                      \* was crossed by a refresh, a sign-in or a restore

client  == <<token, refresh, timer>>
page    == <<user, stored, overlapped>>
request == <<pc, tab, kind, attempt, held>>
vars    == <<token, refresh, timer, refreshing, onTimer, user, inbox, stored,
             pc, tab, kind, attempt, held, logins, reloads, overlapped>>

Login == 1..MaxLogins

Init ==
  /\ token = [t \in Tabs |-> None]
  /\ refresh = [t \in Tabs |-> None]
  /\ timer = [t \in Tabs |-> FALSE]
  /\ refreshing = [t \in Tabs |-> None]
  /\ onTimer = [t \in Tabs |-> FALSE]
  /\ user = [t \in Tabs |-> None]
  /\ inbox = [t \in Tabs |-> 0]
  /\ stored = None
  /\ pc = [r \in Requests |-> "idle"]
  /\ tab = [r \in Requests |-> None]
  /\ kind = [r \in Requests |-> None]
  /\ attempt = [r \in Requests |-> 0]
  /\ held = [r \in Requests |-> None]
  /\ logins = 0
  /\ reloads = 0
  /\ overlapped = {}

Restores == {"restore", "renew", "restored"}

\* What has a login in hand that it will show or send.
Carries == Restores \cup {"profile"}

\* A sign-in or a restore of the tab is under way; the login form that waits
\* for its answer has nothing in hand.
Entering(t) == \E r \in Requests : tab[r] = t /\ kind[r] \in Carries

-----------------------------------------------------------------------------
(* The client's tokens. *)

\* setApiToken and setRefreshToken, and scheduleAccessRefresh in both.
SetTokens(t, l) ==
  /\ token' = [token EXCEPT ![t] = l]
  /\ refresh' = [refresh EXCEPT ![t] = l]
  /\ timer' = [timer EXCEPT ![t] = l # None]

\* Mutant of Renewed: no scheduleAccessRefresh.
RenewedOnce(t, l) ==
  /\ token' = [token EXCEPT ![t] = l]
  /\ refresh' = [refresh EXCEPT ![t] = l]
  /\ UNCHANGED timer

\* refreshAuth writes what /auth/refresh returned, whatever the tab has by now.
Renewed(t, l) == SetTokens(t, l)

\* Mutant of Forget: localStorage is left alone.
ForgetHere(t) == SetTokens(t, None) /\ UNCHANGED stored

\* What logout forgets: the tokens, and the session in localStorage.
Forget(t) ==
  /\ SetTokens(t, None)
  /\ stored' = None

\* A refresh goes on, or a sign-in or a restore that is not of rs.
Crossed(t, rs) ==
  \/ refreshing'[t] # None
  \/ \E r \in Requests \ rs : tab[r] = t /\ kind[r] \in Carries

\* The session of the tab changes, and rs see it.
Mark(t, rs, lapped) ==
  overlapped' = IF lapped \/ Crossed(t, rs) THEN overlapped \cup {t} ELSE overlapped \ {t}

\* logout; a sign-in of rs that was caught by it goes on and shows its user.
LogOut(t, rs, shown) ==
  /\ Forget(t)
  /\ user' = [user EXCEPT ![t] = shown]
  /\ Mark(t, rs, shown # None)

\* The other tabs are told.
Tell(box, t) ==
  [u \in Tabs |-> IF u # t /\ box[u] < MaxPending THEN box[u] + 1 ELSE box[u]]

\* Mutant of Expire: the handler is not there.
ExpireSilently(t, rs, shown) ==
  /\ SetTokens(t, None)
  /\ UNCHANGED <<page, inbox>>

\* expireSession: the tokens go, and the "session-expired" handler logs out
\* with a reason that is not "logout", which the other tabs are told.
Expire(t, rs, shown) ==
  /\ LogOut(t, rs, shown)
  /\ inbox' = Tell(inbox, t)

\* What the tab shows is stored, with the tokens of the moment, once it has
\* restored what was there.
Stores(t) ==
  stored' = IF \E r \in Requests : tab'[r] = t /\ kind'[r] \in Restores THEN stored
            ELSE IF user'[t] # None THEN token'[t] ELSE None

-----------------------------------------------------------------------------
(* request. *)

Send(r, t, what, l) ==
  /\ pc' = [pc EXCEPT ![r] = "sent"]
  /\ tab' = [tab EXCEPT ![r] = t]
  /\ kind' = [kind EXCEPT ![r] = what]
  /\ attempt' = [attempt EXCEPT ![r] = 0]
  /\ held' = [held EXCEPT ![r] = l]

Close(r) ==
  /\ pc' = [pc EXCEPT ![r] = "idle"]
  /\ tab' = [tab EXCEPT ![r] = None]
  /\ kind' = [kind EXCEPT ![r] = None]
  /\ attempt' = [attempt EXCEPT ![r] = 0]
  /\ held' = [held EXCEPT ![r] = None]

\* A screen, a poll or a timer calls the services.
Call(r) ==
  /\ pc[r] = "idle"
  /\ \E t \in Tabs : user[t] # None /\ Send(r, t, "call", None)
  /\ UNCHANGED <<client, refreshing, onTimer, page, inbox, logins, reloads>>

\* The login form is submitted: it is there as long as nobody is shown, while a
\* restore or another login is under way as well.
SubmitLogin(r) ==
  /\ pc[r] = "idle"
  /\ \E t \in Tabs : user[t] = None /\ Send(r, t, "login", None)
  /\ UNCHANGED <<client, refreshing, onTimer, page, inbox, logins, reloads>>

\* The user a request signs in is shown.
Shows(r) ==
  /\ user' = [user EXCEPT ![tab[r]] = held[r]]
  /\ Close(r)
  /\ UNCHANGED <<client, overlapped>>
  /\ Stores(tab[r])

\* restoreSession gives up: the tokens go, whoever is shown by now.
GivesUp(r) ==
  /\ SetTokens(tab[r], None)
  /\ Mark(tab[r], {r}, tab[r] \in overlapped)
  /\ Close(r)
  /\ UNCHANGED user
  /\ Stores(tab[r])

\* restoreSession after a failed profile: /auth/refresh with the stored token;
\* after a failure of that, or of the second profile, it gives up.
Fails(r) ==
  CASE kind[r] = "restore" -> Send(r, tab[r], "renew", held[r]) /\ UNCHANGED <<client, page>>
    [] kind[r] \in {"renew", "restored"} -> GivesUp(r)
    [] kind[r] = "profile" -> Shows(r)
    [] OTHER -> Close(r) /\ UNCHANGED <<client, page>>

\* The tokens of a new login, whatever the tab has, and then its profile.
SignsIn(r, l) ==
  /\ logins < MaxLogins
  /\ logins' = l
  /\ SetTokens(tab[r], l)
  /\ Mark(tab[r], {r}, FALSE)
  /\ Send(r, tab[r], "profile", l)
  /\ UNCHANGED <<user, stored>>

\* 200, by what the request is for.
AnswerOk(r) ==
  /\ pc[r] = "sent"
  /\ UNCHANGED <<refreshing, onTimer, inbox, reloads>>
  /\ CASE kind[r] = "login" -> SignsIn(r, logins + 1)
       [] kind[r] = "renew" ->
            /\ SetTokens(tab[r], held[r])
            /\ Send(r, tab[r], "restored", held[r])
            /\ UNCHANGED <<page, logins>>
       [] kind[r] \in {"profile", "restore", "restored"} -> Shows(r) /\ UNCHANGED logins
       [] OTHER -> Close(r) /\ UNCHANGED <<client, page, logins>>

\* Mutant of LastAttempt: one more.
LastAttemptLate(r) == attempt[r] > MaxRetries

LastAttempt(r) == attempt[r] >= MaxRetries

\* 4xx, no connection (TypeError), or a 200 whose body is no JSON (its promise is
\* returned, not awaited): the request fails at once.  Or 5xx, or no answer in
\* time, and it was the last attempt.
AnswerFails(r) ==
  /\ pc[r] = "sent"
  /\ UNCHANGED <<refreshing, onTimer, inbox, logins, reloads>>
  /\ Fails(r)

\* 5xx: again at once.
AnswerBroken(r) ==
  /\ pc[r] = "sent"
  /\ ~LastAttempt(r)
  /\ attempt' = [attempt EXCEPT ![r] = @ + 1]
  /\ UNCHANGED <<client, refreshing, onTimer, page, inbox, pc, tab, kind, held, logins, reloads>>

\* No answer in time: again after RETRY_DELAY.
AnswerLate(r) ==
  /\ pc[r] = "sent"
  /\ ~LastAttempt(r)
  /\ pc' = [pc EXCEPT ![r] = "delay"]
  /\ UNCHANGED <<client, refreshing, onTimer, page, inbox, tab, kind, attempt, held, logins, reloads>>

Resend(r) ==
  /\ pc[r] = "delay"
  /\ pc' = [pc EXCEPT ![r] = "sent"]
  /\ attempt' = [attempt EXCEPT ![r] = @ + 1]
  /\ UNCHANGED <<client, refreshing, onTimer, page, inbox, tab, kind, held, logins, reloads>>

\* refreshAuth with a refresh token: one call at a time, which all await.
Join(t) ==
  refreshing' = IF refreshing[t] # None THEN refreshing
                ELSE [refreshing EXCEPT ![t] = refresh[t]]

\* 401 while there is a refresh token: the request awaits the refresh.
AnswerUnauthorized(r) ==
  /\ pc[r] = "sent"
  /\ refresh[tab[r]] # None
  /\ ~LastAttempt(r)
  /\ Join(tab[r])
  /\ pc' = [pc EXCEPT ![r] = "refresh"]
  /\ UNCHANGED <<client, onTimer, page, inbox, tab, kind, attempt, held, logins, reloads>>

\* The user a sign-in of rs shows although its tab was logged out before it
\* ended, if one does: login ignores that its profile failed.
Caught(t, rs) ==
  LET signing == {r \in rs : tab[r] = t /\ kind[r] = "profile"}
  IN IF signing = {} THEN {None} ELSE {held[r] : r \in signing}

\* The requests rs fail; a restore goes on to its own refresh.
EndAll(rs) ==
  LET Goes(r) == r \in rs /\ kind[r] = "restore"
      Set(f, went, ended) ==
        [r \in Requests |-> IF Goes(r) THEN went[r] ELSE IF r \in rs THEN ended ELSE f[r]]
  IN /\ pc' = Set(pc, [r \in Requests |-> "sent"], "idle")
     /\ tab' = Set(tab, tab, None)
     /\ kind' = Set(kind, [r \in Requests |-> "renew"], None)
     /\ attempt' = Set(attempt, [r \in Requests |-> 0], 0)
     /\ held' = Set(held, held, None)

\* 401 and nothing to refresh with, or once too often: the session is over.
AnswerExpired(r) ==
  /\ pc[r] = "sent"
  /\ refresh[tab[r]] = None \/ LastAttempt(r)
  /\ UNCHANGED <<refreshing, onTimer, logins, reloads>>
  /\ \E shown \in Caught(tab[r], {r}) : Expire(tab[r], {r}, shown)
  /\ EndAll({r})

-----------------------------------------------------------------------------
(* The refresh: the timer, and what becomes of those that await it. *)

Waiters(t) == {r \in Requests : pc[r] = "refresh" /\ tab[r] = t}

\* One minute before the access token expires.
TimerFires(t) ==
  /\ timer[t]
  /\ timer' = [timer EXCEPT ![t] = FALSE]
  /\ onTimer' = [onTimer EXCEPT ![t] = TRUE]
  /\ Join(t)
  /\ UNCHANGED <<token, refresh, page, inbox, request, logins, reloads>>

\* Mutant of Settle: the timer is not told.
SettleCallsOnly(t) ==
  /\ refreshing[t] # None
  /\ refreshing' = [refreshing EXCEPT ![t] = None]
  /\ UNCHANGED onTimer

Settle(t) ==
  /\ refreshing[t] # None
  /\ refreshing' = [refreshing EXCEPT ![t] = None]
  /\ onTimer' = [onTimer EXCEPT ![t] = FALSE]

\* New tokens: the requests are sent again with them.
RefreshSucceeds(t) ==
  /\ Settle(t)
  /\ Renewed(t, refreshing[t])
  /\ pc' = [r \in Requests |-> IF r \in Waiters(t) THEN "sent" ELSE pc[r]]
  /\ attempt' = [r \in Requests |-> IF r \in Waiters(t) THEN attempt[r] + 1 ELSE attempt[r]]
  /\ held' = [r \in Requests |->
       IF r \in Waiters(t) /\ kind[r] \in {"restore", "restored"} THEN refreshing[t] ELSE held[r]]
  /\ UNCHANGED <<page, inbox, tab, kind, logins, reloads>>

\* /auth/refresh refuses: the session of the tab is over, whichever it is.
RefreshRefused(t) ==
  /\ Settle(t)
  /\ \E shown \in Caught(t, Waiters(t)) : Expire(t, Waiters(t), shown)
  /\ EndAll(Waiters(t))
  /\ UNCHANGED <<logins, reloads>>

\* A refresh that only requests await is lost: a restore gives up, and a sign-in
\* shows its user.
LostToCalls(t, shown) ==
  LET gives == \E r \in Waiters(t) : kind[r] \in {"renew", "restored"}
  IN /\ IF gives THEN SetTokens(t, None) ELSE UNCHANGED client
     /\ user' = IF shown = None THEN user ELSE [user EXCEPT ![t] = shown]
     /\ IF gives \/ shown # None THEN Stores(t) ELSE UNCHANGED stored
     /\ UNCHANGED <<overlapped, inbox>>

\* No connection, or no JSON.  Requests fail, or wait and try again; the timer
\* takes either for the end of the session, and comes first or last.
RefreshLost(t) ==
  /\ Settle(t)
  /\ EndAll(Waiters(t))
  /\ \E shown \in Caught(t, Waiters(t)) :
       IF onTimer[t]
       THEN \E last \in {None, shown} : Expire(t, Waiters(t), last)
       ELSE LostToCalls(t, shown)
  /\ UNCHANGED <<logins, reloads>>

RefreshGarbled(t) ==
  /\ Settle(t)
  /\ IF onTimer[t] THEN Expire(t, {}, None) ELSE UNCHANGED <<client, page, inbox>>
  /\ pc' = [r \in Requests |-> IF r \in Waiters(t) THEN "delay" ELSE pc[r]]
  /\ UNCHANGED <<tab, kind, attempt, held, logins, reloads>>

-----------------------------------------------------------------------------
(* The page. *)

\* The user signs out: the other tabs are not told.
SignOut(t) ==
  /\ user[t] # None
  /\ UNCHANGED <<refreshing, onTimer, inbox, request, logins, reloads>>
  /\ LogOut(t, {}, None)

\* Nobody touched the page, the session is too old, or the socket says so.
TimeOut(t) ==
  /\ user[t] # None
  /\ UNCHANGED <<refreshing, onTimer, request, logins, reloads>>
  /\ Expire(t, {}, None)

\* A message of another tab: logged out, with the same reason, so that the
\* other tabs are told in turn.
Receive(t) ==
  /\ inbox[t] > 0
  /\ UNCHANGED <<refreshing, onTimer, request, logins, reloads>>
  /\ LogOut(t, {}, None)
  /\ inbox' = Tell([inbox EXCEPT ![t] = @ - 1], t)

\* Something else that is stored changes, such as the list of auctions: a tab
\* in which nobody is signed in overwrites the session of the others.
Persist(t) ==
  /\ UNCHANGED <<client, refreshing, onTimer, user, overlapped, inbox, request, logins, reloads>>
  /\ Stores(t)

\* The page is loaded again: the memory of the tab is gone, and a stored
\* session is restored.
Reload(t) ==
  /\ reloads < MaxReloads
  /\ reloads' = reloads + 1
  /\ SetTokens(t, stored)
  /\ refreshing' = [refreshing EXCEPT ![t] = None]
  /\ onTimer' = [onTimer EXCEPT ![t] = FALSE]
  /\ user' = [user EXCEPT ![t] = None]
  /\ inbox' = [inbox EXCEPT ![t] = 0]
  /\ overlapped' = overlapped \ {t}
  /\ \E r \in Requests :
       /\ tab[r] \in {t, None}
       /\ LET Restored(s) == s = r /\ stored # None
              Set(f, went, ended) == [s \in Requests |->
                IF Restored(s) THEN went ELSE IF tab[s] = t THEN ended ELSE f[s]]
          IN /\ pc' = Set(pc, "sent", "idle")
             /\ tab' = Set(tab, t, None)
             /\ kind' = Set(kind, "restore", None)
             /\ attempt' = Set(attempt, 0, 0)
             /\ held' = Set(held, stored, None)
  /\ UNCHANGED <<stored, logins>>

-----------------------------------------------------------------------------

Answer(r) ==
  \/ AnswerOk(r) \/ AnswerFails(r) \/ AnswerBroken(r) \/ AnswerLate(r)
  \/ AnswerUnauthorized(r) \/ AnswerExpired(r)

RefreshEnds(t) ==
  \/ RefreshSucceeds(t) \/ RefreshRefused(t) \/ RefreshLost(t) \/ RefreshGarbled(t)

Next ==
  \/ \E r \in Requests : Call(r) \/ SubmitLogin(r) \/ Answer(r) \/ Resend(r)
  \/ \E t \in Tabs :
       \/ TimerFires(t) \/ RefreshEnds(t)
       \/ SignOut(t) \/ TimeOut(t) \/ Receive(t) \/ Persist(t) \/ Reload(t)

Spec == Init /\ [][Next]_vars

-----------------------------------------------------------------------------

\* Of every variable the type, and of a request that awaits a refresh that
\* there is one.
TypeOK ==
  /\ token \in [Tabs -> Login \cup {None}]
  /\ refresh \in [Tabs -> Login \cup {None}]
  /\ timer \in [Tabs -> BOOLEAN]
  /\ refreshing \in [Tabs -> Login \cup {None}]
  /\ onTimer \in [Tabs -> BOOLEAN]
  /\ user \in [Tabs -> Login \cup {None}]
  /\ inbox \in [Tabs -> 0..MaxPending]
  /\ stored \in Login \cup {None}
  /\ pc \in [Requests -> {"idle", "sent", "delay", "refresh"}]
  /\ tab \in [Requests -> Tabs \cup {None}]
  /\ kind \in [Requests -> Kinds \cup {None}]
  /\ attempt \in [Requests -> 0..MaxRetries]
  /\ held \in [Requests -> Login \cup {None}]
  /\ logins \in 0..MaxLogins
  /\ reloads \in 0..MaxReloads
  /\ overlapped \subseteq Tabs

\* Nobody awaits a refresh that is not under way: not a request, not the timer.
\* Under way is not answered: the fetch of /auth/refresh has no time-out.
NobodyIsStranded ==
  /\ \A r \in Requests : pc[r] = "refresh" => refreshing[tab[r]] # None
  /\ \A t \in Tabs : onTimer[t] => refreshing[t] # None

\* "The app automatically refreshes your token": whoever has tokens has the
\* timer that renews them, or its callback is at it, whatever refresh, failure,
\* sign-out and sign-in came in between.  And no timer without a session.
RefreshIsScheduled ==
  \A t \in Tabs :
    /\ token[t] = refresh[t]
    /\ token[t] # None => timer[t] \/ onTimer[t]
    /\ timer[t] => token[t] # None

\* A tab shows the user whose token it sends, and nobody when it has none, but
\* until a sign-in or a restore is through, and but after a sign-in, sign-out or
\* expiry that a refresh, a sign-in or a restore crossed: that one writes what it
\* has in hand over the new session, a login over which a restore ends shows the
\* old user, and the next sign-in or sign-out that nothing crosses heals it.
UserHasToken ==
  \A t \in Tabs : Entering(t) \/ t \in overlapped \/ user[t] = token[t]

\* When nobody is signed in, in any tab, nothing is left in localStorage that a
\* page would restore a session from.
NothingIsKept ==
  (\A t \in Tabs : user[t] = None /\ ~Entering(t)) => stored = None

=============================================================================
