------------------------------ MODULE Session -------------------------------
(***************************************************************************)
(* The session of one browser: its cookies, which all tabs share; in each  *)
(* tab the API client, which on a 401 refreshes the session once and then  *)
(* repeats what had failed; the pages that log in and out; and the server, *)
(* which rotates the refresh tokens.                                       *)
(***************************************************************************)
EXTENDS FiniteSets

CONSTANTS
  Tabs,
  Requests,          \* bound: the requests of the session, each made once
  TabOf,             \* the tab that makes a request
  KindOf,            \* ... and what it is for
  Tokens,            \* bound: refresh tokens that are somewhere at once
  NoToken

Kinds == {"me", "data", "login", "logout"}

ASSUME SessionAssumption ==
  /\ TabOf \in [Requests -> Tabs]
  /\ KindOf \in [Requests -> Kinds]
  /\ NoToken \notin Tokens
  /\ Tokens # {}

VARIABLES
  jarAccess,         \* the access cookie is there: it is gone once it expires
  jarRefresh,        \* the refresh cookie
  blacklist,         \* token_blacklist
  isActive,          \* users.is_active
  lost,              \* an answer with new cookies never got to the browser
  page,              \* what each tab shows; "leaving" until it is unloaded
  auth,              \* authStore: isLoading, isAuthenticated or neither
  request,           \* each request, and the cookies it has been sent with
  isRefreshing,      \* api.ts, for each tab
  pendingQueue,
  refresh            \* the call of /auth/refresh

jar == <<jarAccess, jarRefresh>>
server == <<blacklist, isActive>>
sessionVars == <<jar, server, lost, page, auth, request, isRefreshing, pendingQueue, refresh>>

\* "resent" is a request that has original._retry; "served" a logout whose
\* answer is on its way.
Stages == {"new", "sent", "queued", "owner", "resent", "served", "ok", "failed"}

At(stage) == [at |-> stage, access |-> FALSE, token |-> NoToken]

\* Only a token can be found good, and only a good one is replaced.
Refreshes ==
  [at : {"none"}, token : {NoToken}, new : {NoToken}]
    \cup [at : {"sent", "refused"}, token : Tokens \cup {NoToken}, new : {NoToken}]
    \cup [at : {"checked"}, token : Tokens, new : {NoToken}]
    \cup [at : {"granted"}, token : Tokens, new : Tokens]

NoRefresh == [at |-> "none", token |-> NoToken, new |-> NoToken]

\* The shape of the browser's and the server's state.
SessionTypeOK ==
  /\ jarAccess \in BOOLEAN
  /\ jarRefresh \in Tokens \cup {NoToken}
  /\ blacklist \in SUBSET Tokens
  /\ isActive \in BOOLEAN
  /\ lost \in BOOLEAN
  /\ page \in [Tabs -> {"app", "login", "leaving"}]
  /\ auth \in [Tabs -> {"loading", "in", "out"}]
  /\ request \in [Requests -> [at : Stages, access : BOOLEAN, token : Tokens \cup {NoToken}]]
  /\ isRefreshing \in [Tabs -> BOOLEAN]
  /\ pendingQueue \in [Tabs -> SUBSET Requests]
  /\ refresh \in [Tabs -> Refreshes]

\* The names of tokens are interchangeable: one that nothing refers to is taken.
Unused(used) == CHOOSE t \in Tokens : t \notin used

\* The browser comes with the cookies of an earlier session, or without; each
\* tab opens a page of the dashboard or the one to log in.
SessionInit ==
  /\ jarAccess \in BOOLEAN
  /\ jarRefresh \in {NoToken, Unused({})}
  /\ jarAccess => jarRefresh # NoToken
  /\ blacklist = {}
  /\ isActive = TRUE
  /\ lost = FALSE
  /\ page \in [Tabs -> {"app", "login"}]
  /\ auth = [tab \in Tabs |-> "loading"]
  /\ request = [r \in Requests |-> At("new")]
  /\ isRefreshing = [tab \in Tabs |-> FALSE]
  /\ pendingQueue = [tab \in Tabs |-> {}]
  /\ refresh = [tab \in Tabs |-> NoRefresh]

-----------------------------------------------------------------------------
(* Requests.                                                               *)

In(tab) == {r \in Requests : TabOf[r] = tab}

\* A request that leaves the browser with some cookies.  Only a logout looks at
\* the refresh token.
Posted(r, stage, access, token) ==
  [at |-> stage, access |-> access, token |-> IF KindOf[r] = "logout" THEN token ELSE NoToken]

InFlight(r) == request[r].at \in {"sent", "resent"}

\* useAuthInit asks who the user is when the layout is mounted; its pages are
\* shown, and ask for their data, once that is known; /login takes a password.
MayAsk(r) ==
  LET tab == TabOf[r]
  IN  CASE KindOf[r] = "me" -> page[tab] = "app" /\ auth[tab] = "loading"
        [] KindOf[r] \in {"data", "logout"} -> page[tab] = "app" /\ auth[tab] = "in"
        [] KindOf[r] = "login" -> page[tab] = "login"

Ask(r) ==
  /\ request[r].at = "new"
  /\ MayAsk(r)
  /\ request' = [request EXCEPT ![r] = Posted(r, "sent", jarAccess, jarRefresh)]
  /\ UNCHANGED <<jar, server, lost, page, auth, isRefreshing, pendingQueue, refresh>>

\* What the failure of some requests of a tab does to its page: useAuthInit
\* forgets the user, and handleLogout does so and leaves.
AuthAfter(tab, failed) ==
  IF \E r \in failed : KindOf[r] \in {"me", "logout"} THEN [auth EXCEPT ![tab] = "out"] ELSE auth

PageAfter(tab, failed) ==
  IF \E r \in failed : KindOf[r] = "logout" THEN [page EXCEPT ![tab] = "leaving"] ELSE page

FailedWith(requests) == [r \in Requests |-> IF r \in requests THEN At("failed") ELSE request[r]]

Reject(r) ==
  /\ request' = FailedWith({r})
  /\ auth' = AuthAfter(TabOf[r], {r})
  /\ page' = PageAfter(TabOf[r], {r})

\* CookieJWTAuth lets the request pass.
Authenticated(r) == request[r].access /\ isActive

\* The answer to getMe, or to a query or a mutation.
Answer(r) ==
  /\ InFlight(r)
  /\ KindOf[r] \in {"me", "data"}
  /\ Authenticated(r)
  /\ request' = [request EXCEPT ![r] = At("ok")]
  /\ auth' = IF KindOf[r] = "me" THEN [auth EXCEPT ![TabOf[r]] = "in"] ELSE auth
  /\ UNCHANGED <<jar, server, lost, page, isRefreshing, pendingQueue, refresh>>

\* A network error, or an error other than 401.
NetworkError(r) ==
  /\ InFlight(r) \/ request[r].at = "served"
  /\ Reject(r)
  /\ lost' = (lost \/ request[r].at = "served")
  /\ UNCHANGED <<jar, server, isRefreshing, pendingQueue, refresh>>

\* The server answers 401: not authenticated, or a wrong password.
Unauthorized(r) == InFlight(r) /\ (KindOf[r] # "login" => ~Authenticated(r))

\* FAULT: _retry is not looked at.
Retried_Never(r) == FALSE

\* original._retry
Retried(r) == request[r].at = "resent"

\* A second 401 is final.
RejectSecond(r) ==
  /\ Unauthorized(r)
  /\ Retried(r)
  /\ Reject(r)
  /\ UNCHANGED <<jar, server, lost, isRefreshing, pendingQueue, refresh>>

\* Another request refreshes already: wait for it.
Queue(r) ==
  LET tab == TabOf[r]
  IN  /\ Unauthorized(r)
      /\ ~Retried(r)
      /\ isRefreshing[tab]
      /\ request' = [request EXCEPT ![r] = At("queued")]
      /\ pendingQueue' = [pendingQueue EXCEPT ![tab] = @ \cup {r}]
      /\ UNCHANGED <<jar, server, lost, page, auth, isRefreshing, refresh>>

StartRefresh(r) ==
  LET tab == TabOf[r]
  IN  /\ Unauthorized(r)
      /\ ~Retried(r)
      /\ ~isRefreshing[tab]
      /\ request' = [request EXCEPT ![r] = At("owner")]
      /\ isRefreshing' = [isRefreshing EXCEPT ![tab] = TRUE]
      /\ refresh' = [refresh EXCEPT ![tab] = [at |-> "sent", token |-> jarRefresh, new |-> NoToken]]
      /\ UNCHANGED <<jar, server, lost, page, auth, pendingQueue>>

-----------------------------------------------------------------------------
(* The server's part of a refresh.                                         *)

\* The tokens that something refers to; there must be one more.
InUse ==
  {jarRefresh} \cup {request[r].token : r \in Requests}
    \cup UNION {{refresh[tab].token, refresh[tab].new} : tab \in Tabs}

NewToken == Unused(InUse)

\* FAULT: the cookie may be missing.
Good_NoCookie(token) == token \notin blacklist

\* A cookie that came, with a token that is not on the blacklist.
Good(token) == token \in Tokens \ blacklist

\* RefreshToken(refresh_token) reads the blacklist ...
CheckToken(tab) ==
  /\ refresh[tab].at = "sent"
  /\ refresh' = [refresh EXCEPT ![tab].at =
                   IF Good(refresh[tab].token) THEN "checked" ELSE "refused"]
  /\ UNCHANGED <<jar, server, lost, page, auth, request, isRefreshing, pendingQueue>>

\* ... and then the token is blacklisted and another one made.  Whether the
\* account is active is not asked.
RotateToken(tab) ==
  /\ refresh[tab].at = "checked"
  /\ ~Tokens \subseteq InUse
  /\ refresh' = [refresh EXCEPT ![tab].at = "granted", ![tab].new = NewToken]
  /\ blacklist' = (blacklist \cap InUse) \cup {refresh[tab].token}
  /\ UNCHANGED <<jar, isActive, lost, page, auth, request, isRefreshing, pendingQueue>>

-----------------------------------------------------------------------------
(* Its answer.                                                             *)

Owners(tab) == {r \in In(tab) : request[r].at = "owner"}

\* FAULT: only the access cookie is set.
RefreshCookie_Kept(tab) == jarRefresh

\* _set_auth_cookies
RefreshCookie(tab) == refresh[tab].new

\* flushQueue(null): the queue and the owner are sent again, with the cookies
\* that have just been set; only the owner has _retry.
RefreshSucceeds(tab) ==
  /\ refresh[tab].at = "granted"
  /\ jarAccess' = TRUE
  /\ jarRefresh' = RefreshCookie(tab)
  /\ request' = [r \in Requests |->
                   IF r \in Owners(tab) THEN Posted(r, "resent", TRUE, RefreshCookie(tab))
                   ELSE IF r \in pendingQueue[tab] THEN Posted(r, "sent", TRUE, RefreshCookie(tab))
                   ELSE request[r]]
  /\ pendingQueue' = [pendingQueue EXCEPT ![tab] = {}]
  /\ isRefreshing' = [isRefreshing EXCEPT ![tab] = FALSE]
  /\ refresh' = [refresh EXCEPT ![tab] = NoRefresh]
  /\ UNCHANGED <<server, lost, page, auth>>

\* FAULT: the queue is forgotten when the refresh fails.
Flushed_OwnerOnly(tab) == Owners(tab)

\* Those that learn of the failure.
Flushed(tab) == Owners(tab) \cup pendingQueue[tab]

\* The server refuses, or no answer gets through: flushQueue(refreshError), and
\* the tab leaves for /login.
RefreshFails(tab) ==
  /\ refresh[tab].at # "none"
  /\ lost' = (lost \/ refresh[tab].at = "granted")
  /\ request' = FailedWith(Flushed(tab))
  /\ auth' = AuthAfter(tab, Flushed(tab))
  /\ page' = [page EXCEPT ![tab] = "leaving"]
  /\ pendingQueue' = [pendingQueue EXCEPT ![tab] = @ \ Flushed(tab)]
  /\ isRefreshing' = [isRefreshing EXCEPT ![tab] = FALSE]
  /\ refresh' = [refresh EXCEPT ![tab] = NoRefresh]
  /\ UNCHANGED <<jar, server>>

-----------------------------------------------------------------------------
(* Pages.                                                                  *)

\* window.location.href = "/login": the client of the tab starts anew, and what
\* was on its way is given up.
Unload(tab) ==
  /\ page[tab] = "leaving"
  /\ page' = [page EXCEPT ![tab] = "login"]
  /\ auth' = [auth EXCEPT ![tab] = "loading"]
  /\ lost' = (lost \/ refresh[tab].at = "granted" \/ \E r \in In(tab) : request[r].at = "served")
  /\ request' = FailedWith({r \in In(tab) : request[r].at \notin {"new", "ok", "failed"}})
  /\ isRefreshing' = [isRefreshing EXCEPT ![tab] = FALSE]
  /\ pendingQueue' = [pendingQueue EXCEPT ![tab] = {}]
  /\ refresh' = [refresh EXCEPT ![tab] = NoRefresh]
  /\ UNCHANGED <<jar, server>>

\* The layout pushes to /login when there is no user; nothing is given up.
PushLogin(tab) ==
  /\ page[tab] = "app"
  /\ auth[tab] = "out"
  /\ page' = [page EXCEPT ![tab] = "login"]
  /\ UNCHANGED <<jar, server, lost, auth, request, isRefreshing, pendingQueue, refresh>>

\* The password is right: AuthService.login, handleSubmit.
LoginSucceeds(r) ==
  /\ InFlight(r)
  /\ KindOf[r] = "login"
  /\ isActive
  /\ ~Tokens \subseteq InUse
  /\ jarRefresh' = NewToken
  /\ blacklist' = blacklist \cap InUse
  /\ jarAccess' = TRUE
  /\ request' = [request EXCEPT ![r] = At("ok")]
  /\ auth' = [auth EXCEPT ![TabOf[r]] = "in"]
  /\ page' = IF page[TabOf[r]] = "login" THEN [page EXCEPT ![TabOf[r]] = "app"] ELSE page
  /\ UNCHANGED <<isActive, lost, isRefreshing, pendingQueue, refresh>>

\* AuthService.logout: the refresh token that came with the request.
ServeLogout(r) ==
  /\ InFlight(r)
  /\ KindOf[r] = "logout"
  /\ Authenticated(r)
  /\ blacklist' = blacklist \cup ({request[r].token} \cap Tokens)
  /\ request' = [request EXCEPT ![r] = At("served")]
  /\ UNCHANGED <<jar, isActive, lost, page, auth, isRefreshing, pendingQueue, refresh>>

\* The answer deletes the cookies; handleLogout forgets the user and leaves.
LogoutSucceeds(r) ==
  /\ request[r].at = "served"
  /\ jarAccess' = FALSE
  /\ jarRefresh' = NoToken
  /\ request' = [request EXCEPT ![r] = At("ok")]
  /\ auth' = [auth EXCEPT ![TabOf[r]] = "out"]
  /\ page' = [page EXCEPT ![TabOf[r]] = "leaving"]
  /\ UNCHANGED <<server, lost, isRefreshing, pendingQueue, refresh>>

\* 15 minutes are over.
AccessExpires ==
  /\ jarAccess
  /\ jarAccess' = FALSE
  /\ UNCHANGED <<jarRefresh, server, lost, page, auth, request, isRefreshing, pendingQueue, refresh>>

\* An administrator deactivates the account.
Deactivate ==
  /\ isActive
  /\ isActive' = FALSE
  /\ UNCHANGED <<jar, blacklist, lost, page, auth, request, isRefreshing, pendingQueue, refresh>>

-----------------------------------------------------------------------------
\* An answer, or the lack of one, gets to the browser.
Settle(r) ==
  \/ Answer(r) \/ NetworkError(r) \/ RejectSecond(r) \/ Queue(r) \/ StartRefresh(r)
  \/ LoginSucceeds(r) \/ LogoutSucceeds(r)

Refreshing(tab) == CheckToken(tab) \/ RotateToken(tab) \/ RefreshSucceeds(tab) \/ RefreshFails(tab)

SessionNext ==
  \/ AccessExpires \/ Deactivate
  \/ \E r \in Requests : Ask(r) \/ Settle(r) \/ ServeLogout(r)
  \/ \E tab \in Tabs : Refreshing(tab) \/ Unload(tab) \/ PushLogin(tab)

\* Every call is answered or breaks down, and a tab that leaves gets away.
SessionFairness ==
  /\ \A r \in Requests : WF_sessionVars(Settle(r))
  /\ \A tab \in Tabs : WF_sessionVars(Refreshing(tab)) /\ WF_sessionVars(Unload(tab))

SessionSpec == SessionInit /\ [][SessionNext]_sessionVars /\ SessionFairness

-----------------------------------------------------------------------------
(* Properties.                                                             *)

\* A request waits in the queue only while a refresh of its tab is on its way,
\* started by exactly one request; so the end of the refresh wakes it up.
NobodyIsStranded ==
  \A tab \in Tabs :
    /\ isRefreshing[tab] <=> refresh[tab].at # "none"
    /\ isRefreshing[tab] <=> Cardinality(Owners(tab)) = 1
    /\ pendingQueue[tab] = {r \in In(tab) : request[r].at = "queued"}
    /\ pendingQueue[tab] # {} => isRefreshing[tab]

\* The refresh cookie is good, so that the session can go on, unless the token
\* that takes its place is on its way, the answer to a logout is, or an answer
\* was lost.
JarIsUsable ==
  \/ jarRefresh \notin blacklist
  \/ lost
  \/ \E tab \in Tabs : refresh[tab].at = "granted"
  \/ \E r \in Requests : request[r].at = "served"

\* No request is repeated for ever: each one is answered or fails in the end,
\* even if the server refuses it after every refresh, as it does to an account
\* that is not active.
RequestsSettle ==
  \A r \in Requests : request[r].at = "sent" ~> request[r].at \in {"ok", "failed"}

-----------------------------------------------------------------------------
(* What makes the properties inductive.                                    *)

\* A refresh that is on its way has one owner, and the queue is the requests
\* that wait for it.
RefreshIsOwned(tab) ==
  /\ isRefreshing[tab] <=> refresh[tab].at # "none"
  /\ isRefreshing[tab] => \E r \in In(tab) : Owners(tab) = {r}
  /\ ~isRefreshing[tab] => Owners(tab) = {} /\ pendingQueue[tab] = {}
  /\ pendingQueue[tab] = {r \in In(tab) : request[r].at = "queued"}

\* Nobody but its answer has the token that a refresh was granted.
NewIsItsOwn(tab) ==
  refresh[tab].at = "granted" =>
    /\ refresh[tab].new \notin blacklist
    /\ refresh[tab].new # jarRefresh
    /\ \A r \in Requests : request[r].token # refresh[tab].new
    /\ \A other \in Tabs : refresh[other].token # refresh[tab].new
    /\ \A other \in Tabs \ {tab} : refresh[other].new # refresh[tab].new

SessionInv ==
  /\ SessionTypeOK
  /\ \A tab \in Tabs : RefreshIsOwned(tab) /\ NewIsItsOwn(tab)
  /\ JarIsUsable
=============================================================================
