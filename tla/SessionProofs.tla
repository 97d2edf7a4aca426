--------------------------- MODULE SessionProofs ---------------------------
(***************************************************************************)
(* The theorems about the session: its shape, the queue behind a refresh,  *)
(* and the refresh cookie.  A request that waits is in the queue of its    *)
(* tab while a refresh of it has one owner; and the token that a refresh   *)
(* was granted is nowhere but in its answer, so that it is still good when *)
(* the browser gets it.                                                    *)
(***************************************************************************)
EXTENDS Session, FiniteSetTheorems, TLAPS

Records == [at : Stages, access : BOOLEAN, token : Tokens \cup {NoToken}]

LEMMA AtShape ==
  ASSUME NEW stage \in Stages
  PROVE  At(stage) \in Records /\ At(stage).at = stage /\ At(stage).token = NoToken
BY DEF At, Records

LEMMA PostedShape ==
  ASSUME NEW r, NEW stage \in Stages, NEW access \in BOOLEAN, NEW token \in Tokens \cup {NoToken}
  PROVE  /\ Posted(r, stage, access, token) \in Records
         /\ Posted(r, stage, access, token).at = stage
         /\ Posted(r, stage, access, token).token \in {token, NoToken}
BY DEF Posted, Records

\* A refresh that is on its way, and what it has been granted.
LEMMA RefreshShape ==
  ASSUME SessionTypeOK, NEW tab \in Tabs
  PROVE  /\ refresh[tab].at \in {"none", "sent", "refused", "checked", "granted"}
         /\ refresh[tab].token \in Tokens \cup {NoToken}
         /\ refresh[tab].new \in Tokens \cup {NoToken}
         /\ refresh[tab].at \in {"checked", "granted"} => refresh[tab].token \in Tokens
         /\ refresh[tab].at = "granted" => refresh[tab].new \in Tokens
         /\ refresh[tab].at # "granted" => refresh[tab].new = NoToken
<1>1. refresh[tab] \in Refreshes
  BY DEF SessionTypeOK
<1> QED BY <1>1 DEF Refreshes

\* A token that is made is one that nothing refers to.
LEMMA NewTokenIsUnused ==
  ASSUME ~Tokens \subseteq InUse
  PROVE  NewToken \in Tokens \ InUse
BY DEF NewToken, Unused

LEMMA InUseHas ==
  /\ jarRefresh \in InUse
  /\ \A tab \in Tabs : refresh[tab].token \in InUse /\ refresh[tab].new \in InUse
  /\ \A r \in Requests : request[r].token \in InUse
<1>1. ASSUME NEW tab \in Tabs PROVE refresh[tab].token \in InUse /\ refresh[tab].new \in InUse
  <2> DEFINE named(t) == {refresh[t].token, refresh[t].new}
  <2>1. named(tab) \in {named(t) : t \in Tabs}
    OBVIOUS
  <2>2. named(tab) \subseteq InUse
    BY <2>1 DEF InUse
  <2> QED BY <2>2
<1>2. ASSUME NEW r \in Requests PROVE request[r].token \in InUse
  BY DEF InUse
<1> QED BY <1>1, <1>2 DEF InUse

\* A tab none of whose requests is queued, or stops being so, keeps its queue.
LEMMA OwnedKept ==
  ASSUME NEW tab \in Tabs, RefreshIsOwned(tab),
         isRefreshing'[tab] = isRefreshing[tab], pendingQueue'[tab] = pendingQueue[tab],
         refresh'[tab].at = "none" <=> refresh[tab].at = "none",
         \A r \in In(tab) : /\ request'[r].at = "owner" <=> request[r].at = "owner"
                            /\ request'[r].at = "queued" <=> request[r].at = "queued"
  PROVE  RefreshIsOwned(tab)'
<1>1. In(tab)' = In(tab)
  BY DEF In
<1>2. Owners(tab)' = Owners(tab)
  BY <1>1 DEF Owners
<1>3. {r \in In(tab)' : request'[r].at = "queued"} = {r \in In(tab) : request[r].at = "queued"}
  BY <1>1
<1> QED BY <1>1, <1>2, <1>3 DEF RefreshIsOwned

\* A tab that has stopped refreshing, with nobody left waiting.
LEMMA OwnedEnds ==
  ASSUME NEW tab \in Tabs, ~isRefreshing'[tab], pendingQueue'[tab] = {}, refresh'[tab].at = "none",
         \A r \in In(tab) : request'[r].at \notin {"owner", "queued"}
  PROVE  RefreshIsOwned(tab)'
<1>1. In(tab)' = In(tab)
  BY DEF In
<1>2. Owners(tab)' = {}
  BY <1>1 DEF Owners
<1> QED BY <1>1, <1>2 DEF RefreshIsOwned

\* A token that was granted stays its answer's own, if no other one is made and
\* nobody gets it.
LEMMA NewKept ==
  ASSUME SessionTypeOK, NEW tab \in Tabs, NewIsItsOwn(tab), refresh'[tab] = refresh[tab],
         NEW Seen, refresh[tab].at = "granted" => refresh[tab].new \notin Seen,
         blacklist' \subseteq Seen, jarRefresh' \in Seen,
         \A r \in Requests : request'[r].token \in Seen,
         \A other \in Tabs : refresh'[other].token \in Seen,
         \A other \in Tabs \ {tab} : refresh'[other].new \in Seen
  PROVE  NewIsItsOwn(tab)'
BY DEF NewIsItsOwn

\* The tokens that are somewhere, apart from the one that a tab was granted.
Known(tab) ==
  blacklist \cup {jarRefresh, NoToken} \cup {request[r].token : r \in Requests}
    \cup {refresh[other].token : other \in Tabs} \cup {refresh[other].new : other \in Tabs \ {tab}}

LEMMA NewIsNotKnown ==
  ASSUME SessionTypeOK, NEW tab \in Tabs, NewIsItsOwn(tab), refresh[tab].at = "granted"
  PROVE  refresh[tab].new \notin Known(tab)
<1>1. refresh[tab].new \in Tokens
  BY RefreshShape
<1>2. refresh[tab].new # NoToken
  BY <1>1, SessionAssumption
<1> QED BY <1>2 DEF NewIsItsOwn, Known

LEMMA KnownHas ==
  ASSUME NEW tab
  PROVE  /\ blacklist \subseteq Known(tab) /\ jarRefresh \in Known(tab) /\ NoToken \in Known(tab)
         /\ \A r \in Requests : request[r].token \in Known(tab)
         /\ \A other \in Tabs : refresh[other].token \in Known(tab)
         /\ \A other \in Tabs \ {tab} : refresh[other].new \in Known(tab)
BY DEF Known

-----------------------------------------------------------------------------
LEMMA SessionStart == SessionInit => SessionInv
<1> SUFFICES ASSUME SessionInit PROVE SessionInv
  OBVIOUS
<1> USE SessionAssumption DEF SessionInit
<1>1. Unused({}) \in Tokens
  BY DEF Unused
<1>2. /\ NoRefresh \in Refreshes /\ NoRefresh.at = "none"
      /\ At("new") \in Records /\ At("new").at = "new"
  BY DEF NoRefresh, Refreshes, At, Records, Stages
<1>3. SessionTypeOK
  BY <1>1, <1>2 DEF SessionTypeOK, Records
<1>4. ASSUME NEW tab \in Tabs PROVE RefreshIsOwned(tab) /\ NewIsItsOwn(tab)
  <2>1. In(tab) \subseteq Requests /\ Owners(tab) = {} /\ refresh[tab] = NoRefresh
    BY <1>2 DEF In, Owners
  <2> QED BY <1>2, <2>1 DEF RefreshIsOwned, NewIsItsOwn
<1>5. JarIsUsable
  BY DEF JarIsUsable
<1> QED BY <1>3, <1>4, <1>5 DEF SessionInv

\* A request that is asked for or answered, when nobody's refresh is concerned.
LEMMA RequestMoves ==
  ASSUME SessionInv, NEW r \in Requests, NEW record \in Records,
         request[r].at \notin {"owner", "queued"}, record.at \notin {"owner", "queued"},
         record.token \in {jarRefresh, NoToken},
         request' = [request EXCEPT ![r] = record],
         UNCHANGED <<isRefreshing, pendingQueue, refresh>>,
         jarRefresh' \in {jarRefresh, NoToken},
         blacklist' \subseteq blacklist \cup {request[q].token : q \in Requests}
  PROVE  \A tab \in Tabs : RefreshIsOwned(tab)' /\ NewIsItsOwn(tab)'
<1> SUFFICES ASSUME NEW tab \in Tabs PROVE RefreshIsOwned(tab)' /\ NewIsItsOwn(tab)'
  OBVIOUS
<1>1. SessionTypeOK /\ RefreshIsOwned(tab) /\ NewIsItsOwn(tab)
  BY DEF SessionInv
<1>2. \A q \in Requests : request'[q] = IF q = r THEN record ELSE request[q]
  BY <1>1 DEF SessionTypeOK
<1>3. RefreshIsOwned(tab)'
  BY <1>1, <1>2, OwnedKept DEF In
<1>4. blacklist' \subseteq Known(tab) /\ jarRefresh' \in Known(tab)
  BY KnownHas
<1>5. \A q \in Requests : request'[q].token \in Known(tab)
  BY <1>2, KnownHas
<1>6. \A other \in Tabs : refresh'[other].token \in Known(tab)
  BY KnownHas
<1>7. \A other \in Tabs \ {tab} : refresh'[other].new \in Known(tab)
  BY KnownHas
<1>8. refresh'[tab] = refresh[tab] /\ (refresh[tab].at = "granted" => refresh[tab].new \notin Known(tab))
  BY <1>1, NewIsNotKnown
<1>9. NewIsItsOwn(tab)'
  BY <1>1, <1>4, <1>5, <1>6, <1>7, <1>8, NewKept
<1> QED BY <1>3, <1>9

\* Requests that fail fail whole pages, or nothing.
LEMMA FailedShape ==
  ASSUME SessionTypeOK, NEW failed \in SUBSET Requests
  PROVE  /\ FailedWith(failed) \in [Requests -> Records]
         /\ \A r \in Requests : r \in failed => FailedWith(failed)[r] = At("failed")
         /\ \A r \in Requests : r \notin failed => FailedWith(failed)[r] = request[r]
<1>1. At("failed") \in Records
  BY AtShape DEF Stages
<1>2. request \in [Requests -> Records]
  BY DEF SessionTypeOK, Records
<1> QED BY <1>1, <1>2 DEF FailedWith

LEMMA AfterShape ==
  ASSUME SessionTypeOK, NEW tab \in Tabs, NEW failed
  PROVE  /\ AuthAfter(tab, failed) \in [Tabs -> {"loading", "in", "out"}]
         /\ PageAfter(tab, failed) \in [Tabs -> {"app", "login", "leaving"}]
BY DEF AuthAfter, PageAfter, SessionTypeOK

\* What asking, answering and failing do to a request.
LEMMA RequestStep ==
  ASSUME SessionInv, NEW r \in Requests,
         Ask(r) \/ Answer(r) \/ NetworkError(r) \/ RejectSecond(r) \/ ServeLogout(r) \/ LogoutSucceeds(r)
  PROVE  SessionInv'
<1> USE SessionAssumption
<1>t. /\ SessionTypeOK /\ request \in [Requests -> Records] /\ JarIsUsable
      /\ jarRefresh \in Tokens \cup {NoToken} /\ jarAccess \in BOOLEAN
      /\ TabOf[r] \in Tabs
  BY DEF SessionInv, SessionTypeOK, Records
<1>r. /\ At("ok") \in Records /\ At("ok").at = "ok" /\ At("ok").token = NoToken
      /\ At("served") \in Records /\ At("served").at = "served" /\ At("served").token = NoToken
      /\ At("failed") \in Records /\ At("failed").at = "failed" /\ At("failed").token = NoToken
  BY AtShape DEF Stages
<1>f. FailedWith({r}) = [request EXCEPT ![r] = At("failed")]
  BY <1>t DEF FailedWith
<1>1. \E record \in Records :
        /\ request' = [request EXCEPT ![r] = record]
        /\ request[r].at \notin {"owner", "queued"} /\ record.at \notin {"owner", "queued"}
        /\ record.token \in {jarRefresh, NoToken}
        /\ request[r].at = "served" => record.at = "served" \/ lost' \/ jarRefresh' = NoToken
        /\ record.at = "served" \/ blacklist' = blacklist
  <2> USE DEF server
  <2>1. CASE Ask(r)
    <3> DEFINE record == Posted(r, "sent", jarAccess, jarRefresh)
    <3>1. record \in Records /\ record.at = "sent" /\ record.token \in {jarRefresh, NoToken}
      BY <1>t, PostedShape DEF Stages
    <3>2. request[r].at = "new" /\ request' = [request EXCEPT ![r] = record] /\ blacklist' = blacklist
      BY <2>1 DEF Ask
    <3> HIDE DEF record
    <3> QED BY <3>1, <3>2
  <2>2. CASE Answer(r)
    <3>1. /\ request[r].at \in {"sent", "resent"} /\ request' = [request EXCEPT ![r] = At("ok")]
          /\ blacklist' = blacklist
      BY <2>2 DEF Answer, InFlight
    <3> QED BY <1>r, <3>1
  <2>3. CASE NetworkError(r)
    <3>1. /\ request[r].at \in {"sent", "resent", "served"} /\ request' = [request EXCEPT ![r] = At("failed")]
          /\ blacklist' = blacklist /\ (request[r].at = "served" => lost')
      BY <1>f, <2>3 DEF NetworkError, Reject, InFlight
    <3> QED BY <1>r, <3>1
  <2>4. CASE RejectSecond(r)
    <3>1. /\ request[r].at = "resent" /\ request' = [request EXCEPT ![r] = At("failed")]
          /\ blacklist' = blacklist
      BY <1>f, <2>4 DEF RejectSecond, Reject, Retried
    <3> QED BY <1>r, <3>1
  <2>5. CASE ServeLogout(r)
    <3>1. request[r].at \in {"sent", "resent"} /\ request' = [request EXCEPT ![r] = At("served")]
      BY <2>5 DEF ServeLogout, InFlight
    <3> QED BY <1>r, <3>1
  <2>6. CASE LogoutSucceeds(r)
    <3>1. /\ request[r].at = "served" /\ request' = [request EXCEPT ![r] = At("ok")]
          /\ blacklist' = blacklist /\ jarRefresh' = NoToken
      BY <2>6 DEF LogoutSucceeds
    <3> QED BY <1>r, <3>1
  <2> QED BY <2>1, <2>2, <2>3, <2>4, <2>5, <2>6
<1>2. PICK record \in Records :
        /\ request' = [request EXCEPT ![r] = record]
        /\ request[r].at \notin {"owner", "queued"} /\ record.at \notin {"owner", "queued"}
        /\ record.token \in {jarRefresh, NoToken}
        /\ request[r].at = "served" => record.at = "served" \/ lost' \/ jarRefresh' = NoToken
        /\ record.at = "served" \/ blacklist' = blacklist
  BY <1>1
<1>3. /\ UNCHANGED <<isActive, isRefreshing, pendingQueue, refresh>>
      /\ jarRefresh' \in {jarRefresh, NoToken}
      /\ jarAccess' \in BOOLEAN
      /\ blacklist' \subseteq blacklist \cup {request[q].token : q \in Requests}
      /\ blacklist' \subseteq Tokens
      /\ lost' \in BOOLEAN /\ (lost => lost')
  <2> USE <1>t DEF jar, server, SessionTypeOK
  <2>1. CASE Ask(r)
    BY <2>1 DEF Ask
  <2>2. CASE Answer(r)
    BY <2>2 DEF Answer
  <2>3. CASE NetworkError(r)
    BY <2>3 DEF NetworkError
  <2>4. CASE RejectSecond(r)
    BY <2>4 DEF RejectSecond
  <2>5. CASE ServeLogout(r)
    BY <2>5 DEF ServeLogout
  <2>6. CASE LogoutSucceeds(r)
    BY <2>6 DEF LogoutSucceeds
  <2> QED BY <2>1, <2>2, <2>3, <2>4, <2>5, <2>6
<1>4. /\ auth' \in [Tabs -> {"loading", "in", "out"}]
      /\ page' \in [Tabs -> {"app", "login", "leaving"}]
  <2>1. /\ auth \in [Tabs -> {"loading", "in", "out"}]
        /\ page \in [Tabs -> {"app", "login", "leaving"}]
    BY <1>t DEF SessionTypeOK
  <2>2. /\ AuthAfter(TabOf[r], {r}) \in [Tabs -> {"loading", "in", "out"}]
        /\ PageAfter(TabOf[r], {r}) \in [Tabs -> {"app", "login", "leaving"}]
    BY <1>t, AfterShape
  <2>3. CASE Ask(r) \/ ServeLogout(r)
    BY <2>1, <2>3 DEF Ask, ServeLogout
  <2>4. CASE Answer(r)
    BY <1>t, <2>1, <2>4 DEF Answer
  <2>5. CASE NetworkError(r) \/ RejectSecond(r)
    BY <2>2, <2>5 DEF NetworkError, RejectSecond, Reject
  <2>6. CASE LogoutSucceeds(r)
    BY <1>t, <2>1, <2>6 DEF LogoutSucceeds
  <2> QED BY <2>3, <2>4, <2>5, <2>6
<1>5. SessionTypeOK'
  <2>1. request' \in [Requests -> Records]
    BY <1>t, <1>2
  <2>2. jarRefresh' \in Tokens \cup {NoToken} /\ blacklist' \in SUBSET Tokens
    BY <1>t, <1>3
  <2> QED BY <1>t, <1>3, <1>4, <2>1, <2>2 DEF SessionTypeOK, Records
<1>6. \A tab \in Tabs : RefreshIsOwned(tab)' /\ NewIsItsOwn(tab)'
  BY <1>2, <1>3, RequestMoves
<1>7. JarIsUsable'
  <2>1. CASE jarRefresh' = NoToken
    BY <1>3, <2>1 DEF JarIsUsable
  <2>2. CASE jarRefresh' = jarRefresh /\ record.at = "served"
    BY <1>t, <1>2, <2>2 DEF JarIsUsable
  <2>3. CASE jarRefresh' = jarRefresh /\ record.at # "served"
    <3>1. blacklist' = blacklist
      BY <1>2, <2>3
    <3>2. CASE jarRefresh \notin blacklist \/ lost \/ \E tab \in Tabs : refresh[tab].at = "granted"
      BY <1>3, <2>3, <3>1, <3>2 DEF JarIsUsable
    <3>3. CASE request[r].at = "served"
      BY <1>2, <1>3, <2>3, <3>3 DEF JarIsUsable
    <3>4. CASE \E q \in Requests : q # r /\ request[q].at = "served"
      BY <1>t, <1>2, <3>4 DEF JarIsUsable
    <3> QED BY <1>t, <3>2, <3>3, <3>4 DEF JarIsUsable
  <2> QED BY <1>3, <2>1, <2>2, <2>3
<1> QED BY <1>5, <1>6, <1>7 DEF SessionInv

\* The cookie expires, the account is deactivated, the layout pushes to /login.
LEMMA PageStep ==
  ASSUME SessionInv, AccessExpires \/ Deactivate \/ \E tab \in Tabs : PushLogin(tab)
  PROVE  SessionInv'
<1> USE DEF jar, server
<1>1. /\ UNCHANGED <<jarRefresh, blacklist, lost, request, isRefreshing, pendingQueue, refresh, auth>>
      /\ jarAccess' \in BOOLEAN /\ isActive' \in BOOLEAN
      /\ page' \in [Tabs -> {"app", "login", "leaving"}]
  BY DEF AccessExpires, Deactivate, PushLogin, SessionInv, SessionTypeOK
<1>2. SessionTypeOK'
  BY <1>1 DEF SessionInv, SessionTypeOK
<1>3. ASSUME NEW tab \in Tabs PROVE RefreshIsOwned(tab)' /\ NewIsItsOwn(tab)'
  <2>1. RefreshIsOwned(tab) /\ NewIsItsOwn(tab)
    BY DEF SessionInv
  <2>2. RefreshIsOwned(tab)'
    BY <1>1, <2>1, OwnedKept
  <2>3. NewIsItsOwn(tab)'
    BY <1>1, <2>1 DEF NewIsItsOwn
  <2> QED BY <2>2, <2>3
<1>4. JarIsUsable'
  BY <1>1 DEF SessionInv, JarIsUsable
<1> QED BY <1>2, <1>3, <1>4 DEF SessionInv

\* A refresh goes on at the server, or a request joins or starts one: the jar
\* and what has been granted stay.
LEMMA CheckTokenStep ==
  ASSUME SessionInv, NEW tab \in Tabs, CheckToken(tab)
  PROVE  SessionInv'
<1> USE DEF jar, server
<1>1. /\ refresh[tab].at = "sent"
      /\ refresh' = [refresh EXCEPT ![tab].at = IF Good(refresh[tab].token) THEN "checked" ELSE "refused"]
      /\ UNCHANGED <<jar, server, lost, page, auth, request, isRefreshing, pendingQueue>>
  BY DEF CheckToken
<1>t. SessionTypeOK /\ refresh \in [Tabs -> Refreshes]
  BY DEF SessionInv, SessionTypeOK
<1>2. /\ refresh'[tab] \in Refreshes /\ refresh'[tab].at \in {"checked", "refused"}
      /\ refresh'[tab].token = refresh[tab].token /\ refresh'[tab].new = refresh[tab].new
      /\ refresh[tab].new = NoToken
      /\ \A other \in Tabs : other # tab => refresh'[other] = refresh[other]
  <2>1. refresh[tab].token \in Tokens \cup {NoToken} /\ refresh[tab].new = NoToken
    BY <1>1, <1>t, RefreshShape
  <2>2. refresh[tab] = [at |-> "sent", token |-> refresh[tab].token, new |-> NoToken]
    BY <1>1, <1>t DEF Refreshes
  <2>3. refresh'[tab] = [refresh[tab] EXCEPT !.at = IF Good(refresh[tab].token) THEN "checked" ELSE "refused"]
    BY <1>1, <1>t
  <2>4. CASE Good(refresh[tab].token)
    <3>1. refresh'[tab] = [at |-> "checked", token |-> refresh[tab].token, new |-> NoToken]
      BY <2>2, <2>3, <2>4
    <3>2. refresh[tab].token \in Tokens
      BY <2>4 DEF Good
    <3> QED BY <1>1, <1>t, <2>1, <3>1, <3>2 DEF Refreshes
  <2>5. CASE ~Good(refresh[tab].token)
    <3>1. refresh'[tab] = [at |-> "refused", token |-> refresh[tab].token, new |-> NoToken]
      BY <2>2, <2>3, <2>5
    <3> QED BY <1>1, <1>t, <2>1, <3>1 DEF Refreshes
  <2> QED BY <2>4, <2>5
<1>3. SessionTypeOK'
  <2>1. refresh' \in [Tabs -> Refreshes]
    BY <1>1, <1>2, <1>t
  <2> QED BY <1>1, <1>t, <2>1 DEF SessionTypeOK
<1>4. ASSUME NEW other \in Tabs PROVE RefreshIsOwned(other)' /\ NewIsItsOwn(other)'
  <2>1. RefreshIsOwned(other) /\ NewIsItsOwn(other)
    BY DEF SessionInv
  <2>2. RefreshIsOwned(other)'
    BY <1>1, <1>2, <2>1, OwnedKept
  <2>3. \A t \in Tabs : refresh'[t].token = refresh[t].token /\ refresh'[t].new = refresh[t].new
    BY <1>2
  <2>4. refresh'[other].at = "granted" => refresh[other].at = "granted"
    BY <1>2
  <2>5. NewIsItsOwn(other)'
    BY <1>1, <2>1, <2>3, <2>4 DEF NewIsItsOwn
  <2> QED BY <2>2, <2>5
<1>5. JarIsUsable'
  BY <1>1, <1>2 DEF SessionInv, JarIsUsable
<1> QED BY <1>3, <1>4, <1>5 DEF SessionInv

LEMMA RotateTokenStep ==
  ASSUME SessionInv, NEW tab \in Tabs, RotateToken(tab)
  PROVE  SessionInv'
<1> USE DEF jar
<1>1. /\ refresh[tab].at = "checked" /\ ~Tokens \subseteq InUse
      /\ refresh' = [refresh EXCEPT ![tab].at = "granted", ![tab].new = NewToken]
      /\ blacklist' = (blacklist \cap InUse) \cup {refresh[tab].token}
      /\ UNCHANGED <<jar, isActive, lost, page, auth, request, isRefreshing, pendingQueue>>
  BY DEF RotateToken
<1>t. SessionTypeOK /\ refresh \in [Tabs -> Refreshes]
  BY DEF SessionInv, SessionTypeOK
<1>2. NewToken \in Tokens \ InUse
  BY <1>1, NewTokenIsUnused
<1>3. /\ refresh[tab].token \in Tokens
      /\ refresh'[tab] = [at |-> "granted", token |-> refresh[tab].token, new |-> NewToken]
      /\ \A other \in Tabs : other # tab => refresh'[other] = refresh[other]
  <2>1. refresh[tab].token \in Tokens
    BY <1>1, <1>t, RefreshShape
  <2>2. refresh[tab] = [at |-> "checked", token |-> refresh[tab].token, new |-> NoToken]
    BY <1>1, <1>t DEF Refreshes
  <2> QED BY <1>1, <1>t, <2>1, <2>2
<1>4. SessionTypeOK'
  <2>1. refresh'[tab] \in Refreshes
    BY <1>2, <1>3 DEF Refreshes
  <2>2. refresh' \in [Tabs -> Refreshes]
    BY <1>1, <1>t, <2>1
  <2>3. blacklist' \in SUBSET Tokens
    BY <1>1, <1>3, <1>t DEF SessionTypeOK
  <2> QED BY <1>1, <1>t, <2>2, <2>3 DEF SessionTypeOK
<1>5. ASSUME NEW other \in Tabs PROVE RefreshIsOwned(other)'
  <2>1. RefreshIsOwned(other)
    BY DEF SessionInv
  <2>2. refresh'[other].at = "none" <=> refresh[other].at = "none"
    <3>1. refresh[tab].at # "none" /\ refresh'[tab].at # "none"
      BY <1>1, <1>3
    <3>2. other # tab => refresh'[other] = refresh[other]
      BY <1>3
    <3> QED BY <3>1, <3>2
  <2> QED BY <1>1, <2>1, <2>2, OwnedKept
<1>6. ASSUME NEW other \in Tabs PROVE NewIsItsOwn(other)'
  <2>1. CASE other = tab
    <3>1. /\ refresh'[tab].new = NewToken /\ NewToken \notin blacklist'
          /\ NewToken # jarRefresh'
      BY <1>1, <1>2, <1>3, InUseHas
    <3>2. \A r \in Requests : request'[r].token # NewToken
      BY <1>1, <1>2, InUseHas
    <3>3. \A t \in Tabs : refresh'[t].token # NewToken
      BY <1>2, <1>3, InUseHas
    <3>4. \A t \in Tabs \ {tab} : refresh'[t].new # NewToken
      BY <1>2, <1>3, InUseHas
    <3> QED BY <2>1, <3>1, <3>2, <3>3, <3>4 DEF NewIsItsOwn
  <2>2. CASE other # tab
    <3> DEFINE Seen == Known(other) \cup {NewToken}
    <3>1. NewIsItsOwn(other)
      BY DEF SessionInv
    <3>2. refresh[other].at = "granted" => refresh[other].new \notin Seen
      BY <1>2, <1>t, <3>1, NewIsNotKnown, InUseHas
    <3>3. blacklist' \subseteq Seen /\ jarRefresh' \in Seen
      BY <1>1, KnownHas
    <3>4. \A r \in Requests : request'[r].token \in Seen
      BY <1>1, KnownHas
    <3>5. \A t \in Tabs : refresh'[t].token \in Seen
      BY <1>3, KnownHas
    <3>6. \A t \in Tabs \ {other} : refresh'[t].new \in Seen
      BY <1>3, KnownHas
    <3> HIDE DEF Seen
    <3> QED BY <1>3, <1>t, <2>2, <3>1, <3>2, <3>3, <3>4, <3>5, <3>6, NewKept
  <2> QED BY <2>1, <2>2
<1>7. JarIsUsable'
  BY <1>3 DEF JarIsUsable
<1> QED BY <1>4, <1>5, <1>6, <1>7 DEF SessionInv

\* The password is right.
LEMMA LoginStep ==
  ASSUME SessionInv, NEW r \in Requests, LoginSucceeds(r)
  PROVE  SessionInv'
<1> USE SessionAssumption
<1>1. /\ request[r].at \in {"sent", "resent"} /\ ~Tokens \subseteq InUse
      /\ jarRefresh' = NewToken /\ blacklist' = blacklist \cap InUse /\ jarAccess' = TRUE
      /\ request' = [request EXCEPT ![r] = At("ok")]
      /\ UNCHANGED <<isActive, lost, isRefreshing, pendingQueue, refresh>>
  BY DEF LoginSucceeds, InFlight
<1>t. SessionTypeOK /\ request \in [Requests -> Records] /\ TabOf[r] \in Tabs
  BY DEF SessionInv, SessionTypeOK, Records
<1>2. NewToken \in Tokens \ InUse
  BY <1>1, NewTokenIsUnused
<1>3. At("ok") \in Records /\ At("ok").at = "ok" /\ At("ok").token = NoToken
  BY AtShape DEF Stages
<1>4. \A q \in Requests : request'[q] = IF q = r THEN At("ok") ELSE request[q]
  BY <1>1, <1>t
<1>5. SessionTypeOK'
  <2>1. request' \in [Requests -> Records]
    BY <1>1, <1>3, <1>t
  <2>2. /\ auth' \in [Tabs -> {"loading", "in", "out"}]
        /\ page' \in [Tabs -> {"app", "login", "leaving"}]
    <3>1. /\ auth' = [auth EXCEPT ![TabOf[r]] = "in"]
          /\ page' = page \/ page' = [page EXCEPT ![TabOf[r]] = "app"]
      BY DEF LoginSucceeds
    <3> QED BY <1>t, <3>1 DEF SessionTypeOK
  <2>3. jarRefresh' \in Tokens \cup {NoToken} /\ blacklist' \in SUBSET Tokens
    BY <1>1, <1>2, <1>t DEF SessionTypeOK
  <2> QED BY <1>1, <1>t, <2>1, <2>2, <2>3 DEF SessionTypeOK, Records
<1>6. ASSUME NEW tab \in Tabs PROVE RefreshIsOwned(tab)' /\ NewIsItsOwn(tab)'
  <2>1. RefreshIsOwned(tab) /\ NewIsItsOwn(tab)
    BY DEF SessionInv
  <2>2. RefreshIsOwned(tab)'
    BY <1>1, <1>3, <1>4, <2>1, OwnedKept DEF In
  <2> DEFINE Seen == Known(tab) \cup {NewToken}
  <2>3. refresh[tab].at = "granted" => refresh[tab].new \notin Seen
    BY <1>2, <1>t, <2>1, NewIsNotKnown, InUseHas
  <2>4. blacklist' \subseteq Seen /\ jarRefresh' \in Seen
    BY <1>1, KnownHas
  <2>5. \A q \in Requests : request'[q].token \in Seen
    BY <1>3, <1>4, KnownHas
  <2>6. \A t \in Tabs : refresh'[t].token \in Seen
    BY <1>1, KnownHas
  <2>7. \A t \in Tabs \ {tab} : refresh'[t].new \in Seen
    BY <1>1, KnownHas
  <2> HIDE DEF Seen
  <2>8. NewIsItsOwn(tab)'
    BY <1>1, <1>t, <2>1, <2>3, <2>4, <2>5, <2>6, <2>7, NewKept
  <2> QED BY <2>2, <2>8
<1>7. JarIsUsable'
  BY <1>1, <1>2 DEF JarIsUsable
<1> QED BY <1>5, <1>6, <1>7 DEF SessionInv

\* A request joins the queue of a refresh, or starts one.
LEMMA QueueStep ==
  ASSUME SessionInv, NEW r \in Requests, Queue(r)
  PROVE  SessionInv'
<1> USE SessionAssumption DEF jar, server
<1> DEFINE tab == TabOf[r]
<1>1. /\ request[r].at \in {"sent", "resent"} /\ isRefreshing[tab]
      /\ request' = [request EXCEPT ![r] = At("queued")]
      /\ pendingQueue' = [pendingQueue EXCEPT ![tab] = pendingQueue[tab] \cup {r}]
      /\ UNCHANGED <<jarAccess, jarRefresh, blacklist, isActive, lost, page, auth, isRefreshing, refresh>>
  BY DEF Queue, Unauthorized, InFlight
<1>t. SessionTypeOK /\ request \in [Requests -> Records] /\ tab \in Tabs
  BY DEF SessionInv, SessionTypeOK, Records
<1>2. At("queued") \in Records /\ At("queued").at = "queued" /\ At("queued").token = NoToken
  BY AtShape DEF Stages
<1>3. \A q \in Requests : request'[q] = IF q = r THEN At("queued") ELSE request[q]
  BY <1>1, <1>t
<1>4. \A t \in Tabs : pendingQueue'[t] = IF t = tab THEN pendingQueue[t] \cup {r} ELSE pendingQueue[t]
  BY <1>1, <1>t DEF SessionTypeOK
<1> HIDE DEF tab
<1>5. SessionTypeOK'
  <2>1. request' \in [Requests -> Records] /\ pendingQueue' \in [Tabs -> SUBSET Requests]
    BY <1>1, <1>2, <1>t DEF SessionTypeOK
  <2> QED BY <1>1, <1>t, <2>1 DEF SessionTypeOK, Records
<1>6. ASSUME NEW t \in Tabs PROVE RefreshIsOwned(t)'
  <2>1. RefreshIsOwned(t)
    BY DEF SessionInv
  <2>2. CASE t = tab
    <3>1. In(t)' = In(t) /\ r \in In(t)
      BY <2>2 DEF In, tab
    <3>2. Owners(t)' = Owners(t)
      BY <1>1, <1>2, <1>3, <3>1 DEF Owners
    <3>3. {q \in In(t) : request'[q].at = "queued"} = {q \in In(t) : request[q].at = "queued"} \cup {r}
      BY <1>2, <1>3, <3>1 DEF In
    <3> QED BY <1>1, <1>4, <2>1, <2>2, <3>1, <3>2, <3>3 DEF RefreshIsOwned
  <2>3. CASE t # tab
    <3>1. \A q \in In(t) : request'[q] = request[q]
      BY <1>3, <2>3 DEF In, tab
    <3>2. pendingQueue'[t] = pendingQueue[t]
      BY <1>4, <2>3
    <3> QED BY <1>1, <2>1, <3>1, <3>2, OwnedKept
  <2> QED BY <2>2, <2>3
<1>7. ASSUME NEW t \in Tabs PROVE NewIsItsOwn(t)'
  <2>1. NewIsItsOwn(t)
    BY DEF SessionInv
  <2>2. refresh[t].at = "granted" => refresh[t].new \notin Known(t)
    BY <1>t, <2>1, NewIsNotKnown
  <2>3. blacklist' \subseteq Known(t) /\ jarRefresh' \in Known(t)
    BY <1>1, KnownHas
  <2>4. \A q \in Requests : request'[q].token \in Known(t)
    BY <1>2, <1>3, KnownHas
  <2>5. \A u \in Tabs : refresh'[u].token \in Known(t)
    BY <1>1, KnownHas
  <2>6. \A u \in Tabs \ {t} : refresh'[u].new \in Known(t)
    BY <1>1, KnownHas
  <2> QED BY <1>1, <1>t, <2>1, <2>2, <2>3, <2>4, <2>5, <2>6, NewKept
<1>8. JarIsUsable'
  BY <1>1, <1>3 DEF SessionInv, JarIsUsable
<1> QED BY <1>5, <1>6, <1>7, <1>8 DEF SessionInv

LEMMA StartRefreshStep ==
  ASSUME SessionInv, NEW r \in Requests, StartRefresh(r)
  PROVE  SessionInv'
<1> USE SessionAssumption DEF jar, server
<1> DEFINE tab == TabOf[r]
           call == [at |-> "sent", token |-> jarRefresh, new |-> NoToken]
<1>1. /\ request[r].at \in {"sent", "resent"} /\ ~isRefreshing[tab]
      /\ request' = [request EXCEPT ![r] = At("owner")]
      /\ isRefreshing' = [isRefreshing EXCEPT ![tab] = TRUE]
      /\ refresh' = [refresh EXCEPT ![tab] = call]
      /\ UNCHANGED <<jarAccess, jarRefresh, blacklist, isActive, lost, page, auth, pendingQueue>>
  BY DEF StartRefresh, Unauthorized, InFlight
<1>t. /\ SessionTypeOK /\ request \in [Requests -> Records] /\ tab \in Tabs
      /\ refresh \in [Tabs -> Refreshes] /\ isRefreshing \in [Tabs -> BOOLEAN]
  BY DEF SessionInv, SessionTypeOK, Records
<1>2. At("owner") \in Records /\ At("owner").at = "owner" /\ At("owner").token = NoToken
  BY AtShape DEF Stages
<1>3. \A q \in Requests : request'[q] = IF q = r THEN At("owner") ELSE request[q]
  BY <1>1, <1>t
<1>4. \A t \in Tabs : /\ t = tab => refresh'[t] = call /\ isRefreshing'[t]
                      /\ t # tab => refresh'[t] = refresh[t] /\ isRefreshing'[t] = isRefreshing[t]
  BY <1>1, <1>t
<1>c. /\ call \in Refreshes /\ call.at = "sent" /\ call.token = jarRefresh /\ call.new = NoToken
  BY <1>t DEF SessionTypeOK, Refreshes
<1> HIDE DEF tab, call
<1>5. SessionTypeOK'
  <2>1. /\ request' \in [Requests -> Records] /\ refresh' \in [Tabs -> Refreshes]
        /\ isRefreshing' \in [Tabs -> BOOLEAN]
    BY <1>1, <1>2, <1>c, <1>t
  <2> QED BY <1>1, <1>t, <2>1 DEF SessionTypeOK, Records
<1>6. ASSUME NEW t \in Tabs PROVE RefreshIsOwned(t)'
  <2>1. RefreshIsOwned(t)
    BY DEF SessionInv
  <2>2. CASE t = tab
    <3>1. In(t)' = In(t) /\ r \in In(t)
      BY <2>2 DEF In, tab
    <3>2. Owners(t)' = {r}
      BY <1>1, <1>2, <1>3, <2>1, <2>2, <3>1 DEF RefreshIsOwned, Owners, In
    <3>3. {q \in In(t) : request'[q].at = "queued"} = {q \in In(t) : request[q].at = "queued"}
      BY <1>1, <1>2, <1>3 DEF In
    <3>4. isRefreshing'[t] /\ refresh'[t].at # "none" /\ pendingQueue'[t] = pendingQueue[t]
      BY <1>1, <1>4, <1>c, <2>2
    <3>5. pendingQueue'[t] = {q \in In(t)' : request'[q].at = "queued"}
      BY <2>1, <3>1, <3>3, <3>4 DEF RefreshIsOwned
    <3> QED BY <3>1, <3>2, <3>4, <3>5 DEF RefreshIsOwned
  <2>3. CASE t # tab
    <3>1. \A q \in In(t) : request'[q] = request[q]
      BY <1>3, <2>3 DEF In, tab
    <3>2. refresh'[t] = refresh[t] /\ isRefreshing'[t] = isRefreshing[t] /\ pendingQueue'[t] = pendingQueue[t]
      BY <1>1, <1>4, <2>3
    <3> QED BY <2>1, <3>1, <3>2, OwnedKept
  <2> QED BY <2>2, <2>3
<1>7. ASSUME NEW t \in Tabs PROVE NewIsItsOwn(t)'
  <2>1. NewIsItsOwn(t)
    BY DEF SessionInv
  <2>2. CASE t = tab
    BY <1>4, <1>c, <2>2 DEF NewIsItsOwn
  <2>3. CASE t # tab
    <3>2. refresh[t].at = "granted" => refresh[t].new \notin Known(t)
      BY <1>t, <2>1, NewIsNotKnown
    <3>3. blacklist' \subseteq Known(t) /\ jarRefresh' \in Known(t)
      BY <1>1, KnownHas
    <3>4. \A q \in Requests : request'[q].token \in Known(t)
      BY <1>2, <1>3, KnownHas
    <3>5. \A u \in Tabs : refresh'[u].token \in Known(t)
      BY <1>4, <1>c, KnownHas
    <3>6. \A u \in Tabs \ {t} : refresh'[u].new \in Known(t)
      BY <1>4, <1>c, KnownHas
    <3>7. refresh'[t] = refresh[t]
      BY <1>4, <2>3
    <3> QED BY <1>t, <2>1, <3>2, <3>3, <3>4, <3>5, <3>6, <3>7, NewKept
  <2> QED BY <2>2, <2>3
<1>8. JarIsUsable'
  <2>1. refresh[tab].at = "none"
    BY <1>1, <1>t DEF SessionInv, RefreshIsOwned
  <2>2. \A t \in Tabs : refresh[t].at = "granted" => refresh'[t].at = "granted"
    BY <1>4, <2>1
  <2>3. \A q \in Requests : request[q].at = "served" => request'[q].at = "served"
    BY <1>1, <1>3
  <2> QED BY <1>1, <2>2, <2>3 DEF SessionInv, JarIsUsable
<1> QED BY <1>5, <1>6, <1>7, <1>8 DEF SessionInv

-----------------------------------------------------------------------------
\* A tab that stops refreshing with what failed gets nothing new.
LEMMA NewLeft ==
  ASSUME SessionInv, NEW tab \in Tabs, refresh' = [refresh EXCEPT ![tab] = NoRefresh],
         UNCHANGED <<jarRefresh, blacklist>>,
         \A q \in Requests : request'[q].token \in {request[q].token, NoToken}
  PROVE  \A t \in Tabs : NewIsItsOwn(t)'
<1>t. SessionTypeOK /\ refresh \in [Tabs -> Refreshes]
  BY DEF SessionInv, SessionTypeOK
<1>n. NoRefresh.at = "none" /\ NoRefresh.token = NoToken /\ NoRefresh.new = NoToken
  BY DEF NoRefresh
<1>1. \A t \in Tabs : /\ t = tab => refresh'[t] = NoRefresh
                      /\ t # tab => refresh'[t] = refresh[t]
  BY <1>t
<1> SUFFICES ASSUME NEW t \in Tabs PROVE NewIsItsOwn(t)'
  OBVIOUS
<1>2. NewIsItsOwn(t)
  BY DEF SessionInv
<1>3. CASE t = tab
  BY <1>1, <1>3, <1>n DEF NewIsItsOwn
<1>4. CASE t # tab
  <2>1. refresh'[t] = refresh[t]
    BY <1>1, <1>4
  <2>2. refresh[t].at = "granted" => refresh[t].new \notin Known(t)
    BY <1>t, <1>2, NewIsNotKnown
  <2>3. blacklist' \subseteq Known(t) /\ jarRefresh' \in Known(t)
    BY KnownHas
  <2>4. \A q \in Requests : request'[q].token \in Known(t)
    BY KnownHas
  <2>5. \A u \in Tabs : refresh'[u].token \in Known(t)
    BY <1>1, <1>n, KnownHas
  <2>6. \A u \in Tabs \ {t} : refresh'[u].new \in Known(t)
    BY <1>1, <1>n, KnownHas
  <2> QED BY <1>t, <1>2, <2>1, <2>2, <2>3, <2>4, <2>5, <2>6, NewKept
<1> QED BY <1>3, <1>4

LEMMA RefreshFailsStep ==
  ASSUME SessionInv, NEW tab \in Tabs, RefreshFails(tab)
  PROVE  SessionInv'
<1> USE SessionAssumption DEF jar, server
<1>1. /\ lost' = (lost \/ refresh[tab].at = "granted")
      /\ request' = FailedWith(Flushed(tab))
      /\ auth' = AuthAfter(tab, Flushed(tab))
      /\ page' = [page EXCEPT ![tab] = "leaving"]
      /\ pendingQueue' = [pendingQueue EXCEPT ![tab] = pendingQueue[tab] \ Flushed(tab)]
      /\ isRefreshing' = [isRefreshing EXCEPT ![tab] = FALSE]
      /\ refresh' = [refresh EXCEPT ![tab] = NoRefresh]
      /\ UNCHANGED <<jarAccess, jarRefresh, blacklist, isActive>>
  BY DEF RefreshFails
<1>t. /\ SessionTypeOK /\ request \in [Requests -> Records]
      /\ refresh \in [Tabs -> Refreshes] /\ isRefreshing \in [Tabs -> BOOLEAN]
      /\ pendingQueue \in [Tabs -> SUBSET Requests] /\ lost \in BOOLEAN
      /\ page \in [Tabs -> {"app", "login", "leaving"}]
  BY DEF SessionInv, SessionTypeOK, Records
<1>f. At("failed").at = "failed" /\ At("failed").token = NoToken
  BY AtShape DEF Stages
<1>2. /\ Flushed(tab) \in SUBSET Requests /\ Flushed(tab) \subseteq In(tab)
      /\ \A q \in In(tab) : request[q].at \in {"owner", "queued"} => q \in Flushed(tab)
      /\ \A q \in Flushed(tab) : request[q].at \in {"owner", "queued"}
      /\ pendingQueue[tab] \ Flushed(tab) = {}
  BY <1>t DEF SessionInv, RefreshIsOwned, Flushed, Owners, In
<1>3. /\ request' \in [Requests -> Records]
      /\ \A q \in Requests : q \in Flushed(tab) => request'[q] = At("failed")
      /\ \A q \in Requests : q \notin Flushed(tab) => request'[q] = request[q]
  BY <1>1, <1>2, <1>t, FailedShape
<1>4. SessionTypeOK'
  <2>1. NoRefresh \in Refreshes
    BY DEF NoRefresh, Refreshes
  <2>2. /\ refresh' \in [Tabs -> Refreshes] /\ isRefreshing' \in [Tabs -> BOOLEAN]
        /\ pendingQueue' \in [Tabs -> SUBSET Requests] /\ lost' \in BOOLEAN
        /\ page' \in [Tabs -> {"app", "login", "leaving"}]
    BY <1>1, <1>t, <2>1
  <2>3. auth' \in [Tabs -> {"loading", "in", "out"}]
    BY <1>1, <1>t, AfterShape
  <2> QED BY <1>1, <1>3, <1>t, <2>2, <2>3 DEF SessionTypeOK, Records
<1>5. ASSUME NEW t \in Tabs PROVE RefreshIsOwned(t)'
  <2>1. CASE t = tab
    <3>1. ~isRefreshing'[t] /\ pendingQueue'[t] = {} /\ refresh'[t].at = "none"
      BY <1>1, <1>2, <1>t, <2>1 DEF NoRefresh
    <3>2. \A q \in In(t) : request'[q].at \notin {"owner", "queued"}
      BY <1>2, <1>3, <1>f, <2>1 DEF In
    <3> QED BY <3>1, <3>2, OwnedEnds
  <2>2. CASE t # tab
    <3>1. /\ isRefreshing'[t] = isRefreshing[t] /\ pendingQueue'[t] = pendingQueue[t]
          /\ refresh'[t] = refresh[t]
      BY <1>1, <1>t, <2>2
    <3>2. \A q \in In(t) : request'[q] = request[q]
      BY <1>2, <1>3, <2>2 DEF In
    <3>3. RefreshIsOwned(t)
      BY DEF SessionInv
    <3> QED BY <3>1, <3>2, <3>3, OwnedKept
  <2> QED BY <2>1, <2>2
<1>6. \A t \in Tabs : NewIsItsOwn(t)'
  <2>1. \A q \in Requests : request'[q].token \in {request[q].token, NoToken}
    BY <1>3, <1>f
  <2> QED BY <1>1, <2>1, NewLeft
<1>7. JarIsUsable'
  <2>1. \A t \in Tabs : refresh[t].at = "granted" => refresh'[t].at = "granted" \/ lost'
    BY <1>1, <1>t
  <2>2. \A q \in Requests : request[q].at = "served" => request'[q].at = "served"
    BY <1>2, <1>3
  <2> QED BY <1>1, <2>1, <2>2 DEF SessionInv, JarIsUsable
<1> QED BY <1>4, <1>5, <1>6, <1>7 DEF SessionInv

LEMMA UnloadStep ==
  ASSUME SessionInv, NEW tab \in Tabs, Unload(tab)
  PROVE  SessionInv'
<1> USE SessionAssumption DEF jar, server
<1> DEFINE given == {r \in In(tab) : request[r].at \notin {"new", "ok", "failed"}}
<1>1. /\ lost' = (lost \/ refresh[tab].at = "granted" \/ \E r \in In(tab) : request[r].at = "served")
      /\ request' = FailedWith(given)
      /\ auth' = [auth EXCEPT ![tab] = "loading"]
      /\ page' = [page EXCEPT ![tab] = "login"]
      /\ pendingQueue' = [pendingQueue EXCEPT ![tab] = {}]
      /\ isRefreshing' = [isRefreshing EXCEPT ![tab] = FALSE]
      /\ refresh' = [refresh EXCEPT ![tab] = NoRefresh]
      /\ UNCHANGED <<jarAccess, jarRefresh, blacklist, isActive>>
  BY DEF Unload
<1>t. /\ SessionTypeOK /\ request \in [Requests -> Records]
      /\ refresh \in [Tabs -> Refreshes] /\ isRefreshing \in [Tabs -> BOOLEAN]
      /\ pendingQueue \in [Tabs -> SUBSET Requests] /\ lost \in BOOLEAN
      /\ page \in [Tabs -> {"app", "login", "leaving"}]
      /\ auth \in [Tabs -> {"loading", "in", "out"}]
  BY DEF SessionInv, SessionTypeOK, Records
<1>f. At("failed").at = "failed" /\ At("failed").token = NoToken
  BY AtShape DEF Stages
<1>2. given \in SUBSET Requests /\ given \subseteq In(tab)
  BY DEF In
<1>3. /\ request' \in [Requests -> Records]
      /\ \A q \in Requests : q \in given => request'[q] = At("failed")
      /\ \A q \in Requests : q \notin given => request'[q] = request[q]
  BY <1>1, <1>2, <1>t, FailedShape
<1>4. SessionTypeOK'
  <2>1. NoRefresh \in Refreshes
    BY DEF NoRefresh, Refreshes
  <2>2. /\ refresh' \in [Tabs -> Refreshes] /\ isRefreshing' \in [Tabs -> BOOLEAN]
        /\ pendingQueue' \in [Tabs -> SUBSET Requests]
        /\ page' \in [Tabs -> {"app", "login", "leaving"}]
        /\ auth' \in [Tabs -> {"loading", "in", "out"}]
    BY <1>1, <1>t, <2>1
  <2>3. lost' \in BOOLEAN
    BY <1>1, <1>t
  <2> QED BY <1>1, <1>3, <1>t, <2>2, <2>3 DEF SessionTypeOK, Records
<1>5. ASSUME NEW t \in Tabs PROVE RefreshIsOwned(t)'
  <2>1. CASE t = tab
    <3>1. ~isRefreshing'[t] /\ pendingQueue'[t] = {} /\ refresh'[t].at = "none"
      BY <1>1, <1>t, <2>1 DEF NoRefresh
    <3>2. \A q \in In(t) : request'[q].at \notin {"owner", "queued"}
      BY <1>3, <1>f, <2>1 DEF In
    <3> QED BY <3>1, <3>2, OwnedEnds
  <2>2. CASE t # tab
    <3>1. /\ isRefreshing'[t] = isRefreshing[t] /\ pendingQueue'[t] = pendingQueue[t]
          /\ refresh'[t] = refresh[t]
      BY <1>1, <1>t, <2>2
    <3>2. \A q \in In(t) : request'[q] = request[q]
      BY <1>2, <1>3, <2>2 DEF In
    <3>3. RefreshIsOwned(t)
      BY DEF SessionInv
    <3> QED BY <3>1, <3>2, <3>3, OwnedKept
  <2> QED BY <2>1, <2>2
<1>6. \A t \in Tabs : NewIsItsOwn(t)'
  <2>1. \A q \in Requests : request'[q].token \in {request[q].token, NoToken}
    BY <1>3, <1>f
  <2> QED BY <1>1, <2>1, NewLeft
<1>7. JarIsUsable'
  <2>1. \A t \in Tabs : refresh[t].at = "granted" => refresh'[t].at = "granted" \/ lost'
    BY <1>1, <1>t
  <2>2. \A q \in Requests : request[q].at = "served" => request'[q].at = "served" \/ lost'
    BY <1>1, <1>2, <1>3
  <2> QED BY <1>1, <2>1, <2>2 DEF SessionInv, JarIsUsable
<1> QED BY <1>4, <1>5, <1>6, <1>7 DEF SessionInv

LEMMA RefreshSucceedsStep ==
  ASSUME SessionInv, NEW tab \in Tabs, RefreshSucceeds(tab)
  PROVE  SessionInv'
<1> USE SessionAssumption DEF jar, server
<1> DEFINE new == refresh[tab].new
<1>1. /\ refresh[tab].at = "granted"
      /\ jarAccess' = TRUE /\ jarRefresh' = new
      /\ request' = [r \in Requests |->
                       IF r \in Owners(tab) THEN Posted(r, "resent", TRUE, new)
                       ELSE IF r \in pendingQueue[tab] THEN Posted(r, "sent", TRUE, new)
                       ELSE request[r]]
      /\ pendingQueue' = [pendingQueue EXCEPT ![tab] = {}]
      /\ isRefreshing' = [isRefreshing EXCEPT ![tab] = FALSE]
      /\ refresh' = [refresh EXCEPT ![tab] = NoRefresh]
      /\ UNCHANGED <<blacklist, isActive, lost, page, auth>>
  BY DEF RefreshSucceeds, RefreshCookie
<1>t. /\ SessionTypeOK /\ request \in [Requests -> Records]
      /\ refresh \in [Tabs -> Refreshes] /\ isRefreshing \in [Tabs -> BOOLEAN]
      /\ pendingQueue \in [Tabs -> SUBSET Requests]
      /\ RefreshIsOwned(tab) /\ NewIsItsOwn(tab)
  BY DEF SessionInv, SessionTypeOK, Records
<1>n. new \in Tokens /\ NoRefresh.at = "none" /\ NoRefresh.token = NoToken /\ NoRefresh.new = NoToken
  BY <1>1, <1>t, RefreshShape DEF NoRefresh
<1> HIDE DEF new
<1>2. \A r \in Requests :
        /\ Posted(r, "resent", TRUE, new) \in Records /\ Posted(r, "resent", TRUE, new).at = "resent"
        /\ Posted(r, "resent", TRUE, new).token \in {new, NoToken}
        /\ Posted(r, "sent", TRUE, new) \in Records /\ Posted(r, "sent", TRUE, new).at = "sent"
        /\ Posted(r, "sent", TRUE, new).token \in {new, NoToken}
  <2>1. "resent" \in Stages /\ "sent" \in Stages /\ TRUE \in BOOLEAN /\ new \in Tokens \cup {NoToken}
    BY <1>n DEF Stages
  <2>2. ASSUME NEW r \in Requests, NEW stage \in {"resent", "sent"}
        PROVE  /\ Posted(r, stage, TRUE, new) \in Records /\ Posted(r, stage, TRUE, new).at = stage
               /\ Posted(r, stage, TRUE, new).token \in {new, NoToken}
    <3>1. stage \in Stages
      BY <2>1
    <3> QED BY <2>1, <3>1, PostedShape
  <2> QED BY <2>2
<1>3. \A r \in Requests :
        /\ request'[r] \in Records
        /\ request'[r].token \in {request[r].token, new, NoToken}
        /\ r \in Owners(tab) \cup pendingQueue[tab] => request'[r].at \in {"sent", "resent"}
        /\ r \notin Owners(tab) \cup pendingQueue[tab] => request'[r] = request[r]
  BY <1>1, <1>2, <1>t
<1>o. /\ Owners(tab) \cup pendingQueue[tab] \subseteq In(tab)
      /\ \A r \in In(tab) : request[r].at \in {"owner", "queued"} <=> r \in Owners(tab) \cup pendingQueue[tab]
  BY <1>t DEF RefreshIsOwned, Owners, In
<1>4. SessionTypeOK'
  <2>1. NoRefresh \in Refreshes
    BY DEF NoRefresh, Refreshes
  <2>2. /\ refresh' \in [Tabs -> Refreshes] /\ isRefreshing' \in [Tabs -> BOOLEAN]
        /\ pendingQueue' \in [Tabs -> SUBSET Requests]
    BY <1>1, <1>t, <2>1
  <2>3. request' \in [Requests -> Records]
    BY <1>1, <1>3
  <2> QED BY <1>1, <1>n, <1>t, <2>2, <2>3 DEF SessionTypeOK, Records
<1>5. ASSUME NEW t \in Tabs PROVE RefreshIsOwned(t)'
  <2>1. CASE t = tab
    <3>1. ~isRefreshing'[t] /\ pendingQueue'[t] = {} /\ refresh'[t].at = "none"
      BY <1>1, <1>n, <1>t, <2>1
    <3>2. \A q \in In(t) : request'[q].at \notin {"owner", "queued"}
      BY <1>3, <1>o, <2>1 DEF In
    <3> QED BY <3>1, <3>2, OwnedEnds
  <2>2. CASE t # tab
    <3>1. /\ isRefreshing'[t] = isRefreshing[t] /\ pendingQueue'[t] = pendingQueue[t]
          /\ refresh'[t] = refresh[t]
      BY <1>1, <1>t, <2>2
    <3>2. \A q \in In(t) : request'[q] = request[q]
      BY <1>3, <1>o, <2>2 DEF In
    <3>3. RefreshIsOwned(t)
      BY DEF SessionInv
    <3> QED BY <3>1, <3>2, <3>3, OwnedKept
  <2> QED BY <2>1, <2>2
<1>6. ASSUME NEW t \in Tabs PROVE NewIsItsOwn(t)'
  <2>1. \A u \in Tabs : /\ u = tab => refresh'[u] = NoRefresh
                        /\ u # tab => refresh'[u] = refresh[u]
    BY <1>1, <1>t
  <2>2. CASE t = tab
    BY <1>n, <2>1, <2>2 DEF NewIsItsOwn
  <2>3. CASE t # tab
    <3>1. NewIsItsOwn(t) /\ refresh'[t] = refresh[t]
      BY <2>1, <2>3 DEF SessionInv
    <3>2. refresh[t].at = "granted" => refresh[t].new \notin Known(t)
      BY <1>t, <3>1, NewIsNotKnown
    <3>3. new \in Known(t)
      BY <2>3, KnownHas DEF new
    <3>4. blacklist' \subseteq Known(t) /\ jarRefresh' \in Known(t)
      BY <1>1, <3>3, KnownHas
    <3>5. \A q \in Requests : request'[q].token \in Known(t)
      BY <1>3, <3>3, KnownHas
    <3>6. \A u \in Tabs : refresh'[u].token \in Known(t)
      BY <1>n, <2>1, KnownHas
    <3>7. \A u \in Tabs \ {t} : refresh'[u].new \in Known(t)
      BY <1>n, <2>1, KnownHas
    <3> QED BY <1>t, <3>1, <3>2, <3>4, <3>5, <3>6, <3>7, NewKept
  <2> QED BY <2>2, <2>3
<1>7. JarIsUsable'
  BY <1>1, <1>t DEF JarIsUsable, NewIsItsOwn, new
<1> QED BY <1>4, <1>5, <1>6, <1>7 DEF SessionInv

-----------------------------------------------------------------------------
LEMMA SessionStep ==
  ASSUME SessionInv, SessionNext
  PROVE  SessionInv'
<1>1. CASE AccessExpires \/ Deactivate \/ \E tab \in Tabs : PushLogin(tab)
  BY <1>1, PageStep
<1>2. ASSUME NEW r \in Requests, Ask(r) \/ Settle(r) \/ ServeLogout(r) PROVE SessionInv'
  BY <1>2, RequestStep, QueueStep, StartRefreshStep, LoginStep DEF Settle
<1>3. ASSUME NEW tab \in Tabs, Refreshing(tab) \/ Unload(tab) PROVE SessionInv'
  BY <1>3, CheckTokenStep, RotateTokenStep, RefreshSucceedsStep, RefreshFailsStep, UnloadStep DEF Refreshing
<1> QED BY <1>1, <1>2, <1>3 DEF SessionNext

LEMMA SessionStutter ==
  ASSUME SessionInv, UNCHANGED sessionVars
  PROVE  SessionInv'
<1> USE DEF sessionVars, jar, server
<1>1. SessionTypeOK'
  BY DEF SessionInv, SessionTypeOK
<1>2. ASSUME NEW tab \in Tabs PROVE RefreshIsOwned(tab)' /\ NewIsItsOwn(tab)'
  <2>1. RefreshIsOwned(tab) /\ NewIsItsOwn(tab)
    BY DEF SessionInv
  <2>2. RefreshIsOwned(tab)'
    BY <2>1, OwnedKept
  <2> QED BY <2>1, <2>2 DEF NewIsItsOwn
<1>3. JarIsUsable'
  BY DEF SessionInv, JarIsUsable
<1> QED BY <1>1, <1>2, <1>3 DEF SessionInv

LEMMA SessionInductive == SessionSpec => []SessionInv
<1>1. SessionInv /\ [SessionNext]_sessionVars => SessionInv'
  BY SessionStep, SessionStutter
<1> QED BY SessionStart, <1>1, PTL DEF SessionSpec

\* The browser's and the server's state keep their shape, and only a token can
\* be found good and be replaced.
THEOREM SessionTypeCorrect == SessionSpec => []SessionTypeOK
<1>1. SessionInv => SessionTypeOK
  BY DEF SessionInv
<1> QED BY <1>1, SessionInductive, PTL

\* For any numbers of tabs and requests, a request waits only for a refresh that
\* exactly one request of its tab has started and that is not over.
THEOREM NobodyWaitsForNothing == SessionSpec => []NobodyIsStranded
<1>1. ASSUME SessionInv PROVE NobodyIsStranded
  <2>1. ASSUME NEW tab \in Tabs
        PROVE  /\ isRefreshing[tab] <=> refresh[tab].at # "none"
               /\ isRefreshing[tab] <=> Cardinality(Owners(tab)) = 1
               /\ pendingQueue[tab] = {r \in In(tab) : request[r].at = "queued"}
               /\ pendingQueue[tab] # {} => isRefreshing[tab]
    <3>1. RefreshIsOwned(tab) /\ isRefreshing[tab] \in BOOLEAN
      BY <1>1 DEF SessionInv, SessionTypeOK
    <3>2. isRefreshing[tab] => Cardinality(Owners(tab)) = 1
      BY <3>1, FS_Singleton DEF RefreshIsOwned
    <3>3. ~isRefreshing[tab] => Cardinality(Owners(tab)) # 1
      BY <3>1, FS_EmptySet DEF RefreshIsOwned
    <3> QED BY <3>1, <3>2, <3>3 DEF RefreshIsOwned
  <2> QED BY <2>1 DEF NobodyIsStranded
<1> QED BY <1>1, SessionInductive, PTL

\* Whatever refreshes, logins and logouts race in however many tabs, the refresh
\* cookie is good unless the answer that changes it is on its way or was lost.
THEOREM JarStaysUsable == SessionSpec => []JarIsUsable
<1>1. SessionInv => JarIsUsable
  BY DEF SessionInv
<1> QED BY <1>1, SessionInductive, PTL
=============================================================================
