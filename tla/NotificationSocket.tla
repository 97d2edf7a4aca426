------------------------- MODULE NotificationSocket -------------------------
(***************************************************************************)
(* useWebSocket, the hook that keeps the notifications of a terminal or of *)
(* the dashboard flowing: it opens a socket, opens another one when that   *)
(* is closed, and gives up after some tries.  The server and the network   *)
(* close sockets as they like.                                             *)
(***************************************************************************)
EXTENDS Integers, FiniteSets

CONSTANTS
  Sockets,           \* bound: sockets that are not closed at once
  NoSocket,
  MAX_RETRIES

ASSUME NotificationSocketAssumption ==
  /\ NoSocket \notin Sockets
  /\ MAX_RETRIES \in Nat

VARIABLES
  hook,              \* the effect has not run yet, has run, or was cleaned up
  mountedRef,
  wsRef,
  retriesRef,
  timer,             \* the timeout of timerRef is pending
  socket,            \* readyState
  accessCookie,      \* the cookie that the consumer authenticates by is good
  missed             \* sockets closed since the last one that got open

hookRefs == <<mountedRef, wsRef, retriesRef, timer>>
socketVars == <<hook, hookRefs, socket, accessCookie, missed>>

\* The shape of the hook's references and of the sockets.
SocketTypeOK ==
  /\ hook \in {"new", "running", "cleaned"}
  /\ mountedRef \in BOOLEAN
  /\ wsRef \in Sockets \cup {NoSocket}
  /\ retriesRef \in 0..MAX_RETRIES
  /\ timer \in BOOLEAN
  /\ socket \in [Sockets -> {"connecting", "open", "closing", "closed"}]
  /\ accessCookie \in BOOLEAN
  /\ missed \in 0..(MAX_RETRIES + 1)

SocketInit ==
  /\ hook = "new"
  /\ mountedRef = FALSE
  /\ wsRef = NoSocket
  /\ retriesRef = 0
  /\ timer = FALSE
  /\ socket = [s \in Sockets |-> "closed"]
  /\ accessCookie \in BOOLEAN
  /\ missed = 0

-----------------------------------------------------------------------------
\* connect: a new socket, unless the component is gone.
connect ==
  IF mountedRef'
    THEN \E s \in Sockets : /\ socket[s] = "closed"
                            /\ socket' = [socket EXCEPT ![s] = "connecting"]
                            /\ wsRef' = s
    ELSE UNCHANGED <<socket, wsRef>>

\* The effect, once the hook is enabled.  A mounted component enables it once:
\* who logs out leaves for another document.
RunEffect ==
  /\ hook = "new"
  /\ hook' = "running"
  /\ mountedRef' = TRUE
  /\ connect
  /\ UNCHANGED <<retriesRef, timer, accessCookie, missed>>

\* FAULT: the socket is not closed.
Dropped_Never(s) == FALSE

\* wsRef.current?.close(); on a socket that is closed it does nothing.
Dropped(s) == s = wsRef /\ socket[s] # "closed"

\* The cleanup: the hook is disabled, or the component leaves the screen.
CleanUp ==
  /\ hook = "running"
  /\ hook' = "cleaned"
  /\ mountedRef' = FALSE
  /\ timer' = FALSE
  /\ socket' = [s \in Sockets |-> IF Dropped(s) THEN "closing" ELSE socket[s]]
  /\ UNCHANGED <<wsRef, retriesRef, accessCookie, missed>>

\* FAULT: the tries are counted over the whole life of the page.
RetriesAfterOpen_Kept == retriesRef

\* onopen
RetriesAfterOpen == 0

\* NotificationConsumer.connect accepts, by the cookie.
Open(s) ==
  /\ socket[s] = "connecting"
  /\ accessCookie
  /\ socket' = [socket EXCEPT ![s] = "open"]
  /\ retriesRef' = RetriesAfterOpen
  /\ missed' = 0
  /\ UNCHANGED <<hook, mountedRef, wsRef, timer, accessCookie>>

\* The consumer refuses (4001), the network fails, the server stops, or the
\* browser has finished closing: onclose, which plans another try.
Close(s) ==
  /\ socket[s] # "closed"
  /\ socket' = [socket EXCEPT ![s] = "closed"]
  /\ IF mountedRef /\ retriesRef < MAX_RETRIES
       THEN retriesRef' = retriesRef + 1 /\ timer' = TRUE
       ELSE UNCHANGED <<retriesRef, timer>>
  /\ missed' = IF mountedRef THEN missed + 1 ELSE missed
  /\ UNCHANGED <<hook, mountedRef, wsRef, accessCookie>>

\* The timeout is over.
Retry ==
  /\ timer
  /\ timer' = FALSE
  /\ mountedRef' = mountedRef
  /\ connect
  /\ UNCHANGED <<hook, retriesRef, accessCookie, missed>>

\* The cookie lives 15 minutes; only a request that is refused with 401 gets
\* another one, the hook never does.
CookieChanges ==
  /\ accessCookie' = ~accessCookie
  /\ UNCHANGED <<hook, hookRefs, socket, missed>>

SocketNext ==
  \/ RunEffect \/ CleanUp \/ Retry \/ CookieChanges
  \/ \E s \in Sockets : Open(s) \/ Close(s)

SocketSpec == SocketInit /\ [][SocketNext]_socketVars

-----------------------------------------------------------------------------
(* Properties.                                                             *)

Live == {s \in Sockets : socket[s] \in {"connecting", "open"}}

\* At most one socket, or the timeout that will open one, is there: no event is
\* shown twice.  Once the hook is cleaned up there is neither: nobody who is
\* logged out is told anything.
OneLine ==
  /\ Live \subseteq {wsRef}
  /\ timer => Live = {}
  /\ hook # "running" => Live = {} /\ ~timer

\* The hook goes deaf, with neither a socket nor a timeout, only after the first
\* socket and MAX_RETRIES more have been closed and none of them got open.
DeafAfterRetries == hook = "running" /\ Live = {} /\ ~timer => missed = MAX_RETRIES + 1

-----------------------------------------------------------------------------
(* What makes the properties inductive.                                    *)

\* While the hook runs, it has a socket, or a timeout, or has used up its tries;
\* until it opens, each socket that is closed costs one.
Running ==
  /\ \A s \in Sockets : socket[s] # "closing" /\ (socket[s] # "closed" => s = wsRef)
  /\ timer => wsRef \notin Live
  /\ missed = IF wsRef \in Live \/ timer THEN retriesRef ELSE MAX_RETRIES + 1

SocketInv ==
  /\ SocketTypeOK
  /\ mountedRef <=> hook = "running"
  /\ hook = "new" => missed = 0 /\ retriesRef = 0 /\ \A s \in Sockets : socket[s] = "closed"
  /\ hook = "running" => Running
  /\ hook # "running" => ~timer /\ Live = {}
=============================================================================
