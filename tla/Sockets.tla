-------------------------------- MODULE Sockets --------------------------------
(***************************************************************************)
(* The web socket by which a signed-in page hears of login requests, and   *)
(* by which a page that waits for an approval hears of it: the store of    *)
(* ave-web/src/lib/surfaces/web/stores/websocket.ts, its callers in        *)
(* stores/auth.ts and LoginWaiting.svelte, and the registry of             *)
(* ave-server/src/lib/websocket.ts.                                        *)
(*                                                                         *)
(* The two ends of a socket learn of its end at different times, and a     *)
(* connection may break at any time.  The store has one socket, one        *)
(* interval for pings and one timer, but a socket that it replaced or      *)
(* closed still has its handlers.                                          *)
(*                                                                         *)
(* Abstracted: the session goes along as the cookie (the token of an older *)
(* page is treated alike), and no other page of the browser signs in.      *)
(* What an approval does is in LoginApproval.                              *)
(***************************************************************************)
EXTENDS Naturals, FiniteSets

CONSTANTS
  Accounts,
  Sockets,      \* the sockets that are there at one time
  None

VARIABLES
  cookie,       \* the account of the browser's session
  store,        \* the page: the account it shows as signed in
  waiting,      \* LoginWaiting is mounted
  ws, config, timer, ping, connected,   \* the store of the page
  state,        \* readyState of each socket; CONNECTING is "connecting" and, once
                \* the server has accepted, "accepted"; a closed one is named anew
  kind,         \* what it is for
  server,       \* the server's end of each
  who,          \* the account whose cookie it brought
  reading,      \* sockets whose session the server is reading
  clients,      \* connectedClients
  subscriber,   \* loginRequestSubscribers: of one request
  doubled,      \* history: the page connected while it was connecting
  crossed       \* history: it connected while another socket was not closed

pageVars == <<store, waiting, ws, config, timer, ping, connected>>
serverVars == <<server, who, reading, clients, subscriber>>
historyVars == <<doubled, crossed>>
vars == <<cookie, pageVars, state, kind, serverVars, historyVars>>

TypeOK ==
  /\ cookie \in Accounts \cup {None} /\ store \in Accounts \cup {None} /\ waiting \in BOOLEAN
  /\ ws \in Sockets \cup {None} /\ config \in BOOLEAN /\ timer \in BOOLEAN
  /\ ping \in BOOLEAN /\ connected \in BOOLEAN
  /\ state \in [Sockets -> {"closed", "connecting", "accepted", "open", "closing"}]
  /\ kind \in [Sockets -> {"user", "request", None}]
  /\ server \in [Sockets -> {"none", "up", "refused"}]
  /\ who \in [Sockets -> Accounts \cup {None}]
  /\ reading \subseteq Sockets /\ clients \in [Accounts -> SUBSET Sockets]
  /\ subscriber \in Sockets \cup {None}
  /\ doubled \in BOOLEAN /\ crossed \in BOOLEAN

Init ==
  /\ cookie \in Accounts \cup {None} /\ store = None /\ waiting = FALSE
  /\ ws = None /\ config = FALSE /\ timer = FALSE /\ ping = FALSE /\ connected = FALSE
  /\ state = [s \in Sockets |-> "closed"] /\ kind = [s \in Sockets |-> None]
  /\ server = [s \in Sockets |-> "none"] /\ who = [s \in Sockets |-> None]
  /\ reading = {} /\ clients = [a \in Accounts |-> {}] /\ subscriber = None
  /\ doubled = FALSE /\ crossed = FALSE

Registered(s) == s = subscriber \/ \E a \in Accounts : s \in clients[a]
Unused == {s \in Sockets : state[s] = "closed" /\ server[s] = "none" /\ s \notin reading /\ ~Registered(s) /\ s # ws}

IsOpen == ws # None /\ state[ws] = "open"

-----------------------------------------------------------------------------
(* The store.                                                              *)

\* connect: nothing while the socket is open, even if it is for something else.
Connect(k, again) ==
  IF IsOpen
    THEN UNCHANGED <<ws, config, state, kind, historyVars>>
    ELSE \E s \in Unused :
           /\ ws' = s /\ config' = again
           /\ state' = [state EXCEPT ![s] = "connecting"]
           /\ kind' = [kind EXCEPT ![s] = k]
           /\ doubled' = (doubled \/ \E t \in Sockets : state[t] \in {"connecting", "accepted", "open"})
           /\ crossed' = (crossed \/ \E t \in Sockets : state[t] # "closed")

DisconnectBug ==
  /\ timer' = FALSE /\ ping' = FALSE /\ connected' = FALSE
  /\ ws' = None /\ UNCHANGED config
  /\ state' = IF ws # None /\ state[ws] # "closed" THEN [state EXCEPT ![ws] = "closing"] ELSE state

\* disconnect: the close of the socket comes later.
Disconnect ==
  /\ timer' = FALSE /\ config' = FALSE /\ ping' = FALSE /\ connected' = FALSE
  /\ ws' = None
  /\ state' = IF ws # None /\ state[ws] # "closed" THEN [state EXCEPT ![ws] = "closing"] ELSE state

\* onopen.
Opened(s) ==
  /\ state[s] = "accepted"
  /\ state' = [state EXCEPT ![s] = "open"]
  /\ connected' = TRUE /\ ping' = TRUE
  /\ UNCHANGED <<cookie, store, waiting, ws, config, timer, kind, serverVars, historyVars>>

\* onclose, of this or an earlier socket; it may fail or break at any time.
Closed(s) ==
  /\ state[s] # "closed"
  /\ state' = [state EXCEPT ![s] = "closed"]
  /\ connected' = FALSE /\ ping' = FALSE
  /\ timer' = (timer \/ config)
  /\ UNCHANGED <<cookie, store, waiting, ws, config, kind, serverVars, historyVars>>

\* Five seconds pass.
Reconnect ==
  /\ timer
  /\ timer' = FALSE
  /\ Connect("user", TRUE)
  /\ UNCHANGED <<cookie, store, waiting, ping, connected, serverVars>>

-----------------------------------------------------------------------------
(* Its callers.                                                            *)

\* auth.init of a page that finds a session.
SignedIn ==
  /\ store = None /\ cookie # None
  /\ store' = cookie
  /\ Connect("user", TRUE)
  /\ UNCHANGED <<cookie, waiting, timer, ping, connected, serverVars>>

\* auth.init that finds none.
SignedOut ==
  /\ store = None /\ cookie = None
  /\ Disconnect
  /\ UNCHANGED <<cookie, store, waiting, kind, serverVars, historyVars>>

\* auth.login, which LoginWaiting calls too.
Login(a) ==
  /\ store = None
  /\ cookie' = a /\ store' = a
  /\ Connect("user", TRUE)
  /\ UNCHANGED <<waiting, timer, ping, connected, serverVars>>

\* auth.logout.
Logout ==
  /\ store # None
  /\ cookie' = None /\ store' = None
  /\ Disconnect
  /\ UNCHANGED <<waiting, kind, serverVars, historyVars>>

\* LoginWaiting: onMount, onDestroy.
Mount ==
  /\ ~waiting
  /\ waiting' = TRUE
  /\ Connect("request", FALSE)
  /\ UNCHANGED <<cookie, store, timer, ping, connected, serverVars>>

Unmount ==
  /\ waiting
  /\ waiting' = FALSE
  /\ Disconnect
  /\ UNCHANGED <<cookie, store, kind, serverVars, historyVars>>

\* The session is ended on another device, or runs out; the page is loaded anew.
SessionEnds ==
  /\ cookie # None
  /\ cookie' = None
  /\ UNCHANGED <<pageVars, state, kind, serverVars, historyVars>>

Reload ==
  /\ store' = None /\ waiting' = FALSE
  /\ ws' = None /\ config' = FALSE /\ timer' = FALSE /\ ping' = FALSE /\ connected' = FALSE
  /\ state' = [s \in Sockets |-> "closed"] /\ kind' = [s \in Sockets |-> None]
  /\ doubled' = FALSE /\ crossed' = FALSE
  /\ UNCHANGED <<cookie, serverVars>>

-----------------------------------------------------------------------------
(* The server.                                                             *)

\* createWebSocketResponse, and handleWebSocketOpen to its first await.
Accept(s) ==
  /\ state[s] = "connecting"
  /\ state' = [state EXCEPT ![s] = "accepted"]
  /\ who' = [who EXCEPT ![s] = cookie]
  /\ server' = [server EXCEPT ![s] = IF kind[s] = "user" /\ cookie = None THEN "refused" ELSE "up"]
  /\ IF kind[s] = "request"
       THEN subscriber' = s /\ UNCHANGED reading
       ELSE reading' = reading \cup (IF cookie = None THEN {} ELSE {s}) /\ UNCHANGED subscriber
  /\ UNCHANGED <<cookie, pageVars, kind, clients, historyVars>>

\* The session has been read: the socket is added, though it may be gone by
\* now; or the session is not valid.
Admit(s) ==
  /\ s \in reading
  /\ reading' = reading \ {s}
  /\ IF cookie = who[s]
       THEN clients' = [clients EXCEPT ![who[s]] = @ \cup {s}] /\ UNCHANGED server
       ELSE /\ server' = [server EXCEPT ![s] = IF @ = "up" THEN "refused" ELSE @]
            /\ UNCHANGED clients
  /\ UNCHANGED <<cookie, pageVars, state, kind, who, subscriber, historyVars>>

\* The read fails: the socket is closed.
AdmitFails(s) ==
  /\ s \in reading
  /\ reading' = reading \ {s}
  /\ server' = [server EXCEPT ![s] = IF @ = "up" THEN "refused" ELSE @]
  /\ UNCHANGED <<cookie, pageVars, state, kind, who, clients, subscriber, historyVars>>

\* handleWebSocketClose.
ServerCloses(s) ==
  /\ server[s] # "none"
  /\ server' = [server EXCEPT ![s] = "none"]
  /\ clients' = [a \in Accounts |-> clients[a] \ {s}]
  /\ subscriber' = IF subscriber = s THEN None ELSE subscriber
  /\ UNCHANGED <<cookie, pageVars, state, kind, who, reading, historyVars>>

\* notifyLoginRequestStatus.
NotifyStatus ==
  /\ subscriber # None
  /\ subscriber' = None
  /\ UNCHANGED <<cookie, pageVars, state, kind, server, who, reading, clients, historyVars>>

\* The server starts again: its maps are empty.
Restart ==
  /\ server' = [s \in Sockets |-> "none"] /\ reading' = {}
  /\ clients' = [a \in Accounts |-> {}] /\ subscriber' = None
  /\ UNCHANGED <<cookie, pageVars, state, kind, who, historyVars>>

Next ==
  \/ \E s \in Sockets : Opened(s) \/ Closed(s) \/ Accept(s) \/ Admit(s) \/ AdmitFails(s) \/ ServerCloses(s)
  \/ \E a \in Accounts : Login(a)
  \/ Reconnect \/ SignedIn \/ SignedOut \/ Logout \/ Mount \/ Unmount \/ SessionEnds \/ Reload
  \/ NotifyStatus \/ Restart

Spec == Init /\ [][Next]_vars

-----------------------------------------------------------------------------
(* Properties.                                                             *)

\* notifyLoginRequest: the sockets of a page that show a request for account a.
Hears(a) == {s \in clients[a] : server[s] = "up" /\ state[s] = "open"}

\* A page that is to listen has a socket or a timer to make one; the registry
\* has whatever socket is up and has been read; a page whose connections did
\* not overlap hears only of the account that it shows, and once, and, if its
\* socket is open, knows that and keeps it alive.
PageListens ==
  /\ config => timer \/ (ws # None /\ state[ws] \in {"connecting", "accepted", "open"} /\ kind[ws] = "user")
  /\ \A s \in Sockets : server[s] = "up" /\ who[s] # None /\ s \notin reading /\ kind[s] = "user" =>
                          s \in clients[who[s]]
  /\ ~doubled => \A a \in Accounts : Hears(a) \subseteq (IF a = store THEN {ws} ELSE {})
  /\ ~crossed /\ IsOpen => connected /\ ping
=============================================================================
