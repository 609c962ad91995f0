------------------------------- MODULE MCAccess -------------------------------
(* Authorizations, Connectors, SsoConnections, EmbedHost and BrowserSignIn   *)
(* side by side on small instances: they share no state, and the first state *)
(* chooses one of them.                                                      *)
EXTENDS Authorizations, FiniteSets, TLC

CONSTANTS
  Connections, Exchanges, Scopes, Domains, SsoConnectionIds, Verifications,
  Updates, Patches, Logins, Surfaces, Kinds, Codes, Windows, Posted, Tabs, Starts,
  Finishes

VARIABLES
  part,
  offered, grant, scope, connectPc, ask, connectRow, old, xpc, connectWant,
  token, consented, late, disturbed,
  record, verified, conn, vpc, vdom, vold, upc, ulist, ppc, pconn, pold,
  pask, lpc, lconn, lmode, lrow, ldom, account, there, holder, session, tested,
  proved, entered, leftOut, crossed,
  kind, frame, window, handle, listening, resolved, closing, polling, queue,
  hostCode, exchanging, decided, results, got, told,
  step, made, entry, browserOld, returnTo, going, at, browserCode, fin,
  identity, monitor, signedIn, asked, browserCrossed

connectorVars ==
  <<offered, grant, scope, connectPc, ask, connectRow, old, xpc,
    connectWant, token, consented, late, disturbed>>
ssoVars ==
  <<record, verified, conn, vpc, vdom, vold, upc, ulist, ppc, pconn,
    pold, pask, lpc, lconn, lmode, lrow, ldom, account, there, holder, session,
    tested, proved, entered, leftOut, crossed>>
hostPageVars ==
  <<kind, frame, window, handle, listening, resolved, closing, polling,
    queue, hostCode, exchanging, decided, results, got, told>>
browserVars ==
  <<step, made, entry, browserOld, returnTo, going, at, browserCode, fin,
    identity, monitor, signedIn, asked, browserCrossed>>

C == INSTANCE Connectors WITH
       pc <- connectPc, row <- connectRow, want <- connectWant
S == INSTANCE SsoConnections WITH
       Connections <- SsoConnectionIds
H == INSTANCE EmbedHost WITH
       code <- hostCode
B == INSTANCE BrowserSignIn WITH
       old <- browserOld, code <- browserCode, crossed <- browserCrossed

\* Nothing is no connection of a user, and neither a domain, a connection, a
\* sign-in nor a mode of one; no start and no flow of the browser.
ASSUME ConnectorsAssumption == None \notin Connections

ASSUME SsoAssumption ==
  None \notin Domains \cup SsoConnectionIds \cup Logins \cup {"login", "test"}

\* The functions that open a surface are those of embed.js, and the bounds are
\* numbers.
ASSUME HostAssumption ==
  /\ Kinds \subseteq H!Framed \cup {"popup", "connectorPopup", "signingPopup"}
  /\ None \notin H!Framed \cup {"popup", "connectorPopup", "signingPopup"}
  /\ Codes \in Nat /\ Windows \in Nat

ASSUME BrowserAssumption == None \notin Starts \cup B!Protocols

SomeWants == [mode : {"symmetric", "none"}, reset : BOOLEAN]
  \cup {[mode |-> "asymmetric", reset |-> FALSE]}

\* The browser's tabs, starts and finishes and the host's surfaces are named by
\* the values of Domains, Verifications and Logins, which permutes them along.
Symmetry == Permutations(Domains) \cup Permutations(Verifications) \cup Permutations(Logins)

\* Bound: no step is taken once five requests of the organization have begun.
FourRequests ==
  part = "enterprise" =>
    Cardinality({v \in Verifications : vpc[v] # "idle"} \cup {u \in Updates : upc[u] # "idle"}
      \cup {p \in Patches : ppc[p] # "idle"} \cup {l \in Logins : lpc[l] # "idle"}) <= 4

\* The variables of the parts that do not run stay None.
ConnectorIdle ==
  /\ offered = None /\ grant = None /\ scope = None /\ connectPc = None
  /\ ask = None /\ connectRow = None /\ old = None /\ xpc = None
  /\ connectWant = None /\ token = None /\ consented = None /\ late = None
  /\ disturbed = None

SsoIdle ==
  /\ record = None /\ verified = None /\ conn = None /\ vpc = None
  /\ vdom = None /\ vold = None /\ upc = None /\ ulist = None
  /\ entered = None /\ leftOut = None /\ ppc = None /\ pconn = None /\ pold = None
  /\ pask = None /\ lpc = None /\ lconn = None /\ lmode = None
  /\ lrow = None /\ ldom = None /\ account = None /\ there = None
  /\ holder = None /\ session = None /\ tested = None /\ proved = None
  /\ crossed = None

HostPageIdle ==
  /\ kind = None /\ frame = None /\ window = None /\ handle = None
  /\ listening = None /\ resolved = None /\ closing = None /\ polling = None
  /\ queue = None /\ hostCode = None /\ exchanging = None /\ decided = None
  /\ results = None /\ got = None /\ told = None

BrowserIdle ==
  /\ step = None /\ made = None /\ entry = None /\ browserOld = None
  /\ returnTo = None /\ going = None /\ at = None /\ browserCode = None
  /\ fin = None /\ identity = None /\ monitor = None /\ signedIn = None
  /\ asked = None /\ browserCrossed = None

MCInit ==
  /\ part \in {"authorization", "connection", "enterprise", "host", "browser"}
  /\ Init
  /\ IF part = "connection" THEN C!Init ELSE ConnectorIdle
  /\ IF part = "enterprise" THEN S!Init ELSE SsoIdle
  /\ IF part = "host" THEN H!Init ELSE HostPageIdle
  /\ IF part = "browser" THEN B!Init ELSE BrowserIdle

MCNext ==
  /\ UNCHANGED part
  /\ \/ part = "authorization" /\ Next
        /\ UNCHANGED <<connectorVars, ssoVars, hostPageVars, browserVars>>
     \/ part = "connection" /\ C!Next
        /\ UNCHANGED <<vars, ssoVars, hostPageVars, browserVars>>
     \/ part = "enterprise" /\ S!Next
        /\ UNCHANGED <<vars, connectorVars, hostPageVars, browserVars>>
     \/ part = "host" /\ H!Next
        /\ UNCHANGED <<vars, connectorVars, ssoVars, browserVars>>
     \/ part = "browser" /\ B!Next
        /\ UNCHANGED <<vars, connectorVars, ssoVars, hostPageVars>>

mcVars ==
  <<part, vars, connectorVars, ssoVars, hostPageVars, browserVars>>

MCSpec == MCInit /\ [][MCNext]_mcVars

\* Each part keeps to the types of its tables, pages and handlers.
TypesOK ==
  /\ part = "authorization" => TypeOK
  /\ part = "connection" => C!TypeOK
  /\ part = "enterprise" => S!TypeOK
  /\ part = "host" => H!TypeOK
  /\ part = "browser" => B!TypeOK

\* A delegated token stays within what was connected on its grant.
DelegatedWithinConsent == part = "connection" => C!DelegatedWithinConsent

\* Who a provider has signed in came by a tested connection, to an account
\* that is there, from a domain that was proved or entered.
SsoLoginGrounded == part = "enterprise" => S!SsoLoginGrounded

\* "Verify this domain before attaching SSO" (business-sso.ts:298): violated
\* under MCAccessUnproved.cfg.
AttachedDomainsProved == part = "enterprise" => S!AttachedDomainsProved

\* An application that opened a surface hears of it in the end.
SomebodyIsTold == part = "host" => H!SomebodyIsTold

\* The browser SDKs call the application back once for what it asked, and with
\* its own answer, which they exchange with the verifier it was asked for with.
CalledBackOnce ==
  /\ part = "host" => H!OneOwnAnswer
  /\ part = "browser" => B!MonitorAsksOnce
  /\ part = "browser" => B!OwnVerifier

\* What nobody overlapped stands: a connection, the domains and accounts of an
\* organization, the bundle of a start in its tab.
LoneRequestsKeep ==
  /\ part = "connection" => C!LoneConnectionStands
  /\ part = "enterprise" => S!LoneRequestsKeep
  /\ part = "browser" => B!LoneStartKeepsBundle
==============================================================================
