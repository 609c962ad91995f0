---------------------------- MODULE SsoConnections ----------------------------
(***************************************************************************)
(* Enterprise single sign-on of one organization:                          *)
(*   ave-server/src/routes/business-sso.ts   domains, connections, OIDC    *)
(*   ave-server/src/routes/business-saml.ts  SAML                          *)
(*   ave-server/src/lib/business-sso-login.ts  accounts made at a login    *)
(*   ave-server/src/routes/organizations.ts  PATCH, the organization's row *)
(*                                                                         *)
(* A domain is proved by a DNS lookup between two statements, or entered   *)
(* by an administrator in the list of the organization; a connection       *)
(* becomes active by a test run of its own sign-in, and a sign-in leaves   *)
(* for the provider and comes back to a connection that may have changed.  *)
(* There is one address in each domain; an account made by a sign-in bears *)
(* that sign-in's name.                                                    *)
(*                                                                         *)
(* Abstracted: access checks, signed actions and the verification of what  *)
(* the provider says only refuse; the membership is OrganizationMembers.   *)
(***************************************************************************)
EXTENDS FiniteSets

CONSTANTS
  Domains,
  Connections,
  Verifications,  \* POST /domains/:domainId/verify, each run once
  Updates,        \* PATCH /organizations/:organizationId, each run once
  Patches,        \* PATCH /sso-connections/:connectionId, each run once
  Logins,         \* sign-ins or tests by the provider, each run once
  None            \* no domain, no status, nobody

VARIABLES
  record,    \* organization_domain_verifications: none, pending or verified
  verified,  \* organizations.verified_domains
  conn,      \* organization_sso_connections: [kind, status, domain]
  vpc, vdom, vold,    \* each verification: next step, domain, list it has read
  upc, ulist, \* each update: next step, list it has read
  ppc, pconn, pold, pask,  \* each patch: next step, connection, row, changes
  lpc, lconn, lmode, lrow, ldom, \* each sign-in: next step, connection, mode, row, domain
  account,   \* the account each sign-in uses
  there,     \* accounts that exist
  holder,    \* the address's domain of each account
  session,   \* sign-ins with a session
  tested, proved,   \* history: connections and domains that passed
  entered,   \* history: domains an administrator has put on the list
  leftOut,   \* history: proved domains the last such list was without
  crossed    \* history: two writers of the list, or two sign-ins, overlapped

recordVars == <<record, verified, conn>>
verifyVars == <<vpc, vdom, vold>>
updateVars == <<upc, ulist, entered, leftOut>>
patchVars == <<ppc, pconn, pold, pask>>
loginVars == <<lpc, lconn, lmode, lrow, ldom>>
accountVars == <<account, there, holder, session>>
historyVars == <<tested, proved, crossed>>
vars == <<recordVars, verifyVars, updateVars, patchVars, loginVars, accountVars, historyVars>>

MaybeDomain == Domains \cup {None}
Row == [kind : {"oidc", "saml"}, status : {"none", "inactive", "active"}, domain : MaybeDomain]
NoRow == [kind |-> "oidc", status |-> "none", domain |-> None]

TypeOK ==
  /\ record \in [Domains -> {"none", "pending", "verified"}]
  /\ verified \subseteq Domains
  /\ conn \in [Connections -> Row]
  /\ vpc \in [Verifications -> {"idle", "lookup", "verify", "list", "done"}]
  /\ vdom \in [Verifications -> MaybeDomain] /\ vold \in [Verifications -> SUBSET Domains]
  /\ upc \in [Updates -> {"idle", "write", "done"}]
  /\ ulist \in [Updates -> SUBSET Domains]
  /\ ppc \in [Patches -> {"idle", "write", "done"}]
  /\ pconn \in [Patches -> Connections \cup {None}] /\ pold \in [Patches -> Row]
  /\ pask \in [Patches -> [status : {"inactive", None}, domain : MaybeDomain]]
  /\ lpc \in [Logins -> {"idle", "away", "answer", "back", "test", "find", "user", "identity", "member",
                         "undo", "session", "done"}]
  /\ lconn \in [Logins -> Connections \cup {None}] /\ lmode \in [Logins -> {"login", "test", None}]
  /\ lrow \in [Logins -> Row] /\ ldom \in [Logins -> MaybeDomain]
  /\ account \in [Logins -> Logins \cup {None}]
  /\ there \subseteq Logins /\ session \subseteq Logins
  /\ holder \in [Logins -> MaybeDomain]
  /\ tested \subseteq Connections /\ proved \subseteq Domains /\ crossed \in BOOLEAN
  /\ entered \subseteq Domains /\ leftOut \subseteq Domains

Init ==
  /\ record = [d \in Domains |-> "none"] /\ verified = {}
  /\ conn = [c \in Connections |-> NoRow]
  /\ vpc = [v \in Verifications |-> "idle"]
  /\ vdom = [v \in Verifications |-> None] /\ vold = [v \in Verifications |-> {}]
  /\ upc = [u \in Updates |-> "idle"]
  /\ ulist = [u \in Updates |-> {}]
  /\ ppc = [p \in Patches |-> "idle"]
  /\ pconn = [p \in Patches |-> None] /\ pold = [p \in Patches |-> NoRow]
  /\ pask = [p \in Patches |-> [status |-> None, domain |-> None]]
  /\ lpc = [l \in Logins |-> "idle"]
  /\ lconn = [l \in Logins |-> None] /\ lmode = [l \in Logins |-> None]
  /\ lrow = [l \in Logins |-> NoRow] /\ ldom = [l \in Logins |-> None]
  /\ account = [l \in Logins |-> None]
  /\ there = {} /\ session = {}
  /\ holder = [l \in Logins |-> None]
  /\ tested = {} /\ proved = {} /\ entered = {} /\ leftOut = {} /\ crossed = FALSE

\* What a request has read goes with it.
EndVerification(v) ==
  /\ vpc' = [vpc EXCEPT ![v] = "done"]
  /\ vdom' = [vdom EXCEPT ![v] = None]
  /\ vold' = [vold EXCEPT ![v] = {}]

ContinueLogin(l, next) ==
  /\ lpc' = [lpc EXCEPT ![l] = next]
  /\ UNCHANGED <<lconn, lmode, lrow, ldom, account>>

EndLogin(l) ==
  /\ lpc' = [lpc EXCEPT ![l] = "done"]
  /\ lconn' = [lconn EXCEPT ![l] = None]
  /\ lmode' = [lmode EXCEPT ![l] = None]
  /\ lrow' = [lrow EXCEPT ![l] = NoRow]
  /\ ldom' = [ldom EXCEPT ![l] = None]
  /\ account' = [account EXCEPT ![l] = None]

Lists == {v \in Verifications : vpc[v] \in {"lookup", "verify", "list"}}
Rewrites == {u \in Updates : upc[u] = "write"}
Resolves == {l \in Logins : lpc[l] \in {"find", "user", "identity", "member", "undo"}}

-----------------------------------------------------------------------------
(* Domains.                                                                *)

\* POST /domains: a new token, and the record is pending (again); the list of
\* the organization is left alone.
Claim(d) ==
  /\ record[d] # "pending"
  /\ record' = [record EXCEPT ![d] = "pending"]
  /\ UNCHANGED <<verified, conn, verifyVars, updateVars, patchVars, loginVars, accountVars, historyVars>>

\* POST /domains/:domainId/verify reads the organization and the record ...
ReadDomain(v) ==
  /\ vpc[v] = "idle"
  /\ \E d \in Domains : record[d] # "none" /\ vdom' = [vdom EXCEPT ![v] = d]
  /\ vold' = [vold EXCEPT ![v] = verified]
  /\ vpc' = [vpc EXCEPT ![v] = "lookup"]
  /\ crossed' = (crossed \/ Lists # {} \/ Rewrites # {})
  /\ UNCHANGED <<recordVars, updateVars, patchVars, loginVars, accountVars, tested, proved>>

\* ... asks DNS ...
LookUp(v) ==
  /\ vpc[v] = "lookup"
  /\ \/ /\ vpc' = [vpc EXCEPT ![v] = "verify"]
        /\ proved' = proved \cup {vdom[v]}
        /\ UNCHANGED <<vdom, vold>>
     \/ EndVerification(v) /\ UNCHANGED proved
  /\ UNCHANGED <<recordVars, updateVars, patchVars, loginVars, accountVars, tested, crossed>>

\* ... and writes the record ...
WriteRecord(v) ==
  /\ vpc[v] = "verify"
  /\ record' = [record EXCEPT ![vdom[v]] = "verified"]
  /\ vpc' = [vpc EXCEPT ![v] = "list"]
  /\ UNCHANGED <<verified, conn, vdom, vold, updateVars, patchVars, loginVars, accountVars, historyVars>>

ListedBug(old, d) == {d}

Listed(old, d) == old \cup {d}

\* ... and the list it has read, with the domain.
WriteList(v) ==
  /\ vpc[v] = "list"
  /\ verified' = Listed(vold[v], vdom[v])
  /\ leftOut' = leftOut \ {vdom[v]}
  /\ EndVerification(v)
  /\ UNCHANGED <<record, conn, upc, ulist, entered, patchVars, loginVars, accountVars, historyVars>>

\* The worker dies between the two: the record is verified and the list short.
Die(v) ==
  /\ v \in Lists
  /\ EndVerification(v)
  /\ crossed' = (crossed \/ vpc[v] # "lookup")
  /\ UNCHANGED <<recordVars, updateVars, patchVars, loginVars, accountVars, tested, proved>>

-----------------------------------------------------------------------------
(* The organization's row.                                                 *)

\* PATCH /organizations/:organizationId reads the row with the membership ...
ReadOrganization(u) ==
  /\ upc[u] = "idle"
  /\ ulist' = [ulist EXCEPT ![u] = verified]
  /\ upc' = [upc EXCEPT ![u] = "write"]
  /\ crossed' = (crossed \/ Lists # {} \/ Rewrites # {})
  /\ UNCHANGED <<recordVars, verifyVars, entered, leftOut, patchVars, loginVars, accountVars, tested, proved>>

\* ... and writes it: a name or a logo is written with the list it has read.
WriteOrganization(u) ==
  /\ upc[u] = "write"
  /\ verified' = ulist[u]
  /\ upc' = [upc EXCEPT ![u] = "done"]
  /\ ulist' = [ulist EXCEPT ![u] = {}]
  /\ UNCHANGED <<record, conn, verifyVars, entered, leftOut, patchVars, loginVars, accountVars, historyVars>>

\* The same request given a list writes that one, with no word from DNS; it has
\* no use for the list it has read.
EnterDomains(u, given) ==
  /\ upc[u] = "idle"
  /\ verified' = given
  /\ entered' = entered \cup given
  /\ leftOut' = proved \ given
  /\ upc' = [upc EXCEPT ![u] = "done"]
  /\ crossed' = (crossed \/ Lists # {} \/ Rewrites # {})
  /\ UNCHANGED <<record, conn, verifyVars, ulist, patchVars, loginVars, accountVars, tested, proved>>

-----------------------------------------------------------------------------
(* Connections.                                                            *)

\* "Verify this domain before attaching SSO": the list is asked, and it may hold
\* a domain that was entered by hand.
Attachable(d) == d = None \/ d \in verified

\* POST /sso-connections.
Create(c) ==
  /\ conn[c].status = "none"
  /\ \E k \in {"oidc", "saml"}, d \in MaybeDomain :
       /\ Attachable(d)
       /\ conn' = [conn EXCEPT ![c] = [kind |-> k, status |-> "inactive", domain |-> d]]
  /\ UNCHANGED <<record, verified, verifyVars, updateVars, patchVars, loginVars, accountVars, historyVars>>

\* PATCH /sso-connections/:connectionId: any status but active.  Nothing tells
\* the others, draft and disabled, apart.
ReadConnection(p) ==
  /\ ppc[p] = "idle"
  /\ \E c \in Connections, s \in {"inactive", None}, d \in MaybeDomain :
       /\ conn[c].status # "none" /\ Attachable(d)
       /\ pconn' = [pconn EXCEPT ![p] = c]
       /\ pold' = [pold EXCEPT ![p] = conn[c]]
       /\ pask' = [pask EXCEPT ![p] = [status |-> s, domain |-> d]]
  /\ ppc' = [ppc EXCEPT ![p] = "write"]
  /\ UNCHANGED <<recordVars, verifyVars, updateVars, loginVars, accountVars, historyVars>>

Or(a, b) == IF a # None THEN a ELSE b

\* Every column: what is asked for, or else what was read.
WriteConnection(p) ==
  /\ ppc[p] = "write"
  /\ conn' = [conn EXCEPT ![pconn[p]].status = Or(pask[p].status, pold[p].status),
                          ![pconn[p]].domain = Or(pask[p].domain, pold[p].domain)]
  /\ ppc' = [ppc EXCEPT ![p] = "done"]
  /\ pconn' = [pconn EXCEPT ![p] = None]
  /\ pold' = [pold EXCEPT ![p] = NoRow]
  /\ pask' = [pask EXCEPT ![p] = [status |-> None, domain |-> None]]
  /\ UNCHANGED <<record, verified, verifyVars, updateVars, loginVars, accountVars, historyVars>>

-----------------------------------------------------------------------------
(* Signing in.                                                             *)

StartableBug(row, mode) == row.status # "none"

\* "connection is not active".
Startable(row, mode) == row.status # "none" /\ (mode = "login" => row.status = "active")

\* GET /start: the state is stored and the browser leaves.
Start(l) ==
  /\ lpc[l] = "idle"
  /\ \E c \in Connections, m \in {"login", "test"} :
       /\ Startable(conn[c], m)
       /\ lconn' = [lconn EXCEPT ![l] = c]
       /\ lmode' = [lmode EXCEPT ![l] = m]
  /\ lpc' = [lpc EXCEPT ![l] = "away"]
  /\ UNCHANGED <<recordVars, verifyVars, updateVars, patchVars, lrow, ldom, accountVars, historyVars>>

\* A SAML provider may send a user who has not started here: no state.
Arrive(l) ==
  /\ lpc[l] = "idle"
  /\ \E c \in Connections : conn[c].kind = "saml" /\ conn[c].status # "none"
                            /\ lconn' = [lconn EXCEPT ![l] = c]
  /\ lpc' = [lpc EXCEPT ![l] = "away"]
  /\ UNCHANGED <<recordVars, verifyVars, updateVars, patchVars, lmode, lrow, ldom, accountVars, historyVars>>

\* The callback takes the state, which works once, and reads the connection.
Return(l) ==
  /\ lpc[l] = "away"
  /\ lrow' = [lrow EXCEPT ![l] = conn[lconn[l]]]
  /\ lpc' = [lpc EXCEPT ![l] = "answer"]
  /\ UNCHANGED <<recordVars, verifyVars, updateVars, patchVars, lconn, lmode, ldom, accountVars, historyVars>>

\* What the provider says of the user, or a refusal to believe it.
Believe(l) ==
  /\ \/ /\ \E d \in Domains : ldom' = [ldom EXCEPT ![l] = d]
        /\ lpc' = [lpc EXCEPT ![l] = "back"]
        /\ UNCHANGED <<lconn, lmode, lrow, account>>
     \/ EndLogin(l)
  /\ UNCHANGED <<recordVars, verifyVars, updateVars, patchVars, there, holder, session, historyVars>>

\* The ID token, fetched and verified with the keys the connection points to.
VerifyOidcIdToken(l) == lpc[l] = "answer" /\ lrow[l].kind = "oidc" /\ Believe(l)

\* The posted assertion, verified with the connection's certificate.
ValidateSamlResponse(l) == lpc[l] = "answer" /\ lrow[l].kind = "saml" /\ Believe(l)

\* A test, or a sign-in; SAML asks once more whether the connection is active.
Decide(l) ==
  LET row == lrow[l]
      test == lmode[l] = "test" \/ (lmode[l] = None /\ row.status # "active")
      refused == \/ row.domain # None /\ ldom[l] # row.domain
                 \/ ~test /\ row.kind = "saml" /\ row.status # "active"
  IN  /\ lpc[l] = "back"
      /\ \/ refused /\ EndLogin(l) /\ UNCHANGED crossed
         \/ /\ ~refused
            /\ lpc' = [lpc EXCEPT ![l] = IF test THEN "test" ELSE "find"]
            /\ crossed' = (crossed \/ (~test /\ Resolves # {}))
            /\ lmode' = [lmode EXCEPT ![l] = None]
            /\ UNCHANGED <<lconn, lrow, ldom, account>>
      /\ UNCHANGED <<recordVars, verifyVars, updateVars, patchVars, there, holder, session, tested, proved>>

\* recordSsoConnectionTest activates the connection by id.
RecordTest(l) ==
  /\ lpc[l] = "test"
  /\ conn' = [conn EXCEPT ![lconn[l]].status = "active"]
  /\ tested' = tested \cup {lconn[l]}
  /\ EndLogin(l)
  /\ UNCHANGED <<record, verified, verifyVars, updateVars, patchVars, there, holder, session, proved, crossed>>

\* resolveEnterpriseIdentity: an account with the address, or a new one.
FindAccount(l) ==
  LET found == {a \in there : holder[a] = ldom[l]}
  IN  /\ lpc[l] = "find"
      /\ \/ \E a \in found : /\ account' = [account EXCEPT ![l] = a]
                             /\ lpc' = [lpc EXCEPT ![l] = "member"]
         \/ /\ found = {}
            /\ lpc' = [lpc EXCEPT ![l] = "user"]
            /\ UNCHANGED account
      /\ UNCHANGED <<recordVars, verifyVars, updateVars, patchVars, lconn, lmode, lrow, ldom, there, holder, session, historyVars>>

InsertUser(l) ==
  /\ lpc[l] = "user"
  /\ there' = there \cup {l}
  /\ account' = [account EXCEPT ![l] = l]
  /\ lpc' = [lpc EXCEPT ![l] = "identity"]
  /\ UNCHANGED <<recordVars, verifyVars, updateVars, patchVars, lconn, lmode, lrow, ldom, holder, session, historyVars>>

\* With the address; another handle is tried while one is taken.
InsertIdentity(l) ==
  /\ lpc[l] = "identity"
  /\ holder' = [holder EXCEPT ![l] = ldom[l]]
  /\ lpc' = [lpc EXCEPT ![l] = "member"]
  /\ UNCHANGED <<recordVars, verifyVars, updateVars, patchVars, lconn, lmode, lrow, ldom, account, there, session, historyVars>>

\* ensureOrganizationMembership; or it fails, as the insert above may.
Join(l) ==
  /\ lpc[l] \in {"identity", "member"}
  /\ \/ lpc[l] = "member" /\ account[l] \in there /\ ContinueLogin(l, "session")
     \/ account[l] = l /\ ContinueLogin(l, "undo")
     \/ account[l] # l /\ EndLogin(l)
  /\ UNCHANGED <<recordVars, verifyVars, updateVars, patchVars, there, holder, session, historyVars>>

\* Deleting a user takes its sessions along.
Removed(l) == {m \in session : account[m] # l}

\* The account made for this sign-in is deleted again.
Undo(l) ==
  /\ lpc[l] = "undo"
  /\ there' = there \ {l}
  /\ session' = Removed(l)
  /\ holder' = [holder EXCEPT ![l] = None]
  /\ EndLogin(l)
  /\ UNCHANGED <<recordVars, verifyVars, updateVars, patchVars, historyVars>>

\* Device and session, refused by the foreign key when the user is gone.
InsertSession(l) ==
  /\ lpc[l] = "session"
  /\ IF account[l] \in there
     THEN session' = session \cup {l} /\ ContinueLogin(l, "done")
     ELSE EndLogin(l) /\ UNCHANGED session
  /\ UNCHANGED <<recordVars, verifyVars, updateVars, patchVars, there, holder, historyVars>>

-----------------------------------------------------------------------------
Next ==
  \/ \E d \in Domains : Claim(d)
  \/ \E v \in Verifications : ReadDomain(v) \/ LookUp(v) \/ WriteRecord(v) \/ WriteList(v) \/ Die(v)
  \/ \E u \in Updates : ReadOrganization(u) \/ WriteOrganization(u)
                         \/ \E given \in SUBSET Domains : EnterDomains(u, given)
  \/ \E c \in Connections : Create(c)
  \/ \E p \in Patches : ReadConnection(p) \/ WriteConnection(p)
  \/ \E l \in Logins :
       \/ Start(l) \/ Arrive(l) \/ Return(l) \/ VerifyOidcIdToken(l)
       \/ ValidateSamlResponse(l) \/ Decide(l) \/ RecordTest(l) \/ FindAccount(l)
       \/ InsertUser(l) \/ InsertIdentity(l) \/ Join(l) \/ Undo(l) \/ InsertSession(l)

Spec == Init /\ [][Next]_vars

-----------------------------------------------------------------------------
(* Properties.                                                             *)

\* Domains that DNS has proved or an administrator has entered.
Vouched == proved \cup entered

\* Who is signed in by a provider came over a connection that has passed a
\* test, has an account that is there, with the address the provider gave, and,
\* if the connection was tied to a domain when the user came back, an address
\* in a domain that DNS has proved or an administrator has entered: whatever is
\* edited, tested, listed and verified while the user is away.  That DNS has
\* proved it cannot be said (AttachedDomainsProved).
SsoLoginGrounded ==
  \A l \in session :
    /\ lconn[l] \in tested
    /\ account[l] \in there /\ holder[account[l]] = ldom[l]
    /\ lrow[l].domain # None => ldom[l] = lrow[l].domain /\ ldom[l] \in Vouched

\* Requests that do not overlap lose nothing: the organization's list has
\* every domain whose verification has ended well, unless an administrator has
\* since written a list without it, and one address has one account.
LoneRequestsKeep ==
  ~crossed =>
    /\ \A d \in proved : d \in verified \cup leftOut \/ \E v \in Lists : vdom[v] = d
    /\ \A a, b \in there : holder[a] = holder[b] /\ holder[a] # None => a = b

\* "Verify this domain before attaching SSO" (business-sso.ts:298, 381): it is
\* not so, as a domain that was entered by hand can be attached.
AttachedDomainsProved == \A c \in Connections : conn[c].domain \in proved \cup {None}
=============================================================================
