------------------------------ MODULE Connectors ----------------------------
(***************************************************************************)
(* A user's delegation of one resource to one application:                 *)
(*   ave-web .../routes/web/connect/+page.svelte                           *)
(*   ave-server/src/routes/oauth/authorize.ts 393-466 (the connector part) *)
(*   ave-server/src/routes/oauth/token-exchange.ts, account.ts (revoke)    *)
(*   ave-server/src/routes/apps.ts (the resource), db/schema.ts            *)
(*                                                                         *)
(* A connection reads the active grant and then inserts one or updates     *)
(* the one it read, by id: there is no unique index, so that several       *)
(* active grants of one application are possible.  A grant bears the name  *)
(* of the connection that inserted it.                                     *)
(*                                                                         *)
(* Abstracted: the authorization that surrounds a connection is            *)
(* Authorizations; the subject token of an exchange is valid.              *)
(***************************************************************************)
EXTENDS FiniteSets

CONSTANTS
  Connections,  \* openings of the connect page, each run once
  Exchanges,    \* token exchanges, each run once
  Scopes,       \* the scopes of the resource
  None          \* no grant

VARIABLES
  offered,   \* scopes of the resource, {} when it is disabled
  grant,     \* rows: none, active or revoked
  scope,     \* their scopes
  pc, ask,   \* each connection: next step, the scopes it asks for
  row, old,  \* the grant it has read, and that grant's scopes
  xpc, want, \* each exchange: next step, the scopes it asks for
  token,     \* the grant each exchange's token names
  consented, \* history: per grant, the scopes whose connection wrote to it
  late,      \* history: grants revoked before an exchange began
  disturbed  \* history: connections that met another write to the grants

gVars == <<grant, scope>>
connectVars == <<pc, ask, row, old>>
exchangeVars == <<xpc, want, token>>
historyVars == <<consented, late, disturbed>>
vars == <<offered, gVars, connectVars, exchangeVars, historyVars>>

MaybeGrant == Connections \cup {None}

TypeOK ==
  /\ offered \subseteq Scopes
  /\ grant \in [Connections -> {"none", "active", "revoked"}]
  /\ scope \in [Connections -> SUBSET Scopes]
  /\ pc \in [Connections -> {"idle", "resource", "grant", "insert", "update", "done", "stopped"}]
  /\ ask \in [Connections -> SUBSET Scopes]
  /\ row \in [Connections -> MaybeGrant]
  /\ old \in [Connections -> SUBSET Scopes]
  /\ xpc \in [Exchanges -> {"idle", "grant", "done", "refused"}]
  /\ want \in [Exchanges -> SUBSET Scopes]
  /\ token \in [Exchanges -> MaybeGrant]
  /\ consented \in [Connections -> SUBSET Scopes]
  /\ late \in [Exchanges -> SUBSET Connections]
  /\ disturbed \subseteq Connections

Init ==
  /\ offered = Scopes
  /\ grant = [k \in Connections |-> "none"]
  /\ scope = [k \in Connections |-> {}]
  /\ pc = [k \in Connections |-> "idle"]
  /\ ask = [k \in Connections |-> {}]
  /\ row = [k \in Connections |-> None]
  /\ old = [k \in Connections |-> {}]
  /\ xpc = [x \in Exchanges |-> "idle"]
  /\ want = [x \in Exchanges |-> {}]
  /\ token = [x \in Exchanges |-> None]
  /\ consented = [k \in Connections |-> {}]
  /\ late = [x \in Exchanges |-> {}]
  /\ disturbed = {}

\* The lookup of authorize.ts and of the exchange: isNull(revokedAt).
Active == {g \in Connections : grant[g] = "active"}

\* Connections between their first read and their end.
Deciding == {k \in Connections : pc[k] \in {"resource", "grant", "insert", "update"}}

\* The developer changes the resource's scopes or disables it.
Offer ==
  /\ offered' \in (SUBSET Scopes) \ {offered}
  /\ UNCHANGED <<gVars, connectVars, exchangeVars, historyVars>>

-----------------------------------------------------------------------------
(* Connecting.                                                             *)

\* init and pickScope: what the application asks for, if the resource offers it.
Open(k) ==
  /\ pc[k] = "idle"
  /\ \E s \in (SUBSET offered) \ {{}} : ask' = [ask EXCEPT ![k] = s]
  /\ pc' = [pc EXCEPT ![k] = "resource"]
  /\ UNCHANGED <<offered, gVars, row, old, exchangeVars, historyVars>>

\* POST /authorize with connector: the resource is read again.
ReadResource(k) ==
  /\ pc[k] = "resource"
  /\ pc' = [pc EXCEPT ![k] = IF ask[k] \subseteq offered THEN "grant" ELSE "stopped"]
  /\ UNCHANGED <<offered, gVars, ask, row, old, exchangeVars, historyVars>>

ReadGrant(k) ==
  /\ pc[k] = "grant"
  /\ \/ \E g \in Active : /\ row' = [row EXCEPT ![k] = g]
                          /\ old' = [old EXCEPT ![k] = scope[g]]
                          /\ pc' = [pc EXCEPT ![k] = "update"]
     \/ /\ Active = {}
        /\ pc' = [pc EXCEPT ![k] = "insert"]
        /\ UNCHANGED <<row, old>>
  /\ UNCHANGED <<offered, gVars, ask, exchangeVars, historyVars>>

InsertGrant(k) ==
  /\ pc[k] = "insert"
  /\ grant' = [grant EXCEPT ![k] = "active"]
  /\ scope' = [scope EXCEPT ![k] = ask[k]]
  /\ consented' = [consented EXCEPT ![k] = @ \cup ask[k]]
  /\ disturbed' = disturbed \cup (Deciding \ {k})
                    \cup (IF Deciding # {k} THEN {k} ELSE {})
  /\ pc' = [pc EXCEPT ![k] = "done"]
  /\ UNCHANGED <<offered, ask, row, old, exchangeVars, late>>

MergedBug(before, asked) == asked

\* mergedScope.
Merged(before, asked) == before \cup asked

\* The update by id, which a revocation in between does not stop.
UpdateGrant(k) ==
  /\ pc[k] = "update"
  /\ scope' = [scope EXCEPT ![row[k]] = Merged(old[k], ask[k])]
  /\ consented' = [consented EXCEPT ![row[k]] = @ \cup ask[k]]
  /\ disturbed' = disturbed \cup (Deciding \ {k})
                    \cup (IF Deciding # {k} THEN {k} ELSE {})
  /\ pc' = [pc EXCEPT ![k] = "done"]
  /\ UNCHANGED <<offered, grant, ask, row, old, exchangeVars, late>>

Stop(k) ==
  /\ k \in Deciding
  /\ pc' = [pc EXCEPT ![k] = "stopped"]
  /\ UNCHANGED <<offered, gVars, ask, row, old, exchangeVars, historyVars>>

\* DELETE /delegations/:delegationId of an active grant, by id.
Revoke(g) ==
  /\ grant[g] = "active"
  /\ grant' = [grant EXCEPT ![g] = "revoked"]
  /\ disturbed' = disturbed \cup Deciding \cup {k \in Connections : pc[k] = "done" /\ g \in {k, row[k]}}
  /\ UNCHANGED <<offered, scope, connectVars, exchangeVars, consented, late>>

-----------------------------------------------------------------------------
(* handleTokenExchange.                                                    *)

\* The resource, and the scopes against what it offers.
ExchangeResource(x) ==
  /\ xpc[x] = "idle"
  /\ \E s \in (SUBSET offered) \ {{}} : want' = [want EXCEPT ![x] = s]
  /\ late' = [late EXCEPT ![x] = {g \in Connections : grant[g] = "revoked"}]
  /\ xpc' = [xpc EXCEPT ![x] = "grant"]
  /\ UNCHANGED <<offered, gVars, connectVars, token, consented, disturbed>>

WithinBug(wanted, granted) == TRUE

\* hasAllScopes.
Within(wanted, granted) == wanted \subseteq granted

\* The grant, and the token signed from it.
ExchangeGrant(x) ==
  /\ xpc[x] = "grant"
  /\ \/ \E g \in Active :
          /\ Within(want[x], scope[g])
          /\ token' = [token EXCEPT ![x] = g]
          /\ xpc' = [xpc EXCEPT ![x] = "done"]
     \/ /\ Active = {} \/ \E g \in Active : ~Within(want[x], scope[g])
        /\ xpc' = [xpc EXCEPT ![x] = "refused"]
        /\ UNCHANGED token
  /\ UNCHANGED <<offered, gVars, connectVars, want, historyVars>>

-----------------------------------------------------------------------------
ConnectStep(k) ==
  \/ Open(k) \/ ReadResource(k) \/ ReadGrant(k) \/ InsertGrant(k)
  \/ UpdateGrant(k) \/ Stop(k) \/ Revoke(k)

Next ==
  \/ Offer
  \/ \E k \in Connections : ConnectStep(k)
  \/ \E x \in Exchanges : ExchangeResource(x) \/ ExchangeGrant(x)

Spec == Init /\ [][Next]_vars

-----------------------------------------------------------------------------
(* Properties.                                                             *)

\* A delegated token carries scopes the user has connected on the very grant
\* it names, and that grant was not yet revoked when the exchange began
\* ("After revocation, exchangeDelegatedToken fails for that grant",
\* sdk-connector.mdx:191): scopes of a revoked grant do not come back with the
\* next one, whatever is read, merged and written in between.
DelegatedWithinConsent ==
  \A x \in Exchanges : token[x] # None =>
    /\ want[x] \subseteq consented[token[x]]
    /\ token[x] \notin late[x]

\* A connection that nobody overlapped, and whose grant is not revoked, stands:
\* an active grant has all it asked for, with or without those made since.
LoneConnectionStands ==
  \A k \in Connections : pc[k] = "done" /\ k \notin disturbed =>
    \E g \in Active : ask[k] \subseteq scope[g]
=============================================================================
