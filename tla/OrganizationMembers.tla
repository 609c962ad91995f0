------------------------ MODULE OrganizationMembers ------------------------
(***************************************************************************)
(* Membership of one organization:                                         *)
(*   ave-server/src/routes/business.ts       add, patch, remove an identity*)
(*   ave-server/src/routes/organizations.ts  the workspace routes on the   *)
(*                                           same rows: invite, set a role *)
(*   ave-server/src/lib/business-sso-login.ts  membership at an SSO login  *)
(*   ave-server/src/lib/business.ts          access and role rules         *)
(*                                                                         *)
(* Every handler reads the actor's membership, then in general the row it  *)
(* is about, and writes that row by id, whatever it says by then.          *)
(*                                                                         *)
(* Abstracted: each user has one identity here; roles below admin are one  *)
(* role, which is all the rules tell apart; scopes, signing authority,     *)
(* SSO enforcement and the signature of the action can only refuse a       *)
(* request, and a request that is refused is one that is abandoned.        *)
(***************************************************************************)
EXTENDS Naturals

CONSTANTS
  Identities,
  Founder,    \* the identity of the organization's ownerUserId
  Handlers,   \* server handlers that may be in progress at once
  Ops,        \* the requests members make, a bound on an instance
  None        \* null

ASSUME MembersAssumption ==
  /\ Founder \in Identities /\ None \notin Identities
  /\ None \notin {"owner", "admin", "member"}
  /\ Ops \subseteq {"add", "patch", "remove", "invite", "setRole"}

VARIABLES
  role,       \* role column of each identity's row, None when it has no row
  active,     \* identities whose row has status "active"
  pc,         \* next statement of each handler
  as,         \* the actor's role, as the handler read it
  who, seen,  \* the identity it is about and that row's role, as it read them
  promoted    \* history: made an owner while a handler was deciding about them

memberVars == <<role, active, promoted>>
handlerVars == <<pc, as, who, seen>>
vars == <<memberVars, handlerVars>>

Roles == {"owner", "admin", "member"}
PCs == Ops \cup {"idle", "update", "write", "setRemoved", "revoke", "join", "rejoin",
                 "ssoInsert", "ssoActivate"}
\* Statements that write a row read some time ago.
Deciding == {"update", "setRemoved", "write"}

TypeOK ==
  /\ role \in [Identities -> Roles \cup {None}]
  /\ active \subseteq {i \in Identities : role[i] # None}
  /\ pc \in [Handlers -> PCs]
  /\ as \in [Handlers -> {"owner", "admin", None}]
  /\ who \in [Handlers -> Identities \cup {None}]
  /\ seen \in [Handlers -> Roles \cup {None}]
  /\ promoted \subseteq Identities

Init ==
  /\ role = [i \in Identities |-> IF i = Founder THEN "owner" ELSE None]
  /\ active = {Founder}
  /\ pc = [h \in Handlers |-> "idle"]
  /\ as = [h \in Handlers |-> None]
  /\ who = [h \in Handlers |-> None]
  /\ seen = [h \in Handlers |-> None]
  /\ promoted = {}

----------------------------------------------------------------------------

Rank(r) == CASE r = "owner" -> 3 [] r = "admin" -> 2 [] OTHER -> 1

\* canManageRole; the -Bug forms are faults the properties must notice.
CanManageBug(actor, target) == actor \in {"owner", "admin"}
CanManage(actor, target) ==
  actor = "owner" \/ (Rank(actor) > Rank(target) /\ target # "owner")

HasAccess(i) == i \in active /\ role[i] \in {"owner", "admin"}

Finish(h) ==
  /\ pc' = [pc EXCEPT ![h] = "idle"]
  /\ as' = [as EXCEPT ![h] = None]
  /\ who' = [who EXCEPT ![h] = None]
  /\ seen' = [seen EXCEPT ![h] = None]

\* The handler goes on to statement p, about identity i.
GoOn(h, p, i) ==
  /\ pc' = [pc EXCEPT ![h] = p]
  /\ who' = [who EXCEPT ![h] = i]
  /\ seen' = [seen EXCEPT ![h] = role[i]]
  /\ UNCHANGED as

\* A decision about i is under way that was not made by, or about, an owner.
AdminDecidesOn(i) ==
  \E h \in Handlers : pc[h] \in Deciding /\ who[h] = i /\ as[h] = "admin" /\ seen[h] # "owner"

\* The row of i gets role r.
SetRole(i, r) ==
  /\ role' = [role EXCEPT ![i] = r]
  /\ promoted' = IF r = "owner" /\ AdminDecidesOn(i) THEN promoted \cup {i} ELSE promoted

----------------------------------------------------------------------------

\* A request by identity i: the actor's membership is read.
Begin(h, i, op) ==
  /\ pc[h] = "idle"
  /\ HasAccess(i)
  /\ pc' = [pc EXCEPT ![h] = op]
  /\ as' = [as EXCEPT ![h] = role[i]]
  /\ UNCHANGED <<memberVars, who, seen>>

\* A refusal, an error, or the death of the worker between two statements.
Abandon(h) ==
  /\ pc[h] # "idle"
  /\ Finish(h)
  /\ UNCHANGED memberVars

\* POST .../identities: the insert fails when the identity has a row, active or not.
Add(h, i, r) ==
  /\ pc[h] = "add"
  /\ CanManage(as[h], r)
  /\ role[i] = None
  /\ SetRole(i, r)
  /\ active' = active \cup {i}
  /\ Finish(h)

\* PATCH .../identities/:memberId reads the row, active or not.
ReadToPatch(h, i) ==
  /\ pc[h] = "patch"
  /\ role[i] # None
  /\ CanManage(as[h], role[i])
  /\ GoOn(h, "update", i)
  /\ UNCHANGED memberVars

\* ... and writes the role of the body or, without one, the role it read.
Update(h, r) ==
  /\ pc[h] = "update"
  /\ CanManage(as[h], r)
  /\ SetRole(who[h], r)
  /\ Finish(h)
  /\ UNCHANGED active

\* DELETE .../identities/:memberId.
ReadToRemove(h, i) ==
  /\ pc[h] = "remove"
  /\ role[i] # None
  /\ CanManage(as[h], role[i])
  /\ GoOn(h, "setRemoved", i)
  /\ UNCHANGED memberVars

SetRemoved(h) ==
  /\ pc[h] = "setRemoved"
  /\ active' = active \ {who[h]}
  /\ pc' = [pc EXCEPT ![h] = "revoke"]
  /\ UNCHANGED <<role, promoted, as, who, seen>>

\* The second statement of a removal, on the identity's key grants, is the
\* business of OrganizationKeys.
Revoke(h) ==
  /\ pc[h] = "revoke"
  /\ Finish(h)
  /\ UNCHANGED memberVars

\* POST /:organizationId/invites, for an identity that is not an active member.
ReadToInvite(h, i) ==
  /\ pc[h] = "invite"
  /\ i \notin active
  /\ GoOn(h, IF role[i] = None THEN "join" ELSE "rejoin", i)
  /\ UNCHANGED memberVars

\* The insert, which fails when the row has come to exist, or the update by id.
Invite(h, r) ==
  /\ pc[h] \in {"join", "rejoin"}
  /\ pc[h] = "join" => role[who[h]] = None
  /\ r # "owner"
  /\ SetRole(who[h], r)
  /\ active' = active \cup {who[h]}
  /\ Finish(h)

\* PATCH /:organizationId/members/:memberId.  The founder stays the owner.
ReadToSetRole(h, i) ==
  /\ pc[h] = "setRole"
  /\ i \in active
  /\ GoOn(h, "write", i)
  /\ UNCHANGED memberVars

\* The founder's role may only be set to owner, anyone else's to another role.
WriteRole(h, r) ==
  /\ pc[h] = "write"
  /\ (who[h] = Founder) <=> (r = "owner")
  /\ SetRole(who[h], r)
  /\ Finish(h)
  /\ UNCHANGED active

----------------------------------------------------------------------------
(* ensureOrganizationMembership, after an enterprise SSO login.            *)

SsoRead(h, i) ==
  /\ pc[h] = "idle"
  /\ i \notin active
  /\ GoOn(h, IF role[i] = None THEN "ssoInsert" ELSE "ssoActivate", i)
  /\ UNCHANGED memberVars

\* A failed insert means that the row exists: it is read and activated if need be.
SsoInsert(h) ==
  /\ pc[h] = "ssoInsert"
  /\ UNCHANGED promoted
  /\ \/ /\ role[who[h]] = None
        /\ role' = [role EXCEPT ![who[h]] = "member"]
        /\ active' = active \cup {who[h]}
        /\ Finish(h)
     \/ /\ role[who[h]] # None /\ who[h] \in active
        /\ Finish(h)
        /\ UNCHANGED <<role, active>>
     \/ /\ role[who[h]] # None /\ who[h] \notin active
        /\ GoOn(h, "ssoActivate", who[h])
        /\ UNCHANGED <<role, active>>

SsoActivate(h) ==
  /\ pc[h] = "ssoActivate"
  /\ active' = active \cup {who[h]}
  /\ Finish(h)
  /\ UNCHANGED <<role, promoted>>

----------------------------------------------------------------------------

\* The steps of handler h other than the removal's second statement and death.
Statement(h) ==
  \/ \E i \in Identities :
       \/ \E op \in Ops : Begin(h, i, op)
       \/ \E r \in Roles : Add(h, i, r)
       \/ ReadToPatch(h, i) \/ ReadToRemove(h, i) \/ ReadToInvite(h, i)
       \/ ReadToSetRole(h, i) \/ SsoRead(h, i)
  \/ \E r \in Roles : Update(h, r) \/ Invite(h, r) \/ WriteRole(h, r)
  \/ SetRemoved(h) \/ SsoInsert(h) \/ SsoActivate(h)

Next == \E h \in Handlers : Statement(h) \/ Revoke(h) \/ Abandon(h)

Spec == Init /\ [][Next]_vars

----------------------------------------------------------------------------
(* Properties.                                                             *)

IsOwner(i) == i \in active /\ role[i] = "owner"

\* The rule of canManageRole survives the gap between reading and writing: an
\* identity stops being an owner at a request of an owner, at a request of an
\* admin that had seen it in a lower role, or through the workspace routes, which
\* do not compare roles: its role set, founder excepted, or an invite that found
\* it inactive and writes when it is back.
OwnersYieldToOwners ==
  [][\A i \in Identities :
       IsOwner(i) /\ ~(IsOwner(i))' =>
         \E h \in Handlers :
           /\ pc'[h] # pc[h] /\ who[h] = i
           /\ \/ as[h] = "owner"
              \/ pc[h] = "write" /\ i # Founder
              \/ pc[h] = "rejoin"
              \/ i \in promoted]_vars

\* Nobody becomes an owner, the founder excepted, but by the choice of one who
\* was an owner when the request began, or by regaining a row that said so.
OwnersMadeByOwners ==
  [][\A i \in Identities \ {Founder} :
       role[i] # "owner" /\ role'[i] = "owner" =>
         \E h \in Handlers : pc'[h] # pc[h] /\ as[h] = "owner"]_vars

============================================================================
