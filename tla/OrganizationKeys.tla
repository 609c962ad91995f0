-------------------------- MODULE OrganizationKeys --------------------------
(***************************************************************************)
(* Keyrings of one organization and who holds a wrapped copy of each:      *)
(*   ave-server/src/routes/business-keys.ts    create, rotate              *)
(*   ave-server/src/routes/business.ts         the end of a removal        *)
(*   ave-server/src/db/business-schema.ts      keyrings, keyGrants         *)
(* composed with the members of the organization, module                   *)
(* OrganizationMembers, which it leaves as they are.                       *)
(*                                                                         *)
(* Abstracted: the encryption mode and its policy (they can only refuse a  *)
(* request); the wrapped key; grants that are revoked or were never made,  *)
(* which no statement tells apart.  The columns of a keyring that a        *)
(* rotation reads never change, so when it reads them makes no difference. *)
(***************************************************************************)
EXTENDS Naturals

CONSTANTS
  Identities, Founder, Handlers, Ops, None,   \* as in OrganizationMembers
  Keyrings,      \* ids of keyrings
  KeyHandlers    \* key handlers that may be in progress at once

ASSUME KeysAssumption ==
  /\ None \notin Keyrings
  /\ Founder \in Identities /\ None \notin Identities
  /\ None \notin {"owner", "admin", "member"}
  /\ Ops \subseteq {"add", "patch", "remove", "invite", "setRole"}

VARIABLES
  role, active, promoted, pc, as, who, seen,   \* as in OrganizationMembers
  status,     \* status column of each keyring, "absent" before it exists
  epoch,      \* epoch column
  from,       \* rotatedFromKeyringId column
  held,       \* the identities with an active grant on it
  kpc,        \* next statement of each key handler
  parent,     \* the keyring it rotates, None when it creates one
  key,        \* the keyring it has inserted
  targets,    \* the identities of the request's grants, as validated
  \* What went wrong and has not been made good since, for the properties:
  overtaken,  \* identities removed while a request had validated them
  unrevoked,  \* identities whose removal died between its statements
  unfinished, \* keyrings whose rotation died between its statements
  early       \* keyrings rotated before their own grants were inserted

memberVars == <<role, active, promoted, pc, as, who, seen>>
keyVars == <<status, epoch, from>>
handlerVars == <<kpc, parent, key, targets>>
troubleVars == <<overtaken, unrevoked, unfinished, early>>
vars == <<memberVars, keyVars, held, handlerVars, troubleVars>>

Members == INSTANCE OrganizationMembers

PCs == {"idle", "validate", "mark", "revoke", "insert", "grant"}

TypeOK ==
  /\ Members!TypeOK
  /\ status \in [Keyrings -> {"absent", "active", "rotated"}]
  /\ epoch \in [Keyrings -> Nat]
  /\ from \in [Keyrings -> Keyrings \cup {None}]
  /\ held \in [Keyrings -> SUBSET Identities]
  /\ kpc \in [KeyHandlers -> PCs]
  /\ parent \in [KeyHandlers -> Keyrings \cup {None}]
  /\ key \in [KeyHandlers -> Keyrings \cup {None}]
  /\ targets \in [KeyHandlers -> SUBSET Identities]
  /\ overtaken \subseteq Identities
  /\ unrevoked \subseteq Identities
  /\ unfinished \subseteq Keyrings
  /\ early \subseteq Keyrings

Init ==
  /\ Members!Init
  /\ status = [k \in Keyrings |-> "absent"]
  /\ epoch = [k \in Keyrings |-> 0]
  /\ from = [k \in Keyrings |-> None]
  /\ held = [k \in Keyrings |-> {}]
  /\ kpc = [g \in KeyHandlers |-> "idle"]
  /\ parent = [g \in KeyHandlers |-> None]
  /\ key = [g \in KeyHandlers |-> None]
  /\ targets = [g \in KeyHandlers |-> {}]
  /\ overtaken = {} /\ unrevoked = {} /\ unfinished = {} /\ early = {}

----------------------------------------------------------------------------
(* Keyrings; the -Bug forms are faults the properties below must notice.   *)

Finish(g) ==
  /\ kpc' = [kpc EXCEPT ![g] = "idle"]
  /\ parent' = [parent EXCEPT ![g] = None]
  /\ key' = [key EXCEPT ![g] = None]
  /\ targets' = [targets EXCEPT ![g] = {}]

GoOn(g, p) ==
  /\ kpc' = [kpc EXCEPT ![g] = p]
  /\ UNCHANGED <<parent, key, targets>>

\* The actor may manage keys; a rotation also finds its keyring, rotated or not.
Begin(g, k) ==
  /\ kpc[g] = "idle"
  /\ \E i \in Identities : Members!HasAccess(i)
  /\ k # None => status[k] # "absent"
  /\ kpc' = [kpc EXCEPT ![g] = "validate"]
  /\ parent' = [parent EXCEPT ![g] = k]
  /\ UNCHANGED <<memberVars, keyVars, held, key, targets, troubleVars>>

ValidTargetsBug(S) == \A i \in S : role[i] # None
ValidTargets(S) == S \subseteq active

Validate(g, S) ==
  /\ kpc[g] = "validate"
  /\ ValidTargets(S)
  /\ targets' = [targets EXCEPT ![g] = S]
  /\ kpc' = [kpc EXCEPT ![g] = IF parent[g] = None THEN "insert" ELSE "mark"]
  /\ UNCHANGED <<memberVars, keyVars, held, parent, key, troubleVars>>

\* A handler has inserted keyring k and not yet its grants.
GrantsToCome(k) == \E g \in KeyHandlers : kpc[g] = "grant" /\ key[g] = k

MarkRotated(g) ==
  /\ kpc[g] = "mark"
  /\ status' = [status EXCEPT ![parent[g]] = "rotated"]
  /\ GoOn(g, "revoke")
  /\ early' = IF GrantsToCome(parent[g]) THEN early \cup {parent[g]} ELSE early
  /\ UNCHANGED <<memberVars, epoch, from, held, overtaken, unrevoked, unfinished>>

RevokeGrantsBug(g) ==
  /\ kpc[g] = "revoke"
  /\ held' = [held EXCEPT ![parent[g]] = @ \ targets[g]]
  /\ GoOn(g, "insert")
  /\ early' = {k \in early : k = parent[g] => GrantsToCome(k)}
  /\ UNCHANGED <<memberVars, keyVars, overtaken, unrevoked, unfinished>>

RevokeGrants(g) ==
  /\ kpc[g] = "revoke"
  /\ held' = [held EXCEPT ![parent[g]] = {}]
  /\ GoOn(g, "insert")
  /\ early' = {k \in early : k = parent[g] => GrantsToCome(k)}
  /\ UNCHANGED <<memberVars, keyVars, overtaken, unrevoked, unfinished>>

\* Without grants the handler ends here.
NextEpochBug(p) == 1
NextEpoch(p) == IF p = None THEN 1 ELSE epoch[p] + 1

InsertKeyring(g, k) ==
  /\ kpc[g] = "insert"
  /\ status[k] = "absent"
  /\ status' = [status EXCEPT ![k] = "active"]
  /\ epoch' = [epoch EXCEPT ![k] = NextEpoch(parent[g])]
  /\ from' = [from EXCEPT ![k] = parent[g]]
  /\ IF targets[g] = {}
       THEN Finish(g)
       ELSE /\ kpc' = [kpc EXCEPT ![g] = "grant"]
            /\ key' = [key EXCEPT ![g] = k]
            /\ UNCHANGED <<parent, targets>>
  /\ unfinished' = unfinished \ {parent[g]}
  /\ UNCHANGED <<memberVars, held, overtaken, unrevoked, early>>

InsertGrants(g) ==
  /\ kpc[g] = "grant"
  /\ held' = [held EXCEPT ![key[g]] = @ \cup targets[g]]
  /\ Finish(g)
  /\ UNCHANGED <<memberVars, keyVars, troubleVars>>

\* A refusal, a failed statement (as when two grants name one identity), or
\* the death of the worker.
Abandon(g) ==
  /\ kpc[g] # "idle"
  /\ Finish(g)
  /\ unfinished' = IF kpc[g] \in {"revoke", "insert"} /\ parent[g] # None
                     THEN unfinished \cup {parent[g]} ELSE unfinished
  /\ UNCHANGED <<memberVars, keyVars, held, overtaken, unrevoked, early>>

----------------------------------------------------------------------------
(* Members.                                                                *)

Targeted(i) == \E g \in KeyHandlers : i \in targets[g]

MemberStatement(h) ==
  /\ Members!Statement(h)
  /\ overtaken' = (overtaken \cup {i \in active : Targeted(i)}) \ active'
  /\ unrevoked' = unrevoked \ active'
  /\ UNCHANGED <<keyVars, held, handlerVars, unfinished, early>>

\* The second statement of a removal: every active grant of the identity.
Revoke(h) ==
  /\ Members!Revoke(h)
  /\ held' = [k \in Keyrings |-> held[k] \ {who[h]}]
  /\ overtaken' = {i \in overtaken : i = who[h] => Targeted(i)}
  /\ unrevoked' = unrevoked \ {who[h]}
  /\ UNCHANGED <<keyVars, handlerVars, unfinished, early>>

MemberAbandon(h) ==
  /\ Members!Abandon(h)
  /\ unrevoked' = IF pc[h] = "revoke" THEN (unrevoked \cup {who[h]}) \ active ELSE unrevoked
  /\ UNCHANGED <<keyVars, held, handlerVars, overtaken, unfinished, early>>

----------------------------------------------------------------------------

KeyStep(g) ==
  \/ \E k \in Keyrings \cup {None} : Begin(g, k)
  \/ \E S \in SUBSET Identities : Validate(g, S)
  \/ \E k \in Keyrings : InsertKeyring(g, k)
  \/ MarkRotated(g) \/ RevokeGrants(g) \/ InsertGrants(g) \/ Abandon(g)

Next ==
  \/ \E h \in Handlers : MemberStatement(h) \/ Revoke(h) \/ MemberAbandon(h)
  \/ \E g \in KeyHandlers : KeyStep(g)

Spec == Init /\ [][Next]_vars

----------------------------------------------------------------------------
(* Properties.                                                             *)

\* An identity that is not a member holds no key, unless its removal has yet
\* to revoke or died before it did, or a request that had already checked it
\* as a member came to insert a grant for it.
HeldByMembers ==
  \A k \in Keyrings : \A i \in held[k] \ active :
    \/ \E h \in Handlers : pc[h] = "revoke" /\ who[h] = i
    \/ i \in unrevoked \cup overtaken

\* Nobody holds a rotated keyring, unless its rotation has yet to revoke or
\* died before it did, or began before the keyring's first grants were there.
RotatedHeldByNone ==
  \A k \in Keyrings : status[k] = "rotated" /\ held[k] # {} =>
    \/ \E g \in KeyHandlers : kpc[g] = "revoke" /\ parent[g] = k
    \/ k \in unfinished \cup early

\* A rotated keyring has a successor, unless its rotation is under way or died;
\* a successor is one epoch later and its predecessor rotated.
LineageSound ==
  /\ \A k \in Keyrings : status[k] = "rotated" =>
       \/ \E n \in Keyrings : from[n] = k
       \/ \E g \in KeyHandlers : kpc[g] \in {"revoke", "insert"} /\ parent[g] = k
       \/ k \in unfinished
  /\ \A k \in Keyrings : from[k] # None =>
       status[from[k]] = "rotated" /\ epoch[k] = epoch[from[k]] + 1

\* A rotation "rewraps access only for the remaining active identities"
\* (ave-docs, guides/ave-for-businesses.mdx:70).
RewrapsForMembersOnly ==
  [][\A k \in Keyrings : from[k] # None => held'[k] \ held[k] \subseteq active]_vars

============================================================================
