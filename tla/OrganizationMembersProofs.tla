--------------------- MODULE OrganizationMembersProofs ----------------------
(***************************************************************************)
(* What the four parts of MCOrganizationMembers guarantee for every value  *)
(* of the constants, and at the end the properties of the parts side by    *)
(* side.                                                                   *)
(*                                                                         *)
(* Members: they are those of OrganizationKeys, whose theorems about them  *)
(* carry over.                                                             *)
(*                                                                         *)
(* Portal: until another request overlaps it, a creation finds its slug    *)
(* free and ends in a workspace with an owner, and a PATCH writes over the *)
(* row it has read.  The consoles: a page whose handlers never overlapped  *)
(* and never failed either agrees with the server or has one handler under *)
(* way that holds what it takes to agree.                                  *)
(***************************************************************************)
EXTENDS MCOrganizationMembers, FiniteSetTheorems, TLAPS

-----------------------------------------------------------------------------
(* Members (OrganizationMembers): they are those of OrganizationKeys when  *)
(* there are no keyrings, and its members' theorems carry over.            *)

K == INSTANCE OrganizationKeysProofs WITH
       Keyrings <- {}, KeyHandlers <- {}, status <- None, epoch <- None,
       from <- None, held <- None, kpc <- None, parent <- None, key <- None,
       targets <- None, overtaken <- {}, unrevoked <- {}, unfinished <- {},
       early <- {}

LEMMA SameMembers ==
  /\ K!Members!vars = vars
  /\ K!Members!Init <=> Init
  /\ K!Members!Next <=> Next
  /\ K!Members!TypeOK <=> TypeOK
BY DEF K!Members!Next, Next, K!Members!Statement, Statement, K!Members!Begin, Begin,
       K!Members!Add, Add, K!Members!ReadToPatch, ReadToPatch, K!Members!Update, Update,
       K!Members!ReadToRemove, ReadToRemove, K!Members!SetRemoved, SetRemoved,
       K!Members!Revoke, Revoke, K!Members!ReadToInvite, ReadToInvite,
       K!Members!Invite, Invite, K!Members!ReadToSetRole, ReadToSetRole,
       K!Members!WriteRole, WriteRole, K!Members!SsoRead, SsoRead,
       K!Members!SsoInsert, SsoInsert, K!Members!SsoActivate, SsoActivate,
       K!Members!Abandon, Abandon, K!Members!Roles, Roles, K!Members!CanManage, CanManage,
       K!Members!Rank, Rank, K!Members!HasAccess, HasAccess, K!Members!Finish, Finish,
       K!Members!GoOn, GoOn, K!Members!AdminDecidesOn, AdminDecidesOn,
       K!Members!SetRole, SetRole, K!Members!memberVars, memberVars,
       K!Members!handlerVars, handlerVars, K!Members!vars, vars, K!Members!TypeOK, TypeOK,
       K!Members!Init, Init, K!Members!PCs, PCs, K!Members!Deciding, Deciding

LEMMA MembersCarryOver == Spec => K!Members!Spec
<1>1. Init => K!Members!Init
  BY SameMembers
<1>2. [Next]_vars => [K!Members!Next]_(K!Members!vars)
  <2>1. UNCHANGED vars => UNCHANGED K!Members!vars
    BY DEF vars, memberVars, handlerVars, K!Members!vars, K!Members!memberVars, K!Members!handlerVars
  <2> QED BY <2>1, SameMembers
<1> QED BY <1>1, <1>2, PTL DEF Spec, K!Members!Spec

\* The tables and the handlers of members keep to their types.
THEOREM TypeCorrect == Spec => []TypeOK
<1>1. K!Members!Spec => []K!MembersInv
  BY MembersAssumption, K!MembersInvariance
<1>2. K!MembersInv => TypeOK
  BY SameMembers DEF K!MembersInv
<1> QED BY <1>1, <1>2, MembersCarryOver, PTL

\* An owner loses that role at the request of an owner, of an admin that saw it
\* in a lower role, or through the workspace routes, which compare no roles.
THEOREM OwnersAreSafe == Spec => OwnersYieldToOwners
<1>1. K!Members!Spec => K!Members!OwnersYieldToOwners
  BY MembersAssumption, K!OwnersAreSafe
<1>2. K!Members!vars = vars
  BY SameMembers
<1>3. [\A i \in Identities :
         K!Members!IsOwner(i) /\ ~(K!Members!IsOwner(i))' =>
           \E h \in Handlers :
             /\ pc'[h] # pc[h] /\ who[h] = i
             /\ \/ as[h] = "owner"
                \/ pc[h] = "write" /\ i # Founder
                \/ pc[h] = "rejoin"
                \/ i \in promoted]_(K!Members!vars)
      => [\A i \in Identities :
            IsOwner(i) /\ ~(IsOwner(i))' =>
              \E h \in Handlers :
                /\ pc'[h] # pc[h] /\ who[h] = i
                /\ \/ as[h] = "owner"
                   \/ pc[h] = "write" /\ i # Founder
                   \/ pc[h] = "rejoin"
                   \/ i \in promoted]_vars
  BY DEF K!Members!IsOwner, IsOwner, K!Members!vars, K!Members!memberVars, K!Members!handlerVars,
         vars, memberVars, handlerVars
<1> QED
  BY <1>1, <1>3, MembersCarryOver, PTL DEF OwnersYieldToOwners, K!Members!OwnersYieldToOwners

\* An identity other than the founder becomes an owner only by the choice of one
\* who was an owner when the request began.
THEOREM OwnersMakeOwners == Spec => OwnersMadeByOwners
<1>1. K!Members!Spec => K!Members!OwnersMadeByOwners
  BY MembersAssumption, K!OwnersMakeOwners
<1>2. [\A i \in Identities \ {Founder} :
         role[i] # "owner" /\ role'[i] = "owner" =>
           \E h \in Handlers : pc'[h] # pc[h] /\ as[h] = "owner"]_(K!Members!vars)
      => [\A i \in Identities \ {Founder} :
            role[i] # "owner" /\ role'[i] = "owner" =>
              \E h \in Handlers : pc'[h] # pc[h] /\ as[h] = "owner"]_vars
  BY DEF K!Members!vars, K!Members!memberVars, K!Members!handlerVars, vars, memberVars, handlerVars
<1> QED
  BY <1>1, <1>2, MembersCarryOver, PTL DEF OwnersMadeByOwners, K!Members!OwnersMadeByOwners

-----------------------------------------------------------------------------
(* Developer portal (Portal).                                              *)

\* What a request is about.
Asked == [by : Users, of : P!Rows, covers : SUBSET P!Columns, asks : SUBSET P!Columns, to : P!Orgs \cup {None}]

\* A workspace in the making is in nobody's hands twice, and what it makes
\* comes into being in the order of its statements.
Making(r) ==
  /\ portalPc[r] = "idle" => \A u \in Users : r \notin personal[u]
  /\ r \in org => portalPc[r] \notin {"idle", "slug", "organization"}
  /\ portalPc[r] = "member" => r \in org
  /\ slug[r] > 0 => portalPc[r] \notin {"idle", "slug"}
  /\ \A u \in Users : r \in personal[u] /\ r \in P!Opening => want[r].by = u

\* What a creation that nobody overlapped may rely on.
Alone(r) ==
  /\ r \in P!Opening => P!Opening = {r}
  /\ slug[r] > 0 => r \in org \/ (portalPc[r] = "organization" /\ P!Free(slug[r]))
  /\ r \in org /\ portalPc[r] # "member" => \E u \in Users : portalRole[r][u] = "owner"

\* The workspace of a user is on its way or one that the user is in.
Personal(u) ==
  /\ \A r \in personal[u] : r \in P!Opening \/ (r \in org /\ portalRole[r][u] # "none")
  /\ \A q, r \in personal[u] : q = r

\* The row that a PATCH has read is the row it will write over; it cannot be
\* one that is still to be inserted.
Editing(r) ==
  /\ portalPc[r] \in {"destination", "write"} =>
             /\ want[r].of \in P!There \ crossed => read[r] = row[want[r].of]
             /\ \A q \in Handlers : want[r].of \in {<<"app", q>>, <<"resource", q>>} => portalPc[q] = "done"
             /\ want[r].of[1] = "org" => want[r].of \in P!There
  /\ portalPc[r] = "delete" => want[r].of[1] # "org"
  /\ <<"app", r>> \in P!There \/ <<"resource", r>> \in P!There => portalPc[r] = "done"
  /\ portalPc[r] = "find" => want[r].of[1] # "org"

Types == P!TypeOK /\ want \in [Handlers -> Asked]

WorkspaceInv ==
  /\ \A r \in Handlers : Making(r) /\ (r \in raced \/ Alone(r))
  /\ \A u \in Users \ raced : Personal(u)

EditInv ==
  /\ \A r \in Handlers : Editing(r)
  /\ \A t \in P!Rows \ crossed : row[t] = expected[t]

PortalInv == Types /\ WorkspaceInv /\ EditInv

-----------------------------------------------------------------------------

LEMMA PortalCount == ASSUME NEW T PROVE P!Cardinality(T) = Cardinality(T)
BY DEF P!Cardinality, Cardinality

Stages == {"idle", "slug", "organization", "member", "admit", "application",
           "destination", "find", "resource", "write", "delete", "done"}

LEMMA Filled ==
  ASSUME NEW a \in P!Values, NEW b \in P!Values, NEW c \in P!Values
  PROVE  [home |-> a, text |-> b, extra |-> c] \in [P!Columns -> P!Values]
BY DEF P!Columns

LEMMA UnaskedTyped == P!Unasked \in Asked /\ P!Nothing \in [P!Columns -> P!Values] /\ P!Unasked.of[1] = "org"
<1>1. (CHOOSE o \in OldOrgs : TRUE) \in OldOrgs
  BY PortalAssumption
<1> DEFINE o == CHOOSE q \in OldOrgs : TRUE
<1>2. o \in OldOrgs
  BY <1>1
<1> HIDE DEF o
<1>3. <<"org", o>> \in P!Rows
  BY <1>2 DEF P!Rows, P!Orgs
<1>4. P!Unasked = [by |-> Owner, of |-> <<"org", o>>, covers |-> {}, asks |-> {}, to |-> None]
  BY DEF P!Unasked, o
<1>5. P!Unasked \in Asked
  BY <1>3, <1>4, PortalAssumption DEF Asked
<1>6. P!Nothing \in [P!Columns -> P!Values]
  BY DEF P!Nothing, P!Values
<1>7. P!Unasked.of[1] = "org"
  BY <1>4
<1> QED BY <1>5, <1>6, <1>7

LEMMA TypesAre ==
  P!TypeOK <=>
    /\ org \subseteq P!Orgs /\ portalRole \in [P!Orgs -> [Users -> {"none", "viewer", "admin", "owner"}]]
    /\ slug \in [P!Orgs -> Nat] /\ app \subseteq OldApps \cup Handlers /\ resource \subseteq OldResources \cup Handlers
    /\ row \in [P!Rows -> [P!Columns -> P!Values]] /\ expected \in [P!Rows -> [P!Columns -> P!Values]]
    /\ portalPc \in [Handlers -> Stages]
    /\ \A r \in Handlers :
         /\ want[r].by \in Users /\ want[r].of \in P!Rows /\ want[r].to \in P!Orgs \cup {None}
         /\ want[r].asks \subseteq want[r].covers /\ want[r].covers \subseteq P!Columns
    /\ read \in [Handlers -> [P!Columns -> P!Values]]
    /\ personal \in [Users -> SUBSET Handlers] /\ crossed \subseteq P!Rows /\ raced \subseteq Users \cup Handlers
BY DEF P!TypeOK, Stages

\* A request that ends, or goes on to another statement.
LEMMA EndsEffect ==
  ASSUME Types, NEW r \in Handlers, P!Ends(r)
  PROVE  /\ portalPc' \in [Handlers -> Stages] /\ portalPc'[r] = "done"
         /\ want' \in [Handlers -> Asked] /\ want'[r] = P!Unasked
         /\ read' \in [Handlers -> [P!Columns -> P!Values]]
         /\ \A q \in Handlers \ {r} : portalPc'[q] = portalPc[q] /\ want'[q] = want[q] /\ read'[q] = read[q]
         /\ \A q \in Handlers : want'[q].asks \subseteq want'[q].covers
<1>1. want \in [Handlers -> Asked] /\ portalPc \in [Handlers -> Stages] /\ read \in [Handlers -> [P!Columns -> P!Values]]
  BY TypesAre DEF Types
<1>2. \A q \in Handlers : want[q].asks \subseteq want[q].covers
  BY TypesAre DEF Types
<1>3. P!Unasked.asks = {}
  BY DEF P!Unasked
<1> QED BY <1>1, <1>2, <1>3, UnaskedTyped DEF P!Ends, Stages

LEMMA GoesEffect ==
  ASSUME Types, NEW r \in Handlers, NEW s \in Stages, P!Goes(r, s)
  PROVE  /\ portalPc' \in [Handlers -> Stages] /\ portalPc'[r] = s
         /\ \A q \in Handlers \ {r} : portalPc'[q] = portalPc[q]
BY TypesAre DEF Types, P!Goes

\* What remains to be typed of a step.
LEMMA RestTyped ==
  ASSUME want' \in [Handlers -> Asked], \A q \in Handlers : want'[q].asks \subseteq want'[q].covers,
         portalPc' \in [Handlers -> Stages], read' \in [Handlers -> [P!Columns -> P!Values]],
         org' \subseteq P!Orgs, portalRole' \in [P!Orgs -> [Users -> {"none", "viewer", "admin", "owner"}]],
         slug' \in [P!Orgs -> Nat], app' \subseteq OldApps \cup Handlers, resource' \subseteq OldResources \cup Handlers,
         row' \in [P!Rows -> [P!Columns -> P!Values]], expected' \in [P!Rows -> [P!Columns -> P!Values]],
         personal' \in [Users -> SUBSET Handlers], crossed' \subseteq P!Rows, raced' \subseteq Users \cup Handlers
  PROVE  Types'
<1>1. \A q \in Handlers :
        /\ want'[q].by \in Users /\ want'[q].of \in P!Rows /\ want'[q].to \in P!Orgs \cup {None}
        /\ want'[q].covers \subseteq P!Columns
  BY DEF Asked
<1> QED BY <1>1 DEF Types, P!TypeOK, Stages

LEMMA OpensTyped ==
  ASSUME Types, NEW r \in Handlers, NEW u \in Users, NEW b \in BOOLEAN, P!Opens(r, u, b)
  PROVE  /\ portalPc' \in [Handlers -> Stages] /\ personal' \in [Users -> SUBSET Handlers]
         /\ raced' \subseteq Users \cup Handlers
<1>1. personal \in [Users -> SUBSET Handlers] /\ raced \subseteq Users \cup Handlers /\ P!Opening \subseteq Handlers
  BY TypesAre DEF Types, P!Opening
<1>2. portalPc' \in [Handlers -> Stages]
  BY GoesEffect DEF P!Opens, Stages
<1>3. personal' \in [Users -> SUBSET Handlers]
  BY <1>1 DEF P!Opens
<1>4. raced' \subseteq Users \cup Handlers
  BY <1>1 DEF P!Opens
<1> QED BY <1>2, <1>3, <1>4

LEMMA AskedChanges ==
  ASSUME Types, NEW r \in Handlers, NEW u \in Users, NEW t \in P!Rows, NEW o \in P!Orgs \cup {None},
         \/ want' = [want EXCEPT ![r].by = u]
         \/ want' = [want EXCEPT ![r] = [@ EXCEPT !.by = u, !.of = t]]
         \/ want' = [want EXCEPT ![r] = [@ EXCEPT !.by = u, !.of = t, !.to = o]]
         \/ want' = [want EXCEPT ![r].to = o]
         \/ UNCHANGED want
  PROVE  want' \in [Handlers -> Asked] /\ \A q \in Handlers : want'[q].asks \subseteq want'[q].covers
<1>1. want \in [Handlers -> Asked] /\ \A q \in Handlers : want[q].asks \subseteq want[q].covers
  BY TypesAre DEF Types
<1>2. ASSUME NEW w \in Asked, w.asks = want[r].asks, w.covers = want[r].covers, want' = [want EXCEPT ![r] = w]
      PROVE  want' \in [Handlers -> Asked] /\ \A q \in Handlers : want'[q].asks \subseteq want'[q].covers
  BY <1>1, <1>2
<1> DEFINE a == want[r]
<1>3. a \in Asked
  BY <1>1
<1>4. CASE want' = [want EXCEPT ![r].by = u]
  <2>1. [a EXCEPT !.by = u] \in Asked /\ want' = [want EXCEPT ![r] = [a EXCEPT !.by = u]]
    BY <1>1, <1>3, <1>4 DEF Asked
  <2>2. [a EXCEPT !.by = u].asks = a.asks /\ [a EXCEPT !.by = u].covers = a.covers
    BY <1>3 DEF Asked
  <2> QED BY <1>2, <2>1, <2>2
<1>5. CASE want' = [want EXCEPT ![r] = [@ EXCEPT !.by = u, !.of = t]]
  <2> DEFINE w == [a EXCEPT !.by = u, !.of = t]
  <2>1. w \in Asked /\ want' = [want EXCEPT ![r] = w]
    BY <1>1, <1>3, <1>5 DEF Asked
  <2>2. w.asks = a.asks /\ w.covers = a.covers
    BY <1>3 DEF Asked
  <2> HIDE DEF w
  <2> QED BY <1>2, <2>1, <2>2
<1>6. CASE want' = [want EXCEPT ![r] = [@ EXCEPT !.by = u, !.of = t, !.to = o]]
  <2> DEFINE w == [a EXCEPT !.by = u, !.of = t, !.to = o]
  <2>1. w \in Asked /\ want' = [want EXCEPT ![r] = w]
    BY <1>1, <1>3, <1>6 DEF Asked
  <2>2. w.asks = a.asks /\ w.covers = a.covers
    BY <1>3 DEF Asked
  <2> HIDE DEF w
  <2> QED BY <1>2, <2>1, <2>2
<1>7. CASE want' = [want EXCEPT ![r].to = o]
  <2> DEFINE w == [a EXCEPT !.to = o]
  <2>1. w \in Asked /\ want' = [want EXCEPT ![r] = w]
    BY <1>1, <1>3, <1>7 DEF Asked
  <2>2. w.asks = a.asks /\ w.covers = a.covers
    BY <1>3 DEF Asked
  <2> HIDE DEF w
  <2> QED BY <1>2, <2>1, <2>2
<1> QED BY <1>1, <1>4, <1>5, <1>6, <1>7

LEMMA RowsAre ==
  ASSUME Types
  PROVE  /\ \A r \in Handlers : <<"app", r>> \in P!Rows /\ <<"resource", r>> \in P!Rows /\ <<"org", r>> \in P!Rows
         /\ \A a \in app : <<"app", a>> \in P!Rows
         /\ P!There \subseteq P!Rows
         /\ Handlers \subseteq P!Orgs /\ P!Orgs \subseteq P!Values /\ OldApps \subseteq P!Values /\ None \in P!Values
BY TypesAre DEF Types, P!Rows, P!There, P!Orgs, P!Values

LEMMA WorkspaceTypes ==
  ASSUME Types, NEW r \in Handlers,
         P!FirstUse(r) \/ P!CreateOrganization(r) \/ P!ChooseSlug(r) \/ P!InsertOrganization(r) \/ P!InsertOwner(r)
  PROVE  Types'
<1> USE TypesAre DEF Types
<1>1. CASE P!FirstUse(r)
  <2>1. PICK u \in Users : want' = [want EXCEPT ![r].by = u] /\ P!Opens(r, u, TRUE)
    BY <1>1 DEF P!FirstUse
  <2>2. want' \in [Handlers -> Asked] /\ \A q \in Handlers : want'[q].asks \subseteq want'[q].covers
    BY <2>1, AskedChanges, UnaskedTyped DEF Asked
  <2>3. UNCHANGED <<org, portalRole, slug, app, resource, row, read, expected, crossed>>
    BY <1>1 DEF P!FirstUse, P!tableVars
  <2> QED BY <2>1, <2>2, <2>3, OpensTyped, RestTyped
<1>2. CASE P!CreateOrganization(r)
  <2>1. PICK u \in Users : want' = [want EXCEPT ![r].by = u] /\ P!Opens(r, u, FALSE)
    BY <1>2 DEF P!CreateOrganization
  <2>2. want' \in [Handlers -> Asked] /\ \A q \in Handlers : want'[q].asks \subseteq want'[q].covers
    BY <2>1, AskedChanges, UnaskedTyped DEF Asked
  <2>3. UNCHANGED <<org, portalRole, slug, app, resource, row, read, expected, crossed>>
    BY <1>2 DEF P!CreateOrganization, P!tableVars
  <2> QED BY <2>1, <2>2, <2>3, OpensTyped, RestTyped
<1>3. CASE P!ChooseSlug(r)
  <2>1. slug' \in [P!Orgs -> Nat]
    <3>1. PICK n \in 1 .. P!Cardinality(P!Orgs) : slug' = [slug EXCEPT ![r] = n]
      BY <1>3 DEF P!ChooseSlug
    <3>2. n \in Nat
      OBVIOUS
    <3> QED BY <3>1, <3>2
  <2>2. portalPc' \in [Handlers -> Stages]
    BY <1>3, GoesEffect DEF P!ChooseSlug, Stages
  <2>3. UNCHANGED <<org, portalRole, app, resource, row, want, read, personal, expected, crossed, raced>>
    BY <1>3 DEF P!ChooseSlug, P!historyVars
  <2> QED BY <2>1, <2>2, <2>3, RestTyped
<1>4. CASE P!InsertOrganization(r)
  <2>1. org' \subseteq P!Orgs /\ personal' \in [Users -> SUBSET Handlers]
    BY <1>4 DEF P!InsertOrganization, P!Orgs
  <2>2. UNCHANGED <<portalRole, slug, app, resource, row, expected, crossed, raced>>
    BY <1>4 DEF P!InsertOrganization
  <2>3. P!Ends(r) \/ (P!Goes(r, "member") /\ UNCHANGED <<want, read>>)
    BY <1>4 DEF P!InsertOrganization
  <2>4. /\ portalPc' \in [Handlers -> Stages] /\ want' \in [Handlers -> Asked]
        /\ read' \in [Handlers -> [P!Columns -> P!Values]] /\ \A q \in Handlers : want'[q].asks \subseteq want'[q].covers
    BY <2>3, EndsEffect, GoesEffect DEF Stages
  <2> QED BY <2>1, <2>2, <2>4, RestTyped
<1>5. CASE P!InsertOwner(r)
  <2>1. portalRole' \in [P!Orgs -> [Users -> {"none", "viewer", "admin", "owner"}]]
    BY <1>5 DEF P!InsertOwner, P!Orgs
  <2>2. UNCHANGED <<org, slug, app, resource, row, personal, expected, crossed, raced>>
    BY <1>5 DEF P!InsertOwner, P!historyVars
  <2>3. P!Ends(r) \/ (P!Goes(r, "admit") /\ UNCHANGED read /\ \E o \in P!Orgs \cup {None} : want' = [want EXCEPT ![r].to = o])
    <3>1. r \in P!Orgs /\ want[r].to \in P!Orgs \cup {None}
      BY DEF P!Orgs
    <3>2. want' = [want EXCEPT ![r].to = IF @ = None THEN r ELSE @] =>
            \E o \in P!Orgs \cup {None} : want' = [want EXCEPT ![r].to = o]
      BY <3>1
    <3> QED BY <1>5, <3>2 DEF P!InsertOwner
  <2>4. /\ portalPc' \in [Handlers -> Stages] /\ want' \in [Handlers -> Asked]
        /\ read' \in [Handlers -> [P!Columns -> P!Values]] /\ \A q \in Handlers : want'[q].asks \subseteq want'[q].covers
    <3>1. CASE P!Ends(r)
      BY <3>1, EndsEffect
    <3>2. ASSUME P!Goes(r, "admit"), UNCHANGED read, NEW o \in P!Orgs \cup {None}, want' = [want EXCEPT ![r].to = o]
          PROVE  <2>4!:
      <4>1. \E u \in Users, t \in P!Rows : TRUE
        BY UnaskedTyped, PortalAssumption DEF Asked
      <4>2. want' \in [Handlers -> Asked] /\ \A q \in Handlers : want'[q].asks \subseteq want'[q].covers
        BY <3>2, <4>1, AskedChanges
      <4> QED BY <3>2, <4>2, GoesEffect DEF Stages
    <3> QED BY <2>3, <3>1, <3>2
  <2> QED BY <2>1, <2>2, <2>4, RestTyped
<1> QED BY <1>1, <1>2, <1>3, <1>4, <1>5

LEMMA ApplicationTypes ==
  ASSUME Types, NEW r \in Handlers, P!CreateApp(r) \/ P!Admit(r) \/ P!InsertApp(r)
  PROVE  Types'
<1> USE TypesAre DEF Types
<1>1. CASE P!CreateApp(r)
  <2>1. PICK u \in Users, o \in org \cup {None} :
          IF P!Memberships(u) = {}
          THEN /\ want' = [want EXCEPT ![r] = [@ EXCEPT !.by = u, !.of = <<"app", r>>, !.to = o]]
               /\ P!Opens(r, u, TRUE)
          ELSE /\ \E p \in P!Highest(u) :
                    want' = [want EXCEPT ![r] = [@ EXCEPT !.by = u, !.of = <<"app", r>>,
                                                          !.to = IF o = None THEN p ELSE o]]
               /\ P!Goes(r, "admit")
               /\ UNCHANGED <<personal, raced>>
    BY <1>1 DEF P!CreateApp
  <2>2. \E p \in P!Orgs \cup {None} : want' = [want EXCEPT ![r] = [@ EXCEPT !.by = u, !.of = <<"app", r>>, !.to = p]]
    <3>1. o \in P!Orgs \cup {None} /\ P!Highest(u) \subseteq P!Orgs
      BY DEF P!Highest, P!Memberships
    <3> QED BY <2>1, <3>1
  <2>3. want' \in [Handlers -> Asked] /\ \A q \in Handlers : want'[q].asks \subseteq want'[q].covers
    <3>1. PICK p \in P!Orgs \cup {None} : want' = [want EXCEPT ![r] = [@ EXCEPT !.by = u, !.of = <<"app", r>>, !.to = p]]
      BY <2>2
    <3>2. <<"app", r>> \in P!Rows
      BY RowsAre
    <3> QED BY <3>1, <3>2, AskedChanges
  <2>4. /\ portalPc' \in [Handlers -> Stages] /\ personal' \in [Users -> SUBSET Handlers]
        /\ raced' \subseteq Users \cup Handlers
    BY <2>1, OpensTyped, GoesEffect DEF Stages
  <2>5. UNCHANGED <<org, portalRole, slug, app, resource, row, read, expected, crossed>>
    BY <1>1 DEF P!CreateApp, P!tableVars
  <2> QED BY <2>3, <2>4, <2>5, RestTyped
<1>2. CASE P!Admit(r)
  <2>1. UNCHANGED <<org, portalRole, slug, app, resource, row, personal, expected, crossed, raced>>
    BY <1>2 DEF P!Admit, P!tableVars, P!historyVars
  <2>2. P!Ends(r) \/ (P!Goes(r, "application") /\ UNCHANGED <<want, read>>)
    BY <1>2 DEF P!Admit
  <2>3. /\ portalPc' \in [Handlers -> Stages] /\ want' \in [Handlers -> Asked]
        /\ read' \in [Handlers -> [P!Columns -> P!Values]] /\ \A q \in Handlers : want'[q].asks \subseteq want'[q].covers
    BY <2>2, EndsEffect, GoesEffect DEF Stages
  <2> QED BY <2>1, <2>3, RestTyped
<1>3. CASE P!InsertApp(r)
  <2>1. app' \subseteq OldApps \cup Handlers
    BY <1>3 DEF P!InsertApp
  <2>2. UNCHANGED <<org, portalRole, slug, resource, personal, crossed, raced>> /\ P!Inserted(r, <<"app", r>>, want[r].to)
    BY <1>3 DEF P!InsertApp
  <2>3. [home |-> want[r].to, text |-> r, extra |-> r] \in [P!Columns -> P!Values]
    BY RowsAre, Filled
  <2>4. row' \in [P!Rows -> [P!Columns -> P!Values]] /\ expected' \in [P!Rows -> [P!Columns -> P!Values]]
    BY <2>2, <2>3, RowsAre DEF P!Inserted
  <2>5. P!Ends(r)
    BY <2>2 DEF P!Inserted
  <2> QED BY <2>1, <2>2, <2>4, <2>5, EndsEffect, RestTyped
<1> QED BY <1>1, <1>2, <1>3

LEMMA ChangeTypes ==
  ASSUME Types, NEW r \in Handlers, P!Change(r) \/ P!CheckDestination(r) \/ P!FindResource(r) \/ P!Remove(r) \/ P!AddResource(r)
  PROVE  Types'
<1> USE TypesAre DEF Types
<1>1. UNCHANGED <<org, portalRole, slug, app, resource, row, personal, expected, crossed, raced>>
  BY DEF P!Change, P!CheckDestination, P!FindResource, P!Remove, P!AddResource, P!tableVars, P!historyVars
<1>2. CASE P!Change(r)
  <2>1. PICK u \in Users, t \in P!There, p \in org \cup {None} :
          /\ P!IsAdmin(u, P!Home(t))
          /\ \E covers \in P!Covered(t) :
             \E asks \in (SUBSET covers) \ {{}} :
               /\ IF "home" \in asks THEN p \notin {None, row[t]["home"]} ELSE p = None
               /\ want' = [want EXCEPT ![r] = [by |-> u, of |-> t, covers |-> covers, asks |-> asks, to |-> p]]
               /\ P!Goes(r, IF t[1] = "resource" THEN "find" ELSE IF "home" \in asks THEN "destination" ELSE "write")
          /\ read' = [read EXCEPT ![r] = IF t[1] = "resource" THEN P!Nothing ELSE row[t]]
    BY <1>2 DEF P!Change
  <2>2. PICK covers \in P!Covered(t) : \E asks \in (SUBSET covers) \ {{}} :
          /\ want' = [want EXCEPT ![r] = [by |-> u, of |-> t, covers |-> covers, asks |-> asks, to |-> p]]
          /\ P!Goes(r, IF t[1] = "resource" THEN "find" ELSE IF "home" \in asks THEN "destination" ELSE "write")
    BY <2>1
  <2>3. PICK asks \in (SUBSET covers) \ {{}} :
          /\ want' = [want EXCEPT ![r] = [by |-> u, of |-> t, covers |-> covers, asks |-> asks, to |-> p]]
          /\ P!Goes(r, IF t[1] = "resource" THEN "find" ELSE IF "home" \in asks THEN "destination" ELSE "write")
    BY <2>2
  <2>4. covers \subseteq P!Columns /\ asks \subseteq covers
    <3>1. covers \subseteq P!Columns
      BY DEF P!Covered, P!Columns
    <3>2. asks \in SUBSET covers
      OBVIOUS
    <3> QED BY <3>1, <3>2
  <2> DEFINE w == [by |-> u, of |-> t, covers |-> covers, asks |-> asks, to |-> p]
  <2>5. w \in Asked /\ w.asks \subseteq w.covers
    BY <2>4, RowsAre DEF Asked
  <2>6. want' = [want EXCEPT ![r] = w]
    BY <2>3
  <2> HIDE DEF w
  <2>7. want' \in [Handlers -> Asked] /\ \A q \in Handlers : want'[q].asks \subseteq want'[q].covers
    BY <2>5, <2>6
  <2>8. portalPc' \in [Handlers -> Stages]
    BY <2>3, GoesEffect DEF Stages
  <2>9. read' \in [Handlers -> [P!Columns -> P!Values]]
    BY <2>1, RowsAre, UnaskedTyped
  <2> QED BY <1>1, <2>7, <2>8, <2>9, RestTyped
<1>3. CASE P!CheckDestination(r)
  <2>1. P!Ends(r) \/ (P!Goes(r, "write") /\ UNCHANGED <<want, read>>)
    BY <1>3 DEF P!CheckDestination
  <2>2. /\ portalPc' \in [Handlers -> Stages] /\ want' \in [Handlers -> Asked]
        /\ read' \in [Handlers -> [P!Columns -> P!Values]] /\ \A q \in Handlers : want'[q].asks \subseteq want'[q].covers
    BY <2>1, EndsEffect, GoesEffect DEF Stages
  <2> QED BY <1>1, <2>2, RestTyped
<1>4. CASE P!FindResource(r)
  <2>1. P!Ends(r) \/ (P!Goes(r, "write") /\ UNCHANGED want /\ read' = [read EXCEPT ![r] = row[want[r].of]])
    BY <1>4 DEF P!FindResource
  <2>0. row[want[r].of] \in [P!Columns -> P!Values]
    OBVIOUS
  <2>2. /\ portalPc' \in [Handlers -> Stages] /\ want' \in [Handlers -> Asked]
        /\ read' \in [Handlers -> [P!Columns -> P!Values]] /\ \A q \in Handlers : want'[q].asks \subseteq want'[q].covers
    <3>1. CASE P!Ends(r)
      BY <3>1, EndsEffect
    <3>2. CASE P!Goes(r, "write") /\ UNCHANGED want /\ read' = [read EXCEPT ![r] = row[want[r].of]]
      BY <2>0, <3>2, GoesEffect DEF Stages
    <3> QED BY <2>1, <3>1, <3>2
  <2> QED BY <1>1, <2>2, RestTyped
<1>5. CASE P!Remove(r) \/ P!AddResource(r)
  <2>1. PICK u \in Users, t \in P!Rows : want' = [want EXCEPT ![r] = [@ EXCEPT !.by = u, !.of = t]]
    BY <1>5, RowsAre DEF P!Remove, P!AddResource
  <2>2. want' \in [Handlers -> Asked] /\ \A q \in Handlers : want'[q].asks \subseteq want'[q].covers
    BY <2>1, AskedChanges
  <2>3. portalPc' \in [Handlers -> Stages]
    BY <1>5, GoesEffect DEF Stages, P!Remove, P!AddResource
  <2>4. UNCHANGED read
    BY <1>5 DEF P!Remove, P!AddResource
  <2> QED BY <1>1, <2>2, <2>3, <2>4, RestTyped
<1> QED BY <1>2, <1>3, <1>4, <1>5

LEMMA WriteTypes ==
  ASSUME Types, NEW r \in Handlers, P!InsertResource(r) \/ P!Write(r) \/ P!Delete(r) \/ P!Refuse(r)
  PROVE  Types'
<1> USE TypesAre DEF Types
<1>1. P!Ends(r)
  BY DEF P!InsertResource, P!Inserted, P!Write, P!Delete, P!Refuse
<1>2. CASE P!InsertResource(r)
  <2>1. resource' \subseteq OldResources \cup Handlers
    BY <1>2 DEF P!InsertResource
  <2>2. UNCHANGED <<org, portalRole, slug, app, personal, crossed, raced>>
    BY <1>2 DEF P!InsertResource
  <2>3. row' \in [P!Rows -> [P!Columns -> P!Values]] /\ expected' \in [P!Rows -> [P!Columns -> P!Values]]
    <3>1. CASE want[r].of[2] \in app
      <4>1. P!Inserted(r, <<"resource", r>>, want[r].of[2]) /\ want[r].of[2] \in P!Values
        BY <1>2, <3>1 DEF P!InsertResource, P!Values, P!Orgs
      <4>2. [home |-> want[r].of[2], text |-> r, extra |-> r] \in [P!Columns -> P!Values]
        BY <4>1, RowsAre, Filled
      <4> QED BY <4>1, <4>2, RowsAre DEF P!Inserted
    <3>2. CASE want[r].of[2] \notin app
      BY <1>2, <3>2 DEF P!InsertResource
    <3> QED BY <3>1, <3>2
  <2> QED BY <1>1, <2>1, <2>2, <2>3, EndsEffect, RestTyped
<1>3. CASE P!Write(r)
  <2>1. UNCHANGED <<org, portalRole, slug, app, resource, personal, raced>>
    BY <1>3 DEF P!Write
  <2>2. \A c \in P!Columns : P!New(r, c) \in P!Values /\ P!AsRead(r, c) \in P!Values
    BY RowsAre DEF P!New, P!AsRead
  <2>3. row' \in [P!Rows -> [P!Columns -> P!Values]] /\ expected' \in [P!Rows -> [P!Columns -> P!Values]] /\ crossed' \subseteq P!Rows
    <3>1. CASE want[r].of \in P!There
      <4> DEFINE t == want[r].of
                 v == [c \in P!Columns |-> IF c \in want[r].asks THEN P!New(r, c)
                                           ELSE IF c \in want[r].covers THEN P!AsRead(r, c) ELSE row[t][c]]
                 e == [c \in P!Columns |-> IF c \in want[r].asks THEN P!New(r, c) ELSE expected[t][c]]
      <4>1. row' = [row EXCEPT ![t] = v] /\ expected' = [expected EXCEPT ![t] = e]
            /\ crossed' \subseteq crossed \cup {t}
        BY <1>3, <3>1 DEF P!Write
      <4>2. t \in P!Rows
        OBVIOUS
      <4>3. v \in [P!Columns -> P!Values] /\ e \in [P!Columns -> P!Values]
        BY <2>2, <4>2
      <4> HIDE DEF v, e
      <4> QED BY <4>1, <4>2, <4>3
    <3>2. CASE want[r].of \notin P!There
      BY <1>3, <3>2 DEF P!Write
    <3> QED BY <3>1, <3>2
  <2> QED BY <1>1, <2>1, <2>3, EndsEffect, RestTyped
<1>4. CASE P!Delete(r)
  <2>1. UNCHANGED <<org, portalRole, slug, personal, crossed, raced>> /\ app' \subseteq app /\ resource' \subseteq resource
    BY <1>4 DEF P!Delete
  <2>2. row' \in [P!Rows -> [P!Columns -> P!Values]] /\ expected' \in [P!Rows -> [P!Columns -> P!Values]]
    BY <1>4, UnaskedTyped DEF P!Delete
  <2> QED BY <1>1, <2>1, <2>2, EndsEffect, RestTyped
<1>5. CASE P!Refuse(r)
  <2>1. UNCHANGED <<org, portalRole, slug, app, resource, row, expected, crossed>>
    BY <1>5 DEF P!Refuse, P!tableVars
  <2>2. personal' \in [Users -> SUBSET Handlers] /\ raced' \subseteq Users \cup Handlers
    BY <1>5 DEF P!Refuse
  <2> QED BY <1>1, <2>1, <2>2, EndsEffect, RestTyped
<1> QED BY <1>2, <1>3, <1>4, <1>5

LEMMA SetRoleTypes ==
  ASSUME Types, P!SetRole
  PROVE  Types'
<1> USE TypesAre DEF Types
<1>1. UNCHANGED <<org, slug, app, resource, row, portalPc, want, read, personal, expected, crossed>>
  BY DEF P!SetRole, P!requestVars
<1>2. portalRole' \in [P!Orgs -> [Users -> {"none", "viewer", "admin", "owner"}]] /\ raced' \subseteq Users \cup Handlers
  <2>1. PICK o \in OldOrgs, u \in Users, new \in {"none", "viewer", "admin"} :
          portalRole' = [portalRole EXCEPT ![o][u] = new] /\ raced' = IF new = "none" THEN raced \cup {u} ELSE raced
    BY DEF P!SetRole
  <2> QED BY <2>1 DEF P!Orgs
<1> QED BY <1>1, <1>2, RestTyped

-----------------------------------------------------------------------------

\* The other requests are where they were.
Still(r) == \A q \in Handlers \ {r} : portalPc'[q] = portalPc[q] /\ want'[q] = want[q]

\* A step that touches no workspace.
LEMMA OutsideKeeps ==
  ASSUME Types, WorkspaceInv, NEW r \in Handlers, Still(r), UNCHANGED <<org, portalRole, slug, personal, raced>>,
         portalPc[r] \notin {"slug", "organization", "member"}, portalPc'[r] \notin {"idle", "slug", "organization", "member"}
  PROVE  WorkspaceInv'
<1> USE TypesAre DEF Types
<1>1. P!Opening' = P!Opening /\ r \notin P!Opening
  BY DEF P!Opening, Still
<1>2. ASSUME NEW q \in Handlers PROVE Making(q)'
  <2>1. Making(q)
    BY DEF WorkspaceInv
  <2> QED BY <1>1, <2>1 DEF Making, Still
<1>3. ASSUME NEW q \in Handlers PROVE (q \in raced \/ Alone(q))'
  <2>1. q \in raced \/ Alone(q)
    BY DEF WorkspaceInv
  <2>2. \A n : P!Free(n)' = P!Free(n)
    BY DEF P!Free
  <2>3. portalPc[q] \in {"organization"} => portalPc'[q] = portalPc[q]
    BY DEF Still
  <2>4. portalPc'[q] # "member" => portalPc[q] # "member"
    BY DEF Still
  <2> QED BY <1>1, <2>1, <2>2, <2>3, <2>4 DEF Alone
<1>4. ASSUME NEW u \in Users \ raced' PROVE Personal(u)'
  BY <1>1, <1>4 DEF WorkspaceInv, Personal
<1> QED BY <1>2, <1>3, <1>4 DEF WorkspaceInv

LEMMA OpensKeeps ==
  ASSUME Types, WorkspaceInv, NEW r \in Handlers, NEW u \in Users, NEW b \in BOOLEAN,
         portalPc[r] = "idle", b => P!Memberships(u) = {}, P!Opens(r, u, b), Still(r), want'[r].by = u,
         UNCHANGED <<org, portalRole, slug>>
  PROVE  WorkspaceInv'
<1> USE TypesAre DEF Types
<1>1. P!Opening' = P!Opening \cup {r} /\ r \notin P!Opening /\ portalPc'[r] = "slug"
  BY DEF P!Opening, P!Opens, P!Goes, Still
<1>2. /\ \A v \in Users : personal'[v] = IF b /\ v = u THEN personal[v] \cup {r} ELSE personal[v]
      /\ raced \subseteq raced' /\ (P!Opening # {} => r \in raced' /\ P!Opening \subseteq raced')
      /\ (b /\ P!Opening \cap personal[u] # {} => u \in raced')
  BY DEF P!Opens
<1>3. ASSUME NEW q \in Handlers PROVE Making(q)'
  <2>1. Making(q) /\ Making(r)
    BY DEF WorkspaceInv
  <2>2. CASE q = r
    <3>1. ~(slug[r] > 0) /\ r \notin org /\ \A v \in Users : r \notin personal[v]
      BY <2>1 DEF Making
    <3>2. \A v \in Users : r \in personal'[v] => v = u
      BY <1>2, <3>1
    <3> QED BY <1>1, <2>2, <3>1, <3>2 DEF Making
  <2>3. CASE q # r
    <3>1. portalPc'[q] = portalPc[q] /\ want'[q] = want[q] /\ (q \in P!Opening' => q \in P!Opening)
      BY <1>1, <2>3 DEF Still
    <3>2. \A v \in Users : q \in personal'[v] => q \in personal[v]
      <4>1. \A v \in Users : personal'[v] \subseteq personal[v] \cup {r}
        BY DEF P!Opens
      <4> QED BY <2>3, <4>1
    <3> QED BY <2>1, <3>1, <3>2 DEF Making
  <2> QED BY <2>2, <2>3
<1>4. ASSUME NEW q \in Handlers PROVE (q \in raced \/ Alone(q))'
  <2>1. q \in raced \/ Alone(q)
    BY DEF WorkspaceInv
  <2>2. \A n : P!Free(n)' = P!Free(n)
    BY DEF P!Free
  <2>3. Making(r)
    BY DEF WorkspaceInv
  <2>4. CASE q = r /\ P!Opening = {}
    <3>1. ~(slug[r] > 0) /\ r \notin org
      BY <2>3 DEF Making
    <3> QED BY <1>1, <2>4, <3>1 DEF Alone
  <2>5. CASE q # r /\ q \notin P!Opening
    <3>1. portalPc'[q] = portalPc[q]
      BY <2>5 DEF Still
    <3> QED BY <1>1, <1>2, <2>1, <2>2, <2>5, <3>1 DEF Alone
  <2> QED BY <1>2, <2>4, <2>5
<1>5. ASSUME NEW v \in Users \ raced' PROVE Personal(v)'
  <2>1. Personal(v) /\ v \notin raced
    BY <1>2 DEF WorkspaceInv
  <2>2. CASE v = u /\ b
    <3>1. personal[u] = {}
      <4>1. P!Opening \cap personal[u] = {}
        BY <1>2, <1>5, <2>2
      <4>2. \A q \in personal[u] : q \in P!Memberships(u)
        BY <2>1, <2>2, <4>1 DEF Personal, P!Memberships
      <4> QED BY <2>2, <4>2
    <3>2. personal'[v] = {r}
      BY <1>2, <2>2, <3>1
    <3>3. r \in P!Opening'
      BY <1>1
    <3> QED BY <3>2, <3>3 DEF Personal
  <2>3. CASE ~(v = u /\ b)
    BY <1>1, <1>2, <2>1, <2>3 DEF Personal
  <2> QED BY <2>2, <2>3
<1> QED BY <1>3, <1>4, <1>5 DEF WorkspaceInv

LEMMA ChooseSlugKeeps ==
  ASSUME Types, WorkspaceInv, NEW r \in Handlers, P!ChooseSlug(r)
  PROVE  WorkspaceInv'
<1> USE TypesAre DEF Types
<1>1. PICK n \in 1 .. P!Cardinality(P!Orgs) : P!Free(n) /\ slug' = [slug EXCEPT ![r] = n]
  BY DEF P!ChooseSlug
<1>2. /\ portalPc[r] = "slug" /\ portalPc'[r] = "organization" /\ UNCHANGED <<org, portalRole, personal, raced>>
      /\ Still(r) /\ P!Opening' = P!Opening /\ r \in P!Opening
  BY DEF P!ChooseSlug, P!Goes, Still, P!Opening, P!historyVars
<1>3. r \in P!Orgs /\ r \notin org /\ n \in Nat
  <2>1. Making(r)
    BY DEF WorkspaceInv
  <2> QED BY <1>2, <2>1 DEF Making, P!Orgs
<1>4. slug'[r] = n /\ \A o \in P!Orgs \ {r} : slug'[o] = slug[o]
  BY <1>1, <1>3
<1>5. \A m : P!Free(m)' = P!Free(m)
  BY <1>2, <1>3, <1>4 DEF P!Free
<1>6. ASSUME NEW q \in Handlers PROVE Making(q)'
  <2>1. Making(q)
    BY DEF WorkspaceInv
  <2>2. CASE q = r
    <3>1. want'[r] = want[r]
      BY DEF P!ChooseSlug
    <3> QED BY <1>2, <1>3, <2>1, <2>2, <3>1 DEF Making
  <2>3. CASE q # r
    <3>1. slug'[q] = slug[q]
      BY <1>4, <2>3 DEF P!Orgs
    <3> QED BY <1>2, <2>1, <2>3, <3>1 DEF Making, Still
  <2> QED BY <2>2, <2>3
<1>7. ASSUME NEW q \in Handlers PROVE (q \in raced \/ Alone(q))'
  <2>1. q \in raced \/ Alone(q)
    BY DEF WorkspaceInv
  <2>2. CASE q = r
    BY <1>1, <1>2, <1>3, <1>4, <1>5, <2>1, <2>2 DEF Alone
  <2>3. CASE q # r
    <3>1. slug'[q] = slug[q] /\ portalPc'[q] = portalPc[q]
      BY <1>2, <1>4, <2>3 DEF P!Orgs, Still
    <3> QED BY <1>2, <1>5, <2>1, <3>1 DEF Alone
  <2> QED BY <2>2, <2>3
<1>8. \A u \in Users \ raced' : Personal(u)'
  BY <1>2 DEF WorkspaceInv, Personal
<1> QED BY <1>6, <1>7, <1>8 DEF WorkspaceInv

LEMMA InsertOrganizationKeeps ==
  ASSUME Types, WorkspaceInv, NEW r \in Handlers, P!InsertOrganization(r)
  PROVE  WorkspaceInv'
<1> USE TypesAre DEF Types
<1>0. Making(r) /\ portalPc[r] = "organization" /\ r \in P!Opening /\ r \notin org
  BY DEF WorkspaceInv, P!InsertOrganization, Making, P!Opening
<1>1. UNCHANGED <<portalRole, slug, raced>>
  BY DEF P!InsertOrganization
<1>2. CASE \E o \in org : slug[o] = slug[r]
  <2>1. P!Ends(r) /\ UNCHANGED org /\ personal' = [u \in Users |-> personal[u] \ {r}]
    BY <1>2 DEF P!InsertOrganization
  <2>2. portalPc'[r] = "done" /\ Still(r) /\ P!Opening' = P!Opening \ {r}
    BY <2>1, EndsEffect DEF Still, P!Opening
  <2>3. \A q \in Handlers : Making(q)'
    <3> SUFFICES ASSUME NEW q \in Handlers PROVE Making(q)'
      OBVIOUS
    <3>1. Making(q)
      BY DEF WorkspaceInv
    <3>2. CASE q = r
      BY <1>0, <1>1, <2>1, <2>2, <3>2 DEF Making
    <3>3. CASE q # r
      BY <1>1, <2>1, <2>2, <3>1, <3>3 DEF Making, Still
    <3> QED BY <3>2, <3>3
  <2>4. \A q \in Handlers : (q \in raced \/ Alone(q))'
    <3> SUFFICES ASSUME NEW q \in Handlers PROVE (q \in raced \/ Alone(q))'
      OBVIOUS
    <3>1. q \in raced \/ Alone(q)
      BY DEF WorkspaceInv
    <3>2. \A n : P!Free(n)' = P!Free(n)
      BY <1>1, <2>1 DEF P!Free
    <3>3. CASE q = r
      <4>1. slug[r] > 0 => ~P!Free(slug[r])
        BY <1>2 DEF P!Free
      <4> QED BY <1>0, <1>1, <2>1, <2>2, <3>1, <3>3, <4>1 DEF Alone
    <3>4. CASE q # r
      BY <1>0, <1>1, <2>1, <2>2, <3>1, <3>2, <3>4 DEF Alone, Still
    <3> QED BY <3>3, <3>4
  <2>5. \A u \in Users \ raced' : Personal(u)'
    BY <1>1, <2>1, <2>2 DEF WorkspaceInv, Personal
  <2> QED BY <2>3, <2>4, <2>5 DEF WorkspaceInv
<1>3. CASE ~\E o \in org : slug[o] = slug[r]
  <2>1. P!Goes(r, "member") /\ org' = org \cup {r} /\ UNCHANGED <<want, read, personal>>
    BY <1>3 DEF P!InsertOrganization
  <2>2. portalPc'[r] = "member" /\ Still(r) /\ P!Opening' = P!Opening
    BY <1>0, <2>1 DEF Still, P!Opening, P!Goes
  <2>3. \A q \in Handlers : Making(q)'
    <3> SUFFICES ASSUME NEW q \in Handlers PROVE Making(q)'
      OBVIOUS
    <3>1. Making(q)
      BY DEF WorkspaceInv
    <3>2. CASE q = r
      BY <1>0, <1>1, <2>1, <2>2, <3>2 DEF Making
    <3>3. CASE q # r
      BY <1>1, <2>1, <2>2, <3>1, <3>3 DEF Making, Still
    <3> QED BY <3>2, <3>3
  <2>4. \A q \in Handlers : (q \in raced \/ Alone(q))'
    <3> SUFFICES ASSUME NEW q \in Handlers PROVE (q \in raced \/ Alone(q))'
      OBVIOUS
    <3>1. q \in raced \/ Alone(q)
      BY DEF WorkspaceInv
    <3>2. CASE q = r
      BY <1>0, <1>1, <2>1, <2>2, <3>1, <3>2 DEF Alone
    <3>3. CASE q # r
      <4>1. portalPc[q] = "organization" => q \in P!Opening
        BY DEF P!Opening
      <4> QED BY <1>0, <1>1, <2>1, <2>2, <3>1, <3>3, <4>1 DEF Alone, Still
    <3> QED BY <3>2, <3>3
  <2>5. \A u \in Users \ raced' : Personal(u)'
    BY <1>1, <2>1, <2>2 DEF WorkspaceInv, Personal
  <2> QED BY <2>3, <2>4, <2>5 DEF WorkspaceInv
<1> QED BY <1>2, <1>3

LEMMA InsertOwnerKeeps ==
  ASSUME Types, WorkspaceInv, NEW r \in Handlers, P!InsertOwner(r)
  PROVE  WorkspaceInv'
<1> USE TypesAre DEF Types
<1>0. Making(r) /\ portalPc[r] = "member" /\ r \in P!Opening /\ r \in org /\ r \in P!Orgs /\ want[r].by \in Users
  BY DEF WorkspaceInv, P!InsertOwner, Making, P!Opening, P!Orgs
<1>1. UNCHANGED <<org, slug, personal, raced>>
  BY DEF P!InsertOwner, P!historyVars
<1>2. /\ portalRole'[r][want[r].by] = "owner"
      /\ \A o \in P!Orgs, u \in Users : portalRole'[o][u] = IF o = r /\ u = want[r].by THEN "owner" ELSE portalRole[o][u]
  BY <1>0 DEF P!InsertOwner
<1>3. portalPc'[r] \in {"admit", "done"} /\ Still(r) /\ P!Opening' = P!Opening \ {r}
  <2>1. CASE P!Ends(r)
    BY <2>1, EndsEffect DEF Still, P!Opening
  <2>2. CASE P!Goes(r, "admit") /\ want' = [want EXCEPT ![r].to = IF @ = None THEN r ELSE @]
    BY <2>2 DEF P!Goes, Still, P!Opening
  <2> QED BY <2>1, <2>2 DEF P!InsertOwner
<1>4. \A q \in Handlers : Making(q)'
  <2> SUFFICES ASSUME NEW q \in Handlers PROVE Making(q)'
    OBVIOUS
  <2>1. Making(q)
    BY DEF WorkspaceInv
  <2>2. CASE q = r
    BY <1>0, <1>1, <1>3, <2>1, <2>2 DEF Making
  <2>3. CASE q # r
    BY <1>1, <1>3, <2>1, <2>3 DEF Making, Still
  <2> QED BY <2>2, <2>3
<1>5. \A q \in Handlers : (q \in raced \/ Alone(q))'
  <2> SUFFICES ASSUME NEW q \in Handlers PROVE (q \in raced \/ Alone(q))'
    OBVIOUS
  <2>1. q \in raced \/ Alone(q)
    BY DEF WorkspaceInv
  <2>2. \A n : P!Free(n)' = P!Free(n)
    BY <1>1 DEF P!Free
  <2>3. CASE q = r
    <3>1. \E u \in Users : portalRole'[r][u] = "owner"
      BY <1>0, <1>2
    <3> QED BY <1>0, <1>1, <1>3, <2>3, <3>1 DEF Alone
  <2>4. CASE q # r
    <3>1. \A u \in Users : portalRole'[q][u] = portalRole[q][u]
      BY <1>2, <2>4 DEF P!Orgs
    <3> QED BY <1>0, <1>1, <1>3, <2>1, <2>2, <2>4, <3>1 DEF Alone, Still
  <2> QED BY <2>3, <2>4
<1>6. \A u \in Users \ raced' : Personal(u)'
  <2> SUFFICES ASSUME NEW u \in Users \ raced PROVE Personal(u)'
    BY <1>1
  <2>1. Personal(u)
    BY DEF WorkspaceInv
  <2>2. \A q \in personal[u] : q \in Handlers /\ q \in P!Orgs
    BY DEF P!Orgs
  <2>3. r \in personal[u] => want[r].by = u
    BY <1>0 DEF Making
  <2> QED BY <1>0, <1>1, <1>2, <1>3, <2>1, <2>2, <2>3 DEF Personal
<1> QED BY <1>4, <1>5, <1>6 DEF WorkspaceInv

LEMMA RefuseKeeps ==
  ASSUME Types, WorkspaceInv, NEW r \in Handlers, P!Refuse(r)
  PROVE  WorkspaceInv'
<1> USE TypesAre DEF Types
<1>0. Making(r) /\ portalPc[r] \notin {"idle", "done"}
  BY DEF WorkspaceInv, P!Refuse
<1>1. UNCHANGED <<org, portalRole, slug>> /\ P!Ends(r)
  BY DEF P!Refuse, P!tableVars
<1>2. /\ raced \subseteq raced' /\ r \in raced'
      /\ \A u \in Users : portalPc[r] = "member" /\ r \in personal[u] => u \in raced'
      /\ \A u \in Users : personal'[u] = IF portalPc[r] \in {"slug", "organization"} THEN personal[u] \ {r} ELSE personal[u]
  BY DEF P!Refuse
<1>3. portalPc'[r] = "done" /\ Still(r) /\ P!Opening' = P!Opening \ {r}
  BY <1>1, EndsEffect DEF Still, P!Opening
<1>4. \A q \in Handlers : Making(q)'
  <2> SUFFICES ASSUME NEW q \in Handlers PROVE Making(q)'
    OBVIOUS
  <2>1. Making(q)
    BY DEF WorkspaceInv
  <2>2. CASE q = r
    BY <1>0, <1>1, <1>2, <1>3, <2>1, <2>2 DEF Making
  <2>3. CASE q # r
    BY <1>1, <1>2, <1>3, <2>1, <2>3 DEF Making, Still
  <2> QED BY <2>2, <2>3
<1>5. \A q \in Handlers : (q \in raced \/ Alone(q))'
  <2> SUFFICES ASSUME NEW q \in Handlers PROVE (q \in raced \/ Alone(q))'
    OBVIOUS
  <2>1. q \in raced \/ Alone(q)
    BY DEF WorkspaceInv
  <2>2. \A n : P!Free(n)' = P!Free(n)
    BY <1>1 DEF P!Free
  <2> QED BY <1>1, <1>2, <1>3, <2>1, <2>2 DEF Alone, Still
<1>6. \A u \in Users \ raced' : Personal(u)'
  <2> SUFFICES ASSUME NEW u \in Users \ raced' PROVE Personal(u)'
    OBVIOUS
  <2>1. Personal(u)
    BY <1>2 DEF WorkspaceInv
  <2>2. r \in P!Opening /\ r \in personal'[u] => FALSE
    BY <1>2 DEF P!Opening
  <2> QED BY <1>1, <1>2, <1>3, <2>1, <2>2 DEF Personal
<1> QED BY <1>4, <1>5, <1>6 DEF WorkspaceInv

LEMMA SetRoleKeeps ==
  ASSUME Types, WorkspaceInv, P!SetRole
  PROVE  WorkspaceInv'
<1> USE TypesAre DEF Types
<1>1. UNCHANGED <<org, slug, portalPc, want, personal>> /\ raced \subseteq raced'
  BY DEF P!SetRole, P!requestVars
<1>2. \A q \in Handlers, u \in Users : portalRole'[q][u] = portalRole[q][u]
  <2>1. PICK o \in OldOrgs, u \in Users, new \in {"none", "viewer", "admin"} :
          portalRole' = [portalRole EXCEPT ![o][u] = new]
    BY DEF P!SetRole
  <2> QED BY <2>1, PortalAssumption DEF P!Orgs
<1>3. P!Opening' = P!Opening /\ \A n : P!Free(n)' = P!Free(n)
  BY <1>1 DEF P!Opening, P!Free
<1>4. \A q \in Handlers : Making(q)'
  BY <1>1, <1>3 DEF WorkspaceInv, Making
<1>5. \A q \in Handlers : (q \in raced \/ Alone(q))'
  BY <1>1, <1>2, <1>3 DEF WorkspaceInv, Alone
<1>6. \A u \in Users \ raced' : Personal(u)'
  BY <1>1, <1>2, <1>3 DEF WorkspaceInv, Personal
<1> QED BY <1>4, <1>5, <1>6 DEF WorkspaceInv

-----------------------------------------------------------------------------

LEMMA TagsDiffer ==
  \A q, r, a : /\ <<"app", q>> # <<"resource", a>> /\ <<"app", q>> # <<"org", a>> /\ <<"resource", q>> # <<"org", a>>
               /\ (<<"app", q>> = <<"app", r>> => q = r) /\ (<<"resource", q>> = <<"resource", r>> => q = r)
OBVIOUS

LEMMA ThereIs ==
  /\ \A a : <<"app", a>> \in P!There <=> a \in app
  /\ \A a : <<"resource", a>> \in P!There <=> a \in resource
  /\ \A a : <<"org", a>> \in P!There <=> a \in org
BY DEF P!There

\* A step that writes to no row: nobody else moves, and a request comes to write
\* with the row as it stands.
LEMMA ReadingKeeps ==
  ASSUME Types, EditInv, NEW r \in Handlers,
         UNCHANGED <<app, resource, row, expected, crossed>>, org \subseteq org',
         \A q \in Handlers \ {r} : portalPc'[q] = portalPc[q] /\ want'[q] = want[q] /\ read'[q] = read[q],
         portalPc[r] = "done" => portalPc'[r] = "done",
         Editing(r)'
  PROVE  EditInv'
<1> USE TypesAre DEF Types
<1>1. \A a : /\ <<"app", a>> \in P!There' <=> <<"app", a>> \in P!There
             /\ <<"resource", a>> \in P!There' <=> <<"resource", a>> \in P!There
  BY DEF P!There
<1>2. P!There \subseteq P!There' /\ \A t \in P!Rows : t[1] # "org" => (t \in P!There' <=> t \in P!There)
  BY DEF P!There, P!Rows
<1>3. ASSUME NEW q \in Handlers, q # r PROVE Editing(q)'
  <2>1. Editing(q)
    BY DEF EditInv
  <2>2. portalPc'[q] = portalPc[q] /\ want'[q] = want[q] /\ read'[q] = read[q]
    BY <1>3
  <2>3. portalPc[q] \in {"destination", "write"} /\ want[q].of \in P!There' => want[q].of \in P!There
    BY <1>2, <2>1 DEF Editing
  <2>4. \A p \in Handlers : portalPc[p] = "done" => portalPc'[p] = "done"
    OBVIOUS
  <2> QED BY <1>1, <1>2, <2>1, <2>2, <2>3, <2>4 DEF Editing
<1> QED BY <1>3 DEF EditInv

LEMMA AsideKeeps ==
  ASSUME Types, EditInv, NEW r \in Handlers,
         P!FirstUse(r) \/ P!CreateOrganization(r) \/ P!ChooseSlug(r) \/ P!InsertOrganization(r) \/ P!InsertOwner(r)
           \/ P!CreateApp(r) \/ P!Admit(r) \/ P!AddResource(r) \/ P!Refuse(r)
  PROVE  EditInv'
<1> USE TypesAre DEF Types
<1>1. UNCHANGED <<app, resource, row, expected, crossed>> /\ org \subseteq org'
  BY DEF P!FirstUse, P!CreateOrganization, P!ChooseSlug, P!InsertOrganization, P!InsertOwner, P!CreateApp, P!Admit, P!AddResource,
         P!Refuse, P!tableVars, P!historyVars
<1>2. /\ portalPc[r] # "done" /\ portalPc'[r] \in {"slug", "organization", "member", "admit", "application", "resource", "done"}
      /\ \A q \in Handlers \ {r} : portalPc'[q] = portalPc[q] /\ want'[q] = want[q] /\ read'[q] = read[q]
  <2>1. CASE P!FirstUse(r)
    BY <2>1 DEF P!FirstUse, P!Opens, P!Goes
  <2>2. CASE P!CreateOrganization(r)
    BY <2>2 DEF P!CreateOrganization, P!Opens, P!Goes
  <2>3. CASE P!ChooseSlug(r)
    BY <2>3 DEF P!ChooseSlug, P!Goes
  <2>4. CASE P!InsertOrganization(r)
    BY <2>4, EndsEffect DEF P!InsertOrganization, P!Goes
  <2>5. CASE P!InsertOwner(r)
    <3>1. portalPc[r] = "member" /\ (P!Ends(r) \/ (P!Goes(r, "admit") /\ UNCHANGED read /\
                   want' = [want EXCEPT ![r].to = IF @ = None THEN r ELSE @]))
      BY <2>5 DEF P!InsertOwner
    <3> QED BY <3>1, EndsEffect DEF P!Goes
  <2>6. CASE P!CreateApp(r)
    <3>1. portalPc[r] = "idle" /\ UNCHANGED read
      BY <2>6 DEF P!CreateApp
    <3>2. PICK u \in Users, o \in org \cup {None} :
            IF P!Memberships(u) = {}
            THEN /\ want' = [want EXCEPT ![r] = [@ EXCEPT !.by = u, !.of = <<"app", r>>, !.to = o]]
                 /\ P!Opens(r, u, TRUE)
            ELSE /\ \E p \in P!Highest(u) :
                      want' = [want EXCEPT ![r] = [@ EXCEPT !.by = u, !.of = <<"app", r>>,
                                                            !.to = IF o = None THEN p ELSE o]]
                 /\ P!Goes(r, "admit")
                 /\ UNCHANGED <<personal, raced>>
      BY <2>6 DEF P!CreateApp
    <3>3. portalPc'[r] \in {"slug", "admit"} /\ \A q \in Handlers \ {r} : portalPc'[q] = portalPc[q]
      BY <3>2 DEF P!Opens, P!Goes
    <3>4. \A q \in Handlers \ {r} : want'[q] = want[q]
      BY <3>2
    <3> QED BY <3>1, <3>3, <3>4
  <2>7. CASE P!Admit(r)
    BY <2>7, EndsEffect DEF P!Admit, P!Goes
  <2>8. CASE P!AddResource(r)
    BY <2>8 DEF P!AddResource, P!Goes
  <2>9. CASE P!Refuse(r)
    BY <2>9, EndsEffect DEF P!Refuse
  <2> QED BY <2>1, <2>2, <2>3, <2>4, <2>5, <2>6, <2>7, <2>8, <2>9
<1>3. Editing(r)'
  <2>1. Editing(r)
    BY DEF EditInv
  <2> QED BY <1>1, <1>2, <2>1, ThereIs DEF Editing, P!There
<1> QED BY <1>1, <1>2, <1>3, ReadingKeeps

LEMMA ChangeKeeps ==
  ASSUME Types, EditInv, NEW r \in Handlers, P!Change(r) \/ P!CheckDestination(r) \/ P!FindResource(r) \/ P!Remove(r)
  PROVE  EditInv'
<1> USE TypesAre DEF Types
<1>1. UNCHANGED <<org, app, resource, row, expected, crossed>> /\ P!There' = P!There
  BY DEF P!Change, P!CheckDestination, P!FindResource, P!Remove, P!tableVars, P!historyVars, P!There
<1>2. Editing(r) /\ portalPc[r] \in {"idle", "destination", "find"}
  BY DEF EditInv, P!Change, P!CheckDestination, P!FindResource, P!Remove
<1>3. <<"app", r>> \notin P!There' /\ <<"resource", r>> \notin P!There'
  BY <1>1, <1>2 DEF Editing
<1>4. \A q \in Handlers : \A t \in P!There : t \in {<<"app", q>>, <<"resource", q>>} => portalPc[q] = "done" /\ q # r
  BY <1>1, <1>2, <1>3 DEF EditInv, Editing
<1>5. (\A q \in Handlers \ {r} : portalPc'[q] = portalPc[q] /\ want'[q] = want[q] /\ read'[q] = read[q]) /\ Editing(r)'
  <2>1. CASE P!Change(r)
    <3>1. PICK u \in Users, t \in P!There, p \in org \cup {None} :
            /\ P!IsAdmin(u, P!Home(t))
            /\ \E covers \in P!Covered(t) :
               \E asks \in (SUBSET covers) \ {{}} :
                 /\ IF "home" \in asks THEN p \notin {None, row[t]["home"]} ELSE p = None
                 /\ want' = [want EXCEPT ![r] = [by |-> u, of |-> t, covers |-> covers, asks |-> asks, to |-> p]]
                 /\ P!Goes(r, IF t[1] = "resource" THEN "find" ELSE IF "home" \in asks THEN "destination" ELSE "write")
            /\ read' = [read EXCEPT ![r] = IF t[1] = "resource" THEN P!Nothing ELSE row[t]]
      BY <2>1 DEF P!Change
    <3>2. /\ want'[r].of = t /\ \A q \in Handlers \ {r} : want'[q] = want[q] /\ portalPc'[q] = portalPc[q]
          /\ portalPc'[r] \in {"find", "destination", "write"} /\ (portalPc'[r] = "find" <=> t[1] = "resource")
      BY <3>1 DEF P!Goes
    <3>3. read'[r] = (IF t[1] = "resource" THEN P!Nothing ELSE row[t]) /\ \A q \in Handlers \ {r} : read'[q] = read[q]
      BY <3>1
    <3>4. \A q \in Handlers : t \in {<<"app", q>>, <<"resource", q>>} => portalPc'[q] = "done"
      BY <1>4, <3>2
    <3> QED BY <1>1, <1>3, <3>2, <3>3, <3>4 DEF Editing
  <2>2. CASE P!CheckDestination(r)
    <3>1. CASE P!Ends(r)
      BY <1>3, <3>1, EndsEffect DEF Editing
    <3>2. CASE P!Goes(r, "write") /\ UNCHANGED <<want, read>>
      <4>1. portalPc[r] = "destination" /\ portalPc'[r] = "write" /\ \A q \in Handlers \ {r} : portalPc'[q] = portalPc[q]
        BY <2>2, <3>2 DEF P!Goes, P!CheckDestination
      <4>2. \A q \in Handlers : want[r].of \in {<<"app", q>>, <<"resource", q>>} => portalPc'[q] = "done"
        BY <1>2, <4>1 DEF Editing
      <4> QED BY <1>1, <1>2, <1>3, <3>2, <4>1, <4>2 DEF Editing
    <3> QED BY <2>2, <3>1, <3>2 DEF P!CheckDestination
  <2>3. CASE P!FindResource(r)
    <3>1. CASE P!Ends(r)
      BY <1>3, <3>1, EndsEffect DEF Editing
    <3>2. CASE P!Goes(r, "write") /\ UNCHANGED want /\ read' = [read EXCEPT ![r] = row[want[r].of]] /\ want[r].of \in P!There
      <4>1. portalPc[r] = "find" /\ portalPc'[r] = "write" /\ \A q \in Handlers \ {r} : portalPc'[q] = portalPc[q]
        BY <2>3, <3>2 DEF P!Goes, P!FindResource
      <4>2. \A q \in Handlers : want[r].of \in {<<"app", q>>, <<"resource", q>>} => portalPc'[q] = "done"
        BY <1>4, <3>2, <4>1
      <4>3. read'[r] = row[want[r].of] /\ \A q \in Handlers \ {r} : read'[q] = read[q]
        BY <3>2
      <4> QED BY <1>1, <1>2, <1>3, <3>2, <4>1, <4>2, <4>3 DEF Editing
    <3> QED BY <2>3, <3>1, <3>2 DEF P!FindResource
  <2>4. CASE P!Remove(r)
    <3>1. PICK u \in Users, t \in P!There : t[1] # "org" /\ want' = [want EXCEPT ![r] = [@ EXCEPT !.by = u, !.of = t]]
      BY <2>4 DEF P!Remove
    <3>2. portalPc'[r] = "delete" /\ UNCHANGED read /\ \A q \in Handlers \ {r} : portalPc'[q] = portalPc[q]
      BY <2>4 DEF P!Remove, P!Goes
    <3>3. want'[r].of = t /\ \A q \in Handlers \ {r} : want'[q] = want[q]
      BY <3>1
    <3> QED BY <1>3, <3>1, <3>2, <3>3 DEF Editing
  <2> QED BY <2>1, <2>2, <2>3, <2>4
<1> QED BY <1>1, <1>2, <1>5, ReadingKeeps

\* A request whose statement is its last.
LEMMA LastStatement ==
  ASSUME Types, NEW r \in Handlers, P!Ends(r)
  PROVE  /\ Editing(r)' /\ portalPc'[r] = "done"
         /\ \A q \in Handlers \ {r} : portalPc'[q] = portalPc[q] /\ want'[q] = want[q] /\ read'[q] = read[q]
BY EndsEffect DEF Editing

LEMMA WriteKeeps ==
  ASSUME Types, EditInv, NEW r \in Handlers, P!Write(r)
  PROVE  EditInv'
<1> USE TypesAre DEF Types
<1> DEFINE t == want[r].of
<1>1. UNCHANGED <<org, app, resource>> /\ P!There' = P!There /\ P!Ends(r) /\ portalPc[r] = "write" /\ Editing(r) /\ t \in P!Rows
  BY DEF P!Write, P!There, EditInv
<1>2. crossed \subseteq crossed' /\ \A p \in P!Rows \ {t} : row'[p] = row[p] /\ expected'[p] = expected[p]
  BY DEF P!Write
<1>3. P!Others(r, t) # {} /\ t \in P!There => t \in crossed'
  BY DEF P!Write
<1>4. t \notin P!There => UNCHANGED <<row, expected, crossed>>
  BY DEF P!Write
<1> HIDE DEF t
<1>5. ASSUME NEW q \in Handlers, q # r PROVE Editing(q)'
  <2>1. Editing(q) /\ portalPc'[q] = portalPc[q] /\ want'[q] = want[q] /\ read'[q] = read[q] /\ want[q].of \in P!Rows
    BY <1>1, <1>5, LastStatement DEF EditInv
  <2>2. \A p \in Handlers : portalPc[p] = "done" => portalPc'[p] = "done"
    BY <1>1, LastStatement
  <2>3. portalPc[q] \in {"destination", "write"} /\ want[q].of \in P!There \ crossed' => row'[want[q].of] = row[want[q].of]
    <3>1. CASE want[q].of = t
      BY <1>3, <1>5, <3>1 DEF P!Others
    <3>2. CASE want[q].of # t
      BY <1>2, <2>1, <3>2
    <3> QED BY <3>1, <3>2
  <2> QED BY <1>1, <1>2, <2>1, <2>2, <2>3 DEF Editing
<1>6. ASSUME NEW p \in P!Rows \ crossed' PROVE row'[p] = expected'[p]
  <2>1. p \notin crossed /\ row[p] = expected[p]
    BY <1>2, <1>6 DEF EditInv
  <2>2. CASE p # t
    BY <1>2, <2>1, <2>2
  <2>3. CASE p = t /\ t \notin P!There
    BY <1>4, <2>1, <2>3
  <2>4. CASE p = t /\ t \in P!There
    <3>1. read[r] = row[t]
      BY <1>1, <2>1, <2>4 DEF Editing, t
    <3>2. /\ row'[t] = [c \in P!Columns |-> IF c \in want[r].asks THEN P!New(r, c)
                          ELSE IF c \in want[r].covers THEN P!AsRead(r, c) ELSE row[t][c]]
          /\ expected'[t] = [c \in P!Columns |-> IF c \in want[r].asks THEN P!New(r, c) ELSE expected[t][c]]
      BY <1>1, <2>4 DEF P!Write, t
    <3>3. \A c \in P!Columns : P!AsRead(r, c) = row[t][c]
      BY <3>1 DEF P!AsRead
    <3> QED BY <2>1, <2>4, <3>2, <3>3
  <2> QED BY <2>2, <2>3, <2>4
<1> QED BY <1>1, <1>5, <1>6, LastStatement DEF EditInv

LEMMA InsertKeeps ==
  ASSUME Types, EditInv, NEW r \in Handlers, P!InsertApp(r) \/ P!InsertResource(r)
  PROVE  EditInv'
<1> USE TypesAre DEF Types
<1>1. P!Ends(r) /\ portalPc[r] \in {"application", "resource"} /\ UNCHANGED <<org, crossed>> /\ Editing(r)
  BY DEF P!InsertApp, P!InsertResource, P!Inserted, EditInv
<1>2. \E p \in {<<"app", r>>, <<"resource", r>>} :
        /\ P!There' \subseteq P!There \cup {p}
        /\ \A s \in P!Rows \ {p} : row'[s] = row[s] /\ expected'[s] = expected[s]
        /\ row[p] = expected[p] => row'[p] = expected'[p]
        /\ row'[p] = expected'[p] \/ UNCHANGED <<row, expected>>
  <2>1. CASE P!InsertApp(r)
    <3>1. P!Inserted(r, <<"app", r>>, want[r].to) /\ app' = app \cup {r} /\ UNCHANGED <<org, resource>>
      BY <2>1 DEF P!InsertApp
    <3>2. P!There' \subseteq P!There \cup {<<"app", r>>}
      BY <3>1 DEF P!There
    <3>3. row'[<<"app", r>>] = expected'[<<"app", r>>]
      BY <3>1, RowsAre DEF P!Inserted
    <3>4. \A s \in P!Rows \ {<<"app", r>>} : row'[s] = row[s] /\ expected'[s] = expected[s]
      BY <3>1 DEF P!Inserted
    <3> QED BY <3>2, <3>3, <3>4
  <2>2. CASE P!InsertResource(r) /\ want[r].of[2] \in app
    <3>1. P!Inserted(r, <<"resource", r>>, want[r].of[2]) /\ resource' = resource \cup {r} /\ UNCHANGED <<org, app>>
      BY <2>2 DEF P!InsertResource
    <3>2. P!There' \subseteq P!There \cup {<<"resource", r>>}
      BY <3>1 DEF P!There
    <3>3. row'[<<"resource", r>>] = expected'[<<"resource", r>>]
      BY <3>1, RowsAre DEF P!Inserted
    <3>4. \A s \in P!Rows \ {<<"resource", r>>} : row'[s] = row[s] /\ expected'[s] = expected[s]
      BY <3>1 DEF P!Inserted
    <3> QED BY <3>2, <3>3, <3>4
  <2>3. CASE P!InsertResource(r) /\ want[r].of[2] \notin app
    <3>1. UNCHANGED <<org, app, resource, row, expected>>
      BY <2>3 DEF P!InsertResource
    <3>2. P!There' = P!There
      BY <3>1 DEF P!There
    <3> QED BY <3>1, <3>2
  <2> QED BY <2>1, <2>2, <2>3
<1>3. PICK p \in {<<"app", r>>, <<"resource", r>>} :
        /\ P!There' \subseteq P!There \cup {p}
        /\ \A s \in P!Rows \ {p} : row'[s] = row[s] /\ expected'[s] = expected[s]
        /\ row[p] = expected[p] => row'[p] = expected'[p]
  BY <1>2
<1>4. ASSUME NEW q \in Handlers, q # r PROVE Editing(q)'
  <2>1. Editing(q) /\ portalPc'[q] = portalPc[q] /\ want'[q] = want[q] /\ read'[q] = read[q] /\ want[q].of \in P!Rows
    BY <1>1, <1>4, LastStatement DEF EditInv
  <2>2. \A s \in Handlers : portalPc[s] = "done" => portalPc'[s] = "done"
    BY <1>1, LastStatement
  <2>3. portalPc[q] \in {"destination", "write"} => want[q].of # p
    BY <1>1, <2>1 DEF Editing
  <2>4. p # <<"app", q>> /\ p # <<"resource", q>>
    BY <1>4, TagsDiffer
  <2>5. want[q].of \in P!There /\ want[q].of[1] = "org" => want[q].of \in P!There'
    BY <1>1, <2>1 DEF P!There, P!Rows
  <2> QED BY <1>1, <1>3, <2>1, <2>2, <2>3, <2>4, <2>5 DEF Editing
<1>5. ASSUME NEW s \in P!Rows \ crossed' PROVE row'[s] = expected'[s]
  <2>1. row[s] = expected[s]
    BY <1>1, <1>5 DEF EditInv
  <2> QED BY <1>3, <2>1
<1> QED BY <1>1, <1>4, <1>5, LastStatement DEF EditInv

LEMMA DeleteKeeps ==
  ASSUME Types, EditInv, NEW r \in Handlers, P!Delete(r)
  PROVE  EditInv'
<1> USE TypesAre DEF Types
<1> DEFINE gone == P!Gone(want[r].of)
<1>1. P!Ends(r) /\ portalPc[r] = "delete" /\ UNCHANGED <<org, crossed>> /\ Editing(r) /\ want[r].of \in P!Rows
  BY DEF P!Delete, EditInv
<1>2. \A t \in gone : t[1] # "org"
  BY <1>1 DEF P!Gone, Editing
<1>3. /\ app' = {a \in app : <<"app", a>> \notin gone}
      /\ resource' = {s \in resource : <<"resource", s>> \notin gone}
      /\ row' = [t \in P!Rows |-> IF t \in gone THEN P!Nothing ELSE row[t]]
      /\ expected' = [t \in P!Rows |-> IF t \in gone THEN P!Nothing ELSE expected[t]]
  BY DEF P!Delete
<1> HIDE DEF gone
<1>4. P!There' = P!There \ gone
  <2>1. \A o \in org : <<"org", o>> \notin gone
    BY <1>2
  <2>2. P!There' = ({"org"} \X org) \cup ({"app"} \X app') \cup ({"resource"} \X resource')
    BY <1>1 DEF P!There
  <2>3. {"app"} \X app' = ({"app"} \X app) \ gone
    BY <1>3
  <2>4. {"resource"} \X resource' = ({"resource"} \X resource) \ gone
    BY <1>3
  <2>5. {"org"} \X org = ({"org"} \X org) \ gone
    BY <2>1
  <2> QED BY <2>2, <2>3, <2>4, <2>5 DEF P!There
<1>5. ASSUME NEW q \in Handlers, q # r PROVE Editing(q)'
  <2>1. Editing(q) /\ portalPc'[q] = portalPc[q] /\ want'[q] = want[q] /\ read'[q] = read[q] /\ want[q].of \in P!Rows
    BY <1>1, <1>5, LastStatement DEF EditInv
  <2>2. \A s \in Handlers : portalPc[s] = "done" => portalPc'[s] = "done"
    BY <1>1, LastStatement
  <2>3. want[q].of \notin gone => row'[want[q].of] = row[want[q].of]
    BY <1>3, <2>1
  <2>4. want[q].of \in P!There /\ want[q].of[1] = "org" => want[q].of \in P!There'
    BY <1>2, <1>4
  <2> QED BY <1>1, <1>4, <2>1, <2>2, <2>3, <2>4 DEF Editing
<1>6. ASSUME NEW s \in P!Rows \ crossed' PROVE row'[s] = expected'[s]
  BY <1>1, <1>3, <1>6 DEF EditInv
<1> QED BY <1>1, <1>5, <1>6, LastStatement DEF EditInv

-----------------------------------------------------------------------------

LEMMA PortalInit == P!Init => PortalInv
<1> SUFFICES ASSUME P!Init PROVE PortalInv
  OBVIOUS
<1> USE PortalAssumption, UnaskedTyped DEF P!Init
<1>1. PICK o \in OldOrgs, a \in OldApps :
        row = [t \in P!Rows |->
                [P!Nothing EXCEPT !["home"] = IF t[1] = "app" /\ t[2] \in OldApps THEN o
                                              ELSE IF t[1] = "resource" /\ t[2] \in OldResources THEN a
                                              ELSE None]]
  OBVIOUS
<1>2. row \in [P!Rows -> [P!Columns -> P!Values]]
  <2>1. \A v \in P!Values : [P!Nothing EXCEPT !["home"] = v] \in [P!Columns -> P!Values]
    BY DEF P!Columns
  <2>2. o \in P!Values /\ a \in P!Values /\ None \in P!Values
    BY DEF P!Values, P!Orgs
  <2> QED BY <1>1, <2>1, <2>2
<1>3. PICK f \in [P!Orgs -> 0 .. P!Cardinality(OldOrgs)] : slug = f /\ \A r \in Handlers : f[r] = 0
  OBVIOUS
<1>4. slug \in [P!Orgs -> Nat] /\ \A r \in Handlers : slug[r] = 0
  <2>1. P!Cardinality(OldOrgs) \in Nat
    BY PortalCount, FS_CardinalityType
  <2>2. \A n \in 0 .. P!Cardinality(OldOrgs) : n \in Nat
    BY <2>1
  <2> QED BY <1>3, <2>2
<1>5. P!TypeOK
  <2>1. /\ org \subseteq P!Orgs /\ portalRole \in [P!Orgs -> [Users -> {"none", "viewer", "admin", "owner"}]]
        /\ app \subseteq OldApps \cup Handlers /\ resource \subseteq OldResources \cup Handlers
        /\ portalPc \in [Handlers -> Stages] /\ read \in [Handlers -> [P!Columns -> P!Values]]
        /\ personal \in [Users -> SUBSET Handlers] /\ crossed \subseteq P!Rows /\ raced \subseteq Users \cup Handlers
    BY DEF P!Orgs, Stages
  <2>2. \A r \in Handlers :
          /\ want[r].by \in Users /\ want[r].of \in P!Rows /\ want[r].to \in P!Orgs \cup {None}
          /\ want[r].asks \subseteq want[r].covers /\ want[r].covers \subseteq P!Columns
    <3>1. P!Unasked.asks = {}
      BY DEF P!Unasked
    <3> QED BY <3>1 DEF Asked
  <2>3. expected = row
    OBVIOUS
  <2> QED BY <1>2, <1>4, <2>1, <2>2, <2>3, TypesAre
<1>6. Types
  BY <1>5 DEF Types
<1>7. WorkspaceInv
  BY <1>4 DEF WorkspaceInv, Making, Alone, Personal, P!Opening, P!Orgs
<1>8. EditInv
  <2>1. \A r \in Handlers : <<"app", r>> \notin P!There /\ <<"resource", r>> \notin P!There
    BY ThereIs
  <2> QED BY <2>1 DEF EditInv, Editing
<1> QED BY <1>6, <1>7, <1>8 DEF PortalInv

\* Requests that touch no workspace.
LEMMA OutsideSteps ==
  ASSUME Types, WorkspaceInv, NEW r \in Handlers,
         P!Admit(r) \/ P!InsertApp(r) \/ P!Change(r) \/ P!CheckDestination(r) \/ P!FindResource(r) \/ P!Write(r)
           \/ P!AddResource(r) \/ P!InsertResource(r) \/ P!Remove(r) \/ P!Delete(r)
  PROVE  WorkspaceInv'
<1> USE TypesAre DEF Types
<1>1. UNCHANGED <<org, portalRole, slug, personal, raced>>
  BY DEF P!Admit, P!InsertApp, P!Change, P!CheckDestination, P!FindResource, P!Write, P!AddResource, P!InsertResource, P!Remove, P!Delete,
         P!tableVars, P!historyVars
<1>2. /\ portalPc[r] \notin {"slug", "organization", "member"}
      /\ portalPc'[r] \notin {"idle", "slug", "organization", "member"} /\ Still(r)
  <2>1. CASE P!Admit(r) \/ P!CheckDestination(r) \/ P!FindResource(r)
    <3>1. P!Ends(r) \/ (UNCHANGED want /\ (P!Goes(r, "application") \/ P!Goes(r, "write")))
      BY <2>1 DEF P!Admit, P!CheckDestination, P!FindResource
    <3>2. portalPc[r] \in {"admit", "destination", "find"}
      BY <2>1 DEF P!Admit, P!CheckDestination, P!FindResource
    <3> QED BY <3>1, <3>2, EndsEffect DEF P!Goes, Still
  <2>2. CASE P!InsertApp(r) \/ P!InsertResource(r) \/ P!Write(r) \/ P!Delete(r)
    <3>1. P!Ends(r) /\ portalPc[r] \in {"application", "resource", "write", "delete"}
      BY <2>2 DEF P!InsertApp, P!InsertResource, P!Inserted, P!Write, P!Delete
    <3> QED BY <3>1, EndsEffect DEF Still
  <2>3. CASE P!Change(r)
    <3>1. portalPc[r] = "idle" /\ \A q \in Handlers \ {r} : want'[q] = want[q]
      BY <2>3 DEF P!Change
    <3>2. P!Goes(r, "find") \/ P!Goes(r, "destination") \/ P!Goes(r, "write")
      BY <2>3 DEF P!Change
    <3> QED BY <3>1, <3>2 DEF P!Goes, Still
  <2>4. CASE P!AddResource(r) \/ P!Remove(r)
    <3>1. portalPc[r] = "idle" /\ \A q \in Handlers \ {r} : want'[q] = want[q]
      BY <2>4 DEF P!AddResource, P!Remove
    <3> QED BY <2>4, <3>1 DEF P!AddResource, P!Remove, P!Goes, Still
  <2> QED BY <2>1, <2>2, <2>3, <2>4
<1> QED BY <1>1, <1>2, OutsideKeeps

\* Requests that make a workspace, or may.
LEMMA WorkspaceSteps ==
  ASSUME Types, WorkspaceInv, NEW r \in Handlers, P!FirstUse(r) \/ P!CreateOrganization(r) \/ P!CreateApp(r)
  PROVE  WorkspaceInv'
<1> USE TypesAre DEF Types
<1>1. CASE P!FirstUse(r)
  <2>1. PICK u \in Users : P!Memberships(u) = {} /\ want' = [want EXCEPT ![r].by = u] /\ P!Opens(r, u, TRUE)
    BY <1>1 DEF P!FirstUse
  <2>2. want'[r].by = u /\ Still(r)
    BY <2>1 DEF P!Opens, P!Goes, Still, Asked
  <2>3. portalPc[r] = "idle" /\ UNCHANGED <<org, portalRole, slug>>
    BY <1>1 DEF P!FirstUse, P!tableVars
  <2> QED BY <2>1, <2>2, <2>3, OpensKeeps
<1>2. CASE P!CreateOrganization(r)
  <2>1. PICK u \in Users : want' = [want EXCEPT ![r].by = u] /\ P!Opens(r, u, FALSE)
    BY <1>2 DEF P!CreateOrganization
  <2>2. want'[r].by = u /\ Still(r)
    BY <2>1 DEF P!Opens, P!Goes, Still, Asked
  <2>3. portalPc[r] = "idle" /\ UNCHANGED <<org, portalRole, slug>>
    BY <1>2 DEF P!CreateOrganization, P!tableVars
  <2> QED BY <2>1, <2>2, <2>3, OpensKeeps
<1>3. CASE P!CreateApp(r)
  <2>1. PICK u \in Users, o \in org \cup {None} :
          IF P!Memberships(u) = {}
          THEN /\ want' = [want EXCEPT ![r] = [@ EXCEPT !.by = u, !.of = <<"app", r>>, !.to = o]]
               /\ P!Opens(r, u, TRUE)
          ELSE /\ \E p \in P!Highest(u) :
                    want' = [want EXCEPT ![r] = [@ EXCEPT !.by = u, !.of = <<"app", r>>,
                                                          !.to = IF o = None THEN p ELSE o]]
               /\ P!Goes(r, "admit")
               /\ UNCHANGED <<personal, raced>>
    BY <1>3 DEF P!CreateApp
  <2>2. portalPc[r] = "idle" /\ UNCHANGED <<org, portalRole, slug>>
    BY <1>3 DEF P!CreateApp, P!tableVars
  <2>3. CASE P!Memberships(u) = {}
    <3>1. P!Opens(r, u, TRUE) /\ want' = [want EXCEPT ![r] = [@ EXCEPT !.by = u, !.of = <<"app", r>>, !.to = o]]
      BY <2>1, <2>3
    <3>2. want'[r].by = u /\ Still(r)
      BY <3>1 DEF P!Opens, P!Goes, Still, Asked
    <3> QED BY <2>2, <2>3, <3>1, <3>2, OpensKeeps
  <2>4. CASE P!Memberships(u) # {}
    <3>1. P!Goes(r, "admit") /\ UNCHANGED <<personal, raced>> /\ \A q \in Handlers \ {r} : want'[q] = want[q]
      BY <2>1, <2>4
    <3>2. portalPc'[r] = "admit" /\ Still(r)
      BY <3>1 DEF P!Goes, Still
    <3> QED BY <2>2, <3>1, <3>2, OutsideKeeps
  <2> QED BY <2>3, <2>4
<1> QED BY <1>1, <1>2, <1>3

LEMMA PortalNext ==
  ASSUME PortalInv, [P!Next]_(P!vars)
  PROVE  PortalInv'
<1> USE DEF PortalInv
<1>1. CASE UNCHANGED P!vars
  <2>1. UNCHANGED <<org, portalRole, slug, app, resource, row, portalPc, want, read, personal, expected, crossed, raced>>
    BY <1>1 DEF P!vars, P!tableVars, P!requestVars, P!historyVars
  <2>2. P!There' = P!There /\ P!Opening' = P!Opening /\ \A n : P!Free(n)' = P!Free(n)
    BY <2>1 DEF P!There, P!Opening, P!Free
  <2>3. Types'
    BY <2>1, TypesAre DEF Types, P!TypeOK
  <2>4. WorkspaceInv'
    BY <2>1, <2>2 DEF WorkspaceInv, Making, Alone, Personal
  <2>5. EditInv'
    BY <2>1, <2>2 DEF EditInv, Editing
  <2> QED BY <2>3, <2>4, <2>5
<1>2. CASE P!SetRole
  <2>1. UNCHANGED <<org, app, resource, row, portalPc, want, read, expected, crossed>> /\ P!There' = P!There
    BY <1>2 DEF P!SetRole, P!requestVars, P!There
  <2>2. EditInv'
    BY <2>1 DEF EditInv, Editing
  <2> QED BY <1>2, <2>2, SetRoleTypes, SetRoleKeeps
<1>3. ASSUME NEW r \in Handlers,
             \/ P!FirstUse(r) \/ P!CreateOrganization(r) \/ P!ChooseSlug(r) \/ P!InsertOrganization(r) \/ P!InsertOwner(r)
             \/ P!CreateApp(r) \/ P!Admit(r) \/ P!InsertApp(r)
             \/ P!Change(r) \/ P!CheckDestination(r) \/ P!FindResource(r) \/ P!Write(r)
             \/ P!AddResource(r) \/ P!InsertResource(r) \/ P!Remove(r) \/ P!Delete(r) \/ P!Refuse(r)
      PROVE  PortalInv'
  <2>1. Types'
    BY <1>3, WorkspaceTypes, ApplicationTypes, ChangeTypes, WriteTypes
  <2>2. WorkspaceInv'
    BY <1>3, WorkspaceSteps, ChooseSlugKeeps, InsertOrganizationKeeps, InsertOwnerKeeps, RefuseKeeps, OutsideSteps
  <2>3. EditInv'
    BY <1>3, AsideKeeps, ChangeKeeps, WriteKeeps, InsertKeeps, DeleteKeeps
  <2> QED BY <2>1, <2>2, <2>3
<1> QED BY <1>1, <1>2, <1>3 DEF P!Next

\* What a request has read of workspaces and rows is what it still finds, unless
\* another one was under way.
THEOREM PortalInvariance == P!Spec => []PortalInv
BY PortalInit, PortalNext, PTL DEF P!Spec

\* A creation that no other overlapped makes an organization with an owner, and
\* a user's first uses make one workspace (ensurePersonalWorkspace).
THEOREM WorkspacesAreWhole == P!Spec => []P!WorkspacesWhole
<1>1. PortalInv => P!WorkspacesWhole
  <2> SUFFICES ASSUME PortalInv PROVE P!WorkspacesWhole
    OBVIOUS
  <2> USE TypesAre DEF PortalInv, Types, WorkspaceInv
  <2>1. \A r \in Handlers \ raced : Alone(r)
    OBVIOUS
  <2>2. ASSUME NEW u \in Users \ raced PROVE Cardinality(personal[u]) <= 1
    <3>1. \A q, r \in personal[u] : q = r
      BY DEF Personal
    <3>2. CASE personal[u] = {}
      BY <3>2, FS_EmptySet
    <3>3. CASE personal[u] # {}
      <4> DEFINE S == personal[u]
      <4>1. \A q, r \in S : q = r
        BY <3>1
      <4>2. S # {}
        BY <3>3
      <4> HIDE DEF S
      <4>3. PICK r \in S : TRUE
        BY <4>2
      <4>4. S = {r}
        BY <4>1, <4>3
      <4>5. Cardinality({r}) = 1
        BY FS_Singleton
      <4>6. Cardinality(S) = 1
        BY <4>4, <4>5
      <4> QED BY <4>6 DEF S
    <3> QED BY <3>2, <3>3
  <2>3. \A u \in Users \ raced : P!Cardinality(personal[u]) <= 1
    BY <2>2, PortalCount
  <2> QED BY <2>1, <2>3 DEF P!WorkspacesWhole, Alone
<1> QED BY <1>1, PortalInvariance, PTL

\* A row is what was asked for, column by column, unless another request had
\* read it before (PATCH /apps/:appId and the others).
THEOREM LoneEditsAreKept == P!Spec => []P!LoneEditsKeep
<1>1. PortalInv => P!LoneEditsKeep
  BY RowsAre DEF PortalInv, EditInv, P!LoneEditsKeep
<1> QED BY <1>1, PortalInvariance, PTL

-----------------------------------------------------------------------------
(* Developer console (DeveloperConsole).                                   *)

Steps == {"idle", "portal", "overview", "list", "saved", "created", "deleted",
          "settled", "changed", "workspace", "founded"}
Panels == [insights : (Apps \X D!Versions) \cup {None}, of : Apps \cup {None}]
Overviews == [v : D!Versions \cup {None}, fresh : BOOLEAN]

\* The types, and what a handler holds in each of its steps.
Held(x) ==
  /\ developerPc[x] \in {"overview", "list", "saved", "created", "deleted"} => developerApp[x] \in Apps
  /\ developerPc[x] \in {"overview", "saved", "settled", "workspace"} => developerRow[x] \in D!Versions
  /\ developerPc[x] \in {"changed", "workspace", "founded"} => to[x] \in Workspaces
  /\ developerPc[x] = "portal" => answer[x] \in D!Portals

DeveloperTypes ==
  /\ D!TypeOK
  /\ developerRow \in [Handlers -> D!Versions \cup {None}] /\ answer \in [Handlers -> D!Portals \cup {None}]
  /\ portal \in [Workspaces -> D!Portals \cup {None}]
  /\ \A a \in Apps : overview[a].fresh => overview[a].v # None
  /\ \A a \in Apps : home[a] = "new" => version[a] = 0
  /\ \A x \in Handlers : Held(x)

\* What the page shows and what the server has.
OrgsAgree == listed = orgs /\ workspace = <<cur, setting[cur]>>
AppsAgree == \A a \in Apps : apps[a] = D!Portal(cur).apps[a]
AppsAgreeBut(b) == \A a \in Apps \ {b} : apps[a] = D!Portal(cur).apps[a]
Listed == sel # None => apps[sel] # None
Shown == sel # None => panel = D!Full(sel, version[sel]) /\ ~loading
Awaited == \E x \in Handlers : developerPc[x] = "overview" /\ developerApp[x] = sel

\* A lone handler has what it needs to end in a page that agrees.
OnItsWay(x) ==
  /\ developerPc[x] = "overview" => developerRow[x] = version[developerApp[x]]
  /\ developerPc[x] = "list" => OrgsAgree /\ AppsAgree /\ Listed /\ Shown /\ developerApp[x] = sel
  /\ developerPc[x] = "created" => OrgsAgree /\ AppsAgreeBut(developerApp[x]) /\ home[developerApp[x]] = cur /\ version[developerApp[x]] = 0
  /\ developerPc[x] = "saved" =>
                /\ OrgsAgree /\ AppsAgreeBut(developerApp[x]) /\ sel = developerApp[x] /\ developerRow[x] = version[developerApp[x]]
                /\ to[x] = None => home[developerApp[x]] = cur /\ apps[developerApp[x]] # None
                /\ to[x] # None => home[developerApp[x]] = to[x]
  /\ developerPc[x] = "deleted" => OrgsAgree /\ AppsAgreeBut(developerApp[x]) /\ sel = developerApp[x] /\ home[developerApp[x]] = "gone"
  /\ developerPc[x] = "settled" =>
                /\ listed = orgs /\ AppsAgree /\ Listed /\ Shown
                /\ workspace[1] = cur /\ developerRow[x] = setting[cur]
  /\ developerPc[x] \in {"changed", "workspace"} => listed = orgs /\ AppsAgree /\ Listed /\ Shown /\ to[x] = cur
  /\ developerPc[x] = "workspace" => developerRow[x] = setting[cur]
  /\ developerPc[x] = "founded" => Shown
  /\ developerPc[x] = "portal" =>
                /\ answer[x] = D!Portal(answer[x].org)
                /\ developerApp[x] = None => Shown
                /\ developerApp[x] # None => developerApp[x] = sel /\ answer[x].apps[sel] # None

\* What the cache vouches for is what the server has, but for what a handler
\* that changed it is still to mark.
FreshAgree ==
  \A a \in Apps : overview[a].fresh =>
    overview[a].v = version[a] \/ \E x \in Handlers : developerPc[x] = "saved" /\ developerApp[x] = a
PortalAgree ==
  \A o \in Workspaces : portal[o] # None =>
    \/ portal[o] = D!Portal(o)
    \/ \E x \in Handlers : developerPc[x] \in {"saved", "deleted", "settled", "changed", "founded"}
    \/ \E x \in Handlers : developerPc[x] = "created" /\ o = cur

Reading == \A x \in Handlers : developerPc[x] \in {"idle", "overview"}

DeveloperLone ==
  /\ \A x, y \in D!Busy : developerPc[x] # "overview" => x = y
  /\ FreshAgree /\ PortalAgree
  /\ Reading => OrgsAgree /\ AppsAgree /\ Listed /\ (Shown \/ Awaited)
  /\ \A x \in Handlers : OnItsWay(x)

DeveloperInv == DeveloperTypes /\ (doubtful \/ DeveloperLone)
-----------------------------------------------------------------------------

LEMMA ConsoleTypesAre ==
  DeveloperTypes =>
    /\ orgs \subseteq Workspaces /\ home \in [Apps -> Workspaces \cup {"new", "gone"}]
    /\ version \in [Apps -> D!Versions] /\ setting \in [Workspaces -> D!Versions]
    /\ cur \in Workspaces /\ workspace \in Workspaces \X D!Versions /\ listed \subseteq Workspaces
    /\ apps \in [Apps -> D!Versions \cup {None}] /\ sel \in Apps \cup {None}
    /\ panel \in Panels /\ loading \in BOOLEAN /\ bundles \in [Apps -> D!Versions \cup {None}]
    /\ portal \in [Workspaces -> D!Portals \cup {None}] /\ overview \in [Apps -> Overviews]
    /\ (\A a \in Apps : overview[a].fresh => overview[a].v # None)
    /\ (\A a \in Apps : home[a] = "new" => version[a] = 0)
    /\ developerPc \in [Handlers -> Steps] /\ developerApp \in [Handlers -> Apps \cup {None}] /\ to \in [Handlers -> Workspaces \cup {None}]
    /\ developerRow \in [Handlers -> D!Versions \cup {None}] /\ answer \in [Handlers -> D!Portals \cup {None}]
    /\ doubtful \in BOOLEAN
BY DEF DeveloperTypes, D!TypeOK, Steps, Panels, Overviews

\* What remains to be typed of a step.
LEMMA ServerTyped ==
  ASSUME DeveloperTypes, UNCHANGED D!serverVars
  PROVE  /\ orgs' \subseteq Workspaces /\ home' \in [Apps -> Workspaces \cup {"new", "gone"}]
         /\ version' \in [Apps -> D!Versions] /\ setting' \in [Workspaces -> D!Versions]
         /\ (\A a \in Apps : home'[a] = "new" => version'[a] = 0)
BY ConsoleTypesAre DEF D!serverVars

LEMMA PageTyped ==
  ASSUME DeveloperTypes, UNCHANGED D!pageVars
  PROVE  /\ cur' \in Workspaces /\ workspace' \in Workspaces \X D!Versions /\ listed' \subseteq Workspaces
         /\ apps' \in [Apps -> D!Versions \cup {None}] /\ sel' \in Apps \cup {None}
         /\ panel' \in Panels /\ loading' \in BOOLEAN /\ bundles' \in [Apps -> D!Versions \cup {None}]
BY ConsoleTypesAre DEF D!pageVars

LEMMA CacheTyped ==
  ASSUME DeveloperTypes, UNCHANGED D!cacheVars
  PROVE  /\ portal' \in [Workspaces -> D!Portals \cup {None}] /\ overview' \in [Apps -> Overviews]
         /\ \A a \in Apps : overview'[a].fresh => overview'[a].v # None
BY ConsoleTypesAre DEF D!cacheVars

LEMMA ConsoleRestTyped ==
  ASSUME orgs' \subseteq Workspaces, home' \in [Apps -> Workspaces \cup {"new", "gone"}],
         version' \in [Apps -> D!Versions], setting' \in [Workspaces -> D!Versions],
         \A a \in Apps : home'[a] = "new" => version'[a] = 0,
         cur' \in Workspaces, workspace' \in Workspaces \X D!Versions, listed' \subseteq Workspaces,
         apps' \in [Apps -> D!Versions \cup {None}], sel' \in Apps \cup {None},
         panel' \in Panels, loading' \in BOOLEAN, bundles' \in [Apps -> D!Versions \cup {None}],
         portal' \in [Workspaces -> D!Portals \cup {None}], overview' \in [Apps -> Overviews],
         \A a \in Apps : overview'[a].fresh => overview'[a].v # None,
         developerPc' \in [Handlers -> Steps], developerApp' \in [Handlers -> Apps \cup {None}], to' \in [Handlers -> Workspaces \cup {None}],
         developerRow' \in [Handlers -> D!Versions \cup {None}], answer' \in [Handlers -> D!Portals \cup {None}],
         doubtful' \in BOOLEAN, \A x \in Handlers : Held(x)'
  PROVE  DeveloperTypes'
<1>1. \A o \in Workspaces : portal'[o] = None \/ portal'[o] \in D!Portals
  OBVIOUS
<1>2. \A x \in Handlers : developerRow'[x] \in D!Versions \cup {None} /\ answer'[x] \in D!Portals \cup {None}
  OBVIOUS
<1>3. D!TypeOK'
  BY <1>1, <1>2 DEF D!TypeOK, Steps, Panels, Overviews
<1> QED BY <1>3 DEF DeveloperTypes

\* A handler waits for an answer, or ends.
LEMMA WaitsEffect ==
  ASSUME DeveloperTypes, NEW x \in Handlers, NEW s \in Steps, NEW a \in Apps \cup {None}, NEW o \in Workspaces \cup {None},
         NEW v \in D!Versions \cup {None}, D!Waits(x, s, a, o, v)
  PROVE  /\ developerPc' \in [Handlers -> Steps] /\ developerApp' \in [Handlers -> Apps \cup {None}] /\ to' \in [Handlers -> Workspaces \cup {None}]
         /\ developerRow' \in [Handlers -> D!Versions \cup {None}] /\ answer' \in [Handlers -> D!Portals \cup {None}]
         /\ developerPc'[x] = s /\ developerApp'[x] = a /\ to'[x] = o /\ developerRow'[x] = v
         /\ \A y \in Handlers \ {x} :
              developerPc'[y] = developerPc[y] /\ developerApp'[y] = developerApp[y] /\ to'[y] = to[y] /\ developerRow'[y] = developerRow[y] /\ answer'[y] = answer[y]
<1>1. /\ developerPc' = [developerPc EXCEPT ![x] = s] /\ developerApp' = [developerApp EXCEPT ![x] = a] /\ to' = [to EXCEPT ![x] = o]
      /\ developerRow' = [developerRow EXCEPT ![x] = v] /\ answer' = [answer EXCEPT ![x] = None]
  BY DEF D!Waits
<1> QED BY <1>1, ConsoleTypesAre

LEMMA ClickEnds ==
  ASSUME DeveloperTypes, NEW x \in Handlers, D!Ends(x)
  PROVE  /\ developerPc' \in [Handlers -> Steps] /\ developerApp' \in [Handlers -> Apps \cup {None}] /\ to' \in [Handlers -> Workspaces \cup {None}]
         /\ developerRow' \in [Handlers -> D!Versions \cup {None}] /\ answer' \in [Handlers -> D!Portals \cup {None}]
         /\ developerPc'[x] = "idle"
         /\ \A y \in Handlers \ {x} :
              developerPc'[y] = developerPc[y] /\ developerApp'[y] = developerApp[y] /\ to'[y] = to[y] /\ developerRow'[y] = developerRow[y] /\ answer'[y] = answer[y]
<1>1. "idle" \in Steps /\ None \in Apps \cup {None} /\ None \in Workspaces \cup {None} /\ None \in D!Versions \cup {None}
  BY DEF Steps
<1> QED BY <1>1, WaitsEffect DEF D!Ends

LEMMA AsksPortalEffect ==
  ASSUME DeveloperTypes, NEW x \in Handlers, NEW a \in Apps \cup {None}, NEW data \in D!Portals, D!AsksPortal(x, a, data)
  PROVE  /\ developerPc' \in [Handlers -> Steps] /\ developerApp' \in [Handlers -> Apps \cup {None}] /\ to' \in [Handlers -> Workspaces \cup {None}]
         /\ developerRow' \in [Handlers -> D!Versions \cup {None}] /\ answer' \in [Handlers -> D!Portals \cup {None}]
         /\ developerPc'[x] = "portal" /\ developerApp'[x] = a /\ answer'[x] = data
         /\ \A y \in Handlers \ {x} :
              developerPc'[y] = developerPc[y] /\ developerApp'[y] = developerApp[y] /\ to'[y] = to[y] /\ developerRow'[y] = developerRow[y] /\ answer'[y] = answer[y]
<1>1. /\ developerPc' = [developerPc EXCEPT ![x] = "portal"] /\ developerApp' = [developerApp EXCEPT ![x] = a] /\ to' = [to EXCEPT ![x] = None]
      /\ developerRow' = [developerRow EXCEPT ![x] = None] /\ answer' = [answer EXCEPT ![x] = data]
  BY DEF D!AsksPortal
<1> QED BY <1>1, ConsoleTypesAre DEF Steps

LEMMA FullTyped ==
  ASSUME NEW a \in Apps, NEW v \in D!Versions
  PROVE  D!Full(a, v) \in Panels /\ D!Full(a, v).of = a /\ D!Full(a, v).insights = <<a, v>>
BY DEF D!Full, Panels

LEMMA EmptyTyped == D!Empty \in Panels
BY DEF D!Empty, Panels

LEMMA ForgottenTyped == D!Forgotten \in [Apps -> D!Versions \cup {None}]
BY DEF D!Forgotten

\* The panels of an application are cleared or shown as they were, and asked for.
LEMMA LoadSelectedEffect ==
  ASSUME DeveloperTypes, NEW x \in Handlers, NEW a \in Apps, NEW cache \in [Apps -> Overviews],
         \A b \in Apps : cache[b].fresh => cache[b].v # None,
         NEW kept \in [Apps -> D!Versions \cup {None}], D!LoadSelected(x, a, cache, kept)
  PROVE  /\ panel' \in Panels /\ loading' \in BOOLEAN /\ bundles' \in [Apps -> D!Versions \cup {None}]
         /\ developerPc' \in [Handlers -> Steps] /\ developerApp' \in [Handlers -> Apps \cup {None}] /\ to' \in [Handlers -> Workspaces \cup {None}]
         /\ developerRow' \in [Handlers -> D!Versions \cup {None}] /\ answer' \in [Handlers -> D!Portals \cup {None}]
         /\ developerPc'[x] = "overview" /\ developerApp'[x] = a /\ developerRow'[x] \in D!Versions
         /\ developerRow'[x] = version[a] \/ (cache[a].fresh /\ developerRow'[x] = cache[a].v)
         /\ \A y \in Handlers \ {x} :
              developerPc'[y] = developerPc[y] /\ developerApp'[y] = developerApp[y] /\ to'[y] = to[y] /\ developerRow'[y] = developerRow[y] /\ answer'[y] = answer[y]
<1> DEFINE v == IF cache[a].v # None THEN cache[a].v ELSE kept[a]
           w == D!OverviewAnswer(a, cache)
<1>1. /\ panel' = (IF v # None THEN D!Full(a, v) ELSE D!Empty) /\ loading' = (v = None) /\ bundles' = kept
      /\ D!Waits(x, "overview", a, None, w)
  BY DEF D!LoadSelected
<1>2. cache[a].v \in D!Versions \cup {None} /\ cache[a].fresh \in BOOLEAN /\ kept[a] \in D!Versions \cup {None}
  BY DEF Overviews
<1>3. v \in D!Versions \cup {None}
  BY <1>2
<1>4. w \in D!Versions /\ (w = version[a] \/ (cache[a].fresh /\ w = cache[a].v))
  <2>1. CASE cache[a].fresh
    BY <1>2, <2>1 DEF D!OverviewAnswer
  <2>2. CASE ~cache[a].fresh
    BY <2>2, ConsoleTypesAre DEF D!OverviewAnswer
  <2> QED BY <2>1, <2>2
<1> HIDE DEF v, w
<1>5. panel' \in Panels
  BY <1>1, <1>3, FullTyped, EmptyTyped
<1>6. "overview" \in Steps /\ a \in Apps \cup {None} /\ None \in Workspaces \cup {None} /\ w \in D!Versions \cup {None}
  BY <1>4 DEF Steps
<1>7. /\ developerPc' \in [Handlers -> Steps] /\ developerApp' \in [Handlers -> Apps \cup {None}] /\ to' \in [Handlers -> Workspaces \cup {None}]
      /\ developerRow' \in [Handlers -> D!Versions \cup {None}] /\ answer' \in [Handlers -> D!Portals \cup {None}]
      /\ developerPc'[x] = "overview" /\ developerApp'[x] = a /\ developerRow'[x] = w
      /\ \A y \in Handlers \ {x} :
           developerPc'[y] = developerPc[y] /\ developerApp'[y] = developerApp[y] /\ to'[y] = to[y] /\ developerRow'[y] = developerRow[y] /\ answer'[y] = answer[y]
  <2>1. D!Waits(x, "overview", a, None, w)
    BY <1>1
  <2> QED BY <1>6, <2>1, WaitsEffect
<1> QED BY <1>1, <1>4, <1>5, <1>7

\* A step of one handler leaves what the others hold.
LEMMA OthersHold ==
  ASSUME DeveloperTypes, NEW x \in Handlers, Held(x)',
         \A y \in Handlers \ {x} :
           developerPc'[y] = developerPc[y] /\ developerApp'[y] = developerApp[y] /\ to'[y] = to[y] /\ developerRow'[y] = developerRow[y] /\ answer'[y] = answer[y]
  PROVE  \A y \in Handlers : Held(y)'
<1>1. ASSUME NEW y \in Handlers \ {x} PROVE Held(y)'
  <2>1. Held(y) /\ developerPc'[y] = developerPc[y] /\ developerApp'[y] = developerApp[y] /\ to'[y] = to[y] /\ developerRow'[y] = developerRow[y] /\ answer'[y] = answer[y]
    BY DEF DeveloperTypes
  <2> QED BY <2>1 DEF Held
<1> QED BY <1>1

-----------------------------------------------------------------------------

\* What the server answers about a workspace.
LEMMA PortalIs ==
  ASSUME DeveloperTypes, NEW o \in Workspaces
  PROVE  /\ D!Portal(o) \in D!Portals /\ D!Portal(o).org = o /\ D!Portal(o).setting = setting[o] /\ D!Portal(o).orgs = orgs
         /\ \A a \in Apps : D!Portal(o).apps[a] = IF home[a] = o THEN version[a] ELSE None
<1> DEFINE there == [a \in Apps |-> IF home[a] = o THEN version[a] ELSE None]
<1>1. there \in [Apps -> D!Versions \cup {None}]
  BY ConsoleTypesAre
<1>2. D!Portal(o) = [org |-> o, setting |-> setting[o], orgs |-> orgs, apps |-> there]
  BY DEF D!Portal
<1>3. \A a \in Apps : there[a] = IF home[a] = o THEN version[a] ELSE None
  OBVIOUS
<1> HIDE DEF there
<1> QED BY <1>1, <1>2, <1>3, ConsoleTypesAre DEF D!Portals

LEMMA PortalKept ==
  ASSUME UNCHANGED D!serverVars, NEW o
  PROVE  D!Portal(o)' = D!Portal(o)
BY DEF D!Portal, D!serverVars

\* The cache vouches for nothing that is not so.
FreshTrue == \A a \in Apps : overview[a].fresh => overview[a].v = version[a]
PortalTrue == \A o \in Workspaces : portal[o] # None => portal[o] = D!Portal(o)

LEMMA CacheTrue == (FreshTrue => FreshAgree) /\ (PortalTrue => PortalAgree)
BY DEF FreshTrue, PortalTrue, FreshAgree, PortalAgree

LEMMA FreshKept ==
  ASSUME FreshTrue, UNCHANGED <<version, overview>>
  PROVE  FreshTrue'
BY DEF FreshTrue

LEMMA PortalsKept ==
  ASSUME PortalTrue, UNCHANGED D!serverVars, UNCHANGED portal
  PROVE  PortalTrue'
BY PortalKept DEF PortalTrue

LEMMA PortalsStale ==
  ASSUME portal' = D!Stale(portal)
  PROVE  PortalTrue' /\ portal' \in [Workspaces -> D!Portals \cup {None}]
BY DEF PortalTrue, D!Stale

\* A lone handler other than one that opens an application is the only one, and
\* a click in a page without doubt the first.
LEMMA LoneNow ==
  ASSUME DeveloperLone, NEW x \in Handlers, developerPc[x] \notin {"idle", "overview"}
  PROVE  OnItsWay(x) /\ \A y \in Handlers \ {x} : developerPc[y] = "idle"
BY DEF DeveloperLone, D!Busy

LEMMA StartsAlone ==
  ASSUME DeveloperLone, NEW x \in Handlers, D!Starts(x), ~doubtful'
  PROVE  /\ \A y \in Handlers : developerPc[y] = "idle"
         /\ OrgsAgree /\ AppsAgree /\ Listed /\ Shown /\ FreshTrue /\ PortalTrue
<1>1. \A y \in Handlers : developerPc[y] = "idle"
  BY DEF D!Starts, D!Busy
<1>2. FreshTrue /\ PortalTrue
  BY <1>1 DEF DeveloperLone, FreshTrue, PortalTrue, FreshAgree, PortalAgree
<1>3. OrgsAgree /\ AppsAgree /\ Listed /\ Shown
  BY <1>1 DEF DeveloperLone, Reading, Awaited
<1> QED BY <1>1, <1>2, <1>3

LEMMA LoneStays ==
  ASSUME NEW x \in Handlers, \A y \in Handlers \ {x} : developerPc[y] = "idle" /\ developerPc'[y] = developerPc[y],
         developerPc'[x] \notin {"idle", "overview"}, FreshAgree', PortalAgree', OnItsWay(x)'
  PROVE  DeveloperLone'
<1>1. \A y \in Handlers \ {x} : OnItsWay(y)'
  BY DEF OnItsWay
<1>2. ~Reading'
  BY DEF Reading
<1> QED BY <1>1, <1>2 DEF DeveloperLone, D!Busy

LEMMA LoneReads ==
  ASSUME NEW x \in Handlers, \A y \in Handlers \ {x} : developerPc[y] = "idle" /\ developerPc'[y] = developerPc[y],
         developerPc'[x] = "overview", developerRow'[x] = version'[developerApp'[x]], FreshAgree', PortalAgree',
         OrgsAgree', AppsAgree', Listed', Shown' \/ developerApp'[x] = sel'
  PROVE  DeveloperLone'
<1>1. \A y \in Handlers : OnItsWay(y)'
  BY DEF OnItsWay
<1>2. (Shown \/ Awaited)'
  BY DEF Awaited
<1> QED BY <1>1, <1>2 DEF DeveloperLone, D!Busy

LEMMA LoneEnds ==
  ASSUME NEW x \in Handlers, \A y \in Handlers \ {x} : developerPc[y] = "idle" /\ developerPc'[y] = developerPc[y],
         developerPc'[x] = "idle", FreshAgree', PortalAgree', OrgsAgree', AppsAgree', Listed', Shown'
  PROVE  DeveloperLone'
<1>1. \A y \in Handlers : OnItsWay(y)'
  BY DEF OnItsWay
<1> QED BY <1>1 DEF DeveloperLone, D!Busy

\* More of a list is asked for.
LEMMA MoreOfListKeeps ==
  ASSUME DeveloperInv, NEW x \in Handlers, D!MoreOfList(x)
  PROVE  DeveloperInv'
<1>0. DeveloperTypes
  BY DEF DeveloperInv
<1>f. /\ D!Starts(x) /\ sel # None /\ D!Waits(x, "list", sel, None, None) /\ doubtful' \in BOOLEAN
      /\ UNCHANGED D!serverVars /\ UNCHANGED D!pageVars /\ UNCHANGED D!cacheVars
  BY DEF D!MoreOfList, D!Starts
<1>a. sel \in Apps /\ "list" \in Steps /\ sel \in Apps \cup {None} /\ None \in Workspaces \cup {None} /\ None \in D!Versions \cup {None}
  BY <1>0, <1>f, ConsoleTypesAre DEF Steps
<1>e. /\ developerPc' \in [Handlers -> Steps] /\ developerApp' \in [Handlers -> Apps \cup {None}] /\ to' \in [Handlers -> Workspaces \cup {None}]
      /\ developerRow' \in [Handlers -> D!Versions \cup {None}] /\ answer' \in [Handlers -> D!Portals \cup {None}]
      /\ developerPc'[x] = "list" /\ developerApp'[x] = sel /\ to'[x] = None /\ developerRow'[x] = None
      /\ \A y \in Handlers \ {x} :
           developerPc'[y] = developerPc[y] /\ developerApp'[y] = developerApp[y] /\ to'[y] = to[y] /\ developerRow'[y] = developerRow[y] /\ answer'[y] = answer[y]
  BY <1>0, <1>a, <1>f, WaitsEffect
<1>1. DeveloperTypes'
  <2>1. Held(x)'
    BY <1>0, <1>a, <1>e DEF Held
  <2>2. \A y \in Handlers : Held(y)'
    BY <1>0, <1>e, <2>1, OthersHold
  <2> QED BY <1>0, <1>e, <1>f, <2>2, ServerTyped, PageTyped, CacheTyped, ConsoleRestTyped
<1>2. ASSUME ~doubtful' PROVE DeveloperLone'
  <2>1. DeveloperLone
    BY <1>f DEF DeveloperInv, D!Starts
  <2>2. /\ \A y \in Handlers : developerPc[y] = "idle"
        /\ OrgsAgree /\ AppsAgree /\ Listed /\ Shown /\ FreshTrue /\ PortalTrue
    BY <1>2, <1>f, <2>1, StartsAlone
  <2>3. FreshTrue' /\ PortalTrue'
    BY <2>2, <1>f, FreshKept, PortalsKept DEF D!serverVars, D!cacheVars
  <2>4. FreshAgree' /\ PortalAgree'
    BY <2>3, CacheTrue DEF FreshAgree, PortalAgree, FreshTrue, PortalTrue
  <2>5. OrgsAgree' /\ AppsAgree' /\ Listed' /\ Shown'
    BY <2>2, <1>f, PortalKept DEF OrgsAgree, AppsAgree, Listed, Shown, D!serverVars, D!pageVars
  <2>6. OnItsWay(x)'
    BY <2>5, <1>e, <1>f DEF OnItsWay, D!pageVars
  <2> QED BY <2>2, <2>4, <2>6, <1>e, LoneStays
<1> QED BY <1>1, <1>2 DEF DeveloperInv

\* And shown.
LEMMA ShowListKeeps ==
  ASSUME DeveloperInv, NEW x \in Handlers, D!ShowList(x)
  PROVE  DeveloperInv'
<1>0. DeveloperTypes
  BY DEF DeveloperInv
<1>f. /\ developerPc[x] = "list" /\ panel' = [panel EXCEPT !.of = developerApp[x]] /\ D!Ends(x)
      /\ UNCHANGED D!serverVars /\ UNCHANGED D!cacheVars
      /\ UNCHANGED <<cur, workspace, listed, apps, sel, loading, bundles, doubtful>>
  BY DEF D!ShowList
<1>e. /\ developerPc' \in [Handlers -> Steps] /\ developerApp' \in [Handlers -> Apps \cup {None}] /\ to' \in [Handlers -> Workspaces \cup {None}]
      /\ developerRow' \in [Handlers -> D!Versions \cup {None}] /\ answer' \in [Handlers -> D!Portals \cup {None}]
      /\ developerPc'[x] = "idle"
      /\ \A y \in Handlers \ {x} :
           developerPc'[y] = developerPc[y] /\ developerApp'[y] = developerApp[y] /\ to'[y] = to[y] /\ developerRow'[y] = developerRow[y] /\ answer'[y] = answer[y]
  BY <1>0, <1>f, ClickEnds
<1>p. panel' \in Panels
  <2>1. developerApp[x] \in Apps /\ panel \in Panels
    BY <1>0, <1>f, ConsoleTypesAre DEF DeveloperTypes, Held
  <2> QED BY <2>1, <1>f DEF Panels
<1>1. DeveloperTypes'
  <2>1. Held(x)'
    BY <1>0, <1>e DEF Held
  <2>2. \A y \in Handlers : Held(y)'
    BY <1>0, <1>e, <2>1, OthersHold
  <2> QED BY <1>0, <1>e, <1>f, <1>p, <2>2, ConsoleTypesAre, ServerTyped, CacheTyped, ConsoleRestTyped
<1>2. ASSUME ~doubtful' PROVE DeveloperLone'
  <2>1. DeveloperLone
    BY <1>2, <1>f DEF DeveloperInv
  <2>2. OnItsWay(x) /\ \A y \in Handlers \ {x} : developerPc[y] = "idle"
    BY <2>1, <1>f, LoneNow
  <2>3. FreshAgree' /\ PortalAgree'
    <3>1. FreshTrue /\ PortalTrue
      BY <2>1, <2>2, <1>f DEF DeveloperLone, FreshAgree, PortalAgree, FreshTrue, PortalTrue
    <3>2. FreshTrue' /\ PortalTrue'
      BY <3>1, <1>f, FreshKept, PortalsKept DEF D!serverVars, D!cacheVars
    <3> QED BY <3>2, CacheTrue DEF FreshAgree, PortalAgree, FreshTrue, PortalTrue
  <2>4. OrgsAgree /\ AppsAgree /\ Listed /\ Shown /\ developerApp[x] = sel
    BY <2>2, <1>f DEF OnItsWay
  <2>5. OrgsAgree' /\ AppsAgree' /\ Listed'
    BY <2>4, <1>f, PortalKept DEF OrgsAgree, AppsAgree, Listed, D!serverVars
  <2>6. Shown'
    <3> SUFFICES ASSUME sel # None PROVE panel' = D!Full(sel, version[sel]) /\ ~loading
      BY <1>f DEF Shown, D!serverVars, D!Full
    <3>1. panel = [insights |-> <<sel, version[sel]>>, of |-> sel] /\ ~loading
      BY <2>4 DEF Shown, D!Full
    <3>2. panel' = [insights |-> <<sel, version[sel]>>, of |-> sel]
      BY <3>1, <2>4, <1>f
    <3> QED BY <3>1, <3>2 DEF D!Full
  <2> QED BY <2>2, <2>3, <2>5, <2>6, <1>e, LoneEnds
<1> QED BY <1>1, <1>2 DEF DeveloperInv

\* Of what the cache says nothing is claimed while a handler is to mark it.
LEMMA CacheTrueNext ==
  (FreshTrue' => FreshAgree') /\ (PortalTrue' => PortalAgree')
BY DEF FreshTrue, PortalTrue, FreshAgree, PortalAgree

LEMMA CacheNow ==
  ASSUME DeveloperLone, NEW x \in Handlers, developerPc[x] \notin {"idle", "overview"}
  PROVE  /\ developerPc[x] # "saved" => FreshTrue
         /\ developerPc[x] \in {"list", "workspace", "portal"} => PortalTrue
<1>1. \A y \in Handlers \ {x} : developerPc[y] = "idle"
  BY LoneNow
<1>2. FreshAgree /\ PortalAgree
  BY DEF DeveloperLone
<1> QED BY <1>1, <1>2 DEF FreshTrue, PortalTrue, FreshAgree, PortalAgree

\* Another workspace is asked for.
LEMMA SwitchOrganizationKeeps ==
  ASSUME DeveloperInv, NEW x \in Handlers, D!SwitchOrganization(x)
  PROVE  DeveloperInv'
<1>0. DeveloperTypes
  BY DEF DeveloperInv
<1>o. PICK o \in listed : D!AsksPortal(x, None, D!PortalAnswer(o))
  BY DEF D!SwitchOrganization
<1>f. /\ D!Starts(x) /\ doubtful' \in BOOLEAN
      /\ sel' = None /\ panel' = D!Empty /\ loading' = FALSE /\ bundles' = D!Forgotten
      /\ UNCHANGED D!serverVars /\ UNCHANGED D!cacheVars /\ UNCHANGED <<cur, workspace, listed, apps>>
  BY DEF D!SwitchOrganization, D!Starts
<1>a. o \in Workspaces /\ D!PortalAnswer(o) \in D!Portals
  <2>1. o \in Workspaces /\ portal[o] \in D!Portals \cup {None}
    BY <1>0, ConsoleTypesAre
  <2> QED BY <1>0, <2>1, PortalIs DEF D!PortalAnswer
<1>e. /\ developerPc' \in [Handlers -> Steps] /\ developerApp' \in [Handlers -> Apps \cup {None}] /\ to' \in [Handlers -> Workspaces \cup {None}]
      /\ developerRow' \in [Handlers -> D!Versions \cup {None}] /\ answer' \in [Handlers -> D!Portals \cup {None}]
      /\ developerPc'[x] = "portal" /\ developerApp'[x] = None /\ answer'[x] = D!PortalAnswer(o)
      /\ \A y \in Handlers \ {x} :
           developerPc'[y] = developerPc[y] /\ developerApp'[y] = developerApp[y] /\ to'[y] = to[y] /\ developerRow'[y] = developerRow[y] /\ answer'[y] = answer[y]
  <2>1. None \in Apps \cup {None}
    OBVIOUS
  <2> QED BY <1>0, <1>a, <1>o, <2>1, AsksPortalEffect
<1>1. DeveloperTypes'
  <2>1. Held(x)'
    BY <1>0, <1>a, <1>e DEF Held
  <2>2. \A y \in Handlers : Held(y)'
    BY <1>0, <1>e, <2>1, OthersHold
  <2> QED BY <1>0, <1>e, <1>f, <2>2, ConsoleTypesAre, ServerTyped, CacheTyped, EmptyTyped, ForgottenTyped, ConsoleRestTyped
<1>2. ASSUME ~doubtful' PROVE DeveloperLone'
  <2>1. DeveloperLone
    BY <1>f DEF DeveloperInv, D!Starts
  <2>2. /\ \A y \in Handlers : developerPc[y] = "idle"
        /\ OrgsAgree /\ AppsAgree /\ Listed /\ Shown /\ FreshTrue /\ PortalTrue
    BY <1>2, <1>f, <2>1, StartsAlone
  <2>3. FreshTrue' /\ PortalTrue'
    BY <2>2, <1>f, FreshKept, PortalsKept DEF D!serverVars, D!cacheVars
  <2>4. FreshAgree' /\ PortalAgree'
    BY <2>3, CacheTrueNext
  <2>5. D!PortalAnswer(o) = D!Portal(o) /\ D!Portal(o).org = o
    BY <2>2, <1>0, <1>a, PortalIs DEF PortalTrue, D!PortalAnswer
  <2>6. (answer[x] = D!Portal(answer[x].org))'
    <3>1. answer'[x] = D!Portal(o) /\ answer'[x].org = o
      BY <2>5, <1>e
    <3> QED BY <3>1, <1>f DEF D!Portal, D!serverVars
  <2>7. Shown'
    BY <1>f DEF Shown
  <2>8. OnItsWay(x)'
    BY <2>6, <2>7, <1>e DEF OnItsWay
  <2> QED BY <2>2, <2>4, <2>8, <1>e, LoneStays
<1> QED BY <1>1, <1>2 DEF DeveloperInv

\* The workspace is shown; a moved application is opened again.
LEMMA ShowPortalKeeps ==
  ASSUME DeveloperInv, NEW x \in Handlers, D!ShowPortal(x)
  PROVE  DeveloperInv'
<1>0. DeveloperTypes
  BY DEF DeveloperInv
<1> DEFINE data == answer[x]
           kept == IF sel = None \/ data.apps[sel] # None THEN sel ELSE None
<1>f. /\ developerPc[x] = "portal" /\ cur' = data.org /\ workspace' = <<data.org, data.setting>> /\ listed' = data.orgs
      /\ apps' = data.apps /\ portal' = [portal EXCEPT ![data.org] = data] /\ sel' = kept
      /\ UNCHANGED D!serverVars /\ UNCHANGED <<overview, doubtful>>
      /\ (developerApp[x] # None => D!LoadSelected(x, developerApp[x], overview, bundles))
      /\ (developerApp[x] = None => /\ D!Ends(x) /\ panel' = (IF kept = sel THEN panel ELSE D!Empty)
                                    /\ UNCHANGED <<loading, bundles>>)
  BY DEF D!ShowPortal
<1>a. data \in D!Portals /\ kept \in Apps \cup {None} /\ (kept # None => kept = sel)
  <2>1. data \in D!Portals
    BY <1>0, <1>f DEF DeveloperTypes, Held
  <2> QED BY <2>1, <1>0, ConsoleTypesAre
<1> HIDE DEF data
<1>e. /\ developerPc' \in [Handlers -> Steps] /\ developerApp' \in [Handlers -> Apps \cup {None}] /\ to' \in [Handlers -> Workspaces \cup {None}]
      /\ developerRow' \in [Handlers -> D!Versions \cup {None}] /\ answer' \in [Handlers -> D!Portals \cup {None}]
      /\ \/ developerApp[x] # None /\ developerPc'[x] = "overview" /\ developerApp'[x] = developerApp[x] /\ developerApp[x] \in Apps /\ developerRow'[x] \in D!Versions
            /\ (developerRow'[x] = version[developerApp[x]] \/ (overview[developerApp[x]].fresh /\ developerRow'[x] = overview[developerApp[x]].v))
         \/ developerApp[x] = None /\ developerPc'[x] = "idle"
      /\ panel' \in Panels /\ loading' \in BOOLEAN /\ bundles' \in [Apps -> D!Versions \cup {None}]
      /\ \A y \in Handlers \ {x} :
           developerPc'[y] = developerPc[y] /\ developerApp'[y] = developerApp[y] /\ to'[y] = to[y] /\ developerRow'[y] = developerRow[y] /\ answer'[y] = answer[y]
  <2>1. CASE developerApp[x] # None
    <3>1. developerApp[x] \in Apps /\ overview \in [Apps -> Overviews] /\ bundles \in [Apps -> D!Versions \cup {None}]
          /\ \A b \in Apps : overview[b].fresh => overview[b].v # None
      BY <1>0, <2>1, ConsoleTypesAre
    <3>2. D!LoadSelected(x, developerApp[x], overview, bundles)
      BY <1>f, <2>1
    <3> HIDE <1>f
    <3> QED BY <1>0, <2>1, <3>1, <3>2, LoadSelectedEffect
  <2>2. CASE developerApp[x] = None
    <3>1. D!Ends(x) /\ panel' = (IF kept = sel THEN panel ELSE D!Empty) /\ UNCHANGED <<loading, bundles>>
      BY <1>f, <2>2
    <3>2. panel' \in Panels /\ loading' \in BOOLEAN /\ bundles' \in [Apps -> D!Versions \cup {None}]
      BY <1>0, <3>1, EmptyTyped, ConsoleTypesAre
    <3>3. D!Ends(x)
      BY <3>1
    <3> HIDE <1>f
    <3> QED BY <1>0, <2>2, <3>2, <3>3, ClickEnds
  <2> QED BY <2>1, <2>2
<1>t. /\ cur' \in Workspaces /\ workspace' \in Workspaces \X D!Versions /\ listed' \subseteq Workspaces
      /\ apps' \in [Apps -> D!Versions \cup {None}] /\ portal' \in [Workspaces -> D!Portals \cup {None}]
  <2>1. data.org \in Workspaces /\ data.setting \in D!Versions /\ data.orgs \subseteq Workspaces
        /\ data.apps \in [Apps -> D!Versions \cup {None}]
    BY <1>a DEF D!Portals
  <2> QED BY <1>0, <1>a, <1>f, <2>1, ConsoleTypesAre
<1>1. DeveloperTypes'
  <2>1. Held(x)'
    BY <1>0, <1>e DEF Held
  <2>2. \A y \in Handlers : Held(y)'
    BY <1>0, <1>e, <2>1, OthersHold
  <2> QED BY <1>0, <1>e, <1>f, <1>a, <1>t, <2>2, ConsoleTypesAre, ServerTyped, ConsoleRestTyped
<1>2. ASSUME ~doubtful' PROVE DeveloperLone'
  <2>1. DeveloperLone
    BY <1>2, <1>f DEF DeveloperInv
  <2>2. OnItsWay(x) /\ \A y \in Handlers \ {x} : developerPc[y] = "idle"
    BY <2>1, <1>f, LoneNow
  <2>3. /\ data = D!Portal(data.org) /\ (developerApp[x] = None => Shown)
        /\ (developerApp[x] # None => developerApp[x] = sel /\ data.apps[sel] # None)
    BY <2>2, <1>f DEF OnItsWay, data
  <2>4. data.org \in Workspaces
    BY <1>a DEF D!Portals
  <2>5. /\ data.setting = setting[data.org] /\ data.orgs = orgs /\ data.apps = D!Portal(data.org).apps
    BY <1>0, <2>3, <2>4, PortalIs
  <2>6. FreshTrue' /\ PortalTrue'
    <3>1. FreshTrue /\ PortalTrue
      BY <2>1, <1>f, CacheNow
    <3>2. FreshTrue'
      BY <3>1, <1>f, FreshKept DEF D!serverVars
    <3>3. portal'[data.org] = data /\ \A o \in Workspaces \ {data.org} : portal'[o] = portal[o]
      BY <1>0, <1>f, <2>4, ConsoleTypesAre
    <3>4. ASSUME NEW o \in Workspaces, portal'[o] # None PROVE portal'[o] = D!Portal(o)'
      <4>1. D!Portal(o)' = D!Portal(o)
        BY <1>f, PortalKept
      <4>2. CASE o = data.org
        BY <2>3, <3>3, <4>1, <4>2
      <4>3. CASE o # data.org
        BY <3>1, <3>3, <3>4, <4>1, <4>3 DEF PortalTrue
      <4> QED BY <4>2, <4>3
    <3> QED BY <3>2, <3>4 DEF PortalTrue
  <2>7. FreshAgree' /\ PortalAgree'
    BY <2>6, CacheTrueNext
  <2>8. OrgsAgree'
    BY <2>5, <1>f DEF OrgsAgree, D!serverVars
  <2>9. AppsAgree'
    <3>1. D!Portal(cur)' = D!Portal(data.org)
      BY <1>f, PortalKept DEF D!Portal, D!serverVars
    <3> QED BY <2>5, <3>1, <1>f DEF AppsAgree
  <2>10. Listed'
    BY <1>f DEF Listed
  <2>11. CASE developerApp[x] # None
    <3>1. developerApp'[x] = sel' /\ developerPc'[x] = "overview" /\ developerApp[x] \in Apps
      BY <2>3, <2>11, <1>e, <1>f
    <3>2. developerRow'[x] = version[developerApp[x]]
      <4>1. FreshTrue
        BY <2>1, <1>f, CacheNow
      <4> QED BY <2>11, <1>e, <4>1 DEF FreshTrue
    <3>3. developerRow'[x] = version'[developerApp'[x]]
      BY <2>11, <3>2, <1>e, <1>f DEF D!serverVars
    <3> QED BY <2>2, <2>7, <2>8, <2>9, <2>10, <3>1, <3>3, <1>e, LoneReads
  <2>12. CASE developerApp[x] = None
    <3>1. Shown
      BY <2>3, <2>12
    <3>2. kept # None => kept = sel /\ panel' = panel /\ loading' = loading
      BY <2>12, <1>f, <1>a
    <3>3. Shown'
      BY <3>1, <3>2, <1>f DEF Shown, D!serverVars, D!Full
    <3> QED BY <2>2, <2>7, <2>8, <2>9, <2>10, <2>12, <3>3, <1>e, LoneEnds
  <2> QED BY <2>11, <2>12
<1> QED BY <1>1, <1>2 DEF DeveloperInv

\* An application is created in the workspace that is current.
LEMMA SendCreateKeeps ==
  ASSUME DeveloperInv, NEW x \in Handlers, D!SendCreate(x)
  PROVE  DeveloperInv'
<1>0. DeveloperTypes
  BY DEF DeveloperInv
<1>o. PICK a \in Apps : home[a] = "new" /\ home' = [home EXCEPT ![a] = cur] /\ D!Waits(x, "created", a, None, None)
  BY DEF D!SendCreate
<1>f. /\ D!Starts(x) /\ doubtful' \in BOOLEAN
      /\ UNCHANGED <<orgs, version, setting>> /\ UNCHANGED D!pageVars /\ UNCHANGED D!cacheVars
  BY DEF D!SendCreate, D!Starts
<1>a. a \in Apps \cup {None} /\ "created" \in Steps /\ None \in Workspaces \cup {None} /\ None \in D!Versions \cup {None}
  BY DEF Steps
<1>e. /\ developerPc' \in [Handlers -> Steps] /\ developerApp' \in [Handlers -> Apps \cup {None}] /\ to' \in [Handlers -> Workspaces \cup {None}]
      /\ developerRow' \in [Handlers -> D!Versions \cup {None}] /\ answer' \in [Handlers -> D!Portals \cup {None}]
      /\ developerPc'[x] = "created" /\ developerApp'[x] = a /\ to'[x] = None /\ developerRow'[x] = None
      /\ \A y \in Handlers \ {x} :
           developerPc'[y] = developerPc[y] /\ developerApp'[y] = developerApp[y] /\ to'[y] = to[y] /\ developerRow'[y] = developerRow[y] /\ answer'[y] = answer[y]
  BY <1>0, <1>a, <1>o, WaitsEffect
<1>t. /\ home' \in [Apps -> Workspaces \cup {"new", "gone"}] /\ home'[a] = cur /\ cur \in Workspaces
      /\ \A b \in Apps \ {a} : home'[b] = home[b]
      /\ \A b \in Apps : home'[b] = "new" => version[b] = 0
  BY <1>0, <1>o, ConsoleTypesAre, DeveloperAssumption
<1>1. DeveloperTypes'
  <2>1. Held(x)'
    BY <1>0, <1>e DEF Held
  <2>2. \A y \in Handlers : Held(y)'
    BY <1>0, <1>e, <2>1, OthersHold
  <2> QED BY <1>0, <1>e, <1>f, <1>t, <2>2, ConsoleTypesAre, PageTyped, CacheTyped, ConsoleRestTyped
<1>2. ASSUME ~doubtful' PROVE DeveloperLone'
  <2>1. DeveloperLone
    BY <1>f DEF DeveloperInv, D!Starts
  <2>2. /\ \A y \in Handlers : developerPc[y] = "idle"
        /\ OrgsAgree /\ AppsAgree /\ Listed /\ Shown /\ FreshTrue /\ PortalTrue
    BY <1>2, <1>f, <2>1, StartsAlone
  <2>3. FreshTrue'
    BY <2>2, <1>f, FreshKept DEF D!cacheVars
  <2>4. PortalAgree'
    <3> SUFFICES ASSUME NEW o \in Workspaces, portal'[o] # None, o # cur PROVE portal'[o] = D!Portal(o)'
      BY <1>e, <1>f DEF PortalAgree, D!pageVars
    <3>1. portal'[o] = D!Portal(o)
      BY <2>2, <1>f DEF PortalTrue, D!cacheVars
    <3>2. \A b \in Apps : (home'[b] = o) = (home[b] = o)
      BY <1>o, <1>t, DeveloperAssumption
    <3>3. D!Portal(o)' = D!Portal(o)
      BY <1>f, <3>2 DEF D!Portal
    <3> QED BY <3>1, <3>3
  <2>5. OrgsAgree'
    BY <2>2, <1>f DEF OrgsAgree, D!pageVars
  <2>6. AppsAgreeBut(a)'
    <3> SUFFICES ASSUME NEW b \in Apps \ {a} PROVE apps'[b] = D!Portal(cur)'.apps[b]
      BY <1>f DEF AppsAgreeBut, D!pageVars
    <3>1. apps'[b] = D!Portal(cur).apps[b]
      BY <2>2, <1>f DEF AppsAgree, D!pageVars
    <3>2. D!Portal(cur).apps[b] = D!Portal(cur)'.apps[b]
      BY <1>f, <1>t DEF D!Portal, D!pageVars
    <3> QED BY <3>1, <3>2
  <2>7. home'[a] = cur' /\ version'[a] = 0
    BY <1>0, <1>o, <1>f, <1>t, ConsoleTypesAre DEF D!pageVars
  <2>8. OnItsWay(x)'
    BY <2>5, <2>6, <2>7, <1>e DEF OnItsWay, AppsAgreeBut
  <2>9. FreshAgree'
    BY <2>3, CacheTrueNext
  <2> QED BY <2>2, <2>4, <2>8, <2>9, <1>e, LoneStays
<1> QED BY <1>1, <1>2 DEF DeveloperInv

\* And shown; its panels are asked for.
LEMMA CreateKeeps ==
  ASSUME DeveloperInv, NEW x \in Handlers, D!Create(x)
  PROVE  DeveloperInv'
<1>0. DeveloperTypes
  BY DEF DeveloperInv
<1> DEFINE a == developerApp[x]
<1>f. /\ developerPc[x] = "created" /\ apps' = [apps EXCEPT ![a] = 0] /\ portal' = [portal EXCEPT ![cur] = None]
      /\ D!LoadSelected(x, a, overview, D!Forgotten) /\ doubtful' = (doubtful \/ sel # None)
      /\ UNCHANGED D!serverVars /\ UNCHANGED <<overview, cur, workspace, listed, sel>>
  BY DEF D!Create
<1>a. /\ a \in Apps /\ overview \in [Apps -> Overviews] /\ D!Forgotten \in [Apps -> D!Versions \cup {None}]
      /\ \A b \in Apps : overview[b].fresh => overview[b].v # None
  BY <1>0, <1>f, ConsoleTypesAre, ForgottenTyped DEF DeveloperTypes, Held
<1>g. D!LoadSelected(x, a, overview, D!Forgotten) /\ a = developerApp[x]
  BY <1>f
<1> HIDE DEF a
<1>e. /\ developerPc' \in [Handlers -> Steps] /\ developerApp' \in [Handlers -> Apps \cup {None}] /\ to' \in [Handlers -> Workspaces \cup {None}]
      /\ developerRow' \in [Handlers -> D!Versions \cup {None}] /\ answer' \in [Handlers -> D!Portals \cup {None}]
      /\ developerPc'[x] = "overview" /\ developerApp'[x] = a /\ developerRow'[x] \in D!Versions
      /\ (developerRow'[x] = version[a] \/ (overview[a].fresh /\ developerRow'[x] = overview[a].v))
      /\ panel' \in Panels /\ loading' \in BOOLEAN /\ bundles' \in [Apps -> D!Versions \cup {None}]
      /\ \A y \in Handlers \ {x} :
           developerPc'[y] = developerPc[y] /\ developerApp'[y] = developerApp[y] /\ to'[y] = to[y] /\ developerRow'[y] = developerRow[y] /\ answer'[y] = answer[y]
  BY <1>0, <1>a, <1>g, LoadSelectedEffect
<1>t. /\ apps' \in [Apps -> D!Versions \cup {None}] /\ apps'[a] = 0 /\ (\A b \in Apps \ {a} : apps'[b] = apps[b])
      /\ portal' \in [Workspaces -> D!Portals \cup {None}] /\ cur \in Workspaces /\ portal'[cur] = None
      /\ (\A o \in Workspaces \ {cur} : portal'[o] = portal[o]) /\ doubtful' \in BOOLEAN
  <2>1. 0 \in D!Versions
    BY DeveloperAssumption DEF D!Versions
  <2> QED BY <1>0, <1>a, <1>f, <2>1, ConsoleTypesAre
<1>1. DeveloperTypes'
  <2>1. Held(x)'
    BY <1>0, <1>a, <1>e DEF Held
  <2>2. \A y \in Handlers : Held(y)'
    BY <1>0, <1>e, <2>1, OthersHold
  <2> QED BY <1>0, <1>e, <1>f, <1>t, <2>2, ConsoleTypesAre, ServerTyped, ConsoleRestTyped
<1>2. ASSUME ~doubtful' PROVE DeveloperLone'
  <2>1. DeveloperLone
    BY <1>2, <1>f DEF DeveloperInv
  <2>2. OnItsWay(x) /\ \A y \in Handlers \ {x} : developerPc[y] = "idle"
    BY <2>1, <1>f, LoneNow
  <2>3. OrgsAgree /\ AppsAgreeBut(a) /\ home[a] = cur /\ version[a] = 0 /\ sel = None
    BY <2>2, <1>2, <1>f, <1>g DEF OnItsWay
  <2>4. FreshTrue /\ FreshTrue'
    <3>1. FreshTrue
      BY <2>1, <1>f, CacheNow
    <3> QED BY <3>1, <1>f, FreshKept DEF D!serverVars
  <2>5. PortalTrue'
    <3> SUFFICES ASSUME NEW o \in Workspaces, portal'[o] # None PROVE portal'[o] = D!Portal(o)'
      BY DEF PortalTrue
    <3>1. o # cur /\ portal'[o] = portal[o]
      BY <1>t
    <3>2. portal[o] = D!Portal(o)
      BY <2>1, <2>2, <3>1, <1>f DEF DeveloperLone, PortalAgree
    <3> QED BY <3>1, <3>2, <1>f, PortalKept
  <2>6. OrgsAgree'
    BY <2>3, <1>f DEF OrgsAgree, D!serverVars
  <2>7. AppsAgree'
    <3> SUFFICES ASSUME NEW b \in Apps PROVE apps'[b] = D!Portal(cur)'.apps[b]
      BY <1>f DEF AppsAgree, D!Portal, D!serverVars
    <3>1. D!Portal(cur)' = D!Portal(cur)
      BY <1>f, PortalKept DEF D!Portal, D!serverVars
    <3>2. CASE b = a
      BY <1>0, <1>a, <1>t, <2>3, <3>1, <3>2, PortalIs
    <3>3. CASE b # a
      BY <1>t, <2>3, <3>1, <3>3 DEF AppsAgreeBut
    <3> QED BY <3>2, <3>3
  <2>8. Listed' /\ Shown'
    BY <2>3, <1>f DEF Listed, Shown
  <2>9. developerRow'[x] = version'[developerApp'[x]]
    BY <2>4, <1>a, <1>e, <1>f DEF FreshTrue, D!serverVars
  <2>10. FreshAgree' /\ PortalAgree'
    BY <2>4, <2>5, CacheTrueNext
  <2> QED BY <2>2, <2>6, <2>7, <2>8, <2>9, <2>10, <1>e, LoneReads
<1> QED BY <1>1, <1>2 DEF DeveloperInv

\* An application is changed, and may move.
LEMMA SendSaveKeeps ==
  ASSUME DeveloperInv, NEW x \in Handlers, D!SendSave(x)
  PROVE  DeveloperInv'
<1>0. DeveloperTypes
  BY DEF DeveloperInv
<1>o. PICK a \in Apps, o \in listed :
        /\ sel = a /\ apps[a] # None /\ home[a] \in orgs /\ version[a] < MaxVersion
        /\ version' = [version EXCEPT ![a] = @ + 1] /\ home' = [home EXCEPT ![a] = o]
        /\ D!Waits(x, "saved", a, IF o = cur THEN None ELSE o, version[a] + 1)
  BY DEF D!SendSave
<1>f. /\ D!Starts(x) /\ doubtful' \in BOOLEAN
      /\ UNCHANGED <<orgs, setting>> /\ UNCHANGED D!pageVars /\ UNCHANGED D!cacheVars
  BY DEF D!SendSave, D!Starts
<1>a. /\ a \in Apps \cup {None} /\ "saved" \in Steps /\ (IF o = cur THEN None ELSE o) \in Workspaces \cup {None}
      /\ version[a] + 1 \in D!Versions /\ version[a] + 1 \in D!Versions \cup {None} /\ o \in Workspaces
  <2>1. version[a] \in D!Versions /\ o \in Workspaces
    BY <1>0, ConsoleTypesAre
  <2>2. version[a] + 1 \in D!Versions
    BY <2>1, <1>o, DeveloperAssumption DEF D!Versions
  <2> QED BY <2>1, <2>2 DEF Steps
<1>e. /\ developerPc' \in [Handlers -> Steps] /\ developerApp' \in [Handlers -> Apps \cup {None}] /\ to' \in [Handlers -> Workspaces \cup {None}]
      /\ developerRow' \in [Handlers -> D!Versions \cup {None}] /\ answer' \in [Handlers -> D!Portals \cup {None}]
      /\ developerPc'[x] = "saved" /\ developerApp'[x] = a /\ to'[x] = (IF o = cur THEN None ELSE o) /\ developerRow'[x] = version[a] + 1
      /\ \A y \in Handlers \ {x} :
           developerPc'[y] = developerPc[y] /\ developerApp'[y] = developerApp[y] /\ to'[y] = to[y] /\ developerRow'[y] = developerRow[y] /\ answer'[y] = answer[y]
  <2> DEFINE d == IF o = cur THEN None ELSE o
             v == version[a] + 1
  <2>1. D!Waits(x, "saved", a, d, v) /\ d \in Workspaces \cup {None} /\ v \in D!Versions \cup {None}
    BY <1>a, <1>o
  <2> HIDE DEF d, v
  <2>2. /\ developerPc' \in [Handlers -> Steps] /\ developerApp' \in [Handlers -> Apps \cup {None}] /\ to' \in [Handlers -> Workspaces \cup {None}]
        /\ developerRow' \in [Handlers -> D!Versions \cup {None}] /\ answer' \in [Handlers -> D!Portals \cup {None}]
        /\ developerPc'[x] = "saved" /\ developerApp'[x] = a /\ to'[x] = d /\ developerRow'[x] = v
        /\ \A y \in Handlers \ {x} :
             developerPc'[y] = developerPc[y] /\ developerApp'[y] = developerApp[y] /\ to'[y] = to[y] /\ developerRow'[y] = developerRow[y] /\ answer'[y] = answer[y]
    BY <1>0, <1>a, <2>1, WaitsEffect
  <2> QED BY <2>2 DEF d, v
<1>t. /\ home' \in [Apps -> Workspaces \cup {"new", "gone"}] /\ home'[a] = o
      /\ version' \in [Apps -> D!Versions] /\ version'[a] = version[a] + 1
      /\ \A b \in Apps \ {a} : home'[b] = home[b] /\ version'[b] = version[b]
      /\ \A b \in Apps : home'[b] = "new" => version'[b] = 0
  <2>1. home' \in [Apps -> Workspaces \cup {"new", "gone"}] /\ home'[a] = o /\ \A b \in Apps \ {a} : home'[b] = home[b]
    BY <1>0, <1>a, <1>o, ConsoleTypesAre
  <2>2. version' \in [Apps -> D!Versions] /\ version'[a] = version[a] + 1 /\ \A b \in Apps \ {a} : version'[b] = version[b]
    BY <1>0, <1>a, <1>o, ConsoleTypesAre
  <2> QED BY <1>0, <1>a, <2>1, <2>2, ConsoleTypesAre, DeveloperAssumption
<1>1. DeveloperTypes'
  <2>1. Held(x)'
    BY <1>0, <1>a, <1>e DEF Held
  <2>2. \A y \in Handlers : Held(y)'
    BY <1>0, <1>e, <2>1, OthersHold
  <2> QED BY <1>0, <1>e, <1>f, <1>t, <2>2, ConsoleTypesAre, PageTyped, CacheTyped, ConsoleRestTyped
<1>2. ASSUME ~doubtful' PROVE DeveloperLone'
  <2>1. DeveloperLone
    BY <1>f DEF DeveloperInv, D!Starts
  <2>2. /\ \A y \in Handlers : developerPc[y] = "idle"
        /\ OrgsAgree /\ AppsAgree /\ Listed /\ Shown /\ FreshTrue /\ PortalTrue
    BY <1>2, <1>f, <2>1, StartsAlone
  <2>3. FreshAgree'
    <3> SUFFICES ASSUME NEW b \in Apps, overview'[b].fresh, b # a PROVE overview'[b].v = version'[b]
      BY <1>e DEF FreshAgree
    <3> QED BY <2>2, <1>f, <1>t DEF FreshTrue, D!cacheVars
  <2>4. PortalAgree'
    BY <1>e DEF PortalAgree
  <2>5. OrgsAgree'
    BY <2>2, <1>f DEF OrgsAgree, D!pageVars
  <2>6. AppsAgreeBut(a)'
    <3> SUFFICES ASSUME NEW b \in Apps \ {a} PROVE apps'[b] = D!Portal(cur)'.apps[b]
      BY <1>f DEF AppsAgreeBut, D!pageVars
    <3>1. apps'[b] = D!Portal(cur).apps[b]
      BY <2>2, <1>f DEF AppsAgree, D!pageVars
    <3>2. D!Portal(cur).apps[b] = D!Portal(cur)'.apps[b]
      BY <1>f, <1>t DEF D!Portal, D!pageVars
    <3> QED BY <3>1, <3>2
  <2>7. sel' = a /\ developerRow'[x] = version'[a] /\ apps'[a] # None /\ cur' = cur
    BY <1>e, <1>f, <1>o, <1>t DEF D!pageVars
  <2>8. (to'[x] = None => home'[a] = cur) /\ (to'[x] # None => home'[a] = to'[x])
    BY <1>a, <1>e, <1>t, DeveloperAssumption
  <2>9. OnItsWay(x)'
    BY <2>5, <2>6, <2>7, <2>8, <1>e DEF OnItsWay, AppsAgreeBut
  <2> QED BY <2>2, <2>3, <2>4, <2>9, <1>e, LoneStays
<1> QED BY <1>1, <1>2 DEF DeveloperInv

\* A resource of the application that is open is made or deleted.
LEMMA SendResourceKeeps ==
  ASSUME DeveloperInv, NEW x \in Handlers, D!SendResource(x)
  PROVE  DeveloperInv'
<1>0. DeveloperTypes
  BY DEF DeveloperInv
<1>o. PICK a \in Apps :
        /\ sel = a /\ home[a] \in orgs /\ version[a] < MaxVersion
        /\ version' = [version EXCEPT ![a] = @ + 1]
        /\ D!Waits(x, "saved", a, None, version[a] + 1)
  BY DEF D!SendResource
<1>f. /\ D!Starts(x) /\ doubtful' \in BOOLEAN
      /\ UNCHANGED <<orgs, home, setting>> /\ UNCHANGED D!pageVars /\ UNCHANGED D!cacheVars
  BY DEF D!SendResource, D!Starts
<1>a. /\ a \in Apps \cup {None} /\ "saved" \in Steps /\ None \in Workspaces \cup {None}
      /\ version[a] + 1 \in D!Versions /\ version[a] + 1 \in D!Versions \cup {None}
  <2>1. version[a] \in D!Versions
    BY <1>0, ConsoleTypesAre
  <2>2. version[a] + 1 \in D!Versions
    BY <2>1, <1>o, DeveloperAssumption DEF D!Versions
  <2> QED BY <2>1, <2>2 DEF Steps
<1>e. /\ developerPc' \in [Handlers -> Steps] /\ developerApp' \in [Handlers -> Apps \cup {None}] /\ to' \in [Handlers -> Workspaces \cup {None}]
      /\ developerRow' \in [Handlers -> D!Versions \cup {None}] /\ answer' \in [Handlers -> D!Portals \cup {None}]
      /\ developerPc'[x] = "saved" /\ developerApp'[x] = a /\ to'[x] = None /\ developerRow'[x] = version[a] + 1
      /\ \A y \in Handlers \ {x} :
           developerPc'[y] = developerPc[y] /\ developerApp'[y] = developerApp[y] /\ to'[y] = to[y] /\ developerRow'[y] = developerRow[y] /\ answer'[y] = answer[y]
  BY <1>0, <1>a, <1>o, WaitsEffect
<1>t. /\ version' \in [Apps -> D!Versions] /\ version'[a] = version[a] + 1
      /\ \A b \in Apps \ {a} : version'[b] = version[b]
      /\ \A b \in Apps : home'[b] = "new" => version'[b] = 0
  <2>1. home[a] # "new"
    BY <1>0, <1>o, ConsoleTypesAre, DeveloperAssumption
  <2>2. version' \in [Apps -> D!Versions] /\ version'[a] = version[a] + 1 /\ \A b \in Apps \ {a} : version'[b] = version[b]
    BY <1>0, <1>a, <1>o, ConsoleTypesAre
  <2> QED BY <1>0, <1>f, <2>1, <2>2, ConsoleTypesAre
<1>1. DeveloperTypes'
  <2>1. Held(x)'
    BY <1>0, <1>a, <1>e DEF Held
  <2>2. \A y \in Handlers : Held(y)'
    BY <1>0, <1>e, <2>1, OthersHold
  <2> QED BY <1>0, <1>e, <1>f, <1>t, <2>2, ConsoleTypesAre, PageTyped, CacheTyped, ConsoleRestTyped
<1>2. ASSUME ~doubtful' PROVE DeveloperLone'
  <2>1. DeveloperLone
    BY <1>f DEF DeveloperInv, D!Starts
  <2>2. /\ \A y \in Handlers : developerPc[y] = "idle"
        /\ OrgsAgree /\ AppsAgree /\ Listed /\ Shown /\ FreshTrue /\ PortalTrue
    BY <1>2, <1>f, <2>1, StartsAlone
  <2>3. FreshAgree'
    <3> SUFFICES ASSUME NEW b \in Apps, overview'[b].fresh, b # a PROVE overview'[b].v = version'[b]
      BY <1>e DEF FreshAgree
    <3> QED BY <2>2, <1>f, <1>t DEF FreshTrue, D!cacheVars
  <2>4. PortalAgree'
    BY <1>e DEF PortalAgree
  <2>5. OrgsAgree'
    BY <2>2, <1>f DEF OrgsAgree, D!pageVars
  <2>6. AppsAgreeBut(a)'
    <3> SUFFICES ASSUME NEW b \in Apps \ {a} PROVE apps'[b] = D!Portal(cur)'.apps[b]
      BY <1>f DEF AppsAgreeBut, D!pageVars
    <3>1. apps'[b] = D!Portal(cur).apps[b]
      BY <2>2, <1>f DEF AppsAgree, D!pageVars
    <3>2. D!Portal(cur).apps[b] = D!Portal(cur)'.apps[b]
      BY <1>f, <1>t DEF D!Portal, D!pageVars
    <3> QED BY <3>1, <3>2
  <2>7. apps[a] # None /\ home[a] = cur
    <3>1. apps[a] # None /\ apps[a] = D!Portal(cur).apps[a] /\ cur \in Workspaces
      BY <1>0, <1>o, <2>2, ConsoleTypesAre, DeveloperAssumption DEF Listed, AppsAgree
    <3> QED BY <1>0, <3>1, PortalIs
  <2>8. sel' = a /\ developerRow'[x] = version'[a] /\ apps'[a] # None /\ home'[a] = cur'
    BY <2>7, <1>e, <1>f, <1>o, <1>t DEF D!pageVars
  <2>9. OnItsWay(x)'
    BY <2>5, <2>6, <2>8, <1>e DEF OnItsWay, AppsAgreeBut
  <2> QED BY <2>2, <2>3, <2>4, <2>9, <1>e, LoneStays
<1> QED BY <1>1, <1>2 DEF DeveloperInv

\* And shown; the page goes along with an application that moved.
LEMMA SaveKeeps ==
  ASSUME DeveloperInv, NEW x \in Handlers, D!Save(x)
  PROVE  DeveloperInv'
<1>0. DeveloperTypes
  BY DEF DeveloperInv
<1> DEFINE a == developerApp[x]
           left == D!StaleOverview(a)
           fewer == [bundles EXCEPT ![a] = None]
<1>f. /\ developerPc[x] = "saved" /\ overview' = left /\ portal' = D!Stale(portal)
      /\ UNCHANGED D!serverVars /\ UNCHANGED <<cur, workspace, listed, doubtful>>
      /\ (to[x] # None => /\ sel' = a /\ bundles' = D!Forgotten /\ D!AsksPortal(x, a, D!Portal(to[x]))
                          /\ UNCHANGED <<panel, loading, apps>>)
      /\ (to[x] = None => /\ apps' = [apps EXCEPT ![a] = IF @ = None THEN None ELSE developerRow[x]]
                          /\ D!LoadSelected(x, a, left, fewer) /\ sel' = sel)
  BY DEF D!Save
<1>a. a \in Apps /\ developerRow[x] \in D!Versions /\ to[x] \in Workspaces \cup {None} /\ a = developerApp[x]
  BY <1>0, <1>f, ConsoleTypesAre DEF DeveloperTypes, Held
<1>l. /\ left \in [Apps -> Overviews] /\ (\A b \in Apps : left[b].fresh => left[b].v # None)
      /\ ~left[a].fresh /\ (\A b \in Apps \ {a} : left[b] = overview[b])
      /\ fewer \in [Apps -> D!Versions \cup {None}]
  <2>1. left = [overview EXCEPT ![a].fresh = FALSE] /\ overview \in [Apps -> Overviews]
    BY <1>0, ConsoleTypesAre DEF D!StaleOverview
  <2>2. left[a] = [overview[a] EXCEPT !.fresh = FALSE]
    BY <1>a, <2>1
  <2>3. overview[a] \in Overviews
    BY <1>a, <2>1
  <2>4. left[a] \in Overviews /\ ~left[a].fresh
    BY <2>2, <2>3 DEF Overviews
  <2>5. \A b \in Apps \ {a} : left[b] = overview[b]
    BY <2>1
  <2>6. left \in [Apps -> Overviews]
    BY <2>1, <2>4
  <2> QED BY <1>0, <1>a, <2>4, <2>5, <2>6, ConsoleTypesAre
<1>s. PortalTrue' /\ portal' \in [Workspaces -> D!Portals \cup {None}]
  BY <1>f, PortalsStale
<1> HIDE DEF a, left, fewer
<1>e. /\ developerPc' \in [Handlers -> Steps] /\ developerApp' \in [Handlers -> Apps \cup {None}] /\ to' \in [Handlers -> Workspaces \cup {None}]
      /\ developerRow' \in [Handlers -> D!Versions \cup {None}] /\ answer' \in [Handlers -> D!Portals \cup {None}]
      /\ \/ to[x] # None /\ developerPc'[x] = "portal" /\ developerApp'[x] = a /\ answer'[x] = D!Portal(to[x]) /\ answer'[x] \in D!Portals
         \/ to[x] = None /\ developerPc'[x] = "overview" /\ developerApp'[x] = a /\ developerRow'[x] \in D!Versions /\ developerRow'[x] = version[a]
      /\ panel' \in Panels /\ loading' \in BOOLEAN /\ bundles' \in [Apps -> D!Versions \cup {None}]
      /\ apps' \in [Apps -> D!Versions \cup {None}] /\ sel' \in Apps \cup {None}
      /\ \A y \in Handlers \ {x} :
           developerPc'[y] = developerPc[y] /\ developerApp'[y] = developerApp[y] /\ to'[y] = to[y] /\ developerRow'[y] = developerRow[y] /\ answer'[y] = answer[y]
  <2>1. CASE to[x] # None
    <3>1. to[x] \in Workspaces /\ D!Portal(to[x]) \in D!Portals
      BY <2>1, <1>0, <1>a, PortalIs
    <3>2. sel' = a /\ bundles' = D!Forgotten /\ D!AsksPortal(x, a, D!Portal(to[x])) /\ UNCHANGED <<panel, loading, apps>>
      BY <1>f, <2>1
    <3>3. D!AsksPortal(x, a, D!Portal(to[x])) /\ a \in Apps \cup {None}
      BY <3>2, <1>a
    <3>4. /\ panel' \in Panels /\ loading' \in BOOLEAN /\ bundles' \in [Apps -> D!Versions \cup {None}]
          /\ apps' \in [Apps -> D!Versions \cup {None}] /\ sel' \in Apps \cup {None}
      BY <1>0, <1>a, <3>2, ConsoleTypesAre, ForgottenTyped
    <3> HIDE <1>f
    <3> QED BY <1>0, <2>1, <3>1, <3>3, <3>4, AsksPortalEffect
  <2>2. CASE to[x] = None
    <3>1. apps' = [apps EXCEPT ![a] = IF @ = None THEN None ELSE developerRow[x]] /\ sel' = sel
      BY <1>f, <2>2
    <3>2. apps' \in [Apps -> D!Versions \cup {None}] /\ sel' \in Apps \cup {None}
      BY <1>0, <1>a, <3>1, ConsoleTypesAre
    <3>3. D!LoadSelected(x, a, left, fewer)
      BY <1>f, <2>2
    <3> HIDE <1>f
    <3> QED BY <1>0, <1>a, <1>l, <2>2, <3>2, <3>3, LoadSelectedEffect
  <2> QED BY <2>1, <2>2, <1>a
<1>1. DeveloperTypes'
  <2>1. Held(x)'
    BY <1>0, <1>a, <1>e DEF Held
  <2>2. \A y \in Handlers : Held(y)'
    BY <1>0, <1>e, <2>1, OthersHold
  <2> QED BY <1>0, <1>e, <1>f, <1>l, <1>s, <2>2, ConsoleTypesAre, ServerTyped, ConsoleRestTyped
<1>2. ASSUME ~doubtful' PROVE DeveloperLone'
  <2>1. DeveloperLone
    BY <1>2, <1>f DEF DeveloperInv
  <2>2. OnItsWay(x) /\ \A y \in Handlers \ {x} : developerPc[y] = "idle"
    BY <2>1, <1>f, LoneNow
  <2>3. /\ OrgsAgree /\ AppsAgreeBut(a) /\ sel = a /\ developerRow[x] = version[a]
        /\ to[x] = None => home[a] = cur /\ apps[a] # None
        /\ to[x] # None => home[a] = to[x]
    BY <2>2, <1>f, <1>a DEF OnItsWay
  <2>4. FreshTrue'
    <3> SUFFICES ASSUME NEW b \in Apps, overview'[b].fresh PROVE overview'[b].v = version'[b]
      BY DEF FreshTrue
    <3>1. b # a /\ overview'[b] = overview[b]
      BY <1>f, <1>l
    <3>2. \A y \in Handlers : ~(developerPc[y] = "saved" /\ developerApp[y] = b)
      BY <2>2, <3>1, <1>a
    <3>3. overview[b].v = version[b]
      BY <2>1, <3>1, <3>2 DEF DeveloperLone, FreshAgree
    <3> QED BY <3>1, <3>3, <1>f DEF D!serverVars
  <2>5. FreshAgree' /\ PortalAgree'
    BY <2>4, <1>s, CacheTrueNext
  <2>6. CASE to[x] # None
    <3>1. to[x] \in Workspaces /\ home[a] = to[x]
      BY <2>3, <2>6, <1>a
    <3>2. answer'[x] = D!Portal(to[x]) /\ answer'[x].org = to[x] /\ answer'[x].apps[a] = version[a]
          /\ developerPc'[x] = "portal" /\ developerApp'[x] = a
      BY <1>0, <1>a, <1>e, <2>6, <3>1, PortalIs
    <3>3. (answer[x] = D!Portal(answer[x].org))'
      BY <3>2, <1>f DEF D!Portal, D!serverVars
    <3>4. sel' = a
      BY <1>f, <2>6
    <3>5. version[a] # None /\ a # None
      BY <1>0, <1>a, ConsoleTypesAre, DeveloperAssumption
    <3>6. OnItsWay(x)'
      BY <3>2, <3>3, <3>4, <3>5 DEF OnItsWay
    <3> QED BY <2>2, <2>5, <3>2, <3>6, <1>e, LoneStays
  <2>7. CASE to[x] = None
    <3>1. OrgsAgree'
      BY <2>3, <1>f DEF OrgsAgree, D!serverVars
    <3>2. sel' = a /\ developerPc'[x] = "overview" /\ developerApp'[x] = a /\ developerRow'[x] = version[a]
      BY <2>3, <2>7, <1>e, <1>f
    <3>3. apps'[a] = developerRow[x] /\ \A b \in Apps \ {a} : apps'[b] = apps[b]
      BY <1>0, <1>a, <1>f, <2>3, <2>7, ConsoleTypesAre
    <3>4. AppsAgree'
      <4> SUFFICES ASSUME NEW b \in Apps PROVE apps'[b] = D!Portal(cur)'.apps[b]
        BY <1>f DEF AppsAgree, D!Portal, D!serverVars
      <4>1. D!Portal(cur)' = D!Portal(cur) /\ cur \in Workspaces
        BY <1>0, <1>f, PortalKept, ConsoleTypesAre DEF D!Portal, D!serverVars
      <4>2. CASE b = a
        BY <1>0, <1>a, <2>3, <2>7, <3>3, <4>1, <4>2, PortalIs
      <4>3. CASE b # a
        BY <2>3, <3>3, <4>1, <4>3 DEF AppsAgreeBut
      <4> QED BY <4>2, <4>3
    <3>5. Listed'
      BY <1>a, <2>3, <3>2, <3>3, DeveloperAssumption DEF Listed
    <3>6. developerRow'[x] = version'[developerApp'[x]]
      BY <3>2, <1>f DEF D!serverVars
    <3> QED BY <2>2, <2>5, <3>1, <3>2, <3>4, <3>5, <3>6, <1>e, LoneReads
  <2> QED BY <2>6, <2>7
<1> QED BY <1>1, <1>2 DEF DeveloperInv

\* The application that is open is deleted.
LEMMA SendDeleteKeeps ==
  ASSUME DeveloperInv, NEW x \in Handlers, D!SendDelete(x)
  PROVE  DeveloperInv'
<1>0. DeveloperTypes
  BY DEF DeveloperInv
<1>o. PICK a \in Apps :
        sel = a /\ home[a] \in orgs /\ home' = [home EXCEPT ![a] = "gone"] /\ D!Waits(x, "deleted", a, None, None)
  BY DEF D!SendDelete
<1>f. /\ D!Starts(x) /\ doubtful' \in BOOLEAN
      /\ UNCHANGED <<orgs, version, setting>> /\ UNCHANGED D!pageVars /\ UNCHANGED D!cacheVars
  BY DEF D!SendDelete, D!Starts
<1>a. a \in Apps \cup {None} /\ "deleted" \in Steps /\ None \in Workspaces \cup {None} /\ None \in D!Versions \cup {None}
  BY DEF Steps
<1>e. /\ developerPc' \in [Handlers -> Steps] /\ developerApp' \in [Handlers -> Apps \cup {None}] /\ to' \in [Handlers -> Workspaces \cup {None}]
      /\ developerRow' \in [Handlers -> D!Versions \cup {None}] /\ answer' \in [Handlers -> D!Portals \cup {None}]
      /\ developerPc'[x] = "deleted" /\ developerApp'[x] = a /\ to'[x] = None /\ developerRow'[x] = None
      /\ \A y \in Handlers \ {x} :
           developerPc'[y] = developerPc[y] /\ developerApp'[y] = developerApp[y] /\ to'[y] = to[y] /\ developerRow'[y] = developerRow[y] /\ answer'[y] = answer[y]
  BY <1>0, <1>a, <1>o, WaitsEffect
<1>t. /\ home' \in [Apps -> Workspaces \cup {"new", "gone"}] /\ home'[a] = "gone"
      /\ \A b \in Apps \ {a} : home'[b] = home[b]
      /\ \A b \in Apps : home'[b] = "new" => version[b] = 0
  <2>1. "gone" # "new"
    OBVIOUS
  <2> QED BY <1>0, <1>o, <2>1, ConsoleTypesAre
<1>1. DeveloperTypes'
  <2>1. Held(x)'
    BY <1>0, <1>e DEF Held
  <2>2. \A y \in Handlers : Held(y)'
    BY <1>0, <1>e, <2>1, OthersHold
  <2> QED BY <1>0, <1>e, <1>f, <1>t, <2>2, ConsoleTypesAre, PageTyped, CacheTyped, ConsoleRestTyped
<1>2. ASSUME ~doubtful' PROVE DeveloperLone'
  <2>1. DeveloperLone
    BY <1>f DEF DeveloperInv, D!Starts
  <2>2. /\ \A y \in Handlers : developerPc[y] = "idle"
        /\ OrgsAgree /\ AppsAgree /\ Listed /\ Shown /\ FreshTrue /\ PortalTrue
    BY <1>2, <1>f, <2>1, StartsAlone
  <2>3. FreshTrue'
    BY <2>2, <1>f, FreshKept DEF D!cacheVars
  <2>4. PortalAgree'
    BY <1>e DEF PortalAgree
  <2>5. OrgsAgree'
    BY <2>2, <1>f DEF OrgsAgree, D!pageVars
  <2>6. AppsAgreeBut(a)'
    <3> SUFFICES ASSUME NEW b \in Apps \ {a} PROVE apps'[b] = D!Portal(cur)'.apps[b]
      BY <1>f DEF AppsAgreeBut, D!pageVars
    <3>1. apps'[b] = D!Portal(cur).apps[b]
      BY <2>2, <1>f DEF AppsAgree, D!pageVars
    <3>2. D!Portal(cur).apps[b] = D!Portal(cur)'.apps[b]
      BY <1>f, <1>t DEF D!Portal, D!pageVars
    <3> QED BY <3>1, <3>2
  <2>7. home'[a] = "gone" /\ sel' = a
    BY <1>o, <1>f, <1>t DEF D!pageVars
  <2>8. OnItsWay(x)'
    BY <2>5, <2>6, <2>7, <1>e DEF OnItsWay, AppsAgreeBut
  <2>9. FreshAgree'
    BY <2>3, CacheTrueNext
  <2> QED BY <2>2, <2>4, <2>8, <2>9, <1>e, LoneStays
<1> QED BY <1>1, <1>2 DEF DeveloperInv

\* And closed.
LEMMA DeletedKeeps ==
  ASSUME DeveloperInv, NEW x \in Handlers, D!Delete(x)
  PROVE  DeveloperInv'
<1>0. DeveloperTypes
  BY DEF DeveloperInv
<1> DEFINE a == developerApp[x]
           none == [v |-> None, fresh |-> FALSE]
<1>f. /\ developerPc[x] = "deleted" /\ portal' = D!Stale(portal) /\ overview' = [overview EXCEPT ![a] = none]
      /\ apps' = [apps EXCEPT ![a] = None] /\ bundles' = [bundles EXCEPT ![a] = None] /\ D!Ends(x)
      /\ (sel = a => sel' = None /\ panel' = D!Empty) /\ (sel # a => sel' = sel /\ panel' = panel)
      /\ UNCHANGED D!serverVars /\ UNCHANGED <<cur, workspace, listed, loading, doubtful>>
  BY DEF D!Delete
<1>a. a \in Apps /\ a = developerApp[x] /\ none \in Overviews /\ ~none.fresh
  BY <1>0, <1>f DEF DeveloperTypes, Held, Overviews
<1> HIDE DEF a, none
<1>e. /\ developerPc' \in [Handlers -> Steps] /\ developerApp' \in [Handlers -> Apps \cup {None}] /\ to' \in [Handlers -> Workspaces \cup {None}]
      /\ developerRow' \in [Handlers -> D!Versions \cup {None}] /\ answer' \in [Handlers -> D!Portals \cup {None}]
      /\ developerPc'[x] = "idle"
      /\ \A y \in Handlers \ {x} :
           developerPc'[y] = developerPc[y] /\ developerApp'[y] = developerApp[y] /\ to'[y] = to[y] /\ developerRow'[y] = developerRow[y] /\ answer'[y] = answer[y]
  <2>1. D!Ends(x)
    BY <1>f
  <2> QED BY <1>0, <2>1, ClickEnds
<1>t. /\ overview' \in [Apps -> Overviews] /\ (\A b \in Apps \ {a} : overview'[b] = overview[b]) /\ overview'[a] = none
      /\ apps' \in [Apps -> D!Versions \cup {None}] /\ apps'[a] = None /\ (\A b \in Apps \ {a} : apps'[b] = apps[b])
      /\ bundles' \in [Apps -> D!Versions \cup {None}] /\ panel' \in Panels /\ sel' \in Apps \cup {None}
  <2>1. overview' \in [Apps -> Overviews] /\ (\A b \in Apps \ {a} : overview'[b] = overview[b]) /\ overview'[a] = none
    BY <1>0, <1>a, <1>f, ConsoleTypesAre
  <2>2. apps' \in [Apps -> D!Versions \cup {None}] /\ apps'[a] = None /\ (\A b \in Apps \ {a} : apps'[b] = apps[b])
    BY <1>0, <1>a, <1>f, ConsoleTypesAre
  <2> QED BY <1>0, <1>f, <2>1, <2>2, ConsoleTypesAre, EmptyTyped
<1>g. \A b \in Apps : overview'[b].fresh => b # a /\ overview[b].fresh /\ overview'[b] = overview[b]
  BY <1>a, <1>t
<1>s. PortalTrue' /\ portal' \in [Workspaces -> D!Portals \cup {None}]
  BY <1>f, PortalsStale
<1>1. DeveloperTypes'
  <2>1. Held(x)'
    BY <1>0, <1>e DEF Held
  <2>2. \A y \in Handlers : Held(y)'
    BY <1>0, <1>e, <2>1, OthersHold
  <2> QED BY <1>0, <1>e, <1>f, <1>t, <1>g, <1>s, <2>2, ConsoleTypesAre, ServerTyped, ConsoleRestTyped
<1>2. ASSUME ~doubtful' PROVE DeveloperLone'
  <2>1. DeveloperLone
    BY <1>2, <1>f DEF DeveloperInv
  <2>2. OnItsWay(x) /\ \A y \in Handlers \ {x} : developerPc[y] = "idle"
    BY <2>1, <1>f, LoneNow
  <2>3. OrgsAgree /\ AppsAgreeBut(a) /\ sel = a /\ home[a] = "gone"
    BY <2>2, <1>f, <1>a DEF OnItsWay
  <2>4. FreshTrue'
    <3>1. FreshTrue
      BY <2>1, <1>f, CacheNow
    <3> QED BY <3>1, <1>f, <1>g DEF FreshTrue, D!serverVars
  <2>5. FreshAgree' /\ PortalAgree'
    BY <2>4, <1>s, CacheTrueNext
  <2>6. OrgsAgree'
    BY <2>3, <1>f DEF OrgsAgree, D!serverVars
  <2>7. AppsAgree'
    <3> SUFFICES ASSUME NEW b \in Apps PROVE apps'[b] = D!Portal(cur)'.apps[b]
      BY <1>f DEF AppsAgree, D!Portal, D!serverVars
    <3>1. D!Portal(cur)' = D!Portal(cur) /\ cur \in Workspaces
      BY <1>0, <1>f, PortalKept, ConsoleTypesAre DEF D!Portal, D!serverVars
    <3>2. CASE b = a
      <4>1. home[a] # cur
        BY <2>3, <3>1, DeveloperAssumption
      <4> QED BY <1>0, <1>a, <1>t, <3>1, <3>2, <4>1, PortalIs
    <3>3. CASE b # a
      BY <1>t, <2>3, <3>1, <3>3 DEF AppsAgreeBut
    <3> QED BY <3>2, <3>3
  <2>8. Listed' /\ Shown'
    BY <2>3, <1>f DEF Listed, Shown
  <2> QED BY <2>2, <2>5, <2>6, <2>7, <2>8, <1>e, LoneEnds
<1> QED BY <1>1, <1>2 DEF DeveloperInv

\* The current workspace is changed.
LEMMA SendSettingKeeps ==
  ASSUME DeveloperInv, NEW x \in Handlers, D!SendSetting(x)
  PROVE  DeveloperInv'
<1>0. DeveloperTypes
  BY DEF DeveloperInv
<1> DEFINE o == workspace[1]
<1>f. /\ D!Starts(x) /\ doubtful' \in BOOLEAN /\ setting[o] < MaxVersion /\ setting' = [setting EXCEPT ![o] = @ + 1]
      /\ D!Waits(x, "settled", None, o, setting[o] + 1)
      /\ UNCHANGED <<orgs, home, version>> /\ UNCHANGED D!pageVars /\ UNCHANGED D!cacheVars
  BY DEF D!SendSetting, D!SendsChange, D!Starts
<1>a. /\ o \in Workspaces /\ o \in Workspaces \cup {None} /\ "settled" \in Steps /\ None \in Apps \cup {None}
      /\ setting[o] + 1 \in D!Versions /\ setting[o] + 1 \in D!Versions \cup {None}
  <2>1. workspace \in Workspaces \X D!Versions
    BY <1>0, ConsoleTypesAre
  <2>2. o \in Workspaces
    BY <2>1
  <2>3. setting[o] \in D!Versions
    BY <1>0, <2>2, ConsoleTypesAre
  <2>4. setting[o] + 1 \in D!Versions
    BY <2>3, <1>f, DeveloperAssumption DEF D!Versions
  <2> QED BY <2>2, <2>4 DEF Steps
<1>w. workspace[1] = o
  OBVIOUS
<1> HIDE DEF o
<1>e. /\ developerPc' \in [Handlers -> Steps] /\ developerApp' \in [Handlers -> Apps \cup {None}] /\ to' \in [Handlers -> Workspaces \cup {None}]
      /\ developerRow' \in [Handlers -> D!Versions \cup {None}] /\ answer' \in [Handlers -> D!Portals \cup {None}]
      /\ developerPc'[x] = "settled" /\ developerApp'[x] = None /\ to'[x] = o /\ developerRow'[x] = setting[o] + 1
      /\ \A y \in Handlers \ {x} :
           developerPc'[y] = developerPc[y] /\ developerApp'[y] = developerApp[y] /\ to'[y] = to[y] /\ developerRow'[y] = developerRow[y] /\ answer'[y] = answer[y]
  BY <1>0, <1>a, <1>f, WaitsEffect
<1>t. setting' \in [Workspaces -> D!Versions] /\ setting'[o] = setting[o] + 1
  BY <1>0, <1>a, <1>f, ConsoleTypesAre
<1>1. DeveloperTypes'
  <2>1. Held(x)'
    BY <1>0, <1>a, <1>e DEF Held
  <2>2. \A y \in Handlers : Held(y)'
    BY <1>0, <1>e, <2>1, OthersHold
  <2> QED BY <1>0, <1>e, <1>f, <1>t, <2>2, ConsoleTypesAre, PageTyped, CacheTyped, ConsoleRestTyped
<1>2. ASSUME ~doubtful' PROVE DeveloperLone'
  <2>1. DeveloperLone
    BY <1>f DEF DeveloperInv, D!Starts
  <2>2. /\ \A y \in Handlers : developerPc[y] = "idle"
        /\ OrgsAgree /\ AppsAgree /\ Listed /\ Shown /\ FreshTrue /\ PortalTrue
    BY <1>2, <1>f, <2>1, StartsAlone
  <2>3. FreshTrue'
    BY <2>2, <1>f, FreshKept DEF D!cacheVars
  <2>4. PortalAgree'
    BY <1>e DEF PortalAgree
  <2>5. listed' = orgs' /\ AppsAgree' /\ Listed' /\ Shown'
    <3>1. listed = orgs /\ AppsAgree /\ Listed /\ Shown
      BY <2>2 DEF OrgsAgree
    <3>2. D!Portal(cur)'.apps = D!Portal(cur).apps
      BY <1>f DEF D!Portal, D!pageVars
    <3> QED BY <3>1, <3>2, <1>f DEF AppsAgree, Listed, Shown, D!Full, D!pageVars
  <2>6. o = cur /\ workspace[1] = cur /\ cur' = cur /\ workspace' = workspace
    BY <2>2, <1>f, <1>w DEF OrgsAgree, D!pageVars
  <2>7. developerRow'[x] = setting'[cur'] /\ to'[x] = cur' /\ workspace'[1] = cur'
    BY <2>6, <1>e, <1>t
  <2>8. OnItsWay(x)'
    BY <2>5, <2>7, <1>e DEF OnItsWay
  <2>9. FreshAgree'
    BY <2>3, CacheTrueNext
  <2> QED BY <2>2, <2>4, <2>8, <2>9, <1>e, LoneStays
<1> QED BY <1>1, <1>2 DEF DeveloperInv

\* Its members are.
LEMMA SendMemberKeeps ==
  ASSUME DeveloperInv, NEW x \in Handlers, D!SendMember(x)
  PROVE  DeveloperInv'
<1>0. DeveloperTypes
  BY DEF DeveloperInv
<1> DEFINE o == workspace[1]
<1>f. /\ D!Starts(x) /\ doubtful' \in BOOLEAN /\ setting[o] < MaxVersion /\ setting' = [setting EXCEPT ![o] = @ + 1]
      /\ D!Waits(x, "changed", None, o, setting[o] + 1)
      /\ UNCHANGED <<orgs, home, version>> /\ UNCHANGED D!pageVars /\ UNCHANGED D!cacheVars
  BY DEF D!SendMember, D!SendsChange, D!Starts
<1>a. /\ o \in Workspaces /\ o \in Workspaces \cup {None} /\ "changed" \in Steps /\ None \in Apps \cup {None}
      /\ setting[o] + 1 \in D!Versions /\ setting[o] + 1 \in D!Versions \cup {None}
  <2>1. workspace \in Workspaces \X D!Versions
    BY <1>0, ConsoleTypesAre
  <2>2. o \in Workspaces
    BY <2>1
  <2>3. setting[o] \in D!Versions
    BY <1>0, <2>2, ConsoleTypesAre
  <2>4. setting[o] + 1 \in D!Versions
    BY <2>3, <1>f, DeveloperAssumption DEF D!Versions
  <2> QED BY <2>2, <2>4 DEF Steps
<1>w. workspace[1] = o
  OBVIOUS
<1> HIDE DEF o
<1>e. /\ developerPc' \in [Handlers -> Steps] /\ developerApp' \in [Handlers -> Apps \cup {None}] /\ to' \in [Handlers -> Workspaces \cup {None}]
      /\ developerRow' \in [Handlers -> D!Versions \cup {None}] /\ answer' \in [Handlers -> D!Portals \cup {None}]
      /\ developerPc'[x] = "changed" /\ developerApp'[x] = None /\ to'[x] = o /\ developerRow'[x] = setting[o] + 1
      /\ \A y \in Handlers \ {x} :
           developerPc'[y] = developerPc[y] /\ developerApp'[y] = developerApp[y] /\ to'[y] = to[y] /\ developerRow'[y] = developerRow[y] /\ answer'[y] = answer[y]
  BY <1>0, <1>a, <1>f, WaitsEffect
<1>t. setting' \in [Workspaces -> D!Versions] /\ setting'[o] = setting[o] + 1
  BY <1>0, <1>a, <1>f, ConsoleTypesAre
<1>1. DeveloperTypes'
  <2>1. Held(x)'
    BY <1>0, <1>a, <1>e DEF Held
  <2>2. \A y \in Handlers : Held(y)'
    BY <1>0, <1>e, <2>1, OthersHold
  <2> QED BY <1>0, <1>e, <1>f, <1>t, <2>2, ConsoleTypesAre, PageTyped, CacheTyped, ConsoleRestTyped
<1>2. ASSUME ~doubtful' PROVE DeveloperLone'
  <2>1. DeveloperLone
    BY <1>f DEF DeveloperInv, D!Starts
  <2>2. /\ \A y \in Handlers : developerPc[y] = "idle"
        /\ OrgsAgree /\ AppsAgree /\ Listed /\ Shown /\ FreshTrue /\ PortalTrue
    BY <1>2, <1>f, <2>1, StartsAlone
  <2>3. FreshTrue'
    BY <2>2, <1>f, FreshKept DEF D!cacheVars
  <2>4. PortalAgree'
    BY <1>e DEF PortalAgree
  <2>5. listed' = orgs' /\ AppsAgree' /\ Listed' /\ Shown'
    <3>1. listed = orgs /\ AppsAgree /\ Listed /\ Shown
      BY <2>2 DEF OrgsAgree
    <3>2. D!Portal(cur)'.apps = D!Portal(cur).apps
      BY <1>f DEF D!Portal, D!pageVars
    <3> QED BY <3>1, <3>2, <1>f DEF AppsAgree, Listed, Shown, D!Full, D!pageVars
  <2>6. o = cur /\ workspace[1] = cur /\ cur' = cur /\ workspace' = workspace
    BY <2>2, <1>f, <1>w DEF OrgsAgree, D!pageVars
  <2>7. developerRow'[x] = setting'[cur'] /\ to'[x] = cur' /\ workspace'[1] = cur'
    BY <2>6, <1>e, <1>t
  <2>8. OnItsWay(x)'
    BY <2>5, <2>7, <1>e DEF OnItsWay
  <2>9. FreshAgree'
    BY <2>3, CacheTrueNext
  <2> QED BY <2>2, <2>4, <2>8, <2>9, <1>e, LoneStays
<1> QED BY <1>1, <1>2 DEF DeveloperInv

\* What comes back is put into the workspace that is shown.
LEMMA SettleKeeps ==
  ASSUME DeveloperInv, NEW x \in Handlers, D!Settle(x)
  PROVE  DeveloperInv'
<1>0. DeveloperTypes
  BY DEF DeveloperInv
<1>f. /\ developerPc[x] = "settled" /\ portal' = D!Stale(portal) /\ workspace' = <<workspace[1], developerRow[x]>> /\ D!Ends(x)
      /\ UNCHANGED D!serverVars
      /\ UNCHANGED <<overview, cur, listed, apps, sel, panel, loading, bundles, doubtful>>
  BY DEF D!Settle
<1>e. /\ developerPc' \in [Handlers -> Steps] /\ developerApp' \in [Handlers -> Apps \cup {None}] /\ to' \in [Handlers -> Workspaces \cup {None}]
      /\ developerRow' \in [Handlers -> D!Versions \cup {None}] /\ answer' \in [Handlers -> D!Portals \cup {None}]
      /\ developerPc'[x] = "idle"
      /\ \A y \in Handlers \ {x} :
           developerPc'[y] = developerPc[y] /\ developerApp'[y] = developerApp[y] /\ to'[y] = to[y] /\ developerRow'[y] = developerRow[y] /\ answer'[y] = answer[y]
  BY <1>0, <1>f, ClickEnds
<1>t. workspace' \in Workspaces \X D!Versions
  <2>1. workspace \in Workspaces \X D!Versions /\ developerRow[x] \in D!Versions
    BY <1>0, <1>f, ConsoleTypesAre DEF DeveloperTypes, Held
  <2> QED BY <2>1, <1>f
<1>s. PortalTrue' /\ portal' \in [Workspaces -> D!Portals \cup {None}]
  BY <1>f, PortalsStale
<1>1. DeveloperTypes'
  <2>1. Held(x)'
    BY <1>0, <1>e DEF Held
  <2>2. \A y \in Handlers : Held(y)'
    BY <1>0, <1>e, <2>1, OthersHold
  <2> QED BY <1>0, <1>e, <1>f, <1>t, <1>s, <2>2, ConsoleTypesAre, ServerTyped, ConsoleRestTyped
<1>2. ASSUME ~doubtful' PROVE DeveloperLone'
  <2>1. DeveloperLone
    BY <1>2, <1>f DEF DeveloperInv
  <2>2. OnItsWay(x) /\ \A y \in Handlers \ {x} : developerPc[y] = "idle"
    BY <2>1, <1>f, LoneNow
  <2>3. FreshTrue'
    <3>1. FreshTrue
      BY <2>1, <1>f, CacheNow
    <3> QED BY <3>1, <1>f, FreshKept DEF D!serverVars, D!cacheVars
  <2>4. FreshAgree' /\ PortalAgree'
    BY <2>3, <1>s, CacheTrueNext
  <2>5. listed' = orgs' /\ AppsAgree' /\ Listed' /\ Shown'
    <3>1. listed = orgs /\ AppsAgree /\ Listed /\ Shown
      BY <2>2, <1>f DEF OnItsWay
    <3>2. D!Portal(cur)'.apps = D!Portal(cur).apps
      BY <1>f DEF D!Portal, D!serverVars
    <3> QED BY <3>1, <3>2, <1>f DEF AppsAgree, Listed, Shown, D!Full, D!serverVars, D!pageVars
  <2>6. OrgsAgree'
    BY <2>2, <2>5, <1>f DEF OnItsWay, OrgsAgree, D!serverVars
  <2> QED BY <2>2, <2>4, <2>5, <2>6, <1>e, LoneEnds
<1> QED BY <1>1, <1>2 DEF DeveloperInv

\* The workspace is read again.
LEMMA ReadWorkspaceKeeps ==
  ASSUME DeveloperInv, NEW x \in Handlers, D!ReadWorkspace(x)
  PROVE  DeveloperInv'
<1>0. DeveloperTypes
  BY DEF DeveloperInv
<1>f. /\ developerPc[x] = "changed" /\ portal' = D!Stale(portal) /\ D!Waits(x, "workspace", None, to[x], setting[to[x]])
      /\ UNCHANGED D!serverVars /\ UNCHANGED D!pageVars /\ UNCHANGED <<overview, doubtful>>
  BY DEF D!ReadWorkspace
<1>a. to[x] \in Workspaces /\ to[x] \in Workspaces \cup {None} /\ setting[to[x]] \in D!Versions /\ setting[to[x]] \in D!Versions \cup {None}
      /\ None \in Apps \cup {None} /\ "workspace" \in Steps
  BY <1>0, <1>f, ConsoleTypesAre DEF DeveloperTypes, Held, Steps
<1>e. /\ developerPc' \in [Handlers -> Steps] /\ developerApp' \in [Handlers -> Apps \cup {None}] /\ to' \in [Handlers -> Workspaces \cup {None}]
      /\ developerRow' \in [Handlers -> D!Versions \cup {None}] /\ answer' \in [Handlers -> D!Portals \cup {None}]
      /\ developerPc'[x] = "workspace" /\ developerApp'[x] = None /\ to'[x] = to[x] /\ developerRow'[x] = setting[to[x]]
      /\ \A y \in Handlers \ {x} :
           developerPc'[y] = developerPc[y] /\ developerApp'[y] = developerApp[y] /\ to'[y] = to[y] /\ developerRow'[y] = developerRow[y] /\ answer'[y] = answer[y]
  BY <1>0, <1>a, <1>f, WaitsEffect
<1>s. PortalTrue' /\ portal' \in [Workspaces -> D!Portals \cup {None}]
  BY <1>f, PortalsStale
<1>1. DeveloperTypes'
  <2>1. Held(x)'
    BY <1>0, <1>a, <1>e DEF Held
  <2>2. \A y \in Handlers : Held(y)'
    BY <1>0, <1>e, <2>1, OthersHold
  <2> QED BY <1>0, <1>e, <1>f, <1>s, <2>2, ConsoleTypesAre, ServerTyped, PageTyped, ConsoleRestTyped
<1>2. ASSUME ~doubtful' PROVE DeveloperLone'
  <2>1. DeveloperLone
    BY <1>2, <1>f DEF DeveloperInv
  <2>2. OnItsWay(x) /\ \A y \in Handlers \ {x} : developerPc[y] = "idle"
    BY <2>1, <1>f, LoneNow
  <2>3. FreshTrue'
    <3>1. FreshTrue
      BY <2>1, <1>f, CacheNow
    <3> QED BY <3>1, <1>f, FreshKept DEF D!serverVars, D!cacheVars
  <2>4. FreshAgree' /\ PortalAgree'
    BY <2>3, <1>s, CacheTrueNext
  <2>5. listed' = orgs' /\ AppsAgree' /\ Listed' /\ Shown'
    <3>1. listed = orgs /\ AppsAgree /\ Listed /\ Shown
      BY <2>2, <1>f DEF OnItsWay
    <3>2. D!Portal(cur)'.apps = D!Portal(cur).apps
      BY <1>f DEF D!Portal, D!serverVars, D!pageVars
    <3> QED BY <3>1, <3>2, <1>f DEF AppsAgree, Listed, Shown, D!Full, D!serverVars, D!pageVars
  <2>6. to'[x] = cur' /\ developerRow'[x] = setting'[cur']
    BY <2>2, <1>e, <1>f DEF OnItsWay, D!serverVars, D!pageVars
  <2>7. OnItsWay(x)'
    BY <2>5, <2>6, <1>e DEF OnItsWay
  <2> QED BY <2>2, <2>4, <2>7, <1>e, LoneStays
<1> QED BY <1>1, <1>2 DEF DeveloperInv

\* And shown.
LEMMA ShowWorkspaceKeeps ==
  ASSUME DeveloperInv, NEW x \in Handlers, D!ShowWorkspace(x)
  PROVE  DeveloperInv'
<1>0. DeveloperTypes
  BY DEF DeveloperInv
<1>f. /\ developerPc[x] = "workspace" /\ workspace' = <<to[x], developerRow[x]>> /\ D!Ends(x)
      /\ UNCHANGED D!serverVars /\ UNCHANGED D!cacheVars
      /\ UNCHANGED <<cur, listed, apps, sel, panel, loading, bundles, doubtful>>
  BY DEF D!ShowWorkspace
<1>e. /\ developerPc' \in [Handlers -> Steps] /\ developerApp' \in [Handlers -> Apps \cup {None}] /\ to' \in [Handlers -> Workspaces \cup {None}]
      /\ developerRow' \in [Handlers -> D!Versions \cup {None}] /\ answer' \in [Handlers -> D!Portals \cup {None}]
      /\ developerPc'[x] = "idle"
      /\ \A y \in Handlers \ {x} :
           developerPc'[y] = developerPc[y] /\ developerApp'[y] = developerApp[y] /\ to'[y] = to[y] /\ developerRow'[y] = developerRow[y] /\ answer'[y] = answer[y]
  BY <1>0, <1>f, ClickEnds
<1>t. workspace' \in Workspaces \X D!Versions
  <2>1. to[x] \in Workspaces /\ developerRow[x] \in D!Versions
    BY <1>0, <1>f, ConsoleTypesAre DEF DeveloperTypes, Held
  <2> QED BY <2>1, <1>f
<1>1. DeveloperTypes'
  <2>1. Held(x)'
    BY <1>0, <1>e DEF Held
  <2>2. \A y \in Handlers : Held(y)'
    BY <1>0, <1>e, <2>1, OthersHold
  <2> QED BY <1>0, <1>e, <1>f, <1>t, <2>2, ConsoleTypesAre, ServerTyped, CacheTyped, ConsoleRestTyped
<1>2. ASSUME ~doubtful' PROVE DeveloperLone'
  <2>1. DeveloperLone
    BY <1>2, <1>f DEF DeveloperInv
  <2>2. OnItsWay(x) /\ \A y \in Handlers \ {x} : developerPc[y] = "idle"
    BY <2>1, <1>f, LoneNow
  <2>3. FreshTrue'
    <3>1. FreshTrue
      BY <2>1, <1>f, CacheNow
    <3> QED BY <3>1, <1>f, FreshKept DEF D!serverVars, D!cacheVars
  <2>10. PortalTrue'
    <3>1. PortalTrue
      BY <2>1, <1>f, CacheNow
    <3> QED BY <3>1, <1>f, PortalsKept DEF D!cacheVars
  <2>4. FreshAgree' /\ PortalAgree'
    BY <2>3, <2>10, CacheTrueNext
  <2>5. listed' = orgs' /\ AppsAgree' /\ Listed' /\ Shown'
    <3>1. listed = orgs /\ AppsAgree /\ Listed /\ Shown
      BY <2>2, <1>f DEF OnItsWay
    <3>2. D!Portal(cur)'.apps = D!Portal(cur).apps
      BY <1>f DEF D!Portal, D!serverVars
    <3> QED BY <3>1, <3>2, <1>f DEF AppsAgree, Listed, Shown, D!Full, D!serverVars, D!pageVars
  <2>6. OrgsAgree'
    BY <2>2, <2>5, <1>f DEF OnItsWay, OrgsAgree, D!serverVars
  <2> QED BY <2>2, <2>4, <2>5, <2>6, <1>e, LoneEnds
<1> QED BY <1>1, <1>2 DEF DeveloperInv

\* A workspace is made.
LEMMA SendOrganizationKeeps ==
  ASSUME DeveloperInv, NEW x \in Handlers, D!SendOrganization(x)
  PROVE  DeveloperInv'
<1>0. DeveloperTypes
  BY DEF DeveloperInv
<1>o. PICK o \in Workspaces \ orgs : orgs' = orgs \cup {o} /\ D!Waits(x, "founded", None, o, None)
  BY DEF D!SendOrganization
<1>f. /\ D!Starts(x) /\ doubtful' \in BOOLEAN
      /\ UNCHANGED <<home, version, setting>> /\ UNCHANGED D!pageVars /\ UNCHANGED D!cacheVars
  BY DEF D!SendOrganization, D!Starts
<1>a. o \in Workspaces \cup {None} /\ "founded" \in Steps /\ None \in Apps \cup {None} /\ None \in D!Versions \cup {None}
  BY DEF Steps
<1>e. /\ developerPc' \in [Handlers -> Steps] /\ developerApp' \in [Handlers -> Apps \cup {None}] /\ to' \in [Handlers -> Workspaces \cup {None}]
      /\ developerRow' \in [Handlers -> D!Versions \cup {None}] /\ answer' \in [Handlers -> D!Portals \cup {None}]
      /\ developerPc'[x] = "founded" /\ developerApp'[x] = None /\ to'[x] = o /\ developerRow'[x] = None
      /\ \A y \in Handlers \ {x} :
           developerPc'[y] = developerPc[y] /\ developerApp'[y] = developerApp[y] /\ to'[y] = to[y] /\ developerRow'[y] = developerRow[y] /\ answer'[y] = answer[y]
  BY <1>0, <1>a, <1>o, WaitsEffect
<1>t. orgs' \subseteq Workspaces
  BY <1>0, <1>o, ConsoleTypesAre
<1>1. DeveloperTypes'
  <2>1. Held(x)'
    BY <1>0, <1>a, <1>o, <1>e DEF Held
  <2>2. \A y \in Handlers : Held(y)'
    BY <1>0, <1>e, <2>1, OthersHold
  <2> QED BY <1>0, <1>e, <1>f, <1>t, <2>2, ConsoleTypesAre, PageTyped, CacheTyped, ConsoleRestTyped
<1>2. ASSUME ~doubtful' PROVE DeveloperLone'
  <2>1. DeveloperLone
    BY <1>f DEF DeveloperInv, D!Starts
  <2>2. /\ \A y \in Handlers : developerPc[y] = "idle"
        /\ OrgsAgree /\ AppsAgree /\ Listed /\ Shown /\ FreshTrue /\ PortalTrue
    BY <1>2, <1>f, <2>1, StartsAlone
  <2>3. FreshTrue'
    BY <2>2, <1>f, FreshKept DEF D!cacheVars
  <2>4. PortalAgree'
    BY <1>e DEF PortalAgree
  <2>5. Shown'
    BY <2>2, <1>f DEF Shown, D!Full, D!pageVars
  <2>6. OnItsWay(x)'
    BY <2>5, <1>e DEF OnItsWay
  <2>7. FreshAgree'
    BY <2>3, CacheTrueNext
  <2> QED BY <2>2, <2>4, <2>6, <2>7, <1>e, LoneStays
<1> QED BY <1>1, <1>2 DEF DeveloperInv

\* And asked for.
LEMMA FoundOrganizationKeeps ==
  ASSUME DeveloperInv, NEW x \in Handlers, D!FoundOrganization(x)
  PROVE  DeveloperInv'
<1>0. DeveloperTypes
  BY DEF DeveloperInv
<1>f. /\ developerPc[x] = "founded" /\ portal' = D!Stale(portal) /\ D!AsksPortal(x, None, D!Portal(to[x]))
      /\ UNCHANGED D!serverVars /\ UNCHANGED D!pageVars /\ UNCHANGED <<overview, doubtful>>
  BY DEF D!FoundOrganization
<1>a. to[x] \in Workspaces /\ D!Portal(to[x]) \in D!Portals /\ None \in Apps \cup {None} /\ D!Portal(to[x]).org = to[x]
  BY <1>0, <1>f, PortalIs DEF DeveloperTypes, Held
<1>e. /\ developerPc' \in [Handlers -> Steps] /\ developerApp' \in [Handlers -> Apps \cup {None}] /\ to' \in [Handlers -> Workspaces \cup {None}]
      /\ developerRow' \in [Handlers -> D!Versions \cup {None}] /\ answer' \in [Handlers -> D!Portals \cup {None}]
      /\ developerPc'[x] = "portal" /\ developerApp'[x] = None /\ answer'[x] = D!Portal(to[x])
      /\ \A y \in Handlers \ {x} :
           developerPc'[y] = developerPc[y] /\ developerApp'[y] = developerApp[y] /\ to'[y] = to[y] /\ developerRow'[y] = developerRow[y] /\ answer'[y] = answer[y]
  BY <1>0, <1>a, <1>f, AsksPortalEffect
<1>s. PortalTrue' /\ portal' \in [Workspaces -> D!Portals \cup {None}]
  BY <1>f, PortalsStale
<1>1. DeveloperTypes'
  <2>1. Held(x)'
    BY <1>0, <1>a, <1>e DEF Held
  <2>2. \A y \in Handlers : Held(y)'
    BY <1>0, <1>e, <2>1, OthersHold
  <2> QED BY <1>0, <1>e, <1>f, <1>s, <2>2, ConsoleTypesAre, ServerTyped, PageTyped, ConsoleRestTyped
<1>2. ASSUME ~doubtful' PROVE DeveloperLone'
  <2>1. DeveloperLone
    BY <1>2, <1>f DEF DeveloperInv
  <2>2. OnItsWay(x) /\ \A y \in Handlers \ {x} : developerPc[y] = "idle"
    BY <2>1, <1>f, LoneNow
  <2>3. FreshTrue'
    <3>1. FreshTrue
      BY <2>1, <1>f, CacheNow
    <3> QED BY <3>1, <1>f, FreshKept DEF D!serverVars, D!cacheVars
  <2>4. FreshAgree' /\ PortalAgree'
    BY <2>3, <1>s, CacheTrueNext
  <2>5. Shown'
    <3>1. Shown
      BY <2>2, <1>f DEF OnItsWay
    <3> QED BY <3>1, <1>f DEF Shown, D!Full, D!serverVars, D!pageVars
  <2>6. (answer[x] = D!Portal(answer[x].org))'
    BY <1>a, <1>e, <1>f DEF D!Portal, D!serverVars
  <2>7. OnItsWay(x)'
    BY <2>5, <2>6, <1>e DEF OnItsWay
  <2> QED BY <2>2, <2>4, <2>7, <1>e, LoneStays
<1> QED BY <1>1, <1>2 DEF DeveloperInv

-----------------------------------------------------------------------------

\* Opening one application after another.
LEMMA ReadingNow ==
  ASSUME DeveloperLone, Reading
  PROVE  /\ FreshTrue /\ PortalTrue /\ OrgsAgree /\ AppsAgree /\ Listed /\ (Shown \/ Awaited)
         /\ \A y \in Handlers : developerPc[y] = "overview" => developerRow[y] = version[developerApp[y]]
<1>1. FreshTrue /\ PortalTrue
  BY DEF DeveloperLone, Reading, FreshAgree, PortalAgree, FreshTrue, PortalTrue
<1>2. \A y \in Handlers : developerPc[y] = "overview" => developerRow[y] = version[developerApp[y]]
  BY DEF DeveloperLone, OnItsWay
<1> QED BY <1>1, <1>2 DEF DeveloperLone

LEMMA ReadingNext ==
  ASSUME Reading', FreshTrue', PortalTrue', OrgsAgree', AppsAgree', Listed', (Shown \/ Awaited)',
         \A y \in Handlers : developerPc'[y] = "overview" => developerRow'[y] = version'[developerApp'[y]]
  PROVE  DeveloperLone'
<1>1. \A y \in Handlers : OnItsWay(y)'
  BY DEF OnItsWay, Reading
<1>2. FreshAgree' /\ PortalAgree'
  BY CacheTrueNext
<1>3. \A y, z \in D!Busy' : developerPc'[y] # "overview" => y = z
  BY DEF D!Busy, Reading
<1> QED BY <1>1, <1>2, <1>3 DEF DeveloperLone

\* An application is opened.
LEMMA OpenAppKeeps ==
  ASSUME DeveloperInv, NEW x \in Handlers, D!OpenApp(x)
  PROVE  DeveloperInv'
<1>0. DeveloperTypes
  BY DEF DeveloperInv
<1>o. PICK a \in Apps : apps[a] # None /\ sel' = a /\ D!LoadSelected(x, a, overview, bundles)
  BY DEF D!OpenApp
<1>f. /\ developerPc[x] = "idle" /\ ~doubtful /\ doubtful' \in BOOLEAN
      /\ (~doubtful' => \A y \in D!Busy : developerPc[y] = "overview")
      /\ UNCHANGED D!serverVars /\ UNCHANGED D!cacheVars /\ UNCHANGED <<cur, workspace, listed, apps>>
  BY <1>0, ConsoleTypesAre DEF D!OpenApp, D!StartsReading
<1>e. /\ developerPc' \in [Handlers -> Steps] /\ developerApp' \in [Handlers -> Apps \cup {None}] /\ to' \in [Handlers -> Workspaces \cup {None}]
      /\ developerRow' \in [Handlers -> D!Versions \cup {None}] /\ answer' \in [Handlers -> D!Portals \cup {None}]
      /\ developerPc'[x] = "overview" /\ developerApp'[x] = a /\ developerRow'[x] \in D!Versions
      /\ (developerRow'[x] = version[a] \/ (overview[a].fresh /\ developerRow'[x] = overview[a].v))
      /\ panel' \in Panels /\ loading' \in BOOLEAN /\ bundles' \in [Apps -> D!Versions \cup {None}]
      /\ \A y \in Handlers \ {x} :
           developerPc'[y] = developerPc[y] /\ developerApp'[y] = developerApp[y] /\ to'[y] = to[y] /\ developerRow'[y] = developerRow[y] /\ answer'[y] = answer[y]
  <2>1. /\ overview \in [Apps -> Overviews] /\ bundles \in [Apps -> D!Versions \cup {None}]
        /\ \A b \in Apps : overview[b].fresh => overview[b].v # None
    BY <1>0, ConsoleTypesAre
  <2> QED BY <1>0, <1>o, <2>1, LoadSelectedEffect
<1>1. DeveloperTypes'
  <2>1. Held(x)'
    BY <1>o, <1>e DEF Held
  <2>2. \A y \in Handlers : Held(y)'
    BY <1>0, <1>e, <2>1, OthersHold
  <2> QED BY <1>0, <1>o, <1>e, <1>f, <2>2, ConsoleTypesAre, ServerTyped, CacheTyped, ConsoleRestTyped
<1>2. ASSUME ~doubtful' PROVE DeveloperLone'
  <2>1. DeveloperLone
    BY <1>f DEF DeveloperInv
  <2>2. Reading
    BY <1>2, <1>f, <1>0, ConsoleTypesAre DEF Reading, D!Busy
  <2>3. /\ FreshTrue /\ PortalTrue /\ OrgsAgree /\ AppsAgree /\ Listed
        /\ \A y \in Handlers : developerPc[y] = "overview" => developerRow[y] = version[developerApp[y]]
    BY <2>1, <2>2, ReadingNow
  <2>4. FreshTrue' /\ PortalTrue'
    BY <2>3, <1>f, FreshKept, PortalsKept DEF D!serverVars, D!cacheVars
  <2>5. OrgsAgree' /\ AppsAgree'
    BY <2>3, <1>f, PortalKept DEF OrgsAgree, AppsAgree, D!Portal, D!serverVars
  <2>6. Listed' /\ Awaited'
    BY <1>o, <1>e, <1>f DEF Listed, Awaited
  <2>7. Reading'
    BY <2>2, <1>e DEF Reading
  <2>8. developerRow'[x] = version[a]
    BY <2>3, <1>o, <1>e DEF FreshTrue
  <2>9. \A y \in Handlers : developerPc'[y] = "overview" => developerRow'[y] = version'[developerApp'[y]]
    BY <2>3, <2>8, <1>e, <1>f DEF D!serverVars
  <2> QED BY <2>4, <2>5, <2>6, <2>7, <2>9, ReadingNext
<1> QED BY <1>1, <1>2 DEF DeveloperInv

\* And shown.
LEMMA ShowAppKeeps ==
  ASSUME DeveloperInv, NEW x \in Handlers, D!ShowApp(x)
  PROVE  DeveloperInv'
<1> DEFINE a == developerApp[x]
           v == developerRow[x]
           got == [v |-> developerRow[x], fresh |-> TRUE]
<1>0. DeveloperTypes
  BY DEF DeveloperInv
<1>f. /\ developerPc[x] = "overview" /\ overview' = [overview EXCEPT ![a] = got] /\ bundles' = [bundles EXCEPT ![a] = v]
      /\ D!Ends(x) /\ (sel = a => panel' = D!Full(a, v) /\ loading' = FALSE) /\ (sel # a => UNCHANGED <<panel, loading>>)
      /\ UNCHANGED D!serverVars /\ UNCHANGED <<portal, cur, workspace, listed, apps, sel, doubtful>>
  BY DEF D!ShowApp, D!Mine
<1>a. a \in Apps /\ v \in D!Versions /\ got \in Overviews /\ got.fresh /\ got.v = v /\ a = developerApp[x] /\ v = developerRow[x]
  BY <1>0, <1>f DEF DeveloperTypes, Held, Overviews
<1> HIDE DEF a, v, got
<1>e. /\ developerPc' \in [Handlers -> Steps] /\ developerApp' \in [Handlers -> Apps \cup {None}] /\ to' \in [Handlers -> Workspaces \cup {None}]
      /\ developerRow' \in [Handlers -> D!Versions \cup {None}] /\ answer' \in [Handlers -> D!Portals \cup {None}]
      /\ developerPc'[x] = "idle"
      /\ \A y \in Handlers \ {x} :
           developerPc'[y] = developerPc[y] /\ developerApp'[y] = developerApp[y] /\ to'[y] = to[y] /\ developerRow'[y] = developerRow[y] /\ answer'[y] = answer[y]
  <2>1. D!Ends(x)
    BY <1>f
  <2> QED BY <1>0, <2>1, ClickEnds
<1>t. /\ overview' \in [Apps -> Overviews] /\ (\A b \in Apps \ {a} : overview'[b] = overview[b]) /\ overview'[a] = got
      /\ bundles' \in [Apps -> D!Versions \cup {None}] /\ panel' \in Panels /\ loading' \in BOOLEAN
  <2>1. overview' \in [Apps -> Overviews] /\ (\A b \in Apps \ {a} : overview'[b] = overview[b]) /\ overview'[a] = got
    BY <1>0, <1>a, <1>f, ConsoleTypesAre
  <2>2. bundles' \in [Apps -> D!Versions \cup {None}]
    BY <1>0, <1>a, <1>f, ConsoleTypesAre
  <2>3. panel' \in Panels /\ loading' \in BOOLEAN
    <3>1. CASE sel = a
      BY <1>a, <1>f, <3>1, FullTyped
    <3>2. CASE sel # a
      BY <1>0, <1>f, <3>2, ConsoleTypesAre
    <3> QED BY <3>1, <3>2
  <2> QED BY <2>1, <2>2, <2>3
<1>1. DeveloperTypes'
  <2>1. Held(x)'
    BY <1>e DEF Held
  <2>2. \A y \in Handlers : Held(y)'
    BY <1>0, <1>e, <2>1, OthersHold
  <2>3. \A b \in Apps : overview'[b].fresh => overview'[b].v # None
    BY <1>0, <1>a, <1>t, ConsoleTypesAre, DeveloperAssumption
  <2> QED BY <1>0, <1>e, <1>f, <1>t, <2>2, <2>3, ConsoleTypesAre, ServerTyped, ConsoleRestTyped
<1>2. ASSUME ~doubtful' PROVE DeveloperLone'
  <2>1. DeveloperLone
    BY <1>2, <1>f DEF DeveloperInv
  <2>2. Reading
    BY <2>1, <1>f DEF DeveloperLone, Reading, D!Busy
  <2>3. /\ FreshTrue /\ PortalTrue /\ OrgsAgree /\ AppsAgree /\ Listed /\ (Shown \/ Awaited)
        /\ \A y \in Handlers : developerPc[y] = "overview" => developerRow[y] = version[developerApp[y]]
    BY <2>1, <2>2, ReadingNow
  <2>4. v = version[a]
    BY <2>3, <1>a, <1>f
  <2>5. FreshTrue' /\ PortalTrue'
    <3>1. PortalTrue'
      BY <2>3, <1>f, PortalsKept
    <3>2. FreshTrue'
      BY <2>3, <2>4, <1>a, <1>f, <1>t DEF FreshTrue, D!serverVars
    <3> QED BY <3>1, <3>2
  <2>6. OrgsAgree' /\ AppsAgree' /\ Listed'
    BY <2>3, <1>f, PortalKept DEF OrgsAgree, AppsAgree, Listed, D!Portal, D!serverVars
  <2>7. (Shown \/ Awaited)'
    <3>1. CASE sel = a
      BY <2>4, <3>1, <1>f DEF Shown, D!Full, D!serverVars
    <3>2. CASE sel # a /\ Shown
      BY <3>2, <1>f DEF Shown, D!Full, D!serverVars
    <3>3. CASE sel # a /\ Awaited
      <4>1. PICK y \in Handlers : developerPc[y] = "overview" /\ developerApp[y] = sel
        BY <3>3 DEF Awaited
      <4>2. y # x
        BY <4>1, <3>3, <1>a
      <4> QED BY <4>1, <4>2, <1>e, <1>f DEF Awaited
    <3> QED BY <2>3, <3>1, <3>2, <3>3
  <2>8. Reading'
    BY <2>2, <1>e DEF Reading
  <2>9. \A y \in Handlers : developerPc'[y] = "overview" => developerRow'[y] = version'[developerApp'[y]]
    BY <2>3, <1>e, <1>f DEF D!serverVars
  <2> QED BY <2>5, <2>6, <2>7, <2>8, <2>9, ReadingNext
<1> QED BY <1>1, <1>2 DEF DeveloperInv

\* The application is closed.
LEMMA CloseAppKeeps ==
  ASSUME DeveloperInv, D!CloseApp
  PROVE  DeveloperInv'
<1>0. DeveloperTypes
  BY DEF DeveloperInv
<1>f. /\ ~doubtful /\ sel' = None /\ panel' = D!Empty /\ loading' \in BOOLEAN /\ doubtful' \in BOOLEAN
      /\ (~doubtful' => \A y \in D!Busy : developerPc[y] = "overview")
      /\ UNCHANGED D!serverVars /\ UNCHANGED D!cacheVars /\ UNCHANGED <<developerPc, developerApp, to, developerRow, answer>>
      /\ UNCHANGED <<cur, workspace, listed, apps, bundles>>
  BY <1>0, ConsoleTypesAre DEF D!CloseApp, D!handlerVars
<1>1. DeveloperTypes'
  <2>1. \A y \in Handlers : Held(y)'
    BY <1>0, <1>f DEF DeveloperTypes, Held
  <2> QED BY <1>0, <1>f, <2>1, ConsoleTypesAre, ServerTyped, CacheTyped, EmptyTyped, ConsoleRestTyped
<1>2. ASSUME ~doubtful' PROVE DeveloperLone'
  <2>1. DeveloperLone
    BY <1>f DEF DeveloperInv
  <2>2. Reading
    BY <1>2, <1>f, <1>0, ConsoleTypesAre DEF Reading, D!Busy
  <2>3. /\ FreshTrue /\ PortalTrue /\ OrgsAgree /\ AppsAgree
        /\ \A y \in Handlers : developerPc[y] = "overview" => developerRow[y] = version[developerApp[y]]
    BY <2>1, <2>2, ReadingNow
  <2>4. FreshTrue' /\ PortalTrue'
    BY <2>3, <1>f, FreshKept, PortalsKept DEF D!serverVars, D!cacheVars
  <2>5. OrgsAgree' /\ AppsAgree'
    BY <2>3, <1>f, PortalKept DEF OrgsAgree, AppsAgree, D!Portal, D!serverVars
  <2>6. Listed' /\ Shown'
    BY <1>f DEF Listed, Shown
  <2>7. Reading'
    BY <2>2, <1>f DEF Reading
  <2>8. \A y \in Handlers : developerPc'[y] = "overview" => developerRow'[y] = version'[developerApp'[y]]
    BY <2>3, <1>f DEF D!serverVars
  <2> QED BY <2>4, <2>5, <2>6, <2>7, <2>8, ReadingNext
<1> QED BY <1>1, <1>2 DEF DeveloperInv

\* The page and the handlers as they were: what they were on their way to holds.
LEMMA LoneKept ==
  ASSUME DeveloperLone, UNCHANGED D!serverVars, UNCHANGED D!pageVars, UNCHANGED D!handlerVars, FreshAgree', PortalAgree'
  PROVE  DeveloperLone'
<1>1. (OrgsAgree => OrgsAgree') /\ (Listed => Listed') /\ (Shown => Shown') /\ (Awaited => Awaited')
  BY DEF OrgsAgree, Listed, Shown, D!Full, Awaited, D!serverVars, D!pageVars, D!handlerVars
<1>2. D!Portal(cur)' = D!Portal(cur)
  BY DEF D!Portal, D!serverVars, D!pageVars
<1>3. (AppsAgree => AppsAgree') /\ \A b \in Apps \cup {None} : AppsAgreeBut(b) => AppsAgreeBut(b)'
  BY <1>2 DEF AppsAgree, AppsAgreeBut, D!pageVars
<1>4. ASSUME NEW x \in Handlers PROVE OnItsWay(x)'
  <2>1. OnItsWay(x)
    BY DEF DeveloperLone
  <2>2. developerPc'[x] = developerPc[x] /\ developerApp'[x] = developerApp[x] /\ to'[x] = to[x] /\ developerRow'[x] = developerRow[x] /\ answer'[x] = answer[x]
    BY DEF D!handlerVars
  <2>3. UNCHANGED <<orgs, home, version, setting, cur, workspace, listed, apps, sel>>
    BY DEF D!serverVars, D!pageVars
  <2>4. (answer[x] = D!Portal(answer[x].org))' = (answer[x] = D!Portal(answer[x].org))
    BY <2>2, <2>3 DEF D!Portal
  <2>5. AppsAgreeBut(developerApp[x]) => AppsAgreeBut(developerApp[x])'
    BY <1>2, <2>2, <2>3 DEF AppsAgreeBut
  <2> QED BY <1>1, <1>3, <2>1, <2>2, <2>3, <2>4, <2>5 DEF OnItsWay
<1>5. Reading' => Reading
  BY DEF Reading, D!handlerVars
<1>6. \A x, y \in D!Busy' : developerPc'[x] # "overview" => x = y
  BY DEF DeveloperLone, D!Busy, D!handlerVars
<1> QED BY <1>1, <1>3, <1>4, <1>5, <1>6 DEF DeveloperLone

\* Thirty seconds pass.
LEMMA AgeKeeps ==
  ASSUME DeveloperInv, D!Age
  PROVE  DeveloperInv'
<1>0. DeveloperTypes
  BY DEF DeveloperInv
<1>f. /\ ~doubtful /\ portal' = D!Stale(portal) /\ overview' = [a \in Apps |-> [overview[a] EXCEPT !.fresh = FALSE]]
      /\ UNCHANGED D!serverVars /\ UNCHANGED D!pageVars /\ UNCHANGED D!handlerVars /\ doubtful' = doubtful
  BY DEF D!Age
<1>t. overview' \in [Apps -> Overviews] /\ \A a \in Apps : ~overview'[a].fresh
  <2>1. ASSUME NEW a \in Apps PROVE [overview[a] EXCEPT !.fresh = FALSE] \in Overviews /\ ~[overview[a] EXCEPT !.fresh = FALSE].fresh
    <3>1. overview[a] \in Overviews
      BY <1>0, ConsoleTypesAre
    <3> QED BY <3>1 DEF Overviews
  <2> QED BY <1>f, <2>1
<1>s. PortalTrue' /\ portal' \in [Workspaces -> D!Portals \cup {None}]
  BY <1>f, PortalsStale
<1>h. UNCHANGED <<developerPc, developerApp, to, developerRow, answer>>
  BY <1>f DEF D!handlerVars
<1>1. DeveloperTypes'
  <2>1. \A y \in Handlers : Held(y)'
    BY <1>0, <1>h DEF DeveloperTypes, Held
  <2> QED BY <1>0, <1>f, <1>h, <1>s, <1>t, <2>1, ConsoleTypesAre, ServerTyped, PageTyped, ConsoleRestTyped
<1>2. DeveloperLone'
  <2>1. DeveloperLone
    BY <1>f DEF DeveloperInv
  <2>2. FreshTrue'
    BY <1>t DEF FreshTrue
  <2>3. FreshAgree' /\ PortalAgree'
    BY <2>2, <1>s, CacheTrueNext
  <2> QED BY <1>f, <2>1, <2>3, LoneKept
<1> QED BY <1>1, <1>2 DEF DeveloperInv

\* Something fails.
LEMMA FailKeeps ==
  ASSUME DeveloperInv, NEW x \in Handlers, D!Fail(x)
  PROVE  DeveloperInv'
<1>0. DeveloperTypes
  BY DEF DeveloperInv
<1>f. /\ doubtful' = TRUE /\ UNCHANGED D!serverVars /\ UNCHANGED D!cacheVars
      /\ UNCHANGED <<cur, workspace, listed, apps, sel>>
  BY DEF D!Fail
<1>e. /\ developerPc' \in [Handlers -> Steps] /\ developerApp' \in [Handlers -> Apps \cup {None}] /\ to' \in [Handlers -> Workspaces \cup {None}]
      /\ developerRow' \in [Handlers -> D!Versions \cup {None}] /\ answer' \in [Handlers -> D!Portals \cup {None}]
      /\ developerPc'[x] = "idle" \/ (developerPc'[x] = "overview" /\ developerApp'[x] \in Apps /\ developerRow'[x] \in D!Versions)
      /\ panel' \in Panels /\ loading' \in BOOLEAN /\ bundles' \in [Apps -> D!Versions \cup {None}]
      /\ \A y \in Handlers \ {x} :
           developerPc'[y] = developerPc[y] /\ developerApp'[y] = developerApp[y] /\ to'[y] = to[y] /\ developerRow'[y] = developerRow[y] /\ answer'[y] = answer[y]
  <2>1. CASE developerPc[x] = "portal" /\ developerApp[x] # None
    <3>1. D!LoadSelected(x, developerApp[x], overview, bundles)
      BY <2>1 DEF D!Fail
    <3>2. /\ developerApp[x] \in Apps /\ overview \in [Apps -> Overviews] /\ bundles \in [Apps -> D!Versions \cup {None}]
          /\ \A b \in Apps : overview[b].fresh => overview[b].v # None
      BY <1>0, <2>1, ConsoleTypesAre
    <3> QED BY <1>0, <3>1, <3>2, LoadSelectedEffect
  <2>2. CASE ~(developerPc[x] = "portal" /\ developerApp[x] # None)
    <3> DEFINE shown == developerPc[x] = "overview" /\ D!Mine(developerApp[x])
    <3>1. /\ loading' = (loading /\ ~shown) /\ panel' \in {panel} \cup (IF shown THEN {D!Empty} ELSE {})
          /\ D!Ends(x) /\ bundles' = bundles
      BY <2>2 DEF D!Fail
    <3>2. D!Ends(x)
      BY <3>1
    <3>3. panel' = panel \/ panel' = D!Empty
      BY <3>1
    <3>4. panel' \in Panels
      BY <1>0, <3>3, EmptyTyped, ConsoleTypesAre
    <3>5. loading' \in BOOLEAN
      BY <3>1
    <3>6. bundles' \in [Apps -> D!Versions \cup {None}]
      BY <1>0, <3>1, ConsoleTypesAre
    <3> QED BY <1>0, <3>2, <3>4, <3>5, <3>6, ClickEnds
  <2> QED BY <2>1, <2>2
<1>1. DeveloperTypes'
  <2>1. Held(x)'
    BY <1>e DEF Held
  <2>2. \A y \in Handlers : Held(y)'
    BY <1>0, <1>e, <2>1, OthersHold
  <2>3. /\ cur' \in Workspaces /\ workspace' \in Workspaces \X D!Versions /\ listed' \subseteq Workspaces
        /\ apps' \in [Apps -> D!Versions \cup {None}] /\ sel' \in Apps \cup {None} /\ doubtful' \in BOOLEAN
    BY <1>0, <1>f, ConsoleTypesAre
  <2> QED BY <1>0, <1>e, <1>f, <2>2, <2>3, ServerTyped, CacheTyped, ConsoleRestTyped
<1> QED BY <1>1, <1>f DEF DeveloperInv

\* Another admin changes an application.
LEMMA ElsewhereKeeps ==
  ASSUME DeveloperInv, D!Elsewhere
  PROVE  DeveloperInv'
<1>0. DeveloperTypes
  BY DEF DeveloperInv
<1>o. PICK a \in Apps : home[a] \in orgs /\ version[a] < MaxVersion /\ version' = [version EXCEPT ![a] = @ + 1]
  BY DEF D!Elsewhere
<1>f. /\ doubtful' = TRUE /\ UNCHANGED <<orgs, home, setting>> /\ UNCHANGED D!pageVars /\ UNCHANGED D!cacheVars
      /\ UNCHANGED <<developerPc, developerApp, to, developerRow, answer>>
  BY DEF D!Elsewhere, D!handlerVars
<1>t. /\ version' \in [Apps -> D!Versions] /\ \A b \in Apps : home'[b] = "new" => version'[b] = 0
  <2>1. version[a] \in D!Versions /\ home[a] # "new"
    BY <1>0, <1>o, ConsoleTypesAre, DeveloperAssumption
  <2>2. version[a] + 1 \in D!Versions
    BY <1>o, <2>1, DeveloperAssumption DEF D!Versions
  <2>3. version' \in [Apps -> D!Versions] /\ \A b \in Apps \ {a} : version'[b] = version[b]
    BY <1>0, <1>o, <2>2, ConsoleTypesAre
  <2> QED BY <1>0, <1>f, <2>1, <2>3, ConsoleTypesAre
<1>1. DeveloperTypes'
  <2>1. \A y \in Handlers : Held(y)'
    BY <1>0, <1>f DEF DeveloperTypes, Held
  <2> QED BY <1>0, <1>f, <1>t, <2>1, ConsoleTypesAre, PageTyped, CacheTyped, ConsoleRestTyped
<1> QED BY <1>1, <1>f DEF DeveloperInv

\* The page is loaded again.
LEMMA ReloadKeeps ==
  ASSUME DeveloperInv, D!Reload
  PROVE  DeveloperInv'
<1>0. DeveloperTypes
  BY DEF DeveloperInv
<1>o. PICK o \in orgs : /\ cur' = o /\ workspace' = <<o, D!Portal(o).setting>> /\ listed' = D!Portal(o).orgs
                        /\ apps' = D!Portal(o).apps
  BY DEF D!Reload
<1>f. /\ sel' = None /\ panel' = D!Empty /\ loading' = FALSE /\ bundles' = D!Forgotten
      /\ portal' = [q \in Workspaces |-> None] /\ overview' = [a \in Apps |-> [v |-> None, fresh |-> FALSE]]
      /\ developerPc' = [x \in Handlers |-> "idle"] /\ developerApp' = [x \in Handlers |-> None] /\ to' = [x \in Handlers |-> None]
      /\ developerRow' = [x \in Handlers |-> None] /\ answer' = [x \in Handlers |-> None]
      /\ doubtful' = FALSE /\ UNCHANGED D!serverVars
  BY DEF D!Reload
<1>a. /\ o \in Workspaces /\ D!Portal(o) \in D!Portals /\ D!Portal(o).setting = setting[o] /\ D!Portal(o).orgs = orgs
      /\ D!Portal(o).apps \in [Apps -> D!Versions \cup {None}]
  <2>1. o \in Workspaces
    BY <1>0, ConsoleTypesAre
  <2> QED BY <1>0, <2>1, PortalIs DEF D!Portals
<1>t. overview' \in [Apps -> Overviews] /\ \A a \in Apps : ~overview'[a].fresh
  BY <1>f DEF Overviews
<1>1. DeveloperTypes'
  <2>1. \A y \in Handlers : Held(y)'
    BY <1>f DEF Held
  <2>2. /\ developerPc' \in [Handlers -> Steps] /\ developerApp' \in [Handlers -> Apps \cup {None}] /\ to' \in [Handlers -> Workspaces \cup {None}]
        /\ developerRow' \in [Handlers -> D!Versions \cup {None}] /\ answer' \in [Handlers -> D!Portals \cup {None}]
        /\ portal' \in [Workspaces -> D!Portals \cup {None}]
    BY <1>f DEF Steps
  <2>3. /\ cur' \in Workspaces /\ workspace' \in Workspaces \X D!Versions /\ listed' \subseteq Workspaces
        /\ apps' \in [Apps -> D!Versions \cup {None}]
    BY <1>0, <1>a, <1>o, ConsoleTypesAre
  <2> QED BY <1>0, <1>f, <1>t, <2>1, <2>2, <2>3, ServerTyped, EmptyTyped, ForgottenTyped, ConsoleRestTyped
<1>2. DeveloperLone'
  <2>1. FreshTrue' /\ PortalTrue'
    BY <1>f, <1>t DEF FreshTrue, PortalTrue
  <2>2. Reading' /\ \A y \in Handlers : developerPc'[y] # "overview"
    BY <1>f DEF Reading
  <2>3. OrgsAgree'
    BY <1>a, <1>o, <1>f DEF OrgsAgree, D!serverVars
  <2>4. AppsAgree'
    BY <1>o, <1>f DEF AppsAgree, D!Portal, D!serverVars
  <2>5. Listed' /\ Shown'
    BY <1>f DEF Listed, Shown
  <2> QED BY <2>1, <2>2, <2>3, <2>4, <2>5, ReadingNext
<1> QED BY <1>1, <1>2 DEF DeveloperInv

LEMMA DeveloperStutters ==
  ASSUME DeveloperInv, UNCHANGED D!vars
  PROVE  DeveloperInv'
<1>0. DeveloperTypes
  BY DEF DeveloperInv
<1>f. /\ UNCHANGED D!serverVars /\ UNCHANGED D!pageVars /\ UNCHANGED D!cacheVars /\ UNCHANGED D!handlerVars
      /\ UNCHANGED doubtful
  BY DEF D!vars
<1>h. UNCHANGED <<developerPc, developerApp, to, developerRow, answer>>
  BY <1>f DEF D!handlerVars
<1>1. DeveloperTypes'
  <2>1. \A y \in Handlers : Held(y)'
    BY <1>0, <1>h DEF DeveloperTypes, Held
  <2> QED BY <1>0, <1>f, <1>h, <2>1, ConsoleTypesAre, ServerTyped, PageTyped, CacheTyped, ConsoleRestTyped
<1>2. CASE doubtful
  BY <1>1, <1>2, <1>f DEF DeveloperInv
<1>3. CASE DeveloperLone
  <2>1. FreshAgree'
    BY <1>3, <1>f, <1>h DEF DeveloperLone, FreshAgree, D!serverVars, D!cacheVars
  <2>2. PortalAgree'
    <3>1. \A o \in Workspaces : D!Portal(o)' = D!Portal(o)
      BY <1>f, PortalKept
    <3> QED BY <1>3, <1>f, <1>h, <3>1 DEF DeveloperLone, PortalAgree, D!cacheVars, D!pageVars
  <2>3. DeveloperLone'
    BY <1>3, <1>f, <2>1, <2>2, LoneKept
  <2> QED BY <1>1, <2>3 DEF DeveloperInv
<1> QED BY <1>2, <1>3 DEF DeveloperInv

LEMMA DeveloperInit == D!Init => DeveloperInv
<1> SUFFICES ASSUME D!Init PROVE DeveloperInv
  OBVIOUS
<1> USE DEF D!Init
<1>0. 0 \in D!Versions
  BY DeveloperAssumption DEF D!Versions
<1>1. overview \in [Apps -> Overviews] /\ \A a \in Apps : ~overview[a].fresh
  BY DEF Overviews
<1>2. D!TypeOK
  <2>1. panel \in Panels
    BY EmptyTyped
  <2>2. developerPc \in [Handlers -> Steps]
    BY DEF Steps
  <2> QED BY <1>0, <1>1, <2>1, <2>2, DeveloperAssumption DEF D!TypeOK, Steps, Panels, Overviews
<1>3. DeveloperTypes
  BY <1>1, <1>2 DEF DeveloperTypes, Held
<1>4. DeveloperLone
  <2>1. OrgsAgree
    BY DeveloperAssumption DEF OrgsAgree
  <2>2. AppsAgree
    BY DeveloperAssumption DEF AppsAgree, D!Portal
  <2>3. Listed /\ Shown
    BY DEF Listed, Shown
  <2>4. FreshAgree /\ PortalAgree
    BY <1>1 DEF FreshAgree, PortalAgree
  <2>5. \A x \in Handlers : OnItsWay(x)
    BY DEF OnItsWay
  <2> QED BY <2>1, <2>2, <2>3, <2>4, <2>5 DEF DeveloperLone, D!Busy
<1> QED BY <1>3, <1>4 DEF DeveloperInv

LEMMA DeveloperNext == DeveloperInv /\ [D!Next]_(D!vars) => DeveloperInv'
<1> SUFFICES ASSUME DeveloperInv, [D!Next]_(D!vars) PROVE DeveloperInv'
  OBVIOUS
<1>1. ASSUME NEW x \in Handlers,
             D!OpenApp(x) \/ D!ShowApp(x) \/ D!MoreOfList(x) \/ D!ShowList(x) \/ D!SwitchOrganization(x) \/ D!ShowPortal(x)
      PROVE  DeveloperInv'
  BY <1>1, OpenAppKeeps, ShowAppKeeps, MoreOfListKeeps, ShowListKeeps, SwitchOrganizationKeeps, ShowPortalKeeps
<1>2. ASSUME NEW x \in Handlers,
             D!SendCreate(x) \/ D!Create(x) \/ D!SendSave(x) \/ D!Save(x) \/ D!SendResource(x) \/ D!SendDelete(x) \/ D!Delete(x)
      PROVE  DeveloperInv'
  BY <1>2, SendCreateKeeps, CreateKeeps, SendSaveKeeps, SaveKeeps, SendResourceKeeps, SendDeleteKeeps, DeletedKeeps
<1>3. ASSUME NEW x \in Handlers,
             D!SendSetting(x) \/ D!SendMember(x) \/ D!Settle(x) \/ D!ReadWorkspace(x) \/ D!ShowWorkspace(x)
             \/ D!SendOrganization(x) \/ D!FoundOrganization(x) \/ D!Fail(x)
      PROVE  DeveloperInv'
  BY <1>3, SendSettingKeeps, SendMemberKeeps, SettleKeeps, ReadWorkspaceKeeps, ShowWorkspaceKeeps,
     SendOrganizationKeeps, FoundOrganizationKeeps, FailKeeps
<1> QED BY <1>1, <1>2, <1>3, CloseAppKeeps, AgeKeeps, ElsewhereKeeps, ReloadKeeps, DeveloperStutters DEF D!Next

\* The page's invariant: what a handler that nobody overlapped has and the cache
\* vouches for is what the server has.
THEOREM DeveloperInvariance == D!Spec => []DeveloperInv
BY DeveloperInit, DeveloperNext, PTL DEF D!Spec

\* A page at rest shows what the server has.
THEOREM QuietPagesOfDevelopers == D!Spec => []D!QuietConsoleAgrees
<1>1. DeveloperInv => D!QuietConsoleAgrees
  <2> SUFFICES ASSUME DeveloperInv, ~doubtful, D!Busy = {}
               PROVE  /\ listed = orgs /\ workspace = <<cur, setting[cur]>> /\ apps = D!Portal(cur).apps
                      /\ sel # None => panel = D!Full(sel, version[sel]) /\ apps[sel] # None /\ ~loading
    BY DEF D!QuietConsoleAgrees
  <2>1. DeveloperTypes /\ DeveloperLone
    BY DEF DeveloperInv
  <2>2. \A x \in Handlers : developerPc[x] = "idle"
    BY DEF D!Busy
  <2>3. OrgsAgree /\ AppsAgree /\ Listed /\ Shown
    BY <2>1, <2>2 DEF DeveloperLone, Reading, Awaited
  <2>4. apps = D!Portal(cur).apps
    <3>1. D!Portal(cur).apps \in [Apps -> D!Versions \cup {None}] /\ apps \in [Apps -> D!Versions \cup {None}]
      BY <2>1, PortalIs, ConsoleTypesAre DEF D!Portals
    <3>2. \A a \in Apps : apps[a] = D!Portal(cur).apps[a]
      BY <2>3 DEF AppsAgree
    <3> DEFINE A == D!Portal(cur).apps
    <3>3. A \in [Apps -> D!Versions \cup {None}] /\ \A a \in Apps : apps[a] = A[a]
      BY <3>1, <3>2
    <3> HIDE DEF A
    <3>4. apps = A
      BY <3>1, <3>3
    <3> QED BY <3>4 DEF A
  <2> QED BY <2>3, <2>4 DEF OrgsAgree, Listed, Shown
<1> QED BY <1>1, DeveloperInvariance, PTL

-----------------------------------------------------------------------------
(* Organization console (OrganizationConsole).                             *)

Pairs == O!Versions \X O!Versions
PageSteps == {"idle", "bootstrap", "list", "ask", "show", "sign", "applied", "found", "founded", "logo"}

\* The types, and what a handler holds in each of its steps.
PageHeld(x) ==
  /\ consolePc[x] \in {"ask", "show", "logo"} => about[x] \in Workspaces
  /\ consolePc[x] \in {"show", "logo"} => consoleRow[x][about[x]] \in Pairs
  /\ consolePc[x] = "founded" => next[x] # None

ConsoleTypes ==
  /\ O!TypeOK
  /\ detail \in [org : Workspaces \cup {None}, row : Pairs \cup {None}]
  /\ detail.org # None => detail.row # None
  /\ \A x \in Handlers : PageHeld(x)

\* Whoever set a flag is still on the way; a page that was just loaded shows
\* nothing until the first list is there.
Fresh ==
  /\ consoleListed = O!Nothing /\ selected = None /\ detail = O!Closed
  /\ \A x \in Handlers : consolePc[x] \in {"idle", "bootstrap", "list", "found", "founded"}

Loads(x) ==
  \/ consolePc[x] \in {"bootstrap", "list", "ask", "show"} /\ next[x] # None
  \/ consolePc[x] \in {"bootstrap", "list"} /\ Fresh

FlagInv ==
  /\ \A x \in Handlers : kind[x] # "read" => consolePc[x] # "idle"
  /\ busy => \E x \in Handlers : kind[x] # "read"
  /\ uploading => \E x \in Handlers : consolePc[x] = "logo"
  /\ consoleLoading => \E x \in Handlers : Loads(x)

\* What the page shows and what the server has.
ListAgrees == \A o \in Workspaces : consoleListed[o] = IF o \in consoleOrgs THEN logo[o] ELSE None
DetailAgrees ==
  /\ detail.org = selected
  /\ selected = None => detail.row = None
  /\ selected # None => detail.row = <<consoleVersion[selected], logo[selected]>>
AuditAgrees == section = "audit" /\ selected # None => audited = selected
Agrees == ListAgrees /\ DetailAgrees /\ AuditAgrees

\* A lone handler has what it needs to end in a page that agrees.
PageOnItsWay(x) ==
  /\ consolePc[x] \in {"bootstrap", "list"} /\ next[x] = None => selected = None
  /\ consolePc[x] = "list" => consoleRow[x] = O!Answered(consoleOrgs)
  /\ consolePc[x] \in {"ask", "show"} =>
              /\ ListAgrees /\ about[x] = selected
              /\ next[x] = None /\ section = "audit" => full[x]
  /\ consolePc[x] = "show" => consoleRow[x][about[x]] = <<consoleVersion[about[x]], logo[about[x]]>>
  /\ consolePc[x] = "sign" => Agrees /\ about[x] = detail.org
  /\ consolePc[x] = "applied" => ListAgrees
  /\ consolePc[x] = "logo" =>
              /\ \A o \in Workspaces \ {about[x]} : consoleListed[o] = IF o \in consoleOrgs THEN logo[o] ELSE None
              /\ consoleListed[about[x]] = None <=> about[x] \notin consoleOrgs
              /\ about[x] = detail.org /\ detail.org = selected
              /\ detail.row[1] = consoleVersion[about[x]]
              /\ consoleRow[x][about[x]] = <<consoleVersion[about[x]], logo[about[x]]>>
              /\ AuditAgrees

ConsoleLone ==
  /\ ~astray
  /\ \A x, y \in O!Busy : x = y
  /\ O!Busy = {} => Agrees
  /\ \A x \in O!Busy : PageOnItsWay(x)

ConsoleInv == ConsoleTypes /\ FlagInv /\ (consoleDoubtful \/ ConsoleLone)

-----------------------------------------------------------------------------

LEMMA PageTypesAre ==
  ConsoleTypes =>
    /\ consoleOrgs \subseteq Workspaces /\ consoleVersion \in [Workspaces -> O!Versions] /\ logo \in [Workspaces -> O!Versions]
    /\ consoleListed \in [Workspaces -> O!Versions \cup {None}] /\ selected \in Workspaces \cup {None}
    /\ detail \in [org : Workspaces \cup {None}, row : Pairs \cup {None}] /\ (detail.org # None => detail.row \in Pairs)
    /\ section \in {"overview", "audit"} /\ audited \in Workspaces \cup {None}
    /\ busy \in BOOLEAN /\ uploading \in BOOLEAN /\ consoleLoading \in BOOLEAN
    /\ consolePc \in [Handlers -> PageSteps] /\ kind \in [Handlers -> {"read", "page", "panel"}]
    /\ about \in [Handlers -> Workspaces \cup {None}] /\ next \in [Handlers -> Workspaces \cup {None}]
    /\ full \in [Handlers -> BOOLEAN] /\ consoleRow \in [Handlers -> O!Rows]
    /\ consoleDoubtful \in BOOLEAN /\ astray \in BOOLEAN
BY DEF ConsoleTypes, O!TypeOK, PageSteps, Pairs

\* What remains to be typed of a step.
LEMMA PageRestTyped ==
  ASSUME consoleOrgs' \subseteq Workspaces, consoleVersion' \in [Workspaces -> O!Versions], logo' \in [Workspaces -> O!Versions],
         consoleListed' \in [Workspaces -> O!Versions \cup {None}], selected' \in Workspaces \cup {None},
         detail' \in [org : Workspaces \cup {None}, row : Pairs \cup {None}], detail'.org # None => detail'.row # None,
         section' \in {"overview", "audit"}, audited' \in Workspaces \cup {None},
         busy' \in BOOLEAN, uploading' \in BOOLEAN, consoleLoading' \in BOOLEAN,
         consolePc' \in [Handlers -> PageSteps], kind' \in [Handlers -> {"read", "page", "panel"}],
         about' \in [Handlers -> Workspaces \cup {None}], next' \in [Handlers -> Workspaces \cup {None}],
         full' \in [Handlers -> BOOLEAN], consoleRow' \in [Handlers -> O!Rows],
         consoleDoubtful' \in BOOLEAN, astray' \in BOOLEAN, \A x \in Handlers : PageHeld(x)'
  PROVE  ConsoleTypes'
<1>1. detail'.org \in Workspaces \cup {None} /\ detail'.row \in Pairs \cup {None}
  OBVIOUS
<1> QED BY <1>1 DEF ConsoleTypes, O!TypeOK, PageSteps, Pairs

LEMMA NothingTyped == O!Nothing \in O!Rows /\ O!Nothing \in [Workspaces -> O!Versions \cup {None}]
BY DEF O!Nothing, O!Rows

LEMMA ClosedTyped ==
  O!Closed \in [org : Workspaces \cup {None}, row : Pairs \cup {None}] /\ O!Closed.org = None /\ O!Closed.row = None
BY DEF O!Closed

LEMMA AnsweredTyped ==
  ASSUME ConsoleTypes, NEW S \in SUBSET Workspaces
  PROVE  O!Answered(S) \in O!Rows /\ \A o \in Workspaces : O!Answered(S)[o] = IF o \in S THEN <<consoleVersion[o], logo[o]>> ELSE None
BY PageTypesAre DEF O!Answered, O!Rows

\* A handler goes a step further.
LEMMA PageGoesEffect ==
  ASSUME ConsoleTypes, NEW x \in Handlers, NEW s \in PageSteps, O!Goes(x, s)
  PROVE  /\ consolePc' \in [Handlers -> PageSteps] /\ consolePc'[x] = s
         /\ \A y \in Handlers \ {x} : consolePc'[y] = consolePc[y]
BY PageTypesAre DEF O!Goes

\* A handler ends.
LEMMA PageEndsEffect ==
  ASSUME ConsoleTypes, NEW x \in Handlers, O!Ends(x)
  PROVE  /\ consolePc' \in [Handlers -> PageSteps] /\ consolePc'[x] = "idle" /\ kind' \in [Handlers -> {"read", "page", "panel"}]
         /\ kind'[x] = "read" /\ busy' \in BOOLEAN /\ (busy' => busy /\ kind[x] = "read")
         /\ about' \in [Handlers -> Workspaces \cup {None}] /\ next' \in [Handlers -> Workspaces \cup {None}]
         /\ full' \in [Handlers -> BOOLEAN] /\ consoleRow' \in [Handlers -> O!Rows]
         /\ \A y \in Handlers \ {x} :
              /\ consolePc'[y] = consolePc[y] /\ kind'[y] = kind[y] /\ about'[y] = about[y] /\ next'[y] = next[y]
              /\ full'[y] = full[y] /\ consoleRow'[y] = consoleRow[y]
<1>1. consolePc' = [consolePc EXCEPT ![x] = "idle"] /\ kind' = [kind EXCEPT ![x] = "read"] /\ busy' = (busy /\ kind[x] = "read")
      /\ about' = [about EXCEPT ![x] = None] /\ next' = [next EXCEPT ![x] = None]
      /\ full' = [full EXCEPT ![x] = FALSE] /\ consoleRow' = [consoleRow EXCEPT ![x] = O!Nothing]
  BY DEF O!Ends, O!Goes
<1> QED BY <1>1, PageTypesAre, NothingTyped DEF PageSteps

\* A handler asks for an organization.
LEMMA LoadEffect ==
  ASSUME ConsoleTypes, NEW x \in Handlers, NEW o \in Workspaces, NEW b \in BOOLEAN, O!Load(x, o, b)
  PROVE  /\ consolePc' \in [Handlers -> PageSteps] /\ consolePc'[x] = "ask" /\ selected' = o
         /\ about' \in [Handlers -> Workspaces \cup {None}] /\ about'[x] = o
         /\ full' \in [Handlers -> BOOLEAN] /\ full'[x] = b /\ consoleRow' \in [Handlers -> O!Rows]
         /\ \A y \in Handlers \ {x} :
              consolePc'[y] = consolePc[y] /\ about'[y] = about[y] /\ full'[y] = full[y] /\ consoleRow'[y] = consoleRow[y]
<1>1. consolePc' = [consolePc EXCEPT ![x] = "ask"] /\ selected' = o /\ about' = [about EXCEPT ![x] = o]
      /\ full' = [full EXCEPT ![x] = b] /\ consoleRow' = [consoleRow EXCEPT ![x] = O!Nothing]
  BY DEF O!Load, O!Goes
<1> QED BY <1>1, PageTypesAre, NothingTyped DEF PageSteps

-----------------------------------------------------------------------------

\* A lone handler is the only one, and a click in a page without doubt the first.
LEMMA PageLoneNow ==
  ASSUME ConsoleLone, NEW x \in Handlers, consolePc[x] # "idle"
  PROVE  ~astray /\ PageOnItsWay(x) /\ \A y \in Handlers \ {x} : consolePc[y] = "idle"
BY DEF ConsoleLone, O!Busy

LEMMA PageStartsAlone ==
  ASSUME ConsoleLone, NEW x \in Handlers, O!Starts(x), ~consoleDoubtful'
  PROVE  ~astray /\ Agrees /\ \A y \in Handlers : consolePc[y] = "idle"
BY DEF ConsoleLone, O!Busy, O!Starts

LEMMA PageLoneStays ==
  ASSUME NEW x \in Handlers, \A y \in Handlers \ {x} : consolePc[y] = "idle" /\ consolePc'[y] = consolePc[y],
         ~astray', consolePc'[x] # "idle", PageOnItsWay(x)'
  PROVE  ConsoleLone'
BY DEF ConsoleLone, O!Busy

LEMMA PageLoneEnds ==
  ASSUME NEW x \in Handlers, \A y \in Handlers \ {x} : consolePc[y] = "idle" /\ consolePc'[y] = consolePc[y],
         ~astray', consolePc'[x] = "idle", Agrees'
  PROVE  ConsoleLone'
BY DEF ConsoleLone, O!Busy

\* A step of one handler leaves what the others hold and the flags they set.
LEMMA PageOthersHold ==
  ASSUME ConsoleTypes, NEW x \in Handlers, PageHeld(x)',
         \A y \in Handlers \ {x} :
           consolePc'[y] = consolePc[y] /\ about'[y] = about[y] /\ next'[y] = next[y] /\ consoleRow'[y] = consoleRow[y]
  PROVE  \A y \in Handlers : PageHeld(y)'
<1>1. ASSUME NEW y \in Handlers \ {x} PROVE PageHeld(y)'
  <2>1. PageHeld(y) /\ consolePc'[y] = consolePc[y] /\ about'[y] = about[y] /\ next'[y] = next[y] /\ consoleRow'[y] = consoleRow[y]
    BY DEF ConsoleTypes
  <2> QED BY <2>1 DEF PageHeld
<1> QED BY <1>1

LEMMA OthersFlags ==
  ASSUME FlagInv, NEW x \in Handlers,
         \A y \in Handlers \ {x} : consolePc'[y] = consolePc[y] /\ kind'[y] = kind[y],
         kind'[x] # "read" => consolePc'[x] # "idle",
         busy' => kind'[x] # "read" \/ (busy /\ kind[x] = "read"),
         uploading' => consolePc'[x] = "logo" \/ (uploading /\ consolePc[x] # "logo"),
         consoleLoading' => \E y \in Handlers : Loads(y)'
  PROVE  FlagInv'
<1>1. busy' => \E y \in Handlers : kind'[y] # "read"
  BY DEF FlagInv
<1>2. uploading' => \E y \in Handlers : consolePc'[y] = "logo"
  BY DEF FlagInv
<1>3. \A y \in Handlers : kind'[y] # "read" => consolePc'[y] # "idle"
  BY DEF FlagInv
<1> QED BY <1>1, <1>2, <1>3 DEF FlagInv

\* Who loads keeps loading while another one steps, if a page that was just
\* loaded still is.
LEMMA OthersLoad ==
  ASSUME FlagInv, NEW x \in Handlers,
         \A y \in Handlers \ {x} : consolePc'[y] = consolePc[y] /\ next'[y] = next[y],
         Loads(x) => Loads(x)' \/ ~consoleLoading',
         consoleLoading' => consoleLoading, Fresh => Fresh' \/ ~consoleLoading'
  PROVE  consoleLoading' => \E y \in Handlers : Loads(y)'
<1> SUFFICES ASSUME consoleLoading' PROVE \E y \in Handlers : Loads(y)'
  OBVIOUS
<1>1. PICK y \in Handlers : Loads(y)
  BY DEF FlagInv
<1>2. CASE y = x
  BY <1>1, <1>2
<1>3. CASE y # x
  <2>1. consolePc'[y] = consolePc[y] /\ next'[y] = next[y]
    BY <1>3
  <2>2. Loads(y)'
    BY <1>1, <2>1 DEF Loads
  <2> QED BY <2>2
<1> QED BY <1>2, <1>3

\* Asking for an organization of the list.
LEMMA SelectOrganizationKeeps ==
  ASSUME ConsoleInv, NEW x \in Handlers, O!SelectOrganization(x)
  PROVE  ConsoleInv'
<1>0. ConsoleTypes /\ FlagInv
  BY DEF ConsoleInv
<1>o. PICK o \in Workspaces : consoleListed[o] # None /\ O!Load(x, o, FALSE)
  BY DEF O!SelectOrganization
<1>e. /\ consolePc' \in [Handlers -> PageSteps] /\ consolePc'[x] = "ask" /\ selected' = o
      /\ about' \in [Handlers -> Workspaces \cup {None}] /\ about'[x] = o
      /\ full' \in [Handlers -> BOOLEAN] /\ full'[x] = FALSE /\ consoleRow' \in [Handlers -> O!Rows]
      /\ \A y \in Handlers \ {x} :
           consolePc'[y] = consolePc[y] /\ about'[y] = about[y] /\ full'[y] = full[y] /\ consoleRow'[y] = consoleRow[y]
  BY <1>0, <1>o, LoadEffect
<1>f. /\ O!Starts(x) /\ section' = "overview" /\ audited' = None /\ consoleListed[o] # None
      /\ UNCHANGED <<consoleOrgs, consoleVersion, logo, consoleListed, detail, busy, uploading, consoleLoading, kind, next, astray>>
      /\ consoleDoubtful' \in BOOLEAN
  BY <1>o DEF O!SelectOrganization, O!serverVars, O!flagVars, O!Starts
<1>1. ConsoleTypes'
  <2>1. PageHeld(x)'
    BY <1>0, <1>e DEF PageHeld
  <2>2. \A y \in Handlers : PageHeld(y)'
    BY <1>0, <1>e, <1>f, <2>1, PageOthersHold
  <2> QED BY <1>0, <1>e, <1>f, <2>2, PageTypesAre, PageRestTyped DEF ConsoleTypes
<1>2. FlagInv'
  <2>1. ~Fresh /\ ~Loads(x)
    BY <1>e, <1>f DEF Fresh, O!Nothing, Loads, O!Starts
  <2>2. consoleLoading' => \E y \in Handlers : Loads(y)'
    BY <1>0, <1>e, <1>f, <2>1, OthersLoad
  <2> QED BY <1>0, <1>e, <1>f, <2>2, OthersFlags DEF FlagInv, O!Starts
<1>3. ASSUME ~consoleDoubtful' PROVE ConsoleLone'
  <2>1. ConsoleLone /\ ~consoleDoubtful
    BY <1>f DEF ConsoleInv, O!Starts
  <2>2. ~astray /\ Agrees /\ \A y \in Handlers : consolePc[y] = "idle"
    BY <2>1, <1>3, <1>f, PageStartsAlone
  <2>3. PageOnItsWay(x)'
    BY <2>2, <1>e, <1>f DEF PageOnItsWay, Agrees, ListAgrees
  <2> QED BY <2>2, <2>3, <1>e, <1>f, PageLoneStays
<1> QED BY <1>1, <1>2, <1>3 DEF ConsoleInv

\* The organization is read.
LEMMA AnswerKeeps ==
  ASSUME ConsoleInv, NEW x \in Handlers, O!Answer(x)
  PROVE  ConsoleInv'
<1>0. ConsoleTypes /\ FlagInv
  BY DEF ConsoleInv
<1>f. /\ consolePc[x] = "ask" /\ O!Goes(x, "show") /\ consoleRow' = [consoleRow EXCEPT ![x] = O!Answered({about[x]})]
      /\ UNCHANGED <<consoleOrgs, consoleVersion, logo, consoleListed, selected, detail, section, audited, busy, uploading, consoleLoading,
                     kind, about, next, full, consoleDoubtful, astray>>
  BY DEF O!Answer, O!serverVars, O!shownVars, O!flagVars, O!historyVars
<1>a. about[x] \in Workspaces
  BY <1>0, <1>f DEF ConsoleTypes, PageHeld
<1>r. O!Answered({about[x]}) \in O!Rows /\ O!Answered({about[x]})[about[x]] = <<consoleVersion[about[x]], logo[about[x]]>>
  BY <1>0, <1>a, AnsweredTyped
<1>e. /\ consolePc' \in [Handlers -> PageSteps] /\ consolePc'[x] = "show" /\ consoleRow' \in [Handlers -> O!Rows]
      /\ \A y \in Handlers \ {x} : consolePc'[y] = consolePc[y] /\ consoleRow'[y] = consoleRow[y]
  BY <1>0, <1>f, <1>r, PageGoesEffect, PageTypesAre DEF PageSteps
<1>g. /\ about'[x] \in Workspaces /\ consoleRow'[x][about'[x]] = <<consoleVersion[about[x]], logo[about[x]]>>
      /\ consoleVersion[about[x]] \in O!Versions /\ logo[about[x]] \in O!Versions
  BY <1>0, <1>f, <1>a, <1>r, PageTypesAre
<1>1. ConsoleTypes'
  <2>0. about'[x] \in Workspaces /\ consoleRow'[x][about'[x]] \in Pairs /\ consolePc'[x] = "show"
    BY <1>e, <1>g DEF Pairs
  <2>1. PageHeld(x)'
    BY <2>0 DEF PageHeld
  <2>2. \A y \in Handlers : PageHeld(y)'
    BY <1>0, <1>e, <1>f, <2>1, PageOthersHold
  <2> QED BY <1>0, <1>e, <1>f, <2>2, PageTypesAre, PageRestTyped DEF ConsoleTypes
<1>2. FlagInv'
  <2>1. Loads(x) => Loads(x)'
    BY <1>e, <1>f DEF Loads
  <2>2. Fresh => Fresh'
    BY <1>e, <1>f DEF Fresh
  <2>3. consoleLoading' => \E y \in Handlers : Loads(y)'
    BY <1>0, <1>e, <1>f, <2>1, <2>2, OthersLoad
  <2> QED BY <1>0, <1>e, <1>f, <2>3, OthersFlags DEF FlagInv
<1>3. ASSUME ~consoleDoubtful' PROVE ConsoleLone'
  <2>1. ConsoleLone
    BY <1>3, <1>f DEF ConsoleInv
  <2>2. ~astray /\ PageOnItsWay(x) /\ \A y \in Handlers \ {x} : consolePc[y] = "idle"
    BY <2>1, <1>f, PageLoneNow
  <2>3. PageOnItsWay(x)'
    BY <2>2, <1>e, <1>f, <1>g DEF PageOnItsWay, ListAgrees
  <2> QED BY <2>2, <2>3, <1>e, <1>f, PageLoneStays
<1> QED BY <1>1, <1>2, <1>3 DEF ConsoleInv

\* The list is read.
LEMMA AnswerListKeeps ==
  ASSUME ConsoleInv, NEW x \in Handlers, O!AnswerList(x)
  PROVE  ConsoleInv'
<1>0. ConsoleTypes /\ FlagInv
  BY DEF ConsoleInv
<1>f. /\ consolePc[x] = "bootstrap" /\ O!Goes(x, "list") /\ consoleRow' = [consoleRow EXCEPT ![x] = O!Answered(consoleOrgs)]
      /\ UNCHANGED <<consoleOrgs, consoleVersion, logo, consoleListed, selected, detail, section, audited, busy, uploading, consoleLoading,
                     kind, about, next, full, consoleDoubtful, astray>>
  BY DEF O!AnswerList, O!serverVars, O!shownVars, O!flagVars, O!historyVars
<1>r. O!Answered(consoleOrgs) \in O!Rows
  BY <1>0, PageTypesAre, AnsweredTyped
<1>e. /\ consolePc' \in [Handlers -> PageSteps] /\ consolePc'[x] = "list" /\ consoleRow' \in [Handlers -> O!Rows] /\ consoleRow'[x] = O!Answered(consoleOrgs)
      /\ \A y \in Handlers \ {x} : consolePc'[y] = consolePc[y] /\ consoleRow'[y] = consoleRow[y]
  BY <1>0, <1>f, <1>r, PageGoesEffect, PageTypesAre DEF PageSteps
<1>1. ConsoleTypes'
  <2>1. PageHeld(x)'
    BY <1>e DEF PageHeld
  <2>2. \A y \in Handlers : PageHeld(y)'
    BY <1>0, <1>e, <1>f, <2>1, PageOthersHold
  <2> QED BY <1>0, <1>e, <1>f, <2>2, PageTypesAre, PageRestTyped DEF ConsoleTypes
<1>2. FlagInv'
  <2>1. Fresh => Fresh'
    BY <1>e, <1>f DEF Fresh
  <2>2. Loads(x) => Loads(x)'
    BY <1>e, <1>f, <2>1 DEF Loads
  <2>3. consoleLoading' => \E y \in Handlers : Loads(y)'
    BY <1>0, <1>e, <1>f, <2>1, <2>2, OthersLoad
  <2> QED BY <1>0, <1>e, <1>f, <2>3, OthersFlags DEF FlagInv
<1>3. ASSUME ~consoleDoubtful' PROVE ConsoleLone'
  <2>1. ConsoleLone
    BY <1>3, <1>f DEF ConsoleInv
  <2>2. ~astray /\ PageOnItsWay(x) /\ \A y \in Handlers \ {x} : consolePc[y] = "idle"
    BY <2>1, <1>f, PageLoneNow
  <2>3. O!Answered(consoleOrgs)' = O!Answered(consoleOrgs)
    BY <1>f DEF O!Answered
  <2>4. PageOnItsWay(x)'
    BY <2>2, <2>3, <1>e, <1>f DEF PageOnItsWay
  <2> QED BY <2>2, <2>4, <1>e, <1>f, PageLoneStays
<1> QED BY <1>1, <1>2, <1>3 DEF ConsoleInv

\* Signing for the organization that is shown.
LEMMA PageChangeKeeps ==
  ASSUME ConsoleInv, NEW x \in Handlers, O!Change(x)
  PROVE  ConsoleInv'
<1>0. ConsoleTypes /\ FlagInv
  BY DEF ConsoleInv
<1>f. /\ O!Starts(x) /\ consolePc[x] = "idle" /\ ~busy /\ busy' = TRUE /\ kind' = [kind EXCEPT ![x] = "page"]
      /\ detail.org # None /\ O!Goes(x, "sign") /\ about' = [about EXCEPT ![x] = detail.org] /\ consoleDoubtful' \in BOOLEAN
      /\ UNCHANGED <<consoleOrgs, consoleVersion, logo, consoleListed, selected, detail, section, audited, uploading, consoleLoading,
                     next, full, consoleRow, astray>>
  BY DEF O!Change, O!StartsChange, O!Signs, O!Starts, O!serverVars, O!shownVars
<1>e. /\ consolePc' \in [Handlers -> PageSteps] /\ consolePc'[x] = "sign" /\ about' \in [Handlers -> Workspaces \cup {None}]
      /\ about'[x] = detail.org /\ kind' \in [Handlers -> {"read", "page", "panel"}] /\ kind'[x] = "page"
      /\ \A y \in Handlers \ {x} : consolePc'[y] = consolePc[y] /\ about'[y] = about[y] /\ kind'[y] = kind[y]
  <2>1. detail.org \in Workspaces \cup {None}
    BY <1>0, PageTypesAre
  <2> QED BY <1>0, <1>f, <2>1, PageGoesEffect, PageTypesAre DEF PageSteps
<1>1. ConsoleTypes'
  <2>1. PageHeld(x)'
    BY <1>0, <1>e, <1>f DEF PageHeld
  <2>2. \A y \in Handlers : PageHeld(y)'
    BY <1>0, <1>e, <1>f, <2>1, PageOthersHold
  <2> QED BY <1>0, <1>e, <1>f, <2>2, PageTypesAre, PageRestTyped DEF ConsoleTypes
<1>2. FlagInv'
  <2>1. Fresh => Fresh'
    BY <1>e, <1>f DEF Fresh, O!Closed
  <2>2. consoleLoading' => \E y \in Handlers : Loads(y)'
    BY <1>0, <1>e, <1>f, <2>1, OthersLoad DEF Loads
  <2> QED BY <1>0, <1>e, <1>f, <2>2, OthersFlags
<1>3. ASSUME ~consoleDoubtful' PROVE ConsoleLone'
  <2>1. ConsoleLone
    BY <1>f DEF ConsoleInv, O!Starts
  <2>2. ~astray /\ Agrees /\ \A y \in Handlers : consolePc[y] = "idle"
    BY <2>1, <1>3, <1>f, PageStartsAlone
  <2>3. Agrees'
    BY <2>2, <1>f DEF Agrees, ListAgrees, DetailAgrees, AuditAgrees
  <2>4. PageOnItsWay(x)'
    BY <2>3, <1>e, <1>f DEF PageOnItsWay
  <2> QED BY <2>2, <2>4, <1>e, <1>f, PageLoneStays
<1> QED BY <1>1, <1>2, <1>3 DEF ConsoleInv

\* The same in a panel.
LEMMA ChangeInPanelKeeps ==
  ASSUME ConsoleInv, NEW x \in Handlers, O!ChangeInPanel(x)
  PROVE  ConsoleInv'
<1>0. ConsoleTypes /\ FlagInv
  BY DEF ConsoleInv
<1>f. /\ O!Starts(x) /\ consolePc[x] = "idle" /\ ~busy /\ busy' = TRUE /\ kind' = [kind EXCEPT ![x] = "panel"]
      /\ detail.org # None /\ O!Goes(x, "sign") /\ about' = [about EXCEPT ![x] = detail.org] /\ consoleDoubtful' \in BOOLEAN
      /\ UNCHANGED <<consoleOrgs, consoleVersion, logo, consoleListed, selected, detail, section, audited, uploading, consoleLoading,
                     next, full, consoleRow, astray>>
  BY DEF O!ChangeInPanel, O!StartsChange, O!Signs, O!Starts, O!serverVars, O!shownVars
<1>e. /\ consolePc' \in [Handlers -> PageSteps] /\ consolePc'[x] = "sign" /\ about' \in [Handlers -> Workspaces \cup {None}]
      /\ about'[x] = detail.org /\ kind' \in [Handlers -> {"read", "page", "panel"}] /\ kind'[x] = "panel"
      /\ \A y \in Handlers \ {x} : consolePc'[y] = consolePc[y] /\ about'[y] = about[y] /\ kind'[y] = kind[y]
  <2>1. detail.org \in Workspaces \cup {None}
    BY <1>0, PageTypesAre
  <2> QED BY <1>0, <1>f, <2>1, PageGoesEffect, PageTypesAre DEF PageSteps
<1>1. ConsoleTypes'
  <2>1. PageHeld(x)'
    BY <1>0, <1>e, <1>f DEF PageHeld
  <2>2. \A y \in Handlers : PageHeld(y)'
    BY <1>0, <1>e, <1>f, <2>1, PageOthersHold
  <2> QED BY <1>0, <1>e, <1>f, <2>2, PageTypesAre, PageRestTyped DEF ConsoleTypes
<1>2. FlagInv'
  <2>1. Fresh => Fresh'
    BY <1>e, <1>f DEF Fresh, O!Closed
  <2>2. consoleLoading' => \E y \in Handlers : Loads(y)'
    BY <1>0, <1>e, <1>f, <2>1, OthersLoad DEF Loads
  <2> QED BY <1>0, <1>e, <1>f, <2>2, OthersFlags
<1>3. ASSUME ~consoleDoubtful' PROVE ConsoleLone'
  <2>1. ConsoleLone
    BY <1>f DEF ConsoleInv, O!Starts
  <2>2. ~astray /\ Agrees /\ \A y \in Handlers : consolePc[y] = "idle"
    BY <2>1, <1>3, <1>f, PageStartsAlone
  <2>3. Agrees'
    BY <2>2, <1>f DEF Agrees, ListAgrees, DetailAgrees, AuditAgrees
  <2>4. PageOnItsWay(x)'
    BY <2>3, <1>e, <1>f DEF PageOnItsWay
  <2> QED BY <2>2, <2>4, <1>e, <1>f, PageLoneStays
<1> QED BY <1>1, <1>2, <1>3 DEF ConsoleInv

\* What was signed is done.
LEMMA ApplyKeeps ==
  ASSUME ConsoleInv, NEW x \in Handlers, O!Apply(x)
  PROVE  ConsoleInv'
<1>0. ConsoleTypes /\ FlagInv
  BY DEF ConsoleInv
<1>f. /\ consolePc[x] = "sign" /\ O!Goes(x, "applied") /\ detail.org # None /\ consoleVersion[detail.org] < MaxVersion
      /\ consoleVersion' = [consoleVersion EXCEPT ![detail.org] = @ + 1]
      /\ astray' = (astray \/ detail.org # about[x])
      /\ UNCHANGED <<consoleOrgs, logo, consoleListed, selected, detail, section, audited, busy, uploading, consoleLoading,
                     kind, about, next, full, consoleRow, consoleDoubtful>>
  BY DEF O!Apply, O!shownVars, O!flagVars
<1>v. consoleVersion' \in [Workspaces -> O!Versions]
  <2>1. consoleVersion \in [Workspaces -> O!Versions] /\ detail.org \in Workspaces
    BY <1>0, <1>f, PageTypesAre
  <2>2. consoleVersion[detail.org] + 1 \in O!Versions
    BY <2>1, <1>f, DeveloperAssumption, ConsoleAssumption DEF O!Versions
  <2> QED BY <2>1, <2>2, <1>f
<1>e. /\ consolePc' \in [Handlers -> PageSteps] /\ consolePc'[x] = "applied" /\ consoleVersion' \in [Workspaces -> O!Versions] /\ astray' \in BOOLEAN
      /\ \A y \in Handlers \ {x} : consolePc'[y] = consolePc[y]
  BY <1>0, <1>f, <1>v, PageGoesEffect, PageTypesAre DEF PageSteps
<1>1. ConsoleTypes'
  <2>1. PageHeld(x)'
    BY <1>0, <1>e, <1>f DEF PageHeld
  <2>2. \A y \in Handlers : PageHeld(y)'
    BY <1>0, <1>e, <1>f, <2>1, PageOthersHold
  <2> QED BY <1>0, <1>e, <1>f, <2>2, PageTypesAre, PageRestTyped DEF ConsoleTypes
<1>2. FlagInv'
  <2>1. ~Fresh
    BY <1>f DEF Fresh
  <2>2. consoleLoading' => \E y \in Handlers : Loads(y)'
    BY <1>0, <1>e, <1>f, <2>1, OthersLoad DEF Loads
  <2> QED BY <1>0, <1>e, <1>f, <2>2, OthersFlags DEF FlagInv
<1>3. ASSUME ~consoleDoubtful' PROVE ConsoleLone'
  <2>1. ConsoleLone
    BY <1>3, <1>f DEF ConsoleInv
  <2>2. ~astray /\ PageOnItsWay(x) /\ \A y \in Handlers \ {x} : consolePc[y] = "idle"
    BY <2>1, <1>f, PageLoneNow
  <2>3. ~astray'
    BY <2>2, <1>f DEF PageOnItsWay
  <2>4. PageOnItsWay(x)'
    BY <2>2, <1>e, <1>f DEF PageOnItsWay, Agrees, ListAgrees
  <2> QED BY <2>2, <2>3, <2>4, <1>e, <1>f, PageLoneStays
<1> QED BY <1>1, <1>2, <1>3 DEF ConsoleInv

\* The organization is asked for again.
LEMMA AppliedKeeps ==
  ASSUME ConsoleInv, NEW x \in Handlers, O!Applied(x)
  PROVE  ConsoleInv'
<1>0. ConsoleTypes /\ FlagInv
  BY DEF ConsoleInv
<1> DEFINE audit == section = "audit" \/ (kind[x] = "panel" /\ audited = detail.org)
<1>f. /\ consolePc[x] = "applied" /\ detail.org # None /\ O!Load(x, detail.org, audit) /\ (section = "audit" => audit)
      /\ audit \in BOOLEAN
      /\ UNCHANGED <<consoleOrgs, consoleVersion, logo, consoleListed, detail, section, audited, busy, uploading, consoleLoading,
                     kind, next, consoleDoubtful, astray>>
  BY DEF O!Applied, O!serverVars, O!flagVars, O!historyVars
<1> HIDE DEF audit
<1>o. detail.org \in Workspaces
  BY <1>0, <1>f, PageTypesAre
<1>e. /\ consolePc' \in [Handlers -> PageSteps] /\ consolePc'[x] = "ask" /\ selected' = detail.org
      /\ about' \in [Handlers -> Workspaces \cup {None}] /\ about'[x] = detail.org /\ detail.org \in Workspaces
      /\ full' \in [Handlers -> BOOLEAN] /\ full'[x] = audit /\ consoleRow' \in [Handlers -> O!Rows]
      /\ \A y \in Handlers \ {x} :
           consolePc'[y] = consolePc[y] /\ about'[y] = about[y] /\ full'[y] = full[y] /\ consoleRow'[y] = consoleRow[y]
  BY <1>0, <1>o, <1>f, LoadEffect
<1>1. ConsoleTypes'
  <2>1. PageHeld(x)'
    BY <1>0, <1>e, <1>f DEF PageHeld
  <2>2. \A y \in Handlers : PageHeld(y)'
    BY <1>0, <1>e, <1>f, <2>1, PageOthersHold
  <2> QED BY <1>0, <1>e, <1>f, <2>2, PageTypesAre, PageRestTyped DEF ConsoleTypes
<1>2. FlagInv'
  <2>1. ~Fresh
    BY <1>f DEF Fresh
  <2>2. consoleLoading' => \E y \in Handlers : Loads(y)'
    BY <1>0, <1>e, <1>f, <2>1, OthersLoad DEF Loads
  <2> QED BY <1>0, <1>e, <1>f, <2>2, OthersFlags DEF FlagInv
<1>3. ASSUME ~consoleDoubtful' PROVE ConsoleLone'
  <2>1. ConsoleLone
    BY <1>3, <1>f DEF ConsoleInv
  <2>2. ~astray /\ PageOnItsWay(x) /\ \A y \in Handlers \ {x} : consolePc[y] = "idle"
    BY <2>1, <1>f, PageLoneNow
  <2>3. ListAgrees'
    BY <2>2, <1>f DEF PageOnItsWay, ListAgrees
  <2>4. section = "audit" => full'[x]
    BY <1>e, <1>f
  <2>5. PageOnItsWay(x)'
    BY <2>3, <2>4, <1>e, <1>f DEF PageOnItsWay
  <2> QED BY <2>2, <2>5, <1>e, <1>f, PageLoneStays
<1> QED BY <1>1, <1>2, <1>3 DEF ConsoleInv

\* Signing for an organization to come.
LEMMA CreateOrganizationKeeps ==
  ASSUME ConsoleInv, NEW x \in Handlers, O!CreateOrganization(x)
  PROVE  ConsoleInv'
<1>0. ConsoleTypes /\ FlagInv
  BY DEF ConsoleInv
<1>f. /\ O!Starts(x) /\ consolePc[x] = "idle" /\ ~busy /\ busy' = TRUE /\ kind' = [kind EXCEPT ![x] = "page"]
      /\ O!Goes(x, "found") /\ consoleDoubtful' \in BOOLEAN
      /\ UNCHANGED <<consoleOrgs, consoleVersion, logo, consoleListed, selected, detail, section, audited, uploading, consoleLoading,
                     about, next, full, consoleRow, astray>>
  BY DEF O!CreateOrganization, O!StartsChange, O!Starts, O!serverVars, O!shownVars
<1>e. /\ consolePc' \in [Handlers -> PageSteps] /\ consolePc'[x] = "found" /\ kind' \in [Handlers -> {"read", "page", "panel"}]
      /\ kind'[x] = "page"
      /\ \A y \in Handlers \ {x} : consolePc'[y] = consolePc[y] /\ kind'[y] = kind[y]
  BY <1>0, <1>f, PageGoesEffect, PageTypesAre DEF PageSteps
<1>1. ConsoleTypes'
  <2>1. PageHeld(x)'
    BY <1>0, <1>e, <1>f DEF PageHeld
  <2>2. \A y \in Handlers : PageHeld(y)'
    BY <1>0, <1>e, <1>f, <2>1, PageOthersHold
  <2> QED BY <1>0, <1>e, <1>f, <2>2, PageTypesAre, PageRestTyped DEF ConsoleTypes
<1>2. FlagInv'
  <2>1. Fresh => Fresh'
    BY <1>e, <1>f DEF Fresh
  <2>2. consoleLoading' => \E y \in Handlers : Loads(y)'
    BY <1>0, <1>e, <1>f, <2>1, OthersLoad DEF Loads
  <2> QED BY <1>0, <1>e, <1>f, <2>2, OthersFlags
<1>3. ASSUME ~consoleDoubtful' PROVE ConsoleLone'
  <2>1. ConsoleLone
    BY <1>f DEF ConsoleInv, O!Starts
  <2>2. ~astray /\ \A y \in Handlers : consolePc[y] = "idle"
    BY <2>1, <1>3, <1>f, PageStartsAlone
  <2>4. PageOnItsWay(x)'
    BY <1>e, <1>f DEF PageOnItsWay
  <2> QED BY <2>2, <2>4, <1>e, <1>f, PageLoneStays
<1> QED BY <1>1, <1>2, <1>3 DEF ConsoleInv

\* The organization is made.
LEMMA FoundKeeps ==
  ASSUME ConsoleInv, NEW x \in Handlers, O!Found(x)
  PROVE  ConsoleInv'
<1>0. ConsoleTypes /\ FlagInv
  BY DEF ConsoleInv
<1>o. PICK o \in Workspaces \ consoleOrgs : consoleOrgs' = consoleOrgs \cup {o} /\ next' = [next EXCEPT ![x] = o]
  BY DEF O!Found
<1>f. /\ consolePc[x] = "found" /\ O!Goes(x, "founded")
      /\ UNCHANGED <<consoleVersion, logo, consoleListed, selected, detail, section, audited, busy, uploading, consoleLoading,
                     kind, about, full, consoleRow, consoleDoubtful, astray>>
  BY DEF O!Found, O!shownVars, O!flagVars, O!historyVars
<1>e. /\ consolePc' \in [Handlers -> PageSteps] /\ consolePc'[x] = "founded" /\ consoleOrgs' \subseteq Workspaces
      /\ next' \in [Handlers -> Workspaces \cup {None}] /\ next'[x] # None
      /\ \A y \in Handlers \ {x} : consolePc'[y] = consolePc[y] /\ next'[y] = next[y]
  BY <1>0, <1>f, <1>o, PageGoesEffect, PageTypesAre, DeveloperAssumption, ConsoleAssumption DEF PageSteps
<1>1. ConsoleTypes'
  <2>1. PageHeld(x)'
    BY <1>0, <1>e, <1>f DEF PageHeld
  <2>2. \A y \in Handlers : PageHeld(y)'
    BY <1>0, <1>e, <1>f, <2>1, PageOthersHold
  <2> QED BY <1>0, <1>e, <1>f, <2>2, PageTypesAre, PageRestTyped DEF ConsoleTypes
<1>2. FlagInv'
  <2>1. Fresh => Fresh'
    BY <1>e, <1>f DEF Fresh
  <2>2. consoleLoading' => \E y \in Handlers : Loads(y)'
    BY <1>0, <1>e, <1>f, <2>1, OthersLoad DEF Loads
  <2> QED BY <1>0, <1>e, <1>f, <2>2, OthersFlags DEF FlagInv
<1>3. ASSUME ~consoleDoubtful' PROVE ConsoleLone'
  <2>1. ConsoleLone
    BY <1>3, <1>f DEF ConsoleInv
  <2>2. ~astray /\ \A y \in Handlers \ {x} : consolePc[y] = "idle"
    BY <2>1, <1>f, PageLoneNow
  <2>4. PageOnItsWay(x)'
    BY <1>e, <1>f DEF PageOnItsWay
  <2> QED BY <2>2, <2>4, <1>e, <1>f, PageLoneStays
<1> QED BY <1>1, <1>2, <1>3 DEF ConsoleInv

\* And everything is loaded again.
LEMMA FoundedKeeps ==
  ASSUME ConsoleInv, NEW x \in Handlers, O!Founded(x)
  PROVE  ConsoleInv'
<1>0. ConsoleTypes /\ FlagInv
  BY DEF ConsoleInv
<1>f. /\ consolePc[x] = "founded" /\ O!Goes(x, "bootstrap") /\ consoleLoading' = TRUE
      /\ UNCHANGED <<consoleOrgs, consoleVersion, logo, consoleListed, selected, detail, section, audited, busy, uploading,
                     kind, about, next, full, consoleRow, consoleDoubtful, astray>>
  BY DEF O!Founded, O!serverVars, O!shownVars, O!historyVars
<1>e. /\ consolePc' \in [Handlers -> PageSteps] /\ consolePc'[x] = "bootstrap" /\ next'[x] # None
      /\ \A y \in Handlers \ {x} : consolePc'[y] = consolePc[y]
  BY <1>0, <1>f, PageGoesEffect, PageTypesAre DEF PageSteps, ConsoleTypes, PageHeld
<1>1. ConsoleTypes'
  <2>1. PageHeld(x)'
    BY <1>0, <1>e, <1>f DEF PageHeld
  <2>2. \A y \in Handlers : PageHeld(y)'
    BY <1>0, <1>e, <1>f, <2>1, PageOthersHold
  <2> QED BY <1>0, <1>e, <1>f, <2>2, PageTypesAre, PageRestTyped DEF ConsoleTypes
<1>2. FlagInv'
  <2>2. Loads(x)'
    BY <1>e, <1>f DEF Loads
  <2> QED BY <1>0, <1>e, <1>f, <2>2, OthersFlags DEF FlagInv
<1>3. ASSUME ~consoleDoubtful' PROVE ConsoleLone'
  <2>1. ConsoleLone
    BY <1>3, <1>f DEF ConsoleInv
  <2>2. ~astray /\ \A y \in Handlers \ {x} : consolePc[y] = "idle"
    BY <2>1, <1>f, PageLoneNow
  <2>4. PageOnItsWay(x)'
    BY <1>e, <1>f DEF PageOnItsWay
  <2> QED BY <2>2, <2>4, <1>e, <1>f, PageLoneStays
<1> QED BY <1>1, <1>2, <1>3 DEF ConsoleInv

\* After the list a creation loads what it made; what has no more to do ends.
LEMMA OnwardsEffect ==
  ASSUME ConsoleTypes, NEW x \in Handlers, O!Onwards(x)
  PROVE  /\ consoleLoading' = FALSE /\ consolePc' \in [Handlers -> PageSteps] /\ kind' \in [Handlers -> {"read", "page", "panel"}]
         /\ busy' \in BOOLEAN /\ about' \in [Handlers -> Workspaces \cup {None}] /\ next' \in [Handlers -> Workspaces \cup {None}]
         /\ full' \in [Handlers -> BOOLEAN] /\ consoleRow' \in [Handlers -> O!Rows]
         /\ (kind'[x] # "read" => consolePc'[x] # "idle") /\ (busy' => kind'[x] # "read" \/ (busy /\ kind[x] = "read"))
         /\ section' \in {"overview", "audit"} /\ selected' \in Workspaces \cup {None}
         /\ \/ next[x] # None /\ consolePc'[x] = "ask" /\ about'[x] = next[x] /\ selected' = next[x] /\ selected' \in Workspaces
               /\ section' = "overview" /\ audited' = None
            \/ next[x] = None /\ consolePc'[x] = "idle" /\ section' = section /\ selected' = selected
         /\ \A y \in Handlers \ {x} :
              /\ consolePc'[y] = consolePc[y] /\ kind'[y] = kind[y] /\ about'[y] = about[y] /\ next'[y] = next[y]
              /\ full'[y] = full[y] /\ consoleRow'[y] = consoleRow[y]
<1>1. CASE next[x] # None
  <2>1. next[x] \in Workspaces
    BY <1>1, PageTypesAre
  <2>2. /\ O!Load(x, next[x], FALSE) /\ next' = [next EXCEPT ![x] = None] /\ kind' = kind /\ busy' = busy
        /\ consoleLoading' = FALSE /\ section' = "overview" /\ audited' = None
    BY <1>1 DEF O!Onwards
  <2>3. /\ consolePc' \in [Handlers -> PageSteps] /\ consolePc'[x] = "ask" /\ selected' = next[x]
        /\ about' \in [Handlers -> Workspaces \cup {None}] /\ about'[x] = next[x]
        /\ full' \in [Handlers -> BOOLEAN] /\ consoleRow' \in [Handlers -> O!Rows]
        /\ \A y \in Handlers \ {x} :
             consolePc'[y] = consolePc[y] /\ about'[y] = about[y] /\ full'[y] = full[y] /\ consoleRow'[y] = consoleRow[y]
    BY <2>1, <2>2, LoadEffect
  <2> QED BY <1>1, <2>1, <2>2, <2>3, PageTypesAre
<1>2. CASE next[x] = None
  <2>1. O!Ends(x) /\ section' = section /\ selected' = selected /\ consoleLoading' = FALSE
    BY <1>2 DEF O!Onwards
  <2>2. /\ consolePc' \in [Handlers -> PageSteps] /\ consolePc'[x] = "idle" /\ kind' \in [Handlers -> {"read", "page", "panel"}]
        /\ kind'[x] = "read" /\ busy' \in BOOLEAN /\ (busy' => busy /\ kind[x] = "read")
        /\ about' \in [Handlers -> Workspaces \cup {None}] /\ next' \in [Handlers -> Workspaces \cup {None}]
        /\ full' \in [Handlers -> BOOLEAN] /\ consoleRow' \in [Handlers -> O!Rows]
        /\ \A y \in Handlers \ {x} :
             /\ consolePc'[y] = consolePc[y] /\ kind'[y] = kind[y] /\ about'[y] = about[y] /\ next'[y] = next[y]
             /\ full'[y] = full[y] /\ consoleRow'[y] = consoleRow[y]
    BY <2>1, PageEndsEffect
  <2> QED BY <1>2, <2>1, <2>2, PageTypesAre
<1> QED BY <1>1, <1>2

\* The audit of the organization that is shown.
LEMMA SelectAuditKeeps ==
  ASSUME ConsoleInv, NEW x \in Handlers, O!SelectAudit(x)
  PROVE  ConsoleInv'
<1>0. ConsoleTypes /\ FlagInv
  BY DEF ConsoleInv
<1>f. /\ O!Starts(x) /\ consolePc[x] = "idle" /\ detail.org # None /\ section' = "audit" /\ consoleDoubtful' \in BOOLEAN
      /\ UNCHANGED <<consoleOrgs, consoleVersion, logo, consoleListed, detail, audited, busy, uploading, consoleLoading, kind, next, astray>>
      /\ (audited # detail.org => O!Load(x, detail.org, TRUE))
      /\ (audited = detail.org => UNCHANGED <<selected, consolePc, about, full, consoleRow>>)
  BY DEF O!SelectAudit, O!Starts, O!serverVars, O!flagVars
<1>o. detail.org \in Workspaces
  BY <1>0, <1>f, PageTypesAre
<1>e. audited # detail.org =>
        /\ consolePc' \in [Handlers -> PageSteps] /\ consolePc'[x] = "ask" /\ selected' = detail.org /\ selected' \in Workspaces
        /\ about' \in [Handlers -> Workspaces \cup {None}] /\ about'[x] = detail.org
        /\ full' \in [Handlers -> BOOLEAN] /\ full'[x] = TRUE /\ consoleRow' \in [Handlers -> O!Rows]
        /\ \A y \in Handlers \ {x} :
             consolePc'[y] = consolePc[y] /\ about'[y] = about[y] /\ full'[y] = full[y] /\ consoleRow'[y] = consoleRow[y]
  BY <1>0, <1>o, <1>f, LoadEffect
<1>g. audited = detail.org => UNCHANGED <<selected, consolePc, about, full, consoleRow>>
  BY <1>f
<1>1. ConsoleTypes'
  <2>1. CASE audited # detail.org
    <3>1. PageHeld(x)'
      BY <1>0, <1>e, <1>f, <2>1 DEF PageHeld
    <3>2. \A y \in Handlers : PageHeld(y)'
      BY <1>0, <1>e, <1>f, <2>1, <3>1, PageOthersHold
    <3> QED BY <1>0, <1>e, <1>f, <2>1, <3>2, PageTypesAre, PageRestTyped DEF ConsoleTypes
  <2>2. CASE audited = detail.org
    <3>1. \A y \in Handlers : PageHeld(y)'
      BY <1>0, <1>f, <1>g, <2>2 DEF PageHeld, ConsoleTypes
    <3> QED BY <1>0, <1>f, <1>g, <2>2, <3>1, PageTypesAre, PageRestTyped DEF ConsoleTypes
  <2> QED BY <2>1, <2>2
<1>2. FlagInv'
  <2>0. ~Fresh /\ ~Loads(x)
    BY <1>f DEF Fresh, Loads, O!Closed
  <2>1. CASE audited # detail.org
    <3>2. consoleLoading' => \E y \in Handlers : Loads(y)'
      BY <1>0, <1>e, <1>f, <2>0, <2>1, OthersLoad
    <3> QED BY <1>0, <1>e, <1>f, <2>1, <3>2, OthersFlags DEF FlagInv
  <2>2. CASE audited = detail.org
    <3>2. consoleLoading' => \E y \in Handlers : Loads(y)'
      BY <1>0, <1>f, <1>g, <2>0, <2>2, OthersLoad
    <3> QED BY <1>0, <1>f, <1>g, <2>2, <3>2, OthersFlags DEF FlagInv
  <2> QED BY <2>1, <2>2
<1>3. ASSUME ~consoleDoubtful' PROVE ConsoleLone'
  <2>1. ConsoleLone
    BY <1>f DEF ConsoleInv, O!Starts
  <2>2. ~astray /\ Agrees /\ \A y \in Handlers : consolePc[y] = "idle"
    BY <2>1, <1>3, <1>f, PageStartsAlone
  <2>3. CASE audited # detail.org
    <3>3. PageOnItsWay(x)'
      BY <2>2, <2>3, <1>e, <1>f DEF PageOnItsWay, Agrees, ListAgrees
    <3> QED BY <2>2, <2>3, <3>3, <1>e, <1>f, PageLoneStays
  <2>4. CASE audited = detail.org
    <3>1. Agrees'
      BY <2>2, <2>4, <1>f, <1>g DEF Agrees, ListAgrees, DetailAgrees, AuditAgrees
    <3> QED BY <2>2, <2>4, <3>1, <1>f, <1>g, PageLoneEnds
  <2> QED BY <2>3, <2>4
<1> QED BY <1>1, <1>2, <1>3 DEF ConsoleInv

\* The audit is left.
LEMMA LeaveAuditKeeps ==
  ASSUME ConsoleInv, O!LeaveAudit
  PROVE  ConsoleInv'
<1>0. ConsoleTypes /\ FlagInv
  BY DEF ConsoleInv
<1>f. /\ ~consoleDoubtful /\ section' = "overview"
      /\ UNCHANGED <<consoleOrgs, consoleVersion, logo, consoleListed, selected, detail, audited, busy, uploading, consoleLoading,
                     consolePc, kind, about, next, full, consoleRow, consoleDoubtful, astray>>
  BY DEF O!LeaveAudit, O!serverVars, O!flagVars, O!handlerVars, O!historyVars
<1>1. ConsoleTypes'
  <2>1. \A y \in Handlers : PageHeld(y)'
    BY <1>0, <1>f DEF ConsoleTypes, PageHeld
  <2> QED BY <1>0, <1>f, <2>1, PageTypesAre, PageRestTyped DEF ConsoleTypes
<1>2. FlagInv'
  BY <1>0, <1>f DEF FlagInv, Loads, Fresh
<1>3. ConsoleLone'
  <2>1. ConsoleLone
    BY <1>f DEF ConsoleInv
  <2>2. O!Answered(consoleOrgs)' = O!Answered(consoleOrgs)
    BY <1>f DEF O!Answered
  <2>3. Agrees => Agrees'
    BY <1>f DEF Agrees, ListAgrees, DetailAgrees, AuditAgrees
  <2>4. ListAgrees => ListAgrees'
    BY <1>f DEF ListAgrees
  <2>5. \A x \in Handlers : PageOnItsWay(x) => PageOnItsWay(x)'
    BY <1>f, <2>2, <2>3, <2>4 DEF PageOnItsWay, AuditAgrees
  <2> QED BY <1>f, <2>1, <2>3, <2>5 DEF ConsoleLone, O!Busy
<1> QED BY <1>1, <1>2, <1>3 DEF ConsoleInv

\* The organization is shown.
LEMMA ShowOrganizationKeeps ==
  ASSUME ConsoleInv, NEW x \in Handlers, O!ShowOrganization(x)
  PROVE  ConsoleInv'
<1>0. ConsoleTypes /\ FlagInv
  BY DEF ConsoleInv
<1>f. /\ consolePc[x] = "show" /\ detail' = [org |-> about[x], row |-> consoleRow[x][about[x]]]
      /\ UNCHANGED <<consoleOrgs, consoleVersion, logo, consoleListed, uploading, consoleDoubtful, astray>>
      /\ (next[x] # None => O!Onwards(x))
      /\ (next[x] = None => /\ audited' = (IF full[x] THEN about[x] ELSE None)
                            /\ O!Ends(x) /\ UNCHANGED <<selected, section, consoleLoading>>)
  BY DEF O!ShowOrganization, O!serverVars, O!historyVars
<1>a. about[x] \in Workspaces /\ consoleRow[x][about[x]] \in Pairs /\ about[x] # None /\ consoleRow[x][about[x]] # None
  BY <1>0, <1>f, DeveloperAssumption, ConsoleAssumption DEF ConsoleTypes, PageHeld, Pairs
<1>e. /\ detail' \in [org : Workspaces \cup {None}, row : Pairs \cup {None}] /\ detail'.row # None
      /\ consolePc' \in [Handlers -> PageSteps] /\ kind' \in [Handlers -> {"read", "page", "panel"}]
      /\ busy' \in BOOLEAN /\ about' \in [Handlers -> Workspaces \cup {None}] /\ next' \in [Handlers -> Workspaces \cup {None}]
      /\ full' \in [Handlers -> BOOLEAN] /\ consoleRow' \in [Handlers -> O!Rows] /\ consoleLoading' \in BOOLEAN
      /\ (kind'[x] # "read" => consolePc'[x] # "idle") /\ (busy' => kind'[x] # "read" \/ (busy /\ kind[x] = "read"))
      /\ section' \in {"overview", "audit"} /\ selected' \in Workspaces \cup {None} /\ audited' \in Workspaces \cup {None}
      /\ \/ next[x] # None /\ consolePc'[x] = "ask" /\ about'[x] = next[x] /\ selected' = next[x] /\ selected' \in Workspaces
            /\ section' = "overview" /\ consoleLoading' = FALSE
         \/ next[x] = None /\ consolePc'[x] = "idle" /\ section' = section /\ selected' = selected /\ consoleLoading' = consoleLoading
            /\ audited' = (IF full[x] THEN about[x] ELSE None)
      /\ \A y \in Handlers \ {x} :
           /\ consolePc'[y] = consolePc[y] /\ kind'[y] = kind[y] /\ about'[y] = about[y] /\ next'[y] = next[y]
           /\ full'[y] = full[y] /\ consoleRow'[y] = consoleRow[y]
  <2>0. detail' \in [org : Workspaces \cup {None}, row : Pairs \cup {None}] /\ detail'.row # None
    BY <1>a, <1>f
  <2>1. CASE next[x] # None
    <3>1. O!Onwards(x)
      BY <1>f, <2>1
    <3> HIDE <1>f
    <3> QED BY <1>0, <2>0, <2>1, <3>1, OnwardsEffect
  <2>2. CASE next[x] = None
    <3>1. O!Ends(x) /\ audited' = (IF full[x] THEN about[x] ELSE None) /\ UNCHANGED <<selected, section, consoleLoading>>
      BY <1>f, <2>2
    <3>2. audited' \in Workspaces \cup {None}
      BY <3>1, <1>a
    <3> QED BY <1>0, <1>a, <2>0, <2>2, <3>1, <3>2, PageEndsEffect, PageTypesAre
  <2> QED BY <2>1, <2>2
<1>1. ConsoleTypes'
  <2>1. PageHeld(x)'
    BY <1>0, <1>e, <1>f DEF PageHeld
  <2>2. \A y \in Handlers : PageHeld(y)'
    BY <1>0, <1>e, <1>f, <2>1, PageOthersHold
  <2> QED BY <1>0, <1>e, <1>f, <2>2, PageTypesAre, PageRestTyped DEF ConsoleTypes
<1>2. FlagInv'
  <2>2. ~Fresh
    BY <1>f DEF Fresh
  <2>3. CASE next[x] # None
    BY <1>0, <1>e, <1>f, <2>3, OthersFlags DEF FlagInv
  <2>4. CASE next[x] = None
    <3>1. ~Loads(x)
      BY <2>4, <1>f DEF Loads
    <3>2. consoleLoading' => \E y \in Handlers : Loads(y)'
      BY <1>0, <1>e, <1>f, <2>2, <2>4, <3>1, OthersLoad
    <3> QED BY <1>0, <1>e, <1>f, <2>4, <3>2, OthersFlags DEF FlagInv
  <2> QED BY <2>3, <2>4
<1>3. ASSUME ~consoleDoubtful' PROVE ConsoleLone'
  <2>1. ConsoleLone
    BY <1>3, <1>f DEF ConsoleInv
  <2>2. ~astray /\ PageOnItsWay(x) /\ \A y \in Handlers \ {x} : consolePc[y] = "idle"
    BY <2>1, <1>f, PageLoneNow
  <2>3. ListAgrees'
    BY <2>2, <1>f DEF PageOnItsWay, ListAgrees
  <2>4. CASE next[x] # None
    <3>1. PageOnItsWay(x)'
      BY <2>3, <2>4, <1>e DEF PageOnItsWay
    <3> QED BY <2>2, <2>4, <3>1, <1>e, <1>f, PageLoneStays
  <2>5. CASE next[x] = None
    <3>1. DetailAgrees'
      BY <2>2, <2>5, <1>e, <1>f, <1>a DEF PageOnItsWay, DetailAgrees
    <3>2. AuditAgrees'
      BY <2>2, <2>5, <1>e, <1>f DEF PageOnItsWay, AuditAgrees
    <3> QED BY <2>2, <2>3, <2>5, <3>1, <3>2, <1>e, <1>f, PageLoneEnds DEF Agrees
  <2> QED BY <2>4, <2>5
<1> QED BY <1>1, <1>2, <1>3 DEF ConsoleInv

\* The list is shown, and what is selected asked for.
LEMMA PageShowListKeeps ==
  ASSUME ConsoleInv, NEW x \in Handlers, O!ShowList(x)
  PROVE  ConsoleInv'
<1>0. ConsoleTypes /\ FlagInv
  BY DEF ConsoleInv
<1>f. /\ consolePc[x] = "list"
      /\ consoleListed' = [o \in Workspaces |-> IF consoleRow[x][o] = None THEN None ELSE consoleRow[x][o][2]]
      /\ UNCHANGED <<consoleOrgs, consoleVersion, logo, uploading, consoleDoubtful, astray>>
  BY DEF O!ShowList, O!serverVars, O!historyVars
<1>l. consoleListed' \in [Workspaces -> O!Versions \cup {None}]
  <2>1. \A o \in Workspaces : consoleRow[x][o] \in Pairs \cup {None}
    BY <1>0, PageTypesAre DEF O!Rows, Pairs
  <2>2. \A o \in Workspaces : consoleRow[x][o] # None => consoleRow[x][o][2] \in O!Versions
    BY <2>1 DEF Pairs
  <2> QED BY <1>f, <2>2
<1>d. detail' \in [org : Workspaces \cup {None}, row : Pairs \cup {None}] /\ (detail'.org # None => detail'.row # None)
  <2>1. detail' = detail \/ detail' = O!Closed
    BY DEF O!ShowList
  <2> QED BY <1>0, <2>1, ClosedTyped, PageTypesAre DEF ConsoleTypes
<1>e. /\ consolePc' \in [Handlers -> PageSteps] /\ kind' \in [Handlers -> {"read", "page", "panel"}]
      /\ busy' \in BOOLEAN /\ about' \in [Handlers -> Workspaces \cup {None}] /\ next' \in [Handlers -> Workspaces \cup {None}]
      /\ full' \in [Handlers -> BOOLEAN] /\ consoleRow' \in [Handlers -> O!Rows] /\ consoleLoading' \in BOOLEAN
      /\ (kind'[x] # "read" => consolePc'[x] # "idle") /\ (busy' => kind'[x] # "read" \/ (busy /\ kind[x] = "read"))
      /\ section' \in {"overview", "audit"} /\ selected' \in Workspaces \cup {None} /\ audited' \in Workspaces \cup {None}
      /\ consolePc'[x] \in {"ask", "idle"} /\ (consolePc'[x] = "ask" => about'[x] \in Workspaces /\ about'[x] = selected')
      /\ (selected # None /\ consoleRow[x][selected] # None => consolePc'[x] = "ask" /\ next' = next /\ consoleLoading' = consoleLoading)
      /\ (~(selected # None /\ consoleRow[x][selected] # None) => consoleLoading' = FALSE /\ detail' = O!Closed)
      /\ (consolePc'[x] = "ask" /\ ~(selected # None /\ consoleRow[x][selected] # None) => section' = "overview")
      /\ (consolePc'[x] = "idle" => next[x] = None /\ (selected' = None \/ selected' = selected))
      /\ \A y \in Handlers \ {x} :
           /\ consolePc'[y] = consolePc[y] /\ kind'[y] = kind[y] /\ about'[y] = about[y] /\ next'[y] = next[y]
           /\ full'[y] = full[y] /\ consoleRow'[y] = consoleRow[y]
  <2>1. CASE selected # None /\ consoleRow[x][selected] # None
    <3>1. O!Load(x, selected, FALSE) /\ UNCHANGED <<detail, section, audited, busy, consoleLoading, kind, next>>
      BY <2>1 DEF O!ShowList
    <3>2. selected \in Workspaces
      BY <2>1, <1>0, PageTypesAre
    <3>3. /\ consolePc' \in [Handlers -> PageSteps] /\ consolePc'[x] = "ask" /\ selected' = selected
          /\ about' \in [Handlers -> Workspaces \cup {None}] /\ about'[x] = selected
          /\ full' \in [Handlers -> BOOLEAN] /\ consoleRow' \in [Handlers -> O!Rows]
          /\ \A y \in Handlers \ {x} :
               consolePc'[y] = consolePc[y] /\ about'[y] = about[y] /\ full'[y] = full[y] /\ consoleRow'[y] = consoleRow[y]
      BY <1>0, <3>1, <3>2, LoadEffect
    <3>4. kind[x] # "read" => consolePc'[x] # "idle"
      BY <3>3
    <3> QED BY <1>0, <2>1, <3>1, <3>2, <3>3, PageTypesAre
  <2>2. CASE ~(selected # None /\ consoleRow[x][selected] # None) /\ next[x] # None
    <3>1. O!Onwards(x) /\ detail' = O!Closed
      BY <2>2 DEF O!ShowList
    <3>2. audited' \in Workspaces \cup {None}
      BY <2>2, <3>1 DEF O!Onwards
    <3>3. /\ consolePc' \in [Handlers -> PageSteps] /\ kind' \in [Handlers -> {"read", "page", "panel"}]
          /\ busy' \in BOOLEAN /\ about' \in [Handlers -> Workspaces \cup {None}] /\ next' \in [Handlers -> Workspaces \cup {None}]
          /\ full' \in [Handlers -> BOOLEAN] /\ consoleRow' \in [Handlers -> O!Rows] /\ consoleLoading' = FALSE
          /\ (kind'[x] # "read" => consolePc'[x] # "idle") /\ (busy' => kind'[x] # "read" \/ (busy /\ kind[x] = "read"))
          /\ \A y \in Handlers \ {x} :
               /\ consolePc'[y] = consolePc[y] /\ kind'[y] = kind[y] /\ about'[y] = about[y] /\ next'[y] = next[y]
               /\ full'[y] = full[y] /\ consoleRow'[y] = consoleRow[y]
      BY <1>0, <3>1, OnwardsEffect
    <3>4. /\ consolePc'[x] = "ask" /\ about'[x] = selected' /\ selected' \in Workspaces
          /\ section' = "overview"
      BY <1>0, <2>2, <3>1, OnwardsEffect
    <3> QED BY <2>2, <3>1, <3>2, <3>3, <3>4
  <2>3. CASE ~(selected # None /\ consoleRow[x][selected] # None) /\ next[x] = None
    <3>1. O!Ends(x) /\ consoleLoading' = FALSE /\ selected' = None /\ UNCHANGED <<section, audited>> /\ detail' = O!Closed
      BY <2>3 DEF O!ShowList
    <3> QED BY <1>0, <2>3, <3>1, PageEndsEffect, PageTypesAre
  <2> QED BY <2>1, <2>2, <2>3
<1>1. ConsoleTypes'
  <2>1. PageHeld(x)'
    BY <1>e DEF PageHeld
  <2>2. \A y \in Handlers : PageHeld(y)'
    BY <1>0, <1>e, <1>f, <2>1, PageOthersHold
  <2> QED BY <1>0, <1>e, <1>f, <1>d, <1>l, <2>2, PageTypesAre, PageRestTyped DEF ConsoleTypes
<1>2. FlagInv'
  <2>1. CASE selected # None /\ consoleRow[x][selected] # None
    <3>1. ~Fresh
      BY <2>1 DEF Fresh
    <3>2. Loads(x) => Loads(x)'
      BY <2>1, <1>e, <3>1 DEF Loads
    <3>3. consoleLoading' => \E y \in Handlers : Loads(y)'
      BY <1>0, <1>e, <2>1, <3>1, <3>2, OthersLoad
    <3> QED BY <1>0, <1>e, <1>f, <3>3, OthersFlags
  <2>2. CASE ~(selected # None /\ consoleRow[x][selected] # None)
    <3>1. consoleLoading' = FALSE
      BY <1>e, <2>2
    <3> QED BY <1>0, <1>e, <1>f, <3>1, OthersFlags
  <2> QED BY <2>1, <2>2
<1>3. ASSUME ~consoleDoubtful' PROVE ConsoleLone'
  <2>1. ConsoleLone
    BY <1>3, <1>f DEF ConsoleInv
  <2>2. ~astray /\ PageOnItsWay(x) /\ \A y \in Handlers \ {x} : consolePc[y] = "idle"
    BY <2>1, <1>f, PageLoneNow
  <2>3. consoleRow[x] = O!Answered(consoleOrgs)
    BY <2>2, <1>f DEF PageOnItsWay
  <2>4. \A o \in Workspaces : consoleRow[x][o] = IF o \in consoleOrgs THEN <<consoleVersion[o], logo[o]>> ELSE None
    BY <1>0, <2>3, AnsweredTyped, PageTypesAre
  <2>5. \A o \in consoleOrgs : <<consoleVersion[o], logo[o]>> # None
    <3> SUFFICES ASSUME NEW o \in consoleOrgs PROVE <<consoleVersion[o], logo[o]>> # None
      OBVIOUS
    <3>1. consoleVersion[o] \in O!Versions /\ logo[o] \in O!Versions
      BY <1>0, PageTypesAre
    <3>2. <<consoleVersion[o], logo[o]>> \in O!Versions \X O!Versions
      BY <3>1
    <3> QED BY <3>2, DeveloperAssumption, ConsoleAssumption
  <2>6. ListAgrees'
    <3> SUFFICES ASSUME NEW o \in Workspaces PROVE consoleListed'[o] = IF o \in consoleOrgs THEN logo[o] ELSE None
      BY <1>f DEF ListAgrees
    <3>1. CASE o \in consoleOrgs
      <4>1. consoleRow[x][o] = <<consoleVersion[o], logo[o]>> /\ consoleRow[x][o] # None
        BY <2>4, <2>5, <3>1
      <4>2. consoleListed'[o] = consoleRow[x][o][2]
        BY <1>f, <4>1
      <4> QED BY <3>1, <4>1, <4>2
    <3>2. CASE o \notin consoleOrgs
      BY <2>4, <3>2, <1>f
    <3> QED BY <3>1, <3>2
  <2>7. next[x] = None => selected = None
    BY <2>2, <1>f DEF PageOnItsWay
  <2>8. CASE consolePc'[x] = "ask"
    <3>1. about'[x] = selected' /\ (next'[x] = None => section' = "overview")
      BY <2>7, <2>8, <1>e
    <3>2. PageOnItsWay(x)'
      BY <2>6, <2>8, <3>1 DEF PageOnItsWay
    <3> QED BY <2>2, <2>8, <3>2, <1>e, <1>f, PageLoneStays
  <2>9. CASE consolePc'[x] = "idle"
    <3>1. selected' = None /\ detail' = O!Closed
      BY <2>7, <2>9, <1>e
    <3>2. Agrees'
      BY <2>6, <3>1, ClosedTyped DEF Agrees, DetailAgrees, AuditAgrees
    <3> QED BY <2>2, <2>9, <3>2, <1>e, <1>f, PageLoneEnds
  <2> QED BY <2>8, <2>9, <1>e
<1> QED BY <1>1, <1>2, <1>3 DEF ConsoleInv

\* A logo is uploaded.
LEMMA UploadLogoKeeps ==
  ASSUME ConsoleInv, NEW x \in Handlers, O!UploadLogo(x)
  PROVE  ConsoleInv'
<1>0. ConsoleTypes /\ FlagInv
  BY DEF ConsoleInv
<1>f. /\ O!Starts(x) /\ consolePc[x] = "idle" /\ detail.org # None /\ ~uploading /\ uploading' = TRUE /\ logo[detail.org] < MaxVersion
      /\ logo' = [logo EXCEPT ![detail.org] = @ + 1] /\ O!Goes(x, "logo")
      /\ about' = [about EXCEPT ![x] = detail.org] /\ consoleDoubtful' \in BOOLEAN
      /\ consoleRow' = [consoleRow EXCEPT ![x] = [O!Nothing EXCEPT ![detail.org] = <<consoleVersion[detail.org], logo[detail.org] + 1>>]]
      /\ UNCHANGED <<consoleOrgs, consoleVersion, consoleListed, selected, detail, section, audited, busy, consoleLoading, kind, next, full, astray>>
  BY DEF O!UploadLogo, O!Starts, O!shownVars
<1>o. detail.org \in Workspaces
  BY <1>0, <1>f, PageTypesAre
<1>g. logo[detail.org] + 1 \in O!Versions /\ consoleVersion[detail.org] \in O!Versions
  <2>1. logo[detail.org] \in O!Versions /\ consoleVersion[detail.org] \in O!Versions
    BY <1>0, <1>o, PageTypesAre
  <2> QED BY <2>1, <1>f, DeveloperAssumption, ConsoleAssumption DEF O!Versions
<1> DEFINE r == [O!Nothing EXCEPT ![detail.org] = <<consoleVersion[detail.org], logo[detail.org] + 1>>]
<1>r. r \in O!Rows /\ r[detail.org] = <<consoleVersion[detail.org], logo[detail.org] + 1>> /\ r[detail.org] \in Pairs
  <2>1. <<consoleVersion[detail.org], logo[detail.org] + 1>> \in O!Versions \X O!Versions
    BY <1>g
  <2> QED BY <1>o, <2>1, NothingTyped DEF O!Rows, Pairs
<1>h. consoleRow' = [consoleRow EXCEPT ![x] = r]
  BY <1>f
<1> HIDE DEF r
<1>e. /\ consolePc' \in [Handlers -> PageSteps] /\ consolePc'[x] = "logo" /\ about' \in [Handlers -> Workspaces \cup {None}]
      /\ about'[x] = detail.org /\ detail.org \in Workspaces /\ logo' \in [Workspaces -> O!Versions]
      /\ logo'[detail.org] = logo[detail.org] + 1 /\ consoleRow' \in [Handlers -> O!Rows] /\ consoleRow'[x] = r
      /\ r[detail.org] \in Pairs /\ r[detail.org] = <<consoleVersion[detail.org], logo[detail.org] + 1>>
      /\ \A y \in Handlers \ {x} : consolePc'[y] = consolePc[y] /\ about'[y] = about[y] /\ consoleRow'[y] = consoleRow[y]
  <2>1. detail.org \in Workspaces \cup {None}
    BY <1>o
  <2>2. logo' \in [Workspaces -> O!Versions] /\ logo'[detail.org] = logo[detail.org] + 1
    BY <1>0, <1>f, <1>o, <1>g, PageTypesAre
  <2>3. consoleRow' \in [Handlers -> O!Rows] /\ consoleRow'[x] = r /\ \A y \in Handlers \ {x} : consoleRow'[y] = consoleRow[y]
    BY <1>0, <1>h, <1>r, PageTypesAre
  <2>4. consolePc' \in [Handlers -> PageSteps] /\ consolePc'[x] = "logo" /\ \A y \in Handlers \ {x} : consolePc'[y] = consolePc[y]
    BY <1>0, <1>f, PageGoesEffect DEF PageSteps
  <2>5. about' \in [Handlers -> Workspaces \cup {None}] /\ about'[x] = detail.org /\ \A y \in Handlers \ {x} : about'[y] = about[y]
    BY <1>0, <1>f, <2>1, PageTypesAre
  <2> QED BY <2>2, <2>3, <2>4, <2>5, <1>o, <1>r
<1>1. ConsoleTypes'
  <2>1. PageHeld(x)'
    BY <1>0, <1>e, <1>f DEF PageHeld
  <2>2. \A y \in Handlers : PageHeld(y)'
    BY <1>0, <1>e, <1>f, <2>1, PageOthersHold
  <2> QED BY <1>0, <1>e, <1>f, <2>2, PageTypesAre, PageRestTyped DEF ConsoleTypes
<1>2. FlagInv'
  <2>1. ~Fresh /\ ~Loads(x)
    BY <1>f DEF Fresh, O!Closed, Loads
  <2>2. consoleLoading' => \E y \in Handlers : Loads(y)'
    BY <1>0, <1>e, <1>f, <2>1, OthersLoad
  <2> QED BY <1>0, <1>e, <1>f, <2>2, OthersFlags DEF FlagInv
<1>3. ASSUME ~consoleDoubtful' PROVE ConsoleLone'
  <2>1. ConsoleLone
    BY <1>f DEF ConsoleInv, O!Starts
  <2>2. ~astray /\ Agrees /\ \A y \in Handlers : consolePc[y] = "idle"
    BY <2>1, <1>3, <1>f, PageStartsAlone
  <2>3. \A o \in Workspaces \ {detail.org} : consoleListed'[o] = IF o \in consoleOrgs' THEN logo'[o] ELSE None
    BY <2>2, <1>0, <1>e, <1>f, PageTypesAre DEF Agrees, ListAgrees
  <2>4. consoleListed'[detail.org] = None <=> detail.org \notin consoleOrgs'
    <3>1. logo[detail.org] # None
      BY <1>0, <1>o, PageTypesAre, DeveloperAssumption, ConsoleAssumption
    <3> QED BY <2>2, <1>f, <1>o, <3>1 DEF Agrees, ListAgrees
  <2>5. detail'.org = selected' /\ detail'.row[1] = consoleVersion'[detail.org]
    BY <2>2, <1>f DEF Agrees, DetailAgrees
  <2>6. AuditAgrees'
    BY <2>2, <1>f DEF Agrees, AuditAgrees
  <2>7. consoleRow'[x][detail.org] = <<consoleVersion'[detail.org], logo'[detail.org]>>
    BY <1>e, <1>f
  <2>8. consolePc'[x] = "logo" /\ about'[x] = detail.org /\ detail' = detail
    BY <1>e, <1>f
  <2>9. PageOnItsWay(x)'
    BY <2>3, <2>4, <2>5, <2>6, <2>7, <2>8 DEF PageOnItsWay
  <2> QED BY <2>2, <2>9, <1>e, <1>f, PageLoneStays
<1> QED BY <1>1, <1>2, <1>3 DEF ConsoleInv

\* The logo is shown.
LEMMA ShowLogoKeeps ==
  ASSUME ConsoleInv, NEW x \in Handlers, O!ShowLogo(x)
  PROVE  ConsoleInv'
<1>0. ConsoleTypes /\ FlagInv
  BY DEF ConsoleInv
<1>f. /\ consolePc[x] = "logo" /\ uploading' = FALSE /\ O!Ends(x)
      /\ consoleListed' = [consoleListed EXCEPT ![about[x]] = IF @ = None THEN None ELSE consoleRow[x][about[x]][2]]
      /\ detail' = (IF detail.org = about[x] THEN [detail EXCEPT !.row = <<@[1], consoleRow[x][about[x]][2]>>] ELSE detail)
      /\ UNCHANGED <<consoleOrgs, consoleVersion, logo, selected, section, audited, consoleLoading, consoleDoubtful, astray>>
  BY DEF O!ShowLogo, O!serverVars, O!historyVars
<1>a. about[x] \in Workspaces /\ about[x] # None /\ consoleRow[x][about[x]] \in Pairs /\ consoleRow[x][about[x]][2] \in O!Versions
  BY <1>0, <1>f, DeveloperAssumption, ConsoleAssumption DEF ConsoleTypes, PageHeld, Pairs
<1>l. consoleListed' \in [Workspaces -> O!Versions \cup {None}]
  BY <1>0, <1>a, <1>f, PageTypesAre
<1>d. detail' \in [org : Workspaces \cup {None}, row : Pairs \cup {None}] /\ (detail'.org # None => detail'.row # None)
  <2>1. CASE detail.org = about[x]
    <3>1. detail.row \in Pairs /\ detail \in [org : Workspaces \cup {None}, row : Pairs \cup {None}]
      BY <1>0, <1>a, <2>1, PageTypesAre
    <3>2. <<detail.row[1], consoleRow[x][about[x]][2]>> \in Pairs
      BY <3>1, <1>a DEF Pairs
    <3>3. detail' = [detail EXCEPT !.row = <<detail.row[1], consoleRow[x][about[x]][2]>>]
      BY <1>f, <2>1
    <3>4. <<detail.row[1], consoleRow[x][about[x]][2]>> # None
      BY <3>2, DeveloperAssumption, ConsoleAssumption DEF Pairs
    <3> QED BY <3>1, <3>2, <3>3, <3>4
  <2>2. CASE detail.org # about[x]
    BY <1>0, <1>f, <2>2, PageTypesAre DEF ConsoleTypes
  <2> QED BY <2>1, <2>2
<1>e. /\ consolePc' \in [Handlers -> PageSteps] /\ consolePc'[x] = "idle" /\ kind' \in [Handlers -> {"read", "page", "panel"}]
      /\ kind'[x] = "read" /\ busy' \in BOOLEAN /\ (busy' => busy /\ kind[x] = "read")
      /\ about' \in [Handlers -> Workspaces \cup {None}] /\ next' \in [Handlers -> Workspaces \cup {None}]
      /\ full' \in [Handlers -> BOOLEAN] /\ consoleRow' \in [Handlers -> O!Rows]
      /\ \A y \in Handlers \ {x} :
           /\ consolePc'[y] = consolePc[y] /\ kind'[y] = kind[y] /\ about'[y] = about[y] /\ next'[y] = next[y]
           /\ full'[y] = full[y] /\ consoleRow'[y] = consoleRow[y]
  BY <1>0, <1>f, PageEndsEffect
<1>1. ConsoleTypes'
  <2>1. PageHeld(x)'
    BY <1>e DEF PageHeld
  <2>2. \A y \in Handlers : PageHeld(y)'
    BY <1>0, <1>e, <1>f, <2>1, PageOthersHold
  <2> QED BY <1>0, <1>e, <1>f, <1>l, <1>d, <2>2, PageTypesAre, PageRestTyped
<1>2. FlagInv'
  <2>2. ~Loads(x) /\ ~Fresh
    BY <1>f DEF Loads, Fresh
  <2>3. consoleLoading' => \E y \in Handlers : Loads(y)'
    BY <1>0, <1>e, <1>f, <2>2, OthersLoad
  <2> QED BY <1>0, <1>e, <1>f, <2>3, OthersFlags
<1>3. ASSUME ~consoleDoubtful' PROVE ConsoleLone'
  <2>1. ConsoleLone
    BY <1>3, <1>f DEF ConsoleInv
  <2>2. ~astray /\ PageOnItsWay(x) /\ \A y \in Handlers \ {x} : consolePc[y] = "idle"
    BY <2>1, <1>f, PageLoneNow
  <2>3. /\ \A o \in Workspaces \ {about[x]} : consoleListed[o] = IF o \in consoleOrgs THEN logo[o] ELSE None
        /\ consoleListed[about[x]] = None <=> about[x] \notin consoleOrgs
        /\ about[x] = detail.org /\ detail.org = selected
        /\ detail.row[1] = consoleVersion[about[x]]
        /\ consoleRow[x][about[x]] = <<consoleVersion[about[x]], logo[about[x]]>>
        /\ AuditAgrees
    BY <2>2, <1>f DEF PageOnItsWay
  <2>4. consoleRow[x][about[x]][2] = logo[about[x]]
    BY <2>3
  <2>5. ListAgrees'
    <3> SUFFICES ASSUME NEW o \in Workspaces PROVE consoleListed'[o] = IF o \in consoleOrgs THEN logo[o] ELSE None
      BY <1>f DEF ListAgrees
    <3>1. CASE o = about[x]
      BY <1>0, <1>a, <1>f, <2>3, <2>4, <3>1, PageTypesAre
    <3>2. CASE o # about[x]
      BY <1>0, <1>a, <1>f, <2>3, <3>2, PageTypesAre
    <3> QED BY <3>1, <3>2
  <2>6. detail' = [detail EXCEPT !.row = <<detail.row[1], consoleRow[x][about[x]][2]>>]
    BY <1>f, <2>3
  <2>7. detail'.org = selected /\ detail'.row = <<consoleVersion[selected], logo[selected]>>
    BY <1>0, <2>3, <2>4, <2>6, PageTypesAre
  <2>8. DetailAgrees'
    BY <1>a, <1>f, <2>3, <2>7 DEF DetailAgrees
  <2>9. AuditAgrees'
    BY <1>f, <2>3 DEF AuditAgrees
  <2> QED BY <2>2, <2>5, <2>8, <2>9, <1>e, <1>f, PageLoneEnds DEF Agrees
<1> QED BY <1>1, <1>2, <1>3 DEF ConsoleInv

\* Something fails.
LEMMA PageFailKeeps ==
  ASSUME ConsoleInv, NEW x \in Handlers, O!Fail(x)
  PROVE  ConsoleInv'
<1>0. ConsoleTypes /\ FlagInv
  BY DEF ConsoleInv
<1>f. /\ consolePc[x] # "idle" /\ consoleDoubtful' = TRUE /\ uploading' = (uploading /\ consolePc[x] # "logo")
      /\ detail' = (IF consolePc[x] \in {"ask", "show"} THEN O!Closed ELSE detail)
      /\ UNCHANGED <<consoleOrgs, consoleVersion, logo, consoleListed, astray>>
  BY DEF O!Fail, O!serverVars
<1>d. detail' \in [org : Workspaces \cup {None}, row : Pairs \cup {None}] /\ (detail'.org # None => detail'.row # None)
  <2>1. detail' = detail \/ detail' = O!Closed
    BY <1>f
  <2> QED BY <1>0, <2>1, ClosedTyped, PageTypesAre DEF ConsoleTypes
<1>e. /\ consolePc' \in [Handlers -> PageSteps] /\ kind' \in [Handlers -> {"read", "page", "panel"}]
      /\ busy' \in BOOLEAN /\ about' \in [Handlers -> Workspaces \cup {None}] /\ next' \in [Handlers -> Workspaces \cup {None}]
      /\ full' \in [Handlers -> BOOLEAN] /\ consoleRow' \in [Handlers -> O!Rows] /\ consoleLoading' \in BOOLEAN
      /\ (kind'[x] # "read" => consolePc'[x] # "idle") /\ (busy' => kind'[x] # "read" \/ (busy /\ kind[x] = "read"))
      /\ section' \in {"overview", "audit"} /\ selected' \in Workspaces \cup {None} /\ audited' \in Workspaces \cup {None}
      /\ (consolePc'[x] = "ask" => about'[x] \in Workspaces) /\ consolePc'[x] \in {"ask", "idle"}
      /\ \/ consoleLoading' = FALSE
         \/ consoleLoading' = consoleLoading /\ ~Loads(x) /\ consolePc'[x] = "idle" /\ selected' = (IF consolePc[x] \in {"ask", "show"} THEN None ELSE selected)
      /\ \A y \in Handlers \ {x} :
           /\ consolePc'[y] = consolePc[y] /\ kind'[y] = kind[y] /\ about'[y] = about[y] /\ next'[y] = next[y]
           /\ full'[y] = full[y] /\ consoleRow'[y] = consoleRow[y]
  <2>1. CASE consolePc[x] \in {"bootstrap", "list", "ask", "show"} /\ next[x] # None
    <3>1. O!Onwards(x)
      BY <2>1 DEF O!Fail
    <3>2. audited' \in Workspaces \cup {None}
      BY <2>1, <3>1 DEF O!Onwards
    <3>3. /\ consolePc' \in [Handlers -> PageSteps] /\ kind' \in [Handlers -> {"read", "page", "panel"}]
          /\ busy' \in BOOLEAN /\ about' \in [Handlers -> Workspaces \cup {None}] /\ next' \in [Handlers -> Workspaces \cup {None}]
          /\ full' \in [Handlers -> BOOLEAN] /\ consoleRow' \in [Handlers -> O!Rows] /\ consoleLoading' = FALSE
          /\ (kind'[x] # "read" => consolePc'[x] # "idle") /\ (busy' => kind'[x] # "read" \/ (busy /\ kind[x] = "read"))
          /\ \A y \in Handlers \ {x} :
               /\ consolePc'[y] = consolePc[y] /\ kind'[y] = kind[y] /\ about'[y] = about[y] /\ next'[y] = next[y]
               /\ full'[y] = full[y] /\ consoleRow'[y] = consoleRow[y]
      BY <1>0, <3>1, OnwardsEffect
    <3>4. /\ consolePc'[x] = "ask" /\ about'[x] = selected' /\ selected' \in Workspaces
          /\ section' = "overview"
      BY <1>0, <2>1, <3>1, OnwardsEffect
    <3> QED BY <2>1, <3>1, <3>2, <3>3, <3>4
  <2>2. CASE ~(consolePc[x] \in {"bootstrap", "list", "ask", "show"} /\ next[x] # None)
    <3>1. /\ consoleLoading' = (consoleLoading /\ consolePc[x] \notin {"bootstrap", "list"}) /\ O!Ends(x) /\ UNCHANGED <<section, audited>>
          /\ selected' = (IF consolePc[x] \in {"ask", "show"} THEN None ELSE selected)
      BY <2>2 DEF O!Fail
    <3>2. consoleLoading' = FALSE \/ (consoleLoading' = consoleLoading /\ ~Loads(x))
      BY <2>2, <3>1, <1>0, PageTypesAre DEF Loads
    <3>3. selected' \in Workspaces \cup {None} /\ consoleLoading' \in BOOLEAN
      BY <3>1, <1>0, PageTypesAre
    <3>4. UNCHANGED <<section, audited>> /\ O!Ends(x)
      BY <3>1
    <3>5. consolePc'[x] = "idle"
      BY <3>4, <1>0, PageEndsEffect
    <3>6. \/ consoleLoading' = FALSE
          \/ consoleLoading' = consoleLoading /\ ~Loads(x) /\ consolePc'[x] = "idle" /\ selected' = (IF consolePc[x] \in {"ask", "show"} THEN None ELSE selected)
      BY <3>1, <3>2, <3>5
    <3> HIDE <1>f
    <3> QED BY <1>0, <3>3, <3>4, <3>6, PageEndsEffect, PageTypesAre
  <2> QED BY <2>1, <2>2
<1>1. ConsoleTypes'
  <2>1. PageHeld(x)'
    BY <1>e DEF PageHeld
  <2>2. \A y \in Handlers : PageHeld(y)'
    BY <1>0, <1>e, <1>f, <2>1, PageOthersHold
  <2>3. uploading' \in BOOLEAN /\ consoleDoubtful' \in BOOLEAN
    BY <1>f, <1>0, PageTypesAre
  <2> QED BY <1>0, <1>e, <1>f, <1>d, <2>2, <2>3, PageTypesAre, PageRestTyped
<1>2. FlagInv'
  <2>1. consoleLoading' => \E y \in Handlers : Loads(y)'
    <3>1. CASE consoleLoading' = FALSE
      BY <3>1
    <3>2. CASE /\ consoleLoading' = consoleLoading /\ ~Loads(x) /\ consolePc'[x] = "idle"
               /\ selected' = (IF consolePc[x] \in {"ask", "show"} THEN None ELSE selected)
      <4>1. Fresh => Fresh'
        BY <3>2, <1>e, <1>f DEF Fresh
      <4> QED BY <1>0, <1>e, <3>2, <4>1, OthersLoad
    <3> QED BY <3>1, <3>2, <1>e
  <2> QED BY <1>0, <1>e, <1>f, <2>1, OthersFlags
<1> QED BY <1>1, <1>2, <1>f DEF ConsoleInv

\* A page that was just loaded asks for the list.
LEMMA JustLoaded ==
  ASSUME consoleOrgs' \subseteq Workspaces, consoleVersion' \in [Workspaces -> O!Versions], logo' \in [Workspaces -> O!Versions],
         consoleListed' = O!Nothing, selected' = None, detail' = O!Closed, section' = "overview", audited' = None,
         busy' = FALSE, uploading' = FALSE, consoleLoading' = TRUE, NEW x \in Handlers, consolePc' = O!Asks(x),
         kind' = [y \in Handlers |-> "read"], about' = [y \in Handlers |-> None], next' = [y \in Handlers |-> None],
         full' = [y \in Handlers |-> FALSE], consoleRow' = [y \in Handlers |-> O!Nothing],
         consoleDoubtful' = FALSE, astray' = FALSE
  PROVE  ConsoleInv'
<1>0. consolePc' = [y \in Handlers |-> IF y = x THEN "bootstrap" ELSE "idle"]
  BY DEF O!Asks
<1>1. consolePc' \in [Handlers -> PageSteps] /\ consolePc'[x] = "bootstrap" /\ \A y \in Handlers \ {x} : consolePc'[y] = "idle"
  BY <1>0 DEF PageSteps
<1>2. ConsoleTypes'
  <2>1. \A y \in Handlers : PageHeld(y)'
    BY <1>1 DEF PageHeld
  <2>2. consoleRow' \in [Handlers -> O!Rows] /\ consoleListed' \in [Workspaces -> O!Versions \cup {None}]
    BY NothingTyped
  <2>3. detail' \in [org : Workspaces \cup {None}, row : Pairs \cup {None}] /\ detail'.org = None
    BY ClosedTyped
  <2> QED BY <1>1, <2>1, <2>2, <2>3, PageRestTyped
<1>3. FlagInv'
  <2>1. Fresh'
    BY <1>1 DEF Fresh
  <2>2. Loads(x)'
    BY <1>1, <2>1 DEF Loads
  <2> QED BY <2>2 DEF FlagInv
<1>4. ConsoleLone'
  <2>1. PageOnItsWay(x)'
    BY <1>1 DEF PageOnItsWay
  <2> QED BY <1>1, <2>1 DEF ConsoleLone, O!Busy
<1> QED BY <1>2, <1>3, <1>4 DEF ConsoleInv

LEMMA PageReloadKeeps ==
  ASSUME ConsoleInv, O!Reload
  PROVE  ConsoleInv'
<1>0. ConsoleTypes
  BY DEF ConsoleInv
<1>1. PICK x \in Handlers : consolePc' = O!Asks(x)
  BY DEF O!Reload
<1>2. /\ consoleListed' = O!Nothing /\ selected' = None /\ detail' = O!Closed /\ section' = "overview" /\ audited' = None
      /\ busy' = FALSE /\ uploading' = FALSE /\ consoleLoading' = TRUE
      /\ kind' = [y \in Handlers |-> "read"] /\ about' = [y \in Handlers |-> None] /\ next' = [y \in Handlers |-> None]
      /\ full' = [y \in Handlers |-> FALSE] /\ consoleRow' = [y \in Handlers |-> O!Nothing]
      /\ consoleDoubtful' = FALSE /\ astray' = FALSE /\ consoleOrgs' = consoleOrgs /\ consoleVersion' = consoleVersion /\ logo' = logo
  BY DEF O!Reload, O!serverVars
<1> QED BY <1>0, <1>1, <1>2, PageTypesAre, JustLoaded

LEMMA ConsoleInit == O!Init => ConsoleInv
<1> SUFFICES ASSUME O!Init PROVE ConsoleInv
  OBVIOUS
<1>1. PICK x \in Handlers : consolePc = O!Asks(x)
  BY DEF O!Init
<1>2. /\ consoleOrgs = {First} /\ consoleVersion = [o \in Workspaces |-> 0] /\ logo = [o \in Workspaces |-> 0]
      /\ consoleListed = O!Nothing /\ selected = None /\ detail = O!Closed /\ section = "overview" /\ audited = None
      /\ busy = FALSE /\ uploading = FALSE /\ consoleLoading = TRUE
      /\ kind = [y \in Handlers |-> "read"] /\ about = [y \in Handlers |-> None] /\ next = [y \in Handlers |-> None]
      /\ full = [y \in Handlers |-> FALSE] /\ consoleRow = [y \in Handlers |-> O!Nothing]
      /\ consoleDoubtful = FALSE /\ astray = FALSE
  BY DEF O!Init
<1>3. consolePc \in [Handlers -> PageSteps] /\ consolePc[x] = "bootstrap" /\ \A y \in Handlers \ {x} : consolePc[y] = "idle"
  BY <1>1 DEF O!Asks, PageSteps
<1>4. ConsoleTypes
  <2>1. \A y \in Handlers : PageHeld(y)
    BY <1>2, <1>3 DEF PageHeld
  <2>2. consoleRow \in [Handlers -> O!Rows] /\ consoleListed \in [Workspaces -> O!Versions \cup {None}]
    BY <1>2, NothingTyped
  <2>3. detail \in [org : Workspaces \cup {None}, row : Pairs \cup {None}] /\ detail.org = None /\ detail.row = None
    BY <1>2, ClosedTyped
  <2>4. 0 \in O!Versions
    BY DeveloperAssumption, ConsoleAssumption DEF O!Versions
  <2>5. O!TypeOK
    BY <1>2, <1>3, <2>2, <2>3, <2>4, DeveloperAssumption, ConsoleAssumption DEF O!TypeOK, PageSteps, Pairs
  <2> QED BY <2>1, <2>3, <2>5 DEF ConsoleTypes
<1>5. FlagInv
  <2>1. Fresh
    BY <1>2, <1>3 DEF Fresh
  <2>2. Loads(x)
    BY <1>3, <2>1 DEF Loads
  <2> QED BY <1>2, <2>2 DEF FlagInv
<1>6. ConsoleLone
  <2>1. PageOnItsWay(x)
    BY <1>2, <1>3 DEF PageOnItsWay
  <2> QED BY <1>2, <1>3, <2>1 DEF ConsoleLone, O!Busy
<1> QED BY <1>4, <1>5, <1>6 DEF ConsoleInv

LEMMA ConsoleStutters ==
  ASSUME ConsoleInv, UNCHANGED O!vars
  PROVE  ConsoleInv'
<1>0. UNCHANGED <<consoleOrgs, consoleVersion, logo, consoleListed, selected, detail, section, audited, busy, uploading, consoleLoading,
                  consolePc, kind, about, next, full, consoleRow, consoleDoubtful, astray>>
  BY DEF O!vars, O!serverVars, O!shownVars, O!flagVars, O!handlerVars, O!historyVars
<1>1. ConsoleTypes'
  <2>1. \A y \in Handlers : PageHeld(y)'
    BY <1>0 DEF ConsoleInv, ConsoleTypes, PageHeld
  <2>2. ConsoleTypes
    BY DEF ConsoleInv
  <2> QED BY <1>0, <2>1, <2>2, PageTypesAre, PageRestTyped DEF ConsoleTypes
<1>2. FlagInv'
  <2>1. FlagInv
    BY DEF ConsoleInv
  <2> QED BY <1>0, <2>1 DEF FlagInv, Loads, Fresh
<1>3. (consoleDoubtful \/ ConsoleLone)'
  <2>1. CASE consoleDoubtful
    BY <2>1, <1>0
  <2>2. CASE ConsoleLone
    <3>1. O!Answered(consoleOrgs)' = O!Answered(consoleOrgs)
      BY <1>0 DEF O!Answered
    <3>2. (Agrees => Agrees') /\ (ListAgrees => ListAgrees') /\ (AuditAgrees => AuditAgrees')
      BY <1>0 DEF Agrees, ListAgrees, DetailAgrees, AuditAgrees
    <3>3. \A x \in Handlers : PageOnItsWay(x) => PageOnItsWay(x)'
      BY <1>0, <3>1, <3>2 DEF PageOnItsWay
    <3> QED BY <1>0, <2>2, <3>2, <3>3 DEF ConsoleLone, O!Busy
  <2> QED BY <2>1, <2>2 DEF ConsoleInv
<1> QED BY <1>1, <1>2, <1>3 DEF ConsoleInv

LEMMA ConsoleNext == ConsoleInv /\ [O!Next]_(O!vars) => ConsoleInv'
<1> SUFFICES ASSUME ConsoleInv, [O!Next]_(O!vars) PROVE ConsoleInv'
  OBVIOUS
<1>1. ASSUME NEW x \in Handlers,
             O!SelectOrganization(x) \/ O!SelectAudit(x) \/ O!Answer(x) \/ O!ShowOrganization(x) \/ O!AnswerList(x)
             \/ O!ShowList(x)
      PROVE  ConsoleInv'
  BY <1>1, SelectOrganizationKeeps, SelectAuditKeeps, AnswerKeeps, ShowOrganizationKeeps, AnswerListKeeps,
     PageShowListKeeps
<1>2. ASSUME NEW x \in Handlers,
             O!Change(x) \/ O!ChangeInPanel(x) \/ O!Apply(x) \/ O!Applied(x) \/ O!CreateOrganization(x) \/ O!Found(x)
             \/ O!Founded(x) \/ O!UploadLogo(x) \/ O!ShowLogo(x) \/ O!Fail(x)
      PROVE  ConsoleInv'
  BY <1>2, PageChangeKeeps, ChangeInPanelKeeps, ApplyKeeps, AppliedKeeps, CreateOrganizationKeeps, FoundKeeps,
     FoundedKeeps, UploadLogoKeeps, ShowLogoKeeps, PageFailKeeps
<1> QED BY <1>1, <1>2, LeaveAuditKeeps, PageReloadKeeps, ConsoleStutters DEF O!Next

\* The page's invariant: who set a flag is on the way, and a handler that nobody
\* overlapped leaves a page that agrees with the server.
THEOREM ConsoleInvariance == O!Spec => []ConsoleInv
BY ConsoleInit, ConsoleNext, PTL DEF O!Spec

\* No flag stays set, and a page at rest shows what the server has.
THEOREM QuietPagesOfOrganizations == O!Spec => []O!QuietPageAgrees
<1>1. ConsoleInv => O!QuietPageAgrees
  <2> SUFFICES ASSUME ConsoleInv PROVE O!QuietPageAgrees
    OBVIOUS
  <2>0. ConsoleTypes /\ FlagInv /\ (consoleDoubtful \/ ConsoleLone)
    BY DEF ConsoleInv
  <2>1. O!Busy = {} => ~busy /\ ~uploading /\ ~consoleLoading
    BY <2>0 DEF FlagInv, O!Busy, Loads
  <2>2. ASSUME ~consoleDoubtful
        PROVE  /\ ~astray
               /\ O!Busy = {} =>
                    /\ detail.org = selected
                    /\ detail.row = O!Answered({selected} \cap Workspaces)[IF selected = None THEN First ELSE selected]
                    /\ \A o \in Workspaces : consoleListed[o] = IF o \in consoleOrgs THEN logo[o] ELSE None
                    /\ section = "audit" /\ selected # None => audited = selected
    <3>1. ConsoleLone
      BY <2>0, <2>2
    <3>2. ASSUME O!Busy = {}
          PROVE  detail.row = O!Answered({selected} \cap Workspaces)[IF selected = None THEN First ELSE selected]
      <4>1. DetailAgrees
        BY <3>1, <3>2 DEF ConsoleLone, Agrees
      <4>2. {selected} \cap Workspaces \in SUBSET Workspaces
        OBVIOUS
      <4>3. \A o \in Workspaces : O!Answered({selected} \cap Workspaces)[o]
                                  = IF o \in {selected} \cap Workspaces THEN <<consoleVersion[o], logo[o]>> ELSE None
        BY <2>0, <4>2, AnsweredTyped
      <4>4. CASE selected = None
        BY <4>1, <4>3, <4>4, DeveloperAssumption, ConsoleAssumption DEF DetailAgrees
      <4>5. CASE selected # None
        <5>1. selected \in Workspaces
          BY <4>5, <2>0, PageTypesAre
        <5> QED BY <4>1, <4>3, <4>5, <5>1 DEF DetailAgrees
      <4> QED BY <4>4, <4>5
    <3> QED BY <3>1, <3>2 DEF ConsoleLone, Agrees, ListAgrees, DetailAgrees, AuditAgrees
  <2> QED BY <2>1, <2>2 DEF O!QuietPageAgrees
<1> QED BY <1>1, ConsoleInvariance, PTL

-----------------------------------------------------------------------------
(* The parts side by side (MCOrganizationMembers).                         *)

\* A behavior is one of the part that its first state chooses, and the members
\* rest in it when they are not chosen.
LEMMA MembersRun == MCSpec => Spec
<1>1. MCInit => Init
  BY DEF MCInit
<1>2. [MCNext]_mcVars => [Next]_vars
  BY DEF MCNext, mcVars
<1> QED BY <1>1, <1>2, PTL DEF MCSpec, Spec

LEMMA PortalRun == MCSpec => (P!Spec /\ [](part = "portal")) \/ [](~(part = "portal"))
<1>1. MCInit /\ part = "portal" => P!Init
  BY DEF MCInit
<1>2. part = "portal" /\ [MCNext]_mcVars => (part = "portal")' /\ [P!Next]_(P!vars)
  BY DEF MCNext, mcVars, portalVars, P!vars, P!tableVars, P!requestVars, P!historyVars
<1>3. ~(part = "portal") /\ [MCNext]_mcVars => ~((part = "portal")')
  BY DEF MCNext, mcVars
<1> QED BY <1>1, <1>2, <1>3, PTL DEF MCSpec, P!Spec

LEMMA DeveloperRun == MCSpec => (D!Spec /\ [](part = "developer")) \/ [](~(part = "developer"))
<1>1. MCInit /\ part = "developer" => D!Init
  BY DEF MCInit
<1>2. part = "developer" /\ [MCNext]_mcVars => (part = "developer")' /\ [D!Next]_(D!vars)
  BY DEF MCNext, mcVars, developerVars, D!vars, D!serverVars, D!pageVars, D!cacheVars, D!handlerVars
<1>3. ~(part = "developer") /\ [MCNext]_mcVars => ~((part = "developer")')
  BY DEF MCNext, mcVars
<1> QED BY <1>1, <1>2, <1>3, PTL DEF MCSpec, D!Spec

LEMMA ConsoleRun == MCSpec => (O!Spec /\ [](part = "console")) \/ [](~(part = "console"))
<1>1. MCInit /\ part = "console" => O!Init
  BY DEF MCInit
<1>2. part = "console" /\ [MCNext]_mcVars => (part = "console")' /\ [O!Next]_(O!vars)
  BY DEF MCNext, mcVars, consoleVars, O!vars, O!serverVars, O!shownVars, O!flagVars, O!handlerVars, O!historyVars
<1>3. ~(part = "console") /\ [MCNext]_mcVars => ~((part = "console")')
  BY DEF MCNext, mcVars
<1> QED BY <1>1, <1>2, <1>3, PTL DEF MCSpec, O!Spec

\* An organization has an owner, and a user without any gets one workspace,
\* unless creations overlap (ensurePersonalWorkspace, createDeveloperOrganization).
THEOREM WorkspacesAlwaysWhole == MCSpec => []WorkspacesWhole
<1>1. MCSpec => [](part = "portal" => P!WorkspacesWhole)
  BY PortalRun, WorkspacesAreWhole, PTL
<1>2. (part = "portal" => P!WorkspacesWhole) => WorkspacesWhole
  BY DEF WorkspacesWhole
<1> QED BY <1>1, <1>2, PTL

\* What nobody overlapped stands: a row of the portal is what was asked for, and
\* a page of a console at rest shows what the server has.
THEOREM QuietPagesAlwaysAgree == MCSpec => []QuietPagesAgree
<1>1. MCSpec => []TypeOK
  BY MembersRun, TypeCorrect, PTL
<1>2. MCSpec => [](part = "portal" => P!TypeOK /\ P!LoneEditsKeep)
  <2>1. PortalInv => P!TypeOK
    BY DEF PortalInv, Types
  <2> QED BY <2>1, PortalRun, PortalInvariance, LoneEditsAreKept, PTL
<1>3. MCSpec => [](part = "developer" => D!TypeOK /\ D!QuietConsoleAgrees)
  <2>1. DeveloperInv => D!TypeOK
    BY DEF DeveloperInv, DeveloperTypes
  <2> QED BY <2>1, DeveloperRun, DeveloperInvariance, QuietPagesOfDevelopers, PTL
<1>4. MCSpec => [](part = "console" => O!TypeOK /\ O!QuietPageAgrees)
  <2>1. ConsoleInv => O!TypeOK
    BY DEF ConsoleInv, ConsoleTypes
  <2> QED BY <2>1, ConsoleRun, ConsoleInvariance, QuietPagesOfOrganizations, PTL
<1>5. /\ TypeOK
      /\ (part = "portal" => P!TypeOK /\ P!LoneEditsKeep)
      /\ (part = "developer" => D!TypeOK /\ D!QuietConsoleAgrees)
      /\ (part = "console" => O!TypeOK /\ O!QuietPageAgrees)
      => QuietPagesAgree
  BY DEF QuietPagesAgree, TypesOK
<1> QED BY <1>1, <1>2, <1>3, <1>4, <1>5, PTL
=============================================================================
