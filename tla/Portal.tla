-------------------------------- MODULE Portal --------------------------------
(***************************************************************************)
(* The developer portal's tables: workspaces, applications and resources,  *)
(* as ave-server/src/routes/apps.ts, routes/organizations.ts (settings),   *)
(* the workspace logo of routes/upload.ts, lib/dev-portal.ts and           *)
(* lib/business.ts write them.                                             *)
(*                                                                         *)
(* Whoever has no workspace gets one on first use; an organization is      *)
(* inserted before its owner.  A PATCH reads the row, may check another    *)
(* organization, and writes every column it covers: as asked, or as read.  *)
(*                                                                         *)
(* Abstracted: "home" is an application's organization or a resource's     *)
(* application, "text" what a PATCH sets, "extra" what one statement sets  *)
(* alone (a client secret) or a PATCH too (a logo).  A value is named by   *)
(* the request that wrote it.  The objects of logos are as in Pictures.    *)
(* A key that is taken, and a body that is refused, are Refuse.            *)
(***************************************************************************)
EXTENDS Naturals, FiniteSets

CONSTANTS
  Users, OldOrgs, OldApps, OldResources,
  Owner,      \* the user who owns OldOrgs and their applications
  Requests,   \* requests that write, each run once; they name what they make,
              \* so none of the above is one of them
  None

VARIABLES
  org,      \* the organizations
  role,     \* the highest role of a user's active identities in each
  slug,     \* their slugs, by number
  app,      \* the applications
  resource, \* the resources
  row,      \* the columns of each of these
  pc,       \* next step of each request
  want,     \* what it is about
  read,     \* the row it has read
  personal, \* history: what is or was made for a user without a workspace
  expected, \* history: what the requests have asked for
  crossed,  \* history: rows written while another request had read them
  raced     \* history: users whose first uses overlapped or did not end, or
            \* who lost a workspace; creations that overlapped

Orgs == OldOrgs \cup Requests
\* Rows of three tables, tagged with their table.
Rows == ({"org"} \X Orgs) \cup ({"app"} \X (OldApps \cup Requests)) \cup ({"resource"} \X (OldResources \cup Requests))
Columns == {"home", "text", "extra"}
Values == Orgs \cup OldApps \cup {None}
Nothing == [c \in Columns |-> None]
Unasked == [by |-> Owner, of |-> <<"org", CHOOSE o \in OldOrgs : TRUE>>, covers |-> {}, asks |-> {}, to |-> None]

tableVars == <<org, role, slug, app, resource, row>>
requestVars == <<pc, want, read>>
historyVars == <<personal, expected, crossed, raced>>
vars == <<tableVars, requestVars, historyVars>>

TypeOK ==
  /\ org \subseteq Orgs /\ role \in [Orgs -> [Users -> {"none", "viewer", "admin", "owner"}]]
  /\ slug \in [Orgs -> Nat] /\ app \subseteq OldApps \cup Requests /\ resource \subseteq OldResources \cup Requests
  /\ row \in [Rows -> [Columns -> Values]] /\ expected \in [Rows -> [Columns -> Values]]
  /\ pc \in [Requests -> {"idle", "slug", "organization", "member", "admit", "application",
                          "destination", "find", "resource", "write", "delete", "done"}]
  /\ \A r \in Requests :
       /\ want[r].by \in Users /\ want[r].of \in Rows /\ want[r].to \in Orgs \cup {None}
       /\ want[r].asks \subseteq want[r].covers /\ want[r].covers \subseteq Columns
  /\ read \in [Requests -> [Columns -> Values]]
  /\ personal \in [Users -> SUBSET Requests] /\ crossed \subseteq Rows /\ raced \subseteq Users \cup Requests

Init ==
  /\ org = OldOrgs
  /\ role = [o \in Orgs |-> [u \in Users |-> IF o \in OldOrgs /\ u = Owner THEN "owner" ELSE "none"]]
  /\ \E f \in [Orgs -> 0 .. Cardinality(OldOrgs)] :
       /\ slug = f /\ \A r \in Requests : f[r] = 0
       /\ \A o, q \in OldOrgs : f[o] = f[q] => o = q
       /\ \A o \in OldOrgs : f[o] > 0
  /\ app = OldApps /\ resource = OldResources
  /\ \E o \in OldOrgs, a \in OldApps :
       row = [t \in Rows |->
                [Nothing EXCEPT !["home"] = IF t[1] = "app" /\ t[2] \in OldApps THEN o
                                            ELSE IF t[1] = "resource" /\ t[2] \in OldResources THEN a
                                            ELSE None]]
  /\ pc = [r \in Requests |-> "idle"]
  /\ want = [r \in Requests |-> Unasked]
  /\ read = [r \in Requests |-> Nothing]
  /\ personal = [u \in Users |-> {}]
  /\ expected = row
  /\ crossed = {} /\ raced = {}

There == ({"org"} \X org) \cup ({"app"} \X app) \cup ({"resource"} \X resource)
IsAdmin(u, o) == o \in org /\ role[o][u] \in {"admin", "owner"}

\* listBusinessOrganizationsForUser.
Memberships(u) == {o \in org : role[o][u] # "none"}

\* selectHighestMembership: any of those that are equally high.
Highest(u) ==
  LET top == IF \E o \in Memberships(u) : role[o][u] = "owner" THEN {"owner"}
             ELSE IF \E o \in Memberships(u) : role[o][u] = "admin" THEN {"admin"} ELSE {"viewer"}
  IN {o \in Memberships(u) : role[o][u] \in top}

Ends(r) ==
  /\ pc' = [pc EXCEPT ![r] = "done"]
  /\ want' = [want EXCEPT ![r] = Unasked]
  /\ read' = [read EXCEPT ![r] = Nothing]

Goes(r, step) == pc' = [pc EXCEPT ![r] = step]

-----------------------------------------------------------------------------
(* Workspaces.                                                             *)

Opening == {q \in Requests : pc[q] \in {"slug", "organization", "member"}}

\* A request about to make an organization: for u, or of its own.
Opens(r, u, isFirst) ==
  /\ personal' = IF isFirst THEN [personal EXCEPT ![u] = @ \cup {r}] ELSE personal
  /\ raced' = raced \cup (IF Opening = {} THEN {} ELSE {r} \cup Opening)
                    \cup {v \in Users : v = u /\ isFirst /\ Opening \cap personal[u] # {}}
  /\ Goes(r, "slug")

\* GET /organizations, /organizations/bootstrap or /apps of a user without any.
FirstUse(r) ==
  /\ pc[r] = "idle"
  /\ \E u \in Users :
       /\ Memberships(u) = {}
       /\ want' = [want EXCEPT ![r].by = u]
       /\ Opens(r, u, TRUE)
  /\ UNCHANGED <<tableVars, read, expected, crossed>>

\* POST /organizations.
CreateOrganization(r) ==
  /\ pc[r] = "idle"
  /\ \E u \in Users :
       /\ want' = [want EXCEPT ![r].by = u]
       /\ Opens(r, u, FALSE)
  /\ UNCHANGED <<tableVars, read, expected, crossed>>

FreeBug(n) == TRUE

\* createUniqueSlug: the first candidate that nobody has.
Free(n) == \A o \in org : slug[o] # n

ChooseSlug(r) ==
  /\ pc[r] = "slug"
  /\ \E n \in 1 .. Cardinality(Orgs) :
       /\ Free(n) /\ \A m \in 1 .. (n - 1) : ~Free(m)
       /\ slug' = [slug EXCEPT ![r] = n]
  /\ Goes(r, "organization")
  /\ UNCHANGED <<org, role, app, resource, row, want, read, historyVars>>

\* INSERT INTO organizations: the slug is unique.
InsertOrganization(r) ==
  /\ pc[r] = "organization"
  /\ IF \E o \in org : slug[o] = slug[r]
       THEN /\ Ends(r)
            /\ personal' = [u \in Users |-> personal[u] \ {r}]
            /\ UNCHANGED org
       ELSE /\ Goes(r, "member")
            /\ org' = org \cup {r}
            /\ UNCHANGED <<want, read, personal>>
  /\ UNCHANGED <<role, slug, app, resource, row, expected, crossed, raced>>

\* INSERT INTO organization_identity_members; POST /apps goes on.
InsertOwner(r) ==
  /\ pc[r] = "member"
  /\ role' = [role EXCEPT ![r][want[r].by] = "owner"]
  /\ IF want[r].of[1] = "app"
       THEN /\ Goes(r, "admit")
            /\ want' = [want EXCEPT ![r].to = IF @ = None THEN r ELSE @]
            /\ UNCHANGED read
       ELSE Ends(r)
  /\ UNCHANGED <<org, slug, app, resource, row, historyVars>>

\* Invitations, changes of role and removals: OrganizationMembers.
SetRole ==
  /\ \E o \in OldOrgs, u \in Users, new \in {"none", "viewer", "admin"} :
       /\ role[o][u] # new /\ u # Owner
       /\ role' = [role EXCEPT ![o][u] = new]
       /\ raced' = IF new = "none" THEN raced \cup {u} ELSE raced
  /\ UNCHANGED <<org, slug, app, resource, row, requestVars, personal, expected, crossed>>

-----------------------------------------------------------------------------
(* Applications and resources.                                             *)

\* POST /apps.
CreateApp(r) ==
  /\ pc[r] = "idle"
  /\ \E u \in Users, o \in org \cup {None} :
       IF Memberships(u) = {}
         THEN /\ want' = [want EXCEPT ![r] = [@ EXCEPT !.by = u, !.of = <<"app", r>>, !.to = o]]
              /\ Opens(r, u, TRUE)
         ELSE /\ \E p \in Highest(u) :
                   want' = [want EXCEPT ![r] = [@ EXCEPT !.by = u, !.of = <<"app", r>>,
                                                         !.to = IF o = None THEN p ELSE o]]
              /\ Goes(r, "admit")
              /\ UNCHANGED <<personal, raced>>
  /\ UNCHANGED <<tableVars, read, expected, crossed>>

\* requireOrganizationAccess(userId, organizationId, "admin").
Admit(r) ==
  /\ pc[r] = "admit"
  /\ IF IsAdmin(want[r].by, want[r].to)
       THEN Goes(r, "application") /\ UNCHANGED <<want, read>>
       ELSE Ends(r)
  /\ UNCHANGED <<tableVars, historyVars>>

Inserted(r, t, home) ==
  /\ row' = [row EXCEPT ![t] = [home |-> home, text |-> r, extra |-> r]]
  /\ expected' = [expected EXCEPT ![t] = [home |-> home, text |-> r, extra |-> r]]
  /\ Ends(r)

InsertApp(r) ==
  /\ pc[r] = "application"
  /\ app' = app \cup {r}
  /\ Inserted(r, <<"app", r>>, want[r].to)
  /\ UNCHANGED <<org, role, slug, resource, personal, crossed, raced>>

\* The organization whose admins may change a row.
Home(t) ==
  IF t[1] = "org" THEN t[2]
  ELSE IF t[1] = "app" THEN row[t]["home"] ELSE row[<<"app", row[t]["home"]>>]["home"]

\* What the routes that change a row cover: PATCH /apps/:appId, POST
\* .../rotate-secret, PATCH .../resources/:resourceId, PATCH /organizations/:id,
\* PATCH /business/organizations/:id, POST /upload/workspace-logo.
Covered(t) ==
  IF t[1] = "app" THEN {{"home", "text"}, {"extra"}}
  ELSE IF t[1] = "org" THEN {{"text", "extra"}, {"text"}, {"extra"}} ELSE {{"text"}}

\* requireOrganizationAccess, getAccessibleApp: the row comes with the role.  A
\* resource is read after its application.
Change(r) ==
  /\ pc[r] = "idle"
  /\ \E u \in Users, t \in There, to \in org \cup {None} :
       /\ IsAdmin(u, Home(t))
       /\ \E covers \in Covered(t) :
          \E asks \in (SUBSET covers) \ {{}} :
            /\ IF "home" \in asks THEN to \notin {None, row[t]["home"]} ELSE to = None
            /\ want' = [want EXCEPT ![r] = [by |-> u, of |-> t, covers |-> covers, asks |-> asks, to |-> to]]
            /\ Goes(r, IF t[1] = "resource" THEN "find" ELSE IF "home" \in asks THEN "destination" ELSE "write")
       /\ read' = [read EXCEPT ![r] = IF t[1] = "resource" THEN Nothing ELSE row[t]]
  /\ UNCHANGED <<tableVars, historyVars>>

\* The organization an application is moved to.
CheckDestination(r) ==
  /\ pc[r] = "destination"
  /\ IF IsAdmin(want[r].by, want[r].to)
       THEN Goes(r, "write") /\ UNCHANGED <<want, read>>
       ELSE Ends(r)
  /\ UNCHANGED <<tableVars, historyVars>>

\* The resource, by its id and its application's.
FindResource(r) ==
  /\ pc[r] = "find"
  /\ IF want[r].of \in There
       THEN /\ read' = [read EXCEPT ![r] = row[want[r].of]]
            /\ Goes(r, "write")
            /\ UNCHANGED want
       ELSE Ends(r)
  /\ UNCHANGED <<tableVars, historyVars>>

\* POST /apps/:appId/resources.
AddResource(r) ==
  /\ pc[r] = "idle"
  /\ \E u \in Users, a \in app :
       /\ IsAdmin(u, row[<<"app", a>>]["home"])
       /\ want' = [want EXCEPT ![r] = [@ EXCEPT !.by = u, !.of = <<"app", a>>]]
  /\ Goes(r, "resource")
  /\ UNCHANGED <<tableVars, read, historyVars>>

\* INSERT INTO oauth_resources: its application must be there.
InsertResource(r) ==
  /\ pc[r] = "resource"
  /\ IF want[r].of[2] \in app
       THEN resource' = resource \cup {r} /\ Inserted(r, <<"resource", r>>, want[r].of[2])
       ELSE Ends(r) /\ UNCHANGED <<resource, row, expected>>
  /\ UNCHANGED <<org, role, slug, app, personal, crossed, raced>>

New(r, c) == IF c = "home" THEN want[r].to ELSE r

AsReadBug(r, c) == None

\* What a PATCH writes to a column it was not asked to change.
AsRead(r, c) == read[r][c]

Others(r, t) == {q \in Requests \ {r} : pc[q] \in {"destination", "write"} /\ want[q].of = t}

\* UPDATE ... WHERE id; a row that is gone is not updated.
Write(r) ==
  LET t == want[r].of IN
  /\ pc[r] = "write"
  /\ IF t \in There
       THEN /\ row' = [row EXCEPT ![t] = [c \in Columns |->
                 IF c \in want[r].asks THEN New(r, c)
                 ELSE IF c \in want[r].covers THEN AsRead(r, c) ELSE row[t][c]]]
            /\ expected' = [expected EXCEPT ![t] = [c \in Columns |->
                 IF c \in want[r].asks THEN New(r, c) ELSE expected[t][c]]]
            /\ crossed' = IF Others(r, t) = {} THEN crossed ELSE crossed \cup {t}
       ELSE UNCHANGED <<row, expected, crossed>>
  /\ Ends(r)
  /\ UNCHANGED <<org, role, slug, app, resource, personal, raced>>

\* DELETE /apps/:appId and /apps/:appId/resources/:resourceId.
Remove(r) ==
  /\ pc[r] = "idle"
  /\ \E u \in Users, t \in There :
       /\ t[1] # "org" /\ IsAdmin(u, Home(t))
       /\ want' = [want EXCEPT ![r] = [@ EXCEPT !.by = u, !.of = t]]
  /\ Goes(r, "delete")
  /\ UNCHANGED <<tableVars, read, historyVars>>

\* The resources of an application go with it.
Gone(t) == {t} \cup {s \in There : t[1] = "app" /\ s[1] = "resource" /\ row[s]["home"] = t[2]}

Delete(r) ==
  LET gone == Gone(want[r].of) IN
  /\ pc[r] = "delete"
  /\ app' = {a \in app : <<"app", a>> \notin gone}
  /\ resource' = {s \in resource : <<"resource", s>> \notin gone}
  /\ row' = [t \in Rows |-> IF t \in gone THEN Nothing ELSE row[t]]
  /\ expected' = [t \in Rows |-> IF t \in gone THEN Nothing ELSE expected[t]]
  /\ Ends(r)
  /\ UNCHANGED <<org, role, slug, personal, crossed, raced>>

\* A request is refused, or its worker dies.
Refuse(r) ==
  /\ pc[r] \notin {"idle", "done"}
  /\ raced' = raced \cup {r} \cup {u \in Users : pc[r] = "member" /\ r \in personal[u]}
  /\ personal' = [u \in Users |-> IF pc[r] \in {"slug", "organization"} THEN personal[u] \ {r} ELSE personal[u]]
  /\ Ends(r)
  /\ UNCHANGED <<tableVars, expected, crossed>>

-----------------------------------------------------------------------------
Next ==
  \/ \E r \in Requests :
       \/ FirstUse(r) \/ CreateOrganization(r) \/ ChooseSlug(r) \/ InsertOrganization(r) \/ InsertOwner(r)
       \/ CreateApp(r) \/ Admit(r) \/ InsertApp(r)
       \/ Change(r) \/ CheckDestination(r) \/ FindResource(r) \/ Write(r)
       \/ AddResource(r) \/ InsertResource(r) \/ Remove(r) \/ Delete(r) \/ Refuse(r)
  \/ SetRole

Spec == Init /\ [][Next]_vars

-----------------------------------------------------------------------------
(* Properties.                                                             *)

\* A creation that no other overlapped and nothing interrupted makes an
\* organization with an owner; a user's first uses make one workspace, unless
\* two of them overlapped, one was interrupted or the user lost one since.
WorkspacesWhole ==
  /\ \A r \in Requests \ raced :
       r \in org /\ pc[r] # "member" => \E u \in Users : role[r][u] = "owner"
  /\ \A r \in Requests \ raced : slug[r] > 0 /\ pc[r] = "done" => r \in org
  /\ \A u \in Users \ raced : Cardinality(personal[u]) <= 1

\* A row is what the requests have asked for, column by column, unless one was
\* written while another request that had read it was still to write it.
LoneEditsKeep == \A t \in There \ crossed : row[t] = expected[t]
=============================================================================
