--------------------------- MODULE DeveloperConsole ---------------------------
(***************************************************************************)
(* The developer portal's page (ave-web/src/routes/devs/+page.svelte) with *)
(* its query cache (lib/surfaces/devs/lib/queries.ts) before the server's  *)
(* tables: the applications and settings of the workspaces of one user.    *)
(*                                                                         *)
(* A handler of the page sends a request, which the server answers, writes *)
(* what comes back into the page and the cache, and reads again what the   *)
(* cache no longer vouches for.  Handlers overlap as the user clicks.      *)
(*                                                                         *)
(* Abstracted: a row is its version.  An answer from the cache, which      *)
(* comes at once, takes a step like any other.  Of the panels of an open   *)
(* application, insights follow its settings; the lists are its own.       *)
(* Rotating a secret shows the secret and touches nothing else here.       *)
(***************************************************************************)
EXTENDS Naturals, FiniteSets

CONSTANTS
  Orgs, First,     \* the workspaces and the one that is there at the start
  Apps,            \* the applications; the user may create them
  Clicks,          \* handlers that run at the same time
  MaxVersion,      \* how often a row changes
  None

VARIABLES
  orgs, home, version, setting,      \* the server: workspaces, where each application is, rows
  cur, workspace, listed, apps,      \* the page: workspace, its row, the workspaces, the applications
  sel, panel, loading, bundles,      \* the open application, its panels, what the page has kept
  portal, overview,                  \* the query cache
  pc, app, to, row, answer,          \* the handlers: the version and the portal they got
  doubtful                           \* history: handlers overlapped or failed, or something
                                     \* happened elsewhere, since the page was loaded

Versions == 0 .. MaxVersion
serverVars == <<orgs, home, version, setting>>
pageVars == <<cur, workspace, listed, apps, sel, panel, loading, bundles>>
cacheVars == <<portal, overview>>
handlerVars == <<pc, app, to, row, answer>>
vars == <<serverVars, pageVars, cacheVars, handlerVars, doubtful>>

Empty == [insights |-> None, of |-> None]
Full(a, v) == [insights |-> <<a, v>>, of |-> a]
Portals == [org : Orgs, setting : Versions, orgs : SUBSET Orgs, apps : [Apps -> Versions \cup {None}]]

TypeOK ==
  /\ orgs \subseteq Orgs /\ home \in [Apps -> Orgs \cup {"new", "gone"}]
  /\ version \in [Apps -> Versions] /\ setting \in [Orgs -> Versions]
  /\ cur \in Orgs /\ workspace \in Orgs \X Versions /\ listed \subseteq Orgs
  /\ apps \in [Apps -> Versions \cup {None}] /\ sel \in Apps \cup {None}
  /\ panel \in [insights : (Apps \X Versions) \cup {None}, of : Apps \cup {None}] /\ loading \in BOOLEAN
  /\ bundles \in [Apps -> Versions \cup {None}]
  /\ \A o \in Orgs : portal[o] = None \/ portal[o] \in Portals
  /\ overview \in [Apps -> [v : Versions \cup {None}, fresh : BOOLEAN]]
  /\ pc \in [Clicks -> {"idle", "portal", "overview", "list", "saved", "created", "deleted",
                        "settled", "changed", "workspace", "founded"}]
  /\ app \in [Clicks -> Apps \cup {None}] /\ to \in [Clicks -> Orgs \cup {None}]
  /\ \A x \in Clicks : row[x] \in Versions \cup {None} /\ answer[x] \in Portals \cup {None}
  /\ doubtful \in BOOLEAN

\* GET /organizations/bootstrap.
Portal(o) ==
  [org |-> o, setting |-> setting[o], orgs |-> orgs,
   apps |-> [a \in Apps |-> IF home[a] = o THEN version[a] ELSE None]]

Init ==
  /\ orgs = {First} /\ home = [a \in Apps |-> "new"]
  /\ version = [a \in Apps |-> 0] /\ setting = [o \in Orgs |-> 0]
  /\ cur = First /\ workspace = <<First, 0>> /\ listed = {First}
  /\ apps = [a \in Apps |-> None] /\ sel = None /\ panel = Empty /\ loading = FALSE
  /\ bundles = [a \in Apps |-> None]
  /\ portal = [o \in Orgs |-> None] /\ overview = [a \in Apps |-> [v |-> None, fresh |-> FALSE]]
  /\ pc = [x \in Clicks |-> "idle"] /\ app = [x \in Clicks |-> None] /\ to = [x \in Clicks |-> None]
  /\ row = [x \in Clicks |-> None] /\ answer = [x \in Clicks |-> None]
  /\ doubtful = FALSE

Busy == {x \in Clicks : pc[x] # "idle"}

\* The user clicks.  Opening one application after another is no overlap.  Of
\* a page in doubt nothing is claimed until it is loaded again, and nobody
\* clicks on in it: this bounds the instances.
Starts(x) ==
  /\ pc[x] = "idle" /\ ~doubtful
  /\ doubtful' = (doubtful \/ Busy # {})

StartsReading(x) ==
  /\ pc[x] = "idle" /\ ~doubtful
  /\ doubtful' = (doubtful \/ \E y \in Busy : pc[y] # "overview")

Waits(x, step, a, o, v) ==
  /\ pc' = [pc EXCEPT ![x] = step]
  /\ app' = [app EXCEPT ![x] = a]
  /\ to' = [to EXCEPT ![x] = o]
  /\ row' = [row EXCEPT ![x] = v]
  /\ answer' = [answer EXCEPT ![x] = None]

AsksPortal(x, a, data) ==
  /\ pc' = [pc EXCEPT ![x] = "portal"]
  /\ app' = [app EXCEPT ![x] = a]
  /\ to' = [to EXCEPT ![x] = None]
  /\ row' = [row EXCEPT ![x] = None]
  /\ answer' = [answer EXCEPT ![x] = data]

Ends(x) == Waits(x, "idle", None, None, None)

StaleBug(cache) == cache

\* invalidateQueries: what is cached must be read again.  Nothing looks at a
\* portal that is stale.
Stale(cache) == [o \in Orgs |-> None]

StaleOverview(a) == [overview EXCEPT ![a].fresh = FALSE]

\* fetchQuery: what the cache has, while it is fresh, or else the server.
PortalAnswer(o) == IF portal[o] # None THEN portal[o] ELSE Portal(o)
OverviewAnswer(a, cache) == IF cache[a].fresh THEN cache[a].v ELSE version[a]

\* loadSelectedApp shows what is kept, or clears the panels, and asks.
LoadSelected(x, a, cache, kept) ==
  LET v == IF cache[a].v # None THEN cache[a].v ELSE kept[a] IN
  /\ panel' = IF v # None THEN Full(a, v) ELSE Empty
  /\ loading' = (v = None)
  /\ bundles' = kept
  /\ Waits(x, "overview", a, None, OverviewAnswer(a, cache))

Forgotten == [a \in Apps |-> None]

-----------------------------------------------------------------------------
(* Reading.                                                                *)

\* openApp.
OpenApp(x) ==
  /\ StartsReading(x)
  /\ \E a \in Apps :
       /\ apps[a] # None
       /\ sel' = a
       /\ LoadSelected(x, a, overview, bundles)
  /\ UNCHANGED <<serverVars, cacheVars, cur, workspace, listed, apps>>

Mine(a) == sel = a

\* loadSelectedApp, from the answer on.
ShowApp(x) ==
  LET a == app[x]  v == row[x] IN
  /\ pc[x] = "overview"
  /\ overview' = [overview EXCEPT ![a] = [v |-> v, fresh |-> TRUE]]
  /\ bundles' = [bundles EXCEPT ![a] = v]
  /\ IF Mine(a) THEN panel' = Full(a, v) /\ loading' = FALSE ELSE UNCHANGED <<panel, loading>>
  /\ Ends(x)
  /\ UNCHANGED <<serverVars, portal, cur, workspace, listed, apps, sel, doubtful>>

\* loadAppIdentitiesPage, loadAppActivityPage: a longer list of the open one.
MoreOfList(x) ==
  /\ Starts(x)
  /\ sel # None
  /\ Waits(x, "list", sel, None, None)
  /\ UNCHANGED <<serverVars, pageVars, cacheVars>>

ShowList(x) ==
  /\ pc[x] = "list"
  /\ panel' = [panel EXCEPT !.of = app[x]]
  /\ Ends(x)
  /\ UNCHANGED <<serverVars, cacheVars, cur, workspace, listed, apps, sel, loading, bundles, doubtful>>

\* openWorkspace, and openApp with nothing.
CloseApp ==
  /\ sel # None /\ ~doubtful
  /\ sel' = None /\ panel' = Empty
  /\ loading' \in {loading, FALSE}
  /\ doubtful' = (doubtful \/ \E y \in Busy : pc[y] # "overview")
  /\ UNCHANGED <<serverVars, cacheVars, handlerVars, cur, workspace, listed, apps, bundles>>

\* switchOrganization.
SwitchOrganization(x) ==
  /\ Starts(x)
  /\ \E o \in listed :
       /\ o # cur
       /\ AsksPortal(x, None, PortalAnswer(o))
  /\ sel' = None /\ panel' = Empty /\ loading' = FALSE /\ bundles' = Forgotten
  /\ UNCHANGED <<serverVars, cacheVars, cur, workspace, listed, apps>>

\* loadPortal, from the answer on; a moved application is opened again.
ShowPortal(x) ==
  LET data == answer[x]  kept == IF sel = None \/ data.apps[sel] # None THEN sel ELSE None IN
  /\ pc[x] = "portal"
  /\ cur' = data.org /\ workspace' = <<data.org, data.setting>> /\ listed' = data.orgs /\ apps' = data.apps
  /\ portal' = [portal EXCEPT ![data.org] = data]
  /\ sel' = kept
  /\ IF app[x] # None
       THEN LoadSelected(x, app[x], overview, bundles)
       ELSE /\ Ends(x)
            /\ panel' = IF kept = sel THEN panel ELSE Empty
            /\ UNCHANGED <<loading, bundles>>
  /\ UNCHANGED <<serverVars, overview, doubtful>>

-----------------------------------------------------------------------------
(* Applications: what the server does, then what the page does with it.    *)

\* handleCreate, into the workspace that is current.
SendCreate(x) ==
  /\ Starts(x)
  /\ \E a \in Apps :
       /\ home[a] = "new"
       /\ home' = [home EXCEPT ![a] = cur]
       /\ Waits(x, "created", a, None, None)
  /\ UNCHANGED <<orgs, version, setting, pageVars, cacheVars>>

\* Its panels are loaded though it is not opened.
Create(x) ==
  /\ pc[x] = "created"
  /\ apps' = [apps EXCEPT ![app[x]] = 0]
  /\ portal' = [portal EXCEPT ![cur] = None]
  /\ LoadSelected(x, app[x], overview, Forgotten)
  /\ doubtful' = (doubtful \/ sel # None)
  /\ UNCHANGED <<serverVars, overview, cur, workspace, listed, sel>>

\* handleSaveApp; the form may name another workspace.
SendSave(x) ==
  /\ Starts(x)
  /\ \E a \in Apps, o \in listed :
       /\ sel = a /\ apps[a] # None /\ home[a] \in orgs
       /\ version[a] < MaxVersion
       /\ version' = [version EXCEPT ![a] = @ + 1]
       /\ home' = [home EXCEPT ![a] = o]
       /\ Waits(x, "saved", a, IF o = cur THEN None ELSE o, version[a] + 1)
  /\ UNCHANGED <<orgs, setting, pageVars, cacheVars>>

\* An application that moved takes the page along.
Save(x) ==
  LET a == app[x]  v == row[x]  left == StaleOverview(a) IN
  /\ pc[x] = "saved"
  /\ overview' = left
  /\ portal' = Stale(portal)
  /\ IF to[x] # None
       THEN /\ sel' = a /\ bundles' = Forgotten
            /\ AsksPortal(x, a, Portal(to[x]))
            /\ UNCHANGED <<panel, loading, apps>>
       ELSE /\ apps' = [apps EXCEPT ![a] = IF @ = None THEN None ELSE v]
            /\ LoadSelected(x, a, left, [bundles EXCEPT ![a] = None])
            /\ UNCHANGED sel
  /\ UNCHANGED <<serverVars, cur, workspace, listed, doubtful>>

\* handleCreateResource, handleDeleteResource.
SendResource(x) ==
  /\ Starts(x)
  /\ \E a \in Apps :
       /\ sel = a /\ home[a] \in orgs
       /\ version[a] < MaxVersion
       /\ version' = [version EXCEPT ![a] = @ + 1]
       /\ Waits(x, "saved", a, None, version[a] + 1)
  /\ UNCHANGED <<orgs, home, setting, pageVars, cacheVars>>

\* handleConfirmDelete.
SendDelete(x) ==
  /\ Starts(x)
  /\ \E a \in Apps :
       /\ sel = a /\ home[a] \in orgs
       /\ home' = [home EXCEPT ![a] = "gone"]
       /\ Waits(x, "deleted", a, None, None)
  /\ UNCHANGED <<orgs, version, setting, pageVars, cacheVars>>

Delete(x) ==
  LET a == app[x] IN
  /\ pc[x] = "deleted"
  /\ portal' = Stale(portal)
  /\ overview' = [overview EXCEPT ![a] = [v |-> None, fresh |-> FALSE]]
  /\ apps' = [apps EXCEPT ![a] = None]
  /\ bundles' = [bundles EXCEPT ![a] = None]
  /\ IF sel = a THEN sel' = None /\ panel' = Empty ELSE UNCHANGED <<sel, panel>>
  /\ Ends(x)
  /\ UNCHANGED <<serverVars, cur, workspace, listed, loading, doubtful>>

-----------------------------------------------------------------------------
(* The workspace.                                                          *)

SendsChange(x, step) ==
  /\ Starts(x)
  /\ LET o == workspace[1] IN
       /\ setting[o] < MaxVersion
       /\ setting' = [setting EXCEPT ![o] = @ + 1]
       /\ Waits(x, step, None, o, setting[o] + 1)
  /\ UNCHANGED <<orgs, home, version, pageVars, cacheVars>>

\* handleWorkspaceRename, handleDomainAdd, handleWorkspaceLogoUpload: what
\* comes back is put into whatever workspace is shown.
SendSetting(x) == SendsChange(x, "settled")

\* handleInvite, handleRoleChange: the workspace is read again and shown.
SendMember(x) == SendsChange(x, "changed")

Settle(x) ==
  /\ pc[x] = "settled"
  /\ portal' = Stale(portal)
  /\ workspace' = <<workspace[1], row[x]>>
  /\ Ends(x)
  /\ UNCHANGED <<serverVars, overview, cur, listed, apps, sel, panel, loading, bundles, doubtful>>

ReadWorkspace(x) ==
  /\ pc[x] = "changed"
  /\ portal' = Stale(portal)
  /\ Waits(x, "workspace", None, to[x], setting[to[x]])
  /\ UNCHANGED <<serverVars, pageVars, overview, doubtful>>

ShowWorkspace(x) ==
  /\ pc[x] = "workspace"
  /\ workspace' = <<to[x], row[x]>>
  /\ Ends(x)
  /\ UNCHANGED <<serverVars, cacheVars, cur, listed, apps, sel, panel, loading, bundles, doubtful>>

\* handleCreateOrganization.
SendOrganization(x) ==
  /\ Starts(x)
  /\ \E o \in Orgs \ orgs :
       /\ orgs' = orgs \cup {o}
       /\ Waits(x, "founded", None, o, None)
  /\ UNCHANGED <<home, version, setting, pageVars, cacheVars>>

FoundOrganization(x) ==
  /\ pc[x] = "founded"
  /\ portal' = Stale(portal)
  /\ AsksPortal(x, None, Portal(to[x]))
  /\ UNCHANGED <<serverVars, pageVars, overview, doubtful>>

-----------------------------------------------------------------------------
\* A request fails or its answer is lost.  An application that moved is opened
\* all the same.
Fail(x) ==
  /\ pc[x] # "idle"
  /\ IF pc[x] = "portal" /\ app[x] # None
       THEN LoadSelected(x, app[x], overview, bundles)
       ELSE LET shown == pc[x] = "overview" /\ Mine(app[x]) IN
            /\ loading' = (loading /\ ~shown)
            /\ panel' \in {panel} \cup (IF shown THEN {Empty} ELSE {})
            /\ Ends(x)
            /\ UNCHANGED bundles
  /\ doubtful' = TRUE
  /\ UNCHANGED <<serverVars, cur, workspace, listed, apps, sel, cacheVars>>

\* Thirty seconds pass.
Age ==
  /\ ~doubtful
  /\ portal' = Stale(portal)
  /\ overview' = [a \in Apps |-> [overview[a] EXCEPT !.fresh = FALSE]]
  /\ UNCHANGED <<serverVars, pageVars, handlerVars, doubtful>>

\* Another admin changes an application.
Elsewhere ==
  /\ ~doubtful
  /\ \E a \in Apps :
       /\ home[a] \in orgs /\ version[a] < MaxVersion
       /\ version' = [version EXCEPT ![a] = @ + 1]
  /\ doubtful' = TRUE
  /\ UNCHANGED <<orgs, home, setting, pageVars, cacheVars, handlerVars>>

\* The page is loaded again, with an empty cache.
Reload ==
  /\ \E o \in orgs :
       LET data == Portal(o) IN
         cur' = o /\ workspace' = <<o, data.setting>> /\ listed' = data.orgs /\ apps' = data.apps
  /\ sel' = None /\ panel' = Empty /\ loading' = FALSE /\ bundles' = Forgotten
  /\ portal' = [o \in Orgs |-> None]
  /\ overview' = [a \in Apps |-> [v |-> None, fresh |-> FALSE]]
  /\ pc' = [x \in Clicks |-> "idle"] /\ app' = [x \in Clicks |-> None] /\ to' = [x \in Clicks |-> None]
  /\ row' = [x \in Clicks |-> None] /\ answer' = [x \in Clicks |-> None]
  /\ doubtful' = FALSE
  /\ UNCHANGED serverVars

Next ==
  \/ \E x \in Clicks :
       \/ OpenApp(x) \/ ShowApp(x) \/ MoreOfList(x) \/ ShowList(x) \/ SwitchOrganization(x) \/ ShowPortal(x)
       \/ SendCreate(x) \/ Create(x) \/ SendSave(x) \/ Save(x) \/ SendResource(x) \/ SendDelete(x) \/ Delete(x)
       \/ SendSetting(x) \/ SendMember(x) \/ Settle(x) \/ ReadWorkspace(x) \/ ShowWorkspace(x)
       \/ SendOrganization(x) \/ FoundOrganization(x) \/ Fail(x)
  \/ CloseApp \/ Age \/ Elsewhere \/ Reload

Spec == Init /\ [][Next]_vars

-----------------------------------------------------------------------------
(* Properties.                                                             *)

\* A page at rest shows the workspaces, the current one with its applications,
\* and the panels of the application that is open, as the server has them,
\* unless handlers other than those that open an application overlapped, one
\* failed, an application was created over an open one, or another admin came.
QuietConsoleAgrees ==
  ~doubtful /\ Busy = {} =>
    /\ listed = orgs /\ workspace = <<cur, setting[cur]>>
    /\ apps = Portal(cur).apps
    /\ sel # None => panel = Full(sel, version[sel]) /\ apps[sel] # None /\ ~loading
=============================================================================
