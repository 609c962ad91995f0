------------------------ MODULE MCOrganizationMembers ------------------------
(* OrganizationMembers and, side by side with it, the tables of the          *)
(* developer portal and the two consoles, on small instances: they share no  *)
(* state, and the first state chooses one of them.                           *)
EXTENDS OrganizationMembers, FiniteSets, TLC

CONSTANTS
  Users, OldOrgs, OldApps, OldResources, Owner, Workspaces, First, Apps,
  MaxVersion

VARIABLES
  part,
  org, portalRole, slug, app, resource, row, portalPc, want, read, personal,
  expected, crossed, raced,
  orgs, home, version, setting, cur, workspace, listed, apps, sel, panel,
  loading, bundles, portal, overview, developerPc, developerApp, to,
  developerRow, answer, doubtful,
  consoleOrgs, consoleVersion, logo, consoleListed, selected, detail,
  section, audited, busy, uploading, consoleLoading, consolePc, kind, about,
  next, full, consoleRow, consoleDoubtful, astray

portalVars ==
  <<org, portalRole, slug, app, resource, row, portalPc, want, read,
    personal, expected, crossed, raced>>
developerVars ==
  <<orgs, home, version, setting, cur, workspace, listed, apps, sel, panel,
    loading, bundles, portal, overview, developerPc, developerApp, to,
    developerRow, answer, doubtful>>
consoleVars ==
  <<consoleOrgs, consoleVersion, logo, consoleListed, selected, detail,
    section, audited, busy, uploading, consoleLoading, consolePc, kind,
    about, next, full, consoleRow, consoleDoubtful, astray>>

P == INSTANCE Portal WITH
       Requests <- Handlers, role <- portalRole, pc <- portalPc
D == INSTANCE DeveloperConsole WITH
       Orgs <- Workspaces, Clicks <- Handlers, pc <- developerPc,
       app <- developerApp, row <- developerRow
O == INSTANCE OrganizationConsole WITH
       Orgs <- Workspaces, Clicks <- Handlers, orgs <- consoleOrgs,
       version <- consoleVersion, listed <- consoleListed,
       loading <- consoleLoading, pc <- consolePc, row <- consoleRow,
       doubtful <- consoleDoubtful

\* A new organization, application or resource is named by the request that makes
\* it, and is none of those that are there at the start (Portal).
ASSUME PortalAssumption ==
  /\ Owner \in Users /\ OldOrgs # {} /\ IsFiniteSet(OldOrgs)
  /\ Handlers \cap OldOrgs = {} /\ Handlers \cap OldApps = {}
  /\ Handlers \cap OldResources = {} /\ None \notin Handlers

\* A workspace is there at the start; None is nothing that a page could show, and
\* where an application is before and after its life no workspace is.
ASSUME DeveloperAssumption ==
  /\ First \in Workspaces /\ MaxVersion \in Nat
  /\ None \notin Apps /\ None \notin Workspaces /\ None \notin D!Versions
  /\ "new" \notin Workspaces /\ "gone" \notin Workspaces

ASSUME ConsoleAssumption ==
  None \notin O!Versions /\ None \notin O!Versions \X O!Versions

\* The properties are invariants and action properties, which it respects; the
\* requests and clicks are named by Handlers, the applications of the page by
\* identities that are not the founder.
Symmetry == Permutations(Identities \ {Founder}) \cup Permutations(Handlers)

\* The variables of the parts that do not run stay None.
PortalIdle ==
  /\ org = None /\ portalRole = None /\ slug = None /\ app = None
  /\ resource = None /\ row = None /\ portalPc = None /\ want = None
  /\ read = None /\ personal = None /\ expected = None /\ crossed = None
  /\ raced = None

DeveloperIdle ==
  /\ orgs = None /\ home = None /\ version = None /\ setting = None
  /\ cur = None /\ workspace = None /\ listed = None /\ apps = None
  /\ sel = None /\ panel = None /\ loading = None /\ bundles = None
  /\ portal = None /\ overview = None /\ developerPc = None
  /\ developerApp = None /\ to = None /\ developerRow = None
  /\ answer = None /\ doubtful = None

ConsoleIdle ==
  /\ consoleOrgs = None /\ consoleVersion = None /\ logo = None
  /\ consoleListed = None /\ selected = None /\ detail = None
  /\ section = None /\ audited = None /\ busy = None /\ uploading = None
  /\ consoleLoading = None /\ consolePc = None /\ kind = None
  /\ about = None /\ next = None /\ full = None /\ consoleRow = None
  /\ consoleDoubtful = None /\ astray = None

MCInit ==
  /\ part \in {"members", "portal", "developer", "console"}
  /\ Init
  /\ IF part = "portal" THEN P!Init ELSE PortalIdle
  /\ IF part = "developer" THEN D!Init ELSE DeveloperIdle
  /\ IF part = "console" THEN O!Init ELSE ConsoleIdle

MCNext ==
  /\ UNCHANGED part
  /\ \/ part = "members" /\ Next
        /\ UNCHANGED <<portalVars, developerVars, consoleVars>>
     \/ part = "portal" /\ P!Next
        /\ UNCHANGED <<vars, developerVars, consoleVars>>
     \/ part = "developer" /\ D!Next
        /\ UNCHANGED <<vars, portalVars, consoleVars>>
     \/ part = "console" /\ O!Next
        /\ UNCHANGED <<vars, portalVars, developerVars>>

mcVars ==
  <<part, vars, portalVars, developerVars, consoleVars>>

MCSpec == MCInit /\ [][MCNext]_mcVars

\* Each part keeps to the types of its tables, pages and handlers.
TypesOK ==
  /\ part = "members" => TypeOK
  /\ part = "portal" => P!TypeOK
  /\ part = "developer" => D!TypeOK
  /\ part = "console" => O!TypeOK

\* An organization has an owner, and a user without any gets one workspace.
WorkspacesWhole == part = "portal" => P!WorkspacesWhole

\* What nobody overlapped stands: a row of the portal is what was asked for, and
\* a page at rest shows what the server has.
QuietPagesAgree ==
  /\ TypesOK
  /\ part = "portal" => P!LoneEditsKeep
  /\ part = "developer" => D!QuietConsoleAgrees
  /\ part = "console" => O!QuietPageAgrees
==============================================================================
