CONSTANTS
  Identities = {f, a, b}
  Founder = f
  Handlers = {h1, h2}
  Ops = {"add", "patch", "remove", "invite", "setRole"}
  Users = {u1, u2}
  OldOrgs = {o1}
  OldApps = {a1}
  OldResources = {s1}
  Owner = u1
  Workspaces = {o1, o2}
  First = o1
  Apps = {a, b}
  MaxVersion = 1
  None = None
SPECIFICATION MCSpec
SYMMETRY Symmetry
INVARIANTS WorkspacesWhole QuietPagesAgree
PROPERTIES OwnersYieldToOwners OwnersMadeByOwners
CHECK_DEADLOCK FALSE
