CONSTANTS
  Flows = {f1, f2}
  Recoverers = {r1}
  Exchanged = {f1}
  Wants <- SomeWants
  Connections = {k1, k2}
  Exchanges = {x1}
  Scopes = {s1, s2}
  Domains = {d1, d2}
  SsoConnectionIds = {c1}
  Verifications = {v1, v2}
  Updates = {u1}
  Patches = {p1}
  Logins = {l1, l2}
  Surfaces = {d1, d2}
  Kinds = {"mount", "sheet", "popup", "connectorSheet", "connectorPopup", "signingSheet", "signingPopup"}
  Codes = 2
  Windows = 2
  Posted = 1
  Tabs = {d1, d2}
  Starts = {v1, v2}
  Finishes = {l1, l2}
  None = None
SPECIFICATION MCSpec
SYMMETRY Symmetry
CONSTRAINT FourRequests
INVARIANTS AttachedDomainsProved
CHECK_DEADLOCK FALSE
