CONSTANTS
  Challenges = {c1}
  Logins = {u1, u2}
  Calls = {q1}
  OldKeys = {k1}
  NewKeys = {n1}
  Deletions = {d1, d2}
  Pages = {u1, u2}
  Indices = {1, 2}
  Uses = {u1, u2}
  Accounts = {a, b}
  Tabs = {u1, u2}
  Apart = TRUE
  Tries = 2
  Old = {i1, i2}
  First = i1
  Creations = {n1, n2}
  Choices = {h1, h2}
  IdentityDeletions = {x2}
  Limit = 3
  Emails = {e1, e2}
  Mailings = {u1, u2}
  Checks = {k1}
  Clears = {x1}
  PictureIds = {i1, i2}
  Sockets = {u1, u2}
  Before = {f1}
  Uploads = {u1, u2}
  Removals = {r1}
  Clients = {d1}
  Request = q1
  SigningKeys = {i1, i2}
  LegacyKey = LegacyKey
  RateRequests = {u1, u2, n1}
  Rules = {"open", "closed"}
  Traffic <- SomeTraffic
  FailClosed = {"closed"}
  Quota = 1
  Window = 3
  Second = 2
  Horizon = 4
  Color = Color
  None = None
SPECIFICATION MCSpec
SYMMETRY Symmetry
CONSTRAINT OnePageOrKey
INVARIANTS TypesOK LastPasskeyKept SessionGrounded CodesProve KeysStayApart AccountWhole HostHearsTruth LoneRequestsKeep
CHECK_DEADLOCK FALSE
