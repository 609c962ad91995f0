CONSTANTS
  Requests = {q1, q2}
  Keys = {k1, k2}
  Handlers = {h1, h2}
  LegacyKey = LegacyKey
  None = None
SPECIFICATION Spec
INVARIANT SignatureOnlyWhenSigned
CHECK_DEADLOCK FALSE
