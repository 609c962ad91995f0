CONSTANTS
  Tokens = {t1, t2, t3}
  Requests = {r1, r2}
  NoToken = NoToken
SPECIFICATION Spec
INVARIANT LineageInvalidated
