CONSTANTS
  Requests = {q1, q2}
  Keys = {k1, k2, k3}
  Handlers = {h1, h2, h3}
  LegacyKey = LegacyKey
  None = None
SPECIFICATION Spec
SYMMETRY Symmetry
INVARIANTS SignatureMatchesStatus SignedWithKeyOfItsTime
PROPERTIES QuietResolutionFinal KeyKept
CHECK_DEADLOCK FALSE
