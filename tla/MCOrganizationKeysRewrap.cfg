CONSTANTS
  Identities = {f, a}
  Founder = f
  Handlers = {h1}
  Ops = {"remove"}
  None = None
  Keyrings = {k1, k2}
  KeyHandlers = {g1, g2}
SPECIFICATION Spec
PROPERTY RewrapsForMembersOnly
