CONSTANTS
  Pages = {p1, p2}
  Indices = {1, 2}
  Uses = {u1}
  None = None
SPECIFICATION Spec
INVARIANT KeylessChangesNothing
