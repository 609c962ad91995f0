CONSTANTS
  Approvers = {a1, a2}
  Polls = {p1, p2}
  MaxFailures = 1
  None = None
SPECIFICATION Spec
INVARIANT SessionSignsIn
CHECK_DEADLOCK FALSE
