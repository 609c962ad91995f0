CONSTANTS
  Approvers = {a1, a2}
  Polls = {p1, p2}
  MaxFailures = 1
  None = None
SPECIFICATION FairSpec
INVARIANTS OneSession OneDecision ApprovalReachesPage
PROPERTY WaitingEnds
CHECK_DEADLOCK FALSE
