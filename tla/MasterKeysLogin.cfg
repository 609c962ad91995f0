CONSTANTS
  Accounts = {a, b}
  Tabs = {t1}
  Apart = FALSE
  None = None
SPECIFICATION Spec
INVARIANT LoginFindsOwnKey
