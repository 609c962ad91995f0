SPECIFICATION Spec
CONSTANTS
  Tabs = {ta, tb}
  Tokens = {k1, k2, k3}
  NoTab = NoTab
  NoSnapshot = NoSnapshot
  Refused = Refused
  Denied = Denied
  Locks = TRUE
  RefusalSignsOut = TRUE
  AppKeys = {FALSE}
  MaxInbox = 1
SYMMETRY Symmetry
INVARIANTS StoredTokenGood NoSpontaneousSignOut QuietTabsAgree
