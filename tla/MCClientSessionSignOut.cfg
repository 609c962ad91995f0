SPECIFICATION Spec
CONSTANTS
  Tabs = {ta, tb}
  Tokens = {k1, k2}
  NoTab = NoTab
  NoSnapshot = NoSnapshot
  Refused = Refused
  Denied = Denied
  Locks = TRUE
  RefusalSignsOut = TRUE
  AppKeys = {FALSE}
  MaxInbox = 1
SYMMETRY Symmetry
PROPERTIES OnlySignInStores
