CONSTANTS
  t1 = t1
  t2 = t2
  b1 = b1
  b2 = b2
  ann = ann
  bob = bob
  NoUser = NoUser
  Users = {ann}
  Browsers = {b1}
  BrowserOf <- TwoTabs
  LossKinds = {"failed", "aborted"}
  MaxLosses = 1
  MaxSessions = 1
  MaxAged = 1
  Pages = {"profile", "other"}
  MaxCalls = 1
CHECK_DEADLOCK FALSE
SPECIFICATION FairSpec
PROPERTIES
  AgedPairIsReplaced
