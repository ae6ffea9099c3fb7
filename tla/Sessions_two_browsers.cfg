CONSTANTS
  t1 = t1
  t2 = t2
  b1 = b1
  b2 = b2
  ann = ann
  bob = bob
  NoUser = NoUser
  Users = {ann, bob}
  Browsers = {b1, b2}
  BrowserOf <- TwoBrowsers
  LossKinds = {"failed"}
  MaxLosses = 1
  MaxSessions = 2
  MaxAged = 1
  Pages = {"profile"}
  MaxCalls = 1
CHECK_DEADLOCK FALSE
SPECIFICATION Spec
SYMMETRY Symmetric
INVARIANTS
  TypeOK
  OneActiveSession
  OnlyNewestPairVerifies
  ExchangedOnce
  SoleTabStaysCurrent
  SettledTabShowsItsUser
