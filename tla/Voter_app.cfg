CONSTANTS
  c1 = c1
  c2 = c2
  c3 = c3
  Empty = Empty
CHECK_DEADLOCK FALSE
SPECIFICATION FairSpec
INVARIANTS
  TypeOK
  ReadyIsAccepted
  ShownPlaceIsSent
  RepeatIsOkAgain
  NoticesAreTrue
PROPERTIES
  RecordsOneBallotForGood
  VerifiedByLiveCode
  LockIsFreedAgain
  SuccessIsShown
