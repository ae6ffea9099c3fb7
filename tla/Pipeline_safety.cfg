CONSTANTS
  e1 = e1
  e2 = e2
  v1 = v1
  v2 = v2
  Elections = {e1}
  Voters = {v1, v2}
  Undecided <- OppositeBallots
  FaultKinds <- AllFaults
  MaxFaults = 2
SPECIFICATION Spec
INVARIANTS
  TypeOK
  ResultsIffReady
  CountsEveryBallotInTime
  PublishedIffStamped
  JobRefersToNewestResult
  OneTallyJobPerElection
PROPERTIES
  JobNeverReopens
  ImplementsLifecycle
