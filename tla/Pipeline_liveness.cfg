CONSTANTS
  e1 = e1
  e2 = e2
  v1 = v1
  v2 = v2
  Elections = {e1}
  Voters = {v1, v2}
  Undecided <- NoTies
  FaultKinds <- MaskedFaults
  MaxFaults = 2
SPECIFICATION FairSpec
PROPERTIES
  ClosedGetsResult
  TallyJobFinishes
  DueElectionCloses
  DueElectionIsPublished
