CONSTANTS
  e1 = e1
  e2 = e2
  v1 = v1
  v2 = v2
  Elections = {e1, e2}
  Voters = {v1}
  Undecided <- NoTies
  FaultKinds <- WorkerFaults
  MaxFaults = 1
SPECIFICATION Spec
SYMMETRY ElectionSymmetry
INVARIANTS
  JobRefersToNewestResult
  OneTallyJobPerElection
