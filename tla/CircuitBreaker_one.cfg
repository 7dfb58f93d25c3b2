SPECIFICATION FairSpec

CONSTANTS
  Breakers = {a1}
  Calls = {c1, c2, c3}
  FailMax = 3
  ResetTimeout = 2

INVARIANTS
  ClosedBelowThreshold
  AlarmTellsState

PROPERTIES
  WindowRespected
  Recovers
