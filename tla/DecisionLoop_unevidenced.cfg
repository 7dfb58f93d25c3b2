SPECIFICATION Spec

CONSTANTS
  e1 = e1
  e2 = e2
  e3 = e3
  EventIds = {e1, e2, e3}
  NoEvent = NoEvent
  Source <- TwoEvents
  MaxDecisions = 4
  MaxRuns = 1

CHECK_DEADLOCK FALSE

INVARIANTS
  EvidencedOnly
