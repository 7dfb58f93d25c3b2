SPECIFICATION FairSpec

CONSTANTS
  e1 = e1
  e2 = e2
  e3 = e3
  EventIds = {e1, e2, e3}
  NoEvent = NoEvent
  Source <- TwoEvents
  MaxDecisions = 3
  MaxRuns = 2

CHECK_DEADLOCK FALSE

PROPERTIES
  SourceDrained
  StopHonoured
