SPECIFICATION Spec

CONSTANTS
  Breakers = {a1, r1}
  Calls = {c1, c2}
  FailMax = 1
  ResetTimeout = 1

INVARIANTS
  OpenIsAlarmed
