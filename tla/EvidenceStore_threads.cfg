SPECIFICATION Spec

CONSTANTS
  p1 = p1
  p2 = p2
  t1 = t1
  t2 = t2
  t3 = t3
  tA = tA
  d1 = d1
  d2 = d2
  d3 = d3
  NoThread = NoThread
  NoTenant = NoTenant
  Unscoped = Unscoped
  Backend = "jsonl"
  Instances = {p1}
  Threads = {t1, t2}
  InstanceOf <- OneProcess
  Tenants = {tA, Unscoped}
  Decisions = {d1, d2}
  MaxRows = 3
  MaxEdits = 1

SYMMETRY Symmetry

VIEW Unacked

INVARIANTS
  ChainLinear
  LossNoticed
  VerifyExact
