SPECIFICATION FairSpec

CONSTANTS
  p1 = p1
  p2 = p2
  t1 = t1
  t2 = t2
  t3 = t3
  tA = tA
  d1 = d1
  d2 = d2
  d3 = d3
  NoThread = NoThread
  NoTenant = NoTenant
  Unscoped = Unscoped
  Backend = "postgres"
  Instances = {p1, p2}
  Threads = {t1, t2}
  InstanceOf <- TwoProcesses
  Tenants = {Unscoped}
  Decisions = {d1, d2}
  MaxRows = 3
  MaxEdits = 0

PROPERTIES
  ImplementsLedger
  LockReleased
