SPECIFICATION Spec
CONSTANTS
  Proposals <- MCProposals
  Contexts <- ContextRecords
  Chains <- MCChains
  MaxPasses = 3
  MaxError = 1
  UsableLo = 10
  UsableHi = 16
  MaxEirp = 5
  MaxPfd = 6
  Orders = {2, 4}
  MaxPapr = 7
  Floor = 3
  Ues = {u1, u2}
  ProtectedUes = {u1}
  MinTxPower <- MinusTwo
INVARIANTS EmittedSafe VerdictHonest LeastChange ChangesAudited
CHECK_DEADLOCK FALSE
