SPECIFICATION FairSpec

CONSTANTS
  s1 = s1  s2 = s2
  Planners = {s1, s2}
  MaxEmits = 3
  MaxStarts = 2

  Modes = {"smo_unreachable", "telemetry_dropped"}
  MaxRecords = 1
  MaxDecisions = 1

  WatchdogInterval = 2
  WatchdogMaxAge = 4
  ProbePeriod = 1
  LagMax = 1
  PlannerSilence = 3
  Providers = {"evidence"}

  LoopThreads = {s1, s2}
  MaxTransitions = 4

  A1Dialects = {"osc", "osc_a1"}
  A1Types = {"qos", "steering"}
  PolicyIds = {s1, s2}
  EventRisks = {29, 59}
  A1Callers = {s1, s2}
  MaxA1Calls = 2

  AuthRequests = {s1, s2}
  TokenLife = 3
  TokenMargin = 1
  MaxClock = 4

  O1Tasks = {s1, s2}
  MaxSessions = 2
  PollLimit = 1

  Users = {s1}
  Tenants = {"alpha", "bravo"}
  Roles = {"operator"}
  Clis = {s1, s2}
  Overlap = 2
  MaxSkew = 1
  Ttls = {2}
  MaxKeys = 3
  MaxTokens = 1
  MaxCommands = 2
  MaxAcTime = 2

  Labels = {s1, s2}
  MaxHsmKeys = 3
  MaxOutputs = 1
  Signers = {s1, s2}

  Handlers = {s1, s2}
  MaxRows = 3

  AuthWindow = 1
  MinSamples = 2
  ThresholdPct = 50
  MaxEvents = 2
  SlaThreshold = 95
  SlaProbabilities = {94, 95}
  MaxNisTime = 2
  MaxAuthEvents = 3
  MaxTriggers = 1

  Steppers = {s1, s2}
  Readings = {1, 9}
  MinShadow = 2
  WarnAt = 5
  RejectAt = 7
  MaxSteps = 2

  Shas = {s1, s2}
  Vaults = {s1, s2}
  MaxStores = 3

  BuiltIns <- ShippedPlugins
  EntryPoints <- Plugins
  Registered <- OwnPlugins
  RegThreads = {s1, s2}
  MaxChains = 1

  Topic <- TopicWithOneBad
  MaxRuns = 2

  Writers = {s1, s2}
  Schemas <- MixedSchemas
  MaxAttempts = 2
  MaxReplays = 1

  KpmReported = {"RRU.PrbTotDl", "DRB.UEThpDl"}
  KpmValues = {40, 150, 9999}
  HighWords = {2}
  WordBase = 16
  WindowLow = 32
  CalendarEnd = 80
  WindowEnd = 144
  MaxKpmEvents = 2

  GroupP = 23
  FieldQ = 11
  GroupG = 2
  SharePrime = 11
  Shares = 4
  Threshold = 3
  UpdateValues <- SignedUpdates
  NoiseValues <- DrawnNoise
  ClipNorm = 10
  MaskValues = {4, 10}
  MaxContributions = 2

  Optima <- ClientData
  PoisonRoles = {"honest", "reward_poison", "qtable_target"}
  TargetQ = 50
  FedMethods = {"fedavg", "median", "trimmed_mean", "krum"}
  MaxRounds = 2
  Subjects = {"u1", "u2"}
  Rewards = {8, 20}
  LogClients = 3
  MaxLog = 3

  EnvLow = 3300
  EnvHigh = 3400
  EnvWidths = {20, 120}
  EnvCap = 36
  AntennaGain = 6
  SubbandCentres <- Centres
  ChannelGains <- PathGains
  RequiredEirp <- NeededDbm
  ProposedMHz <- CarrierMHz
  ProposedDbm <- CarrierDbm
  MaxEnvRows = 2

  AnchorCallers = {s1, s2}
  Tsas = 2
  Cadence = 1
  MaxAnchorRows = 2
  MaxRequests = 2
  MaxAnTime = 1

CHECK_DEADLOCK FALSE

INVARIANTS
  TypesOK
  LifecycleTruthful
  AlarmMatchesMode
  HealthzTruthful
  HistoryTellsState
  PoliciesAsAnswered
  
  
  
  ReportsComplete
  
  ArtefactsWhole
  
  
  

PROPERTIES
  StopEndsProcess
  FailureNoticed
