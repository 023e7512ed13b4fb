SPECIFICATION Spec
CONSTANTS
  User = {1, 2}
  Command <- Commands
  LedgerTx = {t1, t2}
  InitialQuota = 20
  ReciprocalBlock = 1
  QualityTx = {q1, q2}
  None = None
  Evaluated = {1, 2}
  AccountOf <- OneAccount
  Entry = {1, 2, 3}
  CatalogHourly = 2
  AccountHourly = 2
  NodeHourly = 1
  KeptEntries = 1
  FailureThreshold = 2
  RecoveryThreshold = 2
  MaxChallenges = 3
  ProfileRequest <- PricedRequests
  Authorization <- Authorizations
  MaxMicro = 1200
  TokensPerUnit = 10
  MicrosPerSecond = 100
  MibMicrosPerGibSecond = 200
  Model = {"m1", "m2"}
  Statement <- QualityStatements
  Ratings = {50, 78}
  MinSamples = 2
  ColdStartK = 2
  FirstSamples = {2}
  FirstScore = 78
  HonorNode = {1, 2, 3, 4}
  Asked = 1
  Threshold = 2
  Granularity = 2
  LongStreak = 2
  Milestone = {1, 10, 100}
  MaxContribution = 20
  FirstHistory <- History
  FirstShares = {0, 1, 9}
  Gain = {1, 8}
  MaxCommits = 2
  RJob = {1, 2, 3}
  Kinds <- JobKinds
  Instance = {1, 2, 3, 4, 5}
  Facts <- InstanceFacts
  NodeFacts <- FactsOfNodes
  ModelFacts <- FactsOfModels
  FirstMetrics <- RowsBefore
  Beats <- RowsToCome
  FirstEarned <- EarnedBefore
  MinCohort = 2
  NearNumerator = 98
  NearDenominator = 100
  Unit = 100
  MaxRtt = 100
  MaxChanges = 1
INVARIANTS LedgerSound PricesHold QualitySound NodesRankedFairly
PROPERTY EvaluationSound
CHECK_DEADLOCK FALSE
