SPECIFICATION Spec
CONSTANTS
  Resolvers = {t1, t2}
  Disputes <- mcDisputes
  DriftScores = {3, 8}
  Policies = {"auto_merge", "custom"}
  DefaultPolicy = "last_writer_wins"
  PairPolicies <- mcPairPolicies
  PriorityOrder <- mcPriorityOrder
  RequireManualAbove = 8
  MaxHistory = 1
  MaxConflicts = 2
  Repairers = {p1, p2}
  RepairEntities = {"e1", "e2"}
  PresentOn <- mcPresentOn
  DriftedModalities = {"vector", "document", "graph"}
  RepairScores = {3, 8}
  AuthorityOrder <- mcAuthorityOrder
  StrategyFor <- mcStrategyFor
  RepairThreshold = 3
  MaxRepairs = 3
  Meters = {m1, m2}
  Handlers = {n1, n2}
  DriftTypes = {"semantic_vector", "quality"}
  Readings = {200, 950}
  AdaptivePolicies <- mcAdaptive
  FixedThreshold <- mcFixed
  Hexads <- mcHexads
  Installed <- mcInstalled
  LateStrategy = "quality-reconciliation"
  MinScore = 300
  HistoryLimit = 1
  EventCapacity = 1
  ResultCapacity = 1
  MaxReadings = 3
  Similarities <- mcSimilarities
  Names = {1, 2, 9}
  Stranger = 9
  Stamps = {0, 1, 2, 13}
  Hashes = {1, 2}
  MaxVersions = 4
  Dims = {0, 1, 3}
  MaxRank = 2
  Gaps = {0, 1, 2, 5}
  PartScores = {0, 1000, 3600}
  Required = {"graph", "vector", "document"}
  Constraints = 2
  DmEntities = {"e1", "e2"}
  MaxNormalizations = 1
  MaxChanges = 1
  MaxFailures = 1
  MaxQueued = 1
CHECK_DEADLOCK FALSE
INVARIANTS RepairsAccounted PipelineSound ScoresMeaningful
PROPERTIES PipelineMoves CriticalIsServed
