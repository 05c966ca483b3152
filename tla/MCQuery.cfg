SPECIFICATION Spec
CONSTANTS
  Queries <- mcQueries
  Measurements <- mcMeasurements
  RowCounts = {40}
  Counted = {"document"}
  MaxRecords = 2
  Weight = 7
  ParallelThreshold = 3
  MinSamples = 1
  MaxQueries = 2
  Preparers = {p1, p2}
  Texts <- mcTexts
  Keywords = {"where"}
  Params = {"$x"}
  Supplied = {{}, {"$x"}}
  CacheLimits = {0, 2}
  TTL = 0
  MaxClock = 1
  MaxCalls = 4
  Loggers = {l1, l2}
  Executions <- mcExecutions
  LogConfigs <- mcLogConfigs
  FirstConfig <- mcFirstConfig
  MaxLogged = 3
  ApiCallers = {q1, q2}
  ApiKeys = {"k1"}
  HttpRequests <- mcHttpRequests
  RoleChanges <- mcRoleChanges
  AclEntries <- mcAclEntries
  AuthConfigs <- mcAuthConfigs
  Window = 2
  MaxAudit = 1
  MaxRequests = 3
  MaxApiTime = 3
  MaxPolicyChanges = 1
  Stores <- mcPeerStores
  SelfStore <- mcSelf
  PeerKeys <- mcPeerKeys
  FedQueries <- mcFedQueries
  Holdings <- mcHoldings
  Secrets = {"p1", "p2"}
  Offered = {{}, {"vector"}}
  Beaters = {b1}
  MaxRegistrations = 2
  MaxFedQueries = 1
  TxnClients = {t1, t2}
  TxnOps = {"create", "delete"}
  MaxConcurrent = 2
  TxnTimeout = 1
  MaxTxnTime = 3
  MaxBegun = 2
  MaxBuffered = 1
  ApiIds = {"h1"}
  Requests <- mcRequests
  Optimizers = {o1, o2}
  PlanCost = 7
  MaxApiWrites = 2
  Callers = {c1, c2}
  Statements = {"s1", "s2"}
  LogicalPlans = {"l1", "l2"}
  Settings <- mcSettings
  FirstSettings <- mcFirstSettings
  MaxConfigs = 1
  MaxEvictions = 1
  Lines <- mcLines
  Lower <- mcLower
  Numbers <- mcNumbers
  Dimension = 2
  DefaultRows = 1
  MostRows = 3
  MaxInserted = 1
  ReadIds = {"h1", "h2", "h3"}
  Relevance <- mcRelevance
  QueryIds = {"h2"}
  ReadClients = {r1}
  LimitCap = 2
  LimitDefault = 1
  MaxReadWrites = 5
CHECK_DEADLOCK FALSE
INVARIANTS PlansSound BuffersCoherent GatewaySound  AnswersComplete
PROPERTIES RequestsServed
