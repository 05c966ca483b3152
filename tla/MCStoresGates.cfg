SPECIFICATION Spec
CONSTANTS
  ChainIds = {"c1", "c2"}
  Actors = {"ann", "bob"}
  Events = {"created", "modified"}
  MaxChain = 2
  MaxTime = 1
  VersionData = {"x", "y"}
  MaxVersions = 3
  MaxPoints = 2
  MaxStamp = 1
  VectorIds = {"v1", "v2", "v3", "v4"}
  Points <- mcPoints
  Probes = {0, 4, 20}
  Levels = {0, 1}
  MaxConn = 2
  MaxConn0 = 2
  EfConstruction = 2
  EfSearch = 4
  MaxVectorOps = 6
  Iris = {"a", "b"}
  Literals = {"x"}
  GraphCallers = {g1, g2}
  MaxGraphOps = 3
  Hops = 2
  Claims = {"k1", "k2", "k3"}
  MaxLeaves = 4
  PrivacyLevels = {"public", "private", "zk"}
  MaxProofs = 1
  Definitions <- mcAllGates
  Names = {"n1", "n2"}
  KeyBundles = 3
  MaxCircuitOps = 5
  TypeIris = {"T", "U"}
  TypeBodies <- mcTypeBodies
  Annotations <- mcAnnotations
  Annotators = {a1, a2}
  MaxSemanticOps = 5
  DocIds = {"d1", "d2"}
  SingleToken = {"d1"}
  DocCallers = {d1, d2}
  MaxDocOps = 5
  Namespaces <- mcNamespaces
  LogicalKeys <- mcLogicalKeys
  Sizes = {1, 2}
  Storers = {s1, s2}
  MaxStoreOps = 3
  SpatialIds = {"e1", "e2", "e3"}
  Places <- mcPlaces
  Boxes <- mcBoxes
  MaxSpatialOps = 4
  MaxResultLimit = 2
  DefaultLimit = 2
  DefaultK = 1
  TensorIds = {"t1", "t2"}
  Shapes <- mcShapes
  Elements <- mcElements
  MaxLength = 4
  MaxTensorOps = 3
  Texts <- mcTexts
  Severities = {"critical", "high", "low"}
  MaxIssues = 2
  MaxBridgeOps = 2
  SchemaIris = {"A", "B", "C"}
  SchemaBodies <- mcSchemaBodies
  SchemaEntities <- mcSchemaEntities
CHECK_DEADLOCK FALSE
INVARIANT GatesCompute
