SPECIFICATION Spec

CONSTANTS
    n1 = n1  n2 = n2  n3 = n3  s1 = s1  s2 = s2  h1 = h1  l1 = l1  t1 = t1
    Nodes = {n1}
    Stores = {s1, s2}  Hexads = {h1}  Locations = {l1}  Trusts = {t1}
    DefaultTrust = trust1  Absent = absent  Nil = nil
    WalEnabled = TRUE
    InitPeers <- FullMesh
    Commands <- AllCommands
    SnapshotInterval = 3
    MaxTerm = 3  MaxLog = 4  MaxInFlight = 1  MaxCrashes = 2

CHECK_DEADLOCK FALSE

INVARIANTS
    AckedSurvives
    RegistryIsReplay
    RecoversOwnLog
