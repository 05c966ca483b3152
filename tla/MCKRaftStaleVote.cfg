SPECIFICATION Spec

CONSTANTS
    n1 = n1  n2 = n2  n3 = n3  s1 = s1  s2 = s2  h1 = h1  l1 = l1  t1 = t1
    Nodes = {n1, n2, n3}
    Stores = {s1, s2}  Hexads = {h1}  Locations = {l1}  Trusts = {t1}
    DefaultTrust = trust1  Absent = absent  Nil = nil
    WalEnabled = TRUE
    InitPeers <- FullMesh
    Commands <- NoCommands
    SnapshotInterval = 9
    MaxTerm = 2  MaxLog = 2  MaxInFlight = 1  MaxCrashes = 0

SYMMETRY NodeSymmetry

CHECK_DEADLOCK FALSE

INVARIANTS
    ElectionSafety
