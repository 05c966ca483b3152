SPECIFICATION Spec

CONSTANTS
    Txns = {t1, t2, t3}
    Keys = {k1, k2}
    LockKeys = {k1, k2}
    ReadKeys = {}
    Isolations = {"read_committed"}
    OneTask = TRUE
    MaxUndo = 0  MaxLoaded = 0  MaxCalls = 2

SYMMETRY TxnKeySymmetry

CHECK_DEADLOCK FALSE
INVARIANTS LockExclusion WaitForAcyclic WaitsForHolder FinishedHoldsNothing
PROPERTIES StrictTwoPhase ImplementsLockService
