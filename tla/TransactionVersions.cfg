SPECIFICATION Spec

CONSTANTS
    Txns = {t1, t2, t3}
    Keys = {k1, k2}
    LockKeys = {}
    ReadKeys = {k1, k2}
    Isolations = {"serializable"}
    OneTask = FALSE
    MaxUndo = 1  MaxLoaded = 1  MaxCalls = 1

SYMMETRY TxnKeySymmetry

INVARIANTS
    SerializableReads
