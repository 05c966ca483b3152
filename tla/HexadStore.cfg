SPECIFICATION Spec

CONSTANTS
    Ids = {h1}
    Tasks = {c1, c2}
    Readers = {r1}
    Used = {"vector", "document"}
    Inputs = {{"vector"}, {"document"}, {"vector", "document"}}
    Failing = {"document"}
    WalFails = TRUE
    MaxOps = 3

CHECK_DEADLOCK FALSE
INVARIANTS WritersExclude VersionsOrdered StoresBacked
PROPERTIES OperationReturns
