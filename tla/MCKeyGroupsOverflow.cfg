SPECIFICATION Spec
CONSTANTS
    DbCount = 1
    Keys = {"a1", "a2", "b", "c"}
    Group <- MCGroup
    Overflow = 1
    MaxDistinctKeyGroups = 1
    Denied = {}
    Usages = {1, 2}
    Stores <- MCStores
    MaxBatches = 1
    MaxChanges = 0
    CursorBits = 2
INVARIANTS
    SingleOverflow
