SPECIFICATION Spec
CONSTANTS
    DbCount = 2
    Keys = {"a1", "a2", "b", "c"}
    Group <- MCGroup
    Overflow = 1
    MaxDistinctKeyGroups = 1
    Denied = {"c"}
    Usages = {1, 2}
    Stores <- MCStores
    MaxBatches = 2
    MaxChanges = 1
    CursorBits = 2
INVARIANTS
    TypeOK
    KeysAccounted
    MemoryAccounted
    HeaviestKept
    LastingCounted
PROPERTIES
    CompleteOnly
