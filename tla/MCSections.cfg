SPECIFICATION Spec
CONSTANTS
    Dbs = {0, 1, 2}
    Keys <- MCKeys
    Values = {"none", "list", "stream1"}
    Scenarios <- MCScenarios
    MaxChanges = 1
    MaxBatches = 2
    CursorBits = 2
    Match <- MCMatch
    Globs = {"s*"}
    DbCount = 2
    ConfigPairs <- MCConfigPairs
INVARIANTS
    TypeOK
    CountBounds
    Labelled
    ExpansionExact
    StreamExact
    DirectoryExact
    ScriptDb
