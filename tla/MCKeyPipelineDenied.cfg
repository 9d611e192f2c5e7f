SPECIFICATION Spec
CONSTANTS
    Dbs <- MCDb0
    Keys <- MCThreeKeys
    Inputs <- MCThree
    ACLs <- MCDenyKey
    Stores <- MCAllStores
    Values = {"number", "list"}
    MaxChanges = 0
    DisableExportingKeyValues = FALSE
INVARIANTS
    Attributed
