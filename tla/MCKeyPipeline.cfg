SPECIFICATION Spec
CONSTANTS
    Dbs <- MCDbs
    Keys <- MCKeys
    Inputs <- MCInputs
    ACLs <- MCACLs
    Stores <- MCStores
    Values = {"none", "hll", "number", "text", "empty", "list", "module"}
    MaxChanges = 1
    DisableExportingKeyValues = FALSE
INVARIANTS
    TypeOK
    AttributedUnlessRejected
    DrainedUnlessRejected
    NoDuplicates
    NextDoUnlessRejected
    AgreesWithDirect
PROPERTIES
    Implements
    Terminates
