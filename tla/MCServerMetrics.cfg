SPECIFICATION Spec
CONSTANTS
    Databases = 3
    Now = 100
    Servers <- MCServers
    Options <- MCOptions
    DefaultDbs = 2
    Extensions <- MCExtensions
    Spelled <- MCSpelled
    MaxScrapes = 2
INVARIANTS
    TypeOK
    DatabasesExact
    ReplicationExact
    CommandsExact
    LabelsExact
    NoDuplicates
