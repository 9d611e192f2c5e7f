SPECIFICATION Spec
CONSTANTS
    Options <- MCOptions
    Servers <- MCServers
    Scripts = {"s1", "s2"}
    DefaultDbs = 16
INVARIANTS
    TypeOK
    NoLeak
    UpExact
    SectionsIndependent
PROPERTIES
    Terminates
