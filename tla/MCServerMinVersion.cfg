SPECIFICATION Spec
CONSTANTS
    c1 = c1
    c2 = c2
    Boot = Boot
    Conns <- MCConns
    Versions <- MCVersions
    Options <- MCOptions
    DefaultVersion = 12
    MaxRotations = 0
SYMMETRY Symmetry
INVARIANTS
    MinVersionKept
