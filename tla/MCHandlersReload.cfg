SPECIFICATION Spec
CONSTANTS
    Requests = {r1, r2}
    Addrs <- MCAddrs
    Self = "a"
    Options <- MCFileOptions
    MaxEdits = 1
INVARIANTS
    ReloadInEffect
