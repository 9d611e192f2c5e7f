SPECIFICATION Spec
CONSTANTS
    Requests = {r1, r2}
    Addrs <- MCAddrs
    Self = "a"
    Options <- MCPasswordOptions
    MaxEdits = 1
INVARIANTS
    PasswordFileIgnored
