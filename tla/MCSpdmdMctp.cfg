SPECIFICATION FairSpec
CONSTANTS
    d1 = d1
    d2 = d2
    d3 = d3
    NoDevice = NoDevice
    Devices = {d1, d2, d3}
    Faulty = {d3}
    Name <- MissingName
    NoName = ""
    Transport = "MCTP"
    MaxSessions = 2
INVARIANTS
    IInv
PROPERTIES
    FollowsLifecycle
    StopHonoured
