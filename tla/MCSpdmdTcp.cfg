SPECIFICATION FairSpec
CONSTANTS
    d1 = d1
    d2 = d2
    d3 = d3
    NoDevice = NoDevice
    Devices = {d1, d2, d3}
    Faulty = {d2}
    Name <- SharedNames
    NoName = ""
    Transport = "TCP"
    MaxSessions = 2
INVARIANTS
    TypeOK
    PolicyRespected
    ReplaceNotAppend
    ResponderUsable
    NoLeakedSession
    PolicyApplied
    IInv
PROPERTIES
    ImplementsPolicy
    SessionOpenedLegally
    HandlerTerminates
    HandlerProgress
    StopHonoured
