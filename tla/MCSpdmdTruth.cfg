SPECIFICATION Spec
CONSTANTS
    d1 = d1
    d2 = d2
    d3 = d3
    NoDevice = NoDevice
    Devices = {d1, d2}
    Faulty = {}
    Name <- SharedNames
    NoName = ""
    Transport = "TCP"
    MaxSessions = 2
INVARIANT SessionIsOpen
