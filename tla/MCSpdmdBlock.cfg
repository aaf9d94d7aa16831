SPECIFICATION FairSpec
CONSTANTS
    d1 = d1
    d2 = d2
    d3 = d3
    NoDevice = NoDevice
    Devices = {d1, d2}
    Faulty = {}
    Name <- SharedNames
    NoName = ""
    Transport = "MCTP"
    MaxSessions = 2
PROPERTY MeasurementReturns
