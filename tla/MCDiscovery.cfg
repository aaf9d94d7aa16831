SPECIFICATION FairSpec
CONSTANTS
    Paths = {1, 2}
    NoName = NoName
    Missing = Missing
    EndpointObjects <- SomeEndpoints
    ConfigObjects <- SomeConfigs
INVARIANTS
    TypeOK
    OneAnswer
    SteadyDevicesFound
    AttributedCorrectly
PROPERTIES
    Answered
    KeepsContract
CHECK_DEADLOCK FALSE
