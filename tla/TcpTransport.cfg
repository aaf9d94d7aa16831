SPECIFICATION FairSpec
CONSTANTS
    HeaderUnits = 2
    MaxBody = 2
    MaxRequests = 3
INVARIANTS
    TypeOK
    ReplyMatchesRequest
    ContextComplete
PROPERTIES
    ReadReturns
    ImplementsLink
