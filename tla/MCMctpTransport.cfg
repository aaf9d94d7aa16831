SPECIFICATION Spec
CONSTANTS
    eid = "e1"
    Strangers <- TwoStrangers
    MaxRequests = 3
    MaxQueue = 3
INVARIANTS
    TypeOK
    ReplyMatchesRequest
    PeekedIsTaken
    ContextComplete
PROPERTIES
    ImplementsLink
