SPECIFICATION Spec
CONSTANTS
    HeaderUnits = 2
    MaxBody = 2
    MaxRequests = 3
PROPERTY SocketConnected
