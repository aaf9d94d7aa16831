SPECIFICATION Spec
CONSTANTS
    Indices = {0, 1, 254, 255, 257}
    MaxIndices = 2
    SlotIds = {1, 256}
    Nonces = {"n1"}
    Certs = {"c1", "c2"}
    NoPem = "nopem"
INVARIANTS
    TypeOK
    AllOrNothing
    CertificatePublished
PROPERTIES
    ValidationExact
    ImplementsService
