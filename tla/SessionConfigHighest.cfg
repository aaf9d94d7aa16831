SPECIFICATION Spec
CONSTANTS
    Versions = {11, 12}
    DefaultVersion = 11
    Algorithms = {ecp256, ecp384}
    NoAlgorithm = NoAlgorithm
    NoAnchor = NoAnchor
    RootSlots = 2
PROPERTIES
    NegotiatesHighest
