SPECIFICATION WiringSpec
SYMMETRY RequestSymmetry
CONSTANTS
    Requests = {r1, r2, r3, r4}
    Threads = 2
    Environments <- MCEnvironments
INVARIANTS
    LateRequestsShare
    HandedOutWhole
    FailsByConfiguration
PROPERTIES
    ImplementsHandout
