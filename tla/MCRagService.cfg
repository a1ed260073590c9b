SPECIFICATION ServiceSpec
SYMMETRY RequestSymmetry
CONSTANTS
    Requests = {r1, r2, r3}
    Searches = {r1, r2, r3}
    Adapters = {r1, r2, r3}
    None = None
    MaxRestarts = 1
INVARIANTS
    BuilderHoldsLock
    OpenedIsIndexed
    DuplicatesNeedOverlap
    WaitersCanGo
