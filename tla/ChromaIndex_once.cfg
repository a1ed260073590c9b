SPECIFICATION Spec
CONSTANTS
    Searches = {s1, s2}
    Adapters = {a}
    None = None
    MaxRestarts = 0
INVARIANTS
    IndexedOnce
