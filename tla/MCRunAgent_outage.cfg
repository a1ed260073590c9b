SPECIFICATION Spec
CONSTANTS
    Requests = {r1, r2}
    Known = {c}
    None = None
    MaxSteps <- MCMaxSteps
INVARIANTS
    OutageIsReported
