SPECIFICATION Spec
CONSTANTS
    Tools = {get_erp_data, search_regulations}
    NoTool = NoTool
    MaxIterations = 1
    MaxChunks = 2
INVARIANTS
    EveryCallObserved
