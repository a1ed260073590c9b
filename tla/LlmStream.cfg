SPECIFICATION Spec
CONSTANTS
    Tools = {get_erp_data, search_regulations}
    MaxBlocks = 3
    MaxFragments = 2
INVARIANTS
    TypeOK
    SentinelsAreFaithful
    LostCallsNeedCut
