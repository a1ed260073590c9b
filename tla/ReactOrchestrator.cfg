SPECIFICATION FairSpec
CONSTANTS
    Tools = {get_erp_data, search_regulations}
    NoTool = NoTool
    MaxIterations = 3
    MaxChunks = 3
INVARIANTS
    TypeOK
    StepGrammar
    ToolFidelity
    BudgetKept
    AnswerIsEarned
    PromptIsClosed
PROPERTIES
    Termination
    ImplementsRun
