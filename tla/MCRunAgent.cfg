SPECIFICATION FairSpec
CONSTANTS
    Requests = {r1, r2, r3}
    Known = {c}
    None = None
    MaxSteps <- MCMaxSteps
INVARIANTS
    TranscriptsAreExchanges
    StoredAnswersWereSent
    LossNeedsOverlap
    MixedRowNeedsOverlap
    StreamGrammar
PROPERTIES
    ImplementsStore
    EveryRequestEnds
    AnswerLeadsToDone
