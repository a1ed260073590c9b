SPECIFICATION ToolSpec
CONSTANTS
    Amounts <- SmallAmounts
    Rates <- TableRates
    Declarations <- NearDeclarations
    Undeclared = Undeclared
    Malformed = Malformed
    Rows <- MCRows
    Corpora <- MCCorpora
    Texts <- MCTexts
    Numbers <- MCNumbers
    Null = Null
INVARIANTS
    AlertIsAccurate
    StatusHasTheSign
    AbsenceIsReal
    ListIsNewest
    SearchIsBest
