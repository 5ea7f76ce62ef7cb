CONSTANTS
    Active <- MCActive
    Allowlists <- MCAllowlists
    Markets <- MCMarkets
    Granularities = {60, 300}
    FallbackSymbols = {"frxEURUSD"}
    UpperCase <- MCUpperCase
    MaxTime = 2
    MaxMessages = 3
SPECIFICATION Spec
INVARIANTS
    TypeOK
    NamedRowsAreTrue
    OnlyRequestedMarkets
    AnswersAreUpToDate
