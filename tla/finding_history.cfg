CONSTANTS
    Active <- MCActive
    Allowlists <- MCAllowlists
    Markets <- MCMarkets
    Granularities = {60, 300}
    FallbackSymbols = {"frxEURUSD"}
    UpperCase <- MCUpperCase
    MaxTime = 2
    MaxMessages = 1
SPECIFICATION Spec
INVARIANT CandlesKeepTheirSubscription
