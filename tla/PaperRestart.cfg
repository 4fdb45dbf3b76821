SPECIFICATION Spec
CONSTANTS
    resting = resting
    market = market
    sale = sale
    AOT = AOT
    PTT = PTT
    Intents = {resting, market, sale}
    Term <- MCTerm
    Symbols = {AOT, PTT}
    Quotes <- MCQuotes
    InitialCash = 5
    MaxFill = 1
    PriceImprovement = TRUE
    MaxQuotes = 3
    MaxCrashes = 1
INVARIANT RestartSafe
