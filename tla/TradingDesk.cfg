SPECIFICATION DeskSpec
CONSTANTS
    resting = resting
    market = market
    sale = sale
    AOT = AOT
    PTT = PTT
    Intents = {resting, market, sale}
    Term <- MCTerm
    Symbols = {AOT, PTT}
    Quotes <- MCQuotes
    InitialCash = 5
    MaxFill = 1
    PriceImprovement = TRUE
    MaxQuotes = 3
    MaxCrashes = 1
    Equities = {"AOT", "PTT"}
    Instrument <- MCInstrument
    Submitters = {w1}
    ClientIntents <- MCClientIntents
    AgentIntents <- MCAgentIntents
    Limits <- MCLimits
    Cash = {8}
    MarketQuotes <- MCMarketQuotes
    MaxSubmissions = 2
    MaxMoves = 3
    BotSymbols = {"AOT", "PTT"}
    Handlers = {h1, h2}
    BotConfigs <- MCBotConfigs
    MaxBotTime = 2
    MaxCalls = 2
    MaxCommands = 2
    Histories <- MCHistories
    Configs <- MCConfigs
    ClientPlans <- MCClientPlans
    Prices = {4, 16, 32}
    MaxCycles = 2
    MaxFaults = 2
    Streams = {binance, kucoin}
    TradePrices = {1, 2}
    SilenceLimit = 1
    MaxFeedTime = 4
    MaxQueue = 2
    MaxMessages = 4
    BandPeriod = 4
    RateBase = 20
    BarTimes = {1, 2, 3, 4, 5, 6}
    BarPrices = {2, 3}
    Names <- MCNames
    StrategyConfigs <- MCStrategyConfigs
    CostRates <- MCCostRates
    StartCash = 22
    OrderSize = 12
    TrainSize = 3
    TestSize = 3
    StepSize = 1
INVARIANTS
    DeskTypeOK
    Conservation OneExitPerLevel FillsBounded
    SweepAccounted
    PlanSound
    CooldownHolds AlertOnce
    OneStreamEach LastTradeWins
    BacktestBalances SignalsMirror NoLookAhead WalkForwardsAgree
PROPERTIES
    PaperTerminalIsFinal ReconcileHeals
    StopQuiesces
    KeepsPromise
SYMMETRY DeskSymmetry
CHECK_DEADLOCK FALSE
