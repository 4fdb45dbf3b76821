SPECIFICATION RiskSpec
CONSTANTS
    Equities = {"AOT", "PTT"}
    Instrument <- MCInstrument
    Submitters = {w1, w2}
    ClientIntents <- MCClientIntents
    AgentIntents <- MCAgentIntents
    Limits <- MCLimits
    Cash = {8}
    MarketQuotes <- MCMarketQuotes
    MaxSubmissions = 3
    MaxMoves = 2
INVARIANT OpenOrdersBounded
PROPERTY GateHolds
SYMMETRY RiskSymmetry
CHECK_DEADLOCK FALSE
