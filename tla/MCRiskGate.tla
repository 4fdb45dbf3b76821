----------------------------- MODULE MCRiskGate -----------------------------
(* A small account under tight limits for TLC.                              *)
EXTENDS RiskGate, TLC

MCIntent(symbol, side, quantity, price, stop) ==
    [symbol |-> symbol, side |-> side, quantity |-> quantity, price |-> price, stop |-> stop]

MCClientIntents ==
    {MCIntent("AOT", "buy", 1, 0, 1), MCIntent("PTT", "buy", 1, 2, 1), MCIntent("AOT", "sell", 2, 0, 0)}

MCAgentIntents == {MCIntent("PTT", "buy", 1, 2, 1)}

MCInstrument ==
    "AOT" :> [sector |-> "energy", tick |-> 1, lower |-> 1, upper |-> 3]
    @@ "PTT" :> [sector |-> "energy", tick |-> 2, lower |-> 1, upper |-> 9]

\* Requests are interchangeable.
RiskSymmetry == Permutations(Submitters)

\* Every limit binds before the next one would.
MCLimits ==
    [notional |-> 6, ordersPerDay |-> 3, openOrders |-> 1, positions |-> 2, positionPct |-> 60,
     symbolPct |-> 60, grossPct |-> 80, sectorPct |-> 70, riskPct |-> 40, deviationPct |-> 50,
     spreadPct |-> 50]

\* Without bid and offer, and with an offer above the last price.
MCMarketQuotes == {[last |-> 2, bid |-> 0, offer |-> 0], [last |-> 2, bid |-> 2, offer |-> 3]}
=============================================================================
