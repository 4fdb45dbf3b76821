--------------------------- MODULE MCPaperTrading ---------------------------
(* A small paper account for TLC.                                          *)
EXTENDS PaperTrading, TLC

CONSTANTS resting, market, sale, AOT, PTT

\* A limit buy that rests and fills in parts, a market buy with both protective
\* levels, and a limit sale.
MCTerm ==
    resting :> [symbol |-> AOT, side |-> "buy", quantity |-> 2, limit |-> 2, stop |-> 1, take |-> 0]
    @@ market :> [symbol |-> AOT, side |-> "buy", quantity |-> 1, limit |-> 0, stop |-> 1, take |-> 3]
    @@ sale :> [symbol |-> AOT, side |-> "sell", quantity |-> 1, limit |-> 3, stop |-> 0, take |-> 0]

MCQuotes == {[bid |-> 1, offer |-> 2, last |-> 1], [bid |-> 2, offer |-> 3, last |-> 2],
             [bid |-> 0, offer |-> 0, last |-> 3]}
=============================================================================
