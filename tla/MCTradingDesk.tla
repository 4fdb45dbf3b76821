---------------------------- MODULE MCTradingDesk ----------------------------
(***************************************************************************)
(* Small instances of the trading side for TLC: the paper account, the     *)
(* risk gate, the bot, the video EA, the CCXT feed and research.  The      *)
(* components share no variable.  A behaviour is one of a single           *)
(* component, chosen at the start, while the others rest in their initial  *)
(* states: the run explores the sum of the components, not their product.  *)
(***************************************************************************)
EXTENDS MCPaperTrading, MCRiskGate, Automation, MCVideoEaCycle, CcxtFeed, Research

VARIABLE component

deskVars == <<component, vars, riskVars, botVars, cycleVars, ccxtVars, researchVars>>

DeskInit ==
    /\ component \in {"paper", "risk", "bot", "video", "ccxt", "research"}
    /\ Init /\ RiskInit /\ BotInit /\ CycleInit /\ CcxtInit /\ ResearchInit

PaperMoves ==
    /\ component = "paper" /\ Next
    /\ UNCHANGED <<component, riskVars, botVars, cycleVars, ccxtVars, researchVars>>
RiskMoves ==
    /\ component = "risk" /\ RiskNext
    /\ UNCHANGED <<component, vars, botVars, cycleVars, ccxtVars, researchVars>>
BotMoves ==
    /\ component = "bot" /\ BotNext
    /\ UNCHANGED <<component, vars, riskVars, cycleVars, ccxtVars, researchVars>>
VideoMoves ==
    /\ component = "video" /\ CycleNext
    /\ UNCHANGED <<component, vars, riskVars, botVars, ccxtVars, researchVars>>
CcxtMoves ==
    /\ component = "ccxt" /\ CcxtNext
    /\ UNCHANGED <<component, vars, riskVars, botVars, cycleVars, researchVars>>
ResearchMoves ==
    /\ component = "research" /\ ResearchNext
    /\ UNCHANGED <<component, vars, riskVars, botVars, cycleVars, ccxtVars>>

DeskNext == PaperMoves \/ RiskMoves \/ BotMoves \/ VideoMoves \/ CcxtMoves \/ ResearchMoves

DeskSpec == DeskInit /\ [][DeskNext]_deskVars

\* The variables of the component that moves have the types its module gives
\* them.
DeskTypeOK ==
    /\ component = "paper" => TypeOK
    /\ component = "risk" => RiskTypeOK
    /\ component = "bot" => BotTypeOK
    /\ component = "video" => CycleTypeOK
    /\ component = "ccxt" => CcxtTypeOK
    /\ component = "research" => ResearchTypeOK

\* Requests and handlers are interchangeable.
DeskSymmetry == Permutations(Submitters) \cup Permutations(Handlers)

-----------------------------------------------------------------------------
(* The bot: one watches two symbols, the other caps its signals.            *)

MCBotConfigs ==
    {[symbols |-> <<"AOT", "PTT">>, cooldown |-> 2, maxSignals |-> 0, auto |-> TRUE, size |-> 1],
     [symbols |-> <<"AOT">>, cooldown |-> 1, maxSignals |-> 1, auto |-> FALSE, size |-> 2]}

-----------------------------------------------------------------------------
(* Research: every strategy but three of the four that read candles.        *)

MCNames ==
    {"ema_cross", "sma_cross", "rsi_reversion", "bollinger_reversion", "momentum", "macd_cross",
     "breakout", "llm_sentiment", "multi_factor", "scalp", "swing", "position", "vwap"}

MCShort ==
    [fast |-> 2, slow |-> 3, signal |-> 2, rsi |-> 2, rsiBuy |-> 30, rsiSell |-> 70, band |-> 3,
     deviations |-> 1, momentum |-> 1, threshold |-> 10, breakout |-> 2, sentimentBuy |-> 80,
     sentimentSell |-> 20, minHistory |-> 3, scalpFast |-> 2, scalpSlow |-> 3, swingRsi |-> 2,
     positionFast |-> 2, positionSlow |-> 3]

MCStrategyConfigs ==
    {MCShort, [MCShort EXCEPT !.breakout = 3, !.rsi = 3, !.momentum = 2, !.slow = 4]}

\* No costs, and 5% of each.
MCCostRates == {[commission |-> 0, slippage |-> 0], [commission |-> 1, slippage |-> 1]}
=============================================================================
