------------------------------ MODULE Research ------------------------------
(***************************************************************************)
(* Backtests and research of zksato: Backtester (backtest.py),             *)
(* ResearchService (research.py), the sweeps and walk-forwards of          *)
(* video_ea_research.py, over the bars a client ingests in any order.      *)
(*                                                                         *)
(* A bar is its closing price at a time.  A cost rate is a number of       *)
(* RateBase-ths (the code divides percentages by 100), and every amount of *)
(* money is kept in units of 1 / RateBase^2, so that a fee is exact.       *)
(***************************************************************************)
EXTENDS Strategies

CONSTANTS
    RateBase,     \* what a cost rate is divided by (100)
    BarTimes,     \* the times bars are stamped with
    BarPrices,    \* closing prices
    Names,        \* strategies asked for
    StrategyConfigs, \* configurations: the combinations of a parameter grid, whose
                     \* values no validator sees (model_copy); those with which the
                     \* indicators raise have no backtest
    CostRates,    \* records: commission, slippage
    StartCash,    \* request.initial_cash
    OrderSize,    \* request.order_size
    TrainSize, TestSize, StepSize  \* of a walk-forward

ASSUME ResearchAssumption ==
    /\ RateBase \in Nat \ {0} /\ BarPrices \subseteq Nat \ {0}
    /\ BarTimes \subseteq Nat /\ IsFiniteSet(BarTimes)
    /\ CostRates \subseteq [commission: 0 .. RateBase, slippage: 0 .. RateBase]
    /\ IsFiniteSet(StrategyConfigs)
    /\ StartCash \in Nat \ {0} /\ OrderSize \in Nat \ {0}
    /\ TrainSize \in Nat \ {0} /\ TestSize \in Nat \ {0} /\ StepSize \in Nat \ {0}

VARIABLE bars  \* StateStore.bars of one symbol and timeframe: time to close, 0 if none

researchVars == <<bars>>

ResearchTypeOK == bars \in [BarTimes -> BarPrices \cup {0}]

\* list_bars: the closes by time, whatever the order they came in; of no more
\* bars than its limit (100,000), which would keep the latest.
Ascending(S) ==
    CHOOSE s \in [1 .. Cardinality(S) -> S] : \A i, j \in 1 .. Cardinality(S) : i < j => s[i] < s[j]
ListBars(b) ==
    LET times == Ascending({t \in BarTimes : b[t] # 0})
    IN [i \in DOMAIN times |-> b[times[i]]]

-----------------------------------------------------------------------------
(* Backtester.run.                                                         *)

Money(x) == x * RateBase * RateBase

NewLedger ==
    [cash |-> Money(StartCash), held |-> 0, average |-> 0, entryFee |-> 0,
     pnls |-> <<>>, trades |-> <<>>, fees |-> 0, equity |-> <<>>]

\* Mutant: max_qty forgets the commission.
AffordableGross(cash, price, cost) == cash \div (price * RateBase)

\* Prices with slippage are in 1 / RateBase, amounts in 1 / RateBase^2.
Affordable(cash, price, cost) == cash \div (price * (RateBase + cost.commission))

BuyBar(l, close, cost, bar) ==
    LET price == close * (RateBase + cost.slippage)
        most == Affordable(l.cash, price, cost)
        size == IF OrderSize <= most THEN OrderSize ELSE most
        fee == price * size * cost.commission
    IN IF size = 0 THEN l
       ELSE [l EXCEPT !.cash = @ - price * size * RateBase - fee, !.held = size, !.average = price,
                      !.entryFee = fee, !.fees = @ + fee,
                      !.trades = Append(@, <<"buy", bar, price, size>>)]

SellBar(l, close, cost, bar) ==
    LET price == close * (RateBase - cost.slippage)
        fee == price * l.held * cost.commission
        pnl == (price - l.average) * l.held * RateBase - l.entryFee - fee
    IN [l EXCEPT !.cash = @ + price * l.held * RateBase - fee, !.held = 0, !.average = 0,
                 !.entryFee = 0, !.fees = @ + fee, !.pnls = Append(@, pnl),
                 !.trades = Append(@, <<"sell", bar, price, l.held>>)]

\* A signal buys when nothing is held and sells when something is.
Traded(l, signal, close, cost, bar) ==
    CASE signal = "buy" /\ l.held = 0 -> BuyBar(l, close, cost, bar)
      [] signal = "sell" /\ l.held > 0 -> SellBar(l, close, cost, bar)
      [] OTHER -> l

\* The equity at the close.
Marked(l, close) == [l EXCEPT !.equity = Append(@, l.cash + Money(l.held * close))]

\* Mutant: every candle's signal sees the whole history.
BacktestBarAhead(l, closes, i, name, config, cost) ==
    Marked(Traded(l, StrategySignal(name, closes, config, NoScore), closes[i], cost, i), closes[i])

\* One candle: the signal sees the closes up to and including this one.
BacktestBar(l, closes, i, name, config, cost) ==
    Marked(Traded(l, StrategySignal(name, SubSeq(closes, 1, i), config, NoScore), closes[i], cost, i),
           closes[i])

Backtest(closes, name, config, cost) ==
    LET run[i \in 0 .. Len(closes)] ==
            IF i = 0 THEN NewLedger ELSE BacktestBar(run[i - 1], closes, i, name, config, cost)
    IN run[Len(closes)]

\* max_drawdown_pct as a fraction.
Drawdown(equity) ==
    LET Peak(j) == Max({equity[i] : i \in 1 .. j})
        falls == {[n |-> Peak(j) - equity[j], d |-> Peak(j)] :
                    j \in {k \in DOMAIN equity : Peak(k) > 0}} \cup {[n |-> 0, d |-> 1]}
    IN CHOOSE f \in falls : \A g \in falls : f.n * g.d >= g.n * f.d

\* The part of BacktestResult the gates and the sweep read.
Result(l) ==
    [gain |-> Last(l.equity) - Money(StartCash), drawdown |-> Drawdown(l.equity),
     trades |-> Len(l.trades)]

-----------------------------------------------------------------------------
(* Replay, sweeps and walk-forwards.                                       *)

\* ResearchService.replay: the bars at which a signal was given, with the
\* trading-session filter off.
Replay(closes, name, config) ==
    {<<i, StrategySignal(name, SubSeq(closes, 1, i), config, NoScore)>> : i \in DOMAIN closes}
      \ ((DOMAIN closes) \X {"hold"})

\* parameter_sweep: the key max compares rows by.
BetterOrEqual(a, b) ==
    LET fall(r, s) == r.drawdown.n * s.drawdown.d
    IN \/ a.gain > b.gain
       \/ a.gain = b.gain /\ fall(a, b) < fall(b, a)
       \/ a.gain = b.gain /\ fall(a, b) = fall(b, a) /\ a.trades <= b.trades

\* The rows are in grid order and max returns the first of the best.
BestParameters(closes, name, grid, cost) ==
    LET First(row) ==
            Min({i \in DOMAIN grid : \A j \in DOMAIN grid : BetterOrEqual(row[i], row[j])})
    IN grid[First([i \in DOMAIN grid |-> Result(Backtest(closes, name, grid[i], cost))])]

\* Mutant: the last window that fits is left out.
WindowStartsShort(closes) ==
    {s \in 0 .. Len(closes) : s % StepSize = 0 /\ s + TrainSize + TestSize < Len(closes)}

\* The starts of the windows of rolling_walk_forward, whose loop slices
\* train_end and test_end from start.
WindowStarts(closes) ==
    {s \in 0 .. Len(closes) : s % StepSize = 0 /\ s + TrainSize + TestSize <= Len(closes)}

OutOfSample(closes, start, name, config, cost) ==
    LET trainEnd == start + TrainSize
    IN Result(Backtest(SubSeq(closes, trainEnd + 1, trainEnd + TestSize), name, config, cost))

\* rolling_walk_forward raises when no window fits.
RollingWalkForward(closes, name, config, cost) ==
    [raises |-> WindowStarts(closes) = {},
     windows |-> [start \in WindowStarts(closes) |-> OutOfSample(closes, start, name, config, cost)]]

\* A window's result goes before those of the later windows.
WithWindow(start, result, later) ==
    [s \in {start} \cup DOMAIN later |-> IF s = start THEN result ELSE later[s]]

\* agentic_walk_forward has its own loop: the candles it trains on choose
\* the parameters it tests.  It answers no window when none fits.
AgenticWalkForward(closes, name, grid, cost) ==
    LET Window(start) ==
            LET train == SubSeq(closes, start + 1, start + TrainSize)
                test == SubSeq(closes, start + TrainSize + 1, start + TrainSize + TestSize)
                best == BestParameters(train, name, grid, cost)
            IN Result(Backtest(test, name, best, cost))
        Loop[start \in 0 .. (Len(closes) + StepSize)] ==
            IF start + TrainSize + TestSize <= Len(closes)
            THEN WithWindow(start, Window(start), Loop[start + StepSize])
            ELSE <<>>
    IN Loop[0]

-----------------------------------------------------------------------------
(* The bars.                                                               *)

ResearchInit == bars = [t \in BarTimes |-> 0]

\* upsert_bar: a new bar, late or in order, or the correction of one.
IngestBar(t, close) == bars[t] # close /\ bars' = [bars EXCEPT ![t] = close]

ResearchNext == \E t \in BarTimes, close \in BarPrices : IngestBar(t, close)

ResearchSpec == ResearchInit /\ [][ResearchNext]_researchVars

-----------------------------------------------------------------------------
(* Properties.                                                             *)

\* The history the bars make, if there are any, and every one they can make.
Closes == {ListBars(bars)} \ {<<>>}
PriceHistories == UNION {[1 .. n -> BarPrices] : n \in 1 .. Cardinality(BarTimes)}

\* For every strategy and every cost, a backtest never spends money it does
\* not have, and what it ends with is what it began with plus the profit of
\* its closed trades and the unrealised profit of the open one, every fee
\* counted once.
BalancedHistories ==
    {closes \in PriceHistories :
       \A name \in Names, config \in StrategyConfigs, cost \in CostRates :
          LET l == Backtest(closes, name, config, cost)
          IN /\ l.cash >= 0
             /\ Last(l.equity) =
                  Money(StartCash) + SumFunction(l.pnls) - l.entryFee
                    + (Last(closes) * RateBase - l.average) * l.held * RateBase}

\* Whatever bars came, late, corrected or in order, their backtests balance
\* (Backtester.run).
BacktestBalances == Closes \subseteq BalancedHistories

\* Turn the prices upside down within their range and every crossing strategy
\* gives the opposite signal: no side is favoured by a strict or a lax
\* comparison, at equality too.  So does the sentiment strategy, if its
\* thresholds are as far from 50% as each other (the defaults are).
Mirrored(signal) == CASE signal = "buy" -> "sell" [] signal = "sell" -> "buy" [] OTHER -> signal

Flipped(axis, closes) == [i \in DOMAIN closes |-> axis - closes[i]]
EvenThresholds(c) == c.sentimentBuy > c.sentimentSell /\ c.sentimentBuy + c.sentimentSell = 100
UpsideDown(closes) == Flipped(Max(Range(closes)) + Min(Range(closes)), closes)

\* What StrategyConfig's validators make of the fields used here.
Validated(c) ==
    /\ {c.fast, c.slow, c.signal, c.scalpFast, c.scalpSlow} \subseteq Nat \ {0, 1}
    /\ {c.sentimentBuy, c.sentimentSell} \subseteq 0 .. 100

MirroringHistories ==
    {closes \in PriceHistories :
       \A config \in {c \in StrategyConfigs : Validated(c)} :
          /\ \A name \in Names \cap {"ema_cross", "sma_cross", "macd_cross", "scalp"} :
                StrategySignal(name, UpsideDown(closes), config, NoScore) =
                  Mirrored(StrategySignal(name, closes, config, NoScore))
          /\ "llm_sentiment" \in Names /\ EvenThresholds(config) =>
                \A score \in 0 .. 100 :
                   StrategySignal("llm_sentiment", UpsideDown(closes), config, 100 - score) =
                     Mirrored(StrategySignal("llm_sentiment", closes, config, score))}

\* The crossing strategies of the engine treat both sides alike on whatever
\* bars came (StrategyEngine.evaluate).
SignalsMirror == Closes \subseteq MirroringHistories

\* Later bars change nothing that was already reported: of every history, the
\* trades and the equity curve of the backtest and the signals of the replay
\* begin with those of each earlier part of it, and no fee is taken back.
CausalHistories ==
    {closes \in PriceHistories :
       \A n \in 1 .. (Len(closes) - 1), name \in Names, config \in StrategyConfigs :
          LET past == SubSeq(closes, 1, n)
          IN /\ \A cost \in CostRates :
                  LET earlier == Backtest(past, name, config, cost)
                      later == Backtest(closes, name, config, cost)
                  IN /\ IsPrefix(earlier.trades, later.trades)
                     /\ IsPrefix(earlier.equity, later.equity)
                     /\ earlier.fees <= later.fees
             /\ Replay(past, name, config) =
                  {s \in Replay(closes, name, config) : s[1] <= n}}

\* Backtests and replays of whatever bars came look at the past only
\* (Backtester.run, ResearchService.replay).
NoLookAhead == Closes \subseteq CausalHistories

\* The two walk-forwards test the same windows.  With a grid of one
\* combination the agentic one reports what the rolling one does, except that
\* it answers no window exactly where the rolling one raises; with the whole
\* grid no window's parameters were beaten in training.
AgreeingHistories ==
    {closes \in PriceHistories :
       LET grid == SetToSeq(StrategyConfigs)
       IN \A name \in Names, cost \in CostRates :
            /\ \A config \in StrategyConfigs :
                  LET agentic == AgenticWalkForward(closes, name, <<config>>, cost)
                      rolling == RollingWalkForward(closes, name, config, cost)
                  IN IF rolling.raises THEN DOMAIN agentic = {} ELSE agentic = rolling.windows
            /\ DOMAIN AgenticWalkForward(closes, name, grid, cost) = WindowStarts(closes)
            /\ \A start \in WindowStarts(closes) :
                  LET train == SubSeq(closes, start + 1, start + TrainSize)
                      best == Result(Backtest(train, name, BestParameters(train, name, grid, cost), cost))
                  IN \A config \in StrategyConfigs :
                       ~(Result(Backtest(train, name, config, cost)).gain > best.gain)}

\* The loops of rolling_walk_forward and agentic_walk_forward agree on whatever
\* bars came, and where they part it is over a history too short for a window.
WalkForwardsAgree == Closes \subseteq AgreeingHistories
=============================================================================
