----------------------------- MODULE Strategies -----------------------------
(***************************************************************************)
(* StrategyEngine of zksato (strategy.py) with the indicators it reads     *)
(* (indicators.py): from a price history and a configuration to a signal,  *)
(* "buy", "sell" or "hold".  Confidence and wording are left out.          *)
(*                                                                         *)
(* Prices are positive integers.  A moving average is kept as an integer   *)
(* over a known power of its denominators, and every comparison is         *)
(* multiplied out, so nothing is rounded.  Sentiment and thresholds are    *)
(* percentages; NoScore stands for None.                                   *)
(*                                                                         *)
(* No caller passes candles, so the four candle strategies (vwap,          *)
(* stochastic, williams_r and atr_channel) take their first early return.  *)
(***************************************************************************)
EXTENDS Integers, SequencesExt

CONSTANT BandPeriod  \* the period _scalp gives to bollinger_bands (20)

ASSUME BandAssumption == BandPeriod \in Nat \ {0}

NoScore == -1

\* The last p values, and their sum.
Window_(s, p) == SubSeq(s, Len(s) - p + 1, Len(s))
WindowSum(s, p) == SumFunction(Window_(s, p))

-----------------------------------------------------------------------------
(* Indicators.                                                             *)

\* base to the n, the denominator an average collects in n steps.
Power(base, n) ==
    LET power[i \in 0 .. n] == IF i = 0 THEN 1 ELSE base * power[i - 1]
    IN power[n]

\* ema_series, each element i multiplied by (p + 1)^(i - 1).
EmaSeries(s, p) ==
    LET e[i \in 1 .. Len(s)] ==
            IF i = 1 THEN s[1] ELSE 2 * Power(p + 1, i - 2) * s[i] + (p - 1) * e[i - 1]
    IN e

\* sma and ema at the end of s for two periods over one denominator: the
\* sign of their difference is the sign of fast - slow.
SmaGap(s, fast, slow) == WindowSum(s, fast) * slow - WindowSum(s, slow) * fast
EmaGap(s, fast, slow) ==
    LET n == Len(s)
    IN EmaSeries(s, fast)[n] * Power(slow + 1, n - 1) - EmaSeries(s, slow)[n] * Power(fast + 1, n - 1)

\* macd: the line at each index, over one denominator for the whole history.
MacdLine(s, fast, slow) ==
    LET n == Len(s)
        f == EmaSeries(s, fast)
        g == EmaSeries(s, slow)
        At(i) == f[i] * Power(fast + 1, n - i) * Power(slow + 1, n - 1)
                   - g[i] * Power(slow + 1, n - i) * Power(fast + 1, n - 1)
    IN [i \in 1 .. (n - slow + 1) |-> At(slow + i - 1)]

\* The sign of line - signal_line.
MacdGap(s, fast, slow, signal) ==
    LET Above(line) == Last(line) * Power(signal + 1, Len(line) - 1) - Last(EmaSeries(line, signal))
    IN Above(MacdLine(s, fast, slow))

MacdDefined(s, c) == c.slow > c.fast /\ Len(s) >= c.slow + c.signal

\* rsi as a fraction 100 * gains / (gains + losses), 100 when nothing fell.
Strength(gains, losses) ==
    IF losses = 0 THEN [n |-> 100, d |-> 1] ELSE [n |-> 100 * gains, d |-> gains + losses]
Rsi(s, p) ==
    LET Moves(sign) == SumFunction([i \in (Len(s) - p) .. (Len(s) - 1) |->
                                      Max({0, sign * (s[i + 1] - s[i])})])
    IN Strength(Moves(1), Moves(-1))

\* A fraction against two percentages.
AtMost(value, percent) == value.n <= percent * value.d
AtLeast(value, percent) == value.n >= percent * value.d

\* bollinger_bands: price >= middle + (num / den) standard deviations, which
\* squares to an integer comparison; side 1 is the upper band, -1 the lower.
BeyondBand(s, p, num, den, side) ==
    LET Square(x) == x * x
        squares == SumFunction([i \in 1 .. p |-> Square(Window_(s, p)[i])])
        Beyond(away, sum) ==
            away >= 0 /\ Square(den * away) >= Square(num) * (p * squares - Square(sum))
    IN Beyond(side * (p * Last(s) - WindowSum(s, p)), WindowSum(s, p))

-----------------------------------------------------------------------------
(* The strategies.                                                         *)

\* Mutant: the crossing above is strict on both sides, the one below is not.
CrossingStrict(before, now) ==
    CASE before < 0 /\ now > 0 -> "buy"
      [] before >= 0 /\ now < 0 -> "sell"
      [] OTHER -> "hold"

\* A crossing: the gap was on one side or zero, and is now on the other.
Crossing(before, now) ==
    CASE before <= 0 /\ now > 0 -> "buy"
      [] before >= 0 /\ now < 0 -> "sell"
      [] OTHER -> "hold"

EmaCross(s, fast, slow) ==
    IF Len(s) - 1 < fast \/ Len(s) - 1 < slow
    THEN "hold" ELSE Crossing(EmaGap(Front(s), fast, slow), EmaGap(s, fast, slow))

SmaCross(s, c) ==
    IF Len(s) - 1 < c.fast \/ Len(s) - 1 < c.slow
    THEN "hold" ELSE Crossing(SmaGap(Front(s), c.fast, c.slow), SmaGap(s, c.fast, c.slow))

RsiReversion(s, c) ==
    IF Len(s) <= c.rsi THEN "hold"
    ELSE IF AtMost(Rsi(s, c.rsi), c.rsiBuy) THEN "buy"
    ELSE IF AtLeast(Rsi(s, c.rsi), c.rsiSell) THEN "sell" ELSE "hold"

BollingerReversion(s, c) ==
    IF Len(s) < c.band THEN "hold"
    ELSE IF BeyondBand(s, c.band, c.deviations, 1, -1) THEN "buy"
    ELSE IF BeyondBand(s, c.band, c.deviations, 1, 1) THEN "sell" ELSE "hold"

\* rate_of_change against the threshold in percent.
Momentum(s, c) ==
    LET previous == s[Len(s) - c.momentum]
        rise == 100 * (Last(s) - previous)
    IN IF Len(s) <= c.momentum THEN "hold"
       ELSE IF rise >= c.threshold * previous THEN "buy"
       ELSE IF rise <= -c.threshold * previous THEN "sell" ELSE "hold"

MacdCross(s, c) ==
    IF MacdDefined(Front(s), c)
    THEN Crossing(MacdGap(Front(s), c.fast, c.slow, c.signal), MacdGap(s, c.fast, c.slow, c.signal))
    ELSE "hold"

Breakout(s, c) ==
    IF Len(s) - 1 >= c.breakout /\ \A i \in (Len(s) - c.breakout) .. (Len(s) - 1) : Last(s) > s[i]
    THEN "buy" ELSE "hold"

LlmSentiment(c, score) ==
    LET seen == IF score = NoScore THEN 50 ELSE score
    IN IF seen >= c.sentimentBuy THEN "buy"
       ELSE IF seen <= c.sentimentSell THEN "sell" ELSE "hold"

\* Votes are doubled: 2 for EMA and RSI, 3 for sentiment; a score of 0 is
\* falsy in the code and does not vote.
MultiFactor(s, c, score) ==
    LET Vote(action, weight) ==
            CASE action = "buy" -> weight [] action = "sell" -> -weight [] OTHER -> 0
        Decided(total) == CASE total >= 4 -> "buy" [] total <= -4 -> "sell" [] OTHER -> "hold"
    IN Decided(Vote(EmaCross(s, c.fast, c.slow), 2) + Vote(RsiReversion(s, c), 2)
                 + (IF score \in {NoScore, 0} THEN 0 ELSE Vote(LlmSentiment(c, score), 3)))

\* A crossing confirmed within a tenth of the width of the two-deviation band.
Scalp(s, c) ==
    LET Confirmed(cross) ==
            IF cross # "hold" /\ BeyondBand(s, BandPeriod, 8, 5, IF cross = "buy" THEN 1 ELSE -1)
            THEN cross ELSE "hold"
    IN IF Len(s) < BandPeriod THEN "hold" ELSE Confirmed(EmaCross(s, c.scalpFast, c.scalpSlow))

Swing(s, c) ==
    LET Confirmed(cross, value) ==
            IF \/ cross = "buy" /\ ~AtLeast(value, 35)
               \/ cross = "sell" /\ ~AtMost(value, 65)
            THEN cross ELSE "hold"
    IN IF Len(s) <= c.swingRsi THEN "hold" ELSE Confirmed(MacdCross(s, c), Rsi(s, c.swingRsi))

\* A crossing whose gap is at least 2% of the price.
PositionCross(s, c) ==
    LET Wide(gap) == 50 * Max({gap, -gap}) >= Last(s) * c.positionFast * c.positionSlow
        Confirmed(cross) ==
            IF cross # "hold" /\ Wide(SmaGap(s, c.positionFast, c.positionSlow))
            THEN cross ELSE "hold"
    IN Confirmed(SmaCross(s, [c EXCEPT !.fast = c.positionFast, !.slow = c.positionSlow]))

CandleStrategies == {"vwap", "stochastic", "williams_r", "atr_channel"}

\* StrategyEngine.evaluate, without candles.
StrategySignal(name, s, c, score) ==
    IF Len(s) < c.minHistory THEN "hold"
    ELSE CASE name = "ema_cross" -> EmaCross(s, c.fast, c.slow)
           [] name = "sma_cross" -> SmaCross(s, c)
           [] name = "rsi_reversion" -> RsiReversion(s, c)
           [] name = "bollinger_reversion" -> BollingerReversion(s, c)
           [] name = "momentum" -> Momentum(s, c)
           [] name = "macd_cross" -> MacdCross(s, c)
           [] name = "breakout" -> Breakout(s, c)
           [] name = "llm_sentiment" -> LlmSentiment(c, score)
           [] name = "multi_factor" -> MultiFactor(s, c, score)
           [] name = "scalp" -> Scalp(s, c)
           [] name = "swing" -> Swing(s, c)
           [] name = "position" -> PositionCross(s, c)
           [] name \in CandleStrategies -> "hold"
=============================================================================
