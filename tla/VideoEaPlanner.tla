--------------------------- MODULE VideoEaPlanner ---------------------------
(***************************************************************************)
(* VideoDerivedEaPlanner of zksato (video_ea.py): from a candle history    *)
(* and a configuration to a plan, a ladder of virtual triggers.            *)
(*                                                                         *)
(* Prices are integers, in quarters of a tick.  The configuration gives    *)
(* multiples of the ATR in halves; with ATR periods of 2 every quotient    *)
(* below is then exact.  Optional prices are 0 when absent.                *)
(*                                                                         *)
(* The bearish half of the planner is the bullish half with prices read    *)
(* upside down: Flip turns lows into highs and support into resistance.    *)
(*                                                                         *)
(* A trigger's key is its dedupe_key, which the planner makes of the side, *)
(* the level and the price.                                                *)
(***************************************************************************)
EXTENDS Integers, Sequences, FiniteSetsExt, Functions

Abs(x) == IF x < 0 THEN -x ELSE x

\* min and max of two values
Lesser(a, b) == IF a <= b THEN a ELSE b
Greater(a, b) == IF a >= b THEN a ELSE b

\* The price k half-ATRs stand for.
HalfAtrs(k, atr) == (k * atr) \div 2

Flip(candles) ==
    [i \in DOMAIN candles |->
        [open |-> -candles[i].open, high |-> -candles[i].low,
         low |-> -candles[i].high, close |-> -candles[i].close]]

-----------------------------------------------------------------------------
(* Indicators and price action.                                            *)

\* indicators.atr: the mean of the last true ranges.
TrueRange(previous, current) ==
    Max({current.high - current.low, Abs(current.high - previous.close),
         Abs(current.low - previous.close)})

Atr(candles, period) ==
    LET n == Len(candles)
        ranges == [i \in 2..n |-> TrueRange(candles[i - 1], candles[i])]
    IN  SumFunctionOnSet(ranges, (n - period + 1)..n) \div period

\* _pivot_highs, and _pivot_lows of the flipped history: the indices.
PivotHighs(candles, window) ==
    {i \in (window + 1)..(Len(candles) - window) :
        /\ \A j \in (i - window)..(i - 1) : candles[i].high >= candles[j].high
        /\ \A j \in (i + 1)..(i + window) : candles[i].high > candles[j].high}

\* _bullish_pa, and _bearish_pa of the flipped history.  A candle without a body
\* needs any wick at all.
BullishPa(candles, i, ratio) ==
    LET c == candles[i]
        body == Abs(c.close - c.open)
        wick == Lesser(c.open, c.close) - c.low
        rejection == /\ c.close >= c.open
                     /\ IF body = 0 THEN wick > 0 \/ ratio = 0 ELSE 2 * wick >= body * ratio
    IN  \/ rejection
        \/ /\ i > 1
           /\ candles[i - 1].close < candles[i - 1].open
           /\ c.close > c.open
           /\ c.close >= candles[i - 1].open
           /\ c.open <= candles[i - 1].close

\* _find_retest: the first candle that comes back to the level after the first
\* close beyond it, as a set that may be empty.
FindRetest(candles, pivot, level, atr, config) ==
    LET tolerance == HalfAtrs(config.tolerance, atr)
        breakouts == {b \in (pivot + 1)..(Len(candles) - 1) :
                         candles[b].close > level + HalfAtrs(config.buffer, atr)}
        retests(b) == {r \in (b + 1)..Len(candles) :
                         /\ candles[r].low <= level + tolerance
                         /\ candles[r].close >= level - tolerance
                         /\ config.confirm => BullishPa(candles, r, config.wick)}
        found == IF breakouts = {} THEN {} ELSE retests(Min(breakouts))
    IN  IF found = {} THEN {} ELSE {Min(found)}

\* The half of _detect_pa_structure over the pivot highs.
FoundAbove(candles, atr, config) ==
    UNION {{[pivot |-> p, level |-> candles[p].high, retest |-> r] :
               r \in FindRetest(candles, p, candles[p].high, atr, config)} :
           p \in PivotHighs(candles, config.pivot)}

\* Does the last candle reject the latest of the pivot lows: the support half of
\* _direct_rejection.
RejectsSupport(candles, lows, atr, config) ==
    /\ lows # {}
    /\ LET level == candles[Max(lows)].low
           last == candles[Len(candles)]
       IN  /\ last.low <= level + HalfAtrs(config.tolerance, atr)
           /\ last.close >= level
           /\ BullishPa(candles, Len(candles), config.wick)

\* _detect_pa_structure with _direct_rejection: the bias and the zone's level.
\* The latest retest wins, of equal ones the first found, highs before lows.
DetectPaStructure(candles, atr, config) ==
    LET flipped == Flip(candles)
        highs == PivotHighs(candles, config.pivot)
        lows == PivotHighs(flipped, config.pivot)
        above == FoundAbove(candles, atr, config)
        below == FoundAbove(flipped, atr, config)
        latest(found) == IF found = {} THEN 0 ELSE Max({f.retest : f \in found})
        level(found) == (CHOOSE f \in found :
                            /\ f.retest = latest(found)
                            /\ \A g \in found : g.retest = f.retest => f.pivot <= g.pivot).level
    IN  IF above \cup below # {}
        THEN IF latest(above) >= latest(below)
             THEN [bias |-> "long", level |-> level(above)]
             ELSE [bias |-> "short", level |-> -level(below)]
        ELSE IF RejectsSupport(candles, lows, atr, config)
        THEN [bias |-> "long", level |-> candles[Max(lows)].low]
        ELSE IF RejectsSupport(flipped, highs, atr, config)
        THEN [bias |-> "short", level |-> candles[Max(highs)].high]
        ELSE [bias |-> "neutral", level |-> 0]

-----------------------------------------------------------------------------
(* The plan.                                                               *)

\* _round_to_tick: half a tick up, and never below one tick.
RoundToTick(value, tick) == Greater(tick, ((value + tick \div 2) \div tick) * tick)

WithinPriceBand(price, config) ==
    /\ config.lower # 0 => price >= config.lower
    /\ config.upper # 0 => price <= config.upper

\* _zone: the bounds.
Zone(level, atr, config) ==
    LET half == HalfAtrs(config.zone, atr)
    IN  [low |-> Max({config.tick, config.lower, level - half}),
         high |-> IF config.upper # 0 THEN Lesser(config.upper, level + half) ELSE level + half]

\* _blocked_reason, for a research request.
Blocked(config, bias) ==
    /\ config.profile = "set_equity"
    /\ config.mode = "symmetric_research" \/ bias = "short"

\* _sides
Sides(config, bias) ==
    IF config.mode = "symmetric_research" THEN {"buy", "sell"}
    ELSE IF bias = "long" THEN {"buy"} ELSE {"sell"}

\* Mutant: the caps are not shared between the two sides of a symmetric grid.
LevelsPerSide(config, sides) ==
    Min({config.levels, config.maxQuantity \div config.quantity, config.maxPending})

\* The number of levels plan asks _triggers for.
Levels(config, sides) ==
    LET n == Cardinality(sides)
    IN  Min({config.levels, (config.maxQuantity \div config.quantity) \div n,
             config.maxPending \div n})

\* _triggers
Triggers(anchor, step, sides, levels, config) ==
    LET price(side, k) ==
            RoundToTick(anchor + (IF side = "buy" THEN step * k ELSE -(step * k)), config.tick)
        all == {[side |-> s, level |-> k, price |-> price(s, k), key |-> <<s, k, price(s, k)>>] :
                  s \in sides, k \in 1..levels}
    IN  {t \in all : WithinPriceBand(t.price, config)}

\* _invalidation, for a directional bias.
Invalidation(anchor, atr, step, bias, zone, config) ==
    LET distance == Greater(HalfAtrs(config.stop, atr), step)
    IN  RoundToTick(IF bias = "long"
                    THEN Lesser(zone.low - distance, anchor - distance)
                    ELSE Greater(zone.high + distance, anchor + distance), config.tick)

\* _empty_plan and _base_plan: a plan without triggers.
EmptyPlan(anchor, bias, config) ==
    [bias |-> bias, anchor |-> anchor, triggers |-> {}, invalidation |-> 0, config |-> config]

\* plan, for a configuration that gives the grid step in ATRs (grid_step_abs
\* would replace the step).
Plan(history, config) ==
    LET candles == IF Len(history) > config.lookback
                   THEN SubSeq(history, Len(history) - config.lookback + 1, Len(history))
                   ELSE history
        anchor == candles[Len(candles)].close
        minimum == Greater(config.atrPeriod + 2, 2 * config.pivot + 5)
        atr == Atr(candles, config.atrPeriod)
        pa == DetectPaStructure(candles, atr, config)
        step == Greater(config.tick, RoundToTick(HalfAtrs(config.step, atr), config.tick))
        sides == Sides(config, pa.bias)
    IN  IF Len(candles) < minimum \/ atr <= 0 \/ ~WithinPriceBand(anchor, config)
        THEN EmptyPlan(anchor, "neutral", config)
        ELSE IF Blocked(config, pa.bias) \/ (config.mode = "pa_filtered" /\ pa.bias = "neutral")
        THEN EmptyPlan(anchor, pa.bias, config)
        ELSE [EmptyPlan(anchor, pa.bias, config) EXCEPT
                !.triggers = Triggers(anchor, step, sides, Levels(config, sides), config),
                !.invalidation = IF pa.bias = "neutral" THEN 0
                                 ELSE Invalidation(anchor, atr, step, pa.bias,
                                                   Zone(pa.level, atr, config), config)]

\* activate: the triggers the move from one price to the next crosses.
Activate(plan, previous, current) ==
    {t \in plan.triggers :
        \/ t.side = "buy" /\ previous < t.price /\ t.price <= current
        \/ t.side = "sell" /\ previous > t.price /\ t.price >= current}
=============================================================================
