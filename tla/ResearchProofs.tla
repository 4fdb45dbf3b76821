--------------------------- MODULE ResearchProofs ---------------------------
(***************************************************************************)
(* Proofs about backtests, replays and walk-forwards, for any bars in any  *)
(* order, any strategies, configurations and costs, and any window sizes.  *)
(***************************************************************************)
EXTENDS Research, InductionFacts, FiniteSetTheorems, SequenceTheorems, TLAPS

-----------------------------------------------------------------------------
(* The ledger of a backtest.                                               *)

TradeShapes == {"buy", "sell"} \X Nat \X Nat \X Nat
Ledgers ==
    [cash: Int, held: Nat, average: Nat, entryFee: Nat, pnls: Seq(Int), trades: Seq(TradeShapes),
     fees: Int, equity: Seq(Int)]

\* The cash is never negative, and cash, the price paid for what is held and
\* its fee make up the start money and the realised profit.
BalancedLedgers ==
    {l \in Ledgers :
       /\ l.cash >= 0
       /\ l.held = 0 => l.entryFee = 0
       /\ l.cash + l.average * l.held * RateBase + l.entryFee = Money(StartCash) + SumFunction(l.pnls)}

\* A sequence goes on from another, and a ledger from another ledger.
Begins(s, t) ==
    /\ Len(s) <= Len(t)
    /\ \A i \in 1..Len(s) : t[i] = s[i]
Extends(l, m) == Begins(l.trades, m.trades) /\ Begins(l.equity, m.equity) /\ l.fees <= m.fees

\* Every ledger goes on from itself (a candle without a trade).
LEMMA ExtendsItself ==
    ASSUME NEW l \in Ledgers
    PROVE  Extends(l, l) /\ Begins(l.trades, l.trades) /\ Begins(l.equity, l.equity)
<1>1. l.trades \in Seq(TradeShapes) /\ l.equity \in Seq(Int) /\ l.fees \in Int
  BY DEF Ledgers
<1>2. Len(l.trades) \in Nat /\ Len(l.equity) \in Nat
  BY <1>1, LenProperties
<1> QED
  BY <1>1, <1>2 DEF Begins, Extends

\* Candle after candle the ledger goes on.
LEMMA ExtendsThrough ==
    ASSUME NEW l \in Ledgers, NEW m \in Ledgers, NEW n \in Ledgers, Extends(l, m), Extends(m, n)
    PROVE  Extends(l, n)
<1>1. \A x \in Ledgers : x.trades \in Seq(TradeShapes) /\ x.equity \in Seq(Int) /\ x.fees \in Int
  BY DEF Ledgers
<1>2. ASSUME NEW r, NEW s, NEW t, Len(r) \in Nat, Len(s) \in Nat, Len(t) \in Nat, Begins(r, s), Begins(s, t)
      PROVE  Begins(r, t)
  BY <1>2 DEF Begins
<1>3. /\ Len(l.trades) \in Nat /\ Len(m.trades) \in Nat /\ Len(n.trades) \in Nat
      /\ Len(l.equity) \in Nat /\ Len(m.equity) \in Nat /\ Len(n.equity) \in Nat
  BY <1>1, LenProperties
<1>4. Begins(l.trades, n.trades) /\ Begins(l.equity, n.equity)
  BY <1>2, <1>3 DEF Extends
<1>5. l.fees <= n.fees
  BY <1>1 DEF Extends
<1> QED
  BY <1>4, <1>5 DEF Extends

\* What goes on from a sequence begins with it.
LEMMA BegunPrefix ==
    ASSUME NEW S, NEW s \in Seq(S), NEW t \in Seq(S), Begins(s, t)
    PROVE  IsPrefix(s, t)
<1>1. Len(s) \in Nat /\ Len(t) \in Nat /\ Len(s) <= Len(t) /\ \A i \in 1..Len(s) : t[i] = s[i]
  BY LenProperties DEF Begins
<1>2. SubSeq(s, 1, Len(s)) = SubSeq(t, 1, Len(s))
  <2>1. PICK k, u, v : k = Len(s) /\ u = SubSeq(s, 1, k) /\ v = SubSeq(t, 1, k)
    OBVIOUS
  <2>2. k \in Nat /\ \A i \in 1..k : s[i] \in S /\ t[i] \in S /\ t[i] = s[i]
    BY <1>1, <2>1, ElementOfSeq
  <2>3. u \in Seq(S) /\ Len(u) = k /\ \A i \in 1..k : u[i] = s[i]
    BY <2>1, <2>2, SubSeqProperties
  <2>4. v \in Seq(S) /\ Len(v) = k /\ \A i \in 1..k : v[i] = t[i]
    BY <2>1, <2>2, SubSeqProperties
  <2>5. u = v
    BY <2>2, <2>3, <2>4, SeqEqual
  <2> QED
    BY <2>1, <2>5
<1> QED
  BY <1>1, <1>2 DEF IsPrefix

\* Backtester.run starts with the whole cash and nothing held.
LEMMA NewLedgerBalanced == NewLedger \in BalancedLedgers
<1>1. Money(StartCash) \in Int /\ Money(StartCash) >= 0
  BY ResearchAssumption DEF Money
<1>2. NewLedger \in Ledgers
  BY <1>1, EmptySeq DEF NewLedger, Ledgers
<1>3. SumFunction(<<>>) = 0
  <2>1. PICK s : s = <<>>
    OBVIOUS
  <2>2. s \in Seq(Int) /\ Len(s) = 0
    BY <2>1, EmptySeq
  <2>3. s \in [1..0 -> Int] /\ DOMAIN s = 1..0
    BY <2>2, LenProperties
  <2>4. PICK R : R = 1..0
    OBVIOUS
  <2>5. IsFiniteSet(R) /\ R = {}
    BY <2>4, FS_EmptySet
  <2>6. s \in [R -> Int] /\ DOMAIN s = R /\ \A y \in R : s[y] = 0
    BY <2>3, <2>4, <2>5
  <2>7. SumFunctionOnSet(s, R) = 0
    BY <2>5, <2>6, SumZero
  <2> QED
    BY <2>1, <2>6, <2>7, Zenon DEF SumFunction
<1>4. /\ NewLedger.cash = Money(StartCash) /\ NewLedger.held = 0 /\ NewLedger.average = 0
      /\ NewLedger.entryFee = 0 /\ NewLedger.pnls = <<>>
  BY DEF NewLedger
<1>5. Money(StartCash) + 0 * 0 * RateBase + 0 = Money(StartCash) + 0
  BY <1>1, ResearchAssumption
<1>6. SumFunction(NewLedger.pnls) = 0
  BY <1>3, <1>4, Zenon
<1> QED
  BY <1>1, <1>2, <1>4, <1>5, <1>6 DEF BalancedLedgers

\* A trade row appended to the trades.
LEMMA TradeAppended ==
    ASSUME NEW l \in Ledgers, NEW t \in TradeShapes
    PROVE  /\ Append(l.trades, t) \in Seq(TradeShapes)
           /\ Len(l.trades) <= Len(Append(l.trades, t))
           /\ \A i \in 1..Len(l.trades) : Append(l.trades, t)[i] = l.trades[i]
<1>1. PICK s : s = l.trades
  OBVIOUS
<1>2. s \in Seq(TradeShapes)
  BY <1>1 DEF Ledgers
<1> QED
  BY <1>1, <1>2, AppendProperties, LenProperties

\* What one candle does to the ledger: BuyBar pays no more than the cash, and
\* the fee with it.
LEMMA BuyFacts ==
    ASSUME NEW l \in BalancedLedgers, l.held = 0, NEW close \in BarPrices, NEW cost \in CostRates,
           NEW bar \in Nat
    PROVE  BuyBar(l, close, cost, bar) \in BalancedLedgers /\ Extends(l, BuyBar(l, close, cost, bar))
<1>1. PICK c, f, b : c = cost.commission /\ f = cost.slippage /\ b = RateBase
  OBVIOUS
<1>2. c \in Nat /\ f \in Nat /\ b \in Nat /\ b > 0 /\ close \in Nat /\ close > 0
  BY <1>1, ResearchAssumption
<1>3. PICK price : price = close * (RateBase + cost.slippage)
  OBVIOUS
<1>4. price \in Nat /\ price > 0
  BY <1>1, <1>2, <1>3
<1>5. PICK most : most = Affordable(l.cash, price, cost)
  OBVIOUS
<1>6. PICK cash : cash = l.cash
  OBVIOUS
<1>7. cash \in Nat /\ l \in Ledgers
  BY <1>6 DEF BalancedLedgers, Ledgers
<1>8. PICK each : each = price * (b + c)
  OBVIOUS
<1>9. each \in Nat /\ each > 0
  BY <1>2, <1>4, <1>8
<1>10. most = cash \div each
  BY <1>1, <1>5, <1>6, <1>8 DEF Affordable
<1>11. most \in Nat /\ most * each <= cash
  BY <1>7, <1>9, <1>10
<1>12. PICK size : size = IF OrderSize <= most THEN OrderSize ELSE most
  OBVIOUS
<1>13. size \in Nat /\ size <= most
  BY <1>11, <1>12, ResearchAssumption
<1>14. size * each <= cash
  <2>1. size * each <= most * each
    BY <1>9, <1>11, <1>13
  <2> QED
    BY <1>7, <1>9, <1>11, <1>13, <2>1
<1>15. PICK fee : fee = price * size * cost.commission
  OBVIOUS
<1>16. fee \in Nat
  BY <1>1, <1>2, <1>4, <1>13, <1>15
<1>17. CASE size = 0
  <2>1. BuyBar(l, close, cost, bar) = l
    BY <1>3, <1>5, <1>12, <1>17 DEF BuyBar
  <2> QED
    BY <1>7, <2>1, ExtendsItself
<1>18. CASE size # 0
  <2>1. PICK left, trades, fees : /\ left = l.cash - price * size * RateBase - fee
                                  /\ trades = Append(l.trades, <<"buy", bar, price, size>>)
                                  /\ fees = l.fees + fee
    OBVIOUS
  <2>2. BuyBar(l, close, cost, bar) =
          [l EXCEPT !.cash = left, !.held = size, !.average = price,
                    !.entryFee = fee, !.fees = fees, !.trades = trades]
    BY <1>3, <1>5, <1>12, <1>15, <1>18, <2>1 DEF BuyBar
  <2>3. price * size * b + fee = size * each
    BY <1>1, <1>2, <1>4, <1>8, <1>13, <1>15
  <2>4. left = cash - size * each
    <3>1. price * size * b \in Nat
      BY <1>2, <1>4, <1>13
    <3> QED
      BY <1>1, <1>6, <1>7, <1>16, <2>1, <2>3, <3>1
  <2>5. left \in Int /\ left >= 0
    BY <1>7, <1>9, <1>13, <1>14, <2>4
  <2>6. <<"buy", bar, price, size>> \in TradeShapes
    BY <1>4, <1>13 DEF TradeShapes
  <2>7. /\ trades \in Seq(TradeShapes) /\ Len(l.trades) <= Len(trades)
        /\ \A i \in 1..Len(l.trades) : trades[i] = l.trades[i]
    BY <1>7, <2>1, <2>6, TradeAppended
  <2>8. fees \in Int
    <3>1. l.fees \in Int
      BY <1>7 DEF Ledgers
    <3>2. fees = l.fees + fee
      BY <2>1
    <3> QED
      BY <1>16, <3>1, <3>2
  <2>9. PICK m : m = BuyBar(l, close, cost, bar)
    OBVIOUS
  <2>10. m = [l EXCEPT !.cash = left, !.held = size, !.average = price,
                       !.entryFee = fee, !.fees = fees, !.trades = trades]
    BY <2>2, <2>9
  <2>11. m \in Ledgers
    BY <1>4, <1>7, <1>13, <1>16, <2>5, <2>7, <2>8, <2>10 DEF Ledgers
  <2>12. /\ m.cash = left /\ m.held = size /\ m.average = price /\ m.entryFee = fee
         /\ m.pnls = l.pnls /\ m.trades = trades /\ m.fees = fees /\ m.equity = l.equity
    BY <1>7, <2>10 DEF Ledgers
  <2>13. left + price * size * b + fee = cash
    <3>1. price * size * b \in Nat
      BY <1>2, <1>4, <1>13
    <3> QED
      BY <1>1, <1>6, <1>7, <1>16, <2>1, <3>1
  <2>14. cash = Money(StartCash) + SumFunction(l.pnls)
    <3>1. cash + l.average * 0 * b + 0 = Money(StartCash) + SumFunction(l.pnls)
      BY <1>1, <1>6 DEF BalancedLedgers
    <3>2. l.average * 0 * b = 0
      <4>1. l.average \in Nat
        BY <1>7 DEF Ledgers
      <4> QED
        BY <1>2, <4>1
    <3> QED
      BY <1>7, <3>1, <3>2
  <2>15. m.cash + m.average * m.held * RateBase + m.entryFee = Money(StartCash) + SumFunction(m.pnls)
    BY <1>1, <2>12, <2>13, <2>14
  <2>16. m \in BalancedLedgers
    BY <1>18, <2>5, <2>11, <2>12, <2>15 DEF BalancedLedgers
  <2>17. Extends(l, m)
    <3>1. Begins(l.trades, m.trades)
      BY <2>7, <2>12 DEF Begins
    <3>2. Begins(l.equity, m.equity)
      BY <1>7, <2>12, ExtendsItself
    <3>3. l.fees <= m.fees
      <4>1. l.fees \in Int
        BY <1>7 DEF Ledgers
      <4>2. m.fees = l.fees + fee
        BY <2>1, <2>12
      <4> QED
        BY <1>16, <4>1, <4>2
    <3> QED
      BY <3>1, <3>2, <3>3 DEF Extends
  <2> QED
    BY <2>9, <2>16, <2>17
<1> QED
  BY <1>17, <1>18

\* SellBar: neither the slippage nor the commission is more than the price.
LEMMA SellFacts ==
    ASSUME NEW l \in BalancedLedgers, NEW close \in BarPrices, NEW cost \in CostRates, NEW bar \in Nat
    PROVE  SellBar(l, close, cost, bar) \in BalancedLedgers /\ Extends(l, SellBar(l, close, cost, bar))
<1>1. PICK c, f, b : c = cost.commission /\ f = cost.slippage /\ b = RateBase
  OBVIOUS
<1>2. c \in Nat /\ f \in Nat /\ b \in Nat /\ c <= b /\ f <= b /\ close \in Nat
  BY <1>1, ResearchAssumption
<1>3. PICK price : price = close * (RateBase - cost.slippage)
  OBVIOUS
<1>4. price \in Nat
  <2>1. b - f \in Nat
    BY <1>2
  <2> QED
    BY <1>1, <1>2, <1>3, <2>1
<1>5. l \in Ledgers
  BY DEF BalancedLedgers
<1>6. PICK cash, held, average, entry : cash = l.cash /\ held = l.held /\ average = l.average /\ entry = l.entryFee
  OBVIOUS
<1>7. cash \in Nat /\ held \in Nat /\ average \in Nat /\ entry \in Nat
  BY <1>6 DEF BalancedLedgers, Ledgers
<1>8. PICK fee : fee = price * l.held * cost.commission
  OBVIOUS
<1>9. PICK worth : worth = price * held
  OBVIOUS
<1>10. worth \in Nat /\ worth * c \in Nat /\ worth * b \in Nat /\ worth * c <= worth * b /\ fee = worth * c
  BY <1>1, <1>2, <1>4, <1>6, <1>7, <1>8, <1>9
<1>11. PICK pnl, got : /\ pnl = (price - l.average) * l.held * RateBase - l.entryFee - fee
                       /\ got = l.cash + price * l.held * RateBase - fee
  OBVIOUS
<1>12. PICK paid : paid = average * held * b
  OBVIOUS
<1>13. paid \in Nat
  BY <1>2, <1>7, <1>12
<1>14. (price - average) * held * b = worth * b - paid
  BY <1>2, <1>4, <1>7, <1>9, <1>12
<1>15. pnl = worth * b - paid - entry - worth * c /\ got = cash + worth * b - worth * c
  <2>1. pnl = (price - average) * held * b - entry - fee /\ got = cash + price * held * b - fee
    BY <1>1, <1>6, <1>11
  <2> QED
    BY <1>9, <1>10, <1>14, <2>1
<1>16. pnl \in Int /\ got \in Int /\ got >= 0
  BY <1>7, <1>10, <1>13, <1>15
<1>17. PICK trades, fees, pnls : /\ trades = Append(l.trades, <<"sell", bar, price, l.held>>)
                                 /\ fees = l.fees + fee /\ pnls = Append(l.pnls, pnl)
  OBVIOUS
<1>18. PICK m : m = SellBar(l, close, cost, bar)
  OBVIOUS
<1>19. m = [l EXCEPT !.cash = got, !.held = 0, !.average = 0, !.entryFee = 0, !.fees = fees,
                     !.pnls = pnls, !.trades = trades]
  BY <1>3, <1>8, <1>11, <1>17, <1>18 DEF SellBar
<1>20. <<"sell", bar, price, l.held>> \in TradeShapes
  BY <1>4, <1>6, <1>7 DEF TradeShapes
<1>21. /\ trades \in Seq(TradeShapes) /\ Len(l.trades) <= Len(trades)
       /\ \A i \in 1..Len(l.trades) : trades[i] = l.trades[i]
  BY <1>5, <1>17, <1>20, TradeAppended
<1>22. fees \in Int /\ l.fees <= fees
  <2>1. l.fees \in Int
    BY <1>5 DEF Ledgers
  <2>2. fee \in Nat /\ fees = l.fees + fee
    BY <1>10, <1>17
  <2> QED
    BY <2>1, <2>2
<1>23. PICK before : before = l.pnls
  OBVIOUS
<1>24. before \in Seq(Int)
  BY <1>5, <1>23 DEF Ledgers
<1>25. pnls \in Seq(Int) /\ SumFunction(pnls) = SumFunction(before) + pnl /\ SumFunction(before) \in Int
  BY <1>16, <1>17, <1>23, <1>24, SumAppend, AppendProperties
<1>26. m \in Ledgers
  BY <1>5, <1>16, <1>19, <1>21, <1>22, <1>25 DEF Ledgers
<1>27. /\ m.cash = got /\ m.held = 0 /\ m.average = 0 /\ m.entryFee = 0
       /\ m.pnls = pnls /\ m.trades = trades /\ m.fees = fees /\ m.equity = l.equity
  BY <1>5, <1>19 DEF Ledgers
<1>28. cash + paid + entry = Money(StartCash) + SumFunction(before)
  BY <1>1, <1>6, <1>12, <1>23 DEF BalancedLedgers
<1>29. got + 0 * 0 * b + 0 = Money(StartCash) + SumFunction(pnls)
  <2>1. Money(StartCash) \in Int
    BY ResearchAssumption DEF Money
  <2>2. 0 * 0 * b = 0
    BY <1>2
  <2>3. PICK before_, after, start, up, off :
          /\ before_ = SumFunction(before) /\ after = SumFunction(pnls) /\ start = Money(StartCash)
          /\ up = worth * b /\ off = worth * c
    OBVIOUS
  <2>4. /\ before_ \in Int /\ start \in Int /\ up \in Int /\ off \in Int
        /\ after = before_ + pnl /\ cash + paid + entry = start + before_
        /\ pnl = up - paid - entry - off /\ got = cash + up - off
    BY <1>10, <1>15, <1>25, <1>28, <2>1, <2>3
  <2>5. got = start + after
    BY <1>7, <1>13, <2>4
  <2> QED
    BY <1>16, <2>2, <2>3, <2>5
<1>30. m.cash + m.average * m.held * RateBase + m.entryFee = Money(StartCash) + SumFunction(m.pnls)
  BY <1>1, <1>27, <1>29
<1>31. m \in BalancedLedgers
  BY <1>16, <1>26, <1>27, <1>30 DEF BalancedLedgers
<1>32. Extends(l, m)
  <2>1. Begins(l.trades, m.trades)
    BY <1>21, <1>27 DEF Begins
  <2>2. Begins(l.equity, m.equity)
    BY <1>5, <1>27, ExtendsItself
  <2> QED
    BY <1>22, <1>27, <2>1, <2>2 DEF Extends
<1> QED
  BY <1>18, <1>31, <1>32

\* Traded, whatever the signal.
LEMMA TradedFacts ==
    ASSUME NEW l \in BalancedLedgers, NEW signal, NEW close \in BarPrices, NEW cost \in CostRates,
           NEW bar \in Nat
    PROVE  /\ Traded(l, signal, close, cost, bar) \in BalancedLedgers
           /\ Extends(l, Traded(l, signal, close, cost, bar))
<1>1. CASE signal = "buy" /\ l.held = 0
  <2>1. Traded(l, signal, close, cost, bar) = BuyBar(l, close, cost, bar)
    BY <1>1 DEF Traded
  <2> QED
    BY <1>1, <2>1, BuyFacts
<1>2. CASE signal = "sell" /\ l.held > 0
  <2>1. Traded(l, signal, close, cost, bar) = SellBar(l, close, cost, bar)
    BY <1>2 DEF Traded
  <2> QED
    BY <2>1, SellFacts
<1>3. CASE ~(signal = "buy" /\ l.held = 0) /\ ~(signal = "sell" /\ l.held > 0)
  <2>1. Traded(l, signal, close, cost, bar) = l
    BY <1>3 DEF Traded
  <2>2. l \in Ledgers
    BY DEF BalancedLedgers
  <2> QED
    BY <2>1, <2>2, ExtendsItself
<1> QED
  BY <1>1, <1>2, <1>3

\* What the equity ends with after a candle.
MarkedTo(m, close) == Len(m.equity) > 0 /\ Last(m.equity) = m.cash + Money(m.held * close)

\* The mark at the close leaves money and trades alone.
LEMMA MarkedFacts ==
    ASSUME NEW l \in BalancedLedgers, NEW close \in BarPrices
    PROVE  /\ Marked(l, close) \in BalancedLedgers /\ Extends(l, Marked(l, close))
           /\ MarkedTo(Marked(l, close), close)
<1>1. l \in Ledgers
  BY DEF BalancedLedgers
<1>2. PICK e : e = l.cash + Money(l.held * close)
  OBVIOUS
<1>3. e \in Int
  <2>1. l.cash \in Int /\ l.held \in Nat /\ close \in Nat
    BY <1>1, ResearchAssumption DEF Ledgers
  <2>2. l.held * close \in Nat
    BY <2>1
  <2>3. Money(l.held * close) \in Int
    BY <2>2, ResearchAssumption DEF Money
  <2> QED
    BY <1>2, <2>1, <2>3
<1>4. PICK s, t : s = l.equity /\ t = Append(l.equity, e)
  OBVIOUS
<1>5. s \in Seq(Int)
  BY <1>1, <1>4 DEF Ledgers
<1>6. t \in Seq(Int) /\ Len(t) = Len(s) + 1 /\ t[Len(s) + 1] = e /\ Len(s) \in Nat
  BY <1>3, <1>4, <1>5, AppendProperties, LenProperties
<1>7. PICK m : m = Marked(l, close)
  OBVIOUS
<1>8. m = [l EXCEPT !.equity = t]
  BY <1>2, <1>4, <1>7 DEF Marked
<1>9. /\ m.cash = l.cash /\ m.held = l.held /\ m.average = l.average /\ m.entryFee = l.entryFee
      /\ m.pnls = l.pnls /\ m.trades = l.trades /\ m.fees = l.fees /\ m.equity = t
  BY <1>1, <1>8 DEF Ledgers
<1>10. m \in Ledgers
  BY <1>1, <1>6, <1>8 DEF Ledgers
<1>11. m \in BalancedLedgers
  BY <1>9, <1>10 DEF BalancedLedgers
<1>12. Extends(l, m)
  <2>1. Begins(l.trades, m.trades) /\ l.fees \in Int
    BY <1>1, <1>9, ExtendsItself DEF Ledgers
  <2>2. \A i \in 1..Len(s) : t[i] = s[i]
    BY <1>3, <1>4, <1>5, AppendProperties
  <2>3. Begins(l.equity, m.equity)
    BY <1>4, <1>6, <1>9, <2>2 DEF Begins
  <2> QED
    BY <1>9, <2>1, <2>3 DEF Extends
<1>13. MarkedTo(m, close)
  BY <1>2, <1>6, <1>9 DEF MarkedTo, Last
<1> QED
  BY <1>7, <1>11, <1>12, <1>13

\* One candle of Backtester.run.
LEMMA BarFacts ==
    ASSUME NEW l \in BalancedLedgers, NEW closes \in Seq(BarPrices), NEW i \in 1..Len(closes),
           NEW name, NEW config, NEW cost \in CostRates
    PROVE  /\ BacktestBar(l, closes, i, name, config, cost) \in BalancedLedgers
           /\ Extends(l, BacktestBar(l, closes, i, name, config, cost))
           /\ MarkedTo(BacktestBar(l, closes, i, name, config, cost), closes[i])
<1>1. PICK signal : signal = StrategySignal(name, SubSeq(closes, 1, i), config, NoScore)
  OBVIOUS
<1>2. PICK close : close = closes[i]
  OBVIOUS
<1>3. close \in BarPrices /\ i \in Nat
  BY <1>2, ElementOfSeq
<1>4. PICK m : m = Traded(l, signal, close, cost, i)
  OBVIOUS
<1>5. m \in BalancedLedgers /\ Extends(l, m)
  BY <1>3, <1>4, TradedFacts
<1>6. PICK n : n = Marked(m, close)
  OBVIOUS
<1>7. n \in BalancedLedgers /\ Extends(m, n) /\ MarkedTo(n, close)
  BY <1>3, <1>5, <1>6, MarkedFacts
<1>8. Extends(l, n)
  <2>1. l \in Ledgers /\ m \in Ledgers /\ n \in Ledgers
    BY <1>5, <1>7 DEF BalancedLedgers
  <2> QED
    BY <1>5, <1>7, <2>1, ExtendsThrough
<1>9. BacktestBar(l, closes, i, name, config, cost) = n
  BY <1>1, <1>2, <1>4, <1>6 DEF BacktestBar
<1> QED
  BY <1>2, <1>7, <1>8, <1>9

-----------------------------------------------------------------------------
(* The ledgers a backtest goes through.                                    *)

\* r[i] is the ledger after the first i candles.
IsRun(r, closes, name, config, cost) ==
    /\ r[0] = NewLedger
    /\ \A i \in 1..Len(closes) :
         /\ r[i - 1] \in BalancedLedgers
         /\ r[i] = BacktestBar(r[i - 1], closes, i, name, config, cost)
    /\ r[Len(closes)] \in BalancedLedgers

\* Backtester.run goes through one balanced ledger per candle.
LEMMA RunFacts ==
    ASSUME NEW closes \in Seq(BarPrices), NEW name, NEW config, NEW cost \in CostRates
    PROVE  \E r : IsRun(r, closes, name, config, cost) /\ Backtest(closes, name, config, cost) = r[Len(closes)]
<1>1. PICK n : n = Len(closes)
  OBVIOUS
<1>2. n \in Nat
  BY <1>1, LenProperties
<1>3. PICK r : r = CHOOSE run : run = [i \in 0..Len(closes) |->
                     IF i = 0 THEN NewLedger ELSE BacktestBar(run[i - 1], closes, i, name, config, cost)]
  OBVIOUS
<1>4. Backtest(closes, name, config, cost) = r[Len(closes)]
  BY <1>3, Zenon DEF Backtest
<1>5. PICK step : step = [x \in BalancedLedgers \X (1..n) |->
                            BacktestBar(x[1], closes, x[2], name, config, cost)]
  OBVIOUS
<1>6. \A l \in BalancedLedgers, i \in 1..n : /\ <<l, i>> \in BalancedLedgers \X (1..n)
                                             /\ step[<<l, i>>] = BacktestBar(l, closes, i, name, config, cost)
                                             /\ step[<<l, i>>] \in BalancedLedgers
  <2> SUFFICES ASSUME NEW l \in BalancedLedgers, NEW i \in 1..n
               PROVE  /\ <<l, i>> \in BalancedLedgers \X (1..n)
                      /\ step[<<l, i>>] = BacktestBar(l, closes, i, name, config, cost)
                      /\ step[<<l, i>>] \in BalancedLedgers
    OBVIOUS
  <2>1. <<l, i>> \in BalancedLedgers \X (1..n) /\ <<l, i>>[1] = l /\ <<l, i>>[2] = i
    OBVIOUS
  <2>2. step[<<l, i>>] = BacktestBar(l, closes, i, name, config, cost)
    BY <1>5, <2>1
  <2>3. BacktestBar(l, closes, i, name, config, cost) \in BalancedLedgers
    BY <1>1, BarFacts
  <2> QED
    BY <2>1, <2>2, <2>3
<1>7. step \in [BalancedLedgers \X (1..n) -> BalancedLedgers]
  <2>1. \A x \in BalancedLedgers \X (1..n) : x[1] \in BalancedLedgers /\ x[2] \in 1..n /\ x = <<x[1], x[2]>>
    OBVIOUS
  <2>2. \A x \in BalancedLedgers \X (1..n) : step[x] \in BalancedLedgers
    BY <1>6, <2>1
  <2> QED
    BY <1>5, <2>2
<1>8. PICK g : IsIteration(NewLedger, step, BalancedLedgers, n, g)
  BY <1>2, <1>7, NewLedgerBalanced, IterationExists
<1>9. g = [i \in 0..n |-> IF i = 0 THEN NewLedger ELSE BacktestBar(g[i - 1], closes, i, name, config, cost)]
  <2>1. g \in [0..n -> BalancedLedgers] /\ g[0] = NewLedger
    BY <1>8 DEF IsIteration
  <2>2. \A i \in 0..n : g[i] = IF i = 0 THEN NewLedger
                               ELSE BacktestBar(g[i - 1], closes, i, name, config, cost)
    <3> SUFFICES ASSUME NEW i \in 0..n, i # 0
                 PROVE  g[i] = BacktestBar(g[i - 1], closes, i, name, config, cost)
      BY <2>1
    <3>1. i \in 1..n /\ i - 1 \in 0..n
      BY <1>2
    <3>2. g[i - 1] \in BalancedLedgers
      BY <2>1, <3>1
    <3>3. g[i] = step[<<g[i - 1], i>>]
      BY <1>8, <3>1 DEF IsIteration
    <3> QED
      BY <1>6, <3>1, <3>2, <3>3
  <2> QED
    BY <2>1, <2>2
<1>10. r = [i \in 0..n |-> IF i = 0 THEN NewLedger ELSE BacktestBar(r[i - 1], closes, i, name, config, cost)]
  BY <1>1, <1>3, <1>9, Zenon
<1>11. \A i \in 0..n : r[i] = IF i = 0 THEN NewLedger
                              ELSE BacktestBar(r[i - 1], closes, i, name, config, cost)
  BY <1>10, Zenon
<1>12. r[0] = NewLedger
  BY <1>2, <1>11
<1>13. \A i \in 1..n : r[i] = BacktestBar(r[i - 1], closes, i, name, config, cost)
  <2> SUFFICES ASSUME NEW i \in 1..n PROVE r[i] = BacktestBar(r[i - 1], closes, i, name, config, cost)
    OBVIOUS
  <2>1. i \in 0..n /\ i # 0
    BY <1>2
  <2> QED
    BY <1>11, <2>1, Zenon
<1>14. \A i \in 0..n : r[i] \in BalancedLedgers
  <2>1. PICK P : P = {i \in Int : r[i] \in BalancedLedgers}
    OBVIOUS
  <2>2. 0 \in P
    BY <1>12, <2>1, NewLedgerBalanced
  <2>3. \A i \in 1..n : i - 1 \in P => i \in P
    <3> SUFFICES ASSUME NEW i \in 1..n, i - 1 \in P PROVE i \in P
      OBVIOUS
    <3>1. r[i - 1] \in BalancedLedgers
      BY <2>1
    <3>2. BacktestBar(r[i - 1], closes, i, name, config, cost) \in BalancedLedgers
      BY <1>1, <3>1, BarFacts
    <3> QED
      BY <1>2, <1>13, <2>1, <3>2
  <2>4. \A i \in 0..n : i \in P
    BY <1>2, <2>2, <2>3, InductionTo
  <2> QED
    BY <2>1, <2>4
<1>15. IsRun(r, closes, name, config, cost)
  <2>1. \A i \in 1..n : r[i - 1] \in BalancedLedgers
    BY <1>2, <1>14
  <2>2. r[n] \in BalancedLedgers
    BY <1>2, <1>14
  <2> QED
    BY <1>1, <1>12, <1>13, <2>1, <2>2 DEF IsRun
<1> QED
  BY <1>4, <1>15

-----------------------------------------------------------------------------
(* The histories the bars make.                                            *)

\* An increasing enumeration of a set of times.
IsAscending(s, S) ==
    /\ s \in [1..Cardinality(S) -> S]
    /\ \A i, j \in 1..Cardinality(S) : i < j => s[i] < s[j]

\* Every finite set of times can be put in order: the least goes first.
LEMMA AscendingExists ==
    ASSUME NEW S, IsFiniteSet(S), S \subseteq Nat
    PROVE  \E s : IsAscending(s, S)
<1>1. PICK B : B = {R \in SUBSET S : ~\E s : IsAscending(s, R)}
  OBVIOUS
<1> SUFFICES ASSUME B # {} PROVE FALSE
  BY <1>1
<1>2. PICK R \in B : \A Q \in B : Cardinality(R) <= Cardinality(Q)
  BY <1>1, SmallestSubset
<1>3. R \subseteq Nat /\ R \subseteq S /\ IsFiniteSet(R) /\ ~\E s : IsAscending(s, R)
  BY <1>1, <1>2, FS_Subset
<1>4. R # {}
  <2> SUFFICES ASSUME R = {} PROVE FALSE
    OBVIOUS
  <2>1. Cardinality(R) = 0
    BY FS_EmptySet
  <2>2. PICK s : s = [i \in 1..0 |-> 0]
    OBVIOUS
  <2>3. IsAscending(s, R)
    BY <2>1, <2>2 DEF IsAscending
  <2> QED
    BY <1>3, <2>3
<1>5. PICK a \in R : \A b \in R : a <= b
  BY <1>3, <1>4, LeastNat
<1>6. PICK Q, n : Q = R \ {a} /\ n = Cardinality(R)
  OBVIOUS
<1>7. n \in Nat /\ Cardinality(Q) = n - 1 /\ n - 1 \in Nat
  <2>1. n \in Nat /\ n # 0
    BY <1>3, <1>4, <1>6, FS_EmptySet, FS_CardinalityType
  <2>2. Cardinality(Q) = n - 1
    BY <1>3, <1>5, <1>6, FS_RemoveElement
  <2> QED
    BY <2>1, <2>2
<1>8. PICK t : IsAscending(t, Q)
  <2>1. Q \subseteq S /\ ~(Cardinality(R) <= Cardinality(Q))
    BY <1>3, <1>6, <1>7
  <2> QED
    BY <1>1, <1>2, <2>1
<1>9. t \in [1..(n - 1) -> Q] /\ \A i, j \in 1..(n - 1) : i < j => t[i] < t[j]
  BY <1>7, <1>8 DEF IsAscending
<1>10. PICK s : s = [i \in 1..n |-> IF i = 1 THEN a ELSE t[i - 1]]
  OBVIOUS
<1>11. \A i \in 1..n : i # 1 => i - 1 \in 1..(n - 1) /\ s[i] = t[i - 1] /\ s[i] \in Q
  <2> SUFFICES ASSUME NEW i \in 1..n, i # 1 PROVE i - 1 \in 1..(n - 1) /\ s[i] = t[i - 1] /\ s[i] \in Q
    OBVIOUS
  <2>1. i - 1 \in 1..(n - 1)
    BY <1>7
  <2> QED
    BY <1>9, <1>10, <2>1
<1>12. \A i \in 1..n : s[i] \in R
  <2> SUFFICES ASSUME NEW i \in 1..n PROVE s[i] \in R
    OBVIOUS
  <2>1. i = 1 => s[i] = a
    BY <1>10
  <2> QED
    BY <1>5, <1>6, <1>11, <2>1
<1>13. \A i, j \in 1..n : i < j => s[i] < s[j]
  <2> SUFFICES ASSUME NEW i \in 1..n, NEW j \in 1..n, i < j PROVE s[i] < s[j]
    OBVIOUS
  <2>1. j # 1 /\ s[j] = t[j - 1] /\ s[j] \in Q /\ j - 1 \in 1..(n - 1)
    BY <1>7, <1>11
  <2>2. CASE i = 1
    <3>1. s[i] = a
      BY <1>10, <2>2
    <3>2. s[j] \in R /\ s[j] # a
      BY <1>6, <2>1
    <3>3. a <= s[j] /\ a \in Nat /\ s[j] \in Nat
      BY <1>3, <1>5, <3>2
    <3> QED
      BY <3>1, <3>2, <3>3
  <2>3. CASE i # 1
    <3>1. s[i] = t[i - 1] /\ i - 1 \in 1..(n - 1)
      BY <1>11, <2>3
    <3>2. i - 1 < j - 1
      BY <1>7
    <3> QED
      BY <1>9, <2>1, <3>1, <3>2
  <2> QED
    BY <2>2, <2>3
<1>14. IsAscending(s, R)
  BY <1>6, <1>10, <1>12, <1>13 DEF IsAscending
<1> QED
  BY <1>3, <1>14

\* list_bars returns a price history, if there is a bar.
LEMMA ListedHistory ==
    ASSUME ResearchTypeOK, NEW closes \in Closes
    PROVE  closes \in PriceHistories
<1>1. PICK S, n, most : /\ S = {t \in BarTimes : bars[t] # 0} /\ n = Cardinality(S)
                        /\ most = Cardinality(BarTimes)
  OBVIOUS
<1>2. BarTimes \subseteq Nat /\ IsFiniteSet(BarTimes)
  BY ResearchAssumption
<1>3. IsFiniteSet(S) /\ S \subseteq Nat /\ n \in Nat /\ most \in Nat /\ n <= most
  <2>1. S \in SUBSET BarTimes
    BY <1>1
  <2> QED
    BY <1>1, <1>2, <2>1, FS_Subset, FS_CardinalityType
<1>4. PICK times : times = Ascending(S)
  OBVIOUS
<1>5. times \in [1..n -> S]
  <2>1. \E s \in [1..n -> S] : \A i, j \in 1..n : i < j => s[i] < s[j]
    BY <1>1, <1>3, AscendingExists DEF IsAscending
  <2> QED
    BY <1>1, <1>4, <2>1, Zenon DEF Ascending
<1>6. closes = ListBars(bars) /\ closes # <<>>
  BY DEF Closes
<1>7. ListBars(bars) = [i \in DOMAIN times |-> bars[times[i]]]
  BY <1>1, <1>4 DEF ListBars
<1>8. closes = [i \in 1..n |-> bars[times[i]]]
  BY <1>5, <1>6, <1>7
<1>9. \A i \in 1..n : closes[i] \in BarPrices
  <2>1. \A t \in S : bars[t] \in BarPrices
    BY <1>1 DEF ResearchTypeOK
  <2> QED
    BY <1>5, <1>8, <2>1
<1>10. n > 0
  <2> SUFFICES ASSUME n = 0 PROVE FALSE
    BY <1>3
  <2>1. closes \in Seq(BarPrices) /\ Len(closes) = 0
    BY <1>3, <1>8, <1>9
  <2> QED
    BY <1>6, <2>1, EmptySeq
<1>11. n \in 1..most /\ closes \in [1..n -> BarPrices]
  BY <1>3, <1>8, <1>9, <1>10
<1> QED
  BY <1>1, <1>11 DEF PriceHistories

\* A price history is a sequence of prices with an end.
LEMMA HistoryFacts ==
    ASSUME NEW closes \in PriceHistories
    PROVE  closes \in Seq(BarPrices) /\ Len(closes) \in Nat \ {0}
<1>1. PICK most : most = Cardinality(BarTimes)
  OBVIOUS
<1>2. most \in Nat
  BY <1>1, ResearchAssumption, FS_CardinalityType
<1>3. PICK n \in 1..most : closes \in [1..n -> BarPrices]
  BY <1>1 DEF PriceHistories
<1> QED
  BY <1>2, <1>3

\* upsert_bar stores prices only.
THEOREM BarsAreTyped == ResearchSpec => []ResearchTypeOK
<1>1. ResearchInit => ResearchTypeOK
  BY DEF ResearchInit, ResearchTypeOK
<1>2. ResearchTypeOK /\ [ResearchNext]_researchVars => ResearchTypeOK'
  BY DEF ResearchTypeOK, ResearchNext, IngestBar, researchVars
<1> QED
  BY <1>1, <1>2, PTL DEF ResearchSpec

-----------------------------------------------------------------------------
(* Every backtest balances.                                                *)

\* The ledger Backtester.run ends with is balanced and marked to the last close.
LEMMA BacktestFacts ==
    ASSUME NEW closes \in Seq(BarPrices), Len(closes) # 0, NEW name, NEW config, NEW cost \in CostRates
    PROVE  /\ Backtest(closes, name, config, cost) \in BalancedLedgers
           /\ MarkedTo(Backtest(closes, name, config, cost), Last(closes))
<1>1. PICK r : IsRun(r, closes, name, config, cost) /\ Backtest(closes, name, config, cost) = r[Len(closes)]
  BY RunFacts
<1>2. PICK n : n = Len(closes)
  OBVIOUS
<1>3. n \in 1..n
  BY <1>2, LenProperties
<1>4. r[n - 1] \in BalancedLedgers /\ r[n] = BacktestBar(r[n - 1], closes, n, name, config, cost)
  BY <1>1, <1>2, <1>3 DEF IsRun
<1>5. r[n] \in BalancedLedgers /\ MarkedTo(r[n], closes[n])
  BY <1>2, <1>3, <1>4, BarFacts
<1> QED
  BY <1>1, <1>2, <1>5 DEF Last

\* What a balanced ledger says of the equity it was marked with.
LEMMA EquityAccounted ==
    ASSUME NEW l \in BalancedLedgers, NEW close \in BarPrices, MarkedTo(l, close)
    PROVE  /\ l.cash >= 0
           /\ Last(l.equity) = Money(StartCash) + SumFunction(l.pnls) - l.entryFee
                                 + (close * RateBase - l.average) * l.held * RateBase
<1>1. PICK cash, held, average, entry, b, start, sum :
        /\ cash = l.cash /\ held = l.held /\ average = l.average /\ entry = l.entryFee
        /\ b = RateBase /\ start = Money(StartCash) /\ sum = SumFunction(l.pnls)
  OBVIOUS
<1>2. /\ cash \in Nat /\ held \in Nat /\ average \in Nat /\ entry \in Nat /\ b \in Nat /\ close \in Nat
      /\ start \in Nat
  <2>1. b \in Nat /\ close \in Nat /\ StartCash \in Nat /\ StartCash * b \in Nat
    BY <1>1, ResearchAssumption
  <2>2. start \in Nat
    BY <1>1, <2>1 DEF Money
  <2>3. l \in Ledgers /\ l.cash >= 0
    BY DEF BalancedLedgers
  <2>4. cash \in Nat /\ held \in Nat /\ average \in Nat /\ entry \in Nat
    BY <1>1, <2>3 DEF Ledgers
  <2> QED
    BY <2>1, <2>2, <2>4
<1>3. sum \in Int
  <2>1. PICK s : s = l.pnls
    OBVIOUS
  <2>2. s \in Seq(Int)
    BY <2>1 DEF BalancedLedgers, Ledgers
  <2> QED
    BY <1>1, <2>1, <2>2, SumAppend
<1>4. cash + average * held * b + entry = start + sum
  BY <1>1 DEF BalancedLedgers
<1>5. Last(l.equity) = cash + held * close * b * b
  BY <1>1 DEF MarkedTo, Money
<1>6. (close * b - average) * held * b = held * close * b * b - average * held * b
  BY <1>2
<1>7. PICK up, paid : up = held * close * b * b /\ paid = average * held * b
  OBVIOUS
<1>8. up \in Int /\ paid \in Int
  BY <1>2, <1>7
<1>9. cash + up = start + sum - entry + (up - paid)
  BY <1>2, <1>3, <1>4, <1>7, <1>8
<1>10. Last(l.equity) = start + sum - entry + (close * b - average) * held * b
  BY <1>5, <1>6, <1>7, <1>9
<1> QED
  BY <1>1, <1>2, <1>10

\* Whatever bars came, late, corrected or in order, every backtest of them never
\* spends money it does not have and accounts for every fee, profit and position
\* exactly once (Backtester.run), for every strategy and cost.
THEOREM BacktestsBalance == ResearchSpec => []BacktestBalances
<1>1. ASSUME NEW closes \in PriceHistories PROVE closes \in BalancedHistories
  <2>1. closes \in Seq(BarPrices) /\ Len(closes) # 0 /\ Last(closes) \in BarPrices
    BY HistoryFacts, ElementOfSeq DEF Last
  <2>2. ASSUME NEW name \in Names, NEW config \in StrategyConfigs, NEW cost \in CostRates
        PROVE  LET l == Backtest(closes, name, config, cost)
               IN /\ l.cash >= 0
                  /\ Last(l.equity) =
                       Money(StartCash) + SumFunction(l.pnls) - l.entryFee
                         + (Last(closes) * RateBase - l.average) * l.held * RateBase
    <3>1. PICK l : l = Backtest(closes, name, config, cost)
      OBVIOUS
    <3>2. l \in BalancedLedgers /\ MarkedTo(l, Last(closes))
      BY <2>1, <3>1, BacktestFacts
    <3>3. PICK close : close = Last(closes)
      OBVIOUS
    <3>4. /\ l.cash >= 0
          /\ Last(l.equity) = Money(StartCash) + SumFunction(l.pnls) - l.entryFee
                                + (close * RateBase - l.average) * l.held * RateBase
      BY <2>1, <3>2, <3>3, EquityAccounted
    <3> QED
      BY <3>1, <3>3, <3>4
  <2> QED
    BY <2>2, Zenon DEF BalancedHistories
<1>2. ResearchTypeOK => BacktestBalances
  BY <1>1, ListedHistory DEF BacktestBalances
<1> QED
  BY <1>2, BarsAreTyped, PTL

-----------------------------------------------------------------------------
(* Backtests and replays look at the past only.                            *)

\* A part of a part that begins at the beginning.
LEMMA PastOfPast ==
    ASSUME NEW closes \in Seq(BarPrices), NEW n \in 1..Len(closes), NEW i \in 1..n
    PROVE  /\ SubSeq(closes, 1, n) \in Seq(BarPrices) /\ Len(SubSeq(closes, 1, n)) = n
           /\ SubSeq(SubSeq(closes, 1, n), 1, i) = SubSeq(closes, 1, i)
           /\ SubSeq(closes, 1, n)[i] = closes[i]
<1>1. Len(closes) \in Nat
  BY LenProperties
<1>2. \A j \in 1..n : closes[j] \in BarPrices
  BY <1>1, ElementOfSeq
<1>3. PICK past : past = SubSeq(closes, 1, n)
  OBVIOUS
<1>4. past \in Seq(BarPrices) /\ Len(past) = n /\ \A j \in 1..n : past[j] = closes[j]
  BY <1>1, <1>2, <1>3, SubSeqProperties
<1>5. \A j \in 1..i : past[j] \in BarPrices /\ closes[j] \in BarPrices /\ past[j] = closes[j]
  BY <1>1, <1>2, <1>4
<1>6. PICK s, t : s = SubSeq(past, 1, i) /\ t = SubSeq(closes, 1, i)
  OBVIOUS
<1>7. s \in Seq(BarPrices) /\ Len(s) = i /\ \A j \in 1..i : s[j] = past[j]
  BY <1>1, <1>5, <1>6, SubSeqProperties
<1>8. t \in Seq(BarPrices) /\ Len(t) = i /\ \A j \in 1..i : t[j] = closes[j]
  BY <1>1, <1>5, <1>6, SubSeqProperties
<1>9. s = t
  BY <1>5, <1>7, <1>8, SeqEqual
<1> QED
  BY <1>3, <1>4, <1>6, <1>9

SameAt(q, r, n) == q[n] = r[n]

\* Up to candle n the run over all candles is the run over the first n.
LEMMA SameRun ==
    ASSUME NEW closes \in Seq(BarPrices), NEW n \in 1..Len(closes),
           NEW past, past = SubSeq(closes, 1, n), NEW name, NEW config, NEW cost \in CostRates,
           NEW r, IsRun(r, closes, name, config, cost), NEW q, IsRun(q, past, name, config, cost)
    PROVE  SameAt(q, r, n)
<1>1. Len(closes) \in Nat /\ n \in Nat
  BY LenProperties
<1>2. Len(past) = n
  <2>1. n \in 1..n
    BY <1>1
  <2> QED
    BY <2>1, PastOfPast
<1>3. PICK P : P = {i \in Int : q[i] = r[i]}
  OBVIOUS
<1>4. 0 \in P
  BY <1>3 DEF IsRun
<1>5. ASSUME NEW i \in 1..n, i - 1 \in P PROVE i \in P
  <2>1. q[i] = BacktestBar(q[i - 1], past, i, name, config, cost)
    BY <1>2 DEF IsRun
  <2>2. r[i] = BacktestBar(r[i - 1], closes, i, name, config, cost)
    <3>1. i \in 1..Len(closes)
      BY <1>1
    <3> QED
      BY <3>1 DEF IsRun
  <2>3. SubSeq(past, 1, i) = SubSeq(closes, 1, i) /\ past[i] = closes[i]
    BY PastOfPast
  <2>4. q[i - 1] = r[i - 1]
    BY <1>3, <1>5
  <2>5. BacktestBar(q[i - 1], past, i, name, config, cost) = BacktestBar(r[i - 1], closes, i, name, config, cost)
    BY <2>3, <2>4, Zenon DEF BacktestBar
  <2> QED
    BY <1>3, <2>1, <2>2, <2>5
<1>6. n \in P
  <2>1. \A i \in 0..n : i \in P
    BY <1>1, <1>4, <1>5, InductionTo
  <2> QED
    BY <1>1, <2>1
<1> QED
  BY <1>3, <1>6 DEF SameAt

\* After candle n the run only adds trades, marks and fees.
LEMMA RunGrows ==
    ASSUME NEW closes \in Seq(BarPrices), NEW n \in 1..Len(closes), NEW name, NEW config,
           NEW cost \in CostRates, NEW r, IsRun(r, closes, name, config, cost)
    PROVE  Extends(r[n], r[Len(closes)])
<1>1. PICK m : m = Len(closes)
  OBVIOUS
<1>2. m \in Nat /\ n \in 1..m
  BY <1>1, LenProperties
<1>3. \A i \in 0..m : r[i] \in BalancedLedgers
  <2> SUFFICES ASSUME NEW i \in 0..m PROVE r[i] \in BalancedLedgers
    OBVIOUS
  <2>1. CASE i = m
    BY <1>1, <2>1 DEF IsRun
  <2>2. CASE i # m
    <3>1. i + 1 \in 1..m /\ (i + 1) - 1 = i
      BY <1>2, <2>2
    <3>2. \A j \in 1..m : r[j - 1] \in BalancedLedgers
      BY <1>1 DEF IsRun
    <3>3. r[(i + 1) - 1] \in BalancedLedgers
      BY <3>1, <3>2
    <3> QED
      BY <3>1, <3>3
  <2> QED
    BY <2>1, <2>2
<1>4. \A i \in 0..m : r[i] \in Ledgers
  BY <1>3 DEF BalancedLedgers
<1>5. PICK P : P = {i \in 0..m : i >= n => Extends(r[n], r[i])}
  OBVIOUS
<1>6. 0 \in P
  BY <1>2, <1>5
<1>7. ASSUME NEW i \in 1..m, i - 1 \in P PROVE i \in P
  <2>1. i \in 0..m /\ i - 1 \in 0..m /\ n \in 0..m
    BY <1>2
  <2>2. CASE i < n
    BY <1>2, <1>5, <2>1, <2>2
  <2>3. CASE i = n
    BY <1>4, <1>5, <2>1, <2>3, ExtendsItself
  <2>4. CASE i > n
    <3>1. Extends(r[n], r[i - 1])
      <4>1. i - 1 >= n
        BY <1>2, <2>4
      <4> QED
        BY <1>5, <1>7, <4>1
    <3>2. Extends(r[i - 1], r[i])
      <4>1. r[i - 1] \in BalancedLedgers /\ r[i] = BacktestBar(r[i - 1], closes, i, name, config, cost)
        BY <1>1 DEF IsRun
      <4> QED
        BY <1>1, <4>1, BarFacts
    <3>3. r[n] \in Ledgers /\ r[i - 1] \in Ledgers /\ r[i] \in Ledgers
      BY <1>4, <2>1
    <3>4. Extends(r[n], r[i])
      BY <3>1, <3>2, <3>3, ExtendsThrough
    <3> QED
      BY <1>5, <2>1, <3>4
  <2> QED
    BY <1>2, <2>2, <2>3, <2>4
<1>8. m \in P
  <2>1. \A i \in 0..m : i \in P
    BY <1>2, <1>6, <1>7, InductionTo
  <2> QED
    BY <1>2, <2>1
<1> QED
  BY <1>1, <1>2, <1>5, <1>8

\* The backtest of the past is what the longer backtest begins with.
LEMMA BacktestOfThePast ==
    ASSUME NEW closes \in Seq(BarPrices), NEW n \in 1..Len(closes), NEW name, NEW config,
           NEW cost \in CostRates
    PROVE  LET earlier == Backtest(SubSeq(closes, 1, n), name, config, cost)
               later == Backtest(closes, name, config, cost)
           IN /\ IsPrefix(earlier.trades, later.trades)
              /\ IsPrefix(earlier.equity, later.equity)
              /\ earlier.fees <= later.fees
<1>1. PICK past : past = SubSeq(closes, 1, n)
  OBVIOUS
<1>2. Len(closes) \in Nat /\ n \in 1..n
  BY LenProperties
<1>3. past \in Seq(BarPrices) /\ Len(past) = n
  BY <1>1, <1>2, PastOfPast
<1>4. PICK r : IsRun(r, closes, name, config, cost) /\ Backtest(closes, name, config, cost) = r[Len(closes)]
  BY RunFacts
<1>5. PICK q : IsRun(q, past, name, config, cost) /\ Backtest(past, name, config, cost) = q[Len(past)]
  BY <1>3, RunFacts
<1>6. q[n] = r[n]
  <2>1. SameAt(q, r, n)
    BY <1>1, <1>4, <1>5, SameRun
  <2> QED
    BY <2>1 DEF SameAt
<1>7. Extends(r[n], r[Len(closes)])
  BY <1>4, RunGrows
<1>8. PICK earlier, later : earlier = r[n] /\ later = r[Len(closes)]
  OBVIOUS
<1>9. earlier \in Ledgers /\ later \in Ledgers
  BY <1>3, <1>4, <1>5, <1>6, <1>8 DEF IsRun, BalancedLedgers
<1>10. /\ earlier.trades \in Seq(TradeShapes) /\ later.trades \in Seq(TradeShapes)
       /\ earlier.equity \in Seq(Int) /\ later.equity \in Seq(Int)
  BY <1>9 DEF Ledgers
<1>11. /\ Begins(earlier.trades, later.trades) /\ Begins(earlier.equity, later.equity)
       /\ earlier.fees <= later.fees
  BY <1>7, <1>8 DEF Extends
<1>12. IsPrefix(earlier.trades, later.trades)
  BY <1>10, <1>11, BegunPrefix
<1>13. IsPrefix(earlier.equity, later.equity)
  BY <1>10, <1>11, BegunPrefix
<1> QED
  BY <1>1, <1>3, <1>4, <1>5, <1>6, <1>8, <1>11, <1>12, <1>13

\* A replay of the past gives the signals of that past.
LEMMA SignalsOfThePast ==
    ASSUME NEW closes \in Seq(BarPrices), NEW n \in 1..Len(closes), NEW name, NEW config
    PROVE  Replay(SubSeq(closes, 1, n), name, config) = {s \in Replay(closes, name, config) : s[1] <= n}
<1>1. PICK past, m : past = SubSeq(closes, 1, n) /\ m = Len(closes)
  OBVIOUS
<1>2. m \in Nat /\ n \in 1..n /\ n \in 1..m /\ DOMAIN closes = 1..m
  BY <1>1, LenProperties
<1>3. past \in Seq(BarPrices) /\ Len(past) = n
  BY <1>1, <1>2, PastOfPast
<1>4. DOMAIN past = 1..n
  BY <1>3, LenProperties
<1>5. PICK f, g : /\ f = [i \in 1..n |-> StrategySignal(name, SubSeq(past, 1, i), config, NoScore)]
                  /\ g = [i \in 1..m |-> StrategySignal(name, SubSeq(closes, 1, i), config, NoScore)]
  OBVIOUS
<1>6. \A i \in 1..n : i \in 1..m /\ f[i] = g[i]
  <2> SUFFICES ASSUME NEW i \in 1..n PROVE i \in 1..m /\ f[i] = g[i]
    OBVIOUS
  <2>1. i \in 1..m
    BY <1>2
  <2>2. SubSeq(past, 1, i) = SubSeq(closes, 1, i)
    BY <1>1, <1>2, PastOfPast
  <2>3. f[i] = StrategySignal(name, SubSeq(past, 1, i), config, NoScore)
    BY <1>5
  <2>4. g[i] = StrategySignal(name, SubSeq(closes, 1, i), config, NoScore)
    BY <1>5, <2>1
  <2> QED
    BY <2>1, <2>2, <2>3, <2>4, Zenon
<1>7. Replay(past, name, config) = {<<i, f[i]>> : i \in 1..n} \ ((1..n) \X {"hold"})
  <2>1. {<<i, StrategySignal(name, SubSeq(past, 1, i), config, NoScore)>> : i \in 1..n} = {<<i, f[i]>> : i \in 1..n}
    BY <1>5, Zenon
  <2> QED
    BY <1>4, <2>1 DEF Replay
<1>8. Replay(closes, name, config) = {<<i, g[i]>> : i \in 1..m} \ ((1..m) \X {"hold"})
  <2>1. {<<i, StrategySignal(name, SubSeq(closes, 1, i), config, NoScore)>> : i \in 1..m} = {<<i, g[i]>> : i \in 1..m}
    BY <1>5, Zenon
  <2> QED
    BY <1>2, <2>1 DEF Replay
<1>9. ASSUME NEW s PROVE s \in Replay(past, name, config) <=> s \in Replay(closes, name, config) /\ s[1] <= n
  <2>1. s \in Replay(past, name, config) <=> \E i \in 1..n : s = <<i, f[i]>> /\ f[i] # "hold"
    BY <1>7
  <2>2. s \in Replay(closes, name, config) <=> \E i \in 1..m : s = <<i, g[i]>> /\ g[i] # "hold"
    BY <1>8
  <2>3. ASSUME s \in Replay(past, name, config) PROVE s \in Replay(closes, name, config) /\ s[1] <= n
    <3>1. PICK i \in 1..n : s = <<i, f[i]>> /\ f[i] # "hold"
      BY <2>1, <2>3
    <3> QED
      BY <1>2, <1>6, <2>2, <3>1
  <2>4. ASSUME s \in Replay(closes, name, config), s[1] <= n PROVE s \in Replay(past, name, config)
    <3>1. PICK i \in 1..m : s = <<i, g[i]>> /\ g[i] # "hold"
      BY <2>2, <2>4
    <3>2. i \in 1..n
      BY <1>2, <2>4, <3>1
    <3> QED
      BY <1>6, <2>1, <3>1, <3>2
  <2> QED
    BY <2>3, <2>4
<1> QED
  BY <1>1, <1>9

\* Whatever bars came, later bars change nothing that a backtest traded, marked
\* or was charged or a replay signalled on the earlier ones (Backtester.run,
\* ResearchService.replay), for every strategy, configuration and cost.
THEOREM PastIsEnough == ResearchSpec => []NoLookAhead
<1>1. ASSUME NEW closes \in PriceHistories PROVE closes \in CausalHistories
  <2>1. closes \in Seq(BarPrices) /\ Len(closes) \in Nat
    BY HistoryFacts
  <2>2. \A n \in 1..(Len(closes) - 1) : n \in 1..Len(closes)
    BY <2>1
  <2>3. ASSUME NEW n \in 1..(Len(closes) - 1), NEW name \in Names, NEW config \in StrategyConfigs
        PROVE  LET past == SubSeq(closes, 1, n)
               IN /\ \A cost \in CostRates :
                       LET earlier == Backtest(past, name, config, cost)
                           later == Backtest(closes, name, config, cost)
                       IN /\ IsPrefix(earlier.trades, later.trades)
                          /\ IsPrefix(earlier.equity, later.equity)
                          /\ earlier.fees <= later.fees
                  /\ Replay(past, name, config) =
                       {s \in Replay(closes, name, config) : s[1] <= n}
    <3>1. n \in 1..Len(closes)
      BY <2>2
    <3>2. \A cost \in CostRates :
            LET earlier == Backtest(SubSeq(closes, 1, n), name, config, cost)
                later == Backtest(closes, name, config, cost)
            IN /\ IsPrefix(earlier.trades, later.trades)
               /\ IsPrefix(earlier.equity, later.equity)
               /\ earlier.fees <= later.fees
      BY <2>1, <3>1, BacktestOfThePast
    <3>3. Replay(SubSeq(closes, 1, n), name, config) = {s \in Replay(closes, name, config) : s[1] <= n}
      BY <2>1, <3>1, SignalsOfThePast
    <3> QED
      BY <3>2, <3>3, Zenon
  <2> QED
    BY <2>3, Zenon DEF CausalHistories
<1>2. ResearchTypeOK => NoLookAhead
  BY <1>1, ListedHistory DEF NoLookAhead
<1> QED
  BY <1>2, BarsAreTyped, PTL

-----------------------------------------------------------------------------
(* The results a sweep compares.                                           *)

Fractions == [n: Int, d: Nat \ {0}]
Results == [gain: Int, drawdown: Fractions, trades: Nat]

\* A fraction is at least another one.
AtLeastAs(f, g) == f.n * g.d >= g.n * f.d

\* Of three fractions, comparisons go through the second.
LEMMA FractionsTransitive ==
    ASSUME NEW f \in Fractions, NEW g \in Fractions, NEW h \in Fractions, AtLeastAs(f, g), AtLeastAs(g, h)
    PROVE  AtLeastAs(f, h)
<1>1. PICK a, b, c, p, q, r : /\ a = f.n /\ b = g.n /\ c = h.n /\ p = f.d /\ q = g.d /\ r = h.d
  OBVIOUS
<1>2. a \in Int /\ b \in Int /\ c \in Int /\ p \in Int /\ q \in Int /\ r \in Int /\ p > 0 /\ q > 0 /\ r > 0
  BY <1>1 DEF Fractions
<1>3. a * q >= b * p /\ b * r >= c * q
  BY <1>1 DEF AtLeastAs
<1>4. (a * q) * r >= (b * p) * r /\ (b * r) * p >= (c * q) * p
  <2>1. a * q - b * p >= 0 /\ b * r - c * q >= 0
    BY <1>2, <1>3
  <2>2. (a * q - b * p) * r >= 0 /\ (b * r - c * q) * p >= 0
    BY <1>2, <2>1
  <2> QED
    BY <1>2, <2>2
<1>5. (a * r - c * p) * q >= 0
  <2>1. (b * p) * r = (b * r) * p
    BY <1>2
  <2>2. (a * q) * r = (a * r) * q /\ (c * q) * p = (c * p) * q
    BY <1>2
  <2>3. (a * r) * q >= (c * p) * q
    BY <1>2, <1>4, <2>1, <2>2
  <2> QED
    BY <1>2, <2>3
<1>6. a * r - c * p >= 0
  <2> SUFFICES ASSUME a * r - c * p < 0 PROVE FALSE
    BY <1>2
  <2>1. PICK k : k = a * r - c * p
    OBVIOUS
  <2>2. k \in Int /\ k <= -1 /\ k * q >= 0
    BY <1>2, <1>5, <2>1
  <2>3. k * q <= (-1) * q
    BY <1>2, <2>2
  <2> QED
    BY <1>2, <2>2, <2>3
<1>7. a * r >= c * p
  BY <1>2, <1>6
<1> QED
  BY <1>1, <1>7 DEF AtLeastAs

\* The highest equity so far, and the falls from it.
PeakAt(equity, j) == Max({equity[i] : i \in 1..j})
Falls(equity) ==
    {[n |-> PeakAt(equity, j) - equity[j], d |-> PeakAt(equity, j)] :
       j \in {k \in DOMAIN equity : PeakAt(equity, k) > 0}} \cup {[n |-> 0, d |-> 1]}

\* The running peak is one of the equities.
LEMMA PeakType ==
    ASSUME NEW equity \in Seq(Int), NEW j \in 1..Len(equity)
    PROVE  PeakAt(equity, j) \in Int
<1>1. PICK S : S = {equity[i] : i \in 1..j}
  OBVIOUS
<1>2. \A i \in 1..j : i \in 1..Len(equity) /\ equity[i] \in Int
  BY LenProperties, ElementOfSeq
<1>3. S \subseteq Int /\ S # {}
  <2>1. 1 \in 1..j
    BY LenProperties
  <2> QED
    BY <1>1, <1>2, <2>1
<1>4. IsFiniteSet(S)
  <2>1. PICK f : f = [i \in 1..j |-> equity[i]]
    OBVIOUS
  <2>2. S = {f[i] : i \in 1..j}
    BY <1>1, <2>1
  <2>3. IsFiniteSet(1..j) /\ DOMAIN f = 1..j
    BY <2>1, FS_Interval, LenProperties
  <2>4. PICK I : I = 1..j
    OBVIOUS
  <2>5. IsFiniteSet({f[i] : i \in I})
    BY <2>3, <2>4, ImageFinite
  <2> QED
    BY <2>2, <2>4, <2>5
<1>5. PICK R : R = {p \in Int \X Int : p[1] >= p[2]}
  OBVIOUS
<1>6. \A x, y \in S : <<x, y>> \in R <=> x >= y
  BY <1>3, <1>5
<1>7. \A x, y \in S : <<x, y>> \in R \/ <<y, x>> \in R
  <2> SUFFICES ASSUME NEW x \in S, NEW y \in S PROVE x >= y \/ y >= x
    BY <1>6
  <2> QED
    BY <1>3
<1>8. \A x, y, z \in S : <<x, y>> \in R /\ <<y, z>> \in R => <<x, z>> \in R
  BY <1>3, <1>6
<1>9. \E x \in S : \A y \in S : <<x, y>> \in R
  BY <1>3, <1>4, <1>7, <1>8, GreatestExists
<1>10. \E x \in S : \A y \in S : x >= y
  BY <1>6, <1>9
<1>11. Max(S) \in S
  BY <1>10 DEF Max
<1> QED
  BY <1>1, <1>3, <1>11 DEF PeakAt

\* max_drawdown_pct is a fraction: of finitely many falls one is the deepest.
LEMMA DrawdownType ==
    ASSUME NEW equity \in Seq(Int)
    PROVE  Drawdown(equity) \in Fractions
<1>1. PICK F : F = Falls(equity)
  OBVIOUS
<1>2. Drawdown(equity) = CHOOSE f \in F : \A g \in F : f.n * g.d >= g.n * f.d
  BY <1>1, Zenon DEF Drawdown, Falls, PeakAt
<1>3. PICK J : J = {k \in DOMAIN equity : PeakAt(equity, k) > 0}
  OBVIOUS
<1>4. Len(equity) \in Nat /\ DOMAIN equity = 1..Len(equity)
  BY LenProperties
<1>5. \A j \in J : PeakAt(equity, j) \in Nat \ {0} /\ equity[j] \in Int
  BY <1>3, <1>4, PeakType, ElementOfSeq
<1>6. PICK f : f = [j \in J |-> [n |-> PeakAt(equity, j) - equity[j], d |-> PeakAt(equity, j)]]
  OBVIOUS
<1>7. F = {f[j] : j \in J} \cup {[n |-> 0, d |-> 1]}
  BY <1>1, <1>3, <1>6, Zenon DEF Falls
<1>8. F \subseteq Fractions
  <2>1. \A j \in J : f[j] \in Fractions
    BY <1>5, <1>6 DEF Fractions
  <2>2. [n |-> 0, d |-> 1] \in Fractions
    BY DEF Fractions
  <2> QED
    BY <1>7, <2>1, <2>2
<1>9. IsFiniteSet(F) /\ F # {}
  <2>1. IsFiniteSet(J)
    <3>1. J \in SUBSET (1..Len(equity)) /\ IsFiniteSet(1..Len(equity))
      BY <1>3, <1>4, FS_Interval
    <3> QED
      BY <3>1, FS_Subset
  <2>2. IsFiniteSet({f[j] : j \in J})
    BY <1>6, <2>1, ImageFinite
  <2>3. IsFiniteSet({f[j] : j \in J} \cup {[n |-> 0, d |-> 1]})
    BY <2>2, FS_AddElement
  <2> QED
    BY <1>7, <2>3
<1>10. PICK R : R = {p \in Fractions \X Fractions : AtLeastAs(p[1], p[2])}
  OBVIOUS
<1>11. \A x, y \in F : <<x, y>> \in R <=> AtLeastAs(x, y)
  BY <1>8, <1>10
<1>12. \A x, y \in F : <<x, y>> \in R \/ <<y, x>> \in R
  <2> SUFFICES ASSUME NEW x \in F, NEW y \in F PROVE AtLeastAs(x, y) \/ AtLeastAs(y, x)
    BY <1>11
  <2>1. x.n \in Int /\ x.d \in Int /\ y.n \in Int /\ y.d \in Int
    BY <1>8 DEF Fractions
  <2>2. x.n * y.d \in Int /\ y.n * x.d \in Int
    BY <2>1
  <2> QED
    BY <2>2 DEF AtLeastAs
<1>13. \A x, y, z \in F : <<x, y>> \in R /\ <<y, z>> \in R => <<x, z>> \in R
  <2> SUFFICES ASSUME NEW x \in F, NEW y \in F, NEW z \in F, AtLeastAs(x, y), AtLeastAs(y, z)
               PROVE  AtLeastAs(x, z)
    BY <1>11
  <2> QED
    BY <1>8, FractionsTransitive
<1>14. \E x \in F : \A y \in F : <<x, y>> \in R
  BY <1>9, <1>12, <1>13, GreatestExists
<1>15. \E x \in F : \A y \in F : x.n * y.d >= y.n * x.d
  BY <1>11, <1>14 DEF AtLeastAs
<1>16. Drawdown(equity) \in F
  BY <1>2, <1>15, Zenon
<1> QED
  BY <1>8, <1>16

\* The result of a backtest.
LEMMA ResultType ==
    ASSUME NEW closes \in Seq(BarPrices), Len(closes) # 0, NEW name, NEW config, NEW cost \in CostRates
    PROVE  Result(Backtest(closes, name, config, cost)) \in Results
<1>1. PICK l : l = Backtest(closes, name, config, cost)
  OBVIOUS
<1>2. l \in BalancedLedgers /\ Len(l.equity) > 0
  BY <1>1, BacktestFacts DEF MarkedTo
<1>3. PICK e, t : e = l.equity /\ t = l.trades
  OBVIOUS
<1>4. e \in Seq(Int) /\ t \in Seq(TradeShapes) /\ Len(e) > 0
  BY <1>2, <1>3 DEF BalancedLedgers, Ledgers
<1>5. Last(e) \in Int /\ Len(t) \in Nat
  BY <1>4, LenProperties, ElementOfSeq DEF Last
<1>6. Money(StartCash) \in Int
  BY ResearchAssumption DEF Money
<1>7. Drawdown(e) \in Fractions
  BY <1>4, DrawdownType
<1>8. Result(l) = [gain |-> Last(e) - Money(StartCash), drawdown |-> Drawdown(e), trades |-> Len(t)]
  BY <1>3 DEF Result
<1>9. Last(e) - Money(StartCash) \in Int
  BY <1>5, <1>6
<1>10. Result(l) \in Results
  BY <1>5, <1>7, <1>8, <1>9 DEF Results
<1> QED
  BY <1>1, <1>10

\* The key of parameter_sweep, by the order of fractions.
LEMMA BetterFacts ==
    ASSUME NEW a \in Results, NEW b \in Results
    PROVE  /\ BetterOrEqual(a, b) <=>
                \/ a.gain > b.gain
                \/ a.gain = b.gain /\ ~AtLeastAs(a.drawdown, b.drawdown)
                \/ /\ a.gain = b.gain /\ AtLeastAs(a.drawdown, b.drawdown)
                   /\ AtLeastAs(b.drawdown, a.drawdown) /\ a.trades <= b.trades
           /\ AtLeastAs(a.drawdown, b.drawdown) \/ AtLeastAs(b.drawdown, a.drawdown)
           /\ a.drawdown \in Fractions /\ a.gain \in Int /\ a.trades \in Nat
<1>1. a.drawdown \in Fractions /\ b.drawdown \in Fractions /\ a.gain \in Int /\ a.trades \in Nat
  BY DEF Results
<1>2. PICK x, y : x = a.drawdown.n * b.drawdown.d /\ y = b.drawdown.n * a.drawdown.d
  OBVIOUS
<1>3. x \in Int /\ y \in Int
  <2>1. /\ a.drawdown.n \in Int /\ a.drawdown.d \in Int /\ b.drawdown.n \in Int /\ b.drawdown.d \in Int
    BY <1>1 DEF Fractions
  <2> QED
    BY <1>2, <2>1
<1>4. BetterOrEqual(a, b) <=> \/ a.gain > b.gain
                              \/ a.gain = b.gain /\ x < y
                              \/ a.gain = b.gain /\ x = y /\ a.trades <= b.trades
  BY <1>2 DEF BetterOrEqual
<1>5. (AtLeastAs(a.drawdown, b.drawdown) <=> x >= y) /\ (AtLeastAs(b.drawdown, a.drawdown) <=> y >= x)
  BY <1>2 DEF AtLeastAs
<1>6. AtLeastAs(a.drawdown, b.drawdown) \/ AtLeastAs(b.drawdown, a.drawdown)
  BY <1>3, <1>5
<1>7. (x < y <=> ~(x >= y)) /\ (x = y <=> x >= y /\ y >= x)
  BY <1>3
<1> QED
  BY <1>1, <1>4, <1>5, <1>6, <1>7

\* Any two rows of a sweep can be compared.
LEMMA BetterTotal ==
    ASSUME NEW a \in Results, NEW b \in Results
    PROVE  BetterOrEqual(a, b) \/ BetterOrEqual(b, a)
<1>1. a.gain > b.gain \/ b.gain > a.gain \/ a.gain = b.gain
  BY BetterFacts
<1>2. a.trades <= b.trades \/ b.trades <= a.trades
  BY BetterFacts
<1> QED
  BY <1>1, <1>2, BetterFacts

\* The comparison goes through a third row.
LEMMA BetterTransitive ==
    ASSUME NEW a \in Results, NEW b \in Results, NEW c \in Results, BetterOrEqual(a, b), BetterOrEqual(b, c)
    PROVE  BetterOrEqual(a, c)
<1>1. PICK x, y, z : x = a.drawdown /\ y = b.drawdown /\ z = c.drawdown
  OBVIOUS
<1>2. x \in Fractions /\ y \in Fractions /\ z \in Fractions
  BY <1>1, BetterFacts
<1>3. /\ a.gain \in Int /\ b.gain \in Int /\ c.gain \in Int
      /\ a.trades \in Nat /\ b.trades \in Nat /\ c.trades \in Nat
  BY BetterFacts
<1>4. \/ a.gain > b.gain
      \/ a.gain = b.gain /\ ~AtLeastAs(x, y)
      \/ a.gain = b.gain /\ AtLeastAs(x, y) /\ AtLeastAs(y, x) /\ a.trades <= b.trades
  BY <1>1, BetterFacts
<1>5. \/ b.gain > c.gain
      \/ b.gain = c.gain /\ ~AtLeastAs(y, z)
      \/ b.gain = c.gain /\ AtLeastAs(y, z) /\ AtLeastAs(z, y) /\ b.trades <= c.trades
  BY <1>1, BetterFacts
<1>6. (AtLeastAs(x, y) \/ AtLeastAs(y, x)) /\ (AtLeastAs(y, z) \/ AtLeastAs(z, y))
  BY <1>1, BetterFacts
<1>7. /\ AtLeastAs(x, z) /\ AtLeastAs(z, y) => AtLeastAs(x, y)
      /\ AtLeastAs(y, x) /\ AtLeastAs(x, z) => AtLeastAs(y, z)
      /\ AtLeastAs(x, y) /\ AtLeastAs(y, z) => AtLeastAs(x, z)
      /\ AtLeastAs(z, y) /\ AtLeastAs(y, x) => AtLeastAs(z, x)
  BY <1>2, FractionsTransitive
<1>8. \/ a.gain > c.gain
      \/ a.gain = c.gain /\ ~AtLeastAs(x, z)
      \/ a.gain = c.gain /\ AtLeastAs(x, z) /\ AtLeastAs(z, x) /\ a.trades <= c.trades
  <2>1. a.gain > c.gain \/ (a.gain = b.gain /\ b.gain = c.gain)
    BY <1>3, <1>4, <1>5
  <2>2. CASE a.gain > c.gain
    BY <2>2
  <2>3. CASE a.gain = b.gain /\ b.gain = c.gain
    <3>1. ~AtLeastAs(x, y) \/ (AtLeastAs(x, y) /\ AtLeastAs(y, x) /\ a.trades <= b.trades)
      BY <1>3, <1>4, <2>3
    <3>2. ~AtLeastAs(y, z) \/ (AtLeastAs(y, z) /\ AtLeastAs(z, y) /\ b.trades <= c.trades)
      BY <1>3, <1>5, <2>3
    <3>3. a.trades <= b.trades /\ b.trades <= c.trades => a.trades <= c.trades
      BY <1>3
    <3> QED
      BY <1>6, <1>7, <2>3, <3>1, <3>2, <3>3
  <2> QED
    BY <2>1, <2>2, <2>3
<1> QED
  BY <1>1, <1>8, BetterFacts

\* max(rows) of parameter_sweep: the parameters it returns are of a row no other
\* row beats.
IsBest(closes, name, grid, cost, k) ==
    /\ k \in DOMAIN grid
    /\ BestParameters(closes, name, grid, cost) = grid[k]
    /\ \A j \in DOMAIN grid : BetterOrEqual(Result(Backtest(closes, name, grid[k], cost)),
                                            Result(Backtest(closes, name, grid[j], cost)))

\* A sweep over a grid that is not empty has a best row.
LEMMA BestFacts ==
    ASSUME NEW closes \in Seq(BarPrices), Len(closes) # 0, NEW name, NEW n \in Nat \ {0}, NEW grid,
           DOMAIN grid = 1..n, NEW cost \in CostRates
    PROVE  \E k : IsBest(closes, name, grid, cost, k)
<1>1. PICK row : row = [i \in DOMAIN grid |-> Result(Backtest(closes, name, grid[i], cost))]
  OBVIOUS
<1>2. \A i \in 1..n : row[i] = Result(Backtest(closes, name, grid[i], cost)) /\ row[i] \in Results
  BY <1>1, ResultType
<1>3. PICK M : M = {i \in DOMAIN grid : \A j \in DOMAIN grid : BetterOrEqual(row[i], row[j])}
  OBVIOUS
<1>4. BestParameters(closes, name, grid, cost) = grid[Min(M)]
  BY <1>1, <1>3, Zenon DEF BestParameters
<1>5. M # {}
  <2>1. PICK I : I = 1..n
    OBVIOUS
  <2>2. IsFiniteSet(I) /\ I # {}
    <3>1. n \in Int /\ 1 \in Int /\ 1 \in 1..n
      OBVIOUS
    <3>2. IsFiniteSet(1..n)
      BY <3>1, FS_Interval
    <3> QED
      BY <2>1, <3>1, <3>2
  <2>3. PICK R : R = {p \in I \X I : BetterOrEqual(row[p[1]], row[p[2]])}
    OBVIOUS
  <2>4. \A i, j \in I : <<i, j>> \in R <=> BetterOrEqual(row[i], row[j])
    BY <2>3
  <2>5. \A i, j \in I : <<i, j>> \in R \/ <<j, i>> \in R
    BY <1>2, <2>1, <2>4, BetterTotal
  <2>6. \A i, j, k \in I : <<i, j>> \in R /\ <<j, k>> \in R => <<i, k>> \in R
    <3> SUFFICES ASSUME NEW i \in I, NEW j \in I, NEW k \in I, BetterOrEqual(row[i], row[j]),
                        BetterOrEqual(row[j], row[k])
                 PROVE  BetterOrEqual(row[i], row[k])
      BY <2>4
    <3> QED
      BY <1>2, <2>1, BetterTransitive
  <2>7. \E i \in I : \A j \in I : <<i, j>> \in R
    BY <2>2, <2>5, <2>6, GreatestExists
  <2> QED
    BY <1>3, <2>1, <2>4, <2>7
<1>6. M \subseteq Nat
  BY <1>3
<1>7. Min(M) \in M
  <2>1. \E a \in M : \A b \in M : a <= b
    BY <1>5, <1>6, LeastNat
  <2> QED
    BY <2>1 DEF Min
<1>8. PICK k : k = Min(M)
  OBVIOUS
<1>9. k \in DOMAIN grid /\ \A j \in DOMAIN grid : BetterOrEqual(row[k], row[j])
  BY <1>3, <1>7, <1>8
<1>10. IsBest(closes, name, grid, cost, k)
  BY <1>2, <1>4, <1>8, <1>9 DEF IsBest
<1> QED
  BY <1>10

-----------------------------------------------------------------------------
(* The two walk-forwards.                                                  *)

\* The loop of agentic_walk_forward from start on: where its windows begin.
StartsFrom(m, start) ==
    {s \in 0..m : s >= start /\ (\E k \in Nat : s = start + k * StepSize) /\ s + TrainSize + TestSize <= m}

\* What it reports for one window.
AgenticWindow(closes, name, grid, cost, start) ==
    Result(Backtest(SubSeq(closes, start + TrainSize + 1, start + TrainSize + TestSize), name,
                    BestParameters(SubSeq(closes, start + 1, start + TrainSize), name, grid, cost), cost))

\* A window that fits comes before those that begin a step later.
LEMMA StartsStep ==
    ASSUME NEW m \in Nat, NEW start \in Nat, start + TrainSize + TestSize <= m
    PROVE  StartsFrom(m, start) = {start} \cup StartsFrom(m, start + StepSize)
<1>1. StepSize \in Nat /\ StepSize > 0 /\ TrainSize \in Nat /\ TestSize \in Nat
  BY ResearchAssumption
<1>2. ASSUME NEW s \in StartsFrom(m, start), s # start PROVE s \in StartsFrom(m, start + StepSize)
  <2>1. s \in 0..m /\ s >= start /\ s + TrainSize + TestSize <= m
    BY DEF StartsFrom
  <2>2. PICK k \in Nat : s = start + k * StepSize
    BY DEF StartsFrom
  <2>3. k # 0
    BY <1>1, <1>2, <2>2
  <2>4. k - 1 \in Nat /\ s = (start + StepSize) + (k - 1) * StepSize
    BY <1>1, <2>2, <2>3
  <2>5. (k - 1) * StepSize >= 0 /\ (k - 1) * StepSize \in Int
    BY <1>1, <2>4
  <2>6. s >= start + StepSize
    BY <1>1, <2>4, <2>5
  <2> QED
    BY <2>1, <2>4, <2>6 DEF StartsFrom
<1>3. start \in StartsFrom(m, start)
  <2>1. 0 \in Nat /\ start = start + 0 * StepSize /\ start \in 0..m
    BY <1>1
  <2> QED
    BY <2>1 DEF StartsFrom
<1>4. ASSUME NEW s \in StartsFrom(m, start + StepSize) PROVE s \in StartsFrom(m, start)
  <2>1. s \in 0..m /\ s >= start + StepSize /\ s + TrainSize + TestSize <= m
    BY DEF StartsFrom
  <2>2. PICK k \in Nat : s = (start + StepSize) + k * StepSize
    BY DEF StartsFrom
  <2>3. k + 1 \in Nat /\ s = start + (k + 1) * StepSize
    BY <1>1, <2>2
  <2>4. s >= start
    BY <1>1, <2>1
  <2> QED
    BY <2>1, <2>3, <2>4 DEF StartsFrom
<1> QED
  BY <1>2, <1>3, <1>4

\* A window that does not fit ends the loop.
LEMMA StartsEnd ==
    ASSUME NEW m \in Nat, NEW start \in Nat, ~(start + TrainSize + TestSize <= m)
    PROVE  StartsFrom(m, start) = {}
<1>1. TrainSize \in Nat /\ TestSize \in Nat
  BY ResearchAssumption
<1> SUFFICES ASSUME NEW s \in StartsFrom(m, start) PROVE FALSE
  OBVIOUS
<1>2. s \in 0..m /\ s >= start /\ s + TrainSize + TestSize <= m
  BY DEF StartsFrom
<1> QED
  BY <1>1, <1>2

\* From 0 on, both loops begin their windows at the same candles.
LEMMA StartsAgree ==
    ASSUME NEW closes, Len(closes) \in Nat
    PROVE  StartsFrom(Len(closes), 0) = WindowStarts(closes)
<1>1. StepSize \in Nat /\ StepSize > 0
  BY ResearchAssumption
<1>2. PICK m : m = Len(closes)
  OBVIOUS
<1>3. ASSUME NEW s \in Nat PROVE (\E k \in Nat : s = 0 + k * StepSize) <=> s % StepSize = 0
  <2>1. ASSUME s % StepSize = 0 PROVE \E k \in Nat : s = 0 + k * StepSize
    <3>1. s = (s \div StepSize) * StepSize /\ (s \div StepSize) \in Nat
      BY <1>1, <1>3, <2>1
    <3>2. PICK k : k = s \div StepSize
      OBVIOUS
    <3>3. k \in Nat /\ s = 0 + k * StepSize
      BY <1>1, <3>1, <3>2
    <3> QED
      BY <3>3
  <2>2. ASSUME NEW k \in Nat, s = 0 + k * StepSize PROVE s % StepSize = 0
    <3>1. (k * StepSize) % StepSize = 0
      BY <1>1
    <3>2. s = k * StepSize
      BY <1>1, <2>2
    <3> QED
      BY <3>1, <3>2
  <2> QED
    BY <2>1, <2>2
<1>4. ASSUME NEW s PROVE s \in StartsFrom(m, 0) <=> s \in WindowStarts(closes)
  <2>1. s \in 0..m => s \in Nat /\ s >= 0
    BY <1>2
  <2> QED
    BY <1>2, <1>3, <2>1 DEF StartsFrom, WindowStarts
<1> QED
  BY <1>2, <1>4

\* What the loop has from start on when it ends.
WindowsFrom(closes, name, grid, cost, start) ==
    [s \in StartsFrom(Len(closes), start) |-> AgenticWindow(closes, name, grid, cost, s)]
LoopBody(closes, name, grid, cost, start, later) ==
    IF start + TrainSize + TestSize <= Len(closes)
    THEN WithWindow(start, AgenticWindow(closes, name, grid, cost, start), later)
    ELSE <<>>

\* Once through the loop.
LEMMA LoopOnce ==
    ASSUME NEW closes, Len(closes) \in Nat, NEW name, NEW grid, NEW cost, NEW start \in Nat
    PROVE  WindowsFrom(closes, name, grid, cost, start) =
             LoopBody(closes, name, grid, cost, start, WindowsFrom(closes, name, grid, cost, start + StepSize))
<1>1. PICK m, S, T : m = Len(closes) /\ S = StartsFrom(m, start) /\ T = StartsFrom(m, start + StepSize)
  OBVIOUS
<1>2. PICK f, g : f = WindowsFrom(closes, name, grid, cost, start)
                  /\ g = WindowsFrom(closes, name, grid, cost, start + StepSize)
  OBVIOUS
<1>3. /\ f = [s \in S |-> AgenticWindow(closes, name, grid, cost, s)]
      /\ g = [s \in T |-> AgenticWindow(closes, name, grid, cost, s)]
  BY <1>1, <1>2, Zenon DEF WindowsFrom
<1>4. CASE start + TrainSize + TestSize <= m
  <2>1. S = {start} \cup T
    BY <1>1, <1>4, StartsStep
  <2>2. LoopBody(closes, name, grid, cost, start, g) =
          WithWindow(start, AgenticWindow(closes, name, grid, cost, start), g)
    BY <1>1, <1>4 DEF LoopBody
  <2>3. DOMAIN g = T
    BY <1>3
  <2>4. PICK w : w = AgenticWindow(closes, name, grid, cost, start)
    OBVIOUS
  <2>5. WithWindow(start, w, g) = [s \in S |-> IF s = start THEN w ELSE g[s]]
    BY <2>1, <2>3 DEF WithWindow
  <2>6. \A s \in S : f[s] = IF s = start THEN w ELSE g[s]
    <3> SUFFICES ASSUME NEW s \in S PROVE f[s] = IF s = start THEN w ELSE g[s]
      OBVIOUS
    <3>1. f[s] = AgenticWindow(closes, name, grid, cost, s)
      BY <1>3
    <3>2. CASE s = start
      BY <2>4, <3>1, <3>2
    <3>3. CASE s # start
      <4>1. s \in T
        BY <2>1, <3>3
      <4>2. g[s] = AgenticWindow(closes, name, grid, cost, s)
        BY <1>3, <4>1
      <4> QED
        BY <3>1, <3>3, <4>2
    <3> QED
      BY <3>2, <3>3
  <2>7. f = [s \in S |-> IF s = start THEN w ELSE g[s]]
    <3>1. f = [s \in S |-> f[s]]
      BY <1>3
    <3> QED
      BY <2>6, <3>1
  <2> QED
    BY <1>2, <2>2, <2>4, <2>5, <2>7
<1>5. CASE ~(start + TrainSize + TestSize <= m)
  <2>1. S = {}
    BY <1>1, <1>5, StartsEnd
  <2>2. f = <<>>
    BY <1>3, <2>1
  <2> QED
    BY <1>1, <1>2, <1>5, <2>2 DEF LoopBody
<1> QED
  BY <1>4, <1>5

\* agentic_walk_forward reports one result for each window of the loop.
LEMMA LoopFacts ==
    ASSUME NEW closes, Len(closes) \in Nat, NEW name, NEW grid, NEW cost
    PROVE  AgenticWalkForward(closes, name, grid, cost) = WindowsFrom(closes, name, grid, cost, 0)
<1>1. PICK m : m = Len(closes) + StepSize
  OBVIOUS
<1>2. StepSize \in Nat /\ StepSize > 0 /\ TrainSize \in Nat /\ TestSize \in Nat /\ m \in Nat
  BY <1>1, ResearchAssumption
<1>3. PICK h : h = CHOOSE Loop : Loop = [start \in 0..(Len(closes) + StepSize) |->
                     LoopBody(closes, name, grid, cost, start, Loop[start + StepSize])]
  OBVIOUS
<1>4. AgenticWalkForward(closes, name, grid, cost) = h[0]
  BY <1>3, Zenon DEF AgenticWalkForward, LoopBody, AgenticWindow
<1>5. PICK g : g = [start \in 0..m |-> WindowsFrom(closes, name, grid, cost, start)]
  OBVIOUS
<1>6. \A start \in 0..m : start + TrainSize + TestSize <= Len(closes) => start + StepSize \in 0..m
  BY <1>1, <1>2
<1>7. ASSUME NEW start \in 0..m, NEW later, NEW other,
             start + StepSize \in 0..m => later = other
      PROVE  LoopBody(closes, name, grid, cost, start, later) = LoopBody(closes, name, grid, cost, start, other)
  BY <1>6, <1>7 DEF LoopBody
<1>8. \A start \in 0..m : g[start] = LoopBody(closes, name, grid, cost, start, g[start + StepSize])
  <2> SUFFICES ASSUME NEW start \in 0..m
               PROVE  g[start] = LoopBody(closes, name, grid, cost, start, g[start + StepSize])
    OBVIOUS
  <2>1. start \in Nat /\ g[start] = WindowsFrom(closes, name, grid, cost, start)
    BY <1>2, <1>5
  <2>2. g[start] = LoopBody(closes, name, grid, cost, start, WindowsFrom(closes, name, grid, cost, start + StepSize))
    BY <2>1, LoopOnce
  <2>3. start + StepSize \in 0..m => g[start + StepSize] = WindowsFrom(closes, name, grid, cost, start + StepSize)
    BY <1>5
  <2> QED
    BY <1>7, <2>2, <2>3
<1>9. g = [start \in 0..m |-> LoopBody(closes, name, grid, cost, start, g[start + StepSize])]
  <2>1. g = [start \in 0..m |-> g[start]]
    BY <1>5
  <2> QED
    BY <1>8, <2>1
<1>10. h = [start \in 0..m |-> LoopBody(closes, name, grid, cost, start, h[start + StepSize])]
  BY <1>1, <1>3, <1>9, Zenon
<1>11. \A start \in 0..m : h[start] = LoopBody(closes, name, grid, cost, start, h[start + StepSize])
  BY <1>10, Zenon
<1>12. h[0] = g[0]
  <2>1. PICK B : B = {d \in 0..m : h[m - d] # g[m - d]}
    OBVIOUS
  <2>2. B = {}
    <3> SUFFICES ASSUME B # {} PROVE FALSE
      OBVIOUS
    <3>1. B \subseteq Nat
      BY <2>1
    <3>2. PICK d \in B : \A e \in B : d <= e
      BY <3>1, LeastNat
    <3>3. PICK start : start = m - d
      OBVIOUS
    <3>4. d \in 0..m /\ start \in 0..m /\ h[start] # g[start]
      BY <1>2, <2>1, <3>2, <3>3
    <3>5. start + StepSize \in 0..m => h[start + StepSize] = g[start + StepSize]
      <4> SUFFICES ASSUME start + StepSize \in 0..m PROVE h[start + StepSize] = g[start + StepSize]
        OBVIOUS
      <4>1. PICK e : e = d - StepSize
        OBVIOUS
      <4>2. e \in 0..m /\ m - e = start + StepSize /\ ~(d <= e)
        BY <1>2, <3>3, <3>4, <4>1
      <4>3. e \notin B
        BY <3>2, <4>2
      <4> QED
        BY <2>1, <4>2, <4>3
    <3>6. LoopBody(closes, name, grid, cost, start, h[start + StepSize]) =
            LoopBody(closes, name, grid, cost, start, g[start + StepSize])
      BY <1>7, <3>4, <3>5
    <3> QED
      BY <1>8, <1>11, <3>4, <3>6
  <2>3. m \in 0..m /\ m - m = 0
    BY <1>2
  <2> QED
    BY <2>1, <2>2, <2>3
<1>13. g[0] = WindowsFrom(closes, name, grid, cost, 0)
  BY <1>2, <1>5
<1> QED
  BY <1>4, <1>12, <1>13

\* The candles of a window.
LEMMA WindowCandles ==
    ASSUME NEW closes \in Seq(BarPrices), NEW start \in WindowStarts(closes)
    PROVE  LET train == SubSeq(closes, start + 1, start + TrainSize)
           IN train \in Seq(BarPrices) /\ Len(train) # 0
<1>1. TrainSize \in Nat /\ TrainSize > 0 /\ TestSize \in Nat /\ Len(closes) \in Nat
  BY ResearchAssumption, LenProperties
<1>2. start \in Nat /\ start + TrainSize + TestSize <= Len(closes)
  BY <1>1 DEF WindowStarts
<1>3. \A i \in (start + 1)..(start + TrainSize) : closes[i] \in BarPrices
  BY <1>1, <1>2, ElementOfSeq
<1>4. start + 1 \in Int /\ start + TrainSize \in Int /\ start + 1 <= start + TrainSize
  BY <1>1, <1>2
<1>5. PICK a, b : a = start + 1 /\ b = start + TrainSize
  OBVIOUS
<1>6. SubSeq(closes, a, b) \in Seq(BarPrices) /\ Len(SubSeq(closes, a, b)) = b - a + 1
  BY <1>3, <1>4, <1>5, SubSeqProperties
<1>7. b - a + 1 # 0
  BY <1>1, <1>2, <1>5
<1> QED
  BY <1>5, <1>6, <1>7

\* With one combination in the grid, both walk-forwards report the same windows.
LEMMA OneCombination ==
    ASSUME NEW closes \in Seq(BarPrices), NEW name, NEW config, NEW cost \in CostRates
    PROVE  AgenticWalkForward(closes, name, <<config>>, cost) =
             RollingWalkForward(closes, name, config, cost).windows
<1>1. PICK grid : grid = <<config>>
  OBVIOUS
<1>2. DOMAIN grid = 1..1 /\ grid[1] = config
  BY <1>1
<1>3. Len(closes) \in Nat
  BY LenProperties
<1>4. AgenticWalkForward(closes, name, grid, cost) =
        [s \in WindowStarts(closes) |-> AgenticWindow(closes, name, grid, cost, s)]
  <2>1. AgenticWalkForward(closes, name, grid, cost) = WindowsFrom(closes, name, grid, cost, 0)
    BY <1>3, LoopFacts
  <2>2. StartsFrom(Len(closes), 0) = WindowStarts(closes)
    BY <1>3, StartsAgree
  <2> QED
    BY <2>1, <2>2, Zenon DEF WindowsFrom
<1>5. ASSUME NEW s \in WindowStarts(closes)
      PROVE  AgenticWindow(closes, name, grid, cost, s) = OutOfSample(closes, s, name, config, cost)
  <2>1. PICK train : train = SubSeq(closes, s + 1, s + TrainSize)
    OBVIOUS
  <2>2. train \in Seq(BarPrices) /\ Len(train) # 0
    BY <2>1, WindowCandles
  <2>3. PICK k : IsBest(train, name, grid, cost, k)
    <3>1. 1 \in Nat \ {0}
      OBVIOUS
    <3> QED
      BY <1>2, <2>2, <3>1, BestFacts
  <2>4. BestParameters(train, name, grid, cost) = config
    <3>1. k \in 1..1
      BY <1>2, <2>3 DEF IsBest
    <3>2. k = 1
      BY <3>1
    <3> QED
      BY <1>2, <2>3, <3>2 DEF IsBest
  <2>5. PICK test : test = SubSeq(closes, s + TrainSize + 1, s + TrainSize + TestSize)
    OBVIOUS
  <2>6. AgenticWindow(closes, name, grid, cost, s) = Result(Backtest(test, name, config, cost))
    BY <2>1, <2>4, <2>5 DEF AgenticWindow
  <2>7. OutOfSample(closes, s, name, config, cost) = Result(Backtest(test, name, config, cost))
    BY <2>5 DEF OutOfSample
  <2> QED
    BY <2>6, <2>7
<1>6. RollingWalkForward(closes, name, config, cost).windows =
        [s \in WindowStarts(closes) |-> OutOfSample(closes, s, name, config, cost)]
  BY DEF RollingWalkForward
<1>7. AgenticWalkForward(closes, name, grid, cost) = RollingWalkForward(closes, name, config, cost).windows
  BY <1>4, <1>5, <1>6
<1> QED
  BY <1>1, <1>7

\* parameter_grid holds every combination.
LEMMA GridFacts ==
    ASSUME NEW S, IsFiniteSet(S)
    PROVE  /\ Cardinality(S) \in Nat /\ SetToSeq(S) \in [1..Cardinality(S) -> S]
           /\ \A x \in S : \E i \in 1..Cardinality(S) : SetToSeq(S)[i] = x
<1>1. PICK n, grid : n = Cardinality(S) /\ grid = SetToSeq(S)
  OBVIOUS
<1>2. n \in Nat /\ ExistsBijection(1..n, S)
  BY <1>1, FS_CardinalityType
<1>3. \E f \in [1..n -> S] : IsInjective(f)
  BY <1>2 DEF ExistsBijection, Bijection, Injection, IsInjective
<1>4. grid \in [1..n -> S] /\ IsInjective(grid)
  BY <1>1, <1>3, Zenon DEF SetToSeq
<1>5. grid \in Injection(1..n, S)
  BY <1>4 DEF Injection, IsInjective
<1>6. Cardinality(1..n) = Cardinality(S)
  BY <1>1, <1>2, FS_Interval
<1>7. grid \in Surjection(1..n, S)
  <2>1. PICK I : I = 1..n
    OBVIOUS
  <2>2. grid \in Injection(I, S) /\ Cardinality(I) = Cardinality(S)
    BY <1>5, <1>6, <2>1
  <2>3. grid \in Surjection(I, S)
    BY <2>2, FS_Injection
  <2> QED
    BY <2>1, <2>3
<1>8. \A x \in S : \E i \in 1..n : grid[i] = x
  BY <1>7 DEF Surjection
<1> QED
  BY <1>1, <1>2, <1>4, <1>8

\* Whatever bars came, both walk-forwards test the same windows and the agentic
\* one tests parameters that no other combination beat in training
\* (rolling_walk_forward, agentic_walk_forward, parameter_sweep), for any grid,
\* costs and window sizes.
THEOREM WalkForwardsAgreeAlways == ResearchSpec => []WalkForwardsAgree
<1>1. ASSUME NEW closes \in PriceHistories PROVE closes \in AgreeingHistories
  <2>1. closes \in Seq(BarPrices) /\ Len(closes) \in Nat
    BY HistoryFacts
  <2>2. PICK grid, n : grid = SetToSeq(StrategyConfigs) /\ n = Cardinality(StrategyConfigs)
    OBVIOUS
  <2>3. n \in Nat /\ DOMAIN grid = 1..n /\ \A c \in StrategyConfigs : \E i \in 1..n : grid[i] = c
    BY <2>2, ResearchAssumption, GridFacts
  <2>4. ASSUME NEW name \in Names, NEW cost \in CostRates
        PROVE  /\ \A config \in StrategyConfigs :
                    LET agentic == AgenticWalkForward(closes, name, <<config>>, cost)
                        rolling == RollingWalkForward(closes, name, config, cost)
                    IN IF rolling.raises THEN DOMAIN agentic = {} ELSE agentic = rolling.windows
               /\ DOMAIN AgenticWalkForward(closes, name, grid, cost) = WindowStarts(closes)
    <3>1. ASSUME NEW config \in StrategyConfigs
          PROVE  LET agentic == AgenticWalkForward(closes, name, <<config>>, cost)
                     rolling == RollingWalkForward(closes, name, config, cost)
                 IN IF rolling.raises THEN DOMAIN agentic = {} ELSE agentic = rolling.windows
      <4>1. PICK agentic, rolling : /\ agentic = AgenticWalkForward(closes, name, <<config>>, cost)
                                    /\ rolling = RollingWalkForward(closes, name, config, cost)
        OBVIOUS
      <4>2. agentic = rolling.windows
        BY <2>1, <4>1, OneCombination
      <4>3. rolling.raises = (WindowStarts(closes) = {}) /\ DOMAIN rolling.windows = WindowStarts(closes)
        BY <4>1 DEF RollingWalkForward
      <4> QED
        BY <4>1, <4>2, <4>3
    <3>2. AgenticWalkForward(closes, name, grid, cost) = WindowsFrom(closes, name, grid, cost, 0)
      BY <2>1, LoopFacts
    <3>3. DOMAIN WindowsFrom(closes, name, grid, cost, 0) = WindowStarts(closes)
      BY <2>1, StartsAgree DEF WindowsFrom
    <3> QED
      BY <3>1, <3>2, <3>3
  <2>5. ASSUME NEW name \in Names, NEW cost \in CostRates, NEW start \in WindowStarts(closes)
        PROVE  LET train == SubSeq(closes, start + 1, start + TrainSize)
                   best == Result(Backtest(train, name, BestParameters(train, name, grid, cost), cost))
               IN \A config \in StrategyConfigs :
                    ~(Result(Backtest(train, name, config, cost)).gain > best.gain)
    <3>1. PICK train : train = SubSeq(closes, start + 1, start + TrainSize)
      OBVIOUS
    <3>2. train \in Seq(BarPrices) /\ Len(train) # 0
      BY <2>1, <3>1, WindowCandles
    <3>3. ASSUME NEW config \in StrategyConfigs
          PROVE  ~(Result(Backtest(train, name, config, cost)).gain >
                     Result(Backtest(train, name, BestParameters(train, name, grid, cost), cost)).gain)
      <4>1. PICK i \in 1..n : grid[i] = config
        BY <2>3
      <4>2. n \in Nat \ {0}
        BY <2>3
      <4>3. PICK k : IsBest(train, name, grid, cost, k)
        BY <2>3, <3>2, <4>2, BestFacts
      <4>4. PICK x, y : /\ x = Result(Backtest(train, name, grid[k], cost))
                        /\ y = Result(Backtest(train, name, config, cost))
        OBVIOUS
      <4>5. BetterOrEqual(x, y) /\ BestParameters(train, name, grid, cost) = grid[k]
        BY <2>3, <4>1, <4>3, <4>4 DEF IsBest
      <4>6. x \in Results /\ y \in Results
        BY <3>2, <4>4, ResultType
      <4>7. ~(y.gain > x.gain)
        BY <4>5, <4>6, BetterFacts
      <4> QED
        BY <4>4, <4>5, <4>7
    <3> QED
      BY <3>1, <3>3, Zenon
  <2> QED
    BY <2>2, <2>4, <2>5, Zenon DEF AgreeingHistories
<1>2. ResearchTypeOK => WalkForwardsAgree
  BY <1>1, ListedHistory DEF WalkForwardsAgree
<1> QED
  BY <1>2, BarsAreTyped, PTL

-----------------------------------------------------------------------------
(* Signals of the prices upside down.                                      *)

IsPower(base, n, g) == g \in [0..n -> Int] /\ g[0] = 1 /\ \A i \in 1..n : g[i] = base * g[i - 1]

\* The recursion of Power has a solution.
LEMMA PowerSolved ==
    ASSUME NEW base \in Int, NEW n \in Nat
    PROVE  \E g : IsPower(base, n, g) /\ Power(base, n) = g[n]
<1>1. PICK r : r = CHOOSE power : power = [i \in 0..n |-> IF i = 0 THEN 1 ELSE base * power[i - 1]]
  OBVIOUS
<1>2. Power(base, n) = r[n]
  BY <1>1, Zenon DEF Power
<1>3. PICK step : step = [x \in Int \X (1..n) |-> base * x[1]]
  OBVIOUS
<1>4. step \in [Int \X (1..n) -> Int]
  BY <1>3
<1>5. PICK g : IsIteration(1, step, Int, n, g)
  BY <1>4, IterationExists
<1>6. g \in [0..n -> Int] /\ g[0] = 1
  BY <1>5 DEF IsIteration
<1>7. \A i \in 1..n : g[i] = base * g[i - 1]
  <2> SUFFICES ASSUME NEW i \in 1..n PROVE g[i] = base * g[i - 1]
    OBVIOUS
  <2>1. i - 1 \in 0..n
    OBVIOUS
  <2>2. g[i - 1] \in Int
    BY <1>6, <2>1
  <2>3. <<g[i - 1], i>> \in Int \X (1..n) /\ <<g[i - 1], i>>[1] = g[i - 1]
    BY <2>2
  <2> QED
    BY <1>3, <1>5, <2>3 DEF IsIteration
<1>8. g = [i \in 0..n |-> IF i = 0 THEN 1 ELSE base * g[i - 1]]
  <2>1. \A i \in 0..n : g[i] = IF i = 0 THEN 1 ELSE base * g[i - 1]
    BY <1>6, <1>7
  <2> QED
    BY <1>6, <2>1
<1>9. r = [i \in 0..n |-> IF i = 0 THEN 1 ELSE base * r[i - 1]]
  BY <1>1, <1>8, Zenon
<1>10. \A i \in 0..n : r[i] = IF i = 0 THEN 1 ELSE base * r[i - 1]
  BY <1>9, Zenon
<1>11. \A i \in 0..n : r[i] = g[i]
  <2>1. PICK P : P = {i \in 0..n : r[i] = g[i]}
    OBVIOUS
  <2>2. 0 \in P
    BY <1>6, <1>10, <2>1
  <2>3. ASSUME NEW i \in 1..n, i - 1 \in P PROVE i \in P
    <3>1. r[i - 1] = g[i - 1] /\ i \in 0..n /\ i # 0
      BY <2>1, <2>3
    <3>2. r[i] = base * r[i - 1]
      BY <1>10, <3>1
    <3> QED
      BY <1>7, <2>1, <3>1, <3>2
  <2>4. \A i \in 0..n : i \in P
    BY <2>2, <2>3, InductionTo
  <2> QED
    BY <2>1, <2>4
<1>12. IsPower(base, n, g)
  BY <1>6, <1>7 DEF IsPower
<1>13. n \in 0..n
  OBVIOUS
<1> QED
  BY <1>2, <1>11, <1>12, <1>13

\* Power is exponentiation.
LEMMA PowerFacts ==
    ASSUME NEW base \in Int, NEW n \in Nat
    PROVE  /\ Power(base, n) \in Int
           /\ Power(base, 0) = 1
           /\ Power(base, n + 1) = base * Power(base, n)
<1>1. PICK g : IsPower(base, n, g) /\ Power(base, n) = g[n]
  BY PowerSolved
<1>2. PICK h : IsPower(base, n + 1, h) /\ Power(base, n + 1) = h[n + 1]
  BY PowerSolved
<1>3. PICK z : IsPower(base, 0, z) /\ Power(base, 0) = z[0]
  BY PowerSolved
<1>4. \A i \in 0..n : g[i] = h[i]
  <2>1. PICK P : P = {i \in 0..n : g[i] = h[i]}
    OBVIOUS
  <2>2. 0 \in P
    BY <1>1, <1>2, <2>1 DEF IsPower
  <2>3. ASSUME NEW i \in 1..n, i - 1 \in P PROVE i \in P
    <3>1. g[i - 1] = h[i - 1] /\ i \in 0..n /\ i \in 1..(n + 1)
      BY <2>1, <2>3
    <3> QED
      BY <1>1, <1>2, <2>1, <3>1 DEF IsPower
  <2>4. \A i \in 0..n : i \in P
    BY <2>2, <2>3, InductionTo
  <2> QED
    BY <2>1, <2>4
<1>5. n \in 0..n /\ n + 1 \in 1..(n + 1) /\ (n + 1) - 1 = n
  OBVIOUS
<1>6. g[n] = h[n] /\ g[n] \in Int
  BY <1>1, <1>4, <1>5 DEF IsPower
<1>7. h[n + 1] = base * h[n]
  BY <1>2, <1>5 DEF IsPower
<1> QED
  BY <1>1, <1>2, <1>3, <1>6, <1>7 DEF IsPower

\* Denominators multiply when their steps add up.
LEMMA PowerAdd ==
    ASSUME NEW base \in Int, NEW m \in Nat, NEW n \in Nat
    PROVE  Power(base, m) * Power(base, n) = Power(base, m + n)
<1>1. PICK P : P = {i \in 0..n : Power(base, m) * Power(base, i) = Power(base, m + i)}
  OBVIOUS
<1>2. Power(base, m) \in Int
  BY PowerFacts
<1>3. 0 \in P
  <2>1. Power(base, 0) = 1 /\ m + 0 = m
    BY PowerFacts
  <2>2. Power(base, m) * Power(base, 0) = Power(base, m + 0)
    BY <1>2, <2>1
  <2> QED
    BY <1>1, <2>2
<1>4. ASSUME NEW i \in 1..n, i - 1 \in P PROVE i \in P
  <2>1. Power(base, m) * Power(base, i - 1) = Power(base, m + (i - 1))
    BY <1>1, <1>4
  <2>2. PICK j, k : j = i - 1 /\ k = m + (i - 1)
    OBVIOUS
  <2>3. j \in Nat /\ k \in Nat /\ j + 1 = i /\ k + 1 = m + i /\ i \in 0..n
    BY <2>2
  <2>4. /\ Power(base, j) \in Int /\ Power(base, k) \in Int
        /\ Power(base, j + 1) = base * Power(base, j) /\ Power(base, k + 1) = base * Power(base, k)
    BY <2>3, PowerFacts
  <2>5. PICK a, b, c : a = Power(base, m) /\ b = Power(base, j) /\ c = Power(base, k)
    OBVIOUS
  <2>6. a \in Int /\ b \in Int /\ c \in Int /\ a * b = c
    BY <1>2, <2>1, <2>2, <2>4, <2>5
  <2>7. a * (base * b) = base * c
    BY <2>6
  <2>8. Power(base, m) * Power(base, i) = Power(base, m + i)
    BY <2>3, <2>4, <2>5, <2>7
  <2> QED
    BY <1>1, <2>3, <2>8
<1>5. n \in P
  <2>1. \A i \in 0..n : i \in P
    BY <1>3, <1>4, InductionTo
  <2> QED
    BY <2>1
<1> QED
  BY <1>1, <1>5

\* ema_series multiplied out: each element from the one before it.
EmaAt(s, p, i, before) == 2 * Power(p + 1, i - 2) * s[i] + (p - 1) * before
IsEma(s, p, e) ==
    /\ e \in [1..Len(s) -> Int]
    /\ e[1] = s[1]
    /\ \A i \in 2..Len(s) : e[i] = EmaAt(s, p, i, e[i - 1])

\* An element of ema_series is a number.
LEMMA EmaAtType ==
    ASSUME NEW s \in Seq(Int), NEW p \in Nat, NEW i \in 2..Len(s), NEW before \in Int
    PROVE  EmaAt(s, p, i, before) \in Int
<1>1. Len(s) \in Nat /\ s \in [1..Len(s) -> Int] /\ i \in 1..Len(s)
  BY LenProperties
<1>2. i - 2 \in Nat /\ p + 1 \in Int
  BY <1>1
<1>3. Power(p + 1, i - 2) \in Int
  BY <1>2, PowerFacts
<1>4. s[i] \in Int
  BY <1>1
<1> QED
  BY <1>3, <1>4 DEF EmaAt

\* The recursion of ema_series has a solution, and EmaSeries is it.
LEMMA EmaSolved ==
    ASSUME NEW s \in Seq(Int), Len(s) > 0, NEW p \in Nat
    PROVE  IsEma(s, p, EmaSeries(s, p))
<1>1. PICK n : n = Len(s)
  OBVIOUS
<1>2. n \in Nat \ {0} /\ n - 1 \in Nat /\ s \in [1..n -> Int] /\ s[1] \in Int
  BY <1>1, LenProperties
<1>3. PICK r : r = CHOOSE e : e = [i \in 1..Len(s) |->
                     IF i = 1 THEN s[1] ELSE 2 * Power(p + 1, i - 2) * s[i] + (p - 1) * e[i - 1]]
  OBVIOUS
<1>4. EmaSeries(s, p) = r
  BY <1>3, Zenon DEF EmaSeries
<1>5. PICK step : step = [x \in Int \X (1..(n - 1)) |-> EmaAt(s, p, x[2] + 1, x[1])]
  OBVIOUS
<1>6. \A b \in Int, j \in 1..(n - 1) : /\ <<b, j>> \in Int \X (1..(n - 1))
                                       /\ step[<<b, j>>] = EmaAt(s, p, j + 1, b)
                                       /\ step[<<b, j>>] \in Int
  <2> SUFFICES ASSUME NEW b \in Int, NEW j \in 1..(n - 1)
               PROVE  /\ <<b, j>> \in Int \X (1..(n - 1))
                      /\ step[<<b, j>>] = EmaAt(s, p, j + 1, b)
                      /\ step[<<b, j>>] \in Int
    OBVIOUS
  <2>1. <<b, j>> \in Int \X (1..(n - 1)) /\ <<b, j>>[1] = b /\ <<b, j>>[2] = j
    OBVIOUS
  <2>2. step[<<b, j>>] = EmaAt(s, p, j + 1, b)
    BY <1>5, <2>1
  <2>3. j + 1 \in 2..Len(s)
    BY <1>1, <1>2
  <2>4. EmaAt(s, p, j + 1, b) \in Int
    BY <2>3, EmaAtType
  <2> QED
    BY <2>1, <2>2, <2>4
<1>7. step \in [Int \X (1..(n - 1)) -> Int]
  <2>1. \A x \in Int \X (1..(n - 1)) : x[1] \in Int /\ x[2] \in 1..(n - 1) /\ x = <<x[1], x[2]>>
    OBVIOUS
  <2>2. \A x \in Int \X (1..(n - 1)) : step[x] \in Int
    BY <1>6, <2>1
  <2> QED
    BY <1>5, <2>2
<1>8. PICK g : IsIteration(s[1], step, Int, n - 1, g)
  BY <1>2, <1>7, IterationExists
<1>9. g \in [0..(n - 1) -> Int] /\ g[0] = s[1]
  BY <1>8 DEF IsIteration
<1>10. \A j \in 1..(n - 1) : g[j] = EmaAt(s, p, j + 1, g[j - 1])
  <2> SUFFICES ASSUME NEW j \in 1..(n - 1) PROVE g[j] = EmaAt(s, p, j + 1, g[j - 1])
    OBVIOUS
  <2>1. j - 1 \in 0..(n - 1)
    BY <1>2
  <2>2. g[j - 1] \in Int
    BY <1>9, <2>1
  <2>3. g[j] = step[<<g[j - 1], j>>]
    BY <1>8 DEF IsIteration
  <2> QED
    BY <1>6, <2>2, <2>3
<1>11. PICK e : e = [i \in 1..n |-> g[i - 1]]
  OBVIOUS
<1>12. \A i \in 1..n : i - 1 \in 0..(n - 1) /\ e[i] = g[i - 1] /\ e[i] \in Int
  BY <1>2, <1>9, <1>11
<1>13. e \in [1..n -> Int] /\ e[1] = s[1]
  BY <1>2, <1>9, <1>11, <1>12
<1>14. \A i \in 2..n : e[i] = EmaAt(s, p, i, e[i - 1])
  <2> SUFFICES ASSUME NEW i \in 2..n PROVE e[i] = EmaAt(s, p, i, e[i - 1])
    OBVIOUS
  <2>1. PICK j : j = i - 1
    OBVIOUS
  <2>2. j \in 1..(n - 1) /\ j + 1 = i /\ i \in 1..n /\ j \in 1..n
    BY <1>2, <2>1
  <2>3. e[i] = g[j] /\ e[j] = g[j - 1]
    BY <1>12, <2>1, <2>2
  <2>4. g[j] = EmaAt(s, p, j + 1, g[j - 1])
    BY <1>10, <2>2
  <2>5. e[i] = EmaAt(s, p, i, e[j])
    BY <2>2, <2>3, <2>4
  <2> QED
    BY <2>1, <2>5, Zenon
<1>15. e = [i \in 1..Len(s) |->
               IF i = 1 THEN s[1] ELSE 2 * Power(p + 1, i - 2) * s[i] + (p - 1) * e[i - 1]]
  <2>1. \A i \in 1..n :
           e[i] = IF i = 1 THEN s[1] ELSE 2 * Power(p + 1, i - 2) * s[i] + (p - 1) * e[i - 1]
    <3> SUFFICES ASSUME NEW i \in 1..n, i # 1
                 PROVE  e[i] = 2 * Power(p + 1, i - 2) * s[i] + (p - 1) * e[i - 1]
      BY <1>13
    <3>1. i \in 2..n
      OBVIOUS
    <3>2. e[i] = EmaAt(s, p, i, e[i - 1])
      BY <1>14, <3>1
    <3> QED
      BY <3>2, Zenon DEF EmaAt
  <2> QED
    BY <1>1, <1>13, <2>1
<1>16. r = [i \in 1..Len(s) |->
               IF i = 1 THEN s[1] ELSE 2 * Power(p + 1, i - 2) * s[i] + (p - 1) * r[i - 1]]
  BY <1>3, <1>15, Zenon
<1>17. DOMAIN r = 1..n /\ r[1] = s[1]
  <2>1. 1 \in 1..Len(s)
    BY <1>1, <1>2
  <2>2. r[1] = IF 1 = 1 THEN s[1] ELSE 2 * Power(p + 1, 1 - 2) * s[1] + (p - 1) * r[1 - 1]
    BY <1>16, <2>1, Zenon
  <2> QED
    BY <1>1, <1>16, <2>2, Zenon
<1>18. \A i \in 2..n : r[i] = EmaAt(s, p, i, r[i - 1])
  <2> SUFFICES ASSUME NEW i \in 2..n PROVE r[i] = EmaAt(s, p, i, r[i - 1])
    OBVIOUS
  <2>1. i \in 1..Len(s) /\ i # 1
    BY <1>1, <1>2
  <2>2. r[i] = IF i = 1 THEN s[1] ELSE 2 * Power(p + 1, i - 2) * s[i] + (p - 1) * r[i - 1]
    BY <1>16, <2>1, Zenon
  <2> QED
    BY <2>1, <2>2, Zenon DEF EmaAt
<1>19. \A j \in 0..(n - 1) : r[j + 1] \in Int
  <2>1. PICK P : P = {j \in 0..(n - 1) : r[j + 1] \in Int}
    OBVIOUS
  <2>2. 0 \in P
    BY <1>2, <1>17, <2>1
  <2>3. ASSUME NEW j \in 1..(n - 1), j - 1 \in P PROVE j \in P
    <3>1. PICK i : i = j + 1
      OBVIOUS
    <3>2. i \in 2..n /\ i \in 2..Len(s) /\ (j - 1) + 1 = i - 1 /\ j \in 0..(n - 1)
      BY <1>1, <1>2, <3>1
    <3>3. r[i - 1] \in Int
      BY <2>1, <2>3, <3>2
    <3>4. r[i] \in Int
      BY <1>18, <3>2, <3>3, EmaAtType
    <3> QED
      BY <2>1, <3>1, <3>2, <3>4
  <2>4. \A j \in 0..(n - 1) : j \in P
    BY <1>2, <2>2, <2>3, InductionTo
  <2> QED
    BY <2>1, <2>4
<1>20. r \in [1..n -> Int]
  <2>1. \A i \in 1..n : r[i] \in Int
    <3> SUFFICES ASSUME NEW i \in 1..n PROVE r[i] \in Int
      OBVIOUS
    <3>1. i - 1 \in 0..(n - 1) /\ (i - 1) + 1 = i
      BY <1>2
    <3> QED
      BY <1>19, <3>1
  <2>2. r = [i \in 1..n |-> r[i]]
    BY <1>16, <1>17, Zenon
  <2> QED
    BY <2>1, <2>2
<1> QED
  BY <1>1, <1>4, <1>17, <1>18, <1>20 DEF IsEma

\* A history turned upside down is a history of the same length.
LEMMA FlippedFacts ==
    ASSUME NEW axis \in Int, NEW s \in Seq(Int)
    PROVE  /\ Flipped(axis, s) \in Seq(Int)
           /\ Len(Flipped(axis, s)) = Len(s)
           /\ \A i \in 1..Len(s) : Flipped(axis, s)[i] = axis - s[i] /\ s[i] \in Int
<1>1. PICK n, f : n = Len(s) /\ f = Flipped(axis, s)
  OBVIOUS
<1>2. n \in Nat /\ s \in [1..n -> Int] /\ DOMAIN s = 1..n
  BY <1>1, LenProperties
<1>3. f = [i \in 1..n |-> axis - s[i]]
  BY <1>1, <1>2 DEF Flipped
<1>4. f \in [1..n -> Int]
  BY <1>2, <1>3
<1>5. f \in Seq(Int) /\ Len(f) = n
  BY <1>2, <1>4, SeqDef, LenProperties
<1> QED
  BY <1>1, <1>2, <1>3, <1>5

\* ema_series of the history turned upside down is the series turned upside
\* down.
LEMMA EmaFlipped ==
    ASSUME NEW axis \in Int, NEW s \in Seq(Int), Len(s) > 0, NEW p \in Nat, NEW i \in 1..Len(s)
    PROVE  /\ EmaSeries(Flipped(axis, s), p)[i] = axis * Power(p + 1, i - 1) - EmaSeries(s, p)[i]
           /\ EmaSeries(s, p)[i] \in Int
           /\ Power(p + 1, i - 1) \in Int
<1>1. PICK n, f, e, d : /\ n = Len(s) /\ f = Flipped(axis, s)
                        /\ e = EmaSeries(s, p) /\ d = EmaSeries(f, p)
  OBVIOUS
<1>2. n \in Nat \ {0} /\ n - 1 \in Nat /\ p + 1 \in Int
  BY <1>1, LenProperties
<1>3. f \in Seq(Int) /\ Len(f) = n /\ \A j \in 1..n : f[j] = axis - s[j] /\ s[j] \in Int
  BY <1>1, FlippedFacts
<1>4. IsEma(s, p, e)
  BY <1>1, EmaSolved
<1>5. IsEma(f, p, d)
  BY <1>1, <1>2, <1>3, EmaSolved
<1>6. e \in [1..n -> Int] /\ e[1] = s[1] /\ \A j \in 2..n : e[j] = EmaAt(s, p, j, e[j - 1])
  BY <1>1, <1>4 DEF IsEma
<1>7. d \in [1..n -> Int] /\ d[1] = f[1] /\ \A j \in 2..n : d[j] = EmaAt(f, p, j, d[j - 1])
  BY <1>3, <1>5 DEF IsEma
<1>8. PICK P : P = {j \in 0..(n - 1) : d[j + 1] = axis * Power(p + 1, j) - e[j + 1]}
  OBVIOUS
<1>9. 0 \in P
  <2>1. Power(p + 1, 0) = 1
    BY <1>2, PowerFacts
  <2>2. 1 \in 1..n
    BY <1>2
  <2>3. d[1] = axis * Power(p + 1, 0) - e[1]
    BY <1>3, <1>6, <1>7, <2>1, <2>2
  <2> QED
    BY <1>2, <1>8, <2>3
<1>10. ASSUME NEW j \in 1..(n - 1), j - 1 \in P PROVE j \in P
  <2>1. PICK k, m, a, b, x, y : /\ k = j + 1 /\ m = j - 1 /\ a = e[j] /\ b = d[j]
                                /\ x = s[k] /\ y = Power(p + 1, m)
    OBVIOUS
  <2>2. k \in 2..n /\ k \in 1..n /\ j \in 1..n /\ m \in Nat /\ k - 1 = j /\ k - 2 = m /\ m + 1 = j /\ j \in 0..(n - 1)
    BY <1>2, <2>1
  <2>3. d[j] = axis * Power(p + 1, m) - e[j]
    BY <1>8, <1>10, <2>1, <2>2
  <2>4. y \in Int /\ Power(p + 1, j) = (p + 1) * y
    BY <1>2, <2>1, <2>2, PowerFacts
  <2>5. a \in Int /\ x \in Int /\ b = axis * y - a /\ f[k] = axis - x
    BY <1>3, <1>6, <2>1, <2>2, <2>3
  <2>6. e[k] = 2 * y * x + (p - 1) * a
    BY <1>6, <2>1, <2>2 DEF EmaAt
  <2>7. d[k] = 2 * y * (axis - x) + (p - 1) * b
    BY <1>7, <2>1, <2>2, <2>5 DEF EmaAt
  <2>8. 2 * y * (axis - x) + (p - 1) * b = axis * ((p + 1) * y) - (2 * y * x + (p - 1) * a)
    BY <2>4, <2>5
  <2>9. d[k] = axis * Power(p + 1, j) - e[k]
    BY <2>4, <2>6, <2>7, <2>8
  <2> QED
    BY <1>8, <2>1, <2>2, <2>9
<1>11. \A j \in 0..(n - 1) : j \in P
  BY <1>2, <1>9, <1>10, InductionTo
<1>12. i - 1 \in 0..(n - 1) /\ (i - 1) + 1 = i /\ i - 1 \in Nat /\ i \in 1..n
  BY <1>1, <1>2
<1>13. d[i] = axis * Power(p + 1, i - 1) - e[i]
  BY <1>8, <1>11, <1>12
<1>14. Power(p + 1, i - 1) \in Int
  BY <1>2, <1>12, PowerFacts
<1> QED
  BY <1>1, <1>6, <1>12, <1>13, <1>14

\* The gap between two exponential averages is as wide on the other side.
LEMMA EmaGapFlipped ==
    ASSUME NEW axis \in Int, NEW s \in Seq(Int), Len(s) > 0, NEW fast \in Nat, NEW slow \in Nat
    PROVE  /\ EmaGap(Flipped(axis, s), fast, slow) = -EmaGap(s, fast, slow)
           /\ EmaGap(s, fast, slow) \in Int
<1>1. PICK n, f : n = Len(s) /\ f = Flipped(axis, s)
  OBVIOUS
<1>2. n \in 1..Len(s) /\ Len(f) = n
  BY <1>1, LenProperties, FlippedFacts
<1>3. PICK a, b, q, r, c, d :
         /\ a = EmaSeries(s, fast)[n] /\ b = EmaSeries(s, slow)[n]
         /\ c = EmaSeries(f, fast)[n] /\ d = EmaSeries(f, slow)[n]
         /\ q = Power(fast + 1, n - 1) /\ r = Power(slow + 1, n - 1)
  OBVIOUS
<1>4. c = axis * q - a /\ a \in Int /\ q \in Int
  BY <1>1, <1>2, <1>3, EmaFlipped
<1>5. d = axis * r - b /\ b \in Int /\ r \in Int
  BY <1>1, <1>2, <1>3, EmaFlipped
<1>6. EmaGap(s, fast, slow) = a * r - b * q
  BY <1>1, <1>3, Zenon DEF EmaGap
<1>7. EmaGap(f, fast, slow) = c * r - d * q
  BY <1>2, <1>3, Zenon DEF EmaGap
<1>8. c * r - d * q = -(a * r - b * q)
  BY <1>4, <1>5
<1> QED
  BY <1>1, <1>4, <1>5, <1>6, <1>7, <1>8

\* The last values of the history turned upside down are the last values
\* turned upside down.
LEMMA WindowFlipped ==
    ASSUME NEW axis \in Int, NEW s \in Seq(Int), NEW p \in Nat, p <= Len(s)
    PROVE  /\ Window_(s, p) \in [1..p -> Int]
           /\ Window_(Flipped(axis, s), p) \in [1..p -> Int]
           /\ \A i \in 1..p : Window_(Flipped(axis, s), p)[i] = axis - Window_(s, p)[i]
<1>1. PICK n, f, w, v : /\ n = Len(s) /\ f = Flipped(axis, s)
                        /\ w = Window_(s, p) /\ v = Window_(f, p)
  OBVIOUS
<1>2. n \in Nat /\ f \in Seq(Int) /\ Len(f) = n /\ \A i \in 1..n : f[i] = axis - s[i] /\ s[i] \in Int
  BY <1>1, LenProperties, FlippedFacts
<1>3. w = [i \in 1..p |-> s[n - p + i]]
  <2>1. (n - p + 1)..n \subseteq 1..n
    BY <1>1, <1>2
  <2>2. n - (n - p + 1) + 1 = p
    BY <1>2
  <2> QED
    BY <1>1, <1>2, <2>1, <2>2 DEF Window_
<1>4. v = [i \in 1..p |-> f[n - p + i]]
  BY <1>1, <1>2 DEF Window_
<1>5. \A i \in 1..p : n - p + i \in 1..n
  BY <1>1, <1>2
<1>6. \A i \in 1..p : v[i] = axis - w[i] /\ w[i] \in Int /\ v[i] \in Int
  <2> SUFFICES ASSUME NEW i \in 1..p PROVE v[i] = axis - w[i] /\ w[i] \in Int /\ v[i] \in Int
    OBVIOUS
  <2>1. PICK j : j = n - p + i
    OBVIOUS
  <2>2. j \in 1..n
    BY <1>5, <2>1
  <2>3. w[i] = s[j] /\ v[i] = f[j]
    BY <1>3, <1>4, <2>1
  <2> QED
    BY <1>2, <2>2, <2>3
<1> QED
  BY <1>1, <1>3, <1>4, <1>6

\* sma of the history turned upside down, multiplied out.
LEMMA WindowSumFlipped ==
    ASSUME NEW axis \in Int, NEW s \in Seq(Int), NEW p \in Nat, p <= Len(s)
    PROVE  /\ WindowSum(s, p) \in Int
           /\ WindowSum(Flipped(axis, s), p) = p * axis - WindowSum(s, p)
<1>1. PICK w, v : w = Window_(s, p) /\ v = Window_(Flipped(axis, s), p)
  OBVIOUS
<1>2. w \in [1..p -> Int] /\ v \in [1..p -> Int] /\ \A i \in 1..p : v[i] = axis - w[i]
  BY <1>1, WindowFlipped
<1>3. PICK m, c : m = -1 /\ c = 0
  OBVIOUS
<1>4. m \in Int /\ c \in Int /\ IsLinear(v, w, w, axis, m, c, p)
  BY <1>2, <1>3 DEF IsLinear
<1>6. IsLinearSum(v, w, w, axis, m, c, p)
  BY <1>2, <1>4, SumLinear, Zenon
<1>5. WindowSum(s, p) = SumFunction(w) /\ WindowSum(Flipped(axis, s), p) = SumFunction(v)
  BY <1>1 DEF WindowSum
<1> QED
  BY <1>3, <1>5, <1>6 DEF IsLinearSum

\* The gap between two plain averages is as wide on the other side.
LEMMA SmaGapFlipped ==
    ASSUME NEW axis \in Int, NEW s \in Seq(Int), NEW fast \in Nat, NEW slow \in Nat,
           fast <= Len(s), slow <= Len(s)
    PROVE  /\ SmaGap(Flipped(axis, s), fast, slow) = -SmaGap(s, fast, slow)
           /\ SmaGap(s, fast, slow) \in Int
<1>1. PICK a, b, c, d :
         /\ a = WindowSum(s, fast) /\ b = WindowSum(s, slow)
         /\ c = WindowSum(Flipped(axis, s), fast) /\ d = WindowSum(Flipped(axis, s), slow)
  OBVIOUS
<1>2. a \in Int /\ c = fast * axis - a
  BY <1>1, WindowSumFlipped
<1>3. b \in Int /\ d = slow * axis - b
  BY <1>1, WindowSumFlipped
<1>4. SmaGap(s, fast, slow) = a * slow - b * fast
  BY <1>1, Zenon DEF SmaGap
<1>5. SmaGap(Flipped(axis, s), fast, slow) = c * slow - d * fast
  BY <1>1, Zenon DEF SmaGap
<1>6. c * slow - d * fast = -(a * slow - b * fast)
  BY <1>2, <1>3
<1> QED
  BY <1>2, <1>3, <1>4, <1>5, <1>6

\* The squares bollinger_bands sums up.
Squares(s, p) == [i \in 1..p |-> Window_(s, p)[i] * Window_(s, p)[i]]
Outside(p, num, den, away, squares, sum) ==
    away >= 0 /\ (den * away) * (den * away) >= (num * num) * (p * squares - sum * sum)

\* A price as far above the middle band as it was below is beyond the other
\* band: the deviations are the same.
LEMMA BandFlipped ==
    ASSUME NEW axis \in Int, NEW s \in Seq(Int), NEW p \in Nat \ {0}, p <= Len(s),
           NEW num \in Int, NEW den \in Int, NEW side \in Int, NEW other, other = -side
    PROVE  BeyondBand(Flipped(axis, s), p, num, den, other) <=> BeyondBand(s, p, num, den, side)
<1>1. PICK f, w, v, q, r : /\ f = Flipped(axis, s) /\ w = Window_(s, p) /\ v = Window_(f, p)
                           /\ q = Squares(s, p) /\ r = Squares(f, p)
  OBVIOUS
<1>2. w \in [1..p -> Int] /\ v \in [1..p -> Int] /\ \A i \in 1..p : v[i] = axis - w[i]
  BY <1>1, WindowFlipped
<1>3. q = [i \in 1..p |-> w[i] * w[i]] /\ r = [i \in 1..p |-> v[i] * v[i]]
  BY <1>1, Zenon DEF Squares
<1>4. q \in [1..p -> Int] /\ r \in [1..p -> Int]
  <2>1. \A i \in 1..p : w[i] \in Int /\ v[i] \in Int
    BY <1>2
  <2>2. \A i \in 1..p : w[i] * w[i] \in Int /\ v[i] * v[i] \in Int
    BY <2>1
  <2> QED
    BY <1>3, <2>2
<1>5. PICK k, m, c : k = axis * axis /\ m = -(2 * axis) /\ c = 1
  OBVIOUS
<1>6. k \in Int /\ m \in Int /\ c \in Int /\ p \in Nat
  BY <1>5
<1>7. IsLinear(r, w, q, k, m, c, p)
  <2> SUFFICES ASSUME NEW i \in 1..p PROVE r[i] = k + m * w[i] + c * q[i]
    BY DEF IsLinear
  <2>1. PICK x : x = w[i]
    OBVIOUS
  <2>2. x \in Int /\ v[i] = axis - x /\ q[i] = x * x /\ r[i] = v[i] * v[i]
    BY <1>2, <1>3, <2>1
  <2>3. (axis - x) * (axis - x) = axis * axis + (-(2 * axis)) * x + 1 * (x * x)
    BY <2>2
  <2> QED
    BY <1>5, <2>1, <2>2, <2>3
<1>8. IsLinearSum(r, w, q, k, m, c, p)
  BY <1>2, <1>4, <1>6, <1>7, SumLinear, Zenon
<1>9. PICK W, V, Q, R : /\ W = SumFunction(w) /\ V = WindowSum(f, p)
                        /\ Q = SumFunction(q) /\ R = SumFunction(r)
  OBVIOUS
<1>10. W \in Int /\ Q \in Int /\ R = p * k + m * W + c * Q
  BY <1>8, <1>9 DEF IsLinearSum
<1>11. W = WindowSum(s, p) /\ V = p * axis - W
  <2>1. W = WindowSum(s, p)
    BY <1>1, <1>9, Zenon DEF WindowSum
  <2> QED
    BY <1>1, <1>6, <1>9, <2>1, WindowSumFlipped
<1>12. R = p * (axis * axis) - 2 * (axis * W) + Q
  BY <1>5, <1>6, <1>10
<1>13. p * R - V * V = p * Q - W * W
  <2>1. PICK a : a = p * axis
    OBVIOUS
  <2>2. a \in Int /\ V = a - W
    BY <1>6, <1>11, <2>1
  <2>3. V * V = a * a - 2 * (a * W) + W * W
    BY <1>10, <2>2
  <2>4. p * (p * (axis * axis)) = a * a /\ p * (axis * W) = a * W
    BY <1>6, <1>10, <2>1
  <2>5. PICK b, d : b = axis * axis /\ d = axis * W
    OBVIOUS
  <2>6. b \in Int /\ d \in Int /\ R = p * b - 2 * d + Q
    <3>1. b \in Int /\ d \in Int
      BY <1>10, <2>5
    <3> QED
      BY <1>12, <2>5, <3>1, Zenon
  <2>7. p * R = p * (p * b) - 2 * (p * d) + p * Q
    BY <1>6, <1>10, <2>6
  <2>8. p * R = a * a - 2 * (a * W) + p * Q
    BY <2>4, <2>5, <2>7
  <2> QED
    BY <1>6, <1>10, <2>2, <2>3, <2>8
<1>14. PICK x, y : x = Last(s) /\ y = Last(f)
  OBVIOUS
<1>15. x \in Int /\ y = axis - x
  <2>1. Len(s) \in 1..Len(s) /\ Len(f) = Len(s)
    BY <1>1, FlippedFacts, LenProperties
  <2>2. x = s[Len(s)] /\ y = f[Len(s)]
    BY <1>14, <2>1 DEF Last
  <2> QED
    BY <1>1, <2>1, <2>2, FlippedFacts
<1>16. other * (p * y - V) = side * (p * x - W)
  <2>1. p * y - V = -(p * x - W)
    BY <1>6, <1>10, <1>11, <1>15
  <2> QED
    BY <1>6, <1>10, <1>15, <2>1
<1>17. BeyondBand(s, p, num, den, side) <=> Outside(p, num, den, side * (p * x - W), Q, W)
  BY <1>1, <1>9, <1>11, <1>14, Zenon DEF BeyondBand, Outside, Squares
<1>18. BeyondBand(f, p, num, den, other) <=> Outside(p, num, den, other * (p * y - V), R, V)
  BY <1>1, <1>9, <1>14, Zenon DEF BeyondBand, Outside, Squares
<1>19. Outside(p, num, den, side * (p * x - W), Q, W) <=> Outside(p, num, den, other * (p * y - V), R, V)
  BY <1>13, <1>16 DEF Outside
<1> QED
  BY <1>1, <1>17, <1>18, <1>19

\* The opposite gaps cross to the opposite side.
LEMMA CrossingMirrored ==
    ASSUME NEW before \in Int, NEW now \in Int, NEW b, NEW n, b = -before, n = -now
    PROVE  /\ Crossing(b, n) = Mirrored(Crossing(before, now))
           /\ Crossing(before, now) \in {"buy", "sell", "hold"}
<1>1. Crossing(before, now) = IF before <= 0 /\ now > 0 THEN "buy"
                              ELSE IF before >= 0 /\ now < 0 THEN "sell" ELSE "hold"
  BY DEF Crossing
<1>2. Crossing(b, n) = IF b <= 0 /\ n > 0 THEN "buy"
                       ELSE IF b >= 0 /\ n < 0 THEN "sell" ELSE "hold"
  BY DEF Crossing
<1>3. Mirrored("buy") = "sell" /\ Mirrored("sell") = "buy" /\ Mirrored("hold") = "hold"
  BY DEF Mirrored
<1>4. CASE before <= 0 /\ now > 0
  BY <1>1, <1>2, <1>3, <1>4
<1>5. CASE before >= 0 /\ now < 0
  BY <1>1, <1>2, <1>3, <1>5
<1>6. CASE ~(before <= 0 /\ now > 0) /\ ~(before >= 0 /\ now < 0)
  BY <1>1, <1>2, <1>3, <1>6
<1> QED
  BY <1>4, <1>5, <1>6

\* The history but for its last price, turned upside down.
LEMMA FrontFlipped ==
    ASSUME NEW axis \in Int, NEW s \in Seq(Int), Len(s) > 0
    PROVE  /\ Front(s) \in Seq(Int)
           /\ Len(Front(s)) = Len(s) - 1
           /\ Front(Flipped(axis, s)) = Flipped(axis, Front(s))
<1>1. PICK n, f, t, u : n = Len(s) /\ f = Flipped(axis, s) /\ t = Front(s) /\ u = Front(f)
  OBVIOUS
<1>2. /\ n \in Nat \ {0} /\ f \in Seq(Int) /\ Len(f) = n
      /\ \A i \in 1..n : f[i] = axis - s[i] /\ s[i] \in Int
  BY <1>1, FlippedFacts, LenProperties
<1>3. t = [i \in 1..(n - 1) |-> s[i]]
  BY <1>1, <1>2 DEF Front
<1>4. u = [i \in 1..(n - 1) |-> f[i]]
  BY <1>1, <1>2 DEF Front
<1>5. n - 1 \in Nat /\ \A i \in 1..(n - 1) : i \in 1..n
  BY <1>2
<1>6. t \in [1..(n - 1) -> Int]
  BY <1>2, <1>3, <1>5
<1>7. t \in Seq(Int) /\ Len(t) = n - 1
  BY <1>5, <1>6, SeqDef, LenProperties
<1>8. Flipped(axis, t) = [i \in 1..(n - 1) |-> axis - t[i]]
  BY <1>6 DEF Flipped
<1>9. \A i \in 1..(n - 1) : f[i] = axis - t[i]
  BY <1>2, <1>3, <1>5
<1>10. u = Flipped(axis, t)
  BY <1>4, <1>8, <1>9
<1> QED
  BY <1>1, <1>7, <1>10

\* The line of macd at an index, over the denominator of the whole history.
LineAt(s, fast, slow, i) ==
    EmaSeries(s, fast)[i] * Power(fast + 1, Len(s) - i) * Power(slow + 1, Len(s) - 1)
      - EmaSeries(s, slow)[i] * Power(slow + 1, Len(s) - i) * Power(fast + 1, Len(s) - 1)

\* The line of macd is as far on the other side.
LEMMA LineAtFlipped ==
    ASSUME NEW axis \in Int, NEW s \in Seq(Int), NEW fast \in Nat, NEW slow \in Nat, NEW i \in 1..Len(s)
    PROVE  /\ LineAt(Flipped(axis, s), fast, slow, i) = -LineAt(s, fast, slow, i)
           /\ LineAt(s, fast, slow, i) \in Int
<1>1. PICK n, f : n = Len(s) /\ f = Flipped(axis, s)
  OBVIOUS
<1>2. n \in Nat \ {0} /\ i \in 1..n /\ Len(f) = n /\ Len(s) > 0
  BY <1>1, LenProperties, FlippedFacts
<1>3. i - 1 \in Nat /\ n - i \in Nat /\ (i - 1) + (n - i) = n - 1 /\ n - 1 \in Nat /\ fast + 1 \in Int /\ slow + 1 \in Int
  BY <1>2
<1>4. PICK a, b, c, d :
         /\ a = EmaSeries(s, fast)[i] /\ b = EmaSeries(s, slow)[i]
         /\ c = EmaSeries(f, fast)[i] /\ d = EmaSeries(f, slow)[i]
  OBVIOUS
<1>5. PICK q, r, x, y, u, v :
         /\ q = Power(fast + 1, i - 1) /\ x = Power(fast + 1, n - i) /\ u = Power(fast + 1, n - 1)
         /\ r = Power(slow + 1, i - 1) /\ y = Power(slow + 1, n - i) /\ v = Power(slow + 1, n - 1)
  OBVIOUS
<1>6. c = axis * q - a /\ a \in Int /\ q \in Int
  BY <1>1, <1>2, <1>4, <1>5, EmaFlipped
<1>7. d = axis * r - b /\ b \in Int /\ r \in Int
  BY <1>1, <1>2, <1>4, <1>5, EmaFlipped
<1>8. x \in Int /\ y \in Int /\ u \in Int /\ v \in Int
  BY <1>3, <1>5, PowerFacts
<1>9. q * x = u /\ r * y = v
  <2>1. Power(fast + 1, i - 1) * Power(fast + 1, n - i) = Power(fast + 1, (i - 1) + (n - i))
    BY <1>3, PowerAdd
  <2>2. Power(slow + 1, i - 1) * Power(slow + 1, n - i) = Power(slow + 1, (i - 1) + (n - i))
    BY <1>3, PowerAdd
  <2> QED
    BY <1>3, <1>5, <2>1, <2>2
<1>10. LineAt(s, fast, slow, i) = a * x * v - b * y * u
  BY <1>1, <1>4, <1>5, Zenon DEF LineAt
<1>11. LineAt(f, fast, slow, i) = c * x * v - d * y * u
  BY <1>2, <1>4, <1>5, Zenon DEF LineAt
<1>12. c * x * v - d * y * u = -(a * x * v - b * y * u)
  <2>1. c * x = axis * u - a * x
    BY <1>6, <1>8, <1>9
  <2>2. d * y = axis * v - b * y
    BY <1>7, <1>8, <1>9
  <2>3. PICK g, h : g = a * x /\ h = b * y
    OBVIOUS
  <2>4. g \in Int /\ h \in Int
    BY <1>6, <1>7, <1>8, <2>3
  <2>5. (axis * u - g) * v - (axis * v - h) * u = -(g * v - h * u)
    BY <1>8, <2>4
  <2> QED
    BY <2>1, <2>2, <2>3, <2>5
<1>13. a * x * v - b * y * u \in Int
  BY <1>6, <1>7, <1>8
<1> QED
  BY <1>1, <1>10, <1>11, <1>12, <1>13

\* So is the whole line.
LEMMA MacdLineFlipped ==
    ASSUME NEW axis \in Int, NEW s \in Seq(Int), NEW fast \in Nat, NEW slow \in Nat \ {0}, slow <= Len(s)
    PROVE  /\ MacdLine(s, fast, slow) \in Seq(Int)
           /\ Len(MacdLine(s, fast, slow)) = Len(s) - slow + 1
           /\ MacdLine(Flipped(axis, s), fast, slow) = Flipped(0, MacdLine(s, fast, slow))
<1>1. PICK n, f, m, k, l : /\ n = Len(s) /\ f = Flipped(axis, s) /\ m = n - slow + 1
                           /\ k = MacdLine(s, fast, slow) /\ l = MacdLine(f, fast, slow)
  OBVIOUS
<1>2. n \in Nat /\ Len(f) = n /\ m \in Nat
  BY <1>1, LenProperties, FlippedFacts
<1>3. k = [i \in 1..m |-> LineAt(s, fast, slow, slow + i - 1)]
  BY <1>1, Zenon DEF MacdLine, LineAt
<1>4. l = [i \in 1..m |-> LineAt(f, fast, slow, slow + i - 1)]
  BY <1>1, <1>2, Zenon DEF MacdLine, LineAt
<1>5. \A i \in 1..m : /\ LineAt(s, fast, slow, slow + i - 1) \in Int
                      /\ LineAt(f, fast, slow, slow + i - 1) = -LineAt(s, fast, slow, slow + i - 1)
  <2> SUFFICES ASSUME NEW i \in 1..m
               PROVE  /\ LineAt(s, fast, slow, slow + i - 1) \in Int
                      /\ LineAt(f, fast, slow, slow + i - 1) = -LineAt(s, fast, slow, slow + i - 1)
    OBVIOUS
  <2>1. slow + i - 1 \in 1..Len(s)
    BY <1>1, <1>2
  <2> QED
    BY <1>1, <2>1, LineAtFlipped
<1>6. k \in [1..m -> Int]
  BY <1>3, <1>5
<1>7. k \in Seq(Int) /\ Len(k) = m
  BY <1>2, <1>6, SeqDef, LenProperties
<1>8. Flipped(0, k) = [i \in 1..m |-> 0 - k[i]]
  BY <1>6 DEF Flipped
<1>9. \A i \in 1..m : l[i] = 0 - k[i]
  BY <1>3, <1>4, <1>5
<1>10. l = Flipped(0, k)
  BY <1>4, <1>8, <1>9
<1> QED
  BY <1>1, <1>7, <1>10

\* What macd compares a line with its signal line by.
AboveSignal(line, signal) == Last(line) * Power(signal + 1, Len(line) - 1) - Last(EmaSeries(line, signal))

\* The line and its signal line change sides together.
LEMMA MacdGapFlipped ==
    ASSUME NEW axis \in Int, NEW s \in Seq(Int), NEW fast \in Nat, NEW slow \in Nat \ {0}, slow <= Len(s),
           NEW signal \in Nat
    PROVE  /\ MacdGap(Flipped(axis, s), fast, slow, signal) = -MacdGap(s, fast, slow, signal)
           /\ MacdGap(s, fast, slow, signal) \in Int
<1>1. PICK k, l, n : /\ k = MacdLine(s, fast, slow) /\ l = MacdLine(Flipped(axis, s), fast, slow)
                     /\ n = Len(k)
  OBVIOUS
<1>2. k \in Seq(Int) /\ l = Flipped(0, k) /\ n \in 1..n
  <2>1. Len(s) \in Nat
    BY LenProperties
  <2> QED
    BY <1>1, <2>1, MacdLineFlipped
<1>3. l \in Seq(Int) /\ Len(l) = n /\ l[n] = 0 - k[n] /\ k[n] \in Int
  BY <1>1, <1>2, FlippedFacts
<1>4. /\ EmaSeries(l, signal)[n] = 0 * Power(signal + 1, n - 1) - EmaSeries(k, signal)[n]
      /\ EmaSeries(k, signal)[n] \in Int
      /\ Power(signal + 1, n - 1) \in Int
  <2>1. PICK zero : zero = 0
    OBVIOUS
  <2>2. zero \in Int /\ Len(k) > 0 /\ n \in 1..Len(k) /\ l = Flipped(zero, k)
    BY <1>1, <1>2, <2>1, LenProperties
  <2>3. /\ EmaSeries(Flipped(zero, k), signal)[n] = zero * Power(signal + 1, n - 1) - EmaSeries(k, signal)[n]
        /\ EmaSeries(k, signal)[n] \in Int
        /\ Power(signal + 1, n - 1) \in Int
    BY <1>2, <2>2, EmaFlipped
  <2> QED
    BY <2>1, <2>2, <2>3
<1>5. Len(EmaSeries(k, signal)) = n /\ Len(EmaSeries(l, signal)) = n
  <2>1. IsEma(k, signal, EmaSeries(k, signal)) /\ IsEma(l, signal, EmaSeries(l, signal))
    <3>1. Len(k) > 0 /\ Len(l) > 0
      BY <1>1, <1>2, <1>3, LenProperties
    <3> QED
      BY <1>2, <1>3, <3>1, EmaSolved
  <2>2. EmaSeries(k, signal) \in [1..n -> Int] /\ EmaSeries(l, signal) \in [1..n -> Int]
    BY <1>1, <1>3, <2>1 DEF IsEma
  <2> QED
    BY <1>2, <2>2, SeqDef, LenProperties
<1>6. PICK a, b, c, d, q : /\ a = k[n] /\ b = EmaSeries(k, signal)[n] /\ c = l[n]
                           /\ d = EmaSeries(l, signal)[n] /\ q = Power(signal + 1, n - 1)
  OBVIOUS
<1>7. AboveSignal(k, signal) = a * q - b
  BY <1>1, <1>5, <1>6, Zenon DEF AboveSignal, Last
<1>8. AboveSignal(l, signal) = c * q - d
  BY <1>3, <1>5, <1>6, Zenon DEF AboveSignal, Last
<1>9. a \in Int /\ b \in Int /\ q \in Int /\ c = 0 - a /\ d = 0 * q - b
  BY <1>3, <1>4, <1>6
<1>10. c * q - d = -(a * q - b) /\ a * q - b \in Int
  BY <1>9
<1>11. /\ MacdGap(s, fast, slow, signal) = AboveSignal(k, signal)
       /\ MacdGap(Flipped(axis, s), fast, slow, signal) = AboveSignal(l, signal)
  BY <1>1, Zenon DEF MacdGap, AboveSignal
<1> QED
  BY <1>7, <1>8, <1>10, <1>11

\* The signals a strategy gives.
Signals == {"buy", "sell", "hold"}

\* _ema_cross answers the history turned upside down with the opposite signal.
LEMMA EmaCrossMirrored ==
    ASSUME NEW axis \in Int, NEW s \in Seq(Int), Len(s) > 0, NEW fast \in Nat \ {0}, NEW slow \in Nat \ {0}
    PROVE  /\ EmaCross(Flipped(axis, s), fast, slow) = Mirrored(EmaCross(s, fast, slow))
           /\ EmaCross(s, fast, slow) \in Signals
<1>1. PICK f : f = Flipped(axis, s)
  OBVIOUS
<1>2. Len(s) \in Nat /\ Len(f) = Len(s)
  BY <1>1, FlippedFacts, LenProperties
<1>3. CASE Len(s) - 1 < fast \/ Len(s) - 1 < slow
  <2>1. EmaCross(s, fast, slow) = "hold" /\ EmaCross(f, fast, slow) = "hold"
    BY <1>2, <1>3, Zenon DEF EmaCross
  <2> QED
    BY <1>1, <2>1 DEF Mirrored, Signals
<1>4. CASE ~(Len(s) - 1 < fast \/ Len(s) - 1 < slow)
  <2>1. PICK t, b, n, c, d : /\ t = Front(s) /\ b = EmaGap(t, fast, slow) /\ n = EmaGap(s, fast, slow)
                             /\ c = EmaGap(Front(f), fast, slow) /\ d = EmaGap(f, fast, slow)
    OBVIOUS
  <2>2. t \in Seq(Int) /\ Len(t) > 0 /\ Front(f) = Flipped(axis, t)
    BY <1>1, <1>2, <1>4, <2>1, FrontFlipped
  <2>3. b \in Int /\ c = -b
    BY <2>1, <2>2, EmaGapFlipped
  <2>4. n \in Int /\ d = -n
    BY <1>1, <2>1, EmaGapFlipped
  <2>5. Crossing(c, d) = Mirrored(Crossing(b, n)) /\ Crossing(b, n) \in Signals
    BY <2>3, <2>4, CrossingMirrored DEF Signals
  <2>6. EmaCross(s, fast, slow) = Crossing(b, n) /\ EmaCross(f, fast, slow) = Crossing(c, d)
    BY <1>2, <1>4, <2>1, Zenon DEF EmaCross
  <2> QED
    BY <1>1, <2>5, <2>6
<1> QED
  BY <1>3, <1>4

\* So does _sma_cross.
LEMMA SmaCrossMirrored ==
    ASSUME NEW axis \in Int, NEW s \in Seq(Int), Len(s) > 0, NEW c, c.fast \in Nat \ {0}, c.slow \in Nat \ {0}
    PROVE  SmaCross(Flipped(axis, s), c) = Mirrored(SmaCross(s, c))
<1>1. PICK f, fast, slow : f = Flipped(axis, s) /\ fast = c.fast /\ slow = c.slow
  OBVIOUS
<1>2. Len(s) \in Nat /\ Len(f) = Len(s) /\ fast \in Nat \ {0} /\ slow \in Nat \ {0}
  BY <1>1, FlippedFacts, LenProperties
<1>3. CASE Len(s) - 1 < fast \/ Len(s) - 1 < slow
  <2>1. SmaCross(s, c) = "hold" /\ SmaCross(f, c) = "hold"
    BY <1>1, <1>2, <1>3, Zenon DEF SmaCross
  <2> QED
    BY <1>1, <2>1 DEF Mirrored
<1>4. CASE ~(Len(s) - 1 < fast \/ Len(s) - 1 < slow)
  <2>1. PICK t, b, n, d, e : /\ t = Front(s) /\ b = SmaGap(t, fast, slow) /\ n = SmaGap(s, fast, slow)
                             /\ d = SmaGap(Front(f), fast, slow) /\ e = SmaGap(f, fast, slow)
    OBVIOUS
  <2>2. t \in Seq(Int) /\ fast <= Len(t) /\ slow <= Len(t) /\ Front(f) = Flipped(axis, t)
    BY <1>1, <1>2, <1>4, <2>1, FrontFlipped
  <2>3. b \in Int /\ d = -b
    BY <1>2, <2>1, <2>2, SmaGapFlipped
  <2>4. n \in Int /\ e = -n
    <3>1. fast <= Len(s) /\ slow <= Len(s)
      BY <1>2, <1>4
    <3> QED
      BY <1>1, <1>2, <2>1, <3>1, SmaGapFlipped
  <2>5. Crossing(d, e) = Mirrored(Crossing(b, n))
    BY <2>3, <2>4, CrossingMirrored
  <2>6. SmaCross(s, c) = Crossing(b, n) /\ SmaCross(f, c) = Crossing(d, e)
    BY <1>1, <1>2, <1>4, <2>1, Zenon DEF SmaCross
  <2> QED
    BY <1>1, <2>5, <2>6
<1> QED
  BY <1>3, <1>4

\* So does _macd_cross.
LEMMA MacdCrossMirrored ==
    ASSUME NEW axis \in Int, NEW s \in Seq(Int), Len(s) > 0,
           NEW c, c.fast \in Nat \ {0}, c.slow \in Nat \ {0}, c.signal \in Nat \ {0}
    PROVE  MacdCross(Flipped(axis, s), c) = Mirrored(MacdCross(s, c))
<1>1. PICK f, t, u, fast, slow, signal : /\ f = Flipped(axis, s) /\ t = Front(s) /\ u = Front(f)
                                         /\ fast = c.fast /\ slow = c.slow /\ signal = c.signal
  OBVIOUS
<1>2. /\ Len(s) \in Nat /\ Len(f) = Len(s)
      /\ fast \in Nat \ {0} /\ slow \in Nat \ {0} /\ signal \in Nat \ {0}
  BY <1>1, FlippedFacts, LenProperties
<1>3. t \in Seq(Int) /\ Len(t) = Len(s) - 1 /\ u = Flipped(axis, t)
  BY <1>1, FrontFlipped
<1>4. Len(u) = Len(t)
  BY <1>3, FlippedFacts
<1>5. MacdDefined(t, c) <=> MacdDefined(u, c)
  BY <1>4, Zenon DEF MacdDefined
<1>6. CASE ~MacdDefined(t, c)
  <2>1. MacdCross(s, c) = "hold" /\ MacdCross(f, c) = "hold"
    BY <1>1, <1>5, <1>6, Zenon DEF MacdCross
  <2> QED
    BY <1>1, <2>1 DEF Mirrored
<1>7. CASE MacdDefined(t, c)
  <2>1. PICK b, n, d, e : /\ b = MacdGap(t, fast, slow, signal) /\ n = MacdGap(s, fast, slow, signal)
                          /\ d = MacdGap(u, fast, slow, signal) /\ e = MacdGap(f, fast, slow, signal)
    OBVIOUS
  <2>2. slow <= Len(t) /\ slow <= Len(s)
    <3>1. Len(t) >= slow + signal
      BY <1>1, <1>7 DEF MacdDefined
    <3>2. Len(t) \in Nat /\ slow \in Nat /\ signal \in Nat /\ Len(t) = Len(s) - 1 /\ Len(s) \in Nat
      BY <1>2, <1>3, LenProperties
    <3> QED
      BY <3>1, <3>2
  <2>3. b \in Int /\ d = -b
    <3>1. fast \in Nat /\ slow \in Nat \ {0} /\ signal \in Nat /\ slow <= Len(t)
      BY <1>2, <2>2
    <3>2. /\ MacdGap(Flipped(axis, t), fast, slow, signal) = -MacdGap(t, fast, slow, signal)
          /\ MacdGap(t, fast, slow, signal) \in Int
      BY <1>3, <3>1, MacdGapFlipped
    <3> QED
      BY <1>3, <2>1, <3>2
  <2>4. n \in Int /\ e = -n
    <3>1. fast \in Nat /\ slow \in Nat \ {0} /\ signal \in Nat /\ slow <= Len(s)
      BY <1>2, <2>2
    <3>2. /\ MacdGap(Flipped(axis, s), fast, slow, signal) = -MacdGap(s, fast, slow, signal)
          /\ MacdGap(s, fast, slow, signal) \in Int
      BY <3>1, MacdGapFlipped
    <3> QED
      BY <1>1, <2>1, <3>2
  <2>5. Crossing(d, e) = Mirrored(Crossing(b, n))
    BY <2>3, <2>4, CrossingMirrored
  <2>6. MacdCross(s, c) = Crossing(b, n) /\ MacdCross(f, c) = Crossing(d, e)
    BY <1>1, <1>5, <1>7, <2>1, Zenon DEF MacdCross
  <2> QED
    BY <1>1, <2>5, <2>6
<1> QED
  BY <1>6, <1>7

\* So does _scalp: the opposite crossing is confirmed by the opposite band.
LEMMA ScalpMirrored ==
    ASSUME NEW axis \in Int, NEW s \in Seq(Int), Len(s) > 0,
           NEW c, c.scalpFast \in Nat \ {0}, c.scalpSlow \in Nat \ {0}
    PROVE  Scalp(Flipped(axis, s), c) = Mirrored(Scalp(s, c))
<1>1. PICK f, x, y : /\ f = Flipped(axis, s) /\ x = EmaCross(s, c.scalpFast, c.scalpSlow)
                     /\ y = EmaCross(f, c.scalpFast, c.scalpSlow)
  OBVIOUS
<1>2. Len(s) \in Nat /\ Len(f) = Len(s) /\ BandPeriod \in Nat \ {0}
  BY <1>1, FlippedFacts, LenProperties, BandAssumption
<1>3. y = Mirrored(x) /\ x \in Signals
  BY <1>1, EmaCrossMirrored
<1>4. Mirrored("buy") = "sell" /\ Mirrored("sell") = "buy" /\ Mirrored("hold") = "hold"
  BY DEF Mirrored
<1>5. CASE Len(s) < BandPeriod
  <2>1. Scalp(s, c) = "hold" /\ Scalp(f, c) = "hold"
    BY <1>2, <1>5, Zenon DEF Scalp
  <2> QED
    BY <1>1, <1>4, <2>1
<1>6. CASE ~(Len(s) < BandPeriod)
  <2>1. PICK up, down, p : up = 1 /\ down = -1 /\ p = BandPeriod
    OBVIOUS
  <2>2. p \in Nat \ {0} /\ p <= Len(s) /\ up \in Int /\ down \in Int /\ up = -down /\ down = -up
    <3>1. p \in Nat \ {0} /\ p <= Len(s)
      BY <1>2, <1>6, <2>1
    <3>2. up \in Int /\ down \in Int
      BY <2>1
    <3>3. down = -up
      BY <2>1
    <3>4. up = -down
      BY <3>2, <3>3
    <3> QED
      BY <3>1, <3>2, <3>3, <3>4
  <2>3. /\ BeyondBand(f, p, 8, 5, down) <=> BeyondBand(s, p, 8, 5, up)
        /\ BeyondBand(f, p, 8, 5, up) <=> BeyondBand(s, p, 8, 5, down)
    <3>1. PICK num, den : num = 8 /\ den = 5
      OBVIOUS
    <3>2. num \in Int /\ den \in Int
      BY <3>1
    <3>3. BeyondBand(f, p, num, den, down) <=> BeyondBand(s, p, num, den, up)
      BY <1>1, <2>2, <3>2, BandFlipped
    <3>4. BeyondBand(f, p, num, den, up) <=> BeyondBand(s, p, num, den, down)
      BY <1>1, <2>2, <3>2, BandFlipped
    <3> QED
      BY <3>1, <3>3, <3>4
  <2>4. Scalp(s, c) = IF x # "hold" /\ BeyondBand(s, p, 8, 5, IF x = "buy" THEN up ELSE down)
                      THEN x ELSE "hold"
    BY <1>1, <1>6, <2>1, Zenon DEF Scalp
  <2>5. Scalp(f, c) = IF y # "hold" /\ BeyondBand(f, p, 8, 5, IF y = "buy" THEN up ELSE down)
                      THEN y ELSE "hold"
    BY <1>1, <1>2, <1>6, <2>1, Zenon DEF Scalp
  <2>6. CASE x = "buy"
    BY <1>1, <1>3, <1>4, <2>3, <2>4, <2>5, <2>6
  <2>7. CASE x = "sell"
    BY <1>1, <1>3, <1>4, <2>3, <2>4, <2>5, <2>7
  <2>8. CASE x = "hold"
    BY <1>1, <1>3, <1>4, <2>4, <2>5, <2>8
  <2> QED
    BY <1>3, <2>6, <2>7, <2>8 DEF Signals
<1> QED
  BY <1>5, <1>6

\* So does _llm_sentiment, if its thresholds are as far from 50% as each other.
LEMMA SentimentMirrored ==
    ASSUME NEW c, c.sentimentBuy \in 0..100, c.sentimentSell \in 0..100, EvenThresholds(c), NEW score \in 0..100
    PROVE  LlmSentiment(c, 100 - score) = Mirrored(LlmSentiment(c, score))
<1>1. PICK other, b, l : other = 100 - score /\ b = c.sentimentBuy /\ l = c.sentimentSell
  OBVIOUS
<1>2. other \in Int /\ other # NoScore /\ score # NoScore /\ b \in Int /\ l = 100 - b /\ b > l
  BY <1>1 DEF EvenThresholds, NoScore
<1>3. LlmSentiment(c, score) = IF score >= b THEN "buy" ELSE IF score <= l THEN "sell" ELSE "hold"
  BY <1>1, <1>2, Zenon DEF LlmSentiment
<1>4. LlmSentiment(c, other) = IF other >= b THEN "buy" ELSE IF other <= l THEN "sell" ELSE "hold"
  BY <1>1, <1>2, Zenon DEF LlmSentiment
<1>5. Mirrored("buy") = "sell" /\ Mirrored("sell") = "buy" /\ Mirrored("hold") = "hold"
  BY DEF Mirrored
<1>6. (other >= b <=> score <= l) /\ (other <= l <=> score >= b) /\ ~(score >= b /\ score <= l)
  BY <1>1, <1>2
<1> QED
  BY <1>1, <1>3, <1>4, <1>5, <1>6

\* The axis of a history is a number.
LEMMA AxisType ==
    ASSUME NEW closes \in Seq(Nat), Len(closes) > 0
    PROVE  Max(Range(closes)) + Min(Range(closes)) \in Int
<1>1. PICK S, n : S = Range(closes) /\ n = Len(closes)
  OBVIOUS
<1>2. n \in Nat \ {0} /\ DOMAIN closes = 1..n /\ closes \in [1..n -> Nat] /\ closes \in Seq(Int)
  BY <1>1, LenProperties
<1>3. S = {closes[i] : i \in 1..n}
  BY <1>1, <1>2 DEF Range
<1>4. Max(S) \in Int
  <2>1. n \in 1..Len(closes)
    BY <1>1, <1>2
  <2>2. PeakAt(closes, n) \in Int
    BY <1>2, <2>1, PeakType
  <2> QED
    BY <1>3, <2>2 DEF PeakAt
<1>5. Min(S) \in Int
  <2>1. S \subseteq Nat /\ S # {}
    <3>1. 1 \in 1..n
      BY <1>2
    <3> QED
      BY <1>2, <1>3, <3>1
  <2>2. \E x \in S : \A y \in S : x <= y
    BY <2>1, LeastNat
  <2>3. PICK m : m = Min(S)
    OBVIOUS
  <2>4. m \in S
    BY <2>2, <2>3 DEF Min
  <2>5. m \in Int
    BY <2>1, <2>4
  <2> QED
    BY <2>3, <2>5
<1> QED
  BY <1>1, <1>4, <1>5

\* What StrategyEngine.evaluate dispatches to.
LEMMA Dispatch ==
    ASSUME NEW s, NEW c, NEW score, ~(Len(s) < c.minHistory)
    PROVE  /\ StrategySignal("ema_cross", s, c, score) = EmaCross(s, c.fast, c.slow)
           /\ StrategySignal("sma_cross", s, c, score) = SmaCross(s, c)
           /\ StrategySignal("macd_cross", s, c, score) = MacdCross(s, c)
           /\ StrategySignal("scalp", s, c, score) = Scalp(s, c)
           /\ StrategySignal("llm_sentiment", s, c, score) = LlmSentiment(c, score)
<1>1. StrategySignal("ema_cross", s, c, score) = EmaCross(s, c.fast, c.slow)
  BY DEF StrategySignal, CandleStrategies
<1>2. StrategySignal("sma_cross", s, c, score) = SmaCross(s, c)
  BY DEF StrategySignal, CandleStrategies
<1>3. StrategySignal("macd_cross", s, c, score) = MacdCross(s, c)
  BY DEF StrategySignal, CandleStrategies
<1>4. StrategySignal("scalp", s, c, score) = Scalp(s, c)
  BY DEF StrategySignal, CandleStrategies
<1>5. StrategySignal("llm_sentiment", s, c, score) = LlmSentiment(c, score)
  BY DEF StrategySignal, CandleStrategies
<1> QED
  BY <1>1, <1>2, <1>3, <1>4, <1>5

\* Whatever bars came, the crossing strategies and the sentiment strategy with
\* even thresholds answer the prices turned upside down with the opposite
\* signal (StrategyEngine.evaluate): no comparison favours a side, at equality
\* neither.
THEOREM SignalsMirrorAlways == ResearchSpec => []SignalsMirror
<1>1. ASSUME NEW closes \in PriceHistories PROVE closes \in MirroringHistories
  <2>1. closes \in Seq(Nat) /\ closes \in Seq(Int) /\ Len(closes) > 0
    <3>1. closes \in Seq(BarPrices) /\ Len(closes) \in Nat \ {0}
      BY HistoryFacts
    <3>2. BarPrices \subseteq Nat
      BY ResearchAssumption
    <3>3. PICK n : n = Len(closes)
      OBVIOUS
    <3>4. n \in Nat \ {0} /\ closes \in [1..n -> BarPrices]
      BY <3>1, <3>3, LenProperties
    <3>5. closes \in [1..n -> Nat] /\ closes \in [1..n -> Int]
      <4>1. closes = [i \in 1..n |-> closes[i]] /\ \A i \in 1..n : closes[i] \in BarPrices
        BY <3>4
      <4>2. \A i \in 1..n : closes[i] \in Nat /\ closes[i] \in Int
        BY <3>2, <4>1
      <4> QED
        BY <4>1, <4>2
    <3>6. closes \in Seq(Nat) /\ closes \in Seq(Int)
      BY <3>4, <3>5, SeqDef
    <3> QED
      BY <3>3, <3>4, <3>6
  <2>2. PICK axis, f : axis = Max(Range(closes)) + Min(Range(closes)) /\ f = UpsideDown(closes)
    OBVIOUS
  <2>3. axis \in Int /\ f = Flipped(axis, closes)
    BY <2>1, <2>2, AxisType DEF UpsideDown
  <2>4. Len(f) = Len(closes)
    BY <2>1, <2>3, FlippedFacts
  <2>5. Mirrored("hold") = "hold"
    BY DEF Mirrored
  <2>6. ASSUME NEW c, Validated(c)
        PROVE  /\ c.fast \in Nat \ {0} /\ c.slow \in Nat \ {0} /\ c.signal \in Nat \ {0}
               /\ c.scalpFast \in Nat \ {0} /\ c.scalpSlow \in Nat \ {0}
               /\ c.sentimentBuy \in 0..100 /\ c.sentimentSell \in 0..100
    BY <2>6 DEF Validated
  <2>7. ASSUME NEW c, NEW name, NEW score, NEW other, Len(closes) < c.minHistory
        PROVE  StrategySignal(name, f, c, other) = Mirrored(StrategySignal(name, closes, c, score))
    <3>1. StrategySignal(name, f, c, other) = "hold" /\ StrategySignal(name, closes, c, score) = "hold"
      BY <2>4, <2>7, Zenon DEF StrategySignal
    <3> QED
      BY <2>5, <3>1
  <2>8. ASSUME NEW c, Validated(c), NEW name \in {"ema_cross", "sma_cross", "macd_cross", "scalp"}
        PROVE  StrategySignal(name, f, c, NoScore) = Mirrored(StrategySignal(name, closes, c, NoScore))
    <3>1. CASE Len(closes) < c.minHistory
      BY <2>7, <3>1
    <3>2. CASE ~(Len(closes) < c.minHistory)
      <4>1. ~(Len(f) < c.minHistory)
        BY <2>4, <3>2
      <4>2. CASE name = "ema_cross"
        <5>1. EmaCross(f, c.fast, c.slow) = Mirrored(EmaCross(closes, c.fast, c.slow))
          BY <2>1, <2>3, <2>6, <2>8, EmaCrossMirrored
        <5> QED
          BY <3>2, <4>1, <4>2, <5>1, Dispatch
      <4>3. CASE name = "sma_cross"
        <5>1. SmaCross(f, c) = Mirrored(SmaCross(closes, c))
          BY <2>1, <2>3, <2>6, <2>8, SmaCrossMirrored
        <5> QED
          BY <3>2, <4>1, <4>3, <5>1, Dispatch
      <4>4. CASE name = "macd_cross"
        <5>1. MacdCross(f, c) = Mirrored(MacdCross(closes, c))
          BY <2>1, <2>3, <2>6, <2>8, MacdCrossMirrored
        <5> QED
          BY <3>2, <4>1, <4>4, <5>1, Dispatch
      <4>5. CASE name = "scalp"
        <5>1. Scalp(f, c) = Mirrored(Scalp(closes, c))
          BY <2>1, <2>3, <2>6, <2>8, ScalpMirrored
        <5> QED
          BY <3>2, <4>1, <4>5, <5>1, Dispatch
      <4> QED
        BY <4>2, <4>3, <4>4, <4>5
    <3> QED
      BY <3>1, <3>2
  <2>9. ASSUME NEW c, Validated(c), EvenThresholds(c), NEW score \in 0..100
        PROVE  StrategySignal("llm_sentiment", f, c, 100 - score) =
                 Mirrored(StrategySignal("llm_sentiment", closes, c, score))
    <3>1. CASE Len(closes) < c.minHistory
      BY <2>7, <3>1
    <3>2. CASE ~(Len(closes) < c.minHistory)
      <4>1. ~(Len(f) < c.minHistory)
        BY <2>4, <3>2
      <4>2. LlmSentiment(c, 100 - score) = Mirrored(LlmSentiment(c, score))
        BY <2>6, <2>9, SentimentMirrored
      <4>3. /\ StrategySignal("llm_sentiment", f, c, 100 - score) = LlmSentiment(c, 100 - score)
            /\ StrategySignal("llm_sentiment", closes, c, score) = LlmSentiment(c, score)
        BY <3>2, <4>1, Dispatch
      <4> QED
        BY <4>2, <4>3
    <3> QED
      BY <3>1, <3>2
  <2> QED
    BY <2>2, <2>8, <2>9, Zenon DEF MirroringHistories
<1>2. ResearchTypeOK => SignalsMirror
  BY <1>1, ListedHistory DEF SignalsMirror
<1> QED
  BY <1>2, BarsAreTyped, PTL
=============================================================================
