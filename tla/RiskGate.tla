------------------------------ MODULE RiskGate ------------------------------
(***************************************************************************)
(* Pre-trade risk in zksato: RiskEngine.evaluate (risk.py) over the        *)
(* context TradingService.risk_context_for builds (service.py), with the   *)
(* instrument and session rules (market_rules.py), for several submitters  *)
(* sharing one broker account: API requests, and agents, whose orders come *)
(* through the Agent OS (agent_os/engine.py).                              *)
(*                                                                         *)
(* A request suspends twice: for the broker's portfolio, and for the       *)
(* broker's answer to the order.  Between the two it decides, on the       *)
(* portfolio it was given and on the store as it is by then.  The broker   *)
(* acts on an order before it answers, and the answer may be lost or fail  *)
(* on its way; reconciliation (reconcile.py) then finds what it left.      *)
(*                                                                         *)
(* Money and prices are small integers; a percentage is rounded up, which  *)
(* changes no comparison with an integer limit.                            *)
(***************************************************************************)
EXTENDS Integers, FiniteSetsExt, Functions

CONSTANTS
    Equities,       \* equities
    Instrument,     \* their metadata: sector, tick, lower and upper price band
    Submitters,     \* concurrent callers of submit
    ClientIntents,  \* orders requests ask for; price 0 is a market order, stop 0 none
    AgentIntents,   \* those agents ask for
    Limits,         \* the settings that limit orders: a record
    Cash,           \* initial cash balances
    MarketQuotes,   \* quotes: last price, bid and offer, 0 for none
    MaxSubmissions, \* bound on submissions
    MaxMoves        \* bound on quotes, their ageing, clock moves, cancel requests, lost
                    \* answers to submissions and what reconciliation finds

ASSUME RiskAssumption ==
    /\ IsFiniteSet(Equities) /\ IsFiniteSet(Submitters) /\ Submitters # {}
    /\ AgentIntents \subseteq ClientIntents
    /\ MarketQuotes \subseteq [last: Nat \ {0}, bid: Nat, offer: Nat] /\ Cash \subseteq Int
    /\ MaxSubmissions \in Nat /\ MaxMoves \in Nat
    /\ ClientIntents \subseteq [symbol: Equities, side: {"buy", "sell"}, quantity: Nat \ {0},
                                price: Nat, stop: Nat]
    /\ Limits \in [notional: Nat, ordersPerDay: Nat, openOrders: Nat, positions: Nat,
                   positionPct: Nat, symbolPct: Nat, grossPct: Nat, sectorPct: Nat,
                   riskPct: Nat, deviationPct: Nat, spreadPct: Nat]

VARIABLES
    brokerAccount,  \* the broker's: cash, and the quantity held of each symbol
    brokerOrders,   \* the broker's: the orders it has taken
    quote,      \* per symbol the last quote (last price 0: none) and whether it is fresh
    session,    \* the kind of day and the time of day
    task,       \* what each submitter is doing
    orders,     \* the order table
    sweep,      \* a cancel_open_orders call
    submissions, moves

brokerVars == <<brokerAccount, brokerOrders>>
riskVars == <<brokerVars, quote, session, task, orders, sweep, submissions, moves>>

-----------------------------------------------------------------------------
(* Portfolio, order table and market session.                              *)

NoTask == [phase |-> "idle"]
NoSweep == [phase |-> "idle", targets |-> {}, todo |-> {}]

\* OPEN_ORDER_STATUSES and CANCELLABLE_ORDER_STATUSES; "flagged" stands for
\* needs_reconciliation, "closed" for filled and cancelled.
OpenStatuses == {"open", "flagged"}
CancellableStatuses == {"open"}

\* What tells two rows of the table apart: a broker order has at most one row of
\* its submission and one that reconciliation inserted.
Key(o) == <<o.number, o.adopted>>

OpenOrders == {o \in orders : o.status \in OpenStatuses}

Unquoted == [last |-> 0, bid |-> 0, offer |-> 0]

\* Positions are valued at the last price; before any quote at 1.
Mark(s) == IF quote[s].price.last = 0 THEN 1 ELSE quote[s].price.last
Peers(s) == {t \in Equities : Instrument[t].sector = Instrument[s].sector}

\* The portfolio the broker reports for an account.
Portfolio(a) == [cash |-> a.cash, hold |-> a.hold, value |-> [s \in Equities |-> a.hold[s] * Mark(s)]]
Invested(p, S) == SumFunctionOnSet(p.value, S)
Gross(p) == SumFunctionOnSet([s \in Equities |-> Max({p.value[s], -p.value[s]})], Equities)
Equity(p) == p.cash + Invested(p, Equities)

\* A closed day is a weekend, a holiday or a special date with no session; a half
\* day is a special date with one of its own.
Days == {"weekday", "closed_day", "half_day"}
Times == 0..2

\* _sessions_for_date: the sessions of a day, as pairs of times.
SessionsForDate(day) ==
    CASE day = "half_day" -> {<<0, 1>>}
      [] day = "closed_day" -> {}
      [] day = "weekday" -> {<<0, 0>>, <<2, 2>>}

\* state: both ends of a session belong to it.
SessionOpen == \E s \in SessionsForDate(session.day) : s[1] <= session.time /\ session.time <= s[2]

\* validate_price; a market order has no price to validate.
PriceBandOk(i) == i.price = 0 \/ (Instrument[i.symbol].lower <= i.price /\ i.price <= Instrument[i.symbol].upper)
TickSizeOk(i) == i.price % Instrument[i.symbol].tick = 0

RiskInit ==
    /\ \E c \in Cash : brokerAccount = [cash |-> c, hold |-> [s \in Equities |-> 0]]
    /\ quote = [s \in Equities |-> [price |-> Unquoted, fresh |-> FALSE]]
    /\ session = [day |-> "weekday", time |-> 0]
    /\ task = [w \in Submitters |-> NoTask]
    /\ brokerOrders = {} /\ orders = {} /\ sweep = NoSweep
    /\ submissions = 0 /\ moves = 0

-----------------------------------------------------------------------------
(* The decision.                                                           *)

\* A percentage of the equity, rounded up; 100 of none.
Pct(value, equity) ==
    CASE equity = 0 -> 100
      [] equity > 0 -> -((-100 * value) \div equity)
      [] equity < 0 -> (-100 * value) \div (-equity)

\* The spread in percent of the last price; it is not checked without both sides.
Spread(q) == IF q.bid = 0 \/ q.offer = 0 THEN 0 ELSE Pct(q.offer - q.bid, q.last)

\* risk_context_for and _sector_exposure_after_trade.  p is the portfolio the
\* broker reported; quotes, orders and session are read afterwards.
RiskContext(i, p) ==
    LET reference == quote[i.symbol].price.last
        notional == (IF i.price # 0 THEN i.price ELSE reference) * i.quantity
        equity == Equity(p)
        held == p.hold[i.symbol]
        reduction == Min({p.value[i.symbol], notional})
        after(value) == IF i.side = "buy" THEN value + notional ELSE Max({0, value - reduction})
    IN  [reference |-> reference,
         positions |-> Cardinality({s \in Equities : p.hold[s] # 0}),
         line |-> Max({p.cash, 0}),
         available |-> Max({held, 0}),
         ordersToday |-> Cardinality({o \in orders : o.today}),
         openOrders |-> Cardinality(OpenOrders),
         symbolPct |-> Max({0, Pct(after(p.value[i.symbol]), equity)}),
         grossPct |-> Max({0, Pct(after(Gross(p)), equity)}),
         sectorPct |-> IF equity <= 0 THEN 100 ELSE Pct(after(Invested(p, Peers(i.symbol))), equity),
         equity |-> equity,
         dataAvailable |-> reference # 0,
         fresh |-> quote[i.symbol].fresh,
         spread |-> Spread(quote[i.symbol].price),
         sessionOpen |-> SessionOpen,
         priceOk |-> PriceBandOk(i) /\ TickSizeOk(i),
         opensNew |-> i.side = "buy" /\ held <= 0,
         reduces |-> i.side = "sell" /\ held > 0 /\ i.quantity <= held]

\* The context of an OrderSubmission that names none, as submit_guarded_order
\* sends it: no price, no line, nothing held and nothing limited.
DefaultContext ==
    [reference |-> 0, positions |-> 0, line |-> Limits.notional, available |-> 0,
     ordersToday |-> 0, openOrders |-> 0, symbolPct |-> 0, grossPct |-> 0, sectorPct |-> 0,
     equity |-> 0, dataAvailable |-> TRUE, fresh |-> TRUE, spread |-> 0, sessionOpen |-> TRUE, priceOk |-> TRUE,
     opensNew |-> TRUE, reduces |-> FALSE]

\* Mutant: only a symbol that is not held at all cannot be sold.
SoldIfHeld(i, c) == c.available > 0

\* The two checks of a sale against the position; short selling is not allowed.
SaleCovered(i, c) == c.reduces /\ i.quantity <= c.available

\* Mutant: the number of open orders may exceed the limit by one.
OneMoreOpen(c) == c.openOrders <= Limits.openOrders

\* "maximum open order count reached"
FewOpen(c) == c.openOrders < Limits.openOrders

\* evaluate, for equities: every check must pass, some only for an opening order.
Approved(i, c) ==
    LET opening == i.side = "buy" /\ ~c.reduces
        price == IF i.price # 0 THEN i.price ELSE c.reference
        notional == price * i.quantity
    IN  /\ c.dataAvailable /\ c.fresh /\ c.spread <= Limits.spreadPct /\ c.priceOk
        /\ notional > 0 /\ notional <= Limits.notional
        /\ i.side = "sell" => SaleCovered(i, c)
        /\ c.ordersToday < Limits.ordersPerDay
        /\ FewOpen(c)
        /\ (c.reference # 0 /\ i.price # 0) =>
             LET off == i.price - c.reference
             IN  100 * Max({off, -off}) <= Limits.deviationPct * c.reference
        /\ opening =>
             /\ c.sessionOpen
             /\ c.opensNew => c.positions < Limits.positions
             /\ Min({c.symbolPct, 100}) <= Limits.positionPct
             /\ c.symbolPct <= Limits.symbolPct
             /\ c.grossPct <= Limits.grossPct
             /\ c.sectorPct <= Limits.sectorPct
             /\ i.stop # 0 /\ i.stop < price
             /\ notional <= c.line
             /\ c.equity > 0 => 100 * (price - i.stop) * i.quantity <= Limits.riskPct * c.equity

-----------------------------------------------------------------------------
(* A submission.                                                           *)

\* Everyone not in W has company: the account or a price moved under them.
Disturb(t, W) == [v \in Submitters |-> IF v \in W \/ t[v].phase \notin {"portfolio", "placing"} THEN t[v]
                                       ELSE [t[v] EXCEPT !.alone = FALSE]]

\* risk_context_for awaits the broker's portfolio.  alone holds while no other
\* step touches the account or the prices before the broker acts on the order.
RequestPortfolio(w, i) ==
    /\ task[w] = NoTask /\ submissions < MaxSubmissions
    /\ submissions' = submissions + 1
    /\ task' = [task EXCEPT ![w] =
                  [phase |-> "portfolio", number |-> submissions, agent |-> FALSE, intent |-> i,
                   portfolio |-> Portfolio(brokerAccount), alone |-> TRUE]]
    /\ UNCHANGED <<brokerVars, quote, session, orders, sweep, moves>>

\* The portfolio arrived: evaluate, and place_order is awaited, or the submission
\* is refused.
Evaluate(w) ==
    /\ task[w].phase = "portfolio"
    /\ task' = [task EXCEPT ![w] =
                  IF Approved(@.intent, RiskContext(@.intent, @.portfolio))
                  THEN [@ EXCEPT !.phase = "placing"] ELSE NoTask]
    /\ UNCHANGED <<brokerVars, quote, session, orders, sweep, submissions, moves>>

\* submit_guarded_order: submit is called with no context; it re-checks only that
\* the quote there is is not stale.  A stop is made up when a buy has none.
AgentOrder(w, i) ==
    /\ i \in AgentIntents
    /\ task[w] = NoTask /\ submissions < MaxSubmissions
    /\ submissions' = submissions + 1
    /\ LET j == IF i.side = "buy" /\ i.stop = 0 THEN [i EXCEPT !.stop = Max({i.price, 1}) - 1] ELSE i
       IN  /\ Approved(j, DefaultContext)
           /\ quote[i.symbol].price.last # 0 => quote[i.symbol].fresh
           /\ task' = [task EXCEPT ![w] =
                         [phase |-> "placing", number |-> submissions, agent |-> TRUE, intent |-> j,
                          portfolio |-> Portfolio(brokerAccount), alone |-> TRUE]]
    /\ UNCHANGED <<brokerVars, quote, session, orders, sweep, moves>>

\* What an order filled at a price does to the account.  A broker that refuses a
\* fill the account cannot pay for is BrokerRefuses; this one need not.
AfterFill(i, price) ==
    LET sign == IF i.side = "buy" THEN 1 ELSE -1
    IN  [cash |-> brokerAccount.cash - sign * i.quantity * price,
         hold |-> [brokerAccount.hold EXCEPT ![i.symbol] = @ + sign * i.quantity]]

\* _market_price: the offer for a buy, the bid for a sale, the last price without.
MarketPrice(i) ==
    LET q == quote[i.symbol].price
        side == IF i.side = "buy" THEN q.offer ELSE q.bid
    IN  IF side # 0 THEN side ELSE Mark(i.symbol)

\* _limit_fill_price: a limit order fills at its price, or with price improvement
\* at a better one of the market.
FillPrices(i) ==
    IF i.price = 0 THEN {MarketPrice(i)}
    ELSE {i.price, IF i.side = "buy" THEN Min({i.price, MarketPrice(i)}) ELSE Max({i.price, MarketPrice(i)})}

\* The broker takes w's order; submit awaits its answer.
Taken(w, state) ==
    brokerOrders' = brokerOrders \cup {[number |-> task[w].number, intent |-> task[w].intent, state |-> state]}
Awaited(w, status) ==
    [phase |-> "answering", number |-> task[w].number, agent |-> task[w].agent, intent |-> task[w].intent,
     status |-> status]

\* The broker fills the order at once, lets it rest, or refuses it.
OrderFilled(w) ==
    /\ task[w].phase = "placing"
    /\ \E price \in FillPrices(task[w].intent) : brokerAccount' = AfterFill(task[w].intent, price)
    /\ Taken(w, "filled")
    /\ task' = [Disturb(task, {w}) EXCEPT ![w] = Awaited(w, "closed")]
    /\ UNCHANGED <<quote, session, orders, sweep, submissions, moves>>

OrderRests(w) ==
    /\ task[w].phase = "placing" /\ task[w].intent.price # 0
    /\ Taken(w, "resting")
    /\ task' = [task EXCEPT ![w] = Awaited(w, "open")]
    /\ UNCHANGED <<brokerAccount, quote, session, orders, sweep, submissions, moves>>

BrokerRefuses(w) ==
    /\ task[w].phase = "placing"
    /\ task' = [task EXCEPT ![w] = Awaited(w, "closed")]
    /\ UNCHANGED <<brokerVars, quote, session, orders, sweep, submissions, moves>>

\* A row of the table.  known: it has the broker's order number.  returned: it is
\* open because reconciliation found it so at the broker.
Row(t, status, known) ==
    [number |-> t.number, adopted |-> FALSE, known |-> known, agent |-> t.agent, intent |-> t.intent,
     status |-> status, today |-> TRUE, returned |-> FALSE]

\* The answer arrives and is recorded; it is lost, and an ambiguous outcome is
\* recorded, without the number; or the call raises, and nothing is.  What the
\* broker did stands in each case.
SubmissionAnswered(w, outcome) ==
    /\ task[w].phase = "answering"
    /\ task' = [task EXCEPT ![w] = NoTask]
    /\ \/ /\ outcome = "recorded"
          /\ orders' = orders \cup {Row(task[w], task[w].status, TRUE)}
          /\ UNCHANGED moves
       \/ /\ outcome = "ambiguous"
          /\ moves < MaxMoves /\ moves' = moves + 1
          /\ orders' = orders \cup {Row(task[w], "flagged", FALSE)}
       \/ /\ outcome = "raised"
          /\ moves < MaxMoves /\ moves' = moves + 1
          /\ UNCHANGED orders
    /\ UNCHANGED <<brokerVars, quote, session, sweep, submissions>>

-----------------------------------------------------------------------------
(* The market and the clock.                                               *)

\* update_quote.
QuoteArrives(s, q) ==
    /\ moves < MaxMoves /\ moves' = moves + 1
    /\ quote' = [quote EXCEPT ![s] = [price |-> q, fresh |-> TRUE]]
    /\ task' = IF q.last = quote[s].price.last THEN task ELSE Disturb(task, {})
    /\ UNCHANGED <<brokerVars, session, orders, sweep, submissions>>

\* market_data_stale_seconds pass without a quote.
QuoteAges(s) ==
    /\ moves < MaxMoves /\ moves' = moves + 1
    /\ quote[s].fresh
    /\ quote' = [quote EXCEPT ![s].fresh = FALSE]
    /\ UNCHANGED <<brokerVars, session, task, orders, sweep, submissions>>

\* A later time of the day, or the next day.
ClockMoves(day, time) ==
    /\ moves < MaxMoves /\ moves' = moves + 1
    /\ time = 0 \/ (day = session.day /\ time > session.time)
    /\ session' = [day |-> day, time |-> time]
    /\ orders' = IF time > session.time THEN orders ELSE {[o EXCEPT !.today = FALSE] : o \in orders}
    /\ UNCHANGED <<brokerVars, quote, task, sweep, submissions>>

\* The broker fills an order that rests there.
RestingFilled(b) ==
    /\ b.state = "resting"
    /\ \E price \in FillPrices(b.intent) : brokerAccount' = AfterFill(b.intent, price)
    /\ brokerOrders' = (brokerOrders \ {b}) \cup {[b EXCEPT !.state = "ended"]}
    /\ task' = Disturb(task, {})
    /\ UNCHANGED <<quote, session, orders, sweep, submissions, moves>>

-----------------------------------------------------------------------------
(* Reconciliation, one order of a run at a time.  A snapshot may be as old *)
(* as the run that awaited it: it lists an order as it is or as it once    *)
(* was, or from before the broker had it.                                  *)

Rewrite(o, row) == orders' = (orders \ {o}) \cup {row}

\* How a snapshot of any age may list an order.
ListedAs(b, status) ==
    \/ status = "open" /\ b.state \in {"resting", "ended"}
    \/ status = "closed" /\ b.state \in {"ended", "filled"}

\* _match finds a row by the broker's order number.
Matches(o, b) == o.known /\ o.number = b.number

\* A listed order is merged into a row that matches it.
Merged(o, b, status) ==
    /\ moves < MaxMoves /\ moves' = moves + 1
    /\ Matches(o, b) /\ ListedAs(b, status) /\ o.status # status
    /\ Rewrite(o, [o EXCEPT !.status = status, !.returned = (status = "open")])
    /\ UNCHANGED <<brokerVars, quote, session, task, sweep, submissions>>

\* One that matches none is inserted: its submission raised, was ambiguous, or
\* still awaits the answer.
Adopted(b, status) ==
    /\ moves < MaxMoves /\ moves' = moves + 1
    /\ ListedAs(b, status) /\ \A o \in orders : ~Matches(o, b)
    /\ orders' = orders \cup
         {[number |-> b.number, adopted |-> TRUE, known |-> TRUE, agent |-> FALSE, intent |-> b.intent,
           status |-> status, today |-> TRUE, returned |-> status = "open"]}
    /\ UNCHANGED <<brokerVars, quote, session, task, sweep, submissions>>

\* An open row whose order the snapshot does not list is flagged.
MissingRemote(o) ==
    /\ moves < MaxMoves /\ moves' = moves + 1
    /\ o.known /\ o.status \in OpenStatuses
    /\ Rewrite(o, [o EXCEPT !.status = "flagged", !.returned = FALSE])
    /\ UNCHANGED <<brokerVars, quote, session, task, sweep, submissions>>

-----------------------------------------------------------------------------
(* Cancellation: cancel_order, of one order or in cancel_open_orders.      *)

\* The broker cancels a resting order, and raises for one that is not.  When its
\* answer is lost the row is flagged, and the order may or may not be cancelled.
CancelOutcome(o, outcome) ==
    LET atBroker == {b \in brokerOrders : b.number = o.number /\ b.state = "resting"}
        ended == (brokerOrders \ atBroker) \cup {[b EXCEPT !.state = "ended"] : b \in atBroker}
        as(status) == Rewrite(o, [o EXCEPT !.status = status, !.returned = FALSE])
    IN  \/ outcome = "cancelled" /\ atBroker # {} /\ brokerOrders' = ended /\ as("closed")
        \/ outcome = "ambiguous" /\ brokerOrders' \in {brokerOrders, ended} /\ as("flagged")
        \/ outcome = "raised" /\ UNCHANGED <<brokerOrders, orders>>

\* DELETE /v1/orders/{id}, and an agent's cancel_agent_order, of any order.
CancelOne(o, outcome) ==
    /\ moves < MaxMoves /\ moves' = moves + 1
    /\ o.status \in CancellableStatuses
    /\ CancelOutcome(o, outcome)
    /\ UNCHANGED <<brokerAccount, quote, session, task, sweep, submissions>>

\* cancel_open_orders: the targets are those that are open when it begins.
SweepBegins ==
    /\ moves < MaxMoves /\ moves' = moves + 1
    /\ sweep.phase # "running"
    /\ LET targets == {Key(o) : o \in {x \in orders : x.status \in CancellableStatuses}}
       IN  targets # {} /\ sweep' = [phase |-> "running", targets |-> targets, todo |-> targets]
    /\ UNCHANGED <<brokerVars, quote, session, task, orders, submissions>>

\* Mutant: an order whose cancellation raises is skipped.
SkipFailed(o, outcome) ==
    LET todo == sweep.todo \ {Key(o)}
    IN  [sweep EXCEPT !.todo = todo, !.phase = IF todo = {} THEN "returned" ELSE "running"]

\* The loop goes on with the next target; an exception ends it.
AfterTarget(o, outcome) ==
    LET todo == sweep.todo \ {Key(o)}
    IN  [sweep EXCEPT !.todo = todo,
                      !.phase = CASE outcome = "raised" -> "raised"
                                  [] outcome # "raised" /\ todo = {} -> "returned"
                                  [] OTHER -> "running"]

\* One target, in any order of the table.
SweepStep(o, outcome) ==
    /\ sweep.phase = "running" /\ Key(o) \in sweep.todo
    /\ CancelOutcome(o, outcome)
    /\ sweep' = AfterTarget(o, outcome)
    /\ UNCHANGED <<brokerAccount, quote, session, task, submissions, moves>>

RiskNext ==
    \/ \E w \in Submitters, i \in ClientIntents : RequestPortfolio(w, i) \/ AgentOrder(w, i)
    \/ \E w \in Submitters : Evaluate(w) \/ OrderFilled(w) \/ OrderRests(w) \/ BrokerRefuses(w)
    \/ \E w \in Submitters, outcome \in {"recorded", "ambiguous", "raised"} : SubmissionAnswered(w, outcome)
    \/ \E s \in Equities : QuoteAges(s) \/ \E q \in MarketQuotes : QuoteArrives(s, q)
    \/ \E day \in Days, time \in Times : ClockMoves(day, time)
    \/ \E b \in brokerOrders : RestingFilled(b)
    \/ \E b \in brokerOrders, status \in {"open", "closed"} :
         Adopted(b, status) \/ \E o \in orders : Merged(o, b, status)
    \/ \E o \in orders : MissingRemote(o)
    \/ \E o \in orders, outcome \in {"cancelled", "ambiguous", "raised"} :
         CancelOne(o, outcome) \/ SweepStep(o, outcome)
    \/ SweepBegins

RiskSpec == RiskInit /\ [][RiskNext]_riskVars

-----------------------------------------------------------------------------
(* Properties.                                                             *)

\* The variables have their types; broker numbers and the rows' keys are unique.
RiskTypeOK ==
    /\ brokerAccount \in [cash: Int, hold: [Equities -> Int]]
    /\ quote \in [Equities -> [price: MarketQuotes \cup {Unquoted}, fresh: BOOLEAN]]
    /\ session \in [day: Days, time: Times]
    /\ \A w \in Submitters : task[w].phase \in {"idle", "portfolio", "placing", "answering"}
    /\ \A b \in brokerOrders : b.state \in {"resting", "filled", "ended"} /\ b.number \in 0..MaxSubmissions
    /\ \A b, c \in brokerOrders : b.number = c.number => b = c
    /\ \A o \in orders : o.status \in {"open", "flagged", "closed"} /\ o.intent.quantity \in Nat
    /\ \A o, p \in orders : Key(o) = Key(p) => o = p
    /\ sweep.phase \in {"idle", "running", "returned", "raised"} /\ sweep.todo \subseteq sweep.targets
    /\ submissions \in 0..MaxSubmissions /\ moves \in 0..MaxMoves

\* w's order is filled by this step, and nothing else touched the account or a
\* last price since w read the portfolio.
FilledAlone(w) ==
    /\ task[w].phase = "placing" /\ task[w].alone
    /\ task'[w].phase = "answering" /\ brokerAccount' # brokerAccount

\* The price the checks of an order used.
CheckedPrice(i) == IF i.price # 0 THEN i.price ELSE Mark(i.symbol)

\* What the step paid for a buy of i, per share times quantity, is within what was
\* checked.
PaidAsChecked(i) == brokerAccount.cash - brokerAccount'.cash <= CheckedPrice(i) * i.quantity

\* The account after the step is within the settings: a sale leaves nothing short; a
\* buy leaves cash, and the positions within their number.  When the mark is not
\* above the price that was checked, the exposures at the marks are within the
\* limits too, unless an earlier race had left the account short of something.
WithinLimits(i) ==
    LET p == Portfolio(brokerAccount')
        share(S) == Pct(Invested(p, S), Equity(p))
        long == \A s \in Equities : brokerAccount.hold[s] >= 0
    IN  /\ i.side = "sell" => p.hold[i.symbol] >= 0
        /\ i.side = "buy" =>
             /\ p.cash >= 0
             /\ Cardinality({s \in Equities : p.hold[s] # 0})
                  <= Max({Limits.positions, Cardinality({s \in Equities : brokerAccount.hold[s] # 0})})
             /\ long /\ CheckedPrice(i) >= Mark(i.symbol) =>
                  /\ share({i.symbol}) <= Limits.symbolPct
                  /\ share(Peers(i.symbol)) <= Limits.sectorPct
                  /\ share(Equities) <= Limits.grossPct

\* The checks, made before the order on a portfolio already reported, bound the
\* account after it: a request's order filled with no other in between, and bought
\* at no more than the checks used, leaves it within every limit
\* (RiskEngine.evaluate over risk_context_for).  A limit order is never bought for
\* more; a market order is when the offer is above the last price.
GateHolds ==
    [][\A w \in Submitters :
         LET i == task[w].intent
         IN  FilledAlone(w) /\ ~task[w].agent /\ (i.side = "buy" => PaidAsChecked(i)) => WithinLimits(i)]_riskVars

\* The open orders that submissions of requests recorded, and that no run of
\* reconciliation has adopted or reopened, exceed max_open_orders by at most the
\* submissions that can be in flight beside one (service.py counts recorded orders).
OpenOrdersBounded ==
    Cardinality({o \in orders : o.status = "open" /\ ~o.returned /\ ~o.agent}) <=
        Limits.openOrders + Cardinality(Submitters) - 1

\* When cancel_open_orders has returned, a target that is open in the order table
\* was reopened there by a run of reconciliation since its cancellation, whatever
\* was filled or cancelled, ambiguously or not, meanwhile.
SweepAccounted ==
    sweep.phase = "returned" =>
        \A o \in orders : Key(o) \in sweep.targets /\ o.status \in CancellableStatuses => o.returned

\* What risk.py says of the engine, for agents: an agent's order filled with no
\* other in between leaves the account within every limit.
AgentsAreGated == [][\A w \in Submitters : FilledAlone(w) /\ task[w].agent => WithinLimits(task[w].intent)]_riskVars

\* What docs/RISK.md says of the limits, for every order of a request filled with no
\* other in between, market orders among them: they hold for the account.
LimitsEnforced == [][\A w \in Submitters : FilledAlone(w) /\ ~task[w].agent => WithinLimits(task[w].intent)]_riskVars
=============================================================================
