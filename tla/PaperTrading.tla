---------------------------- MODULE PaperTrading ----------------------------
(***************************************************************************)
(* Paper mode of zksato: PaperBroker (broker/paper.py), PaperPortfolio     *)
(* (portfolio.py), the paper path of TradingService.submit and             *)
(* cancel_order (service.py) and the quote handler of the automation       *)
(* engine, which matches resting limits and places protective exits        *)
(* (automation.py).                                                        *)
(*                                                                         *)
(* Nothing on these paths suspends, so one handler runs at a time; but     *)
(* every store write is a transaction of its own, and the process may die  *)
(* between two of them.  The variables are what the SQL store holds; job   *)
(* is the handler that runs, at the write it has reached.  What the        *)
(* process holds in memory differs from the tables only by the writes its  *)
(* job has still to do.                                                    *)
(***************************************************************************)
EXTENDS Integers, Sequences, FiniteSetsExt, Functions

CONSTANTS
    Intents,           \* the orders clients send, each with its client_order_id
    Term,              \* symbol, side, quantity, limit, stop, take of each intent
    Symbols,
    Quotes,            \* quotes that may arrive: bid, offer (0: absent) and last
    InitialCash,
    MaxFill,           \* paper_max_fill_quantity_per_quote, 0 for no limit
    PriceImprovement,  \* paper_price_improvement
    MaxQuotes,         \* bound on the quotes that arrive
    MaxCrashes         \* bound on process deaths

Reasons == {"stop_loss", "take_profit"}
Exits == Intents \X Reasons
OrderIds == Intents \cup Exits

ASSUME TermAssumption ==
    Term \in [Intents -> [symbol: Symbols, side: {"buy", "sell"}, quantity: Nat \ {0},
                          limit: Nat, stop: Nat, take: Nat]]
ASSUME QuotesAssumption == Quotes \subseteq [bid: Nat, offer: Nat, last: Nat \ {0}]
ASSUME PaperSettingsAssumption ==
    /\ InitialCash \in Nat /\ MaxFill \in Nat /\ PriceImprovement \in BOOLEAN
    /\ MaxQuotes \in Nat /\ MaxCrashes \in Nat
ASSUME ExitIdsAssumption == Intents \cap Exits = {} /\ IsFiniteSet(Intents)

VARIABLES
    account,  \* the paper_account row: cash and holdings
    book,     \* the orders table
    listed,   \* the order ids, oldest first
    fills,    \* quantity recorded in the fills table for each order
    claims,   \* idempotency_keys
    quotes,   \* the last quote of each symbol
    job,      \* the handler that runs
    arrived,  \* quotes so far
    crashes,  \* process deaths so far
    torn      \* history: did one cut a fill between its account and its order?

vars == <<account, book, listed, fills, claims, quotes, job, arrived, crashes, torn>>
bounds == <<arrived, crashes, torn>>

-----------------------------------------------------------------------------

NoQuote == [bid |-> 0, offer |-> 0, last |-> 0]
NoOrder == [status |-> "none", quantity |-> 0, filled |-> 0, value |-> 0]
Idle == [pc |-> "idle"]

Symbol(o) == IF o \in Exits THEN Term[o[1]].symbol ELSE Term[o].symbol
Side(o) == IF o \in Exits THEN "sell" ELSE Term[o].side
\* 0 for a market order; protective exits are market orders.
Limit(o) == IF o \in Exits THEN 0 ELSE Term[o].limit

\* _market_price: "or" falls back on the last trade when a side is absent.
Executable(side, q) ==
    IF side = "buy"
    THEN IF q.offer # 0 THEN q.offer ELSE q.last
    ELSE IF q.bid # 0 THEN q.bid ELSE q.last

Marketable(side, limit, q) ==
    IF side = "buy" THEN Executable(side, q) <= limit ELSE Executable(side, q) >= limit

\* _market_price, or _limit_fill_price for a limit order.
FillPrice(side, limit, q) ==
    CASE limit = 0 -> Executable(side, q)
      [] limit # 0 /\ ~PriceImprovement -> limit
      [] OTHER -> IF side = "buy" THEN Min({limit, Executable(side, q)})
                                  ELSE Max({limit, Executable(side, q)})

Remaining(o) == book[o].quantity - book[o].filled

Init ==
    /\ account = [cash |-> InitialCash, held |-> [s \in Symbols |-> 0]]
    /\ book = [o \in OrderIds |-> NoOrder]
    /\ listed = <<>>
    /\ fills = [o \in OrderIds |-> 0]
    /\ claims = {}
    /\ quotes = [s \in Symbols |-> NoQuote]
    /\ job = Idle
    /\ arrived = 0
    /\ crashes = 0
    /\ torn = FALSE

-----------------------------------------------------------------------------
(* One fill: apply_fill saves the account, then the order is upserted, and *)
(* then the part of filled_quantity that has no fill yet is recorded.      *)

\* Mutant: only purchases are checked.
UnaffordableBuy(o, n, price) == Side(o) = "buy" /\ n * price > account.cash

\* apply_fill raises ValueError: too little cash, or too small a position.
Unaffordable(o, n, price) ==
    IF Side(o) = "buy" THEN n * price > account.cash ELSE n > account.held[Symbol(o)]

\* Mutant: the proceeds of a sale are not paid in.
SaveAccountUnpaid(o, n, price) ==
    account' = [account EXCEPT
                    !.cash = IF Side(o) = "buy" THEN @ - n * price ELSE @,
                    !.held[Symbol(o)] = IF Side(o) = "buy" THEN @ + n ELSE @ - n]

SaveAccount(o, n, price) ==
    account' = [account EXCEPT
                    !.cash = IF Side(o) = "buy" THEN @ - n * price ELSE @ + n * price,
                    !.held[Symbol(o)] = IF Side(o) = "buy" THEN @ + n ELSE @ - n]

\* Where a handler goes on after the fill or the placement: the loop it is in.
Resume(j) == IF j.loop = "none" THEN Idle
             ELSE [pc |-> j.loop, at |-> j.at, symbol |-> j.symbol]

SaveOrder ==
    /\ job.pc = "account_saved"
    /\ LET o == job.order
           old == [book[o] EXCEPT !.quantity = job.total]
           filled == old.filled + job.n
       IN  /\ book' = [book EXCEPT ![o] =
                          [old EXCEPT !.filled = filled,
                                      !.value = @ + job.n * job.price,
                                      !.status = IF filled >= job.total THEN "filled"
                                                 ELSE "partially_filled"]]
           /\ listed' = IF book[o].status = "none" THEN Append(listed, o) ELSE listed
    /\ job' = [job EXCEPT !.pc = "order_saved"]
    /\ UNCHANGED <<account, fills, claims, quotes, bounds>>

\* Mutant: the cumulative quantity is recorded as a new fill.
RecordFillCumulative ==
    /\ job.pc = "order_saved"
    /\ fills' = [fills EXCEPT ![job.order] = @ + book[job.order].filled]
    /\ job' = Resume(job)
    /\ UNCHANGED <<account, book, listed, claims, quotes, bounds>>

\* record_order_fill.  submit upserts the same order and records it once more,
\* which adds nothing.
RecordFill ==
    /\ job.pc = "order_saved"
    /\ LET delta == book[job.order].filled - fills[job.order]
       IN  fills' = [fills EXCEPT ![job.order] = @ + delta]
    /\ job' = Resume(job)
    /\ UNCHANGED <<account, book, listed, claims, quotes, bounds>>

-----------------------------------------------------------------------------
(* TradingService.submit and PaperBroker.place_order.                      *)

\* The checks of RiskEngine.evaluate on cash and position; the others may reject
\* any order, which changes nothing here.
RiskApproves(i) ==
    LET price == IF Term[i].limit # 0 THEN Term[i].limit ELSE quotes[Term[i].symbol].last
    IN  /\ quotes[Term[i].symbol] # NoQuote
        /\ Term[i].side = "buy" => price * Term[i].quantity <= account.cash
        /\ Term[i].side = "sell" => Term[i].quantity <= account.held[Term[i].symbol]

\* Claims the client_order_id; a retry of a claimed id changes nothing.
Submit(i) ==
    /\ job = Idle
    /\ RiskApproves(i)
    /\ i \notin claims
    /\ claims' = claims \cup {i}
    /\ job' = [pc |-> "placing", order |-> i, total |-> Term[i].quantity,
               loop |-> "none", at |-> 0, symbol |-> Term[i].symbol]
    /\ UNCHANGED <<account, book, listed, fills, quotes, bounds>>

Crosses(o) == Limit(o) = 0 \/ Marketable(Side(o), Limit(o), quotes[Symbol(o)])
PlacePrice(o) == FillPrice(Side(o), Limit(o), quotes[Symbol(o)])

\* A market order, or a limit order that crosses, is filled whole.
PlaceFill ==
    /\ job.pc = "placing"
    /\ Crosses(job.order)
    /\ LET price == PlacePrice(job.order)
       IN  /\ ~Unaffordable(job.order, job.total, price)
           /\ SaveAccount(job.order, job.total, price)
           /\ job' = [pc |-> "account_saved", order |-> job.order, total |-> job.total,
                      n |-> job.total, price |-> price,
                      loop |-> job.loop, at |-> job.at, symbol |-> job.symbol]
    /\ UNCHANGED <<book, listed, fills, claims, quotes, bounds>>

\* apply_fill raised ValueError: submit releases the claim.
PlaceFails ==
    /\ job.pc = "placing"
    /\ Crosses(job.order)
    /\ Unaffordable(job.order, job.total, PlacePrice(job.order))
    /\ claims' = claims \ {job.order}
    /\ job' = Resume(job)
    /\ UNCHANGED <<account, book, listed, fills, quotes, bounds>>

\* _accepted: the order rests.
PlaceRest ==
    /\ job.pc = "placing"
    /\ ~Crosses(job.order)
    /\ book' = [book EXCEPT ![job.order] =
                   [status |-> "accepted", quantity |-> job.total, filled |-> 0, value |-> 0]]
    /\ listed' = Append(listed, job.order)
    /\ job' = Resume(job)
    /\ UNCHANGED <<account, fills, claims, quotes, bounds>>

OpenPaper == {"accepted", "partially_filled"}

\* The cancelled row, then the fills it may lack.
WriteCancelled(o) ==
    /\ book' = [book EXCEPT ![o].status = "cancelled"]
    /\ job' = [pc |-> "order_saved", order |-> o, loop |-> "none"]
    /\ UNCHANGED <<account, listed, fills, claims, quotes, bounds>>

\* Mutant: the status of the order is not looked at.
CancelAny(o) == job = Idle /\ book[o].status # "none" /\ WriteCancelled(o)

Cancel(o) == job = Idle /\ book[o].status \in OpenPaper /\ WriteCancelled(o)

-----------------------------------------------------------------------------
(* AutomationEngine.on_quote: process_quote over the orders, newest first, *)
(* then _check_protective_exits over the orders, newest first.             *)

OnQuote(s, q) ==
    /\ job = Idle
    /\ arrived < MaxQuotes
    /\ arrived' = arrived + 1
    /\ quotes' = [quotes EXCEPT ![s] = q]
    /\ job' = [pc |-> "matching", at |-> Len(listed), symbol |-> s]
    /\ UNCHANGED <<account, book, listed, fills, claims, crashes, torn>>

Advance == job' = [job EXCEPT !.at = @ - 1]

Matchable(o) ==
    /\ Symbol(o) = job.symbol /\ Limit(o) # 0
    /\ book[o].status \in OpenPaper
    /\ Marketable(Side(o), Limit(o), quotes[job.symbol])
    /\ Remaining(o) > 0

FillQuantity(o) == IF MaxFill > 0 THEN Min({Remaining(o), MaxFill}) ELSE Remaining(o)

MatchSkip ==
    /\ job.pc = "matching" /\ job.at > 0
    /\ ~Matchable(listed[job.at])
    /\ Advance
    /\ UNCHANGED <<account, book, listed, fills, claims, quotes, bounds>>

MatchFill ==
    /\ job.pc = "matching" /\ job.at > 0
    /\ LET o == listed[job.at]
           n == FillQuantity(o)
           price == FillPrice(Side(o), Limit(o), quotes[job.symbol])
       IN  /\ Matchable(o)
           /\ ~Unaffordable(o, n, price)
           /\ SaveAccount(o, n, price)
           /\ job' = [pc |-> "account_saved", order |-> o, total |-> book[o].quantity,
                      n |-> n, price |-> price,
                      loop |-> "matching", at |-> job.at - 1, symbol |-> job.symbol]
    /\ UNCHANGED <<book, listed, fills, claims, quotes, bounds>>

\* apply_fill raised ValueError: the resting order is cancelled.
MatchCancel ==
    /\ job.pc = "matching" /\ job.at > 0
    /\ LET o == listed[job.at]
       IN  /\ Matchable(o)
           /\ Unaffordable(o, FillQuantity(o),
                           FillPrice(Side(o), Limit(o), quotes[job.symbol]))
           /\ book' = [book EXCEPT ![o].status = "cancelled"]
    /\ Advance
    /\ UNCHANGED <<account, listed, fills, claims, quotes, bounds>>

MatchDone ==
    /\ job.pc = "matching" /\ job.at = 0
    /\ job' = [pc |-> "exits", at |-> Len(listed), symbol |-> job.symbol]
    /\ UNCHANGED <<account, book, listed, fills, claims, quotes, bounds>>

\* The level the quote crosses, if any.  The order's symbol is not compared with
\* the quote's.
ExitReason(i) ==
    LET last == quotes[job.symbol].last
    IN  CASE Term[i].stop # 0 /\ last <= Term[i].stop -> "stop_loss"
          [] ~(Term[i].stop # 0 /\ last <= Term[i].stop)
             /\ Term[i].take # 0 /\ last >= Term[i].take -> "take_profit"
          [] OTHER -> "none"

Exitable(o) ==
    /\ o \in Intents /\ Side(o) = "buy"
    /\ book[o].filled > 0
    /\ account.held[Symbol(o)] >= book[o].filled
    /\ ExitReason(o) # "none"

\* Mutant: the exit order's client_order_id is not claimed.
ExitSubmitUnclaimed ==
    /\ job.pc = "exits" /\ job.at > 0
    /\ LET i == listed[job.at]
           o == <<i, ExitReason(i)>>
       IN  /\ Exitable(i)
           /\ job' = [pc |-> "placing", order |-> o, total |-> book[i].filled,
                      loop |-> "exits", at |-> job.at - 1, symbol |-> job.symbol]
    /\ UNCHANGED <<account, book, listed, fills, claims, quotes, bounds>>

ExitSubmit ==
    /\ job.pc = "exits" /\ job.at > 0
    /\ LET i == listed[job.at]
           o == <<i, ExitReason(i)>>
       IN  /\ Exitable(i)
           /\ o \notin claims
           /\ claims' = claims \cup {o}
           /\ job' = [pc |-> "placing", order |-> o, total |-> book[i].filled,
                      loop |-> "exits", at |-> job.at - 1, symbol |-> job.symbol]
    /\ UNCHANGED <<account, book, listed, fills, quotes, bounds>>

\* Nothing to exit; or the exit's id is claimed already; or the risk engine, which
\* may find the position's quote missing or stale, rejects it.
ExitSkip ==
    /\ job.pc = "exits" /\ job.at > 0
    /\ Advance
    /\ UNCHANGED <<account, book, listed, fills, claims, quotes, bounds>>

OnQuoteDone ==
    /\ job.pc = "exits" /\ job.at = 0
    /\ job' = Idle
    /\ UNCHANGED <<account, book, listed, fills, claims, quotes, bounds>>

-----------------------------------------------------------------------------
(* POST /v1/reconcile: the paper broker's list is the local list, so a run *)
(* changes no order and records the fills that are missing.                *)

ReconcileStart ==
    /\ job = Idle
    /\ job' = [pc |-> "reconciling", at |-> Len(listed)]
    /\ UNCHANGED <<account, book, listed, fills, claims, quotes, bounds>>

\* Mutant: only open orders are looked at.
ReconcileNextOpen ==
    /\ job.pc = "reconciling" /\ job.at > 0
    /\ LET o == listed[job.at]
       IN  fills' = [fills EXCEPT ![o] = IF book[o].status \in OpenPaper
                                         THEN book[o].filled ELSE @]
    /\ Advance
    /\ UNCHANGED <<account, book, listed, claims, quotes, bounds>>

ReconcileNext ==
    /\ job.pc = "reconciling" /\ job.at > 0
    /\ LET o == listed[job.at]
       IN  fills' = [fills EXCEPT ![o] = Max({@, book[o].filled})]
    /\ Advance
    /\ UNCHANGED <<account, book, listed, claims, quotes, bounds>>

ReconcileDone ==
    /\ job.pc = "reconciling" /\ job.at = 0
    /\ job' = Idle
    /\ UNCHANGED <<account, book, listed, fills, claims, quotes, bounds>>

-----------------------------------------------------------------------------
\* The process dies at a write or between two; the next one loads the tables.
Crash ==
    /\ job # Idle
    /\ crashes < MaxCrashes
    /\ crashes' = crashes + 1
    /\ torn' = (torn \/ job.pc = "account_saved")
    /\ job' = Idle
    /\ UNCHANGED <<account, book, listed, fills, claims, quotes, arrived>>

Next ==
    \/ \E i \in Intents : Submit(i)
    \/ PlaceFill \/ PlaceFails \/ PlaceRest
    \/ SaveOrder \/ RecordFill
    \/ \E o \in OrderIds : Cancel(o)
    \/ \E s \in Symbols, q \in Quotes : OnQuote(s, q)
    \/ MatchSkip \/ MatchFill \/ MatchCancel \/ MatchDone
    \/ ExitSubmit \/ ExitSkip \/ OnQuoteDone
    \/ ReconcileStart \/ ReconcileNext \/ ReconcileDone
    \/ Crash

Spec == Init /\ [][Next]_vars

-----------------------------------------------------------------------------
(* Properties.                                                             *)

\* Among others: neither cash nor a holding is ever negative, so no sequence of
\* fills, resting sales and exits sells what is not held.
TypeOK ==
    /\ account \in [cash: Nat, held: [Symbols -> Nat]]
    /\ book \in [OrderIds -> [status: {"none", "accepted", "partially_filled", "filled",
                                       "cancelled"},
                              quantity: Nat, filled: Nat, value: Nat]]
    /\ listed \in Seq(OrderIds)
    /\ fills \in [OrderIds -> Nat]
    /\ claims \subseteq OrderIds
    /\ quotes \in [Symbols -> Quotes \cup {NoQuote}]
    /\ job.pc \in {"idle", "placing", "account_saved", "order_saved", "matching", "exits",
                   "reconciling"}
    /\ arrived \in 0..MaxQuotes
    /\ crashes \in 0..MaxCrashes
    /\ torn \in BOOLEAN

Buys == {o \in OrderIds : Side(o) = "buy"}
Sells == OrderIds \ Buys
Filled(os, s) ==
    SumFunctionOnSet([o \in OrderIds |-> IF Symbol(o) = s THEN book[o].filled ELSE 0], os)
Value(os) == SumFunctionOnSet([o \in OrderIds |-> book[o].value], os)

Balanced ==
    /\ account.cash + Value(Buys) = InitialCash + Value(Sells)
    /\ \A s \in Symbols : account.held[s] + Filled(Sells, s) = Filled(Buys, s)

\* Cash and holdings are exactly what the orders' fills make of the initial cash
\* (they are restored from their own row, never rebuilt from the orders), through
\* partial fills, exits, cancellations and every process death but one: the one
\* between the two writes of a fill.
Conservation == job.pc # "account_saved" /\ ~torn => Balanced

\* README.md: "restart-safe paper cash/holdings/P&L".
RestartSafe == job.pc # "account_saved" => Balanced

\* No fill is recorded twice and no order filled beyond its quantity, although
\* every handler and every retry after a crash records fills from the cumulative
\* quantity (record_order_fill).
FillsBounded ==
    \A o \in OrderIds : fills[o] <= book[o].filled /\ book[o].filled <= book[o].quantity

\* Repeated quotes beyond a level, partial fills between them and restarts never
\* make one level sell more than the order it protects bought.
OneExitPerLevel ==
    \A x \in Exits : book[x].filled <= book[x[1]].filled

\* A filled or cancelled paper order never changes again: not by a quote handler
\* that listed it earlier, nor by a retry or a cancellation.
PaperTerminalIsFinal ==
    [][\A o \in OrderIds : book[o].status \in {"filled", "cancelled"} => book'[o] = book[o]]_vars

\* A reconciliation that runs to its end leaves every filled unit recorded,
\* including those whose handler died before recording them.
ReconcileHeals ==
    [][job.pc = "reconciling" /\ job.at = 0 /\ crashes' = crashes =>
          \A o \in OrderIds : fills'[o] = book'[o].filled]_vars

=============================================================================
