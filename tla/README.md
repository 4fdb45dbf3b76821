# TLA+ specifications of zksato

zksato is a trading control plane: a FastAPI process that takes orders from
people, agents and an automation engine, checks them against risk limits and an
execution policy, sends them to a broker (paper, Settrade, CCXT), keeps every
record in SQL and reconciles its records with the broker. The specifications here
model the parts in which several actors, failures, restarts or boundary values
decide whether money is handled correctly. Paths below are relative to
`src/zksato/`.

## Inventory

| Component | State it keeps | Operations | Hard behaviour | What makes it correct |
|---|---|---|---|---|
| Order execution (`service.py`, `broker/settrade.py`) | idempotency claims, order table, gate flag | `submit`, `cancel_order`, `cancel_open_orders` | suspends in SDK calls; ambiguous outcomes; retries; restarts | an id is placed at most once; the gate is shut while anything is unknown |
| Reconciliation (`reconcile.py`) | gate flag, the worker task, one snapshot per run | `run`, worker `start`/`stop` | old snapshots written over new records; adoption of orders in flight; a dead worker | the table converges to the broker; the gate opens on evidence |
| Coordination (`coordination.py`) | one lock and request counters, local or in Redis | `lock`, `allow_request` | expiry under a slow holder; orphaned keys; window edges | a lock is always free again; a client is neither favoured nor shut out |
| Approvals (`approvals.py`) | `live_approvals` | `create`, `consume` | two submissions with one approval | one approval, one transmission |
| Risk engine, market rules, agents (`risk.py`, `market_rules.py`, `agent_os/`) | none of their own | `evaluate`, `risk_context_for`, `submit_guarded_order` | a context read across an await; submissions in flight not counted; a market order checked at one price and filled at another | what is bought stays within the limits |
| Paper trading (`broker/paper.py`, `portfolio.py`) | account row, orders, fills | `place_order`, `process_quote`, `cancel_order` | one fill is three transactions; partial fills | cash and holdings are what the orders say |
| Automation (`automation.py`) | bot state, cooldowns, exit ids, alerts | `on_quote`, `tick`, `start`/`stop`/`pause`/`resume` | awaits between read and use; exits triggered by each quote | a level sells once; signals keep their distance; stop quiesces |
| Outbox (`notifications/__init__.py`, `outbox_delivery.py`) | messages and delivery state, in memory and SQL | `enqueue`, `flush_once`, `requeue` | lost answers, failing SQL, a dying dispatcher | at least once, bounded, never stuck |
| Audit chain (`store.py`, `persistence.py`) | hash-linked events, a bounded deque over a table | `add_audit`, `verify_audit_chain`, reload | eviction, lost and altered rows, clock steps | every change is seen, and nothing else |
| Store and persistence (`store.py`, `persistence.py`) | all of this, in memory and SQL | one write per transaction | memory and table diverge; bounded deques evict | a restart loses nothing that was acknowledged |
| Realtime feeds (`market_settrade.py`, `market/`) | connection, sequence numbers, tasks | connect, callbacks, watch, stop | callbacks from several SDK threads, silences, reconnects | every number accepted or counted as missing; silence is noticed |
| Video EA (`video_ea.py`, `video_ea_runtime.py`) | plan, cycle snapshot | `plan`, `arm`, `on_price`, `pause`, `reset`, `snapshot`, `restore` | failed saves, lost answers, restarts; a state shown before it is saved | a trigger is reported once, and never after its cycle is over |
| Strategies, backtests, research (`strategy.py`, `indicators.py`, `backtest.py`, `research.py`, `video_ea_research.py`) | bars, strategy versions | signals, backtests, replay, walk-forwards, register | boundaries, late bars, races of replicas | no look-ahead; the ledger balances; a version means one thing |
| Authentication (`auth.py`, `security.py`) | revoked sessions | issue, authenticate, revoke | pruning against expiry, restart | what is accepted was issued, is current and was not revoked |
| Session reconciliation, prediction markets, CCXT broker, integrations, API | | | | see "Not modelled" |

All handlers share one asyncio loop. Components interact by direct calls and
through the store: the API, the automation engine and the agents call
`TradingService`; the service and the reconciliation worker both write the order
table and the gate; quotes reach the paper broker and the exits through
`AutomationEngine.on_quote`; the automation engine writes notifications that the
dispatcher sends.

## Modules

A step is, throughout, the code between two awaits that really suspend, or, where
a process death between two writes matters, between two SQL transactions. What a
handler read before it was suspended is part of its state.

**`OrderExecution`** models submission, cancellation, reconciliation and the
broker together, because the order table and the gate are shared between them.

| Variable | Code |
|---|---|
| `claims` | table `idempotency_keys` |
| `orders` | table `orders`, by origin (written by `submit`, or adopted by a run) and request |
| `approvals` | table `live_approvals` |
| `ready` | `StateStore._broker_reconciliation_ready` |
| `phase`, `cancels` | the handler of each request and cancel call, with what it read before its await |
| `recon`, `lock`, `worker` | the run of each caller with its snapshot; lock holder; `ReconciliationWorker._task` |
| `venue` | the broker's own view (external) |

`Transmit` is `submit` from the portfolio's return to the hand-over to the SDK
thread; `Reject`, `RepeatRequest` and `RecheckFails` are its early exits;
`AnswerOk`, `AnswerAmbiguous`, `AnswerFailed` and `AnswerUncaught` are its four
`try` outcomes. `CancelStart` and `CancelOk`/`CancelAmbiguous`/`CancelFailed` are
the two halves of `cancel_order`; `ReconStart` and `ReconApply`/`ReconFail`/
`ReconUncaught` those of a run. `Restart` drops everything that is not durable.
`LateFailures` says whether an error that `submit` takes for definite may come
after the broker took the order. The broker is assumed to confirm a cancellation
only of an order it has cancelled, and to list every order it has.

**`RiskGate`** models the decision itself: `RiskContext` is `risk_context_for`,
`Approved` is `RiskEngine.evaluate` for equities. A request reads the portfolio
(`RequestPortfolio`), is suspended, decides on the store as it is by then
(`Evaluate`) and waits for the broker, which fills the order, lets it rest or refuses
it (`OrderFilled`, `OrderRests`, `BrokerRefuses`) before it answers. A market order
fills at the offer or the bid (`MarketPrice`), a limit order at its price or, with price
improvement, at a better one (`FillPrices`), as the paper broker does; checks and marks
use the last price. `SubmissionAnswered` has the three outcomes of the call: the answer
is recorded; it is ambiguous, and a row without the broker's number waits for
reconciliation; or it raises, and nothing is recorded of an order the broker may have
(`brokerOrders`). Reconciliation is `Merged`, `Adopted` and `MissingRemote`, one order of
a run at a time, over a snapshot of any age; `returned` marks the rows it opened.
`AgentOrder` is `submit_guarded_order` with the default context. `SweepBegins` and
`SweepStep` are `cancel_open_orders`, target after target, with `CancelOutcome` shared
with single cancellations.

The model allows more than the code in two places: a run may look at an order at any
time, and the reconciliation gate does not keep broker submissions waiting. Orders that
were placed outside zksato and are found by a run are left out; so are, in `Approved`,
daily loss and drawdown limits, take-profit and board lots (each a comparison of its own
with nothing else in the model), and net exposure, which equals gross exposure for long
positions.

**`PaperTrading`** models paper mode at the grain of SQL transactions. Nothing on
these paths suspends, so `job` holds the single handler that runs and the write it
has reached; `Crash` may fall between any two writes. `Submit`, `PlaceFill`,
`PlaceRest`, `PlaceFails` are `submit` with `PaperBroker.place_order`;
`SaveOrder` and `RecordFill` the later writes of a fill; `OnQuote` with the
`Match...` and `Exit...` actions are the loops of `on_quote`; `Reconcile...` is a
reconciliation run on the paper broker. The broker's own duplicate check
(`broker/paper.py` 58-59) is subsumed by the claim made before it.

**`Automation`** models the engine around that: commands, the quote path under its
lock, and evaluation, which happens outside the lock and suspends for sentiment,
portfolio and order. `handler` is what each concurrent call of `on_quote` or
`tick` is doing; its `orphan` flag is set by `stop` and `pause` and only read by
the property. What the strategy decides is a choice.

**`VideoEaPlanner`** is the planner of the video-derived EA as operators: ATR,
pivots, breakout and retest, direct rejection, zone, ladder, caps and
invalidation. The bearish half of the code is the bullish half of the candles
turned upside down (`Flip`). **`VideoEaCycle`** is the runtime behind its routes:
each request loads the snapshot, changes it, saves it and answers, and
`SaveAndAnswer` lets the save fail or the answer be lost. `ShowState`, the one request
that saves nothing, answers from memory. `Arm` takes the plan offered or any other a
client posts (`ClientPlans`), also one in which two triggers share a key.
**`VideoEaPromise`** is what the operator may rely on, with no prices, snapshots or
failures in it: reported triggers only accumulate, each once, none that an answer has
shown fired and none in a cycle an answer has shown to be over. What an answer showed
while it was not `durable` may be withdrawn, but never a report or the end of a cycle
that was declared by a saved answer. `VideoEaCycle` implements it (`KeepsPromise`), with
`durable` where memory and row agree: only what the state endpoint showed of a failed
save can be taken back. The offset `grid_step_abs` of a ladder's step is left out; no
property depends on the size of a step.

**`SettradeFeed`** models `start`, `stop` and `_supervise` with several supervisors
alive at once (a `start` may overtake a `stop` that still waits; a `stop` re-raises what
ended the supervisor and then drops nothing), and the watchdog. `_accept_sequence` runs
on threads of the SDK without a lock: `PriceArrives` reads the previous number,
`PriceDropped` or `PriceAccepted` writes the outcome, and in between another thread may
do the same. A subscription has one thread at a time, so two are under way together only
when one is leaked (its `stop` raised) or was stopped within its callback.
`overtaken` records that a number was accepted against a previous one that had been
replaced. **`CcxtFeed`** models the rounds of `_run`, its streams, and the
quotes on their way to the store: a book message copies the stored quote, so quotes
in the queue can be older than the last trade.

**`NotificationOutbox`** models the queue in memory and in SQL, the retry plan and
the dispatcher. Every write has an outcome `ok`; when the SQL statement fails,
memory has changed and the table has not, and the dispatcher's task ends. `Attempt`
commits the count and `Request` makes the request, so a process may die between them;
`cut` counts the attempts lost that way, `tries` the requests since the last requeue.
Time is a logical clock in units of the base delay, because the due order decides who is in
a batch.

**`AuditChain`** has the deque, the table and the order events were written in; a
hash is the event's content with its predecessor's hash, so it is collision-free by
construction. `RowLost` and `RowAltered` are what verification is there to find;
`ClockStepsBack` is there because the table is reloaded by time stamp.
**`AuthSessions`** has issued sessions, their revocation with pruning, roles and the
CSRF rule. **`RateLimit`** has the local sliding window and the fixed window in
Redis. **`StrategyRegistry`** has replicas that share a table and write their own
memory first.

**`Strategies`** translates the engine's strategies and indicators. Averages are
kept as integers over known denominators and every comparison is multiplied out,
so comparisons are exact where the code's floats round; equality cases are
therefore those of real arithmetic. **`Research`** has bars, the backtester's ledger
(money in units of 1/`RateBase`^2, so fees are exact), replay, the sweep and the
two walk-forwards, written as two loops as in the code; `RollingWalkForward` says when
the rolling one `raises` for want of a window, where the other answers none. `Validated`
is what the validators of the strategy settings admit. Replay's session filter and the
limit of `ListBars` (100,000 rows) are left out. Its invariants compare the
history the ingested bars make with the constant set of histories for which the
claim holds (`BalancedHistories`, `CausalHistories`, ...), which TLC evaluates once.
`SignalsMirror` turns a history upside down within its own range of prices and asks
for the opposite signal of the four crossing strategies, and of the sentiment strategy
where its thresholds lie evenly around 50.

**Proofs.** `OrderExecutionProofs`, `PaperTradingProofs`, `VideoEaCycleProofs`,
`ResearchProofs` and `NotificationOutboxProofs` hold the theorems about the module they
are named after; `DeskProofs` (automation, risk gate, CCXT feed) and `ServicesProofs`
(audit, sessions, limiter, registry, Settrade feed) those about the others, and about
the two suites below. `InductionFacts` has what they share: least elements, sums,
iterations and greatest elements.

**Suites.** `MCTradingDesk` and `MCServices` put the components that share no
variable into one run each: `component` is chosen at the start and only that one
moves. The run explores the sum of their state spaces; nothing is lost, since no
step of one can enable or disturb a step of another. `MCOrderExecution`,
`MCPaperTrading`, `MCRiskGate`, `MCVideoEaCycle` and `MCAuditChain` give constants their
values. Two submitters at the risk gate make a state space of their own (`risk_orders`);
in the suite the gate has one, for its types and for the sweep.

## Runs

| Run | Checks | Result |
|---|---|---|
| `order_safety` | `AtMostOncePlacement`, `GateSound`, `LocalTruth`, `GateOpensOnEvidence` | hold |
| `order_convergence` | `TypeOK`, `OneApprovalPerPlacement`, `Converges`, `GateReopens` (liveness) | hold |
| `trading_desk`, paper | `Conservation`, `OneExitPerLevel`, `FillsBounded`, `PaperTerminalIsFinal`, `ReconcileHeals` | hold |
| `trading_desk`, risk | `SweepAccounted` | hold |
| `trading_desk`, bot | `CooldownHolds`, `AlertOnce`, `StopQuiesces` | hold |
| `trading_desk`, video EA | `PlanSound`, `KeepsPromise` (refinement) | hold |
| `trading_desk`, CCXT feed | `OneStreamEach`, `LastTradeWins` | hold |
| `trading_desk`, research | `BacktestBalances`, `NoLookAhead`, `WalkForwardsAgree`, `SignalsMirror` | hold |
| `services`, outbox | `SentWasReceived`, `AttemptsBounded`, `NotAbandonedEarly`, `EveryMessageSettles` (liveness) | hold |
| `services`, Settrade feed | `GapsAccounted`, `SilenceEnds` (liveness) | hold |
| `services`, others | `AcceptedIsAuthentic`, `RateFair`, `VerifiedIsAsWritten`, `ShortChainVerifies`, `OneMeaningPerVersion` | hold |
| `risk_orders` | `GateHolds`, `OpenOrdersBounded` | hold |
| `order_late_failure` | `AtMostOncePlacement` with late failures | violated |
| `order_unknown` | `UnknownIsResolved` | violated |
| `paper_restart` | `RestartSafe` | violated |
| `risk_agent` | `AgentsAreGated` | violated |
| `risk_market` | `LimitsEnforced` | violated |
| `outbox_requeue` | `DeadIsExhausted` | violated |
| `audit_eviction` | `RetainedChainVerifies` | violated |

The suites also check one type invariant each (`DeskTypeOK`, `ServicesTypeOK`).

Some properties hold with a qualification that is part of what they say.
`OpenOrdersBounded`: `max_open_orders` is exceeded by as many submissions as are in
flight beside the last, and is said of the orders that requests recorded: rows that a
run of reconciliation adopted or reopened come on top, as many as late failures and old
snapshots leave, and agents are not limited (`risk_agent`). `SweepAccounted`: a target
that is open when the sweep has returned was reopened by reconciliation after its
cancellation; nothing else opens one. `GateHolds`: limits bind an order that nothing
overtook and that is bought at no more than the price that was checked, as a limit order
always is (`risk_market` shows the market order above it); the exposures only if the
mark is not above the price checked, and unless an earlier race had left the account
short of something (the checks of a buy look at the symbol's value, and a short position
is negative). `GapsAccounted`: until two threads overtake each other in the check: both read
one previous number, and both may accept the next. `NotAbandonedEarly`: an attempt that a death cut between its count and
its request is one the message loses, one for each death, and a requeue that failed in
SQL or that an attempt in flight overtook gives no new tries (`outbox_requeue`).
`KeepsPromise`: what the state endpoint showed of a failed save may be withdrawn by a
restart.
`LocalTruth` says that a record is never ahead of the broker, not that it never goes
back: a snapshot listed before a cancellation and merged after it opens the order again
until the next run (`Converges`). Nor does it say that an order has one record: one that
a run adopts while its submission waits for the answer gets a second from `submit`.
`StopQuiesces`: a handler under way when the bot stops still sends its order.
`SilenceEnds`: before the first message a silent feed is watched for ever.
`RateFair`: the fixed window admits up to twice the limit around its edge.
`OneMeaningPerVersion`: a replica whose insert failed keeps a version no table has,
until it restarts. `PlanSound`: triggers may share the lowest tick, and
prices are integers with `\div`, where the code divides floats.

What the violated runs show (the quotes are in `PROJECT.json`, "findings"):

* `order_late_failure`: `submit` releases the claim on any `RuntimeError`,
  `ValueError` or `OSError`, also one raised while the broker's answer is mapped.
  A retry of the same id then places a second order.
* `order_unknown`: the record of an ambiguous submission has no broker order id and
  the broker's list has no client order id, so nothing ever matches the two; the
  gate stays shut. `GateReopens` holds because it excludes exactly these records
  (`Stuck`).
* `paper_restart`: the account and the order of one fill are separate transactions.
  `Conservation` holds for every other crash point.
* `risk_agent`: an agent's order is judged by a default context, in which nothing is
  held, open or spent.
* `risk_market`: a market order is checked at the last price and filled at the offer; a
  position or exposure limit that passed is exceeded by the account it leaves.
* `outbox_requeue`: a requeue while the last attempt is in flight resets the recorded
  count, but the failure dead-letters by the count the dispatcher copied before.
* `audit_eviction`: the first event left in a full deque has a predecessor, which
  `verify_audit_chain` takes for a broken chain; `/readyz` then answers 503.

**Bounds.** `order_safety` has two tries of one id, quantity 2 (so that partial
fills exist), one cancel call, two reconciliation callers and one restart: the
smallest instance in which a retry, an old snapshot, an old cancel record and an
expired lock meet; the theorems remove the bound. `order_convergence` has live orders of
two requests that present one approval, one with an id and one without: one of them is
placed, and may fail late or unknown, be cancelled or be left by a restart. Runs treat
orders one by one, so convergence needs no more.

In `trading_desk`: paper has one order of each kind that can interact, two symbols
(the exit loop ignores the quote's), three quotes (rest, partial fill, exit) and one
crash. Risk has one submitter with two submissions and `MaxMoves` 3: a quote, a sweep and
one more, which may be a lost answer, another cancellation or what a run finds, so that a
target of a sweep can be reopened. `risk_orders` has two submitters and `MaxSubmissions`
3, so that one decides while another is in flight and a third has settled, with two
moves; the limits of `MCLimits` all bind, and of the two quotes one has an offer above
the last price. The bot has two concurrent
handlers (`MaxCalls` 2), two symbols, two commands and three instants, enough for a
stop and a restart of the bot within a suspended evaluation. The video EA plans from
histories that break out, dip and fall, and arms twice, with a plan of the planner's or a
client's, with two faults: a failed save and the restart that finds it. The CCXT feed has two streams, four messages,
a queue of two and time for two stalls. Research has every history of up to six bars
at two prices with costs of 5% (`RateBase` 20), which makes every crossing, equality
and last affordable lot happen; the period of 20 in `_scalp` is 4 there
(`BandPeriod`) so that six bars can fill it. `MCNames` names the strategies it runs.

In `services`: the outbox has two messages that compete for a batch of one, two
attempts, a requeue in all (`MaxRequeues` bounds their total) and a restart; the Settrade
feed two supervisors, two threads, three messages and three numbers, so that a number can
be accepted, repeated, skipped or late, and read by both threads at once; authentication one session through expiry, revocation, pruning
and restart; the limiter windows of three ticks over seven; the audit a deque of
three and four events; the registry three replicas, two meanings and two faults.

**Deadlock** is not checked in the suites and the runs of their components alone, where a component rests when its bounds are used up; the order and
paper runs have it on.

**Fairness.** `OrderExecution`: strong fairness of the worker's start and of its
successful application (it polls for ever, and a broker that refuses every listing
can converge to nothing), weak fairness of an operator's run to its end, and of the
expiry of a key whose owner is dead. No fairness is assumed of submissions, cancels
or the broker. `NotificationOutbox`: weak fairness of the dispatcher's loop (each
request ends by the httpx timeout) and of time. `SettradeFeed`: weak fairness of the
supervisor's poll and of the delivery of a cancellation, both of which the event
loop gives a task that is ready; none of connecting, of messages or of operators. In
the suite it is the fairness of the component that moves. The liveness properties
are conditional on the worker or dispatcher staying alive, since the code does not
restart them.

## Proofs

The proofs are for all values of the constants that the named assumptions of the
modules allow: any finite sets of requests, orders, submitters, symbols, messages or
replicas, and any number of faults. The assumptions say what the settings classes
check (positive sizes and limits), that identifiers differ, and which sets are
finite. For research: a cost is at most 100%, a sentiment threshold is a percentage, and the
grid and the times of bars are finite. That averages are over at least two prices is no
assumption, since the grid of a sweep is not validated: `SignalsMirror` asks its question
of the settings that are (`Validated`).
Eight modules hold them.

| Module | Theorem | Property |
|---|---|---|
| `OrderExecutionProofs` | `TypeCorrect` | `TypeOK` |
| | `GateIsSound` | `GateSound` |
| | `LocalRecordsTruthful` | `LocalTruth` |
| | `ApprovalsAreOneTime` | `OneApprovalPerPlacement` |
| | `PlacementIsIdempotent` (if `~LateFailures`) | `AtMostOncePlacement` |
| | `GateNeedsEvidence` | `GateOpensOnEvidence` |
| `PaperTradingProofs` | `PaperTypeCorrect` | `TypeOK` |
| | `CashIsConserved` | `Conservation` |
| | `ExitsAreBounded` | `OneExitPerLevel` |
| | `FillsAreBounded` | `FillsBounded` |
| | `PaperOrdersEnd` | `PaperTerminalIsFinal` |
| | `ReconciliationHeals` | `ReconcileHeals` |
| `DeskProofs`, risk | `RiskTypeCorrect` | `RiskTypeOK` |
| | `OpenOrdersAreBounded` | `OpenOrdersBounded` |
| | `SweepIsAccounted` | `SweepAccounted` |
| | `LimitsBindLoneOrders` | `GateHolds` |
| `DeskProofs`, bot | `OnlyOrphansTrade` | `StopQuiesces` |
| | `AlertsFireOnce` | `AlertOnce` |
| | `SignalsCoolDown` | `CooldownHolds` |
| | `BotTypeCorrect` | `BotTypeOK` (with the quote lock) |
| `DeskProofs`, CCXT feed | `StreamsAreSingle`, `LastTradeIsStored` | `OneStreamEach`, `LastTradeWins` |
| | `CcxtTypeCorrect` | `CcxtTypeOK` |
| `DeskProofs`, suite | `DeskStandsAlone` | every component's specification |
| | `DeskTypeCorrect` | `DeskTypeOK` |
| `VideoEaCycleProofs` | `CycleTypeCorrect` | `CycleTypeOK` |
| | `CycleKeepsPromise` | `KeepsPromise` (refinement) |
| | `PlansAreSound` | `PlanSound` |
| `ResearchProofs` | `BarsAreTyped` | `ResearchTypeOK` |
| | `BacktestsBalance` | `BacktestBalances` |
| | `PastIsEnough` | `NoLookAhead` |
| | `WalkForwardsAgreeAlways` | `WalkForwardsAgree` |
| | `SignalsMirrorAlways` | `SignalsMirror` |
| `NotificationOutboxProofs` | `OutboxInvariant`, `TypeCorrect` | `OutboxInv`, `TypeOK` |
| | `SentWasReceivedHolds` | `SentWasReceived` |
| | `AttemptsBoundedHolds` | `AttemptsBounded` |
| | `NotAbandonedEarlyHolds` | `NotAbandonedEarly` |
| `ServicesProofs` | `VerifiedChainIsAuthentic`, `NoFalseAlarm` | `VerifiedIsAsWritten`, `ShortChainVerifies` |
| | `LimiterIsFair` | `RateFair` |
| | `SessionsAreAuthentic` | `AcceptedIsAuthentic` |
| | `VersionsAreImmutable` | `OneMeaningPerVersion` |
| | `GapsAreAccounted` | `GapsAccounted` |
| `ServicesProofs`, suite | `ServicesStandAlone` | every component's specification |
| | `ServicesTypeCorrect` | `ServicesTypeOK` |

Each property is proved from an inductive invariant, which is what is missing from
the property itself:

* **Order execution.** The broker's order only moves on (`Later`, `VenueAdvances`), so
  whatever a handler read earlier is still true, if incomplete, when it is written.
  `LocalTruth` says nothing of the snapshots and records that handlers hold across an
  await: `SnapshotsOld` and `CancelsOld` say they are earlier looks at the broker.
  `Untouched` says that a request still idle has no order. For placement, the
  invariant is about every order that *may* exist (`MayExist` includes those in
  transit): `Claimed` (its id is claimed) and `OnePerId`. `Consumed` does the same for
  approvals. `NextCases` splits a step into its actions once; each conjunct has one
  lemma.
* **Paper trading.** `PaperInv` says what is known between two writes of one handler:
  what is being placed has no row (`PlacingOK`), a fill already in the account fits
  into its order (`SavedOK`), and a reconciliation has recorded what it has passed
  (`HealedOK`). For cash, `Balanced` is false while a fill is in the account and not
  in its order; `BalanceInv` counts the fill that runs as due (`DueValue`,
  `DueFilled`), so each write either moves both sides of the sum or neither.
* **Risk gate.** `OpenOrdersBounded` counts recorded orders only. `CountOK` counts, by
  number, the open ones that requests recorded (`RestingNumbers`) with the approved
  requests that have no answer yet (`OutNow`): a request is approved while fewer than the
  limit are open, and the others in flight add at most one each. It needs a number to be
  of one submission, one broker order and one row (`TasksOK`, `BrokerOK`, `TableOK`), so
  that what reconciliation adopts or reopens is told apart from what a request recorded.
  `SweepOK` says that a target the sweep is done with is not open unless it was returned.
  For `GateHolds`, `AloneInv` carries a decision across the await: while nobody moved
  the account or a last price, the portfolio a submission holds is still the account's and
  what its approval established (`Cleared`) still holds. Where the
  mark is below the checked price, the account has lost at most as much equity as the
  exposure falls short of what was checked, so a share within its limit stays within it
  (`ShareAfter`, `ExposureAfter`).
  The proof showed the qualifications above: without them larger instances than the run's
  break the property.
* **Automation.** `HandlerInv`: while automation does not run, every working handler is
  an orphan. `AlertInv`: an alert enabled in the table has not been notified and is not
  about to be. `CooldownInv`: no signal is later than `lastAction` of its symbol. `LockOK`:
  the quote lock is held by exactly the handler that is under it, so also by nobody
  after a raised exception or a restart.
* **Video EA.** `CycleInv`: a snapshot, in memory or in the row, knows every trigger
  reported in its cycle (`Knows`) and does not run once a saved answer has declared its
  cycle over; the snapshot in memory also knows everything any answer has shown
  (`Remembers`). A row may be older than memory, but never older than a saved answer, so
  only a restart takes something back, and only what is not in the row. From this every
  request is a step of `VideoEaPromise` or a stutter. For `PlanSound`, the step between levels is a whole
  number of ticks, so rounding shifts all levels alike (`LadderApart`) and by less than
  a step (`LadderSide`); the caps divide by the number of sides before they are
  multiplied back (`LevelsFacts`); and there is one trigger for each side and level
  (`LadderSize`).
* **Outbox.** `OutboxInv` relates the requests made to the attempts counted, from both
  sides: not fewer than counted, when those a death cut and the one counted and not yet
  requested are added (`CountedOK`, `Tried`), and not more than counted but for requeues
  and restarts (`BoundedOK`), with what is known of the request in flight.
* **Audit.** `AuditOK`: every record is as written but for its body, and its hash names
  its predecessor; so a chain that verifies is authentic in any state. `WholeHistory`
  holds until the first mishap or eviction.
* **Limiter.** `Spaced(n)`: admitted request i + n comes a window after request i; this
  bounds every window at once, with a deque (`LocalOK`) or a counter (`RedisOK`) that
  accounts for the last of them.
* **Sessions, registry, feeds.** A revocation is forgotten only after its claim has
  expired (`RevokedOK`); a replica without a failed insert knows the row or nothing
  (`RegistryInv`); no gap is counted before a first number (`FirstOK`), and a number
  accepted by a callback that nobody overtook is counted against the last one
  (`SettradeInv`); and the
  last quote in the queue, or else the stored one, has the last trade's price.

* **Research.** The code computes along the history, and the model as recursive
  functions of the bar. Each is first shown to satisfy its recursion for every index
  (`EmaSolved`, `PowerSolved`, the iteration of a backtest), and then an invariant is
  carried along it. For the ledger (`BalancedLedgers`): cash is not negative, no entry
  fee is kept when nothing is held, and cash, the cost of the position and its entry fee
  add up to the starting cash and the profits of the closed trades; `Affordable` is what
  keeps cash from falling below zero. A backtest of a part of the history is the same
  iteration stopped earlier, hence `NoLookAhead`. For the walk-forwards, the descending
  loop collects exactly the multiples of the step that fit, and `BetterOrEqual` is a
  total preorder (drawdowns are fractions with positive denominators), so that a first
  of the best rows exists. For `SignalsMirror`: averages over powers of their
  denominators are linear in the prices and have the same weight in all, so turning the
  prices round negates every gap (`SmaGapFlipped`, `EmaGapFlipped`, `MacdGapFlipped`),
  and leaves the variance of a band as it was (`BandFlipped`); each strategy then takes
  the mirrored branch, also where a gap is zero.
* **Suites.** Every step of a suite is a step of one component and a stutter of the
  others (`DeskStandsAlone`, `ServicesStandAlone`), so what is proved of a component
  alone holds in the suite.

`InductionFacts` is about sums over finite sets, used by the paper ledger, the ATR, the
exposures and the averages, and about iterations.
The library's induction theorems take operators, which the provers cannot instantiate;
its proofs are by a minimal counterexample instead: a set of natural numbers has a
least member (`LeastNat`, from well-foundedness), so of the sets for which a fact
fails there is a smallest. For this the sums are written with `SumFunctionOnSet`.

**Only model-checked.** Liveness (`Converges`, `GateReopens`, `EveryMessageSettles`,
`SilenceEnds`), which is out of the prover's reach. Every other property of a passing
run is a theorem.

## Plan

The modules, runs and theorems planned are in place. What would extend them: the
evaluation of live signals against later prices and the promotion of a strategy
version, once more than statistics depends on them; the CCXT broker's listings, which
leave out what they cannot reach (a hazard in `PROJECT.json`); and the eviction of open
orders from the in-memory list.

## Not modelled

* Prediction markets: nothing in the served program constructs their broker, and the
  feed makes up its ticks; a stand-alone simulation in floating point.
* CCXT broker: placing and cancelling have the outcomes of `OrderExecution`; its
  partial listings are noted as a hazard.
* Session reconciliation: one comparison of two position lists, reported only.
* `on_basket_pnl_r`, `PortfolioRiskManager`, the bodies of the candle strategies:
  no caller reaches them.
* Monte-Carlo, sensitivity, heat maps, drift, promotion and the result ratios:
  statistics over results that are modelled.
* Parsing of settings and messages, HTTP routing, the dashboard, metrics, and I/O
  adapters without state.
