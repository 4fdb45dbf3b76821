----------------------------- MODULE Automation -----------------------------
(***************************************************************************)
(* The automation engine of zksato (automation.py), with the endpoints     *)
(* that drive it (api.py): quotes and ticks are handled by tasks of one    *)
(* event loop, which suspend while they wait for the sentiment of a        *)
(* symbol, the portfolio, and the broker's answer; start, stop, pause and  *)
(* resume come in between.                                                 *)
(*                                                                         *)
(* What a strategy decides is any of its signals; a signal below the       *)
(* confidence threshold is a hold.  A strategy that needs no sentiment     *)
(* waits for no time.  A quote older than the stored one returns at once   *)
(* and changes nothing here.  Protective exits are in PaperTrading, the    *)
(* risk check of an order in RiskGate: here it is blocked or not.          *)
(***************************************************************************)
EXTENDS Integers, SequencesExt

CONSTANTS
    BotSymbols,     \* the symbols of quotes and configurations
    Handlers,       \* concurrent on_quote and tick calls
    BotConfigs,     \* BotConfig: symbols, cooldown, maxSignals, auto, size
    MaxBotTime,     \* bounds on the clock, on handler calls, on commands
    MaxCalls, MaxCommands

NoConfig == [symbols |-> <<>>]
Free == "free"
HandlerIdle == [phase |-> "idle"]

ASSUME AutomationAssumption ==
    /\ MaxBotTime \in Nat /\ MaxCalls \in Nat /\ MaxCommands \in Nat
    /\ Free \notin Handlers
    /\ \A c \in BotConfigs :
         /\ c.symbols \in Seq(BotSymbols)
         /\ c.cooldown \in Nat /\ c.maxSignals \in Nat /\ c.size \in Nat \ {0}

VARIABLES
    bot,            \* status: the state, and the configuration or NoConfig
    handler,        \* what each handler is doing
    quoteLock,      \* the _quote_lock: free, or its holder
    lastAction,     \* _last_action: per symbol a time, -1 for none
    signalsThisTick,
    signals,        \* the signals this process generated
    held,           \* the account's position per symbol
    quoted,         \* symbols the store has a quote for
    alert,          \* one price alert: enabled in memory and in the table, times notified
    botTime, calls, commands

botVars == <<bot, handler, quoteLock, lastAction, signalsThisTick, signals, held, quoted,
             alert, botTime, calls, commands>>

BotInit ==
    /\ bot = [state |-> "stopped", config |-> NoConfig]
    /\ handler = [h \in Handlers |-> HandlerIdle]
    /\ quoteLock = Free
    /\ lastAction = [s \in BotSymbols |-> -1]
    /\ signalsThisTick = 0
    /\ signals = {}
    /\ held = [s \in BotSymbols |-> 0]
    /\ quoted = {}
    /\ alert = [memory |-> TRUE, table |-> TRUE, notified |-> 0]
    /\ botTime = 0 /\ calls = 0 /\ commands = 0

-----------------------------------------------------------------------------
(* Commands.  orphan marks the handlers under way when automation leaves   *)
(* the running state.                                                      *)

Orphaned == [h \in Handlers |-> IF handler[h] = HandlerIdle THEN HandlerIdle ELSE [handler[h] EXCEPT !.orphan = TRUE]]

Command == commands < MaxCommands /\ commands' = commands + 1

\* start: a new BotStatus; the cooldowns and the signal count stay.
Start(c) ==
    /\ Command
    /\ bot' = [state |-> "running", config |-> c]
    /\ UNCHANGED <<handler, quoteLock, lastAction, signalsThisTick, signals, held, quoted, alert, botTime, calls>>

Stop ==
    /\ Command
    /\ bot' = [bot EXCEPT !.state = "stopped"]
    /\ handler' = IF bot.state = "running" THEN Orphaned ELSE handler
    /\ UNCHANGED <<quoteLock, lastAction, signalsThisTick, signals, held, quoted, alert, botTime, calls>>

PauseBot ==
    /\ Command
    /\ bot.state = "running"
    /\ bot' = [bot EXCEPT !.state = "paused"]
    /\ handler' = Orphaned
    /\ UNCHANGED <<quoteLock, lastAction, signalsThisTick, signals, held, quoted, alert, botTime, calls>>

ResumeBot ==
    /\ Command
    /\ bot.state = "paused"
    /\ bot' = [bot EXCEPT !.state = "running"]
    /\ UNCHANGED <<handler, quoteLock, lastAction, signalsThisTick, signals, held, quoted, alert, botTime, calls>>

\* The process is restarted: what the engine keeps in memory is lost, the alerts
\* are loaded from their table.
BotRestart ==
    /\ Command
    /\ bot' = [state |-> "stopped", config |-> NoConfig]
    /\ handler' = [h \in Handlers |-> HandlerIdle]
    /\ quoteLock' = Free
    /\ lastAction' = [s \in BotSymbols |-> -1]
    /\ signalsThisTick' = 0 /\ signals' = {} /\ quoted' = {}
    /\ alert' = [alert EXCEPT !.memory = alert.table]
    /\ UNCHANGED <<held, botTime, calls>>

BotTick ==
    /\ botTime < MaxBotTime /\ botTime' = botTime + 1
    /\ UNCHANGED <<bot, handler, quoteLock, lastAction, signalsThisTick, signals, held, quoted, alert, calls, commands>>

-----------------------------------------------------------------------------
(* Evaluation.                                                             *)

\* The loop over symbols goes on to the next that has a quote by now, and
\* _evaluate_symbol reads the current configuration; with no symbol left the
\* handler ends.
Evaluating(symbols, orphan) ==
    LET ready == {i \in 1..Len(symbols) : symbols[i] \in quoted}
        next == CHOOSE i \in ready : \A j \in ready : i <= j
    IN  IF ready = {} THEN HandlerIdle
        ELSE [phase |-> "sentiment", symbol |-> symbols[next],
              todo |-> SubSeq(symbols, next + 1, Len(symbols)),
              config |-> bot.config, orphan |-> orphan]

InCooldown(s, seconds) == lastAction[s] >= 0 /\ botTime - lastAction[s] < seconds

\* Mutant: only a signal that is executed starts the cooldown.
StampExecuted(c, s) == IF c.auto THEN [lastAction EXCEPT ![s] = botTime] ELSE lastAction

\* _last_action is set before the signal is executed, or not executed.
Stamp(c, s) == [lastAction EXCEPT ![s] = botTime]

\* The sentiment arrives and the strategy decides; a signal may be held back by
\* the cooldown or the cap, only notified, or executed.  _execute_signal reads the
\* configuration again.
SentimentArrives(h, action) ==
    /\ handler[h].phase = "sentiment"
    /\ LET s == handler[h].symbol
           c == handler[h].config
           held_back == action = "hold" \/ InCooldown(s, c.cooldown)
                          \/ (c.maxSignals > 0 /\ signalsThisTick >= c.maxSignals)
       IN  \/ /\ held_back
              /\ handler' = [handler EXCEPT ![h] = Evaluating(@.todo, @.orphan)]
              /\ UNCHANGED <<lastAction, signalsThisTick, signals>>
           \/ /\ ~held_back
              /\ signalsThisTick' = IF c.maxSignals > 0 THEN signalsThisTick + 1 ELSE signalsThisTick
              /\ lastAction' = Stamp(c, s)
              /\ signals' = signals \cup {[symbol |-> s, at |-> botTime, by |-> <<h, calls>>, cooldown |-> c.cooldown]}
              /\ handler' = [handler EXCEPT ![h] =
                               IF c.auto
                               THEN [phase |-> "portfolio", symbol |-> s, action |-> action, todo |-> @.todo,
                                     size |-> bot.config.size, orphan |-> @.orphan]
                               ELSE Evaluating(@.todo, @.orphan)]
    /\ UNCHANGED <<bot, quoteLock, held, quoted, alert, botTime, calls, commands>>

\* The portfolio arrives: a buy needs no position, a sale needs one.
PortfolioArrives(h) ==
    /\ handler[h].phase = "portfolio"
    /\ LET position == held[handler[h].symbol]
           wanted == IF handler[h].action = "buy" THEN position <= 0 ELSE position > 0
           change == IF handler[h].action = "buy" THEN handler[h].size
                     ELSE -(IF handler[h].size < position THEN handler[h].size ELSE position)
       IN  handler' = [handler EXCEPT ![h] =
                         IF wanted THEN [phase |-> "placing", symbol |-> @.symbol, todo |-> @.todo,
                                         change |-> change, orphan |-> @.orphan]
                         ELSE Evaluating(@.todo, @.orphan)]
    /\ UNCHANGED <<bot, quoteLock, lastAction, signalsThisTick, signals, held, quoted, alert, botTime, calls, commands>>

\* risk_context_for and submit: the order is filled, or blocked; the broker
\* refuses a sale of more than is held.
OrderAnswered(h, filled) ==
    /\ handler[h].phase = "placing"
    /\ filled => held[handler[h].symbol] + handler[h].change >= 0
    /\ held' = IF filled THEN [held EXCEPT ![handler[h].symbol] = @ + handler[h].change] ELSE held
    /\ handler' = [handler EXCEPT ![h] = Evaluating(@.todo, @.orphan)]
    /\ UNCHANGED <<bot, quoteLock, lastAction, signalsThisTick, signals, quoted, alert, botTime, calls, commands>>

\* An await raises something _execute_signal does not catch: the handler ends.
HandlerRaises(h) ==
    /\ handler[h].phase \in {"sentiment", "portfolio", "placing"}
    /\ handler' = [handler EXCEPT ![h] = HandlerIdle]
    /\ UNCHANGED <<bot, quoteLock, lastAction, signalsThisTick, signals, held, quoted, alert, botTime, calls, commands>>

-----------------------------------------------------------------------------
(* on_quote and tick.                                                      *)

\* on_quote takes the lock and updates the quote.
QuoteBegins(h, s) ==
    /\ calls < MaxCalls /\ calls' = calls + 1
    /\ handler[h] = HandlerIdle /\ quoteLock = Free
    /\ quoteLock' = h
    /\ quoted' = quoted \cup {s}
    /\ handler' = [handler EXCEPT ![h] = [phase |-> "locked", symbol |-> s, orphan |-> FALSE]]
    /\ UNCHANGED <<bot, lastAction, signalsThisTick, signals, held, alert, botTime, commands>>

\* Mutant: the alert is disabled in memory only.
DisableUnsaved == [alert EXCEPT !.memory = FALSE]

\* add_alert: the alert is disabled in memory and then in the table.
Disable == [alert EXCEPT !.memory = FALSE, !.table = FALSE]

\* _check_alerts: the quote triggers the alert, which is disabled before it is
\* notified; when saving it raises, the handler ends and nothing is notified.
AlertTriggers(h) ==
    /\ handler[h].phase = "locked" /\ alert.memory
    /\ \/ /\ alert' = Disable
          /\ handler' = [handler EXCEPT ![h].phase = "notifying"]
          /\ UNCHANGED quoteLock
       \/ /\ alert' = [alert EXCEPT !.memory = FALSE]
          /\ handler' = [handler EXCEPT ![h] = HandlerIdle]
          /\ quoteLock' = Free
    /\ UNCHANGED <<bot, lastAction, signalsThisTick, signals, held, quoted, botTime, calls, commands>>

\* _notify puts the message into the outbox.
AlertNotified(h) ==
    /\ handler[h].phase = "notifying"
    /\ alert' = [alert EXCEPT !.notified = @ + 1]
    /\ handler' = [handler EXCEPT ![h].phase = "locked"]
    /\ UNCHANGED <<bot, quoteLock, lastAction, signalsThisTick, signals, held, quoted, botTime, calls, commands>>

\* Mutant: a quote is evaluated whatever the state of the bot.
EvaluatedAlways(s) == Contains(bot.config.symbols, s)

\* on_quote goes on when automation runs and the symbol is configured.
Evaluated(s) == bot.state = "running" /\ Contains(bot.config.symbols, s)

QuoteReleases(h) ==
    /\ handler[h].phase = "locked"
    /\ quoteLock' = Free
    /\ handler' = [handler EXCEPT ![h] = IF Evaluated(@.symbol) THEN Evaluating(<<@.symbol>>, @.orphan) ELSE HandlerIdle]
    /\ UNCHANGED <<bot, lastAction, signalsThisTick, signals, held, quoted, alert, botTime, calls, commands>>

\* tick: every configured symbol with a quote is evaluated in turn; the state is
\* not looked at again between them.
TickBegins(h) ==
    /\ calls < MaxCalls /\ calls' = calls + 1
    /\ handler[h] = HandlerIdle /\ bot.state = "running"
    /\ signalsThisTick' = 0
    /\ handler' = [handler EXCEPT ![h] = Evaluating(bot.config.symbols, FALSE)]
    /\ UNCHANGED <<bot, quoteLock, lastAction, signals, held, quoted, alert, botTime, commands>>

BotNext ==
    \/ \E c \in BotConfigs : Start(c)
    \/ Stop \/ PauseBot \/ ResumeBot \/ BotRestart \/ BotTick
    \/ \E h \in Handlers, s \in BotSymbols : QuoteBegins(h, s)
    \/ \E h \in Handlers :
         \/ AlertTriggers(h) \/ AlertNotified(h) \/ QuoteReleases(h) \/ TickBegins(h)
         \/ \E action \in {"buy", "sell", "hold"} : SentimentArrives(h, action)
         \/ PortfolioArrives(h) \/ HandlerRaises(h)
         \/ \E filled \in BOOLEAN : OrderAnswered(h, filled)

BotSpec == BotInit /\ [][BotNext]_botVars

-----------------------------------------------------------------------------
(* Properties.                                                             *)

\* The variables have their types; the lock is held by a handler under it.
BotTypeOK ==
    /\ bot.state \in {"stopped", "running", "paused"} /\ bot.config \in BotConfigs \cup {NoConfig}
    /\ \A h \in Handlers : handler[h].phase \in
         {"idle", "locked", "notifying", "sentiment", "portfolio", "placing"}
    /\ \A h \in Handlers : (quoteLock = h) <=> handler[h].phase \in {"locked", "notifying"}
    /\ lastAction \in [BotSymbols -> -1..MaxBotTime] /\ signalsThisTick \in Nat
    /\ held \in [BotSymbols -> Nat] /\ quoted \subseteq BotSymbols
    /\ alert.memory \in BOOLEAN /\ alert.table \in BOOLEAN /\ alert.notified \in Nat

\* Two signals of one process for the same symbol are the cooldown of the later
\* one apart (of two at the same time either may be the later), whichever
\* handlers generated them and however they were suspended (_in_cooldown).
CooldownHolds ==
    \A a, b \in signals :
      a # b /\ a.symbol = b.symbol /\ a.at <= b.at =>
        b.at - a.at >= b.cooldown \/ (a.at = b.at /\ a.cooldown = 0)

\* An order sent while automation does not run comes from a handler that was
\* already under way when it stopped or paused (stop and pause let it finish).
StopQuiesces ==
    [][\A h \in Handlers :
         handler[h].phase # "placing" /\ handler'[h].phase = "placing" /\ bot.state # "running"
           => handler[h].orphan]_botVars

\* A price alert is notified at most once, whatever saves fail and whenever the
\* process restarts (_check_alerts disables it, durably, first).
AlertOnce == alert.notified <= 1
=============================================================================
