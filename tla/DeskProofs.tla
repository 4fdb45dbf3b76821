----------------------------- MODULE DeskProofs -----------------------------
(***************************************************************************)
(* Proofs about the automation engine, for any number of symbols and       *)
(* concurrent handlers, any configurations, and any order of quotes,       *)
(* ticks, commands, suspensions and restarts; about the risk gate and      *)
(* cancel_open_orders, for any number of concurrent submitters; about the  *)
(* CCXT feed, for any streams and messages; and about the suite that       *)
(* MCTradingDesk makes of them and of the other trading components.        *)
(***************************************************************************)
EXTENDS MCTradingDesk, PaperTradingProofs, VideoEaCycleProofs, ResearchProofs, InductionFacts,
        SequenceTheorems, TLAPS

-----------------------------------------------------------------------------
(* What a handler is doing.                                                *)

UnderLock == [phase: {"locked", "notifying"}, symbol: BotSymbols, orphan: BOOLEAN]
Thinking == [phase: {"sentiment"}, symbol: BotSymbols, todo: Seq(BotSymbols),
             config: BotConfigs, orphan: BOOLEAN]
Asking == [phase: {"portfolio"}, symbol: BotSymbols, action: {"buy", "sell"},
           todo: Seq(BotSymbols), size: Nat, orphan: BOOLEAN]
Placing == [phase: {"placing"}, symbol: BotSymbols, todo: Seq(BotSymbols), change: Int,
            orphan: BOOLEAN]
Working == Thinking \cup Asking \cup Placing
HandlerStates == {HandlerIdle} \cup UnderLock \cup Working

\* A configuration is there whenever one is read, and while automation does not
\* run only handlers that were under way when it stopped still work.
HandlerInv ==
    /\ bot \in [state: {"stopped", "running", "paused"}, config: BotConfigs \cup {NoConfig}]
    /\ bot.state # "stopped" => bot.config \in BotConfigs
    /\ handler \in [Handlers -> HandlerStates]
    /\ quoted \subseteq BotSymbols
    /\ held \in [BotSymbols -> Nat]
    /\ \A h \in Handlers : handler[h] \in Working => bot.config \in BotConfigs
    /\ \A h \in Handlers : handler[h] \in Working /\ bot.state # "running" => handler[h].orphan = TRUE

\* The phases tell the kinds of handler states apart.
LEMMA PhaseFacts ==
    ASSUME NEW x \in HandlerStates
    PROVE  /\ x.phase \in {"idle", "locked", "notifying", "sentiment", "portfolio", "placing"}
           /\ x.phase = "idle" <=> x = HandlerIdle
           /\ x.phase \in {"locked", "notifying"} <=> x \in UnderLock
           /\ x.phase = "sentiment" <=> x \in Thinking
           /\ x.phase = "portfolio" <=> x \in Asking
           /\ x.phase = "placing" <=> x \in Placing
           /\ x \in Working <=> x.phase \in {"sentiment", "portfolio", "placing"}
<1>1. HandlerIdle.phase = "idle"
  BY DEF HandlerIdle
<1>2. \A y \in UnderLock : y.phase \in {"locked", "notifying"}
  BY DEF UnderLock
<1>3. \A y \in Thinking : y.phase = "sentiment"
  BY DEF Thinking
<1>4. \A y \in Asking : y.phase = "portfolio"
  BY DEF Asking
<1>5. \A y \in Placing : y.phase = "placing"
  BY DEF Placing
<1> QED
  BY <1>1, <1>2, <1>3, <1>4, <1>5 DEF HandlerStates, Working

\* The loop over symbols goes on with a symbol that has a quote, or ends.
LEMMA EvaluatingFacts ==
    ASSUME bot.config \in BotConfigs, quoted \subseteq BotSymbols,
           NEW symbols \in Seq(BotSymbols), NEW orphan \in BOOLEAN
    PROVE  \/ Evaluating(symbols, orphan) = HandlerIdle
           \/ /\ Evaluating(symbols, orphan) \in Thinking
              /\ Evaluating(symbols, orphan).orphan = orphan
<1> DEFINE ready == {i \in 1..Len(symbols) : symbols[i] \in quoted}
           next == CHOOSE i \in ready : \A j \in ready : i <= j
           x == [phase |-> "sentiment", symbol |-> symbols[next],
                 todo |-> SubSeq(symbols, next + 1, Len(symbols)),
                 config |-> bot.config, orphan |-> orphan]
<1>1. Evaluating(symbols, orphan) = IF ready = {} THEN HandlerIdle ELSE x
  BY DEF Evaluating
<1>2. ASSUME ready # {} PROVE x \in Thinking
  <2>1. ready \subseteq Nat
    OBVIOUS
  <2>2. \E i \in ready : \A j \in ready : i <= j
    BY <1>2, <2>1, LeastNat
  <2>3. next \in ready
    BY <2>2
  <2>4. next \in 1..Len(symbols) /\ symbols[next] \in BotSymbols
    BY <2>3
  <2>5. Len(symbols) \in Nat
    BY LenProperties
  <2>6. SubSeq(symbols, next + 1, Len(symbols)) \in Seq(BotSymbols)
    <3>1. PICK m : m = next + 1
      OBVIOUS
    <3>2. m \in 1..Len(symbols) + 1
      BY <2>4, <2>5, <3>1
    <3>3. SubSeq(symbols, m, Len(symbols)) \in Seq(BotSymbols)
      BY <2>5, <3>2, SubSeqProperties
    <3> QED
      BY <3>1, <3>3
  <2> HIDE DEF ready, next
  <2> QED
    BY <2>4, <2>6 DEF Thinking
<1>3. x.orphan = orphan
  OBVIOUS
<1> QED
  BY <1>1, <1>2, <1>3

\* What a handler may become: idle, or a state of work that has a configuration
\* and is marked when automation does not run.
Proper(x) ==
    /\ x \in HandlerStates
    /\ x \in Working => bot.config \in BotConfigs /\ (bot.state # "running" => x.orphan = TRUE)

\* A handler that evaluates the rest of its symbols.
LEMMA GoesOn ==
    ASSUME HandlerInv, NEW h \in Handlers, handler[h] \in Working
    PROVE  /\ Proper(Evaluating(handler[h].todo, handler[h].orphan))
           /\ Evaluating(handler[h].todo, handler[h].orphan) \in {HandlerIdle} \cup Thinking
<1>1. PICK x : x = handler[h]
  OBVIOUS
<1>2. PICK y : y = Evaluating(x.todo, x.orphan)
  OBVIOUS
<1>3. x \in Working /\ bot.config \in BotConfigs /\ (bot.state # "running" => x.orphan = TRUE)
  BY <1>1 DEF HandlerInv
<1>4. x.todo \in Seq(BotSymbols) /\ x.orphan \in BOOLEAN
  <2>1. CASE x \in Thinking
    BY <2>1 DEF Thinking
  <2>2. CASE x \in Asking
    BY <2>2 DEF Asking
  <2>3. CASE x \in Placing
    BY <2>3 DEF Placing
  <2> QED
    BY <1>3, <2>1, <2>2, <2>3 DEF Working
<1>5. y = HandlerIdle \/ (y \in Thinking /\ y.orphan = x.orphan)
  BY <1>2, <1>3, <1>4, EvaluatingFacts DEF HandlerInv
<1>6. y = HandlerIdle => y \notin Working
  BY PhaseFacts DEF HandlerStates, HandlerIdle
<1>7. Proper(y)
  BY <1>3, <1>5, <1>6 DEF Proper, HandlerStates, Working
<1> QED
  BY <1>1, <1>2, <1>5, <1>7

\* The steps of work: sentiment, portfolio and order answers, an exception, and
\* the start of a tick.
WorkStep(h) ==
    \/ \E action \in {"buy", "sell", "hold"} : SentimentArrives(h, action)
    \/ PortfolioArrives(h) \/ HandlerRaises(h) \/ TickBegins(h)
    \/ \E filled \in BOOLEAN : OrderAnswered(h, filled)

\* Each moves one handler from work or idleness to work or idleness, and an order
\* is placed only by a handler that was at work before.
LEMMA WorkFacts ==
    ASSUME HandlerInv, NEW h \in Handlers, WorkStep(h)
    PROVE  /\ UNCHANGED <<bot, quoted, quoteLock, alert, botTime>>
           /\ handler[h] \in {HandlerIdle} \cup Working
           /\ \E x \in {HandlerIdle} \cup Working :
                /\ Proper(x) /\ handler' = [handler EXCEPT ![h] = x]
                /\ x \in Placing => handler[h] \in Working
           /\ held' \in [BotSymbols -> Nat]
<1> USE DEF Working
<1>0. handler[h] \in HandlerStates /\ Proper(HandlerIdle)
  BY PhaseFacts DEF HandlerInv, Proper, HandlerStates, HandlerIdle
<1>1. ASSUME NEW action \in {"buy", "sell", "hold"}, SentimentArrives(h, action)
      PROVE  /\ UNCHANGED <<bot, quoted, quoteLock, alert, botTime>>
             /\ handler[h] \in Thinking
             /\ \E x \in {HandlerIdle} \cup Working : Proper(x) /\ handler' = [handler EXCEPT ![h] = x]
  <2>1. UNCHANGED <<bot, quoted, quoteLock, alert, botTime>> /\ handler[h] \in Thinking
    BY <1>0, <1>1, PhaseFacts DEF SentimentArrives
  <2>2. PICK e : e = Evaluating(handler[h].todo, handler[h].orphan)
    OBVIOUS
  <2>3. PICK x : x = [phase |-> "portfolio", symbol |-> handler[h].symbol, action |-> action,
                      todo |-> handler[h].todo, size |-> bot.config.size,
                      orphan |-> handler[h].orphan]
    OBVIOUS
  <2>4. \/ handler' = [handler EXCEPT ![h] = e]
        \/ action \in {"buy", "sell"} /\ handler' = [handler EXCEPT ![h] = x]
    BY <1>1, <2>2, <2>3 DEF SentimentArrives
  <2>5. Proper(e) /\ e \in {HandlerIdle} \cup Working
    BY <2>1, <2>2, GoesOn
  <2>6. action \in {"buy", "sell"} => x \in Asking /\ x.orphan = handler[h].orphan
    <3>1. /\ handler[h].symbol \in BotSymbols /\ handler[h].todo \in Seq(BotSymbols)
          /\ handler[h].orphan \in BOOLEAN
      BY <2>1 DEF Thinking
    <3>2. bot.config.size \in Nat
      BY <2>1, AutomationAssumption DEF HandlerInv
    <3> QED
      BY <2>3, <3>1, <3>2 DEF Asking
  <2>7. action \in {"buy", "sell"} => Proper(x)
    BY <2>1, <2>6 DEF Proper, HandlerInv, HandlerStates
  <2> QED
    BY <2>1, <2>4, <2>5, <2>6, <2>7
<1>2. ASSUME PortfolioArrives(h)
      PROVE  /\ UNCHANGED <<bot, quoted, quoteLock, alert, botTime>>
             /\ handler[h] \in Asking
             /\ \E x \in {HandlerIdle} \cup Working : Proper(x) /\ handler' = [handler EXCEPT ![h] = x]
  <2>1. UNCHANGED <<bot, quoted, quoteLock, alert, botTime>> /\ handler[h] \in Asking
    BY <1>0, <1>2, PhaseFacts DEF PortfolioArrives
  <2>2. PICK e : e = Evaluating(handler[h].todo, handler[h].orphan)
    OBVIOUS
  <2>3. PICK change : change = IF handler[h].action = "buy" THEN handler[h].size
                     ELSE -(IF handler[h].size < held[handler[h].symbol] THEN handler[h].size
                            ELSE held[handler[h].symbol])
    OBVIOUS
  <2>4. PICK x : x = [phase |-> "placing", symbol |-> handler[h].symbol, todo |-> handler[h].todo,
                      change |-> change, orphan |-> handler[h].orphan]
    OBVIOUS
  <2>5. \/ handler' = [handler EXCEPT ![h] = e]
        \/ handler' = [handler EXCEPT ![h] = x]
    BY <1>2, <2>2, <2>3, <2>4 DEF PortfolioArrives
  <2>6. Proper(e) /\ e \in {HandlerIdle} \cup Working
    BY <2>1, <2>2, GoesOn
  <2>7. x \in Placing /\ x.orphan = handler[h].orphan
    <3>1. /\ handler[h].symbol \in BotSymbols /\ handler[h].todo \in Seq(BotSymbols)
          /\ handler[h].orphan \in BOOLEAN /\ handler[h].size \in Nat
      BY <2>1 DEF Asking
    <3>2. held[handler[h].symbol] \in Nat
      BY <3>1 DEF HandlerInv
    <3>3. change \in Int
      BY <2>3, <3>1, <3>2
    <3> QED
      BY <2>4, <3>1, <3>3 DEF Placing
  <2>8. Proper(x)
    BY <2>1, <2>7 DEF Proper, HandlerInv, HandlerStates
  <2> QED
    BY <2>1, <2>5, <2>6, <2>7, <2>8
<1>3. ASSUME HandlerRaises(h)
      PROVE  /\ UNCHANGED <<bot, quoted, quoteLock, alert, botTime>>
             /\ handler[h] \in Working /\ handler' = [handler EXCEPT ![h] = HandlerIdle]
  BY <1>0, <1>3, PhaseFacts DEF HandlerRaises
<1>4. ASSUME TickBegins(h)
      PROVE  /\ UNCHANGED <<bot, quoted, quoteLock, alert, botTime>>
             /\ handler[h] = HandlerIdle
             /\ \E x \in {HandlerIdle} \cup Thinking : Proper(x) /\ handler' = [handler EXCEPT ![h] = x]
  <2>1. PICK e : e = Evaluating(bot.config.symbols, FALSE)
    OBVIOUS
  <2>2. /\ UNCHANGED <<bot, quoted, quoteLock, alert, botTime>> /\ handler[h] = HandlerIdle
        /\ bot.state = "running" /\ handler' = [handler EXCEPT ![h] = e]
    BY <1>4, <2>1 DEF TickBegins
  <2>3. bot.config \in BotConfigs /\ bot.config.symbols \in Seq(BotSymbols) /\ quoted \subseteq BotSymbols
    BY <2>2, AutomationAssumption DEF HandlerInv
  <2>4. e = HandlerIdle \/ e \in Thinking
    BY <2>1, <2>3, EvaluatingFacts
  <2>5. Proper(e)
    BY <1>0, <2>2, <2>3, <2>4 DEF Proper, HandlerStates
  <2> QED
    BY <2>2, <2>4, <2>5
<1>5. ASSUME NEW filled \in BOOLEAN, OrderAnswered(h, filled)
      PROVE  /\ UNCHANGED <<bot, quoted, quoteLock, alert, botTime>>
             /\ handler[h] \in Placing
             /\ \E x \in {HandlerIdle} \cup Thinking : Proper(x) /\ handler' = [handler EXCEPT ![h] = x]
  <2>1. UNCHANGED <<bot, quoted, quoteLock, alert, botTime>> /\ handler[h] \in Placing
    BY <1>0, <1>5, PhaseFacts DEF OrderAnswered
  <2>2. handler' = [handler EXCEPT ![h] = Evaluating(handler[h].todo, handler[h].orphan)]
    BY <1>5 DEF OrderAnswered
  <2> QED
    BY <2>1, <2>2, GoesOn
<1>6. HandlerIdle \notin Placing /\ Thinking \cap Placing = {}
  BY DEF HandlerIdle, Thinking, Placing
<1>7. held' \in [BotSymbols -> Nat]
  <2>1. CASE held' = held
    BY <2>1 DEF HandlerInv
  <2>2. ASSUME OrderAnswered(h, TRUE) PROVE held' \in [BotSymbols -> Nat]
    <3>1. PICK s, n : s = handler[h].symbol /\ n = handler[h].change
      OBVIOUS
    <3>2. s \in BotSymbols /\ n \in Int
      BY <1>5, <2>2, <3>1 DEF Placing
    <3>3. held' = [held EXCEPT ![s] = held[s] + n] /\ held[s] + n >= 0 /\ held[s] \in Nat
      BY <2>2, <3>1, <3>2 DEF OrderAnswered, HandlerInv
    <3>4. held[s] + n \in Nat
      BY <3>2, <3>3
    <3> QED
      BY <3>2, <3>3, <3>4 DEF HandlerInv
  <2>3. OrderAnswered(h, FALSE) => held' = held
    BY DEF OrderAnswered
  <2> QED
    BY <2>1, <2>2, <2>3
       DEF WorkStep, SentimentArrives, PortfolioArrives, HandlerRaises, TickBegins
<1> QED
  BY <1>0, <1>1, <1>2, <1>3, <1>4, <1>5, <1>6, <1>7 DEF WorkStep

\* stop and pause mark every handler that is under way.
LEMMA OrphanedFacts ==
    ASSUME HandlerInv
    PROVE  /\ Orphaned \in [Handlers -> HandlerStates]
           /\ \A h \in Handlers : /\ Orphaned[h].phase = handler[h].phase
                                  /\ Orphaned[h] \in Working => Orphaned[h].orphan = TRUE
<1> SUFFICES ASSUME NEW h \in Handlers
             PROVE  /\ Orphaned[h] \in HandlerStates
                    /\ Orphaned[h].phase = handler[h].phase
                    /\ Orphaned[h] \in Working => Orphaned[h].orphan = TRUE
  BY DEF Orphaned
<1>1. PICK x : x = handler[h]
  OBVIOUS
<1>2. x \in HandlerStates
  BY <1>1 DEF HandlerInv
<1>3. CASE x = HandlerIdle
  BY <1>1, <1>2, <1>3, PhaseFacts DEF Orphaned
<1>4. CASE x # HandlerIdle
  <2>1. PICK y : y = [x EXCEPT !.orphan = TRUE]
    OBVIOUS
  <2>2. y \in HandlerStates /\ y.phase = x.phase /\ y.orphan = TRUE
    <3>1. CASE x \in UnderLock
      BY <2>1, <3>1 DEF UnderLock, HandlerStates
    <3>2. CASE x \in Thinking
      BY <2>1, <3>2 DEF Thinking, HandlerStates, Working
    <3>3. CASE x \in Asking
      BY <2>1, <3>3 DEF Asking, HandlerStates, Working
    <3>4. CASE x \in Placing
      BY <2>1, <3>4 DEF Placing, HandlerStates, Working
    <3> QED
      BY <1>2, <1>4, <3>1, <3>2, <3>3, <3>4 DEF HandlerStates, Working
  <2> QED
    BY <1>1, <1>4, <2>1, <2>2 DEF Orphaned
<1> QED
  BY <1>3, <1>4

-----------------------------------------------------------------------------
(* The handlers.                                                           *)

\* A step that moves one handler to a proper state.
LEMMA MoveOne ==
    ASSUME HandlerInv, NEW h \in Handlers, NEW x, Proper(x),
           handler' = [handler EXCEPT ![h] = x], bot' = bot, quoted' \subseteq BotSymbols,
           held' \in [BotSymbols -> Nat]
    PROVE  HandlerInv'
<1>1. handler' \in [Handlers -> HandlerStates]
  BY DEF HandlerInv, Proper
<1>2. \A k \in Handlers : handler'[k] = IF k = h THEN x ELSE handler[k]
  BY DEF HandlerInv
<1> QED
  BY <1>1, <1>2 DEF HandlerInv, Proper

\* on_quote under the lock: it may begin, trigger the alert and notify it, and
\* releases the lock to evaluate the symbol or to end.
LEMMA LockFacts ==
    ASSUME HandlerInv, NEW h \in Handlers
    PROVE  /\ \A s \in BotSymbols : QuoteBegins(h, s) =>
                \E x \in UnderLock : handler' = [handler EXCEPT ![h] = x] /\ x.phase = "locked"
           /\ AlertTriggers(h) =>
                \/ handler' = [handler EXCEPT ![h] = HandlerIdle]
                \/ \E x \in UnderLock : handler' = [handler EXCEPT ![h] = x] /\ x.phase = "notifying"
           /\ AlertNotified(h) =>
                \E x \in UnderLock : handler' = [handler EXCEPT ![h] = x] /\ x.phase = "locked"
           /\ QuoteReleases(h) =>
                \E x \in {HandlerIdle} \cup Thinking :
                   /\ handler' = [handler EXCEPT ![h] = x]
                   /\ x # HandlerIdle => bot.state = "running"
<1>0. handler[h] \in HandlerStates
  BY DEF HandlerInv
<1>1. ASSUME NEW s \in BotSymbols, QuoteBegins(h, s)
      PROVE  \E x \in UnderLock : handler' = [handler EXCEPT ![h] = x] /\ x.phase = "locked"
  <2>1. PICK x : x = [phase |-> "locked", symbol |-> s, orphan |-> FALSE]
    OBVIOUS
  <2>2. x \in UnderLock /\ x.phase = "locked"
    BY <2>1 DEF UnderLock
  <2>3. handler' = [handler EXCEPT ![h] = x]
    BY <1>1, <2>1 DEF QuoteBegins
  <2> QED
    BY <2>2, <2>3
<1>2. ASSUME handler[h] \in UnderLock, NEW p \in {"locked", "notifying"},
             handler' = [handler EXCEPT ![h].phase = p]
      PROVE  \E x \in UnderLock : handler' = [handler EXCEPT ![h] = x] /\ x.phase = p
  <2>1. PICK x : x = [handler[h] EXCEPT !.phase = p]
    OBVIOUS
  <2>2. x \in UnderLock /\ x.phase = p
    BY <1>2, <2>1 DEF UnderLock
  <2> QED
    BY <1>2, <2>1, <2>2
<1>3. ASSUME AlertTriggers(h)
      PROVE  \/ handler' = [handler EXCEPT ![h] = HandlerIdle]
             \/ \E x \in UnderLock : handler' = [handler EXCEPT ![h] = x] /\ x.phase = "notifying"
  BY <1>0, <1>2, <1>3, PhaseFacts DEF AlertTriggers
<1>4. ASSUME AlertNotified(h)
      PROVE  \E x \in UnderLock : handler' = [handler EXCEPT ![h] = x] /\ x.phase = "locked"
  BY <1>0, <1>2, <1>4, PhaseFacts DEF AlertNotified
<1>5. ASSUME QuoteReleases(h)
      PROVE  \E x \in {HandlerIdle} \cup Thinking :
                   /\ handler' = [handler EXCEPT ![h] = x]
                   /\ x # HandlerIdle => bot.state = "running"
  <2>1. handler[h] \in UnderLock
    BY <1>0, <1>5, PhaseFacts DEF QuoteReleases
  <2>2. PICK s, o : s = handler[h].symbol /\ o = handler[h].orphan
    OBVIOUS
  <2>3. s \in BotSymbols /\ o \in BOOLEAN
    BY <2>1, <2>2 DEF UnderLock
  <2>4. CASE ~Evaluated(s)
    BY <1>5, <2>2, <2>4 DEF QuoteReleases
  <2>5. CASE Evaluated(s)
    <3>1. PICK x : x = Evaluating(<<s>>, o)
      OBVIOUS
    <3>2. handler' = [handler EXCEPT ![h] = x] /\ bot.state = "running"
      BY <1>5, <2>2, <2>5, <3>1 DEF QuoteReleases, Evaluated
    <3>3. <<s>> \in Seq(BotSymbols)
      BY <2>3
    <3>4. x = HandlerIdle \/ x \in Thinking
      BY <2>3, <3>1, <3>2, <3>3, EvaluatingFacts DEF HandlerInv
    <3> QED
      BY <3>2, <3>4
  <2> QED
    BY <2>4, <2>5
<1> QED
  BY <1>1, <1>3, <1>4, <1>5

\* Every step keeps the handlers' invariant.
LEMMA HandlerStep ==
    ASSUME HandlerInv, [BotNext]_botVars
    PROVE  HandlerInv'
<1>0. Proper(HandlerIdle) /\ \A x \in UnderLock : Proper(x)
  <2>1. \A x \in {HandlerIdle} \cup UnderLock : x \in HandlerStates /\ x \notin Working
    BY PhaseFacts DEF HandlerStates
  <2> QED
    BY <2>1 DEF Proper
<1>1. CASE UNCHANGED botVars
  BY <1>1 DEF botVars, HandlerInv
<1>2. ASSUME NEW c \in BotConfigs, Start(c) PROVE HandlerInv'
  <2>1. /\ bot' = [state |-> "running", config |-> c]
        /\ UNCHANGED <<handler, quoted, held>>
    BY <1>2 DEF Start
  <2>2. /\ bot' \in [state: {"stopped", "running", "paused"}, config: BotConfigs \cup {NoConfig}]
        /\ bot'.state = "running" /\ bot'.config \in BotConfigs
    BY <2>1
  <2> QED
    BY <2>1, <2>2 DEF HandlerInv
<1>3. ASSUME handler' = Orphaned, UNCHANGED <<quoted, held>>,
             \/ bot' = [bot EXCEPT !.state = "stopped"]
             \/ bot.state = "running" /\ bot' = [bot EXCEPT !.state = "paused"]
      PROVE  HandlerInv'
  <2>1. /\ bot' \in [state: {"stopped", "running", "paused"}, config: BotConfigs \cup {NoConfig}]
        /\ bot'.state # "running" /\ bot'.config = bot.config
        /\ bot'.state # "stopped" => bot.config \in BotConfigs
    BY <1>3 DEF HandlerInv
  <2>2. /\ handler' \in [Handlers -> HandlerStates]
        /\ \A k \in Handlers : /\ handler'[k].phase = handler[k].phase
                               /\ handler'[k] \in Working => handler'[k].orphan = TRUE
    BY <1>3, OrphanedFacts
  <2>3. \A k \in Handlers : handler'[k] \in Working <=> handler[k] \in Working
    BY <2>2, PhaseFacts DEF HandlerInv
  <2> QED
    BY <1>3, <2>1, <2>2, <2>3 DEF HandlerInv
<1>4. CASE Stop
  <2>1. CASE bot.state = "running"
    BY <1>3, <1>4, <2>1 DEF Stop
  <2>2. CASE bot.state # "running"
    <3>1. bot' = [bot EXCEPT !.state = "stopped"] /\ UNCHANGED <<handler, quoted, held>>
      BY <1>4, <2>2 DEF Stop
    <3>2. /\ bot' \in [state: {"stopped", "running", "paused"}, config: BotConfigs \cup {NoConfig}]
          /\ bot'.state = "stopped" /\ bot'.config = bot.config
      BY <3>1 DEF HandlerInv
    <3> QED
      BY <2>2, <3>1, <3>2 DEF HandlerInv
  <2> QED
    BY <2>1, <2>2
<1>5. CASE PauseBot
  BY <1>3, <1>5 DEF PauseBot
<1>6. CASE ResumeBot
  <2>1. /\ bot' = [bot EXCEPT !.state = "running"] /\ bot.state = "paused"
        /\ UNCHANGED <<handler, quoted, held>>
    BY <1>6 DEF ResumeBot
  <2>2. /\ bot' \in [state: {"stopped", "running", "paused"}, config: BotConfigs \cup {NoConfig}]
        /\ bot'.state = "running" /\ bot'.config = bot.config /\ bot.config \in BotConfigs
    BY <2>1 DEF HandlerInv
  <2> QED
    BY <2>1, <2>2 DEF HandlerInv
<1>7. CASE BotRestart
  <2>1. /\ bot' = [state |-> "stopped", config |-> NoConfig]
        /\ handler' = [k \in Handlers |-> HandlerIdle] /\ quoted' = {} /\ held' = held
    BY <1>7 DEF BotRestart
  <2>2. HandlerIdle \in HandlerStates /\ HandlerIdle \notin Working
    BY PhaseFacts DEF HandlerStates
  <2>3. /\ bot' \in [state: {"stopped", "running", "paused"}, config: BotConfigs \cup {NoConfig}]
        /\ bot'.state = "stopped"
    BY <2>1
  <2> QED
    BY <2>1, <2>2, <2>3 DEF HandlerInv
<1>8. CASE BotTick
  BY <1>8 DEF BotTick, HandlerInv
<1>9. ASSUME NEW h \in Handlers, NEW s \in BotSymbols, QuoteBegins(h, s) PROVE HandlerInv'
  <2>1. bot' = bot /\ held' = held /\ quoted' \subseteq BotSymbols /\ held \in [BotSymbols -> Nat]
    BY <1>9 DEF QuoteBegins, HandlerInv
  <2>2. PICK x \in UnderLock : handler' = [handler EXCEPT ![h] = x]
    BY <1>9, LockFacts
  <2> QED
    BY <1>0, <2>1, <2>2, MoveOne
<1>10. ASSUME NEW h \in Handlers, AlertTriggers(h) \/ AlertNotified(h) PROVE HandlerInv'
  <2>1. bot' = bot /\ held' = held /\ quoted' \subseteq BotSymbols /\ held \in [BotSymbols -> Nat]
    BY <1>10 DEF AlertTriggers, AlertNotified, HandlerInv
  <2>2. PICK x \in UnderLock \cup {HandlerIdle} : handler' = [handler EXCEPT ![h] = x]
    BY <1>10, LockFacts
  <2> QED
    BY <1>0, <2>1, <2>2, MoveOne
<1>11. ASSUME NEW h \in Handlers, QuoteReleases(h) PROVE HandlerInv'
  <2>1. bot' = bot /\ held' = held /\ quoted' \subseteq BotSymbols /\ held \in [BotSymbols -> Nat]
    BY <1>11 DEF QuoteReleases, HandlerInv
  <2>2. PICK x \in {HandlerIdle} \cup Thinking :
          /\ handler' = [handler EXCEPT ![h] = x]
          /\ x # HandlerIdle => bot.state = "running"
    BY <1>11, LockFacts
  <2>3. Proper(x)
    BY <1>0, <2>2 DEF Proper, HandlerStates, Working, HandlerInv
  <2> QED
    BY <2>1, <2>2, <2>3, MoveOne
<1>12. ASSUME NEW h \in Handlers, WorkStep(h) PROVE HandlerInv'
  <2>1. bot' = bot /\ held' \in [BotSymbols -> Nat] /\ quoted' \subseteq BotSymbols
    BY <1>12, WorkFacts DEF HandlerInv
  <2>2. PICK x : Proper(x) /\ handler' = [handler EXCEPT ![h] = x]
    BY <1>12, WorkFacts
  <2> QED
    BY <2>1, <2>2, MoveOne
<1> QED
  BY <1>1, <1>2, <1>4, <1>5, <1>6, <1>7, <1>8, <1>9, <1>10, <1>11, <1>12 DEF BotNext, WorkStep

\* A fresh engine.
LEMMA HandlerStart == BotInit => HandlerInv
<1> SUFFICES ASSUME BotInit PROVE HandlerInv
  OBVIOUS
<1>1. HandlerIdle \in HandlerStates /\ HandlerIdle \notin Working
  BY PhaseFacts DEF HandlerStates
<1>2. /\ bot \in [state: {"stopped", "running", "paused"}, config: BotConfigs \cup {NoConfig}]
      /\ bot.state = "stopped"
  BY DEF BotInit
<1> QED
  BY <1>1, <1>2 DEF BotInit, HandlerInv

\* After stop and pause only handlers that were under way then place orders
\* (stop, pause, _evaluate_symbol and _execute_signal, which do not look at the
\* state again).
THEOREM OnlyOrphansTrade == BotSpec => StopQuiesces
<1>1. ASSUME HandlerInv, [BotNext]_botVars
      PROVE  [\A h \in Handlers :
                handler[h].phase # "placing" /\ handler'[h].phase = "placing" /\ bot.state # "running"
                  => handler[h].orphan]_botVars
  <2> SUFFICES ASSUME NEW h \in Handlers, handler[h].phase # "placing",
                      handler'[h].phase = "placing", bot.state # "running"
               PROVE  handler[h].orphan = TRUE
    OBVIOUS
  <2>0. /\ handler \in [Handlers -> HandlerStates] /\ handler' \in [Handlers -> HandlerStates]
        /\ \A x \in HandlerStates : x.phase = "placing" => x \in Placing
        /\ HandlerIdle.phase = "idle"
        /\ \A x \in UnderLock \cup Thinking : x.phase # "placing"
    BY <1>1, HandlerStep, PhaseFacts DEF HandlerInv, HandlerIdle, UnderLock, Thinking
  <2>1. CASE handler' = handler
    BY <2>1
  <2>2. CASE Stop \/ PauseBot
    BY <1>1, <2>2, OrphanedFacts DEF Stop, PauseBot
  <2>3. CASE BotRestart
    BY <2>0, <2>3 DEF BotRestart
  <2>4. ASSUME NEW k \in Handlers,
               \/ \E s \in BotSymbols : QuoteBegins(k, s)
               \/ AlertTriggers(k) \/ AlertNotified(k) \/ QuoteReleases(k)
        PROVE  FALSE
    <3>1. PICK x \in {HandlerIdle} \cup UnderLock \cup Thinking : handler' = [handler EXCEPT ![k] = x]
      BY <1>1, <2>4, LockFacts
    <3> QED
      BY <2>0, <3>1
  <2>5. ASSUME NEW k \in Handlers, WorkStep(k) PROVE handler[h].orphan = TRUE
    <3>1. PICK x : /\ handler' = [handler EXCEPT ![k] = x]
                   /\ x \in Placing => handler[k] \in Working
      BY <1>1, <2>5, WorkFacts
    <3>2. k = h /\ x \in Placing
      BY <2>0, <3>1
    <3> QED
      BY <1>1, <3>1, <3>2 DEF HandlerInv
  <2> QED
    BY <1>1, <2>1, <2>2, <2>3, <2>4, <2>5
       DEF BotNext, botVars, Start, ResumeBot, BotTick, WorkStep
<1> QED
  BY <1>1, HandlerStart, HandlerStep, PTL DEF BotSpec, StopQuiesces

-----------------------------------------------------------------------------
(* The alert.                                                              *)

\* An alert that is still enabled in the table has not been notified and is not
\* being notified, and at most one handler notifies it.
AlertInv ==
    /\ alert \in [memory: BOOLEAN, table: BOOLEAN, notified: Nat]
    /\ alert.memory = TRUE => alert.table = TRUE
    /\ alert.table = TRUE => alert.notified = 0 /\ \A h \in Handlers : handler[h].phase # "notifying"
    /\ \A h \in Handlers : handler[h].phase = "notifying" =>
         alert.notified = 0 /\ \A k \in Handlers : handler[k].phase = "notifying" => k = h
    /\ alert.notified <= 1

\* A step in which no handler begins to notify, and the alert stays as it is.
LEMMA AlertUntouched ==
    ASSUME AlertInv, alert' = alert,
           \A h \in Handlers : handler'[h].phase = "notifying" => handler[h].phase = "notifying"
    PROVE  AlertInv'
BY DEF AlertInv

\* Every step keeps the alert's invariant.
LEMMA AlertStep ==
    ASSUME HandlerInv, AlertInv, [BotNext]_botVars
    PROVE  AlertInv'
<1>0. /\ handler \in [Handlers -> HandlerStates]
      /\ HandlerIdle.phase = "idle"
      /\ \A x \in Working : x.phase # "notifying"
      /\ \A x \in HandlerStates : x.phase = "notifying" => x \in UnderLock
  BY PhaseFacts DEF HandlerInv, HandlerIdle, HandlerStates
<1>1. CASE handler' = handler /\ alert' = alert
  BY <1>1, AlertUntouched
<1>2. CASE Stop \/ PauseBot
  <2>1. alert' = alert /\ (handler' = handler \/ handler' = Orphaned)
    BY <1>2 DEF Stop, PauseBot
  <2>2. \A h \in Handlers : handler'[h].phase = handler[h].phase
    BY <2>1, OrphanedFacts
  <2> QED
    BY <2>1, <2>2, AlertUntouched
<1>3. CASE BotRestart
  <2>1. alert' = [alert EXCEPT !.memory = alert.table] /\ handler' = [h \in Handlers |-> HandlerIdle]
    BY <1>3 DEF BotRestart
  <2>2. /\ alert' \in [memory: BOOLEAN, table: BOOLEAN, notified: Nat]
        /\ alert'.memory = alert.table /\ alert'.table = alert.table
        /\ alert'.notified = alert.notified
    BY <2>1 DEF AlertInv
  <2>3. \A h \in Handlers : handler'[h].phase = "idle"
    BY <1>0, <2>1
  <2> QED
    BY <2>2, <2>3 DEF AlertInv
<1>4. ASSUME NEW h \in Handlers, (\E s \in BotSymbols : QuoteBegins(h, s)) \/ QuoteReleases(h) \/ WorkStep(h)
      PROVE  AlertInv'
  <2>1. alert' = alert
    BY <1>4, WorkFacts DEF QuoteBegins, QuoteReleases
  <2>2. PICK x : handler' = [handler EXCEPT ![h] = x] /\ x.phase # "notifying"
    <3>1. CASE \E s \in BotSymbols : QuoteBegins(h, s)
      BY <3>1, LockFacts
    <3>2. CASE QuoteReleases(h)
      BY <1>0, <3>2, LockFacts DEF Working
    <3>3. CASE WorkStep(h)
      BY <1>0, <3>3, WorkFacts
    <3> QED
      BY <1>4, <3>1, <3>2, <3>3
  <2> QED
    BY <1>0, <2>1, <2>2, AlertUntouched
<1>5. ASSUME NEW h \in Handlers, AlertTriggers(h) PROVE AlertInv'
  <2>1. alert.memory = TRUE /\ alert.table = TRUE
    BY <1>5 DEF AlertTriggers, AlertInv
  <2>2. alert.notified = 0 /\ \A k \in Handlers : handler[k].phase # "notifying"
    BY <2>1 DEF AlertInv
  <2>3. alert' = Disable \/ (alert' = [alert EXCEPT !.memory = FALSE] /\ handler' = [handler EXCEPT ![h] = HandlerIdle])
    BY <1>5 DEF AlertTriggers
  <2>4. PICK x : handler' = [handler EXCEPT ![h] = x]
    BY <1>5, LockFacts
  <2>5. \A k \in Handlers : handler'[k] = IF k = h THEN x ELSE handler[k]
    BY <1>0, <2>4
  <2>6. CASE alert' = Disable
    <3>1. /\ alert' \in [memory: BOOLEAN, table: BOOLEAN, notified: Nat]
          /\ alert'.memory = FALSE /\ alert'.table = FALSE /\ alert'.notified = 0
      BY <2>2, <2>6 DEF AlertInv, Disable
    <3>2. \A k, l \in Handlers : handler'[k].phase = "notifying" /\ handler'[l].phase = "notifying" => k = l
      BY <2>2, <2>5
    <3> QED
      BY <3>1, <3>2 DEF AlertInv
  <2>7. CASE alert' = [alert EXCEPT !.memory = FALSE] /\ handler' = [handler EXCEPT ![h] = HandlerIdle]
    <3>1. /\ alert' \in [memory: BOOLEAN, table: BOOLEAN, notified: Nat]
          /\ alert'.memory = FALSE /\ alert'.notified = 0
      BY <2>2, <2>7 DEF AlertInv
    <3>2. \A k \in Handlers : handler'[k].phase # "notifying"
      BY <1>0, <2>2, <2>7
    <3> QED
      BY <3>1, <3>2 DEF AlertInv
  <2> QED
    BY <2>3, <2>6, <2>7
<1>6. ASSUME NEW h \in Handlers, AlertNotified(h) PROVE AlertInv'
  <2>1. handler[h].phase = "notifying" /\ alert' = [alert EXCEPT !.notified = @ + 1]
    BY <1>6 DEF AlertNotified
  <2>2. /\ alert.notified = 0 /\ alert.table # TRUE /\ alert.memory # TRUE
        /\ \A k \in Handlers : handler[k].phase = "notifying" => k = h
    BY <2>1 DEF AlertInv
  <2>3. PICK x : handler' = [handler EXCEPT ![h] = x] /\ x.phase = "locked"
    BY <1>6, LockFacts
  <2>4. \A k \in Handlers : handler'[k].phase # "notifying"
    BY <1>0, <2>2, <2>3
  <2>5. /\ alert' \in [memory: BOOLEAN, table: BOOLEAN, notified: Nat]
        /\ alert'.memory = alert.memory /\ alert'.table = alert.table /\ alert'.notified = 1
    BY <2>1, <2>2 DEF AlertInv
  <2>6. alert'.table # TRUE /\ alert'.memory # TRUE
    BY <2>2, <2>5, Zenon
  <2>7. alert'.notified <= 1 /\ alert' \in [memory: BOOLEAN, table: BOOLEAN, notified: Nat]
    BY <2>5
  <2> QED
    BY <2>4, <2>6, <2>7 DEF AlertInv
<1> QED
  BY <1>1, <1>2, <1>3, <1>4, <1>5, <1>6
     DEF BotNext, botVars, Start, ResumeBot, BotTick, WorkStep

\* A price alert is notified at most once, across failed saves and restarts
\* (_check_alerts, add_alert, _load).
THEOREM AlertsFireOnce == BotSpec => []AlertOnce
<1>1. BotInit => AlertInv
  <2> SUFFICES ASSUME BotInit PROVE AlertInv
    OBVIOUS
  <2>1. \A h \in Handlers : handler[h].phase = "idle"
    BY DEF BotInit, HandlerIdle
  <2>2. alert = [memory |-> TRUE, table |-> TRUE, notified |-> 0]
    BY DEF BotInit
  <2>3. alert \in [memory: BOOLEAN, table: BOOLEAN, notified: Nat] /\ alert.notified = 0
    BY <2>2
  <2>4. alert.table = TRUE
    BY <2>2
  <2> QED
    BY <2>1, <2>3, <2>4 DEF AlertInv
<1>2. AlertInv => AlertOnce
  BY DEF AlertInv, AlertOnce
<1> QED
  BY <1>1, <1>2, HandlerStart, HandlerStep, AlertStep, PTL DEF BotSpec

-----------------------------------------------------------------------------
(* The cooldown.                                                           *)

\* _last_action of a symbol is no earlier than any of its signals.
CooldownInv ==
    /\ botTime \in 0..MaxBotTime
    /\ lastAction \in [BotSymbols -> -1..MaxBotTime]
    /\ \A s \in BotSymbols : lastAction[s] <= botTime
    /\ \A a \in signals : /\ a.symbol \in BotSymbols /\ a.at \in Nat /\ a.cooldown \in Nat
                          /\ a.at <= lastAction[a.symbol]
    /\ CooldownHolds

\* A signal is generated: the cooldown since the last one is over.
LEMMA SignalStep ==
    ASSUME HandlerInv, CooldownInv, NEW h \in Handlers,
           NEW action \in {"buy", "sell", "hold"}, SentimentArrives(h, action)
    PROVE  CooldownInv'
<1> USE AutomationAssumption
<1>1. PICK s, n : s = handler[h].symbol /\ n = handler[h].config.cooldown
  OBVIOUS
<1>2. s \in BotSymbols /\ n \in Nat /\ botTime' = botTime
  <2>1. handler[h] \in Thinking
    BY PhaseFacts DEF SentimentArrives, HandlerInv
  <2>2. handler[h].symbol \in BotSymbols /\ handler[h].config \in BotConfigs
    BY <2>1 DEF Thinking
  <2> QED
    BY <1>1, <2>2 DEF SentimentArrives
<1>3. CASE UNCHANGED <<lastAction, signals>>
  BY <1>2, <1>3 DEF CooldownInv, CooldownHolds
<1>4. CASE ~UNCHANGED <<lastAction, signals>>
  <2>1. PICK b : b = [symbol |-> s, at |-> botTime, by |-> <<h, calls>>, cooldown |-> n]
    OBVIOUS
  <2>2. /\ ~InCooldown(s, n)
        /\ lastAction' = [lastAction EXCEPT ![s] = botTime]
        /\ signals' = signals \cup {b}
    BY <1>1, <1>4, <2>1 DEF SentimentArrives, Stamp
  <2>3. b.symbol = s /\ b.at = botTime /\ b.cooldown = n
    BY <2>1
  <2>4. botTime \in Nat /\ botTime \in 0..MaxBotTime /\ lastAction[s] \in -1..MaxBotTime /\ lastAction[s] <= botTime
    BY <1>2 DEF CooldownInv
  <2>5. \A a \in signals : a.symbol = s => a.at \in Nat /\ a.at <= botTime /\ botTime - a.at >= n
    <3> SUFFICES ASSUME NEW a \in signals, a.symbol = s
                 PROVE  a.at \in Nat /\ a.at <= botTime /\ botTime - a.at >= n
      OBVIOUS
    <3>1. a.at \in Nat /\ a.at <= lastAction[s]
      BY DEF CooldownInv
    <3>2. botTime - lastAction[s] >= n
      BY <1>2, <2>2, <2>4, <3>1 DEF InCooldown
    <3> QED
      BY <1>2, <2>4, <3>1, <3>2
  <2>6. CooldownHolds'
    <3> SUFFICES ASSUME NEW a \in signals', NEW c \in signals', a # c, a.symbol = c.symbol, a.at <= c.at
                 PROVE  c.at - a.at >= c.cooldown \/ (a.at = c.at /\ a.cooldown = 0)
      BY DEF CooldownHolds
    <3>1. CASE a \in signals /\ c \in signals
      BY <3>1 DEF CooldownInv, CooldownHolds
    <3>2. CASE c = b
      BY <2>2, <2>3, <2>5, <3>2
    <3>3. CASE a = b
      <4>1. c \in signals /\ c.symbol = s
        BY <2>2, <2>3, <3>3
      <4>2. c.at \in Nat /\ c.at <= botTime /\ botTime - c.at >= n
        BY <2>5, <4>1
      <4> QED
        BY <1>2, <2>3, <2>4, <3>3, <4>2
    <3> QED
      BY <2>2, <3>1, <3>2, <3>3
  <2>7. lastAction' \in [BotSymbols -> -1..MaxBotTime]
    <3>1. botTime \in -1..MaxBotTime
      BY <2>4
    <3>2. lastAction \in [BotSymbols -> -1..MaxBotTime]
      BY DEF CooldownInv
    <3> QED
      BY <2>2, <3>1, <3>2
  <2>8. \A t \in BotSymbols : lastAction'[t] = IF t = s THEN botTime ELSE lastAction[t]
    BY <2>2 DEF CooldownInv
  <2>9. \A t \in BotSymbols : lastAction'[t] <= botTime
    BY <2>4, <2>8 DEF CooldownInv
  <2>10. \A a \in signals' : /\ a.symbol \in BotSymbols /\ a.at \in Nat /\ a.cooldown \in Nat
                             /\ a.at <= lastAction'[a.symbol]
    <3> SUFFICES ASSUME NEW a \in signals'
                 PROVE  /\ a.symbol \in BotSymbols /\ a.at \in Nat /\ a.cooldown \in Nat
                        /\ a.at <= lastAction'[a.symbol]
      OBVIOUS
    <3>1. CASE a = b
      BY <1>2, <2>3, <2>4, <2>8, <3>1
    <3>2. CASE a \in signals
      BY <2>5, <2>8, <3>2 DEF CooldownInv
    <3> QED
      BY <2>2, <3>1, <3>2
  <2> QED
    BY <1>2, <2>4, <2>6, <2>7, <2>9, <2>10 DEF CooldownInv
<1> QED
  BY <1>3, <1>4

\* Every step keeps the cooldown's invariant.
LEMMA CooldownStep ==
    ASSUME HandlerInv, CooldownInv, [BotNext]_botVars
    PROVE  CooldownInv'
<1> USE AutomationAssumption
<1>1. CASE UNCHANGED <<botTime, lastAction, signals>>
  BY <1>1 DEF CooldownInv, CooldownHolds
<1>2. CASE BotTick
  <2>1. botTime' = botTime + 1 /\ botTime < MaxBotTime /\ UNCHANGED <<lastAction, signals>>
    BY <1>2 DEF BotTick
  <2>2. botTime \in Nat /\ botTime' \in 0..MaxBotTime
    BY <2>1 DEF CooldownInv
  <2>3. \A s \in BotSymbols : lastAction[s] <= botTime'
    BY <2>1, <2>2 DEF CooldownInv
  <2> QED
    BY <2>1, <2>2, <2>3 DEF CooldownInv, CooldownHolds
<1>3. CASE BotRestart
  <2>1. botTime' = botTime /\ lastAction' = [s \in BotSymbols |-> -1] /\ signals' = {}
    BY <1>3 DEF BotRestart
  <2> QED
    BY <2>1 DEF CooldownInv, CooldownHolds
<1>4. ASSUME NEW h \in Handlers, NEW action \in {"buy", "sell", "hold"}, SentimentArrives(h, action)
      PROVE  CooldownInv'
  BY <1>4, SignalStep
<1> QED
  BY <1>1, <1>2, <1>3, <1>4
     DEF BotNext, botVars, Start, Stop, PauseBot, ResumeBot, QuoteBegins, AlertTriggers, AlertNotified,
         QuoteReleases, TickBegins, PortfolioArrives, HandlerRaises, OrderAnswered

\* Signals of one symbol respect the cooldown, whichever handlers generate them
\* (_evaluate_symbol checks _in_cooldown and stamps _last_action without an await
\* between them).
THEOREM SignalsCoolDown == BotSpec => []CooldownHolds
<1>1. BotInit => CooldownInv
  BY AutomationAssumption DEF BotInit, CooldownInv, CooldownHolds
<1>2. CooldownInv => CooldownHolds
  BY DEF CooldownInv
<1> QED
  BY <1>1, <1>2, HandlerStart, HandlerStep, CooldownStep, PTL DEF BotSpec

-----------------------------------------------------------------------------
(* The quote lock.                                                         *)

\* A handler is under the lock exactly when it holds it, so at most one is.
HoldsLock(h) == handler[h].phase \in {"locked", "notifying"}
LockOK == \A h \in Handlers : quoteLock = h <=> HoldsLock(h)

\* A step of a handler that leaves it where it was, under the lock or not.
LEMMA LockKept ==
    ASSUME LockOK, quoteLock' = quoteLock, \A h \in Handlers : HoldsLock(h)' <=> HoldsLock(h)
    PROVE  LockOK'
BY DEF LockOK

\* Only on_quote takes and releases the lock.
LEMMA LockStep ==
    ASSUME HandlerInv, LockOK, [BotNext]_botVars
    PROVE  LockOK'
<1>0. /\ handler \in [Handlers -> HandlerStates] /\ HandlerIdle.phase = "idle"
      /\ \A x \in {HandlerIdle} \cup Working : x.phase \notin {"locked", "notifying"}
  BY PhaseFacts DEF HandlerInv, HandlerStates, HandlerIdle
<1>1. CASE quoteLock' = quoteLock /\ handler' = handler
  BY <1>1, LockKept DEF HoldsLock
<1>2. CASE Stop \/ PauseBot
  <2>1. quoteLock' = quoteLock /\ (handler' = handler \/ handler' = Orphaned)
    BY <1>2 DEF Stop, PauseBot
  <2>2. \A h \in Handlers : handler'[h].phase = handler[h].phase
    BY <2>1, OrphanedFacts
  <2> QED
    BY <2>1, <2>2, LockKept DEF HoldsLock
<1>3. CASE BotRestart
  <2>1. quoteLock' = Free /\ handler' = [h \in Handlers |-> HandlerIdle]
    BY <1>3 DEF BotRestart
  <2>2. \A h \in Handlers : ~HoldsLock(h)' /\ h # Free
    BY <1>0, <2>1, AutomationAssumption DEF HoldsLock
  <2> QED
    BY <2>1, <2>2 DEF LockOK
<1>4. ASSUME NEW h \in Handlers, NEW s \in BotSymbols, QuoteBegins(h, s) PROVE LockOK'
  <2>1. quoteLock = Free /\ quoteLock' = h
    BY <1>4 DEF QuoteBegins
  <2>2. PICK x : handler' = [handler EXCEPT ![h] = x] /\ x.phase = "locked"
    BY <1>4, LockFacts
  <2>3. \A k \in Handlers : ~HoldsLock(k)
    BY <2>1, AutomationAssumption DEF LockOK
  <2>4. \A k \in Handlers : handler'[k] = IF k = h THEN x ELSE handler[k]
    BY <1>0, <2>2
  <2>5. \A k \in Handlers : HoldsLock(k)' <=> k = h
    BY <2>2, <2>3, <2>4 DEF HoldsLock
  <2> QED
    BY <2>1, <2>5 DEF LockOK
<1>5. ASSUME NEW h \in Handlers, NEW x, handler' = [handler EXCEPT ![h] = x], HoldsLock(h),
             quoteLock' = Free, x \in {HandlerIdle} \cup Thinking
      PROVE  LockOK'
  <2>1. \A k \in Handlers : k # h => ~HoldsLock(k)
    BY <1>5 DEF LockOK
  <2>2. \A k \in Handlers : handler'[k] = IF k = h THEN x ELSE handler[k]
    BY <1>0, <1>5
  <2>3. x.phase \notin {"locked", "notifying"}
    BY <1>0, <1>5 DEF Working
  <2>4. \A k \in Handlers : ~HoldsLock(k)'
    BY <2>1, <2>2, <2>3 DEF HoldsLock
  <2> QED
    BY <1>5, <2>4, AutomationAssumption DEF LockOK
<1>6. ASSUME NEW h \in Handlers, NEW x, handler' = [handler EXCEPT ![h] = x],
             quoteLock' = quoteLock, x.phase \in {"locked", "notifying"} <=> HoldsLock(h)
      PROVE  LockOK'
  <2>1. \A k \in Handlers : handler'[k] = IF k = h THEN x ELSE handler[k]
    BY <1>0, <1>6
  <2>2. \A k \in Handlers : HoldsLock(k)' <=> HoldsLock(k)
    BY <1>6, <2>1 DEF HoldsLock
  <2> QED
    BY <1>6, <2>2, LockKept
<1>7. ASSUME NEW h \in Handlers, AlertTriggers(h) PROVE LockOK'
  <2>1. HoldsLock(h)
    BY <1>7 DEF AlertTriggers, HoldsLock
  <2>2. CASE quoteLock' = Free /\ handler' = [handler EXCEPT ![h] = HandlerIdle]
    BY <1>5, <2>1, <2>2
  <2>3. CASE quoteLock' = quoteLock /\ handler' = [handler EXCEPT ![h].phase = "notifying"]
    <3>1. PICK x : x = [handler[h] EXCEPT !.phase = "notifying"]
      OBVIOUS
    <3>2. handler[h] \in UnderLock
      BY <1>0, <2>1, PhaseFacts DEF HoldsLock
    <3>3. x.phase = "notifying"
      BY <3>1, <3>2 DEF UnderLock
    <3>4. handler' = [handler EXCEPT ![h] = x]
      BY <2>3, <3>1
    <3> QED
      BY <1>6, <2>1, <2>3, <3>3, <3>4
  <2> QED
    BY <1>7, <2>2, <2>3 DEF AlertTriggers
<1>8. ASSUME NEW h \in Handlers, AlertNotified(h) PROVE LockOK'
  <2>1. HoldsLock(h) /\ quoteLock' = quoteLock
    BY <1>8 DEF AlertNotified, HoldsLock
  <2>2. PICK x : handler' = [handler EXCEPT ![h] = x] /\ x.phase = "locked"
    BY <1>8, LockFacts
  <2> QED
    BY <1>6, <2>1, <2>2
<1>9. ASSUME NEW h \in Handlers, QuoteReleases(h) PROVE LockOK'
  <2>1. HoldsLock(h) /\ quoteLock' = Free
    BY <1>9 DEF QuoteReleases, HoldsLock
  <2>2. PICK x \in {HandlerIdle} \cup Thinking : handler' = [handler EXCEPT ![h] = x]
    BY <1>9, LockFacts
  <2> QED
    BY <1>5, <2>1, <2>2
<1>10. ASSUME NEW h \in Handlers, WorkStep(h) PROVE LockOK'
  <2>1. quoteLock' = quoteLock /\ handler[h] \in {HandlerIdle} \cup Working
    BY <1>10, WorkFacts
  <2>2. PICK x \in {HandlerIdle} \cup Working : handler' = [handler EXCEPT ![h] = x]
    BY <1>10, WorkFacts
  <2>3. ~HoldsLock(h) /\ x.phase \notin {"locked", "notifying"}
    BY <1>0, <2>1, <2>2 DEF HoldsLock
  <2> QED
    BY <1>6, <2>1, <2>2, <2>3
<1> QED
  BY <1>1, <1>2, <1>3, <1>4, <1>7, <1>8, <1>9, <1>10
     DEF BotNext, botVars, Start, ResumeBot, BotTick, WorkStep

\* The signals counted since the last tick (_signals_this_tick).
SignalsCounted == signalsThisTick \in Nat

\* A tick and a restart reset the counter, a sentiment answer may advance it.
LEMMA CountStep == SignalsCounted /\ [BotNext]_botVars => SignalsCounted'
<1> SUFFICES ASSUME SignalsCounted, [BotNext]_botVars PROVE SignalsCounted'
  OBVIOUS
<1>1. signalsThisTick \in Nat
  BY DEF SignalsCounted
<1>2. CASE UNCHANGED signalsThisTick
  BY <1>1, <1>2 DEF SignalsCounted
<1>3. CASE signalsThisTick' = 0
  BY <1>3 DEF SignalsCounted
<1>4. ASSUME NEW h \in Handlers, NEW action \in {"buy", "sell", "hold"}, SentimentArrives(h, action)
      PROVE  SignalsCounted'
  <2>1. signalsThisTick' = signalsThisTick \/ signalsThisTick' = signalsThisTick + 1
    BY <1>4 DEF SentimentArrives
  <2> QED
    BY <1>1, <2>1 DEF SignalsCounted
<1>5. ASSUME NEW h \in Handlers, NEW filled \in BOOLEAN,
             AlertTriggers(h) \/ AlertNotified(h) \/ QuoteReleases(h) \/ TickBegins(h)
                \/ PortfolioArrives(h) \/ HandlerRaises(h) \/ OrderAnswered(h, filled)
      PROVE  UNCHANGED signalsThisTick \/ signalsThisTick' = 0
  BY <1>5 DEF AlertTriggers, AlertNotified, QuoteReleases, TickBegins, PortfolioArrives,
              HandlerRaises, OrderAnswered
<1> QED
  BY <1>2, <1>3, <1>4, <1>5 DEF BotNext, botVars, Start, Stop, PauseBot, ResumeBot, BotRestart,
     BotTick, QuoteBegins

\* on_quote handles one quote at a time: the lock is held by a handler under it,
\* and by nobody when there is none, across raised exceptions and restarts
\* (_quote_lock); with the types of the engine's other variables.
THEOREM BotTypeCorrect == BotSpec => []BotTypeOK
<1>1. BotInit => HandlerInv /\ AlertInv /\ CooldownInv /\ LockOK /\ SignalsCounted
  <2> SUFFICES ASSUME BotInit PROVE AlertInv /\ CooldownInv /\ LockOK /\ SignalsCounted
    BY HandlerStart
  <2>1. \A h \in Handlers : handler[h].phase = "idle"
    BY DEF BotInit, HandlerIdle
  <2>2. alert = [memory |-> TRUE, table |-> TRUE, notified |-> 0]
    BY DEF BotInit
  <2>3. alert \in [memory: BOOLEAN, table: BOOLEAN, notified: Nat] /\ alert.notified = 0 /\ alert.table = TRUE
    BY <2>2
  <2>4. AlertInv
    BY <2>1, <2>3 DEF AlertInv
  <2>5. CooldownInv
    BY AutomationAssumption DEF BotInit, CooldownInv, CooldownHolds
  <2>6. LockOK
    BY <2>1, AutomationAssumption DEF BotInit, LockOK, HoldsLock
  <2>7. SignalsCounted
    BY DEF BotInit, SignalsCounted
  <2> QED
    BY <2>4, <2>5, <2>6, <2>7
<1>2. HandlerInv /\ AlertInv /\ CooldownInv /\ LockOK /\ SignalsCounted => BotTypeOK
  <2> SUFFICES ASSUME HandlerInv, AlertInv, CooldownInv, LockOK, SignalsCounted PROVE BotTypeOK
    OBVIOUS
  <2>1. \A h \in Handlers : handler[h].phase \in
           {"idle", "locked", "notifying", "sentiment", "portfolio", "placing"}
    BY PhaseFacts DEF HandlerInv
  <2>2. bot.state \in {"stopped", "running", "paused"} /\ bot.config \in BotConfigs \cup {NoConfig}
    BY DEF HandlerInv
  <2>3. alert.memory \in BOOLEAN /\ alert.table \in BOOLEAN /\ alert.notified \in Nat
    BY DEF AlertInv
  <2> QED
    BY <2>1, <2>2, <2>3 DEF HandlerInv, CooldownInv, LockOK, HoldsLock, SignalsCounted, BotTypeOK
<1> QED
  BY <1>1, <1>2, HandlerStep, AlertStep, CooldownStep, LockStep, CountStep, PTL DEF BotSpec

-----------------------------------------------------------------------------
(* The risk gate: submissions, the order table and cancel_open_orders.     *)

OrderShapes == [symbol: Equities, side: {"buy", "sell"}, quantity: Nat \ {0}, price: Nat, stop: Nat]
Portfolios == [cash: Int, hold: [Equities -> Int], value: [Equities -> Int]]
Accounts == [cash: Int, hold: [Equities -> Int]]
Deciding == [phase: {"portfolio", "placing"}, number: Nat, agent: BOOLEAN, intent: OrderShapes,
             portfolio: Portfolios, alone: BOOLEAN]
Answers == [phase: {"answering"}, number: Nat, agent: BOOLEAN, intent: OrderShapes,
            status: {"open", "closed"}]
Tasks == Deciding \cup Answers
BrokerRows == [number: Nat, intent: OrderShapes, state: {"resting", "filled", "ended"}]
OrderRows == [number: Nat, adopted: BOOLEAN, known: BOOLEAN, agent: BOOLEAN, intent: OrderShapes,
              status: {"open", "flagged", "closed"}, today: BOOLEAN, returned: BOOLEAN]
Sweeps == [phase: {"idle", "running", "returned", "raised"}, targets: SUBSET (Nat \X BOOLEAN),
           todo: SUBSET (Nat \X BOOLEAN)]
QuoteTyped == quote \in [Equities -> [price: MarketQuotes \cup {Unquoted}, fresh: BOOLEAN]]

\* What the market and the account look like.
MarketTyped ==
    /\ brokerAccount \in Accounts
    /\ QuoteTyped
    /\ session \in [day: Days, time: Times]
    /\ submissions \in 0..MaxSubmissions /\ moves \in 0..MaxMoves

GateTyped ==
    /\ task \in [Submitters -> {NoTask} \cup Tasks]
    /\ orders \subseteq OrderRows /\ IsFiniteSet(orders)
    /\ brokerOrders \subseteq BrokerRows
    /\ sweep \in Sweeps /\ sweep.todo \subseteq sweep.targets

\* Rows have different keys; one that reconciliation inserted has its order's
\* number, and was open only as returned.
RowProper(o) == o.adopted = TRUE => o.known = TRUE /\ (o.status = "open" => o.returned = TRUE)
TableOK ==
    /\ \A o, p \in orders : Key(o) = Key(p) => o = p
    /\ \A o \in orders : o.number < submissions /\ RowProper(o)

\* A number is of one order of the broker.
BrokerOK ==
    /\ \A b, c \in brokerOrders : b.number = c.number => b = c
    /\ \A b \in brokerOrders : b.number < submissions

\* A submission's number is used once: by the task, for the broker's order, and
\* then by the row of the submission.
TasksOK ==
    \A w \in Submitters : task[w] # NoTask =>
      /\ task[w].number < submissions
      /\ \A o \in orders : o.number = task[w].number => o.adopted = TRUE
      /\ task[w].phase # "answering" => \A b \in brokerOrders : b.number # task[w].number
      /\ \A v \in Submitters : task[v] # NoTask /\ task[v].number = task[w].number => v = w

\* The targets of cancel_open_orders have their rows; those it has done are not
\* open, unless they were returned.
Shut(o) == o.status = "open" => o.returned = TRUE
SweepOK ==
    /\ \A k \in sweep.targets : \E o \in orders : Key(o) = k
    /\ sweep.phase \in {"running", "returned"} =>
         \A o \in orders : Key(o) \in sweep.targets /\ Key(o) \notin sweep.todo => Shut(o)
    /\ sweep.phase = "returned" => sweep.todo = {}

\* The open orders that requests recorded, by number, and the requests that sent
\* an order and have no answer.
OwnOpen(o) == o.status = "open" /\ o.returned = FALSE /\ o.agent = FALSE
RestingNumbers == {n \in 0..MaxSubmissions : \E o \in orders : o.number = n /\ OwnOpen(o)}
OutNow == {w \in Submitters : task[w].phase \in {"placing", "answering"} /\ task[w].agent = FALSE}

\* A request is approved while fewer than the limit rest, so it never brings the
\* resting and the outstanding orders beyond the limit and the others' one each.
CountOK ==
    Cardinality(RestingNumbers) + Cardinality(OutNow) <= Limits.openOrders + Cardinality(Submitters) - 1

GateInv == GateTyped /\ TableOK /\ BrokerOK /\ TasksOK /\ SweepOK /\ CountOK

-----------------------------------------------------------------------------

\* Idle or not is told by the phase.
LEMMA TaskFacts ==
    ASSUME GateTyped, NEW w \in Submitters
    PROVE  /\ task[w] = NoTask <=> task[w].phase = "idle"
           /\ task[w] # NoTask <=> task[w] \in Tasks
           /\ task[w].phase \in {"portfolio", "placing"} <=> task[w] \in Deciding
           /\ task[w].phase = "answering" <=> task[w] \in Answers
           /\ task[w] \in Tasks => task[w].number \in Nat /\ task[w].intent \in OrderShapes
<1>1. NoTask.phase = "idle"
  BY DEF NoTask
<1>2. \A t \in Deciding : t.phase \in {"portfolio", "placing"} /\ t.number \in Nat /\ t.intent \in OrderShapes
  BY DEF Deciding
<1>3. \A t \in Answers : t.phase = "answering" /\ t.number \in Nat /\ t.intent \in OrderShapes
  BY DEF Answers
<1>4. task[w] \in {NoTask} \cup Deciding \cup Answers
  BY DEF GateTyped, Tasks
<1> QED
  BY <1>1, <1>2, <1>3, <1>4 DEF Tasks

\* Two rows have the same key when they agree on number and origin.
LEMMA KeyFacts ==
    ASSUME NEW o, NEW p
    PROVE  Key(o) = Key(p) <=> o.number = p.number /\ o.adopted = p.adopted
BY DEF Key

\* The counted sets are finite.
LEMMA CountFacts ==
    /\ IsFiniteSet(RestingNumbers) /\ Cardinality(RestingNumbers) \in Nat
    /\ IsFiniteSet(OutNow) /\ Cardinality(OutNow) \in Nat
    /\ Cardinality(OutNow) <= Cardinality(Submitters) /\ Cardinality(Submitters) \in Nat
    /\ Cardinality(Submitters) >= 1
<1> USE RiskAssumption
<1>1. IsFiniteSet(0..MaxSubmissions)
  <2>1. 0 \in Int /\ MaxSubmissions \in Int
    OBVIOUS
  <2> QED
    BY <2>1, FS_Interval
<1>2. RestingNumbers \in SUBSET (0..MaxSubmissions)
  BY DEF RestingNumbers
<1>3. OutNow \in SUBSET Submitters
  BY DEF OutNow
<1>4. IsFiniteSet(RestingNumbers) /\ IsFiniteSet(OutNow) /\ Cardinality(OutNow) <= Cardinality(Submitters)
  BY <1>1, <1>2, <1>3, FS_Subset
<1>5. Cardinality(Submitters) \in Nat /\ Cardinality(Submitters) # 0
  BY FS_CardinalityType, FS_EmptySet
<1> QED
  BY <1>4, <1>5, FS_CardinalityType

\* Fewer resting orders and fewer outstanding ones keep the count.
LEMMA CountFalls ==
    ASSUME CountOK, RestingNumbers' \subseteq RestingNumbers, OutNow' \subseteq OutNow
    PROVE  CountOK'
<1>1. PICK a, b, c, d : /\ a = Cardinality(RestingNumbers) /\ b = Cardinality(OutNow)
                        /\ c = Cardinality(RestingNumbers') /\ d = Cardinality(OutNow')
  OBVIOUS
<1>2. /\ a \in Nat /\ b \in Nat /\ IsFiniteSet(RestingNumbers) /\ IsFiniteSet(OutNow)
      /\ Cardinality(Submitters) \in Nat
  BY <1>1, CountFacts
<1>3. IsFiniteSet(RestingNumbers') /\ IsFiniteSet(OutNow') /\ c <= a /\ d <= b
  BY <1>1, <1>2, FS_Subset
<1>4. c \in Nat /\ d \in Nat
  BY <1>1, <1>3, FS_CardinalityType
<1>5. a + b <= Limits.openOrders + Cardinality(Submitters) - 1
  BY <1>1 DEF CountOK
<1>6. c + d <= Limits.openOrders + Cardinality(Submitters) - 1
  BY <1>2, <1>3, <1>4, <1>5, RiskAssumption
<1> QED
  BY <1>1, <1>6 DEF CountOK

\* Rows that are rewritten keep their key and their sender, and none is opened
\* but by being returned.
SameRow(x, o) ==
    /\ Key(x) = Key(o) /\ x.number = o.number /\ x.adopted = o.adopted /\ x.agent = o.agent
    /\ Shut(o) => Shut(x)
    /\ OwnOpen(x) => OwnOpen(o)
Rewritten ==
    /\ orders' \subseteq OrderRows /\ IsFiniteSet(orders')
    /\ \A x, y \in orders' : Key(x) = Key(y) => x = y
    /\ \A x \in orders' : RowProper(x) /\ \E o \in orders : SameRow(x, o)
    /\ \A o \in orders : \E x \in orders' : Key(x) = Key(o)

\* The broker's orders keep their numbers, and it takes none but those of tasks
\* that now await the answer.
SentBy(w, n) == task[w].phase = "placing" /\ task'[w].phase = "answering" /\ task[w].number = n
BrokerMoved ==
    /\ brokerOrders' \subseteq BrokerRows
    /\ \A b, c \in brokerOrders' : b.number = c.number => b = c
    /\ \A c \in brokerOrders' :
         \/ \E b \in brokerOrders : b.number = c.number
         \/ \E w \in Submitters : SentBy(w, c.number)

\* No task begins, and none is approved.
SameTask(t, u) ==
    /\ u # NoTask /\ t.number = u.number /\ t.agent = u.agent
    /\ t.phase = u.phase \/ (u.phase = "placing" /\ t.phase = "answering")
Continued ==
    /\ task' \in [Submitters -> {NoTask} \cup Tasks]
    /\ \A w \in Submitters : task'[w] # NoTask => SameTask(task'[w], task[w])

\* A task that goes on keeps its number, which no order of the broker has before
\* it is sent.
LEMMA TasksContinue ==
    ASSUME GateInv, Continued, BrokerMoved, submissions' = submissions,
           \A w \in Submitters : task'[w] # NoTask =>
             \A x \in orders' : x.number = task'[w].number => x.adopted = TRUE
    PROVE  TasksOK' /\ BrokerOK' /\ OutNow' \subseteq OutNow
<1>1. ASSUME NEW w \in Submitters, task'[w] # NoTask
      PROVE  /\ task[w] # NoTask /\ task'[w].number = task[w].number /\ task'[w].agent = task[w].agent
             /\ task'[w].phase # "answering" => task[w].phase # "answering"
             /\ task'[w].phase \in {"placing", "answering"} => task[w].phase \in {"placing", "answering"}
  BY <1>1 DEF Continued, SameTask
<1>2. ASSUME NEW w \in Submitters, NEW n, SentBy(w, n)
      PROVE  task[w] # NoTask /\ task'[w] # NoTask /\ task[w].number = n
  BY <1>2 DEF SentBy, NoTask
<1>3. ASSUME NEW w \in Submitters, task'[w] # NoTask, task'[w].phase # "answering", NEW c \in brokerOrders'
      PROVE  c.number # task'[w].number
  <2>1. task[w] # NoTask /\ task'[w].number = task[w].number /\ task[w].phase # "answering"
    BY <1>1, <1>3
  <2>2. CASE \E b \in brokerOrders : b.number = c.number
    BY <2>1, <2>2 DEF GateInv, TasksOK
  <2>3. ASSUME NEW v \in Submitters, SentBy(v, c.number) PROVE c.number # task'[w].number
    <3>1. v # w
      BY <1>3, <2>3 DEF SentBy
    <3> QED
      BY <1>2, <2>1, <2>3, <3>1 DEF GateInv, TasksOK
  <2> QED
    BY <2>2, <2>3 DEF BrokerMoved
<1>4. TasksOK'
  BY <1>1, <1>3 DEF GateInv, TasksOK
<1>5. \A c \in brokerOrders' : c.number < submissions
  BY <1>2 DEF BrokerMoved, GateInv, BrokerOK, TasksOK
<1>6. BrokerOK'
  BY <1>5 DEF BrokerOK, BrokerMoved
<1>7. OutNow' \subseteq OutNow
  <2> SUFFICES ASSUME NEW w \in Submitters, task'[w].phase \in {"placing", "answering"}, task'[w].agent = FALSE
               PROVE  w \in OutNow
    BY DEF OutNow
  <2>1. task'[w] # NoTask
    BY DEF NoTask
  <2> QED
    BY <1>1, <2>1 DEF OutNow
<1> QED
  BY <1>4, <1>6, <1>7

\* A step in which rows are rewritten, tasks go on or end, and the broker acts.
LEMMA QuietStep ==
    ASSUME GateInv, Rewritten, Continued, BrokerMoved, submissions' = submissions, sweep' = sweep
    PROVE  GateInv'
<1>1. GateTyped'
  BY DEF GateInv, GateTyped, Rewritten, Continued, BrokerMoved
<1>2. TableOK'
  BY DEF GateInv, TableOK, Rewritten, SameRow
<1>3. \A w \in Submitters : task'[w] # NoTask =>
        \A x \in orders' : x.number = task'[w].number => x.adopted = TRUE
  BY DEF GateInv, TasksOK, Rewritten, SameRow, Continued, SameTask
<1>4. TasksOK' /\ BrokerOK' /\ OutNow' \subseteq OutNow
  BY <1>3, TasksContinue
<1>5. SweepOK'
  <2>1. \A k \in sweep.targets : \E x \in orders' : Key(x) = k
    BY DEF GateInv, SweepOK, Rewritten
  <2>2. ASSUME sweep.phase \in {"running", "returned"}, NEW x \in orders',
               Key(x) \in sweep.targets, Key(x) \notin sweep.todo
        PROVE  Shut(x)
    <3>1. PICK o \in orders : Key(x) = Key(o) /\ (Shut(o) => Shut(x))
      BY DEF Rewritten, SameRow
    <3> QED
      BY <2>2, <3>1 DEF GateInv, SweepOK
  <2> QED
    BY <2>1, <2>2 DEF GateInv, SweepOK
<1>6. RestingNumbers' \subseteq RestingNumbers
  BY DEF RestingNumbers, Rewritten, SameRow
<1>7. CountOK'
  BY <1>4, <1>6, CountFalls DEF GateInv
<1> QED
  BY <1>1, <1>2, <1>4, <1>5, <1>7 DEF GateInv

\* One row is rewritten.
LEMMA RowRewritten ==
    ASSUME GateInv, NEW o \in orders, NEW x \in OrderRows, SameRow(x, o), RowProper(x), Rewrite(o, x)
    PROVE  Rewritten
<1>1. orders' = (orders \ {o}) \cup {x}
  BY DEF Rewrite
<1>2. orders' \subseteq OrderRows
  BY <1>1 DEF GateInv, GateTyped
<1>3. IsFiniteSet(orders')
  <2>1. IsFiniteSet(orders \ {o})
    BY FS_RemoveElement DEF GateInv, GateTyped
  <2> QED
    BY <1>1, <2>1, FS_AddElement
<1>4. Key(x) = Key(o)
  BY DEF SameRow
<1>5. \A y, z \in orders' : Key(y) = Key(z) => y = z
  BY <1>1, <1>4 DEF GateInv, TableOK
<1>6. \A y \in orders : SameRow(y, y) /\ RowProper(y)
  BY DEF SameRow, GateInv, TableOK
<1>7. \A y \in orders' : RowProper(y) /\ \E p \in orders : SameRow(y, p)
  BY <1>1, <1>6
<1>8. \A p \in orders : \E y \in orders' : Key(y) = Key(p)
  BY <1>1, <1>4
<1> QED
  BY <1>2, <1>3, <1>5, <1>7, <1>8 DEF Rewritten

\* Nothing happens to the order table, to the tasks or to the broker's orders.
LEMMA NothingRewritten ==
    ASSUME GateInv
    PROVE  orders' = orders => Rewritten
<1>1. \A y \in orders : SameRow(y, y)
  BY DEF SameRow
<1> QED
  BY <1>1 DEF GateInv, GateTyped, TableOK, Rewritten

LEMMA NothingContinued ==
    ASSUME GateInv
    PROVE  task' = task => Continued
BY DEF GateInv, GateTyped, Continued, SameTask

LEMMA NothingMoved ==
    ASSUME GateInv
    PROVE  brokerOrders' = brokerOrders => BrokerMoved
BY DEF GateInv, GateTyped, BrokerOK, BrokerMoved

\* What awaits the answer is the submission that was sent.
LEMMA AwaitedFacts ==
    ASSUME GateInv, NEW w \in Submitters, task[w].phase = "placing", NEW status \in {"open", "closed"}
    PROVE  /\ task[w] \in Tasks /\ Awaited(w, status) \in Answers /\ Awaited(w, status) # NoTask
           /\ Awaited(w, status).phase = "answering"
           /\ SameTask(Awaited(w, status), task[w])
<1>1. task[w] \in Deciding /\ task[w] \in Tasks /\ task[w] # NoTask
  BY TaskFacts DEF GateInv
<1>2. task[w].number \in Nat /\ task[w].agent \in BOOLEAN /\ task[w].intent \in OrderShapes
  BY <1>1 DEF Deciding
<1>3. Awaited(w, status) \in Answers
  BY <1>2 DEF Awaited, Answers
<1>4. Awaited(w, status) # NoTask
  BY DEF Awaited, NoTask
<1>5. SameTask(Awaited(w, status), task[w])
  BY <1>1 DEF Awaited, SameTask
<1>6. Awaited(w, status).phase = "answering"
  BY DEF Awaited
<1> QED
  BY <1>1, <1>3, <1>4, <1>5, <1>6

\* A fill or a price disturbs the tasks of others; a task that is sent awaits its
\* answer.
LEMMA DisturbContinues ==
    ASSUME GateInv, NEW W \in SUBSET Submitters, NEW t, t = Disturb(task, W)
    PROVE  /\ t \in [Submitters -> {NoTask} \cup Tasks]
           /\ \A v \in Submitters : t[v] # NoTask => SameTask(t[v], task[v])
           /\ task' = t => Continued
<1>1. task \in [Submitters -> {NoTask} \cup Tasks]
  BY DEF GateInv, GateTyped
<1>2. ASSUME NEW v \in Submitters
      PROVE  t[v] \in {NoTask} \cup Tasks /\ (t[v] # NoTask => SameTask(t[v], task[v]))
  <2>1. t[v] = IF v \in W \/ task[v].phase \notin {"portfolio", "placing"} THEN task[v]
               ELSE [task[v] EXCEPT !.alone = FALSE]
    BY DEF Disturb
  <2>2. ASSUME task[v].phase \in {"portfolio", "placing"}
        PROVE  LET x == [task[v] EXCEPT !.alone = FALSE] IN x \in Deciding /\ SameTask(x, task[v])
    <3>1. task[v] \in Deciding /\ task[v] # NoTask
      BY <2>2, TaskFacts DEF GateInv
    <3>2. PICK x : x = [task[v] EXCEPT !.alone = FALSE]
      OBVIOUS
    <3>3. /\ x \in Deciding /\ x.number = task[v].number /\ x.agent = task[v].agent
          /\ x.phase = task[v].phase
      BY <3>1, <3>2 DEF Deciding
    <3>4. SameTask(x, task[v])
      BY <3>1, <3>3 DEF SameTask
    <3> QED
      BY <3>2, <3>3, <3>4
  <2>3. task[v] # NoTask => SameTask(task[v], task[v])
    BY DEF SameTask
  <2>4. t[v] = task[v] \/ (t[v] \in Deciding /\ SameTask(t[v], task[v]))
    BY <2>1, <2>2
  <2>5. task[v] \in {NoTask} \cup Tasks
    BY <1>1
  <2> QED
    BY <2>3, <2>4, <2>5 DEF Tasks
<1>3. t \in [Submitters -> {NoTask} \cup Tasks]
  <2>1. t = [v \in Submitters |-> t[v]]
    BY DEF Disturb
  <2> QED
    BY <1>2, <2>1
<1>4. task' = t => Continued
  BY <1>2, <1>3 DEF Continued
<1> QED
  BY <1>2, <1>3, <1>4

\* One task of a table that continues is ended, or sent.
LEMMA OneContinues ==
    ASSUME GateInv, NEW w \in Submitters, NEW t \in [Submitters -> {NoTask} \cup Tasks],
           \A v \in Submitters : t[v] # NoTask => SameTask(t[v], task[v]),
           NEW u \in {NoTask} \cup Tasks, u # NoTask => SameTask(u, task[w]),
           task' = [t EXCEPT ![w] = u]
    PROVE  Continued /\ task'[w] = u
<1>1. \A v \in Submitters : task'[v] = IF v = w THEN u ELSE t[v]
  OBVIOUS
<1>2. task' \in [Submitters -> {NoTask} \cup Tasks]
  OBVIOUS
<1> QED
  BY <1>1, <1>2 DEF Continued

LEMMA SelfContinues ==
    ASSUME GateInv
    PROVE  /\ task \in [Submitters -> {NoTask} \cup Tasks]
           /\ \A v \in Submitters : task[v] # NoTask => SameTask(task[v], task[v])
BY DEF GateInv, GateTyped, SameTask

\* The broker takes the order of a task that awaits the answer.
LEMMA TakenMoves ==
    ASSUME GateInv, NEW w \in Submitters, task[w].phase = "placing", task'[w].phase = "answering",
           NEW state \in {"resting", "filled", "ended"}, Taken(w, state)
    PROVE  BrokerMoved
<1>1. task[w] \in Tasks /\ task[w] # NoTask
  BY TaskFacts DEF GateInv, Tasks
<1>2. task[w].number \in Nat /\ task[w].intent \in OrderShapes
  BY <1>1, TaskFacts DEF GateInv
<1>3. PICK x : x = [number |-> task[w].number, intent |-> task[w].intent, state |-> state]
  OBVIOUS
<1>4. x \in BrokerRows /\ x.number = task[w].number
  BY <1>2, <1>3 DEF BrokerRows
<1>5. brokerOrders' = brokerOrders \cup {x}
  BY <1>3 DEF Taken
<1>6. \A b \in brokerOrders : b.number # x.number
  BY <1>1, <1>4 DEF GateInv, TasksOK
<1>7. \A b, c \in brokerOrders' : b.number = c.number => b = c
  BY <1>5, <1>6 DEF GateInv, BrokerOK
<1>8. SentBy(w, x.number)
  BY <1>4 DEF SentBy
<1> QED
  BY <1>4, <1>5, <1>7, <1>8 DEF BrokerMoved, GateInv, GateTyped

\* The broker's orders are only rewritten, number by number.
LEMMA BrokerRewritten ==
    ASSUME GateInv, brokerOrders' \subseteq BrokerRows,
           \A b, c \in brokerOrders' : b.number = c.number => b = c,
           \A c \in brokerOrders' : \E b \in brokerOrders : b.number = c.number
    PROVE  BrokerMoved
BY DEF BrokerMoved

\* The larger and the smaller of two integers.
LEMMA LargerOf ==
    ASSUME NEW a \in Int, NEW b \in Int
    PROVE  Max({a, b}) = IF a >= b THEN a ELSE b
<1>1. \E x \in {a, b} : \A y \in {a, b} : x >= y
  OBVIOUS
<1>2. Max({a, b}) \in {a, b} /\ \A y \in {a, b} : Max({a, b}) >= y
  BY <1>1 DEF Max
<1> QED
  BY <1>2

LEMMA SmallerOf ==
    ASSUME NEW a \in Int, NEW b \in Int
    PROVE  Min({a, b}) = IF a <= b THEN a ELSE b
<1>1. \E x \in {a, b} : \A y \in {a, b} : x <= y
  OBVIOUS
<1>2. Min({a, b}) \in {a, b} /\ \A y \in {a, b} : Min({a, b}) <= y
  BY <1>1 DEF Min
<1> QED
  BY <1>2

\* A fill leaves the account integers.
LEMMA AfterFillType ==
    ASSUME MarketTyped, NEW i \in OrderShapes, NEW price \in Int
    PROVE  AfterFill(i, price) \in Accounts
<1>1. PICK sign : sign = IF i.side = "buy" THEN 1 ELSE -1
  OBVIOUS
<1>2. PICK s, q : s = i.symbol /\ q = i.quantity
  OBVIOUS
<1>3. s \in Equities /\ q \in Int /\ sign \in Int
  BY <1>1, <1>2 DEF OrderShapes
<1>4. brokerAccount.cash \in Int /\ brokerAccount.hold \in [Equities -> Int]
  BY DEF MarketTyped, Accounts
<1>5. PICK cash, n : cash = brokerAccount.cash - sign * q * price /\ n = brokerAccount.hold[s] + sign * q
  OBVIOUS
<1>6. sign * q \in Int
  BY <1>3
<1>7. sign * q * price \in Int
  BY <1>6
<1>8. cash \in Int /\ n \in Int
  BY <1>3, <1>4, <1>5, <1>6, <1>7
<1>9. AfterFill(i, price) = [cash |-> cash, hold |-> [brokerAccount.hold EXCEPT ![s] = n]]
  BY <1>1, <1>2, <1>5 DEF AfterFill
<1> QED
  BY <1>3, <1>4, <1>8, <1>9 DEF Accounts

\* The prices of a quote, and the mark, are integers.
LEMMA PricesType ==
    ASSUME MarketTyped, NEW s \in Equities
    PROVE  /\ quote[s].price.last \in Nat /\ quote[s].price.bid \in Nat /\ quote[s].price.offer \in Nat
           /\ Mark(s) \in Nat /\ Mark(s) > 0
<1>1. quote[s].price \in MarketQuotes \cup {Unquoted}
  BY DEF MarketTyped, QuoteTyped
<1>2. MarketQuotes \subseteq [last: Nat \ {0}, bid: Nat, offer: Nat]
  BY RiskAssumption, Zenon
<1>3. Unquoted \in [last: Nat, bid: Nat, offer: Nat]
  BY DEF Unquoted
<1>4. quote[s].price \in [last: Nat, bid: Nat, offer: Nat]
  BY <1>1, <1>2, <1>3
<1>5. quote[s].price.last \in Nat /\ quote[s].price.bid \in Nat /\ quote[s].price.offer \in Nat
  BY <1>4
<1> QED
  BY <1>5 DEF Mark

\* A portfolio is of integers.
LEMMA PortfolioType ==
    ASSUME MarketTyped
    PROVE  /\ \A s \in Equities : Mark(s) \in Int
           /\ Portfolio(brokerAccount) \in Portfolios
<1>1. \A s \in Equities : Mark(s) \in Int
  BY PricesType
<1>2. brokerAccount.cash \in Int /\ brokerAccount.hold \in [Equities -> Int]
  BY DEF MarketTyped, Accounts
<1>3. \A s \in Equities : brokerAccount.hold[s] * Mark(s) \in Int
  BY <1>1, <1>2
<1>4. [s \in Equities |-> brokerAccount.hold[s] * Mark(s)] \in [Equities -> Int]
  BY <1>3
<1> QED
  BY <1>1, <1>2, <1>4 DEF Portfolio, Portfolios

\* The prices of fills are integers.
LEMMA FillPricesType ==
    ASSUME MarketTyped, NEW i \in OrderShapes, NEW price \in FillPrices(i)
    PROVE  price \in Int
<1>1. i.symbol \in Equities /\ i.price \in Nat
  BY DEF OrderShapes
<1>2. PICK m : m = MarketPrice(i)
  OBVIOUS
<1>3. m \in Int
  BY <1>1, <1>2, PricesType DEF MarketPrice
<1>4. Min({i.price, m}) \in Int /\ Max({i.price, m}) \in Int
  BY <1>1, <1>3, LargerOf, SmallerOf
<1> QED
  BY <1>1, <1>2, <1>3, <1>4 DEF FillPrices

\* A submission begins, with a number of its own.
LEMMA TaskBegins ==
    ASSUME GateInv, MarketTyped, NEW w \in Submitters, task[w] = NoTask, NEW t \in Deciding,
           t.number = submissions, t.phase = "portfolio" \/ t.agent = TRUE,
           task' = [task EXCEPT ![w] = t], submissions' = submissions + 1,
           UNCHANGED <<orders, sweep, brokerOrders>>
    PROVE  GateInv'
<1>1. /\ submissions \in Nat /\ task \in [Submitters -> {NoTask} \cup Tasks] /\ orders \subseteq OrderRows
      /\ brokerOrders \subseteq BrokerRows
  BY RiskAssumption DEF MarketTyped, GateInv, GateTyped
<1>2. \A v \in Submitters : task'[v] = IF v = w THEN t ELSE task[v]
  BY <1>1
<1>3. \A o \in orders : o.number \in Nat /\ o.number < submissions
  BY <1>1 DEF GateInv, TableOK, OrderRows
<1>4. \A b \in brokerOrders : b.number \in Nat /\ b.number < submissions
  BY <1>1 DEF GateInv, BrokerOK, BrokerRows
<1>5. \A v \in Submitters : task[v] # NoTask => task[v].number \in Nat /\ task[v].number < submissions
  BY TaskFacts DEF GateInv, TasksOK
<1>6. t \in Tasks /\ t.phase \in {"portfolio", "placing"}
  BY DEF Tasks, Deciding
<1>7. GateTyped'
  <2>1. task' \in [Submitters -> {NoTask} \cup Tasks]
    BY <1>1, <1>6
  <2> QED
    BY <2>1 DEF GateInv, GateTyped
<1>8. TableOK' /\ BrokerOK'
  <2>1. \A o \in orders : o.number < submissions + 1
    BY <1>1, <1>3
  <2>2. \A b \in brokerOrders : b.number < submissions + 1
    BY <1>1, <1>4
  <2> QED
    BY <2>1, <2>2 DEF GateInv, TableOK, BrokerOK
<1>9. TasksOK'
  <2>1. ASSUME NEW v \in Submitters, task'[v] # NoTask
        PROVE  /\ task'[v].number < submissions + 1
               /\ \A o \in orders : o.number = task'[v].number => o.adopted = TRUE
               /\ task'[v].phase # "answering" => \A b \in brokerOrders : b.number # task'[v].number
               /\ \A u \in Submitters : task'[u] # NoTask /\ task'[u].number = task'[v].number => u = v
    <3>1. CASE v = w
      BY <1>1, <1>2, <1>3, <1>4, <1>5, <3>1
    <3>2. CASE v # w
      BY <1>1, <1>2, <1>5, <2>1, <3>2 DEF GateInv, TasksOK
    <3> QED
      BY <3>1, <3>2
  <2> QED
    BY <2>1 DEF TasksOK
<1>10. SweepOK'
  BY DEF GateInv, SweepOK
<1>11. CountOK'
  <2>1. RestingNumbers' = RestingNumbers
    BY DEF RestingNumbers
  <2>2. OutNow' = OutNow
    <3>1. w \notin OutNow
      BY DEF OutNow, NoTask
    <3>2. ~(t.phase \in {"placing", "answering"} /\ t.agent = FALSE)
      BY <1>6
    <3> QED
      BY <1>2, <3>1, <3>2 DEF OutNow
  <2> QED
    BY <2>1, <2>2 DEF GateInv, CountOK
<1> QED
  BY <1>7, <1>8, <1>9, <1>10, <1>11 DEF GateInv

\* The orders that requests recorded are counted by their numbers: they are rows
\* of submissions, which have a number each.
LEMMA CountByNumbers ==
    ASSUME GateInv, MarketTyped
    PROVE  /\ IsFiniteSet({o \in orders : OwnOpen(o)})
           /\ Cardinality({o \in orders : OwnOpen(o)}) = Cardinality(RestingNumbers)
<1>1. PICK R : R = {o \in orders : OwnOpen(o)}
  OBVIOUS
<1>2. IsFiniteSet(RestingNumbers)
  BY CountFacts
<1>3. \A o \in R : o \in orders /\ OwnOpen(o) /\ o.number \in 0..MaxSubmissions /\ o.number \in RestingNumbers
  <2>1. \A o \in R : o.number \in Nat /\ o.number < submissions
    BY <1>1 DEF GateInv, GateTyped, TableOK, OrderRows
  <2>2. submissions \in Nat /\ MaxSubmissions \in Nat /\ submissions <= MaxSubmissions
    BY RiskAssumption DEF MarketTyped
  <2>3. \A o \in R : o.number \in 0..MaxSubmissions
    BY <2>1, <2>2
  <2> QED
    BY <1>1, <2>3 DEF RestingNumbers
<1>4. \A o \in R : o.adopted = FALSE
  BY <1>3 DEF GateInv, GateTyped, TableOK, RowProper, OwnOpen, OrderRows
<1>5. \A o, p \in R : o.number = p.number => o = p
  BY <1>3, <1>4 DEF GateInv, TableOK, Key
<1>6. PICK f : f = [n \in RestingNumbers |-> CHOOSE o \in R : o.number = n]
  OBVIOUS
<1>7. \A n \in RestingNumbers : \E o \in R : o.number = n
  BY <1>1 DEF RestingNumbers
<1>8. \A n \in RestingNumbers : f[n] \in R /\ f[n].number = n
  BY <1>6, <1>7
<1>9. \A o \in R : f[o.number] = o
  BY <1>3, <1>5, <1>8
<1>10. f \in Surjection(RestingNumbers, R)
  <2>1. f \in [RestingNumbers -> R]
    BY <1>6, <1>8
  <2> QED
    BY <1>3, <1>9, <2>1 DEF Surjection
<1>11. f \in Injection(RestingNumbers, R)
  <2>1. \A m, n \in RestingNumbers : f[m] = f[n] => m = n
    BY <1>8
  <2> QED
    BY <1>10, <2>1 DEF Surjection, Injection, IsInjective
<1>12. IsFiniteSet(R) /\ Cardinality(R) = Cardinality(RestingNumbers)
  BY <1>2, <1>10, <1>11, FS_Surjection
<1> QED
  BY <1>1, <1>12

\* A request is approved: fewer orders than the limit were open.
LEMMA EvaluateStep ==
    ASSUME GateInv, MarketTyped, NEW w \in Submitters, Evaluate(w)
    PROVE  GateInv'
<1>1. /\ task[w].phase = "portfolio" /\ UNCHANGED <<orders, brokerOrders, sweep, submissions>>
      /\ task \in [Submitters -> {NoTask} \cup Tasks]
  BY DEF Evaluate, GateInv, GateTyped, brokerVars
<1>2. task[w] \in Deciding /\ task[w] # NoTask
  BY <1>1, TaskFacts DEF GateInv
<1>3. PICK i, p, t : /\ i = task[w].intent /\ p = task[w].portfolio
                     /\ t = IF Approved(i, RiskContext(i, p)) THEN [task[w] EXCEPT !.phase = "placing"] ELSE NoTask
  OBVIOUS
<1>4. task' = [task EXCEPT ![w] = t]
  BY <1>3 DEF Evaluate
<1>5. \A v \in Submitters : task'[v] = IF v = w THEN t ELSE task[v]
  BY <1>1, <1>4
<1>6. CASE t = NoTask
  <2>1. Continued
    BY <1>4, <1>6, SelfContinues, OneContinues
  <2> QED
    BY <1>1, <2>1, NothingRewritten, NothingMoved, QuietStep
<1>7. CASE t # NoTask
  <2>1. Approved(i, RiskContext(i, p)) /\ t = [task[w] EXCEPT !.phase = "placing"]
    BY <1>3, <1>7
  <2>2. t \in Deciding /\ t.number = task[w].number /\ t.agent = task[w].agent /\ t.phase = "placing"
    BY <1>2, <2>1 DEF Deciding
  <2>3. GateTyped'
    <3>1. task' \in [Submitters -> {NoTask} \cup Tasks]
      BY <1>1, <1>4, <2>2 DEF Tasks
    <3> QED
      BY <1>1, <3>1 DEF GateInv, GateTyped
  <2>4. \A v \in Submitters :
          /\ task'[v] # NoTask <=> task[v] # NoTask
          /\ task[v] # NoTask => task'[v].number = task[v].number
          /\ task'[v].phase # "answering" => task[v].phase # "answering"
    BY <1>1, <1>2, <1>5, <1>7, <2>2
  <2>5. TasksOK'
    <3>1. ASSUME NEW v \in Submitters, task'[v] # NoTask
          PROVE  /\ task'[v].number < submissions
                 /\ \A o \in orders : o.number = task'[v].number => o.adopted = TRUE
                 /\ task'[v].phase # "answering" => \A b \in brokerOrders : b.number # task'[v].number
                 /\ \A u \in Submitters : task'[u] # NoTask /\ task'[u].number = task'[v].number => u = v
      BY <2>4, <3>1 DEF GateInv, TasksOK
    <3> QED
      BY <1>1, <3>1 DEF TasksOK
  <2>6. TableOK' /\ BrokerOK' /\ SweepOK'
    BY <1>1 DEF GateInv, TableOK, BrokerOK, SweepOK
  <2>7. CountOK'
    <3>1. Cardinality(OpenOrders) < Limits.openOrders
      <4>1. RiskContext(i, p).openOrders = Cardinality(OpenOrders)
        BY DEF RiskContext
      <4>2. FewOpen(RiskContext(i, p))
        BY <2>1 DEF Approved
      <4> QED
        BY <4>1, <4>2 DEF FewOpen
    <3>2. PICK R, k : R = {o \in orders : OwnOpen(o)} /\ k = Cardinality(OpenOrders)
      OBVIOUS
    <3>3. IsFiniteSet(R) /\ Cardinality(R) = Cardinality(RestingNumbers)
      BY <3>2, CountByNumbers
    <3>4. Cardinality(R) <= k /\ k \in Nat
      <4>1. IsFiniteSet(OpenOrders)
        <5>1. OpenOrders \in SUBSET orders
          BY DEF OpenOrders
        <5> QED
          BY <5>1, FS_Subset DEF GateInv, GateTyped
      <4>2. R \in SUBSET OpenOrders
        BY <3>2 DEF OpenOrders, OpenStatuses, OwnOpen
      <4> QED
        BY <3>2, <4>1, <4>2, FS_Subset, FS_CardinalityType
    <3>5. RestingNumbers' = RestingNumbers
      BY <1>1 DEF RestingNumbers
    <3>6. OutNow' \in SUBSET Submitters
      BY DEF OutNow
    <3>7. PICK a, b : a = Cardinality(RestingNumbers') /\ b = Cardinality(OutNow')
      OBVIOUS
    <3>8. IsFiniteSet(OutNow') /\ b <= Cardinality(Submitters)
      BY <3>6, <3>7, FS_Subset, RiskAssumption
    <3>9. a \in Nat /\ b \in Nat /\ Cardinality(Submitters) \in Nat
      BY <3>5, <3>7, <3>8, FS_CardinalityType, CountFacts
    <3>10. a <= k /\ k < Limits.openOrders
      BY <3>1, <3>2, <3>3, <3>4, <3>5, <3>7
    <3>11. a + b <= Limits.openOrders + Cardinality(Submitters) - 1
      BY <3>4, <3>8, <3>9, <3>10, RiskAssumption
    <3> QED
      BY <3>7, <3>11 DEF CountOK
  <2> QED
    BY <2>3, <2>5, <2>6, <2>7 DEF GateInv
<1> QED
  BY <1>6, <1>7

\* A row is added, with a key of its own.
RowAdded(x) ==
    /\ orders' = orders \cup {x}
    /\ x \in OrderRows /\ RowProper(x) /\ x.number < submissions
    /\ \A o \in orders : Key(o) # Key(x)

LEMMA AddedFacts ==
    ASSUME GateInv, NEW x, RowAdded(x), submissions' = submissions
    PROVE  orders' \subseteq OrderRows /\ IsFiniteSet(orders') /\ TableOK'
<1>1. orders' \subseteq OrderRows
  BY DEF GateInv, GateTyped, RowAdded
<1>2. IsFiniteSet(orders')
  BY FS_AddElement DEF GateInv, GateTyped, RowAdded
<1>3. TableOK'
  BY DEF GateInv, TableOK, RowAdded
<1> QED
  BY <1>1, <1>2, <1>3

\* A row with a new key is none of the sweep's targets.
LEMMA AddedSweep ==
    ASSUME GateInv, NEW x, RowAdded(x), sweep' = sweep
    PROVE  SweepOK'
<1>1. Key(x) \notin sweep.targets
  BY DEF GateInv, SweepOK, RowAdded
<1>2. \A k \in sweep.targets : \E o \in orders' : Key(o) = k
  BY DEF GateInv, SweepOK, RowAdded
<1>3. sweep.phase \in {"running", "returned"} =>
        \A o \in orders' : Key(o) \in sweep.targets /\ Key(o) \notin sweep.todo => Shut(o)
  BY <1>1 DEF GateInv, SweepOK, RowAdded
<1> QED
  BY <1>2, <1>3 DEF GateInv, SweepOK

\* A submission's answer: it becomes a row, or nothing.
LEMMA RecordedStep ==
    ASSUME GateInv, MarketTyped, NEW w \in Submitters, task[w].phase = "answering",
           task' = [task EXCEPT ![w] = NoTask], UNCHANGED <<brokerOrders, sweep, submissions>>,
           NEW status \in {"open", "flagged", "closed"}, NEW known \in BOOLEAN,
           orders' = orders \cup {Row(task[w], status, known)}
    PROVE  GateInv'
<1>1. task[w] \in Answers /\ task[w] # NoTask
  BY TaskFacts DEF GateInv, Tasks
<1>2. PICK x : x = Row(task[w], status, known)
  OBVIOUS
<1>3. /\ x \in OrderRows /\ x.number = task[w].number /\ x.agent = task[w].agent
      /\ x.adopted = FALSE
  BY <1>1, <1>2 DEF Row, OrderRows, Answers
<1>4. /\ \A o \in orders : o.number = x.number => o.adopted = TRUE
      /\ x.number < submissions
      /\ \A v \in Submitters : task[v] # NoTask /\ v # w => task[v].number # x.number
  BY <1>1, <1>3 DEF GateInv, TasksOK
<1>5. RowAdded(x)
  <2>1. \A o \in orders : Key(o) # Key(x)
    BY <1>3, <1>4 DEF Key
  <2>2. RowProper(x)
    BY <1>3 DEF RowProper
  <2> QED
    BY <1>2, <1>3, <1>4, <2>1, <2>2 DEF RowAdded
<1>6. orders' \subseteq OrderRows /\ IsFiniteSet(orders') /\ TableOK' /\ SweepOK'
  BY <1>5, AddedFacts, AddedSweep
<1>7. Continued /\ task'[w] = NoTask
  BY SelfContinues, OneContinues
<1>8. task \in [Submitters -> {NoTask} \cup Tasks]
  BY SelfContinues
<1>9. \A v \in Submitters : task'[v] = IF v = w THEN NoTask ELSE task[v]
  BY <1>8
<1>10. \A v \in Submitters : task'[v] # NoTask =>
         \A y \in orders' : y.number = task'[v].number => y.adopted = TRUE
  BY <1>3, <1>4, <1>5, <1>9 DEF GateInv, TasksOK, RowAdded
<1>11. TasksOK' /\ BrokerOK' /\ OutNow' \subseteq OutNow
  BY <1>7, <1>10, NothingMoved, TasksContinue
<1>12. GateTyped'
  BY <1>6, <1>7 DEF GateInv, GateTyped, Continued
<1>13. CountOK'
  <2>1. CASE ~OwnOpen(x)
    <3>1. RestingNumbers' \subseteq RestingNumbers
      BY <1>5, <2>1 DEF RestingNumbers, RowAdded
    <3> QED
      BY <1>11, <3>1, CountFalls DEF GateInv
  <2>2. CASE OwnOpen(x)
    <3>1. RestingNumbers' \subseteq RestingNumbers \cup {x.number}
      BY <1>5 DEF RestingNumbers, RowAdded
    <3>2. w \in OutNow /\ OutNow' \subseteq OutNow \ {w}
      <4>1. w \in OutNow
        BY <1>3, <2>2 DEF OutNow, OwnOpen
      <4>2. w \notin OutNow'
        BY <1>7 DEF OutNow, NoTask
      <4> QED
        BY <1>11, <4>1, <4>2
    <3>3. PICK a, b, c, d, e, f :
            /\ a = Cardinality(RestingNumbers) /\ b = Cardinality(OutNow)
            /\ c = Cardinality(RestingNumbers') /\ d = Cardinality(OutNow')
            /\ e = Cardinality(RestingNumbers \cup {x.number}) /\ f = Cardinality(OutNow \ {w})
      OBVIOUS
    <3>4. /\ a \in Nat /\ b \in Nat /\ IsFiniteSet(RestingNumbers) /\ IsFiniteSet(OutNow)
          /\ Cardinality(Submitters) \in Nat
      BY <3>3, CountFacts
    <3>5. IsFiniteSet(RestingNumbers \cup {x.number}) /\ e \in Nat /\ e <= a + 1
      <4>1. /\ IsFiniteSet(RestingNumbers \cup {x.number})
            /\ e = IF x.number \in RestingNumbers THEN a ELSE a + 1
        BY <3>3, <3>4, FS_AddElement
      <4> QED
        BY <3>4, <4>1
    <3>6. IsFiniteSet(OutNow \ {w}) /\ f = b - 1
      BY <3>2, <3>3, <3>4, FS_RemoveElement
    <3>7. IsFiniteSet(RestingNumbers') /\ c <= e /\ IsFiniteSet(OutNow') /\ d <= f
      <4>1. IsFiniteSet(RestingNumbers') /\ c <= e
        BY <3>1, <3>3, <3>5, FS_Subset
      <4>2. IsFiniteSet(OutNow') /\ d <= f
        BY <3>2, <3>3, <3>6, FS_Subset
      <4> QED
        BY <4>1, <4>2
    <3>8. c \in Nat /\ d \in Nat
      BY <3>3, <3>7, FS_CardinalityType
    <3>9. a + b <= Limits.openOrders + Cardinality(Submitters) - 1
      BY <3>3 DEF GateInv, CountOK
    <3>10. c + d <= Limits.openOrders + Cardinality(Submitters) - 1
      BY <3>4, <3>5, <3>6, <3>7, <3>8, <3>9, RiskAssumption
    <3> QED
      BY <3>3, <3>10 DEF CountOK
  <2> QED
    BY <2>1, <2>2
<1> QED
  BY <1>6, <1>11, <1>12, <1>13 DEF GateInv

LEMMA AnsweredStep ==
    ASSUME GateInv, MarketTyped, NEW w \in Submitters, NEW outcome, SubmissionAnswered(w, outcome)
    PROVE  GateInv'
<1>1. /\ task[w].phase = "answering" /\ task' = [task EXCEPT ![w] = NoTask]
      /\ UNCHANGED <<brokerOrders, sweep, submissions>>
  BY DEF SubmissionAnswered, brokerVars
<1>2. CASE orders' = orders \cup {Row(task[w], task[w].status, TRUE)}
  <2>1. task[w].status \in {"open", "flagged", "closed"}
    BY <1>1, TaskFacts DEF GateInv, Answers
  <2> QED
    BY <1>1, <1>2, <2>1, RecordedStep
<1>3. CASE orders' = orders \cup {Row(task[w], "flagged", FALSE)}
  BY <1>1, <1>3, RecordedStep
<1>4. CASE orders' = orders
  <2>1. Continued
    BY <1>1, SelfContinues, OneContinues
  <2> QED
    BY <1>1, <1>4, <2>1, NothingRewritten, NothingMoved, QuietStep
<1> QED
  BY <1>2, <1>3, <1>4 DEF SubmissionAnswered

\* Reconciliation inserts an order that no row matches, so none that it inserted
\* before has its number.
LEMMA AdoptedStep ==
    ASSUME GateInv, MarketTyped, NEW b \in brokerOrders, NEW status \in {"open", "closed"},
           Adopted(b, status)
    PROVE  GateInv'
<1>1. PICK x : x = [number |-> b.number, adopted |-> TRUE, known |-> TRUE, agent |-> FALSE, intent |-> b.intent,
                    status |-> status, today |-> TRUE, returned |-> status = "open"]
  OBVIOUS
<1>2. /\ orders' = orders \cup {x} /\ UNCHANGED <<brokerOrders, task, sweep, submissions>>
      /\ \A o \in orders : ~(o.known /\ o.number = b.number)
  BY <1>1 DEF Adopted, Matches, brokerVars
<1>3. b \in BrokerRows /\ b.number < submissions
  BY DEF GateInv, GateTyped, BrokerOK
<1>4. /\ x \in OrderRows /\ x.number = b.number /\ x.adopted = TRUE /\ x.known = TRUE
      /\ x.status = "open" => x.returned = TRUE
  BY <1>1, <1>3 DEF OrderRows, BrokerRows
<1>5. RowAdded(x)
  <2>1. \A o \in orders : Key(o) # Key(x)
    BY <1>2, <1>4 DEF Key, GateInv, TableOK, RowProper
  <2>2. RowProper(x)
    BY <1>4 DEF RowProper
  <2> QED
    BY <1>2, <1>3, <1>4, <2>1, <2>2 DEF RowAdded
<1>6. orders' \subseteq OrderRows /\ IsFiniteSet(orders') /\ TableOK' /\ SweepOK'
  BY <1>2, <1>5, AddedFacts, AddedSweep
<1>7. \A v \in Submitters : task'[v] # NoTask =>
        \A y \in orders' : y.number = task'[v].number => y.adopted = TRUE
  BY <1>2, <1>4 DEF GateInv, TasksOK
<1>8. TasksOK' /\ BrokerOK' /\ OutNow' \subseteq OutNow
  BY <1>2, <1>7, NothingContinued, NothingMoved, TasksContinue
<1>9. GateTyped'
  BY <1>2, <1>6 DEF GateInv, GateTyped
<1>10. RestingNumbers' \subseteq RestingNumbers
  BY <1>2, <1>4 DEF RestingNumbers, OwnOpen
<1>11. CountOK'
  BY <1>8, <1>10, CountFalls DEF GateInv
<1> QED
  BY <1>6, <1>8, <1>9, <1>11 DEF GateInv

\* Orders of the broker end.
LEMMA EndedMoves ==
    ASSUME GateInv, NEW S \in SUBSET brokerOrders,
           brokerOrders' = (brokerOrders \ S) \cup {[b EXCEPT !.state = "ended"] : b \in S}
    PROVE  BrokerMoved
<1>1. brokerOrders \subseteq BrokerRows
  BY DEF GateInv, GateTyped
<1>2. \A b \in S : [b EXCEPT !.state = "ended"] \in BrokerRows /\ [b EXCEPT !.state = "ended"].number = b.number
  BY <1>1 DEF BrokerRows
<1>3. brokerOrders' \subseteq BrokerRows
  BY <1>1, <1>2
<1>4. \A c \in brokerOrders' : \E b \in brokerOrders :
        b.number = c.number /\ ((b \notin S /\ c = b) \/ (b \in S /\ c = [b EXCEPT !.state = "ended"]))
  BY <1>2
<1>5. \A b, c \in brokerOrders' : b.number = c.number => b = c
  BY <1>4 DEF GateInv, BrokerOK
<1> QED
  BY <1>3, <1>4, <1>5, BrokerRewritten

\* A row whose status changes, to open only as returned.
LEMMA StatusFacts ==
    ASSUME GateInv, NEW o \in orders, NEW status \in {"open", "flagged", "closed"}, NEW returned \in BOOLEAN,
           status = "open" => returned = TRUE, NEW x,
           x = [o EXCEPT !.status = status, !.returned = returned]
    PROVE  /\ x \in OrderRows /\ SameRow(x, o) /\ RowProper(x) /\ Shut(x) /\ Key(x) = Key(o)
           /\ Rewrite(o, x) => Rewritten
<1>1. o \in OrderRows /\ RowProper(o)
  BY DEF GateInv, GateTyped, TableOK
<1>2. /\ x \in OrderRows /\ x.number = o.number /\ x.adopted = o.adopted /\ x.agent = o.agent
      /\ x.known = o.known /\ x.status = status /\ x.returned = returned
  BY <1>1 DEF OrderRows
<1>3. Key(x) = Key(o)
  BY <1>2 DEF Key
<1>4. Shut(x) /\ RowProper(x) /\ ~OwnOpen(x)
  BY <1>1, <1>2 DEF Shut, RowProper, OwnOpen
<1>5. SameRow(x, o)
  BY <1>2, <1>3, <1>4 DEF SameRow
<1> QED
  BY <1>2, <1>3, <1>4, <1>5, RowRewritten

\* A cancellation closes or flags its order, or leaves the table alone.
LEMMA CancelFacts ==
    ASSUME GateInv, NEW o \in orders, NEW outcome \in {"cancelled", "ambiguous", "raised"},
           CancelOutcome(o, outcome)
    PROVE  /\ Rewritten /\ BrokerMoved
           /\ outcome # "raised" => \A x \in orders' : Key(x) = Key(o) => Shut(x)
<1>1. PICK S, gone : /\ S = {b \in brokerOrders : b.number = o.number /\ b.state = "resting"}
                     /\ gone = (brokerOrders \ S) \cup {[b EXCEPT !.state = "ended"] : b \in S}
  OBVIOUS
<1>2. \/ /\ outcome = "cancelled" /\ brokerOrders' = gone
         /\ Rewrite(o, [o EXCEPT !.status = "closed", !.returned = FALSE])
      \/ /\ outcome = "ambiguous" /\ brokerOrders' \in {brokerOrders, gone}
         /\ Rewrite(o, [o EXCEPT !.status = "flagged", !.returned = FALSE])
      \/ outcome = "raised" /\ UNCHANGED <<brokerOrders, orders>>
  BY <1>1 DEF CancelOutcome
<1>3. BrokerMoved
  BY <1>1, <1>2, EndedMoves, NothingMoved
<1>4. CASE outcome = "raised"
  BY <1>2, <1>3, <1>4, NothingRewritten
<1>5. ASSUME NEW status \in {"closed", "flagged"}, Rewrite(o, [o EXCEPT !.status = status, !.returned = FALSE])
      PROVE  Rewritten /\ \A x \in orders' : Key(x) = Key(o) => Shut(x)
  <2>1. PICK x : x = [o EXCEPT !.status = status, !.returned = FALSE]
    OBVIOUS
  <2>2. Rewrite(o, x) /\ Shut(x) /\ Key(x) = Key(o) /\ Rewritten
    BY <1>5, <2>1, StatusFacts
  <2>3. x \in orders'
    BY <2>2 DEF Rewrite
  <2> QED
    BY <2>2, <2>3 DEF Rewritten
<1> QED
  BY <1>2, <1>3, <1>4, <1>5

\* cancel_open_orders: a target that is done is not open any more.
LEMMA SweepBeginStep ==
    ASSUME GateInv, MarketTyped, SweepBegins
    PROVE  GateInv'
<1>1. PICK targets : targets = {Key(o) : o \in {x \in orders : x.status \in CancellableStatuses}}
  OBVIOUS
<1>2. /\ sweep' = [phase |-> "running", targets |-> targets, todo |-> targets]
      /\ UNCHANGED <<brokerOrders, task, orders, submissions>>
  BY <1>1 DEF SweepBegins, brokerVars
<1>3. \A k \in targets : \E o \in orders : Key(o) = k
  BY <1>1
<1>4. targets \subseteq Nat \X BOOLEAN
  BY <1>1 DEF GateInv, GateTyped, OrderRows, Key
<1>5. sweep' \in Sweeps /\ sweep'.todo = targets /\ sweep'.targets = targets /\ sweep'.phase = "running"
  BY <1>2, <1>4 DEF Sweeps
<1>6. GateTyped'
  BY <1>2, <1>5 DEF GateInv, GateTyped
<1>7. TableOK' /\ BrokerOK' /\ TasksOK' /\ CountOK'
  BY <1>2 DEF GateInv, TableOK, BrokerOK, TasksOK, CountOK, RestingNumbers, OutNow
<1>8. SweepOK'
  BY <1>2, <1>3, <1>5 DEF SweepOK
<1> QED
  BY <1>6, <1>7, <1>8 DEF GateInv

LEMMA SweepTargetStep ==
    ASSUME GateInv, MarketTyped, NEW o \in orders, NEW outcome \in {"cancelled", "ambiguous", "raised"},
           SweepStep(o, outcome)
    PROVE  GateInv'
<1>1. /\ sweep \in Sweeps /\ sweep.targets \subseteq Nat \X BOOLEAN
      /\ sweep.todo \subseteq sweep.targets
  BY DEF GateInv, GateTyped, Sweeps
<1>2. /\ sweep.phase = "running" /\ CancelOutcome(o, outcome)
      /\ sweep' = AfterTarget(o, outcome) /\ UNCHANGED <<task, submissions>>
  BY DEF SweepStep
<1>3. /\ Rewritten /\ BrokerMoved
      /\ outcome # "raised" => \A x \in orders' : Key(x) = Key(o) => Shut(x)
  BY <1>2, CancelFacts
<1>4. PICK todo, phase : /\ todo = sweep.todo \ {Key(o)}
                         /\ phase = CASE outcome = "raised" -> "raised"
                                      [] outcome # "raised" /\ todo = {} -> "returned"
                                      [] OTHER -> "running"
  OBVIOUS
<1>5. sweep' = [sweep EXCEPT !.todo = todo, !.phase = phase]
  BY <1>2, <1>4 DEF AfterTarget
<1>6. phase \in {"running", "returned", "raised"} /\ (phase = "returned" => todo = {})
      /\ (phase \in {"running", "returned"} => outcome # "raised")
  BY <1>4
<1>7. todo \subseteq sweep.targets /\ todo \subseteq Nat \X BOOLEAN
  BY <1>1, <1>4
<1>8. sweep' \in Sweeps /\ sweep'.todo = todo /\ sweep'.targets = sweep.targets /\ sweep'.phase = phase
  BY <1>1, <1>5, <1>6, <1>7 DEF Sweeps
<1>9. Continued
  BY <1>2, NothingContinued
<1>10. GateTyped'
  BY <1>3, <1>7, <1>8, <1>9 DEF GateTyped, Rewritten, Continued, BrokerMoved
<1>11. TableOK'
  BY <1>2, <1>3 DEF GateInv, TableOK, Rewritten, SameRow
<1>12. \A w \in Submitters : task'[w] # NoTask =>
         \A x \in orders' : x.number = task'[w].number => x.adopted = TRUE
  BY <1>2, <1>3 DEF GateInv, TasksOK, Rewritten, SameRow
<1>13. TasksOK' /\ BrokerOK' /\ OutNow' \subseteq OutNow
  BY <1>2, <1>3, <1>9, <1>12, TasksContinue
<1>14. SweepOK'
  <2>1. ASSUME phase \in {"running", "returned"}, NEW x \in orders', Key(x) \in sweep.targets, Key(x) \notin todo
        PROVE  Shut(x)
    <3>1. CASE Key(x) = Key(o)
      BY <1>3, <1>6, <2>1, <3>1
    <3>2. CASE Key(x) # Key(o)
      <4>1. Key(x) \notin sweep.todo
        BY <1>4, <2>1, <3>2
      <4>2. PICK y \in orders : Key(x) = Key(y) /\ (Shut(y) => Shut(x))
        BY <1>3 DEF Rewritten, SameRow
      <4> QED
        BY <1>2, <2>1, <4>1, <4>2 DEF GateInv, SweepOK
    <3> QED
      BY <3>1, <3>2
  <2>2. \A k \in sweep.targets : \E x \in orders' : Key(x) = k
    BY <1>3 DEF GateInv, SweepOK, Rewritten
  <2> QED
    BY <1>6, <1>8, <2>1, <2>2 DEF SweepOK
<1>15. RestingNumbers' \subseteq RestingNumbers
  BY <1>3 DEF RestingNumbers, Rewritten, SameRow
<1>16. CountOK'
  BY <1>13, <1>15, CountFalls DEF GateInv
<1> QED
  BY <1>10, <1>11, <1>13, <1>14, <1>16 DEF GateInv

\* The broker acts on an order.
LEMMA SentStep ==
    ASSUME GateInv, MarketTyped, NEW w \in Submitters, OrderFilled(w) \/ OrderRests(w) \/ BrokerRefuses(w)
    PROVE  GateInv'
<1>1. /\ task[w].phase = "placing" /\ UNCHANGED <<orders, sweep, submissions>>
  BY DEF OrderFilled, OrderRests, BrokerRefuses
<1>2. ASSUME NEW status \in {"open", "closed"}, NEW t, t = task \/ t = Disturb(task, {w}),
             task' = [t EXCEPT ![w] = Awaited(w, status)]
      PROVE  Continued /\ task'[w].phase = "answering"
  <2>1. PICK u : u = Awaited(w, status)
    OBVIOUS
  <2>2. u \in Answers /\ u # NoTask /\ u.phase = "answering" /\ SameTask(u, task[w])
    BY <1>1, <2>1, AwaitedFacts
  <2>3. t \in [Submitters -> {NoTask} \cup Tasks] /\ \A v \in Submitters : t[v] # NoTask => SameTask(t[v], task[v])
    BY <1>2, SelfContinues, DisturbContinues
  <2>4. u \in {NoTask} \cup Tasks /\ task' = [t EXCEPT ![w] = u]
    BY <1>2, <2>1, <2>2 DEF Tasks
  <2>5. Continued /\ task'[w] = u
    BY <2>2, <2>3, <2>4, OneContinues
  <2> QED
    BY <2>2, <2>5
<1>3. CASE OrderFilled(w)
  <2>1. task' = [Disturb(task, {w}) EXCEPT ![w] = Awaited(w, "closed")] /\ Taken(w, "filled")
    BY <1>3 DEF OrderFilled
  <2>2. Continued /\ task'[w].phase = "answering"
    BY <1>2, <2>1
  <2>3. BrokerMoved
    BY <1>1, <2>1, <2>2, TakenMoves
  <2> QED
    BY <1>1, <2>2, <2>3, NothingRewritten, QuietStep
<1>4. CASE OrderRests(w)
  <2>1. task' = [task EXCEPT ![w] = Awaited(w, "open")] /\ Taken(w, "resting")
    BY <1>4 DEF OrderRests
  <2>2. Continued /\ task'[w].phase = "answering"
    BY <1>2, <2>1
  <2>3. BrokerMoved
    BY <1>1, <2>1, <2>2, TakenMoves
  <2> QED
    BY <1>1, <2>2, <2>3, NothingRewritten, QuietStep
<1>5. CASE BrokerRefuses(w)
  <2>1. task' = [task EXCEPT ![w] = Awaited(w, "closed")] /\ brokerOrders' = brokerOrders
    BY <1>5 DEF BrokerRefuses, brokerVars
  <2>2. Continued
    BY <1>2, <2>1
  <2> QED
    BY <1>1, <2>1, <2>2, NothingRewritten, NothingMoved, QuietStep
<1> QED
  BY <1>3, <1>4, <1>5

\* Every step of the gate keeps its invariant.
LEMMA GateStep == GateInv /\ MarketTyped /\ [RiskNext]_riskVars => GateInv'
<1> SUFFICES ASSUME GateInv, MarketTyped, [RiskNext]_riskVars PROVE GateInv'
  OBVIOUS
<1>1. task \in [Submitters -> {NoTask} \cup Tasks] /\ orders \subseteq OrderRows
  BY DEF GateInv, GateTyped
<1>2. submissions \in Nat
  BY RiskAssumption DEF MarketTyped
<1>3. ASSUME NEW w \in Submitters, NEW i \in ClientIntents, RequestPortfolio(w, i) PROVE GateInv'
  <2>1. PICK t : t = [phase |-> "portfolio", number |-> submissions, agent |-> FALSE, intent |-> i,
                      portfolio |-> Portfolio(brokerAccount), alone |-> TRUE]
    OBVIOUS
  <2>2. i \in OrderShapes
    BY RiskAssumption DEF OrderShapes
  <2>3. t \in Deciding /\ t.number = submissions /\ t.phase = "portfolio"
    BY <1>2, <2>1, <2>2, PortfolioType DEF Deciding
  <2>4. /\ task[w] = NoTask /\ task' = [task EXCEPT ![w] = t] /\ submissions' = submissions + 1
        /\ UNCHANGED <<orders, sweep, brokerOrders>>
    BY <1>3, <2>1 DEF RequestPortfolio, brokerVars
  <2> QED
    BY <2>3, <2>4, TaskBegins
<1>4. ASSUME NEW w \in Submitters, NEW i \in ClientIntents, AgentOrder(w, i) PROVE GateInv'
  <2>1. i \in OrderShapes
    BY RiskAssumption DEF OrderShapes
  <2>2. PICK stop : stop = Max({i.price, 1}) - 1
    OBVIOUS
  <2>3. stop \in Nat
    <3>1. PICK price : price = i.price
      OBVIOUS
    <3>2. price \in Nat
      BY <2>1, <3>1 DEF OrderShapes
    <3>3. Max({price, 1}) = IF price >= 1 THEN price ELSE 1
      BY <3>2, LargerOf
    <3> QED
      BY <2>2, <3>1, <3>2, <3>3
  <2>4. PICK j : j = IF i.side = "buy" /\ i.stop = 0 THEN [i EXCEPT !.stop = stop] ELSE i
    OBVIOUS
  <2>5. j \in OrderShapes
    BY <2>1, <2>3, <2>4 DEF OrderShapes
  <2>6. PICK t : t = [phase |-> "placing", number |-> submissions, agent |-> TRUE, intent |-> j,
                      portfolio |-> Portfolio(brokerAccount), alone |-> TRUE]
    OBVIOUS
  <2>7. t \in Deciding /\ t.number = submissions /\ t.agent = TRUE
    BY <1>2, <2>5, <2>6, PortfolioType DEF Deciding
  <2>8. /\ task[w] = NoTask /\ task' = [task EXCEPT ![w] = t] /\ submissions' = submissions + 1
        /\ UNCHANGED <<orders, sweep, brokerOrders>>
    BY <1>4, <2>2, <2>4, <2>6 DEF AgentOrder, brokerVars
  <2> QED
    BY <2>7, <2>8, TaskBegins
<1>5. ASSUME NEW s \in Equities, QuoteAges(s) \/ \E q \in MarketQuotes : QuoteArrives(s, q) PROVE GateInv'
  <2>1. UNCHANGED <<brokerOrders, orders, sweep, submissions>> /\ (task' = task \/ task' = Disturb(task, {}))
    BY <1>5 DEF QuoteAges, QuoteArrives, brokerVars
  <2>2. Continued
    BY <2>1, NothingContinued, DisturbContinues
  <2> QED
    BY <2>1, <2>2, NothingRewritten, NothingMoved, QuietStep
<1>6. ASSUME NEW day \in Days, NEW time \in Times, ClockMoves(day, time) PROVE GateInv'
  <2>1. /\ UNCHANGED <<brokerOrders, task, sweep, submissions>>
        /\ orders' = orders \/ orders' = {[o EXCEPT !.today = FALSE] : o \in orders}
    BY <1>6 DEF ClockMoves, brokerVars
  <2>2. ASSUME orders' = {[o EXCEPT !.today = FALSE] : o \in orders} PROVE Rewritten
    <3>1. ASSUME NEW o \in orders
          PROVE  LET x == [o EXCEPT !.today = FALSE] IN x \in OrderRows /\ SameRow(x, o) /\ RowProper(x)
      <4>1. o \in OrderRows /\ RowProper(o)
        BY DEF GateInv, GateTyped, TableOK
      <4>2. PICK x : x = [o EXCEPT !.today = FALSE]
        OBVIOUS
      <4>3. /\ x \in OrderRows /\ x.number = o.number /\ x.adopted = o.adopted /\ x.agent = o.agent
            /\ x.known = o.known /\ x.status = o.status /\ x.returned = o.returned
        BY <4>1, <4>2 DEF OrderRows
      <4>4. SameRow(x, o) /\ RowProper(x)
        BY <4>1, <4>3 DEF SameRow, RowProper, Key, Shut, OwnOpen
      <4> QED
        BY <4>2, <4>3, <4>4
    <3>2. orders' \subseteq OrderRows
      BY <2>2, <3>1
    <3>3. \A x \in orders' : \E o \in orders : x = [o EXCEPT !.today = FALSE] /\ SameRow(x, o) /\ RowProper(x)
      BY <2>2, <3>1
    <3>4. \A x, y \in orders' : Key(x) = Key(y) => x = y
      <4> SUFFICES ASSUME NEW x \in orders', NEW y \in orders', Key(x) = Key(y) PROVE x = y
        OBVIOUS
      <4>1. PICK o \in orders : x = [o EXCEPT !.today = FALSE] /\ Key(x) = Key(o)
        BY <3>3 DEF SameRow
      <4>2. PICK p \in orders : y = [p EXCEPT !.today = FALSE] /\ Key(y) = Key(p)
        BY <3>3 DEF SameRow
      <4>3. o = p
        BY <4>1, <4>2 DEF GateInv, TableOK
      <4> QED
        BY <4>1, <4>2, <4>3
    <3>5. IsFiniteSet(orders')
      <4>1. IsFiniteSet(orders)
        BY DEF GateInv, GateTyped
      <4>2. PICK f : f = [o \in orders |-> [o EXCEPT !.today = FALSE]]
        OBVIOUS
      <4>3. f \in Surjection(orders, orders')
        BY <2>2, <4>2 DEF Surjection
      <4> QED
        BY <4>1, <4>3, FS_Surjection
    <3>6. \A o \in orders : \E x \in orders' : Key(x) = Key(o)
      BY <2>2, <3>1 DEF SameRow
    <3> QED
      BY <3>2, <3>3, <3>4, <3>5, <3>6 DEF Rewritten
  <2> QED
    BY <2>1, <2>2, NothingRewritten, NothingContinued, NothingMoved, QuietStep
<1>7. ASSUME NEW b \in brokerOrders, RestingFilled(b) PROVE GateInv'
  <2>1. /\ brokerOrders' = (brokerOrders \ {b}) \cup {[b EXCEPT !.state = "ended"]}
        /\ task' = Disturb(task, {}) /\ UNCHANGED <<orders, sweep, submissions>>
    BY <1>7 DEF RestingFilled
  <2>2. BrokerMoved
    <3>1. PICK S : S = {b}
      OBVIOUS
    <3>2. S \in SUBSET brokerOrders /\ brokerOrders' = (brokerOrders \ S) \cup {[c EXCEPT !.state = "ended"] : c \in S}
      BY <2>1, <3>1
    <3> QED
      BY <3>2, EndedMoves
  <2>3. Continued
    BY <2>1, DisturbContinues
  <2> QED
    BY <2>1, <2>2, <2>3, NothingRewritten, QuietStep
<1>8. ASSUME NEW o \in orders, NEW b \in brokerOrders, NEW status \in {"open", "closed"}, Merged(o, b, status)
      PROVE  GateInv'
  <2>1. PICK x, returned : x = [o EXCEPT !.status = status, !.returned = returned] /\ returned = (status = "open")
    OBVIOUS
  <2>2. Rewrite(o, x) /\ UNCHANGED <<brokerOrders, task, sweep, submissions>>
    BY <1>8, <2>1 DEF Merged, brokerVars
  <2>3. Rewritten
    BY <2>1, <2>2, StatusFacts
  <2> QED
    BY <2>2, <2>3, NothingContinued, NothingMoved, QuietStep
<1>9. ASSUME NEW o \in orders, MissingRemote(o) PROVE GateInv'
  <2>1. PICK x : x = [o EXCEPT !.status = "flagged", !.returned = FALSE]
    OBVIOUS
  <2>2. Rewrite(o, x) /\ UNCHANGED <<brokerOrders, task, sweep, submissions>>
    BY <1>9, <2>1 DEF MissingRemote, brokerVars
  <2>3. Rewritten
    BY <2>1, <2>2, StatusFacts
  <2> QED
    BY <2>2, <2>3, NothingContinued, NothingMoved, QuietStep
<1>10. ASSUME NEW o \in orders, NEW outcome \in {"cancelled", "ambiguous", "raised"}, CancelOne(o, outcome)
       PROVE  GateInv'
  <2>1. CancelOutcome(o, outcome) /\ UNCHANGED <<task, sweep, submissions>>
    BY <1>10 DEF CancelOne
  <2>2. Rewritten /\ BrokerMoved
    BY <2>1, CancelFacts
  <2> QED
    BY <2>1, <2>2, NothingContinued, QuietStep
<1>11. CASE UNCHANGED riskVars
  BY <1>11, NothingRewritten, NothingContinued, NothingMoved, QuietStep DEF riskVars, brokerVars
<1> QED
  BY <1>3, <1>4, <1>5, <1>6, <1>7, <1>8, <1>9, <1>10, <1>11, EvaluateStep, SentStep, AnsweredStep, AdoptedStep,
     SweepBeginStep, SweepTargetStep
     DEF RiskNext

\* Money, prices and the clock keep their types.
LEMMA MarketStep == GateInv /\ MarketTyped /\ [RiskNext]_riskVars => MarketTyped'
<1> SUFFICES ASSUME GateInv, MarketTyped, [RiskNext]_riskVars PROVE MarketTyped'
  OBVIOUS
<1>1. /\ submissions \in Nat /\ submissions <= MaxSubmissions /\ MaxSubmissions \in Nat
      /\ moves \in Nat /\ moves <= MaxMoves /\ MaxMoves \in Nat
      /\ submissions \in 0..MaxSubmissions /\ moves \in 0..MaxMoves
  BY RiskAssumption DEF MarketTyped
<1>2. ASSUME moves < MaxMoves, moves' = moves + 1 PROVE moves' \in 0..MaxMoves
  BY <1>1, <1>2
<1>3. ASSUME NEW i \in OrderShapes, \E price \in FillPrices(i) : brokerAccount' = AfterFill(i, price)
      PROVE  brokerAccount' \in Accounts
  BY <1>3, FillPricesType, AfterFillType
<1>4. ASSUME NEW w \in Submitters, OrderFilled(w) PROVE MarketTyped'
  <2>1. PICK i : i = task[w].intent
    OBVIOUS
  <2>2. /\ task[w].phase = "placing" /\ \E price \in FillPrices(i) : brokerAccount' = AfterFill(i, price)
        /\ UNCHANGED <<quote, session, submissions, moves>>
    BY <1>4, <2>1 DEF OrderFilled
  <2>3. i \in OrderShapes
    BY <2>1, <2>2, TaskFacts DEF GateInv, Deciding
  <2> QED
    BY <1>3, <2>2, <2>3 DEF MarketTyped, QuoteTyped
<1>5. ASSUME NEW b \in brokerOrders, RestingFilled(b) PROVE MarketTyped'
  <2>1. PICK i : i = b.intent
    OBVIOUS
  <2>2. i \in OrderShapes
    BY <2>1 DEF GateInv, GateTyped, BrokerRows
  <2>3. /\ \E price \in FillPrices(i) : brokerAccount' = AfterFill(i, price)
        /\ UNCHANGED <<quote, session, submissions, moves>>
    BY <1>5, <2>1 DEF RestingFilled
  <2> QED
    BY <1>3, <2>2, <2>3 DEF MarketTyped, QuoteTyped
<1>6. ASSUME NEW w \in Submitters, NEW i \in ClientIntents, RequestPortfolio(w, i) \/ AgentOrder(w, i)
      PROVE  MarketTyped'
  <2>1. /\ UNCHANGED <<brokerAccount, quote, session, moves>>
        /\ submissions < MaxSubmissions /\ submissions' = submissions + 1
    BY <1>6 DEF RequestPortfolio, AgentOrder, brokerVars
  <2>2. submissions' \in 0..MaxSubmissions
    BY <1>1, <2>1
  <2> QED
    BY <2>1, <2>2 DEF MarketTyped, QuoteTyped
<1>7. ASSUME NEW s \in Equities, QuoteAges(s) \/ \E q \in MarketQuotes : QuoteArrives(s, q) PROVE MarketTyped'
  <2>1. UNCHANGED <<brokerAccount, session, submissions>> /\ moves' \in 0..MaxMoves
    BY <1>2, <1>7 DEF QuoteAges, QuoteArrives, brokerVars
  <2>2. QuoteTyped'
    <3>1. quote \in [Equities -> [price: MarketQuotes \cup {Unquoted}, fresh: BOOLEAN]]
      BY DEF MarketTyped, QuoteTyped
    <3>2. CASE QuoteAges(s)
      <4>1. quote' = [quote EXCEPT ![s].fresh = FALSE]
        BY <3>2 DEF QuoteAges
      <4> QED
        BY <3>1, <4>1 DEF QuoteTyped
    <3>3. ASSUME NEW q \in MarketQuotes, QuoteArrives(s, q)
          PROVE  QuoteTyped'
      <4>1. quote' = [quote EXCEPT ![s] = [price |-> q, fresh |-> TRUE]]
        BY <3>3 DEF QuoteArrives
      <4> QED
        BY <3>1, <4>1 DEF QuoteTyped
    <3> QED
      BY <1>7, <3>2, <3>3
  <2> QED
    BY <2>1, <2>2 DEF MarketTyped
<1>8. ASSUME NEW day \in Days, NEW time \in Times, ClockMoves(day, time) PROVE MarketTyped'
  <2>1. UNCHANGED <<brokerAccount, quote, submissions>> /\ moves' \in 0..MaxMoves
        /\ session' = [day |-> day, time |-> time]
    BY <1>2, <1>8 DEF ClockMoves, brokerVars
  <2> QED
    BY <2>1 DEF MarketTyped, QuoteTyped
<1>9. ASSUME UNCHANGED <<brokerAccount, quote, session, submissions>>,
             moves' = moves \/ (moves < MaxMoves /\ moves' = moves + 1)
      PROVE  MarketTyped'
  <2>1. moves' \in 0..MaxMoves
    BY <1>1, <1>2, <1>9
  <2> QED
    BY <1>9, <2>1 DEF MarketTyped, QuoteTyped
<1>10. CASE \E w \in Submitters, outcome \in {"recorded", "ambiguous", "raised"} : SubmissionAnswered(w, outcome)
  BY <1>9, <1>10 DEF SubmissionAnswered, brokerVars
<1>11. CASE \/ \E b \in brokerOrders, status \in {"open", "closed"} :
                 Adopted(b, status) \/ \E o \in orders : Merged(o, b, status)
            \/ \E o \in orders : MissingRemote(o)
            \/ \E o \in orders, outcome \in {"cancelled", "ambiguous", "raised"} : CancelOne(o, outcome)
            \/ SweepBegins
  BY <1>9, <1>11 DEF Adopted, Merged, MissingRemote, CancelOne, SweepBegins, brokerVars
<1>12. CASE \/ \E w \in Submitters : Evaluate(w) \/ OrderRests(w) \/ BrokerRefuses(w)
            \/ \E o \in orders, outcome \in {"cancelled", "ambiguous", "raised"} : SweepStep(o, outcome)
            \/ UNCHANGED riskVars
  BY <1>9, <1>12 DEF Evaluate, OrderRests, BrokerRefuses, SweepStep, riskVars, brokerVars
<1> QED
  BY <1>4, <1>5, <1>6, <1>7, <1>8, <1>10, <1>11, <1>12 DEF RiskNext

\* A desk without orders, whatever its cash.
LEMMA GateInit == RiskInit => GateInv /\ MarketTyped
<1> SUFFICES ASSUME RiskInit PROVE GateInv /\ MarketTyped
  OBVIOUS
<1> USE RiskAssumption
<1>1. MarketTyped
  <2>1. brokerAccount \in Accounts
    BY DEF RiskInit, Accounts
  <2>2. QuoteTyped
    BY DEF RiskInit, QuoteTyped
  <2>3. session \in [day: Days, time: Times] /\ submissions \in 0..MaxSubmissions /\ moves \in 0..MaxMoves
    BY DEF RiskInit, Days, Times
  <2> QED
    BY <2>1, <2>2, <2>3 DEF MarketTyped
<1>2. task = [w \in Submitters |-> NoTask] /\ orders = {} /\ brokerOrders = {} /\ sweep = NoSweep
  BY DEF RiskInit
<1>3. GateTyped
  BY <1>2, FS_EmptySet DEF GateTyped, Sweeps, NoSweep
<1>4. TableOK /\ BrokerOK /\ TasksOK
  BY <1>2 DEF TableOK, BrokerOK, TasksOK
<1>5. SweepOK
  BY <1>2 DEF SweepOK, NoSweep
<1>6. CountOK
  <2>1. RestingNumbers = {} /\ OutNow = {}
    BY <1>2 DEF RestingNumbers, OutNow, NoTask
  <2>2. Cardinality(RestingNumbers) = 0 /\ Cardinality(OutNow) = 0
    BY <2>1, FS_EmptySet
  <2> QED
    BY <2>2, CountFacts DEF CountOK
<1> QED
  BY <1>1, <1>3, <1>4, <1>5, <1>6 DEF GateInv

\* The gate's invariant holds for any number of concurrent submitters.
LEMMA GateInvariant == RiskSpec => [](GateInv /\ MarketTyped)
  BY GateInit, GateStep, MarketStep, PTL DEF RiskSpec

\* The open orders that requests recorded, apart from those that reconciliation
\* reopened or adopted, exceed max_open_orders by at most the other submitters,
\* however many submissions race between risk check and answer.
THEOREM OpenOrdersAreBounded == RiskSpec => []OpenOrdersBounded
<1>1. GateInv /\ MarketTyped => OpenOrdersBounded
  <2> SUFFICES ASSUME GateInv, MarketTyped PROVE OpenOrdersBounded
    OBVIOUS
  <2>1. PICK R : R = {o \in orders : o.status = "open" /\ ~o.returned /\ ~o.agent}
    OBVIOUS
  <2>2. \A o \in orders : (~o.agent <=> o.agent = FALSE) /\ (~o.returned <=> o.returned = FALSE)
    BY DEF GateInv, GateTyped, OrderRows
  <2>3. R = {o \in orders : OwnOpen(o)}
    BY <2>1, <2>2 DEF OwnOpen
  <2>4. Cardinality(R) = Cardinality(RestingNumbers)
    BY <2>3, CountByNumbers
  <2>5. Cardinality(RestingNumbers) + Cardinality(OutNow) <= Limits.openOrders + Cardinality(Submitters) - 1
    BY DEF GateInv, CountOK
  <2>6. Cardinality(R) <= Limits.openOrders + Cardinality(Submitters) - 1
    BY <2>4, <2>5, CountFacts, RiskAssumption
  <2> QED
    BY <2>1, <2>6 DEF OpenOrdersBounded
<1> QED
  BY <1>1, GateInvariant, PTL

\* When cancel_open_orders has returned, a target that is open was reopened by a
\* run of reconciliation since, whatever the other callers and the broker did.
THEOREM SweepIsAccounted == RiskSpec => []SweepAccounted
<1>1. GateInv => SweepAccounted
  BY DEF GateInv, SweepOK, SweepAccounted, Shut, CancellableStatuses
<1> QED
  BY <1>1, GateInvariant, PTL

\* Types, unique broker numbers and row keys, and the sweep's work list.
THEOREM RiskTypeCorrect == RiskSpec => []RiskTypeOK
<1>1. GateInv /\ MarketTyped => RiskTypeOK
  <2> SUFFICES ASSUME GateInv, MarketTyped PROVE RiskTypeOK
    OBVIOUS
  <2>1. \A w \in Submitters : task[w].phase \in {"idle", "portfolio", "placing", "answering"}
    BY TaskFacts DEF GateInv, Tasks
  <2>2. \A o \in orders : o.status \in {"open", "flagged", "closed"} /\ o.intent.quantity \in Nat
    BY DEF GateInv, GateTyped, OrderRows, OrderShapes
  <2>3. sweep.phase \in {"idle", "running", "returned", "raised"} /\ sweep.todo \subseteq sweep.targets
    BY DEF GateInv, GateTyped, Sweeps
  <2>4. \A b \in brokerOrders : b.state \in {"resting", "filled", "ended"} /\ b.number \in 0..MaxSubmissions
    <3>1. \A b \in brokerOrders : b.state \in {"resting", "filled", "ended"} /\ b.number \in Nat /\ b.number < submissions
      BY DEF GateInv, GateTyped, BrokerOK, BrokerRows
    <3>2. submissions \in Nat /\ MaxSubmissions \in Nat /\ submissions <= MaxSubmissions
      BY RiskAssumption DEF MarketTyped
    <3> QED
      BY <3>1, <3>2
  <2> QED
    BY <2>1, <2>2, <2>3, <2>4 DEF GateInv, TableOK, BrokerOK, MarketTyped, QuoteTyped, Accounts, RiskTypeOK
<1> QED
  BY <1>1, GateInvariant, PTL

-----------------------------------------------------------------------------
(* The limits after a fill.                                                *)

\* A percentage rounded up compares with a limit as the fraction does.
LEMMA PctLimit ==
    ASSUME NEW v \in Int, NEW e \in Int, e > 0, NEW limit \in Nat
    PROVE  Pct(v, e) <= limit <=> 100 * v <= limit * e
<1>1. PICK n : n = -100 * v
  OBVIOUS
<1>2. n \in Int
  BY <1>1
<1>3. PICK q : q = n \div e
  OBVIOUS
<1>4. q \in Int /\ q * e <= n /\ n < (q + 1) * e
  BY <1>2, <1>3
<1>5. Pct(v, e) = -q
  BY <1>1, <1>3 DEF Pct
<1>6. ASSUME -q <= limit PROVE 100 * v <= limit * e
  <2>1. q >= -limit
    BY <1>4, <1>6
  <2>2. q * e >= (-limit) * e
    BY <1>4, <2>1
  <2> QED
    BY <1>1, <1>4, <2>2
<1>7. ASSUME 100 * v <= limit * e PROVE -q <= limit
  <2> SUFFICES ASSUME q + 1 <= -limit PROVE FALSE
    BY <1>4
  <2>1. (q + 1) * e <= (-limit) * e
    BY <1>4
  <2>2. (-limit) * e = -(limit * e)
    OBVIOUS
  <2> QED
    BY <1>1, <1>2, <1>4, <1>7, <2>1, <2>2
<1> QED
  BY <1>5, <1>6, <1>7

\* Percentages are integers.
LEMMA PctType ==
    ASSUME NEW v \in Int, NEW e \in Int
    PROVE  Pct(v, e) \in Int
<1>1. -100 * v \in Int
  OBVIOUS
<1>2. PICK n : n = -100 * v
  OBVIOUS
<1>3. CASE e = 0
  BY <1>3 DEF Pct
<1>4. CASE e > 0
  <2>1. n \div e \in Int
    BY <1>1, <1>2, <1>4
  <2> QED
    BY <1>2, <1>4, <2>1 DEF Pct
<1>5. CASE e < 0
  <2>1. -e > 0 /\ -e \in Int
    BY <1>5
  <2>2. n \div (-e) \in Int
    BY <1>1, <1>2, <2>1
  <2> QED
    BY <1>2, <1>5, <2>2 DEF Pct
<1> QED
  BY <1>3, <1>4, <1>5

\* Paying d more than the mark costs the equity d and the exposure d: the share
\* that was within the limit before stays so.
LEMMA ShareAfter ==
    ASSUME NEW x \in Int, NEW d \in Int, NEW e \in Int, NEW limit \in Nat,
           d >= 0, x <= e, e - d > 0, 100 * x <= limit * e
    PROVE  Pct(x - d, e - d) <= limit
<1>1. 100 * (x - d) <= limit * (e - d)
  <2>1. CASE limit <= 100
    <3>1. limit * d <= 100 * d
      BY <2>1
    <3>2. limit * (e - d) = limit * e - limit * d
      OBVIOUS
    <3> QED
      BY <3>1, <3>2
  <2>2. CASE limit > 100
    <3>1. 100 * (e - d) <= limit * (e - d)
      BY <2>2
    <3>2. 100 * (x - d) <= 100 * (e - d)
      OBVIOUS
    <3> QED
      BY <3>1, <3>2
  <2> QED
    BY <2>1, <2>2
<1>2. x - d \in Int /\ e - d \in Int
  OBVIOUS
<1> QED
  BY <1>1, <1>2, PctLimit

\* What an order costs at a reference price, when it has no price of its own.
Worth(i, reference) == (IF i.price # 0 THEN i.price ELSE reference) * i.quantity

\* The portfolio is within a limit once an order's worth is added to it.
RoomFor(value, p, limit) == Pct(value, Equity(p)) <= limit

\* What an approval says of an order, the portfolio it was decided on and the
\* price it was decided at.
Cleared(i, p, reference) ==
    /\ reference # 0
    /\ i.side = "sell" => i.quantity <= p.hold[i.symbol]
    /\ i.side = "buy" =>
         /\ Worth(i, reference) > 0 /\ Worth(i, reference) <= p.cash
         /\ p.hold[i.symbol] <= 0 => Cardinality({s \in Equities : p.hold[s] # 0}) < Limits.positions
         /\ RoomFor(p.value[i.symbol] + Worth(i, reference), p, Limits.symbolPct)
         /\ RoomFor(Gross(p) + Worth(i, reference), p, Limits.grossPct)
         /\ Equity(p) > 0 => RoomFor(Invested(p, Peers(i.symbol)) + Worth(i, reference), p, Limits.sectorPct)

\* The exposures of a portfolio are integers.
LEMMA ExposureTypes ==
    ASSUME NEW p \in Portfolios
    PROVE  /\ Gross(p) \in Int /\ Equity(p) \in Int
           /\ \A S \in SUBSET Equities : Invested(p, S) \in Int
<1>1. IsFiniteSet(Equities)
  BY RiskAssumption
<1>2. p.value \in [Equities -> Int] /\ p.cash \in Int
  BY DEF Portfolios
<1>3. ASSUME NEW S \in SUBSET Equities PROVE Invested(p, S) \in Int
  <2>1. IsFiniteSet(S) /\ S \subseteq Equities
    BY <1>1, FS_Subset
  <2>2. SumFunctionOnSet(p.value, S) \in Int
    BY <1>2, <2>1, SumType
  <2> QED
    BY <2>2 DEF Invested
<1>4. Equity(p) \in Int
  <2>1. Invested(p, Equities) \in Int
    BY <1>3
  <2> QED
    BY <1>2, <2>1 DEF Equity
<1>5. Gross(p) \in Int
  <2>1. PICK f : f = [s \in Equities |-> Max({p.value[s], -p.value[s]})]
    OBVIOUS
  <2>2. \A s \in Equities : Max({p.value[s], -p.value[s]}) \in Int
    <3> SUFFICES ASSUME NEW s \in Equities PROVE Max({p.value[s], -p.value[s]}) \in Int
      OBVIOUS
    <3>1. p.value[s] \in Int /\ -p.value[s] \in Int
      BY <1>2
    <3> QED
      BY <3>1, LargerOf
  <2>3. f \in [Equities -> Int]
    BY <2>1, <2>2
  <2>4. SumFunctionOnSet(f, Equities) \in Int
    BY <1>1, <2>3, SumType
  <2> QED
    BY <2>1, <2>4 DEF Gross
<1> QED
  BY <1>3, <1>4, <1>5

\* evaluate over risk_context_for: what an approval of a sale establishes.
LEMMA SaleCleared ==
    ASSUME NEW i \in OrderShapes, NEW p \in Portfolios, i.side = "sell",
           Approved(i, RiskContext(i, p))
    PROVE  i.quantity <= p.hold[i.symbol] /\ quote[i.symbol].price.last # 0
<1>1. PICK c : c = RiskContext(i, p)
  OBVIOUS
<1>2. /\ c.dataAvailable <=> quote[i.symbol].price.last # 0
      /\ c.reduces <=> i.side = "sell" /\ p.hold[i.symbol] > 0 /\ i.quantity <= p.hold[i.symbol]
  BY <1>1 DEF RiskContext
<1>3. c.dataAvailable /\ SaleCovered(i, c)
  BY <1>1, Zenon DEF Approved
<1>4. c.reduces
  BY <1>3, Zenon DEF SaleCovered
<1> QED
  BY <1>2, <1>3, <1>4

\* And an approval of a buy.
LEMMA BuyCleared ==
    ASSUME NEW i \in OrderShapes, NEW p \in Portfolios, i.side = "buy",
           Approved(i, RiskContext(i, p)), NEW r \in Nat, r = quote[i.symbol].price.last
    PROVE  Cleared(i, p, r)
<1>1. PICK c : c = RiskContext(i, p)
  OBVIOUS
<1>2. PICK n : n = Worth(i, r)
  OBVIOUS
<1>3. i.symbol \in Equities /\ i.quantity \in Nat \ {0} /\ i.price \in Nat
  BY DEF OrderShapes
<1>4. n \in Nat
  BY <1>2, <1>3 DEF Worth
<1>5. p.cash \in Int /\ p.hold[i.symbol] \in Int /\ p.value[i.symbol] \in Int
  BY <1>3 DEF Portfolios
<1>6. c.reference = r /\ c.dataAvailable = (r # 0) /\ c.line = Max({p.cash, 0})
  BY <1>1 DEF RiskContext
<1>7. /\ ~c.reduces /\ (c.opensNew <=> p.hold[i.symbol] <= 0)
      /\ c.positions = Cardinality({s \in Equities : p.hold[s] # 0})
  <2>1. c.positions = Cardinality({s \in Equities : p.hold[s] # 0})
    BY <1>1, Zenon DEF RiskContext
  <2>2. c.reduces <=> i.side = "sell" /\ p.hold[i.symbol] > 0 /\ i.quantity <= p.hold[i.symbol]
    BY <1>1 DEF RiskContext
  <2>3. c.opensNew <=> i.side = "buy" /\ p.hold[i.symbol] <= 0
    BY <1>1 DEF RiskContext
  <2> QED
    BY <2>1, <2>2, <2>3
<1>8. /\ c.symbolPct = Max({0, Pct(p.value[i.symbol] + n, Equity(p))})
      /\ c.grossPct = Max({0, Pct(Gross(p) + n, Equity(p))})
      /\ c.sectorPct = IF Equity(p) <= 0 THEN 100
                       ELSE Pct(Invested(p, Peers(i.symbol)) + n, Equity(p))
  BY <1>1, <1>2 DEF RiskContext, Worth
<1>9. /\ c.dataAvailable /\ n > 0
      /\ c.opensNew => c.positions < Limits.positions
      /\ c.symbolPct <= Limits.symbolPct /\ c.grossPct <= Limits.grossPct
      /\ c.sectorPct <= Limits.sectorPct /\ n <= c.line
  BY <1>1, <1>2, <1>6, <1>7 DEF Approved, Worth
<1>10. n <= p.cash
  BY <1>4, <1>5, <1>6, <1>9, LargerOf
<1>11. Limits.symbolPct \in Nat /\ Limits.grossPct \in Nat
  BY RiskAssumption
<1>12. ASSUME NEW v \in Int, NEW limit \in Nat, Max({0, Pct(v, Equity(p))}) <= limit
       PROVE  RoomFor(v, p, limit)
  <2>1. Pct(v, Equity(p)) \in Int
    BY ExposureTypes, PctType
  <2> QED
    BY <1>12, <2>1, LargerOf DEF RoomFor
<1>13. RoomFor(p.value[i.symbol] + n, p, Limits.symbolPct)
  <2>1. p.value[i.symbol] + n \in Int
    BY <1>4, <1>5
  <2> QED
    BY <1>8, <1>9, <1>11, <1>12, <2>1
<1>14. RoomFor(Gross(p) + n, p, Limits.grossPct)
  <2>1. Gross(p) + n \in Int
    BY <1>4, ExposureTypes
  <2> QED
    BY <1>8, <1>9, <1>11, <1>12, <2>1
<1>15. Equity(p) > 0 => RoomFor(Invested(p, Peers(i.symbol)) + n, p, Limits.sectorPct)
  BY <1>8, <1>9, ExposureTypes DEF RoomFor
<1> QED
  BY <1>2, <1>6, <1>7, <1>9, <1>10, <1>13, <1>14, <1>15 DEF Cleared

-----------------------------------------------------------------------------
(* A submission that nobody has disturbed.                                 *)

\* It still sees the account as it is, and what it was approved for still holds.
AloneOK(w) ==
    task[w].phase \in {"portfolio", "placing"} /\ task[w].alone = TRUE /\ task[w].agent = FALSE =>
      /\ task[w].portfolio = Portfolio(brokerAccount)
      /\ task[w].phase = "placing" =>
           Cleared(task[w].intent, task[w].portfolio, quote[task[w].intent.symbol].price.last)

AloneInv == \A w \in Submitters : AloneOK(w)

\* Neither the account nor a last price moves.
StillMarket ==
    brokerAccount' = brokerAccount /\ \A s \in Equities : quote'[s].price.last = quote[s].price.last

\* A submission left alone in a still market keeps what it knows.
LEMMA KeepsAlone ==
    ASSUME GateInv, AloneInv, StillMarket, NEW w \in Submitters, task'[w] = task[w]
    PROVE  AloneOK(w)'
<1>1. \A s \in Equities : Mark(s)' = Mark(s)
  BY DEF StillMarket, Mark
<1>2. Portfolio(brokerAccount)' = Portfolio(brokerAccount)
  <2>1. \A s \in Equities : brokerAccount'.hold[s] * Mark(s)' = brokerAccount.hold[s] * Mark(s)
    BY <1>1 DEF StillMarket
  <2>2. [s \in Equities |-> brokerAccount'.hold[s] * Mark(s)'] = [s \in Equities |-> brokerAccount.hold[s] * Mark(s)]
    BY <2>1
  <2> QED
    BY <2>2 DEF StillMarket, Portfolio
<1>3. task[w].phase \in {"portfolio", "placing"} => task[w].intent.symbol \in Equities
  BY TaskFacts DEF GateInv, Deciding, OrderShapes
<1>4. task[w].phase \in {"portfolio", "placing"} =>
        quote'[task[w].intent.symbol].price.last = quote[task[w].intent.symbol].price.last
  BY <1>3 DEF StillMarket
<1>5. PICK t, p, b, r : /\ t = task[w] /\ p = Portfolio(brokerAccount) /\ b = Portfolio(brokerAccount)'
                        /\ r = quote[t.intent.symbol].price.last
  OBVIOUS
<1>6. t.phase \in {"portfolio", "placing"} /\ t.alone = TRUE /\ t.agent = FALSE =>
        t.portfolio = p /\ (t.phase = "placing" => Cleared(t.intent, t.portfolio, r))
  BY <1>5 DEF AloneInv, AloneOK
<1>7. /\ b = p /\ task'[w] = t
      /\ t.phase \in {"portfolio", "placing"} => quote'[t.intent.symbol].price.last = r
  BY <1>2, <1>4, <1>5
<1> QED
  BY <1>5, <1>6, <1>7 DEF AloneOK

\* A disturbed submission promises nothing any more, nor does one that was sent.
LEMMA NotAlone ==
    ASSUME NEW w \in Submitters,
           task'[w].phase \notin {"portfolio", "placing"} \/ task'[w].alone = FALSE \/ task'[w].agent = TRUE
    PROVE  AloneOK(w)'
BY DEF AloneOK

\* Whoever is disturbed is not alone, and is not sent by it.
LEMMA DisturbedFacts ==
    ASSUME GateInv, NEW W \in SUBSET Submitters, NEW w \in Submitters, w \notin W, NEW t,
           t = Disturb(task, W)[w]
    PROVE  /\ t.phase \notin {"portfolio", "placing"} \/ t.alone = FALSE
           /\ t.phase = task[w].phase
<1>1. t = IF task[w].phase \notin {"portfolio", "placing"} THEN task[w] ELSE [task[w] EXCEPT !.alone = FALSE]
  BY DEF Disturb
<1>2. task[w].phase \in {"portfolio", "placing"} => task[w] \in Deciding
  BY TaskFacts DEF GateInv
<1>3. ASSUME task[w] \in Deciding
      PROVE  /\ [task[w] EXCEPT !.alone = FALSE].alone = FALSE
             /\ [task[w] EXCEPT !.alone = FALSE].phase = task[w].phase
  BY <1>3 DEF Deciding
<1> QED
  BY <1>1, <1>2, <1>3

\* evaluate lets an order through only on the portfolio it was given; while the
\* submission is alone that is the account itself.
LEMMA EvaluatedAlone ==
    ASSUME GateInv, MarketTyped, AloneInv, NEW w \in Submitters, Evaluate(w)
    PROVE  AloneInv'
<1>1. task \in [Submitters -> {NoTask} \cup Tasks] /\ UNCHANGED <<brokerAccount, quote>>
  BY DEF GateInv, GateTyped, Evaluate, brokerVars
<1>2. task[w].phase = "portfolio" /\ task[w] \in Deciding
  BY TaskFacts DEF GateInv, Evaluate
<1>3. PICK i, p, r : i = task[w].intent /\ p = task[w].portfolio /\ r = quote[i.symbol].price.last
  OBVIOUS
<1>4. i \in OrderShapes /\ p \in Portfolios /\ i.side \in {"buy", "sell"} /\ i.symbol \in Equities
  BY <1>2, <1>3 DEF Deciding, OrderShapes
<1>5. PICK t : t = [task[w] EXCEPT !.phase = "placing"]
  OBVIOUS
<1>6. /\ t.intent = i /\ t.portfolio = p /\ t.alone = task[w].alone /\ t.agent = task[w].agent
      /\ t.phase = "placing"
  BY <1>2, <1>3, <1>5 DEF Deciding
<1>7. StillMarket
  BY <1>1 DEF StillMarket
<1>8. ASSUME NEW v \in Submitters, v # w PROVE AloneOK(v)'
  <2>1. task'[v] = task[v]
    BY <1>1, <1>8 DEF Evaluate
  <2> QED
    BY <1>7, <2>1, KeepsAlone
<1>9. AloneOK(w)'
  <2>1. CASE Approved(i, RiskContext(i, p))
    <3>1. task'[w] = t
      BY <1>1, <1>3, <1>5, <2>1 DEF Evaluate
    <3>2. r \in Nat
      BY <1>3, <1>4, PricesType
    <3>3. Cleared(i, p, r)
      <4>1. CASE i.side = "buy"
        BY <1>3, <1>4, <2>1, <3>2, <4>1, BuyCleared
      <4>2. CASE i.side = "sell"
        <5>1. i.quantity <= p.hold[i.symbol] /\ r # 0
          BY <1>3, <1>4, <2>1, <4>2, SaleCleared
        <5> QED
          BY <4>2, <5>1 DEF Cleared
      <4> QED
        BY <1>4, <4>1, <4>2
    <3>4. PICK a : a = Portfolio(brokerAccount)
      OBVIOUS
    <3>5. Portfolio(brokerAccount)' = a
      BY <1>1, <3>4 DEF Portfolio, Mark
    <3>6. task[w].alone = TRUE /\ task[w].agent = FALSE => p = a
      BY <1>2, <1>3, <3>4 DEF AloneInv, AloneOK
    <3>7. quote'[t.intent.symbol].price.last = r
      BY <1>1, <1>3, <1>6
    <3> QED
      BY <1>6, <3>1, <3>3, <3>5, <3>6, <3>7 DEF AloneOK
  <2>2. CASE ~Approved(i, RiskContext(i, p))
    <3>1. task'[w] = NoTask
      BY <1>1, <1>3, <2>2 DEF Evaluate
    <3>2. task'[w].phase = "idle"
      BY <3>1 DEF NoTask
    <3> QED
      BY <3>2, NotAlone
  <2> QED
    BY <2>1, <2>2
<1> QED
  BY <1>8, <1>9 DEF AloneInv

\* Every step leaves an undisturbed submission with what it knows.
LEMMA AloneStep == GateInv /\ MarketTyped /\ AloneInv /\ [RiskNext]_riskVars => AloneInv'
<1> SUFFICES ASSUME GateInv, MarketTyped, AloneInv, [RiskNext]_riskVars PROVE AloneInv'
  OBVIOUS
<1>1. task \in [Submitters -> {NoTask} \cup Tasks]
  BY DEF GateInv, GateTyped
<1>2. ASSUME NEW w \in Submitters, NEW x, task' = [task EXCEPT ![w] = x], StillMarket, AloneOK(w)'
      PROVE  AloneInv'
  <2>1. \A v \in Submitters : v # w => task'[v] = task[v]
    BY <1>1, <1>2
  <2>2. \A v \in Submitters : v # w => AloneOK(v)'
    BY <1>2, <2>1, KeepsAlone
  <2> QED
    BY <1>2, <2>2 DEF AloneInv
<1>3. ASSUME NEW w \in Submitters, NEW i \in ClientIntents, RequestPortfolio(w, i) PROVE AloneInv'
  <2>1. PICK t : t = [phase |-> "portfolio", number |-> submissions, agent |-> FALSE, intent |-> i,
                      portfolio |-> Portfolio(brokerAccount), alone |-> TRUE]
    OBVIOUS
  <2>2. task' = [task EXCEPT ![w] = t] /\ UNCHANGED <<brokerAccount, quote>>
    BY <1>3, <2>1 DEF RequestPortfolio, brokerVars
  <2>3. StillMarket /\ task'[w] = t
    BY <1>1, <2>2 DEF StillMarket
  <2>4. t.phase = "portfolio" /\ t.portfolio = Portfolio(brokerAccount)
    BY <2>1
  <2>5. Portfolio(brokerAccount)' = Portfolio(brokerAccount)
    BY <2>2 DEF Portfolio, Mark
  <2>6. AloneOK(w)'
    BY <2>3, <2>4, <2>5 DEF AloneOK
  <2> QED
    BY <1>2, <2>2, <2>3, <2>6
<1>4. ASSUME NEW w \in Submitters, NEW i \in ClientIntents, AgentOrder(w, i) PROVE AloneInv'
  <2>1. PICK t : task' = [task EXCEPT ![w] = t] /\ t.agent = TRUE
    <3>1. PICK j : j = IF i.side = "buy" /\ i.stop = 0 THEN [i EXCEPT !.stop = Max({i.price, 1}) - 1] ELSE i
      OBVIOUS
    <3>2. PICK t : t = [phase |-> "placing", number |-> submissions, agent |-> TRUE, intent |-> j,
                        portfolio |-> Portfolio(brokerAccount), alone |-> TRUE]
      OBVIOUS
    <3>3. task' = [task EXCEPT ![w] = t]
      BY <1>4, <3>1, <3>2 DEF AgentOrder
    <3>4. t.agent = TRUE
      BY <3>2
    <3> QED
      BY <3>3, <3>4
  <2>2. StillMarket /\ task'[w] = t
    BY <1>1, <1>4, <2>1 DEF StillMarket, AgentOrder, brokerVars
  <2> QED
    BY <1>2, <2>1, <2>2, NotAlone
<1>5. ASSUME NEW w \in Submitters, NEW x, x.phase \notin {"portfolio", "placing"},
             task' = [task EXCEPT ![w] = x], UNCHANGED <<brokerAccount, quote>>
      PROVE  AloneInv'
  <2>1. StillMarket /\ task'[w] = x
    BY <1>1, <1>5 DEF StillMarket
  <2> QED
    BY <1>2, <1>5, <2>1, NotAlone
<1>6. ASSUME NEW w \in Submitters, OrderRests(w) \/ BrokerRefuses(w) PROVE AloneInv'
  <2>1. PICK status : task' = [task EXCEPT ![w] = Awaited(w, status)] /\ UNCHANGED <<brokerAccount, quote>>
    BY <1>6 DEF OrderRests, BrokerRefuses, brokerVars
  <2>2. Awaited(w, status).phase = "answering"
    BY DEF Awaited
  <2> QED
    BY <1>5, <2>1, <2>2
<1>7. ASSUME NEW w \in Submitters, NEW outcome, SubmissionAnswered(w, outcome) PROVE AloneInv'
  <2>1. task' = [task EXCEPT ![w] = NoTask] /\ UNCHANGED <<brokerAccount, quote>>
    BY <1>7 DEF SubmissionAnswered, brokerVars
  <2> QED
    BY <1>5, <2>1 DEF NoTask
<1>8. ASSUME NEW w \in Submitters, OrderFilled(w) PROVE AloneInv'
  <2>1. PICK t, u : t = Disturb(task, {w}) /\ u = Awaited(w, "closed")
    OBVIOUS
  <2>2. task' = [t EXCEPT ![w] = u] /\ t \in [Submitters -> {NoTask} \cup Tasks]
    BY <1>8, <2>1, DisturbContinues DEF OrderFilled
  <2>3. \A v \in Submitters : task'[v] = IF v = w THEN u ELSE t[v]
    BY <2>2
  <2>4. \A v \in Submitters : v # w => t[v].phase \notin {"portfolio", "placing"} \/ t[v].alone = FALSE
    BY <2>1, DisturbedFacts
  <2>5. u.phase = "answering"
    BY <2>1 DEF Awaited
  <2>6. \A v \in Submitters : AloneOK(v)'
    BY <2>3, <2>4, <2>5, NotAlone
  <2> QED
    BY <2>6 DEF AloneInv
<1>9. ASSUME task' = Disturb(task, {}) PROVE AloneInv'
  <2>1. \A v \in Submitters : task'[v].phase \notin {"portfolio", "placing"} \/ task'[v].alone = FALSE
    BY <1>9, DisturbedFacts
  <2> QED
    BY <2>1, NotAlone DEF AloneInv
<1>10. ASSUME task' = task, StillMarket PROVE AloneInv'
  BY <1>10, KeepsAlone DEF AloneInv
<1>11. ASSUME NEW s \in Equities, QuoteAges(s) PROVE AloneInv'
  <2>1. quote' = [quote EXCEPT ![s].fresh = FALSE] /\ task' = task /\ brokerAccount' = brokerAccount
    BY <1>11 DEF QuoteAges, brokerVars
  <2>2. StillMarket
    BY <2>1 DEF StillMarket, MarketTyped, QuoteTyped
  <2> QED
    BY <1>10, <2>1, <2>2
<1>12. ASSUME NEW s \in Equities, NEW q \in MarketQuotes, QuoteArrives(s, q) PROVE AloneInv'
  <2>1. CASE q.last = quote[s].price.last
    <3>1. /\ quote' = [quote EXCEPT ![s] = [price |-> q, fresh |-> TRUE]]
          /\ task' = task /\ brokerAccount' = brokerAccount
      BY <1>12, <2>1 DEF QuoteArrives, brokerVars
    <3>2. StillMarket
      BY <2>1, <3>1 DEF StillMarket, MarketTyped, QuoteTyped
    <3> QED
      BY <1>10, <3>1, <3>2
  <2>2. CASE q.last # quote[s].price.last
    BY <1>9, <1>12, <2>2 DEF QuoteArrives
  <2> QED
    BY <2>1, <2>2
<1>13. ASSUME NEW b \in brokerOrders, RestingFilled(b) PROVE AloneInv'
  BY <1>9, <1>13 DEF RestingFilled
<1>14. CASE \/ \E day \in Days, time \in Times : ClockMoves(day, time)
            \/ \E b \in brokerOrders, status \in {"open", "closed"} :
                 Adopted(b, status) \/ \E o \in orders : Merged(o, b, status)
            \/ \E o \in orders : MissingRemote(o)
            \/ \E o \in orders, outcome \in {"cancelled", "ambiguous", "raised"} :
                 CancelOne(o, outcome) \/ SweepStep(o, outcome)
            \/ SweepBegins \/ UNCHANGED riskVars
  <2>1. UNCHANGED <<task, brokerAccount, quote>>
    BY <1>14 DEF ClockMoves, Adopted, Merged, MissingRemote, CancelOne, SweepStep, SweepBegins, riskVars, brokerVars
  <2> QED
    BY <1>10, <2>1 DEF StillMarket
<1> QED
  BY <1>3, <1>4, <1>6, <1>7, <1>8, <1>11, <1>12, <1>13, <1>14, EvaluatedAlone DEF RiskNext

-----------------------------------------------------------------------------
(* A cleared order that is filled.                                         *)

\* A limit that the purchase was checked to leave room for bounds the share after
\* it, when no more is paid, and no more is gained at the mark, than was checked.
LEMMA ShareWithin ==
    ASSUME NEW v \in Int, NEW e \in Int, NEW n \in Int, NEW paid \in Int, NEW worth \in Int, NEW limit \in Nat,
           0 <= v, 0 < worth, worth <= n, paid <= n, v + n <= e, 100 * (v + n) <= limit * e
    PROVE  Pct(v + worth, e - paid + worth) <= limit
<1>1. PICK x, f : x = v + worth /\ f = e - paid + worth
  OBVIOUS
<1>2. x \in Int /\ f \in Int /\ f > 0 /\ x <= v + n /\ x <= f
  BY <1>1
<1>3. 100 * x <= limit * f
  <2>1. CASE worth <= paid
    <3>1. PICK y, d : y = v + paid /\ d = paid - worth
      OBVIOUS
    <3>2. y \in Int /\ d \in Int /\ d >= 0 /\ y <= v + n /\ y <= e /\ e - d = f /\ y - d = x
      BY <1>1, <2>1, <3>1
    <3>3. 100 * y <= limit * e
      BY <3>2
    <3>4. Pct(y - d, e - d) <= limit
      BY <1>2, <3>2, <3>3, ShareAfter
    <3> QED
      BY <1>2, <3>2, <3>4, PctLimit
  <2>2. CASE paid < worth
    <3>1. limit * e <= limit * f
      BY <1>1, <1>2, <2>2
    <3>2. 100 * x <= 100 * (v + n)
      BY <1>2
    <3> QED
      BY <1>2, <3>1, <3>2
  <2> QED
    BY <2>1, <2>2
<1>4. Pct(x, f) <= limit
  BY <1>2, <1>3, PctLimit
<1> QED
  BY <1>1, <1>4

\* What buying of a symbol does to a portfolio that is short of nothing, for the
\* part S of it that has the symbol: n was checked, paid is paid, and worth is
\* what the purchase adds at the mark.
LEMMA ExposureAfter ==
    ASSUME NEW p \in Portfolios, NEW b \in Portfolios, NEW s \in Equities,
           NEW n \in Int, NEW paid \in Int, NEW worth \in Int,
           \A t \in Equities : p.value[t] >= 0,
           \A t \in Equities : b.value[t] = IF t = s THEN p.value[t] + worth ELSE p.value[t],
           b.cash = p.cash - paid, 0 < worth, worth <= n, paid <= n, n <= p.cash,
           NEW S \in SUBSET Equities, s \in S, NEW limit \in Nat,
           Equity(p) > 0 => RoomFor(Invested(p, S) + n, p, limit)
    PROVE  Pct(Invested(b, S), Equity(b)) <= limit
<1>1. IsFiniteSet(Equities) /\ IsFiniteSet(S)
  BY RiskAssumption, FS_Subset
<1>2. p.value \in [Equities -> Int] /\ b.value \in [Equities -> Int] /\ p.cash \in Int
  BY DEF Portfolios
<1>3. PICK v, all, e : v = Invested(p, S) /\ all = Invested(p, Equities) /\ e = Equity(p)
  OBVIOUS
<1>4. v \in Int /\ all \in Int
  BY <1>3, ExposureTypes
<1>5. 0 <= v /\ v <= all
  <2>1. 0 <= SumFunctionOnSet(p.value, S) /\ SumFunctionOnSet(p.value, S) <= SumFunctionOnSet(p.value, Equities)
    BY <1>1, <1>2, SumGrows
  <2> QED
    BY <1>3, <2>1 DEF Invested
<1>6. e = p.cash + all
  BY <1>3 DEF Equity
<1>7. Invested(b, S) = v + worth /\ Invested(b, Equities) = all + worth
  <2>1. PICK f, h : f = p.value /\ h = b.value
    OBVIOUS
  <2>2. f \in [Equities -> Int] /\ h \in [Equities -> Int]
    BY <1>2, <2>1
  <2>3. ASSUME NEW R, IsFiniteSet(R), R \subseteq Equities
        PROVE  SumFunctionOnSet(h, R) = IF s \in R THEN SumFunctionOnSet(f, R) + worth ELSE SumFunctionOnSet(f, R)
    <3>1. \A t \in R : h[t] = IF t = s THEN f[t] + worth ELSE f[t]
      BY <2>1, <2>3
    <3> QED
      BY <2>2, <2>3, <3>1, SumUpdate, Zenon
  <2>4. SumFunctionOnSet(h, S) = SumFunctionOnSet(f, S) + worth
    BY <1>1, <2>3
  <2>5. SumFunctionOnSet(h, Equities) = SumFunctionOnSet(f, Equities) + worth
    BY <1>1, <2>3
  <2> QED
    BY <1>3, <2>1, <2>4, <2>5 DEF Invested
<1>8. Equity(b) = e - paid + worth
  BY <1>2, <1>4, <1>6, <1>7 DEF Equity
<1>9. e \in Int /\ v + n \in Int /\ v + n <= e /\ e > 0
  BY <1>2, <1>4, <1>5, <1>6
<1>10. 100 * (v + n) <= limit * e
  <2>1. Pct(v + n, e) <= limit
    BY <1>3, <1>9 DEF RoomFor
  <2> QED
    BY <1>9, <2>1, PctLimit
<1>11. Pct(v + worth, e - paid + worth) <= limit
  BY <1>4, <1>5, <1>9, <1>10, ShareWithin
<1> QED
  BY <1>7, <1>8, <1>11

\* A portfolio that is short of nothing has its gross exposure invested.
LEMMA GrossIsInvested ==
    ASSUME NEW p \in Portfolios, \A t \in Equities : p.value[t] >= 0
    PROVE  Gross(p) = Invested(p, Equities)
<1>1. p.value \in [Equities -> Int]
  BY DEF Portfolios
<1>2. PICK f : f = [s \in Equities |-> Max({p.value[s], -p.value[s]})]
  OBVIOUS
<1>3. ASSUME NEW s \in Equities PROVE f[s] = p.value[s]
  <2>1. p.value[s] \in Int /\ p.value[s] >= 0 /\ -p.value[s] \in Int
    BY <1>1
  <2>2. Max({p.value[s], -p.value[s]}) = p.value[s]
    BY <2>1, LargerOf
  <2> QED
    BY <1>2, <2>2
<1>4. f = p.value
  BY <1>1, <1>2, <1>3
<1> QED
  BY <1>2, <1>4 DEF Gross, Invested

\* A purchase adds at most one position.
LEMMA OnePositionMore ==
    ASSUME NEW h \in [Equities -> Int], NEW k \in [Equities -> Int], NEW s \in Equities,
           NEW q \in Nat \ {0}, k = [h EXCEPT ![s] = h[s] + q],
           h[s] <= 0 => Cardinality({t \in Equities : h[t] # 0}) < Limits.positions
    PROVE  Cardinality({t \in Equities : k[t] # 0}) <=
             Max({Limits.positions, Cardinality({t \in Equities : h[t] # 0})})
<1>1. PICK H, K : H = {t \in Equities : h[t] # 0} /\ K = {t \in Equities : k[t] # 0}
  OBVIOUS
<1>2. IsFiniteSet(H) /\ IsFiniteSet(K) /\ Cardinality(H) \in Nat /\ Cardinality(K) \in Nat
  BY <1>1, RiskAssumption, FS_Subset, FS_CardinalityType
<1>3. K \subseteq H \cup {s}
  BY <1>1
<1>4. IsFiniteSet(H \cup {s}) /\ Cardinality(H \cup {s}) = IF s \in H THEN Cardinality(H) ELSE Cardinality(H) + 1
  BY <1>2, FS_AddElement
<1>5. Cardinality(K) <= Cardinality(H \cup {s})
  BY <1>3, <1>4, FS_Subset
<1>6. s \notin H => Cardinality(H) < Limits.positions
  BY <1>1
<1>7. Limits.positions \in Nat
  BY RiskAssumption
<1>8. Cardinality(K) <= Limits.positions \/ Cardinality(K) <= Cardinality(H)
  BY <1>2, <1>4, <1>5, <1>6, <1>7
<1>9. Max({Limits.positions, Cardinality(H)}) = IF Limits.positions >= Cardinality(H) THEN Limits.positions ELSE Cardinality(H)
  BY <1>2, <1>7, LargerOf
<1>10. Cardinality(K) <= Max({Limits.positions, Cardinality(H)})
  BY <1>2, <1>7, <1>8, <1>9
<1> QED
  BY <1>1, <1>10

\* A cleared order, bought at no more than it was cleared at, leaves the account
\* within the limits; a sale does at any price.
LEMMA FilledWithinLimits ==
    ASSUME MarketTyped, NEW i \in OrderShapes, NEW price \in Int, brokerAccount' = AfterFill(i, price),
           Cleared(i, Portfolio(brokerAccount), quote[i.symbol].price.last),
           i.side = "buy" => PaidAsChecked(i)
    PROVE  WithinLimits(i)
<1>1. PICK a, s, q : a = brokerAccount /\ s = i.symbol /\ q = i.quantity
  OBVIOUS
<1>2. PICK p, r, m, checked : /\ p = Portfolio(a) /\ r = quote[s].price.last /\ m = Mark(s)
                              /\ checked = CheckedPrice(i)
  OBVIOUS
<1>3. s \in Equities /\ q \in Nat \ {0} /\ i.side \in {"buy", "sell"} /\ i.price \in Nat
  BY <1>1 DEF OrderShapes
<1>4. p \in Portfolios /\ p.cash = a.cash /\ p.hold = a.hold
      /\ \A t \in Equities : p.value[t] = a.hold[t] * Mark(t)
  <2>1. p \in Portfolios
    BY <1>1, <1>2, PortfolioType
  <2> QED
    BY <1>2, <2>1 DEF Portfolio
<1>5. a.cash \in Int /\ a.hold \in [Equities -> Int]
  BY <1>1 DEF MarketTyped, Accounts
<1>6. \A t \in Equities : Mark(t) \in Nat \ {0}
  BY PricesType
<1>7. r # 0 /\ m = r /\ checked = (IF i.price # 0 THEN i.price ELSE r) /\ m \in Nat \ {0} /\ checked \in Nat
  BY <1>1, <1>2, <1>3, <1>6 DEF Cleared, Mark, CheckedPrice
<1>8. PICK b, B : B = brokerAccount' /\ b = Portfolio(B)
  OBVIOUS
<1>9. PICK sign : sign = IF i.side = "buy" THEN 1 ELSE -1
  OBVIOUS
<1>10. B = [cash |-> a.cash - sign * q * price, hold |-> [a.hold EXCEPT ![s] = a.hold[s] + sign * q]]
  BY <1>1, <1>2, <1>8, <1>9 DEF AfterFill
<1>11. sign \in Int /\ sign * q \in Int /\ q * price \in Int /\ sign * q * price \in Int
  BY <1>3, <1>7, <1>9
<1>12. B.hold \in [Equities -> Int] /\ B.cash \in Int /\ B.hold = [a.hold EXCEPT ![s] = a.hold[s] + sign * q]
       /\ B.cash = a.cash - sign * q * price
  BY <1>3, <1>5, <1>10, <1>11
<1>13. b = [cash |-> B.cash, hold |-> B.hold, value |-> [t \in Equities |-> B.hold[t] * Mark(t)]]
  BY <1>8 DEF Portfolio
<1>14. b \in Portfolios /\ b.cash = B.cash /\ b.hold = B.hold
       /\ \A t \in Equities : b.value[t] = B.hold[t] * Mark(t)
  <2>1. \A t \in Equities : B.hold[t] * Mark(t) \in Int
    BY <1>6, <1>12
  <2>2. [t \in Equities |-> B.hold[t] * Mark(t)] \in [Equities -> Int]
    BY <2>1
  <2> QED
    BY <1>12, <1>13, <2>2 DEF Portfolios
<1>15. i.side = "sell" => b.hold[s] >= 0
  <2> SUFFICES ASSUME i.side = "sell" PROVE b.hold[s] >= 0
    OBVIOUS
  <2>1. q <= a.hold[s]
    BY <1>1, <1>2, <1>4 DEF Cleared
  <2>2. b.hold[s] = a.hold[s] - q
    BY <1>3, <1>5, <1>9, <1>12, <1>14
  <2> QED
    BY <1>3, <1>5, <2>1, <2>2
<1>16. ASSUME i.side = "buy"
       PROVE  /\ b.cash >= 0
              /\ Cardinality({t \in Equities : b.hold[t] # 0})
                   <= Max({Limits.positions, Cardinality({t \in Equities : a.hold[t] # 0})})
              /\ (\A t \in Equities : a.hold[t] >= 0) /\ checked >= m =>
                   /\ Pct(Invested(b, {s}), Equity(b)) <= Limits.symbolPct
                   /\ Pct(Invested(b, Peers(s)), Equity(b)) <= Limits.sectorPct
                   /\ Pct(Invested(b, Equities), Equity(b)) <= Limits.grossPct
  <2>1. PICK n, w, paid : n = checked * q /\ w = q * m /\ paid = q * price
    OBVIOUS
  <2>2. n = Worth(i, r)
    BY <1>1, <1>7, <2>1 DEF Worth
  <2>3. n \in Int /\ w \in Int /\ w > 0 /\ paid \in Int
    BY <1>3, <1>7, <2>1
  <2>4. /\ n > 0 /\ n <= p.cash
        /\ p.hold[s] <= 0 => Cardinality({t \in Equities : p.hold[t] # 0}) < Limits.positions
        /\ RoomFor(p.value[s] + n, p, Limits.symbolPct)
        /\ RoomFor(Gross(p) + n, p, Limits.grossPct)
        /\ Equity(p) > 0 => RoomFor(Invested(p, Peers(s)) + n, p, Limits.sectorPct)
    BY <1>1, <1>2, <1>16, <2>2 DEF Cleared
  <2>5. sign = 1 /\ sign * q = q /\ sign * q * price = paid
    BY <1>3, <1>7, <1>9, <1>16, <2>1
  <2>6. b.cash = p.cash - paid /\ b.hold = [a.hold EXCEPT ![s] = a.hold[s] + q]
    BY <1>4, <1>12, <1>14, <2>5
  <2>11. paid <= n
    <3>1. a.cash - B.cash <= checked * q
      BY <1>1, <1>2, <1>8, <1>16 DEF PaidAsChecked
    <3> QED
      BY <1>4, <1>5, <1>14, <2>1, <2>3, <2>6, <3>1
  <2>7. b.cash >= 0
    BY <1>4, <1>5, <2>3, <2>4, <2>6, <2>11
  <2>8. b.hold \in [Equities -> Int]
    BY <1>12, <1>14
  <2>9. Cardinality({t \in Equities : b.hold[t] # 0})
          <= Max({Limits.positions, Cardinality({t \in Equities : a.hold[t] # 0})})
    <3>1. PICK h, k : h = a.hold /\ k = b.hold
      OBVIOUS
    <3>2. /\ h \in [Equities -> Int] /\ k \in [Equities -> Int] /\ k = [h EXCEPT ![s] = h[s] + q]
          /\ h[s] <= 0 => Cardinality({t \in Equities : h[t] # 0}) < Limits.positions
      BY <1>4, <1>5, <2>4, <2>6, <2>8, <3>1
    <3>3. Cardinality({t \in Equities : k[t] # 0})
            <= Max({Limits.positions, Cardinality({t \in Equities : h[t] # 0})})
      BY <1>3, <3>2, OnePositionMore, Zenon
    <3> QED
      BY <3>1, <3>3
  <2>10. ASSUME \A t \in Equities : a.hold[t] >= 0, checked >= m
         PROVE  /\ Pct(Invested(b, {s}), Equity(b)) <= Limits.symbolPct
                /\ Pct(Invested(b, Peers(s)), Equity(b)) <= Limits.sectorPct
                /\ Pct(Invested(b, Equities), Equity(b)) <= Limits.grossPct
    <3>1. \A t \in Equities : p.value[t] \in Int /\ p.value[t] >= 0
      <4> SUFFICES ASSUME NEW t \in Equities PROVE p.value[t] \in Int /\ p.value[t] >= 0
        OBVIOUS
      <4>1. a.hold[t] \in Int /\ a.hold[t] >= 0 /\ Mark(t) \in Nat
        BY <1>5, <1>6, <2>10
      <4>2. p.value[t] = a.hold[t] * Mark(t)
        BY <1>4
      <4> QED
        BY <4>1, <4>2
    <3>2. \A t \in Equities : b.value[t] = IF t = s THEN p.value[t] + w ELSE p.value[t]
      <4> SUFFICES ASSUME NEW t \in Equities
                   PROVE  b.value[t] = IF t = s THEN p.value[t] + w ELSE p.value[t]
        OBVIOUS
      <4>1. b.value[t] = b.hold[t] * Mark(t) /\ p.value[t] = a.hold[t] * Mark(t)
        BY <1>4, <1>14
      <4>2. CASE t = s
        <5>1. b.hold[s] = a.hold[s] + q /\ a.hold[s] \in Int
          BY <1>3, <1>5, <2>6
        <5>2. (a.hold[s] + q) * m = a.hold[s] * m + q * m
          BY <1>3, <1>7, <5>1
        <5> QED
          BY <1>2, <2>1, <4>1, <4>2, <5>1, <5>2
      <4>3. CASE t # s
        BY <1>5, <2>6, <4>1, <4>3
      <4> QED
        BY <4>2, <4>3
    <3>3. w <= n
      BY <1>3, <1>7, <2>1, <2>10
    <3>4. Limits.symbolPct \in Nat /\ Limits.sectorPct \in Nat /\ Limits.grossPct \in Nat
      BY RiskAssumption
    <3>5. ASSUME NEW S \in SUBSET Equities, s \in S, NEW limit \in Nat,
                 Equity(p) > 0 => RoomFor(Invested(p, S) + n, p, limit)
          PROVE  Pct(Invested(b, S), Equity(b)) <= limit
      BY <1>3, <1>4, <1>14, <2>3, <2>4, <2>6, <2>11, <3>1, <3>2, <3>3, <3>5, ExposureAfter
    <3>6. Invested(p, {s}) = p.value[s]
      <4>1. p.value \in [Equities -> Int]
        BY <1>4 DEF Portfolios
      <4> QED
        BY <1>3, <4>1, SumSingle DEF Invested
    <3>7. Gross(p) = Invested(p, Equities)
      BY <1>4, <3>1, GrossIsInvested
    <3>8. {s} \in SUBSET Equities /\ Peers(s) \in SUBSET Equities /\ Equities \in SUBSET Equities
      BY <1>3 DEF Peers
    <3>9. s \in {s} /\ s \in Peers(s) /\ s \in Equities
      BY <1>3 DEF Peers
    <3>10. Pct(Invested(b, {s}), Equity(b)) <= Limits.symbolPct
      BY <2>4, <3>4, <3>5, <3>6, <3>8, <3>9
    <3>11. Pct(Invested(b, Peers(s)), Equity(b)) <= Limits.sectorPct
      BY <2>4, <3>4, <3>5, <3>8, <3>9
    <3>12. Pct(Invested(b, Equities), Equity(b)) <= Limits.grossPct
      BY <2>4, <3>4, <3>5, <3>7, <3>8, <3>9
    <3> QED
      BY <3>10, <3>11, <3>12
  <2> QED
    BY <2>7, <2>9, <2>10
<1> QED
  BY <1>1, <1>2, <1>8, <1>15, <1>16, Zenon DEF WithinLimits

\* An order that is filled alone is the one whose fill the step is.
LEMMA FilledAloneStep ==
    ASSUME GateInv, MarketTyped, AloneInv, [RiskNext]_riskVars, NEW w \in Submitters, NEW i,
           i = task[w].intent, FilledAlone(w), ~task[w].agent, i.side = "buy" => PaidAsChecked(i)
    PROVE  WithinLimits(i)
<1>1. /\ task[w].phase = "placing" /\ task[w].alone /\ task'[w].phase = "answering"
      /\ brokerAccount' # brokerAccount
  BY DEF FilledAlone
<1>2. task[w] \in Deciding
  BY <1>1, TaskFacts DEF GateInv
<1>3. i \in OrderShapes /\ task[w].alone = TRUE /\ task[w].agent = FALSE
  BY <1>1, <1>2 DEF Deciding
<1>4. Cleared(i, Portfolio(brokerAccount), quote[i.symbol].price.last)
  BY <1>1, <1>3 DEF AloneInv, AloneOK
<1>5. ASSUME NEW b \in brokerOrders, RestingFilled(b) PROVE FALSE
  <2>1. task'[w] = Disturb(task, {})[w]
    BY <1>5 DEF RestingFilled
  <2>2. task'[w].phase = "placing"
    BY <1>1, <2>1, DisturbedFacts
  <2> QED
    BY <1>1, <2>2
<1>6. ASSUME NEW v \in Submitters, OrderFilled(v) PROVE v = w
  <2> SUFFICES ASSUME v # w PROVE FALSE
    OBVIOUS
  <2>1. PICK t, u : t = Disturb(task, {v}) /\ u = Awaited(v, "closed")
    OBVIOUS
  <2>2. task' = [t EXCEPT ![v] = u] /\ t \in [Submitters -> {NoTask} \cup Tasks]
    BY <1>6, <2>1, DisturbContinues DEF OrderFilled
  <2>3. task'[w] = t[w]
    BY <2>2
  <2>4. task'[w] = Disturb(task, {v})[w] /\ {v} \in SUBSET Submitters /\ w \notin {v}
    BY <2>1, <2>3
  <2>5. task'[w].phase = "placing"
    BY <1>1, <2>4, DisturbedFacts
  <2> QED
    BY <1>1, <2>5
<1>7. (\E v \in Submitters : OrderFilled(v)) \/ (\E b \in brokerOrders : RestingFilled(b))
  BY <1>1 DEF RiskNext, RequestPortfolio, AgentOrder, Evaluate, OrderRests, BrokerRefuses, SubmissionAnswered,
     QuoteAges, QuoteArrives, ClockMoves, Adopted, Merged, MissingRemote, CancelOne, SweepStep, SweepBegins,
     riskVars, brokerVars
<1>8. OrderFilled(w)
  BY <1>5, <1>6, <1>7
<1>9. PICK price \in FillPrices(i) : brokerAccount' = AfterFill(i, price)
  BY <1>8 DEF OrderFilled
<1>10. price \in Int
  BY <1>3, <1>9, FillPricesType
<1> QED
  BY <1>3, <1>4, <1>9, <1>10, FilledWithinLimits

\* The risk checks bound the account they are made for: for any number of
\* submitters, symbols and limits, an order of a request that nothing else comes
\* between, and that is bought at no more than the checks used, is filled within
\* every limit.
THEOREM LimitsBindLoneOrders == RiskSpec => GateHolds
<1>1. RiskInit => AloneInv
  BY DEF RiskInit, AloneInv, AloneOK, NoTask
<1>2. GateInv /\ MarketTyped /\ AloneInv /\ [RiskNext]_riskVars =>
        [\A w \in Submitters :
           LET i == task[w].intent
           IN  FilledAlone(w) /\ ~task[w].agent /\ (i.side = "buy" => PaidAsChecked(i)) => WithinLimits(i)]_riskVars
  BY FilledAloneStep
<1> QED
  BY <1>1, <1>2, GateInvariant, AloneStep, PTL DEF RiskSpec, GateHolds

-----------------------------------------------------------------------------
(* The ccxt feed: its streams.                                             *)

\* Between the gathering of a round's streams and the opening of the next
\* round's, no stream is alive.
StreamInv ==
    /\ streams \in [Streams -> Nat]
    /\ OneStreamEach
    /\ runner \in {"snapshot", "backoff"} => \A x \in Streams : streams[x] = 0

\* Only _run opens streams, and it gathers them before it opens others.
LEMMA StreamStep ==
    ASSUME StreamInv, [CcxtNext]_ccxtVars
    PROVE  StreamInv'
<1>1. CASE UNCHANGED <<runner, streams>>
  BY <1>1 DEF StreamInv, OneStreamEach
<1>2. CASE OpenStreams
  BY <1>2 DEF OpenStreams, StreamInv, OneStreamEach
<1>3. CASE FeedStalls
  BY <1>3 DEF FeedStalls, StreamInv, OneStreamEach
<1>4. CASE StreamsGathered
  BY <1>4 DEF StreamsGathered, Gathered, StreamInv, OneStreamEach
<1>5. CASE NextRound
  BY <1>5 DEF NextRound, StreamInv, OneStreamEach
<1>6. CASE FeedStops
  BY <1>6 DEF FeedStops, StreamInv, OneStreamEach
<1>7. ASSUME NEW x \in Streams, StreamEnds(x) PROVE StreamInv'
  <2>1. \A y \in Streams : streams'[y] = IF y = x THEN streams[y] - 1 ELSE streams[y]
    BY <1>7 DEF StreamEnds, StreamInv
  <2>2. streams' \in [Streams -> Nat] /\ runner' = "ended"
    BY <1>7 DEF StreamEnds, StreamInv
  <2> QED
    BY <2>1, <2>2 DEF StreamInv, OneStreamEach
<1> QED
  BY <1>1, <1>2, <1>3, <1>4, <1>5, <1>6, <1>7
     DEF CcxtNext, ccxtVars, FetchSnapshot, MessageArrives, QuoteStored, FeedClock

\* _run never has two streams of one exchange alive, however often the feed
\* stalls, reconnects and is stopped.
THEOREM StreamsAreSingle == CcxtSpec => []OneStreamEach
<1>1. CcxtInit => StreamInv
  BY DEF CcxtInit, StreamInv, OneStreamEach
<1>2. StreamInv => OneStreamEach
  BY DEF StreamInv
<1> QED
  BY <1>1, <1>2, StreamStep, PTL DEF CcxtSpec

-----------------------------------------------------------------------------
(* The ccxt feed: its quotes.                                              *)

StampedQuotes == [price: TradePrices, at: Nat]

\* StampedQuotes wait in the order of their time stamps, behind the stored one, so
\* update_quote never drops one of them; and a trade that is the last message is
\* the last to reach the store.
QuoteInv ==
    /\ feedTime \in Nat
    /\ queue \in Seq(StampedQuotes)
    /\ stored \in [price: TradePrices \cup {0}, at: Nat]
    /\ \A i \in 1..Len(queue) : stored.at <= queue[i].at /\ queue[i].at <= feedTime
    /\ \A i, j \in 1..Len(queue) : i <= j => queue[i].at <= queue[j].at
    /\ stored.at <= feedTime
    /\ latest # 0 => IF queue = <<>> THEN stored.price = latest
                     ELSE queue[Len(queue)].price = latest

\* A new quote is stamped with the present, so it goes last.
LEMMA QuoteQueued ==
    ASSUME QuoteInv, NEW price \in TradePrices, Enqueue(price),
           latest' \in {0, price}, UNCHANGED <<feedTime, stored>>
    PROVE  QuoteInv'
<1>1. PICK q : q = [price |-> price, at |-> feedTime]
  OBVIOUS
<1>2. q \in StampedQuotes /\ q.price = price /\ q.at = feedTime
  BY <1>1 DEF StampedQuotes, QuoteInv
<1>3. queue \in Seq(StampedQuotes) /\ queue' = Append(queue, q)
  BY <1>1 DEF Enqueue, QuoteInv
<1>4. /\ queue' \in Seq(StampedQuotes) /\ queue' # <<>>
      /\ Len(queue') = Len(queue) + 1
      /\ \A i \in 1..Len(queue) : queue'[i] = queue[i]
      /\ queue'[Len(queue) + 1] = q
  BY <1>2, <1>3, AppendProperties
<1>5. Len(queue) \in Nat
  BY <1>3, LenProperties
<1>6. \A i \in 1..Len(queue') : IF i = Len(queue) + 1 THEN queue'[i] = q
                                ELSE i \in 1..Len(queue) /\ queue'[i] = queue[i]
  BY <1>4, <1>5
<1>7. \A i \in 1..Len(queue) : queue[i].at \in Nat
  <2>1. \A i \in 1..Len(queue) : queue[i] \in StampedQuotes
    BY <1>3, ElementOfSeq
  <2> QED
    BY <2>1 DEF StampedQuotes
<1>8. \A i \in 1..Len(queue') : stored.at <= queue'[i].at /\ queue'[i].at <= feedTime
  BY <1>2, <1>6 DEF QuoteInv
<1>9. \A i, j \in 1..Len(queue') : i <= j => queue'[i].at <= queue'[j].at
  <2> SUFFICES ASSUME NEW i \in 1..Len(queue'), NEW j \in 1..Len(queue'), i <= j
               PROVE  queue'[i].at <= queue'[j].at
    OBVIOUS
  <2>1. CASE j = Len(queue) + 1
    BY <1>2, <1>6, <1>8, <2>1
  <2>2. CASE j # Len(queue) + 1
    <3>1. j \in 1..Len(queue) /\ i \in 1..Len(queue)
      BY <1>4, <1>5, <2>2
    <3> QED
      BY <3>1, <1>4 DEF QuoteInv
  <2> QED
    BY <2>1, <2>2
<1>10. latest' # 0 => queue'[Len(queue')].price = latest'
  BY <1>2, <1>4
<1> QED
  BY <1>4, <1>8, <1>9, <1>10 DEF QuoteInv

\* update_quote never ignores the next quote in line.
LEMMA StoreStep ==
    ASSUME QuoteInv, QuoteStored
    PROVE  QuoteInv'
<1>1. queue \in Seq(StampedQuotes) /\ queue # <<>>
  BY DEF QuoteInv, QuoteStored
<1>2. PICK q : q = queue[1]
  OBVIOUS
<1>3. Len(queue) \in Nat /\ Len(queue) # 0
  BY <1>1, LenProperties, EmptySeq
<1>4. q \in StampedQuotes
  BY <1>1, <1>2, <1>3, ElementOfSeq
<1>5. Head(queue) = q
  BY <1>1, <1>2
<1>6. stored.at <= q.at /\ q.at <= feedTime /\ q.at \in Nat /\ stored.at \in Nat
  BY <1>2, <1>3, <1>4 DEF QuoteInv, StampedQuotes
<1>7. stored' = q
  BY <1>5, <1>6 DEF QuoteStored, UpdateQuote
<1>8. /\ queue' \in Seq(StampedQuotes) /\ Len(queue') = Len(queue) - 1
      /\ \A i \in 1..Len(queue') : queue'[i] = queue[i + 1]
  BY <1>1, HeadTailProperties DEF QuoteStored
<1>9. feedTime' = feedTime /\ latest' = latest
  BY DEF QuoteStored
<1>10. \A i \in 1..Len(queue') : i + 1 \in 1..Len(queue)
  BY <1>3, <1>8
<1>11. \A i \in 1..Len(queue') : q.at <= queue'[i].at /\ queue'[i].at <= feedTime
  <2> SUFFICES ASSUME NEW i \in 1..Len(queue')
               PROVE  q.at <= queue'[i].at /\ queue'[i].at <= feedTime
    OBVIOUS
  <2>1. i + 1 \in 1..Len(queue) /\ 1 \in 1..Len(queue) /\ 1 <= i + 1
    BY <1>3, <1>10
  <2>2. queue[1].at <= queue[i + 1].at /\ queue[i + 1].at <= feedTime
    BY <2>1 DEF QuoteInv
  <2> QED
    BY <1>2, <1>8, <2>2
<1>12. \A i, j \in 1..Len(queue') : i <= j => queue'[i].at <= queue'[j].at
  <2> SUFFICES ASSUME NEW i \in 1..Len(queue'), NEW j \in 1..Len(queue'), i <= j
               PROVE  queue'[i].at <= queue'[j].at
    OBVIOUS
  <2>1. i + 1 \in 1..Len(queue) /\ j + 1 \in 1..Len(queue) /\ i + 1 <= j + 1
    BY <1>10
  <2>2. queue[i + 1].at <= queue[j + 1].at
    BY <2>1 DEF QuoteInv
  <2> QED
    BY <1>8, <2>2
<1>13. latest' # 0 => IF queue' = <<>> THEN stored'.price = latest'
                      ELSE queue'[Len(queue')].price = latest'
  <2> SUFFICES ASSUME latest # 0
               PROVE  IF queue' = <<>> THEN q.price = latest
                      ELSE queue'[Len(queue')].price = latest
    BY <1>7, <1>9
  <2>1. queue[Len(queue)].price = latest
    BY <1>1 DEF QuoteInv
  <2>2. CASE queue' = <<>>
    <3>1. Len(queue) = 1
      BY <1>3, <1>8, <2>2, EmptySeq
    <3> QED
      BY <1>2, <2>1, <2>2, <3>1
  <2>3. CASE queue' # <<>>
    <3>1. Len(queue') # 0
      BY <1>8, <2>3, EmptySeq
    <3>2. Len(queue') \in 1..Len(queue') /\ Len(queue') + 1 = Len(queue)
      BY <1>3, <1>8, <3>1
    <3> QED
      BY <1>8, <2>1, <2>3, <3>2
  <2> QED
    BY <2>2, <2>3
<1>14. feedTime \in Nat /\ stored' \in [price: TradePrices \cup {0}, at: Nat]
  BY <1>4, <1>7 DEF QuoteInv, StampedQuotes
<1> QED
  BY <1>6, <1>7, <1>8, <1>9, <1>11, <1>12, <1>13, <1>14 DEF QuoteInv

\* Every step of the feed keeps the order of the quotes.
LEMMA QuoteStep ==
    ASSUME QuoteInv, [CcxtNext]_ccxtVars
    PROVE  QuoteInv'
<1>1. CASE UNCHANGED <<queue, stored, latest, feedTime>>
  BY <1>1 DEF QuoteInv
<1>2. CASE FetchSnapshot
  <2>1. stored.price \in TradePrices
    BY <1>2 DEF FetchSnapshot, QuoteInv
  <2> QED
    BY <1>2, <2>1, QuoteQueued DEF FetchSnapshot
<1>3. ASSUME NEW x \in Streams, NEW p \in TradePrices \cup {0}, MessageArrives(x, p)
      PROVE  QuoteInv'
  <2>1. CASE p # 0
    BY <1>3, <2>1, QuoteQueued DEF MessageArrives
  <2>2. CASE p = 0 /\ stored.price # 0
    <3>1. stored.price \in TradePrices
      BY <2>2 DEF QuoteInv
    <3> QED
      BY <1>3, <2>2, <3>1, QuoteQueued DEF MessageArrives
  <2>3. CASE p = 0 /\ stored.price = 0
    BY <1>1, <1>3, <2>3 DEF MessageArrives
  <2> QED
    BY <2>1, <2>2, <2>3
<1>4. CASE QuoteStored
  BY <1>4, StoreStep
<1>5. CASE FeedClock
  <2>1. feedTime' = feedTime + 1 /\ UNCHANGED <<queue, stored, latest>>
    BY <1>5 DEF FeedClock
  <2>2. feedTime \in Nat /\ stored.at \in Nat /\ stored.at <= feedTime'
    BY <2>1 DEF QuoteInv
  <2>3. \A i \in 1..Len(queue) : queue[i].at \in Nat
    <3> SUFFICES ASSUME NEW i \in 1..Len(queue) PROVE queue[i].at \in Nat
      OBVIOUS
    <3>1. queue[i] \in StampedQuotes
      BY ElementOfSeq DEF QuoteInv
    <3> QED
      BY <3>1 DEF StampedQuotes
  <2>4. \A i \in 1..Len(queue) : stored.at <= queue[i].at /\ queue[i].at <= feedTime'
    BY <2>1, <2>2, <2>3 DEF QuoteInv
  <2> QED
    BY <2>1, <2>2, <2>4 DEF QuoteInv
<1> QED
  BY <1>1, <1>2, <1>3, <1>4, <1>5
     DEF CcxtNext, ccxtVars, OpenStreams, FeedStalls, StreamsGathered, NextRound, FeedStops, StreamEnds

\* When every message has been handled, the store has the price of the last one
\* if that was a trade (update_quote with equal time stamps, _quote_lock).
THEOREM LastTradeIsStored == CcxtSpec => []LastTradeWins
<1>1. CcxtInit => QuoteInv
  <2> SUFFICES ASSUME CcxtInit PROVE QuoteInv
    OBVIOUS
  <2>1. queue \in Seq(StampedQuotes) /\ Len(queue) = 0
    BY EmptySeq DEF CcxtInit
  <2> QED
    BY <2>1 DEF CcxtInit, QuoteInv
<1>2. QuoteInv => LastTradeWins
  BY DEF QuoteInv, LastTradeWins
<1> QED
  BY <1>1, <1>2, QuoteStep, PTL DEF CcxtSpec

\* A message is never heard in the future (_last_message_at).
HeardOK ==
    /\ runner \in {"snapshot", "streaming", "cancelling", "backoff", "ended"}
    /\ latest \in TradePrices \cup {0} /\ lastHeard \in -1..feedTime

\* Every step of the feed keeps that.
LEMMA HeardStep ==
    ASSUME QuoteInv, HeardOK, [CcxtNext]_ccxtVars
    PROVE  HeardOK'
<1>1. feedTime \in Nat /\ lastHeard \in Int /\ -1 <= lastHeard /\ lastHeard <= feedTime
  BY DEF QuoteInv, HeardOK
<1>2. CASE FeedClock
  BY <1>1, <1>2 DEF FeedClock, HeardOK
<1>3. CASE FetchSnapshot
  BY <1>1, <1>3 DEF FetchSnapshot, HeardOK
<1>4. ASSUME NEW x \in Streams, NEW p \in TradePrices \cup {0}, MessageArrives(x, p) PROVE HeardOK'
  BY <1>1, <1>4 DEF MessageArrives, HeardOK
<1>5. CASE /\ UNCHANGED <<latest, lastHeard, feedTime>>
           /\ runner' \in {runner, "snapshot", "streaming", "cancelling", "backoff", "ended"}
  BY <1>5 DEF HeardOK
<1> QED
  BY <1>2, <1>3, <1>4, <1>5
     DEF CcxtNext, ccxtVars, OpenStreams, FeedStalls, StreamsGathered, NextRound, FeedStops, StreamEnds,
         QuoteStored

\* Time stamps in the feed and the store never lie in the future, and nobody
\* closes a stream twice (CcxtMarketFeed._run, _on_binance_message,
\* _on_kucoin_message).
THEOREM CcxtTypeCorrect == CcxtSpec => []CcxtTypeOK
<1>1. CcxtInit => StreamInv /\ QuoteInv /\ HeardOK
  <2> SUFFICES ASSUME CcxtInit PROVE StreamInv /\ QuoteInv /\ HeardOK
    OBVIOUS
  <2>1. queue \in Seq(StampedQuotes) /\ Len(queue) = 0
    BY EmptySeq DEF CcxtInit
  <2>2. StreamInv
    BY DEF CcxtInit, StreamInv, OneStreamEach
  <2>3. QuoteInv
    BY <2>1 DEF CcxtInit, QuoteInv
  <2>4. HeardOK
    BY DEF CcxtInit, HeardOK
  <2> QED
    BY <2>2, <2>3, <2>4
<1>2. StreamInv /\ QuoteInv /\ HeardOK => CcxtTypeOK
  <2> SUFFICES ASSUME StreamInv, QuoteInv, HeardOK PROVE CcxtTypeOK
    OBVIOUS
  <2>1. \A i \in DOMAIN queue : queue[i].price \in TradePrices /\ queue[i].at <= feedTime
    <3> SUFFICES ASSUME NEW i \in DOMAIN queue
                 PROVE  queue[i].price \in TradePrices /\ queue[i].at <= feedTime
      OBVIOUS
    <3>1. i \in 1..Len(queue) /\ queue[i] \in StampedQuotes
      BY LenProperties, ElementOfSeq DEF QuoteInv
    <3> QED
      BY <3>1 DEF QuoteInv, StampedQuotes
  <2> QED
    BY <2>1 DEF StreamInv, QuoteInv, HeardOK, CcxtTypeOK
<1> QED
  BY <1>1, <1>2, StreamStep, QuoteStep, HeardStep, PTL DEF CcxtSpec

-----------------------------------------------------------------------------
(* The suite.                                                              *)

\* In the suite every trading component behaves as it does alone: its own
\* steps, and stuttering while another component moves.
THEOREM DeskStandsAlone ==
    DeskSpec => Spec /\ RiskSpec /\ BotSpec /\ CycleSpec /\ CcxtSpec /\ ResearchSpec
<1>1. DeskInit => Init /\ RiskInit /\ BotInit /\ CycleInit /\ CcxtInit /\ ResearchInit
  BY DEF DeskInit
<1>2. [DeskNext]_deskVars =>
        /\ [Next]_vars /\ [RiskNext]_riskVars /\ [BotNext]_botVars
        /\ [CycleNext]_cycleVars /\ [CcxtNext]_ccxtVars /\ [ResearchNext]_researchVars
  BY DEF DeskNext, deskVars, PaperMoves, RiskMoves, BotMoves, VideoMoves, CcxtMoves, ResearchMoves
<1> QED
  BY <1>1, <1>2, PTL DEF DeskSpec, Spec, RiskSpec, BotSpec, CycleSpec, CcxtSpec, ResearchSpec

\* Whatever the trading components do, every one of them keeps the types of its
\* state (accounts, orders, handlers, ladders, quotes and bars).
THEOREM DeskTypeCorrect == DeskSpec => []DeskTypeOK
<1>1. TypeOK /\ RiskTypeOK /\ BotTypeOK /\ CycleTypeOK /\ CcxtTypeOK /\ ResearchTypeOK => DeskTypeOK
  BY DEF DeskTypeOK
<1> QED
  BY <1>1, DeskStandsAlone, PaperTypeCorrect, RiskTypeCorrect, BotTypeCorrect, CycleTypeCorrect,
     CcxtTypeCorrect, BarsAreTyped, PTL
=============================================================================
