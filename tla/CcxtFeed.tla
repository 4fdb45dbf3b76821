------------------------------ MODULE CcxtFeed ------------------------------
(***************************************************************************)
(* CcxtMarketFeed (market/ccxt_feed.py) and the quote store it feeds:      *)
(* _run takes a snapshot from every exchange, opens its websocket streams, *)
(* watches for silence, and cancels and reopens the streams after one.     *)
(* Every message becomes a quote stamped with its arrival and a task that  *)
(* calls on_quote; the tasks reach the store in order (_quote_lock).       *)
(*                                                                         *)
(* A trade or ticker message carries a price; a book or a snapshot only    *)
(* bids and offers, and becomes a copy of the stored quote with a new time *)
(* stamp.  One symbol is modelled.  The feed starts and stops with the     *)
(* process; a stream that loses its socket reconnects by itself.           *)
(***************************************************************************)
EXTENDS Integers, Sequences

CONSTANTS
    Streams,        \* websocket tasks: one per exchange
    TradePrices,    \* prices of trades
    SilenceLimit,   \* silence that is a stall
    MaxFeedTime, MaxQueue, MaxMessages   \* bounds

ASSUME CcxtAssumption == SilenceLimit \in Nat /\ MaxFeedTime \in Nat /\ MaxQueue \in Nat /\ MaxMessages \in Nat

VARIABLES
    runner,     \* where _run is: snapshot, streaming, cancelling, backoff, ended
    streams,    \* live tasks per stream
    queue,      \* on_quote calls that have not reached the store
    stored,     \* the store's quote: price (0 for none) and time stamp
    latest,     \* the last message: its price, 0 for a book
    lastHeard,  \* _last_message_at, -1 for None
    feedTime, messages

ccxtVars == <<runner, streams, queue, stored, latest, lastHeard, feedTime, messages>>

CcxtInit ==
    /\ runner = "snapshot"
    /\ streams = [x \in Streams |-> 0]
    /\ queue = <<>>
    /\ stored = [price |-> 0, at |-> 0]
    /\ latest = 0
    /\ lastHeard = -1
    /\ feedTime = 0 /\ messages = 0

-----------------------------------------------------------------------------
(* _run.                                                                   *)

Enqueue(price) == queue' = Append(queue, [price |-> price, at |-> feedTime])

\* _fetch_snapshot, of one exchange: its book, when the store has a quote.  A
\* failure is only logged.
FetchSnapshot ==
    /\ runner = "snapshot" /\ stored.price # 0
    /\ messages < MaxMessages /\ Len(queue) < MaxQueue
    /\ messages' = messages + 1
    /\ Enqueue(stored.price)
    /\ latest' = 0 /\ lastHeard' = feedTime
    /\ UNCHANGED <<runner, streams, stored, feedTime>>

\* The streams are created.
OpenStreams ==
    /\ runner = "snapshot"
    /\ streams' = [x \in Streams |-> streams[x] + 1]
    /\ runner' = "streaming"
    /\ UNCHANGED <<queue, stored, latest, lastHeard, feedTime, messages>>

\* The watch loop finds the feed silent for too long.
FeedStalls ==
    /\ runner = "streaming"
    /\ lastHeard >= 0 /\ feedTime - lastHeard > SilenceLimit
    /\ runner' = "cancelling"
    /\ UNCHANGED <<streams, queue, stored, latest, lastHeard, feedTime, messages>>

\* Mutant: the streams are left to notice by themselves.
LeftAlone == streams

\* The tasks of this round are cancelled and gathered.
Gathered == [x \in Streams |-> 0]

StreamsGathered ==
    /\ runner = "cancelling"
    /\ streams' = Gathered
    /\ runner' = "backoff"
    /\ UNCHANGED <<queue, stored, latest, lastHeard, feedTime, messages>>

\* The delay is over, and the next round begins.
NextRound ==
    /\ runner = "backoff"
    /\ runner' = "snapshot"
    /\ UNCHANGED <<streams, queue, stored, latest, lastHeard, feedTime, messages>>

\* stop cancels _run, not the streams: each ends at its next message.
FeedStops ==
    /\ runner # "ended"
    /\ runner' = "ended"
    /\ UNCHANGED <<streams, queue, stored, latest, lastHeard, feedTime, messages>>

StreamEnds(x) ==
    /\ runner = "ended" /\ streams[x] > 0
    /\ streams' = [streams EXCEPT ![x] = @ - 1]
    /\ UNCHANGED <<runner, queue, stored, latest, lastHeard, feedTime, messages>>

-----------------------------------------------------------------------------
(* Messages and the store.                                                 *)

\* _on_binance_message and _on_kucoin_message: price 0 stands for a book, which
\* makes a quote only when there is one to copy.
MessageArrives(x, price) ==
    /\ runner # "ended" /\ streams[x] > 0
    /\ messages < MaxMessages /\ Len(queue) < MaxQueue
    /\ messages' = messages + 1
    /\ lastHeard' = feedTime
    /\ IF price # 0 THEN Enqueue(price) /\ latest' = price
       ELSE IF stored.price # 0 THEN Enqueue(stored.price) /\ latest' = 0
       ELSE UNCHANGED <<queue, latest>>
    /\ UNCHANGED <<runner, streams, stored, feedTime>>

\* Mutant: of two quotes with the same time stamp the first is kept.
KeepFirst(q) == IF stored.price # 0 /\ q.at <= stored.at THEN stored ELSE q

\* update_quote: an older quote is ignored.
UpdateQuote(q) == IF stored.price # 0 /\ q.at < stored.at THEN stored ELSE q

\* The next on_quote call gets the lock.
QuoteStored ==
    /\ queue # <<>>
    /\ stored' = UpdateQuote(Head(queue))
    /\ queue' = Tail(queue)
    /\ UNCHANGED <<runner, streams, latest, lastHeard, feedTime, messages>>

FeedClock ==
    /\ feedTime < MaxFeedTime
    /\ feedTime' = feedTime + 1
    /\ UNCHANGED <<runner, streams, queue, stored, latest, lastHeard, messages>>

CcxtNext ==
    \/ FetchSnapshot \/ OpenStreams \/ FeedStalls \/ StreamsGathered \/ NextRound \/ FeedStops
    \/ \E x \in Streams : StreamEnds(x) \/ \E p \in TradePrices \cup {0} : MessageArrives(x, p)
    \/ QuoteStored \/ FeedClock

CcxtSpec == CcxtInit /\ [][CcxtNext]_ccxtVars

-----------------------------------------------------------------------------
(* Properties.                                                             *)

\* The variables have their types; time stamps never lie in the future.
CcxtTypeOK ==
    /\ runner \in {"snapshot", "streaming", "cancelling", "backoff", "ended"}
    /\ streams \in [Streams -> Nat]
    /\ \A i \in DOMAIN queue : queue[i].price \in TradePrices /\ queue[i].at <= feedTime
    /\ stored.price \in TradePrices \cup {0} /\ stored.at <= feedTime
    /\ latest \in TradePrices \cup {0} /\ lastHeard \in -1..feedTime

\* However often the feed stalls and reconnects, an exchange is read by at most
\* one stream (the streams of a round are gathered before the next one).
OneStreamEach == \A x \in Streams : streams[x] <= 1

\* When every quote has reached the store and the last message was a trade, the
\* store has the price of that trade, whatever books were read in between and
\* however many messages share a time stamp (update_quote).
LastTradeWins == queue = <<>> /\ latest # 0 => stored.price = latest
=============================================================================
