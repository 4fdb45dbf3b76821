---------------------------- MODULE SettradeFeed ----------------------------
(***************************************************************************)
(* SettradeRealtimeFeed (market_settrade.py): a supervisor task connects   *)
(* to the broker's realtime data, watches for silence and reconnects;      *)
(* messages arrive on threads of the SDK, are filtered by their sequence   *)
(* number and handed to the event loop.  POST /v1/market/settrade/start    *)
(* and stop may come at any time, also while a stop is waiting for the     *)
(* supervisor it cancelled.                                                *)
(*                                                                         *)
(* The sequence check reads the previous number and writes the new one     *)
(* without a lock.  The interpreter switches threads at calls: a callback  *)
(* is cut after its dict.get, and what follows up to the write of the new  *)
(* number, which calls nothing, is a step.  One subscription calls back    *)
(* from one thread; a leaked one, or one stopped within a callback, has a  *)
(* thread besides its successor's.                                         *)
(*                                                                         *)
(* One symbol is modelled: the sequence state is kept per symbol.  Times   *)
(* are multiples of the poll interval.                                     *)
(***************************************************************************)
EXTENDS Integers, FiniteSets

CONSTANTS
    Supervisors,    \* supervisor tasks start may create
    StallAfter,     \* silence that is a stall
    Threads,        \* threads of the SDK
    MaxSequence,    \* bound on sequence numbers
    MaxPrices       \* bound on price messages with a number

ASSUME SettradeAssumption ==
    StallAfter \in Nat /\ MaxSequence \in Nat /\ MaxPrices \in Nat

VARIABLES
    supervisor, \* each task: unused, looping, polling, backoff, done, failed
    cancelled,  \* supervisors stop has cancelled
    feedTask,   \* _task, or "none"
    stopSet,    \* the _stop event
    stopper,    \* the supervisor a stop call waits for, or "none"
    subscribed, \* live subscriptions: those kept in _subscriptions, leaked ones
    connected,  \* _connected
    heard,      \* age of _last_message_at, -1 for None
    spoken,     \* a message was ever heard
    sequence,   \* last and first accepted, how many, _gap_count and _out_of_order_count
    reading,    \* each thread's callback: its number, the previous one it read
    overtaken   \* history: a number was accepted against a previous one since replaced

settradeVars == <<supervisor, cancelled, feedTask, stopSet, stopper, subscribed, connected,
                  heard, spoken, sequence, reading, overtaken>>

priceVars == <<sequence, reading, overtaken>>

Kinds == {"kept", "leaked"}

\* No callback; from is the subscription it comes from, or "stopped".
NoCallback == [number |-> 0, previous |-> 0, from |-> "stopped"]
Busy(t) == reading[t].number # 0

SettradeInit ==
    /\ supervisor = [i \in Supervisors |-> "unused"]
    /\ cancelled = {} /\ feedTask = "none" /\ stopSet = FALSE /\ stopper = "none"
    /\ subscribed = {} /\ connected = FALSE
    /\ heard = -1 /\ spoken = FALSE
    /\ sequence = [last |-> 0, first |-> 0, accepted |-> 0, gaps |-> 0, outOfOrder |-> 0]
    /\ reading = [t \in Threads |-> NoCallback] /\ overtaken = FALSE

-----------------------------------------------------------------------------
(* start and stop.                                                         *)

\* A subscription that is dropped leaves its callback running.
CallbacksOrphaned ==
    reading' = [t \in Threads |-> [reading[t] EXCEPT !.from = IF @ = "kept" THEN "stopped" ELSE @]]

\* Mutant: disconnecting also forgets when the last message came.
DisconnectForgets ==
    /\ subscribed' = subscribed \ {"kept"}
    /\ connected' = FALSE
    /\ heard' = -1
    /\ CallbacksOrphaned

\* _disconnect: the subscriptions it knows of are stopped; what stop raises is
\* suppressed.
Disconnect ==
    /\ \/ subscribed' = subscribed \ {"kept"}
       \/ "kept" \in subscribed /\ subscribed' = (subscribed \ {"kept"}) \cup {"leaked"}
    /\ connected' = FALSE
    /\ CallbacksOrphaned
    /\ UNCHANGED heard

\* start: nothing while the task there is runs.
FeedStart(i) ==
    /\ feedTask # "none" => supervisor[feedTask] \in {"done", "failed"}
    /\ supervisor[i] = "unused"
    /\ supervisor' = [supervisor EXCEPT ![i] = "looping"]
    /\ feedTask' = i
    /\ stopSet' = FALSE
    /\ UNCHANGED <<cancelled, stopper, subscribed, connected, heard, spoken, priceVars>>

\* stop cancels the task and waits for it; without one it only disconnects.
StopBegins ==
    /\ stopper = "none"
    /\ stopSet' = TRUE
    /\ IF feedTask = "none"
       THEN Disconnect /\ UNCHANGED <<cancelled, stopper>>
       ELSE /\ cancelled' = cancelled \cup {feedTask}
            /\ stopper' = feedTask
            /\ UNCHANGED <<subscribed, connected, heard, reading>>
    /\ UNCHANGED <<supervisor, feedTask, spoken, sequence, overtaken>>

\* The task stop waits for has ended: _task is dropped, whichever it is by now.
StopReturns ==
    /\ stopper # "none" /\ supervisor[stopper] = "done"
    /\ stopper' = "none"
    /\ feedTask' = "none"
    /\ Disconnect
    /\ UNCHANGED <<supervisor, cancelled, stopSet, spoken, sequence, overtaken>>

\* It ended with an error, which stop raises: nothing is dropped.
StopRaises ==
    /\ stopper # "none" /\ supervisor[stopper] = "failed"
    /\ stopper' = "none"
    /\ UNCHANGED <<supervisor, cancelled, feedTask, stopSet, subscribed, connected, heard, spoken,
                   priceVars>>

-----------------------------------------------------------------------------
(* _supervise.                                                             *)

Becomes(i, phase) == supervisor' = [supervisor EXCEPT ![i] = phase]

\* Every suspension of a cancelled supervisor raises CancelledError.
Cancelled(i) ==
    /\ i \in cancelled /\ supervisor[i] \in {"looping", "polling", "backoff"}
    /\ Becomes(i, "done")
    /\ UNCHANGED <<cancelled, feedTask, stopSet, stopper, subscribed, connected, heard, spoken,
                   priceVars>>

\* The outer loop: with _stop set it disconnects and ends, else _connect_once
\* replaces the subscriptions (one that cannot be stopped is leaked).
Connect(i) ==
    /\ supervisor[i] = "looping" /\ i \notin cancelled
    /\ \/ stopSet /\ Disconnect /\ Becomes(i, "done")
       \/ /\ ~stopSet
          /\ \E leaked \in {{}, {"leaked"}} :
               /\ leaked # {} => "kept" \in subscribed
               /\ subscribed' = subscribed \cup {"kept"} \cup leaked
          /\ CallbacksOrphaned
          /\ connected' = TRUE
          /\ Becomes(i, "polling")
          /\ UNCHANGED heard
    /\ UNCHANGED <<cancelled, feedTask, stopSet, stopper, spoken, sequence, overtaken>>

\* _connect_once raises, perhaps after a subscription it does not yet know of was
\* started; an error the loop does not catch ends the supervisor.
ConnectFails(i, caught) ==
    /\ supervisor[i] = "looping" /\ i \notin cancelled /\ ~stopSet
    /\ \E leaked \in {{}, {"leaked"}} : subscribed' = (subscribed \ {"kept"}) \cup leaked
    /\ CallbacksOrphaned
    /\ connected' = FALSE
    /\ Becomes(i, IF caught THEN "backoff" ELSE "failed")
    /\ UNCHANGED <<cancelled, feedTask, stopSet, stopper, heard, spoken, sequence, overtaken>>

Stalled == heard > StallAfter

\* The inner loop, after its sleep: a stalled feed is disconnected and connected
\* again after a delay; else the loop ends with _stop or the connection.
Poll(i) ==
    /\ supervisor[i] = "polling" /\ i \notin cancelled
    /\ \/ Stalled /\ Disconnect /\ Becomes(i, "backoff")
       \/ /\ ~Stalled /\ (stopSet \/ ~connected)
          /\ Becomes(i, "looping")
          /\ UNCHANGED <<subscribed, connected, heard, reading>>
    /\ UNCHANGED <<cancelled, feedTask, stopSet, stopper, spoken, sequence, overtaken>>

BackoffEnds(i) ==
    /\ supervisor[i] = "backoff" /\ i \notin cancelled
    /\ Becomes(i, "looping")
    /\ UNCHANGED <<cancelled, feedTask, stopSet, stopper, subscribed, connected, heard, spoken,
                   priceVars>>

-----------------------------------------------------------------------------
(* Messages.                                                               *)

\* Mutant: the first missing number is not counted.
MissedBeyondFirst(r) == r.number - r.previous - 2

\* The numbers between the previous one and this one.
Missed(r) == r.number - r.previous - 1

Heard == heard' = 0 /\ spoken' = TRUE

\* How many messages with a number have come.
Prices == sequence.accepted + sequence.outOfOrder + Cardinality({t \in Threads : Busy(t)})

\* _on_price, _accept_sequence: the previous number is read.
PriceArrives(t, n) ==
    /\ ~Busy(t) /\ Prices < MaxPrices
    /\ \E from \in subscribed :
         /\ \A u \in Threads : reading[u].from # from
         /\ reading' = [reading EXCEPT ![t] = [number |-> n, previous |-> sequence.last, from |-> from]]
    /\ UNCHANGED <<supervisor, cancelled, feedTask, stopSet, stopper, subscribed, connected,
                   heard, spoken, sequence, overtaken>>

CallbackEnds(t) == reading' = [reading EXCEPT ![t] = NoCallback]

\* A number not above the previous one is dropped, before anything else.
PriceDropped(t) ==
    /\ Busy(t) /\ reading[t].number <= reading[t].previous
    /\ sequence' = [sequence EXCEPT !.outOfOrder = @ + 1]
    /\ CallbackEnds(t)
    /\ UNCHANGED <<supervisor, cancelled, feedTask, stopSet, stopper, subscribed, connected,
                   heard, spoken, overtaken>>

\* A number above it is accepted, the gap before it counted; then the message is
\* heard, unless it has no price.
PriceAccepted(t) ==
    LET r == reading[t]
    IN  /\ Busy(t) /\ r.number > r.previous
        /\ sequence' = [sequence EXCEPT !.last = r.number, !.accepted = @ + 1,
                                        !.first = IF sequence.accepted = 0 THEN r.number ELSE @,
                                        !.gaps = IF r.previous = 0 \/ Missed(r) < 1 THEN @
                                                 ELSE @ + Missed(r)]
        /\ overtaken' = (overtaken \/ r.previous # sequence.last)
        /\ Heard \/ UNCHANGED <<heard, spoken>>
        /\ CallbackEnds(t)
        /\ UNCHANGED <<supervisor, cancelled, feedTask, stopSet, stopper, subscribed, connected>>

\* _on_book, and a price message without a sequence number.
OtherArrives ==
    /\ subscribed # {} /\ Heard
    /\ UNCHANGED <<supervisor, cancelled, feedTask, stopSet, stopper, subscribed, connected, priceVars>>

\* Silence.
FeedTick ==
    /\ heard \in 0..StallAfter
    /\ heard' = heard + 1
    /\ UNCHANGED <<supervisor, cancelled, feedTask, stopSet, stopper, subscribed, connected, spoken,
                   priceVars>>

SettradeNext ==
    \/ \E i \in Supervisors :
         \/ FeedStart(i) \/ Cancelled(i) \/ Connect(i) \/ Poll(i) \/ BackoffEnds(i)
         \/ \E caught \in BOOLEAN : ConnectFails(i, caught)
    \/ StopBegins \/ StopReturns \/ StopRaises
    \/ \E t \in Threads :
         PriceDropped(t) \/ PriceAccepted(t) \/ \E n \in 1..MaxSequence : PriceArrives(t, n)
    \/ OtherArrives \/ FeedTick

\* The event loop runs what is ready.
SettradeFairness == \A i \in Supervisors : WF_settradeVars(Poll(i)) /\ WF_settradeVars(Cancelled(i))

SettradeSpec == SettradeInit /\ [][SettradeNext]_settradeVars /\ SettradeFairness

-----------------------------------------------------------------------------
(* Properties.                                                             *)

SequenceState == [last: 0..MaxSequence, first: 0..MaxSequence, accepted: Nat, gaps: Int,
                  outOfOrder: Nat]
Callback == [number: 0..MaxSequence, previous: 0..MaxSequence,
             from: Kinds \cup {"stopped"}]

\* The variables have their types, and stop waits for a supervisor it cancelled.
SettradeTypeOK ==
    /\ supervisor \in [Supervisors -> {"unused", "looping", "polling", "backoff", "done", "failed"}]
    /\ cancelled \subseteq Supervisors
    /\ feedTask \in Supervisors \cup {"none"} /\ stopper \in cancelled \cup {"none"}
    /\ stopSet \in BOOLEAN /\ connected \in BOOLEAN /\ spoken \in BOOLEAN
    /\ subscribed \subseteq Kinds
    /\ heard \in -1..StallAfter + 1
    /\ sequence \in SequenceState /\ reading \in [Threads -> Callback] /\ overtaken \in BOOLEAN

\* Every sequence number from the first accepted to the last was accepted, once,
\* or counted as a gap, across reconnects, replays, late messages and threads of
\* old subscriptions, until a number is accepted against a previous one that
\* another thread has replaced since it was read (_accept_sequence).
GapsAccounted ==
    sequence.accepted > 0 /\ ~overtaken =>
        sequence.last - sequence.first + 1 = sequence.accepted + sequence.gaps

\* Once the feed has spoken, a supervisor does not watch a silent connection for
\* ever: a message comes, or it leaves to reconnect or to end (_supervise).
SilenceEnds ==
    \A i \in Supervisors :
      (supervisor[i] = "polling" /\ spoken) ~> (supervisor[i] # "polling" \/ heard \in 0..StallAfter)
=============================================================================
