----------------------------- MODULE RateLimit ------------------------------
(***************************************************************************)
(* The request limiter of zksato's API: RateLimitMiddleware (security.py)  *)
(* with its in-process sliding window, or, when Redis is configured, the   *)
(* fixed window of CoordinationManager.allow_request (coordination.py).    *)
(* One client; the others have keys of their own.                          *)
(***************************************************************************)
EXTENDS Integers, Sequences, FiniteSets

CONSTANTS
    RequestLimit,  \* requests_per_minute
    Window,        \* 60 seconds
    MaxCount,      \* bound on the Redis count, beyond the limit
    MaxNow         \* bound on the clock

ASSUME RateAssumption ==
    /\ RequestLimit \in Nat \ {0} /\ Window \in Nat \ {0}
    /\ MaxCount \in Nat /\ MaxNow \in Nat

VARIABLES
    redis,     \* is Redis configured?
    events,    \* RateLimitMiddleware._events of the client
    counter,   \* the Redis key: its count, and when it expires
    rateTime,  \* seconds
    admitted,  \* when each admitted request came
    limited    \* was the request just handled refused?

rateVars == <<redis, events, counter, rateTime, admitted, limited>>

-----------------------------------------------------------------------------
NoCounter == [count |-> 0, expires |-> 0]

RateInit ==
    /\ redis \in BOOLEAN
    /\ events = <<>>
    /\ counter = NoCounter
    /\ rateTime = 0
    /\ admitted = <<>>
    /\ limited = FALSE

\* The decision and the record of it, common to both windows.
Decide(allowed) ==
    /\ limited' = ~allowed
    /\ admitted' = IF allowed THEN Append(admitted, rateTime) ELSE admitted
    /\ UNCHANGED <<redis, rateTime>>

\* The popleft loop of dispatch ends after n events: they are a Window old, the
\* next one is not.
Pops(n) ==
    /\ \A i \in 1..n : rateTime - events[i] >= Window
    /\ n < Len(events) => rateTime - events[n + 1] < Window

\* dispatch without Redis: a sliding window.
DispatchLocal ==
    /\ ~redis
    /\ \E n \in 0..Len(events) :
         LET recent == SubSeq(events, n + 1, Len(events))
         IN  /\ Pops(n)
             /\ Decide(Len(recent) < RequestLimit)
             /\ events' = IF Len(recent) < RequestLimit THEN Append(recent, rateTime) ELSE recent
    /\ UNCHANGED counter

\* Mutant: EXPIRE without nx restarts the window at every request.
DispatchRedisRestarts ==
    /\ redis
    /\ rateTime < counter.expires => counter.count < MaxCount
    /\ LET live == counter.count > 0 /\ rateTime < counter.expires
           count == IF live THEN counter.count + 1 ELSE 1
       IN  /\ counter' = [count |-> count, expires |-> rateTime + Window]
           /\ Decide(count <= RequestLimit)
    /\ UNCHANGED events

\* allow_request: INCR, then EXPIRE with nx, which keeps an expiry that is set.
DispatchRedis ==
    /\ redis
    /\ rateTime < counter.expires => counter.count < MaxCount
    /\ LET live == counter.count > 0 /\ rateTime < counter.expires
           count == IF live THEN counter.count + 1 ELSE 1
       IN  /\ counter' = [count |-> count,
                          expires |-> IF live THEN counter.expires ELSE rateTime + Window]
           /\ Decide(count <= RequestLimit)
    /\ UNCHANGED events

RateTick ==
    /\ rateTime < MaxNow
    /\ rateTime' = rateTime + 1
    /\ limited' = FALSE
    /\ UNCHANGED <<redis, events, counter, admitted>>

RateNext == DispatchLocal \/ DispatchRedis \/ RateTick

RateSpec == RateInit /\ [][RateNext]_rateVars

-----------------------------------------------------------------------------
(* Properties.                                                             *)

AdmittedSince(t) == Cardinality({i \in DOMAIN admitted : admitted[i] > t})

RateTypeOK ==
    /\ redis \in BOOLEAN /\ limited \in BOOLEAN
    /\ events \in Seq(0..MaxNow) /\ admitted \in Seq(0..MaxNow)
    /\ counter \in [count: Nat, expires: Nat]
    /\ rateTime \in 0..MaxNow

\* The limiter bounds the rate and refuses nobody else.  In any Window at most
\* RequestLimit requests are admitted by the sliding window, and at most twice
\* as many by the fixed one, whose edge may fall inside; and a refused request
\* found RequestLimit admitted ones before it in a Window: a client that keeps
\* asking while it is refused does not shut itself out.
RateFair ==
    /\ \A t \in 0..rateTime :
          Cardinality({i \in DOMAIN admitted : admitted[i] \in t..(t + Window - 1)})
            <= (IF redis THEN 2 ELSE 1) * RequestLimit
    /\ limited => AdmittedSince(rateTime - Window) >= RequestLimit
=============================================================================
