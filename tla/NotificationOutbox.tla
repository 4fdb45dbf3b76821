------------------------- MODULE NotificationOutbox -------------------------
(***************************************************************************)
(* The durable notification outbox of zksato: the queue in the state store *)
(* (store.py) and its SQL table (persistence.py), the retry plan           *)
(* (outbox_delivery.py) and the webhook dispatcher                         *)
(* (notifications/__init__.py).                                            *)
(*                                                                         *)
(* The store changes its memory first and the table second; if the SQL     *)
(* statement fails, memory and table differ and the exception ends the     *)
(* dispatcher's task, which only a process restart starts again.  The      *)
(* dispatcher suspends in client.post alone; but a process may die between *)
(* any two of its writes, and between the write that counts an attempt and *)
(* the request, so each of them is a step.                                 *)
(*                                                                         *)
(* Time is a logical clock, in units of retry_base_seconds.                *)
(***************************************************************************)
EXTENDS Naturals, SequencesExt

CONSTANTS
    Messages,     \* OutboxMessage ids
    NoMessage,    \* no message is in flight
    BatchSize,    \* notification_batch_size
    MaxAttempts,  \* notification_max_attempts
    MaxDelay,     \* notification_retry_max_seconds, in base units
    MaxRequeues,  \* bound on operator requeues, of all messages together
    MaxRestarts   \* bound on process restarts

ASSUME OutboxAssumption ==
    /\ IsFiniteSet(Messages) /\ NoMessage \notin Messages
    /\ BatchSize \in Nat \ {0} /\ MaxAttempts \in Nat \ {0} /\ MaxDelay \in Nat \ {0}
    /\ MaxRequeues \in Nat /\ MaxRestarts \in Nat

VARIABLES
    memory,    \* StateStore.outbox and outbox_delivery
    table,     \* the outbox table
    enqueued,  \* what the caller of enqueue_outbox was told
    alive,     \* is OutboxDispatcher._task running?
    batch,     \* the messages flush_once has still to attempt
    post,      \* the request in flight
    clock,
    received,  \* the messages the webhook has accepted
    posts,     \* requests made, per message
    requeues,  \* requeues done, per message
    restarts,
    tries,     \* history: requests made since the last clean requeue
    cut        \* history: attempts since then that were counted, not requested

vars == <<memory, table, enqueued, alive, batch, post, clock, received, posts,
          requeues, restarts, tries, cut>>

taskVars == <<alive, batch, post>>
webhookVars == <<received, posts>>
operatorVars == <<requeues, restarts>>
historyVars == <<tries, cut>>

-----------------------------------------------------------------------------
\* next = 0 is next_attempt_at = None.
Absent == [present |-> FALSE, created |-> 0, next |-> 0, count |-> 0,
           sent |-> FALSE, dead |-> FALSE]
NewMessage == [Absent EXCEPT !.present = TRUE, !.created = clock]

\* No attempt in flight.  count is the attempt_count flush_once holds; the
\* request is made (asked) after the attempt is counted.
NoPost == [active |-> FALSE, msg |-> NoMessage, count |-> 0, asked |-> FALSE,
           answered |-> FALSE]

Init ==
    /\ memory = [m \in Messages |-> Absent]
    /\ table = [m \in Messages |-> Absent]
    /\ enqueued = [m \in Messages |-> "no"]
    /\ alive = TRUE
    /\ batch = <<>>
    /\ post = NoPost
    /\ clock = 1
    /\ received = {}
    /\ posts = [m \in Messages |-> 0]
    /\ requeues = [m \in Messages |-> 0]
    /\ restarts = 0
    /\ tries = [m \in Messages |-> 0]
    /\ cut = [m \in Messages |-> 0]

\* Change the state of a message in memory, then (ok) its row in the table.  The
\* UPDATE of a row that was never inserted changes nothing.
Write(m, x, ok) ==
    /\ memory' = [memory EXCEPT ![m] = x]
    /\ table' = IF ok /\ table[m].present THEN [table EXCEPT ![m] = x] ELSE table

\* An exception leaves flush_once and with it _run.
TaskDies == alive' = FALSE /\ batch' = <<>> /\ post' = NoPost

-----------------------------------------------------------------------------
(* Producers and operators.                                                *)

\* enqueue_outbox; if the INSERT fails the message stays in memory.
Enqueue(m, ok) ==
    /\ enqueued[m] = "no"
    /\ memory' = [memory EXCEPT ![m] = NewMessage]
    /\ table' = IF ok THEN [table EXCEPT ![m] = NewMessage] ELSE table
    /\ enqueued' = [enqueued EXCEPT ![m] = IF ok THEN "returned" ELSE "raised"]
    /\ UNCHANGED <<taskVars, clock, webhookVars, operatorVars, historyVars>>

\* A requeue the table has too, and that no attempt in flight overtakes.
CleanRequeue(m, ok) == ok /\ ~(post.active /\ post.msg = m)

\* requeue_outbox, whether or not an attempt of the message is in flight.
Requeue(m, ok) ==
    /\ memory[m].present /\ ~memory[m].sent
    /\ SumFunction(requeues) < MaxRequeues
    /\ requeues' = [requeues EXCEPT ![m] = @ + 1]
    /\ Write(m, [memory[m] EXCEPT !.count = 0, !.next = clock, !.dead = FALSE], ok)
    /\ IF CleanRequeue(m, ok)
       THEN tries' = [tries EXCEPT ![m] = 0] /\ cut' = [cut EXCEPT ![m] = 0]
       ELSE UNCHANGED historyVars
    /\ UNCHANGED <<enqueued, taskVars, clock, webhookVars, restarts>>

-----------------------------------------------------------------------------
(* The dispatcher.                                                         *)

\* Mutant: a message whose attempt was interrupted is taken to be in flight.
PendingNotStarted ==
    {m \in Messages : /\ memory[m].present /\ ~memory[m].sent /\ ~memory[m].dead
                      /\ memory[m].next <= clock
                      /\ memory[m].count > 0 => memory[m].next # 0}

Pending ==
    {m \in Messages : /\ memory[m].present /\ ~memory[m].sent /\ ~memory[m].dead
                      /\ memory[m].next <= clock}

DueAt(m) == IF memory[m].next = 0 THEN memory[m].created ELSE memory[m].next

\* pending_outbox(limit): sorted by due time and cut at the limit.
PendingOutbox ==
    {SubSeq(s, 1, IF Len(s) < BatchSize THEN Len(s) ELSE BatchSize) :
        s \in {t \in SetToSeqs(Pending) :
                  \A i, j \in DOMAIN t : i < j => DueAt(t[i]) <= DueAt(t[j])}}

FlushStart ==
    /\ alive /\ batch = <<>> /\ ~post.active
    /\ Pending # {}
    /\ batch' \in PendingOutbox
    /\ UNCHANGED <<memory, table, enqueued, alive, post, clock, webhookVars, operatorVars,
                   historyVars>>

\* mark_outbox_attempt counts the next message's attempt, in memory and table.
Attempt(ok) ==
    /\ batch # <<>> /\ ~post.active
    /\ LET m == Head(batch)
           x == [memory[m] EXCEPT !.count = @ + 1, !.next = 0]
       IN  /\ Write(m, x, ok)
           /\ IF ok
              THEN /\ batch' = Tail(batch)
                   /\ post' = [active |-> TRUE, msg |-> m, count |-> x.count,
                               asked |-> FALSE, answered |-> FALSE]
                   /\ UNCHANGED alive
              ELSE TaskDies
    /\ UNCHANGED <<enqueued, clock, webhookVars, operatorVars, historyVars>>

\* client.post makes the request.
Request ==
    /\ post.active /\ ~post.asked
    /\ post' = [post EXCEPT !.asked = TRUE]
    /\ posts' = [posts EXCEPT ![post.msg] = @ + 1]
    /\ tries' = [tries EXCEPT ![post.msg] = @ + 1]
    /\ UNCHANGED <<memory, table, enqueued, alive, batch, clock, received, operatorVars, cut>>

\* Mutants: the last attempt but one dead-letters; a count beyond the limit does
\* not.
PlanRetryEarly(count) ==
    IF count + 1 >= MaxAttempts THEN [next |-> 0, dead |-> TRUE]
    ELSE [next |-> clock + 1, dead |-> FALSE]

PlanRetryExact(count) ==
    IF count = MaxAttempts THEN [next |-> 0, dead |-> TRUE]
    ELSE [next |-> clock + 1, dead |-> FALSE]

\* plan_retry: exponential delay up to MaxDelay, dead letter at MaxAttempts.
PlanRetry(count) ==
    IF count >= MaxAttempts
    THEN [next |-> 0, dead |-> TRUE]
    ELSE [next |-> clock + (IF 2^(count - 1) \in 1..MaxDelay THEN 2^(count - 1) ELSE MaxDelay),
          dead |-> FALSE]

EndPost == post' = NoPost /\ UNCHANGED <<alive, batch>>

\* Mutant: sent is marked on any response, without raise_for_status.
PostOkUnchecked(ok) ==
    /\ post.active /\ post.asked
    /\ Write(post.msg, [memory[post.msg] EXCEPT !.sent = TRUE, !.next = 0, !.dead = FALSE], ok)
    /\ IF ok THEN EndPost ELSE TaskDies
    /\ UNCHANGED <<enqueued, clock, webhookVars, operatorVars, historyVars>>

\* A 2xx response: mark_outbox_sent.
PostOk(ok) ==
    /\ post.active /\ post.answered
    /\ Write(post.msg, [memory[post.msg] EXCEPT !.sent = TRUE, !.next = 0, !.dead = FALSE], ok)
    /\ IF ok THEN EndPost ELSE TaskDies
    /\ UNCHANGED <<enqueued, clock, webhookVars, operatorVars, historyVars>>

\* HTTPError, TypeError or ValueError: the webhook refused the message, was not
\* reached, or its answer was lost or late.  mark_outbox_failed follows the plan
\* for the count flush_once holds, whatever the store's count is by now; then
\* add_audit, which may fail as well (~audited).
PostFails(ok, audited) ==
    /\ post.active /\ post.asked
    /\ LET plan == PlanRetry(post.count)
       IN  Write(post.msg, [memory[post.msg] EXCEPT !.next = plan.next, !.dead = plan.dead], ok)
    /\ IF ok /\ audited THEN EndPost ELSE TaskDies
    /\ UNCHANGED <<enqueued, clock, webhookVars, operatorVars, historyVars>>

\* Any other exception, such as httpx.InvalidURL.
PostUncaught ==
    /\ post.active /\ post.asked
    /\ TaskDies
    /\ UNCHANGED <<memory, table, enqueued, clock, webhookVars, operatorVars, historyVars>>

-----------------------------------------------------------------------------
(* The webhook, time and the process.                                      *)

WebhookAccepts ==
    /\ post.active /\ post.asked /\ ~post.answered
    /\ post' = [post EXCEPT !.answered = TRUE]
    /\ received' = received \cup {post.msg}
    /\ UNCHANGED <<memory, table, enqueued, alive, batch, clock, posts, operatorVars,
                   historyVars>>

\* Time only matters while a retry is scheduled.
Tick ==
    /\ \E m \in Messages : memory[m].next > clock
    /\ clock' = clock + 1
    /\ UNCHANGED <<memory, table, enqueued, taskVars, webhookVars, operatorVars, historyVars>>

\* The process stops or dies, loads the table and starts the dispatcher.  An
\* attempt that was counted and not yet requested is cut.
Restart ==
    /\ restarts < MaxRestarts
    /\ restarts' = restarts + 1
    /\ memory' = table
    /\ alive' = TRUE /\ batch' = <<>> /\ post' = NoPost
    /\ cut' = IF post.active /\ ~post.asked THEN [cut EXCEPT ![post.msg] = @ + 1] ELSE cut
    /\ UNCHANGED <<table, enqueued, clock, webhookVars, requeues, tries>>

-----------------------------------------------------------------------------

DispatchStep ==
    \/ FlushStart
    \/ Request
    \/ \E ok \in BOOLEAN : \/ Attempt(ok) \/ PostOk(ok)
                          \/ \E audited \in BOOLEAN : PostFails(ok, audited)

Next ==
    \/ \E m \in Messages, ok \in BOOLEAN : Enqueue(m, ok) \/ Requeue(m, ok)
    \/ DispatchStep
    \/ PostUncaught
    \/ WebhookAccepts
    \/ Tick
    \/ Restart

Spec == Init /\ [][Next]_vars

\* The task's loop goes on while it lives, httpx ends a request by its timeout,
\* and time passes.
Fairness == WF_vars(DispatchStep) /\ WF_vars(Tick)

FairSpec == Spec /\ Fairness

-----------------------------------------------------------------------------
(* Properties.                                                             *)

MessageState == [present: BOOLEAN, created: Nat, next: Nat, count: Nat,
                 sent: BOOLEAN, dead: BOOLEAN]
PostState == [active: BOOLEAN, msg: Messages \cup {NoMessage}, count: Nat, asked: BOOLEAN,
              answered: BOOLEAN]

TypeOK ==
    /\ memory \in [Messages -> MessageState] /\ table \in [Messages -> MessageState]
    /\ enqueued \in [Messages -> {"no", "returned", "raised"}]
    /\ alive \in BOOLEAN
    /\ batch \in Seq(Messages) /\ (~alive => batch = <<>>)
    /\ post \in PostState
    /\ clock \in Nat
    /\ received \subseteq Messages
    /\ posts \in [Messages -> Nat] /\ requeues \in [Messages -> Nat]
    /\ restarts \in 0..MaxRestarts
    /\ tries \in [Messages -> Nat] /\ cut \in [Messages -> Nat]

\* No notification is dropped for a message the webhook never accepted: the
\* table says "sent" only of a message it did accept, and a message whose
\* enqueue returned is in the table for good, across restarts and SQL failures.
SentWasReceived ==
    \A m \in Messages :
        /\ memory[m].sent \/ table[m].sent => m \in received
        /\ enqueued[m] = "returned" => table[m].present

\* Retry is bounded (CHANGELOG.md "bounded exponential retry"): a message is
\* posted at most max_attempts times per requeue, and once more for each restart,
\* because the attempt is counted in the table before the request is made.
AttemptsBounded ==
    \A m \in Messages : posts[m] <= MaxAttempts * (1 + requeues[m]) + restarts

\* Since its last requeue, a dead letter was requested max_attempts times, less
\* the attempts a process death cut between their count and their request, of
\* which each death leaves at most one.  Excepted are a requeue whose UPDATE
\* failed and one that an attempt in flight overtook (DeadIsExhausted): neither
\* gives the message new tries.
NotAbandonedEarly ==
    \A m \in Messages :
        /\ memory[m].dead \/ table[m].dead => tries[m] + cut[m] >= MaxAttempts
        /\ cut[m] <= restarts

\* A dead letter has as many attempts recorded as plan_retry asks for
\* (outbox_delivery.py "including the attempt that just failed").  Not so in the
\* code: a requeue while the last attempt is in flight resets the record, and
\* the failure then dead-letters the message by the count flush_once holds.
DeadIsExhausted ==
    \A m \in Messages : memory[m].dead => memory[m].count >= MaxAttempts

\* While the dispatcher lives, every message ends up sent or dead-lettered, even
\* one whose attempt an earlier process did not finish.
EveryMessageSettles ==
    <>[]alive =>
        \A m \in Messages :
            []<>(memory[m].present => memory[m].sent \/ memory[m].dead)
=============================================================================
