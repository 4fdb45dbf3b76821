---------------------- MODULE NotificationOutboxProofs ----------------------
(***************************************************************************)
(* Proofs about NotificationOutbox, for every set of messages, batch size, *)
(* retry limit and number of requeues and restarts.                        *)
(***************************************************************************)
EXTENDS NotificationOutbox, FiniteSetTheorems, SequenceTheorems, TLAPS

-----------------------------------------------------------------------------
(* The inductive invariant.                                                *)

\* The attempt of a message that is counted and not yet requested.
Unrequested(m) == IF post.active /\ post.msg = m /\ ~post.asked THEN 1 ELSE 0

\* What a message's recorded attempts stand for, since its last clean requeue.
Tried(m) == tries[m] + cut[m] + Unrequested(m)

\* What flush_once still has to attempt is waiting, each message once, and not
\* the one in flight; a dead task has nothing left to do.
BatchOK ==
    /\ \A i \in DOMAIN batch :
          /\ memory[batch[i]].present /\ ~memory[batch[i]].sent /\ ~memory[batch[i]].dead
          /\ post.active => batch[i] # post.msg
    /\ \A i, j \in DOMAIN batch : i # j => batch[i] # batch[j]
    /\ ~alive => batch = <<>> /\ ~post.active

\* The message in flight is in memory; a requeue may have reset its count.  An
\* answered request has reached the webhook.
InFlightOK ==
    post.active =>
        /\ post.msg \in Messages
        /\ memory[post.msg].present /\ memory[post.msg].count <= post.count
        /\ post.count <= Tried(post.msg)
        /\ post.answered => post.asked /\ post.msg \in received

\* A message no enqueue_outbox was called for is nowhere.
EnqueuedOK ==
    \A m \in Messages :
        /\ enqueued[m] = "no" => ~memory[m].present /\ ~table[m].present /\ posts[m] = 0
        /\ ~table[m].present => table[m].count = 0 /\ ~table[m].dead

\* No message has been attempted less often than it is counted for, except in
\* the memory of a process whose dispatcher is dead.
CountedOK ==
    \A m \in Messages :
        /\ table[m].count <= Tried(m)
        /\ alive => memory[m].count <= Tried(m)
        /\ cut[m] <= restarts

\* A message was not attempted more often than it is counted for, but for
\* requeues, which reset the count, and one attempt per restart.
Spent == [m \in Messages |-> MaxAttempts * requeues[m] + restarts]

Waiting(m) ==
    /\ memory[m].present /\ ~memory[m].sent /\ ~memory[m].dead
    /\ alive /\ ~(post.active /\ post.msg = m)

Bounded(m) ==
    /\ memory[m].present => posts[m] + Unrequested(m) <= Spent[m] + memory[m].count
    /\ table[m].present => posts[m] + Unrequested(m) <= Spent[m] + table[m].count
    /\ posts[m] + Unrequested(m) <= Spent[m] + MaxAttempts
    /\ Waiting(m) /\ memory[m].count >= MaxAttempts => posts[m] < Spent[m] + MaxAttempts

BoundedOK == \A m \in Messages : Bounded(m)

OutboxInv ==
    /\ TypeOK /\ BatchOK /\ InFlightOK /\ EnqueuedOK /\ CountedOK /\ BoundedOK
    /\ SentWasReceived /\ NotAbandonedEarly

-----------------------------------------------------------------------------
(* Lemmas on the operators of the model.                                   *)

\* plan_retry: a dead letter exactly at max_attempts.
LEMMA PlanRetryFacts ==
    ASSUME NEW count \in Nat, clock \in Nat
    PROVE  /\ PlanRetry(count).next \in Nat
           /\ PlanRetry(count).dead \in BOOLEAN
           /\ PlanRetry(count).dead <=> count >= MaxAttempts
BY OutboxAssumption DEF PlanRetry

\* No request in flight.
LEMMA NoPostType ==
    /\ NoPost \in PostState
    /\ ~NoPost.active
BY DEF NoPost, PostState

\* Requests and counts are numbers.
LEMMA TriedType ==
    ASSUME TypeOK, NEW m \in Messages
    PROVE  Unrequested(m) \in {0, 1} /\ Tried(m) \in Nat
<1>1. Unrequested(m) \in {0, 1} /\ tries[m] \in Nat /\ cut[m] \in Nat
  BY DEF Unrequested, TypeOK
<1> QED
  BY <1>1 DEF Tried

\* What leaves the attempt in flight and the history alone leaves their sum.
LEMMA TriedKept ==
    ASSUME UNCHANGED <<post, historyVars>>, NEW m
    PROVE  Unrequested(m)' = Unrequested(m) /\ Tried(m)' = Tried(m)
BY DEF Unrequested, Tried, historyVars

\* pending_outbox returns pending messages, each at most once.
LEMMA PendingOutboxFacts ==
    ASSUME NEW b \in PendingOutbox
    PROVE  /\ b \in Seq(Messages)
           /\ \A i \in DOMAIN b : b[i] \in Pending
           /\ \A i, j \in DOMAIN b : i # j => b[i] # b[j]
<1>1. Pending \subseteq Messages /\ IsFiniteSet(Pending)
  BY FS_Subset, OutboxAssumption DEF Pending
<1>2. Cardinality(Pending) \in Nat
  BY <1>1, FS_CardinalityType
<1>3. PICK s \in SetToSeqs(Pending) :
         b = SubSeq(s, 1, IF Len(s) < BatchSize THEN Len(s) ELSE BatchSize)
  BY DEF PendingOutbox
<1>4. /\ s \in [1..Cardinality(Pending) -> Pending]
      /\ \A i, j \in 1..Cardinality(Pending) : i # j => s[i] # s[j]
  BY <1>3 DEF SetToSeqs
<1>5. s \in Seq(Pending) /\ Len(s) = Cardinality(Pending)
  BY <1>2, <1>4, IsASeq, LenProperties
<1>6. PICK k \in Nat : k <= Len(s) /\ b = SubSeq(s, 1, k)
  BY <1>2, <1>3, <1>5, OutboxAssumption
<1>7. b \in Seq(Pending) /\ Len(b) = k /\ \A i \in 1..k : b[i] = s[i]
  BY <1>5, <1>6, <1>2, SubSeqProperties
<1>8. DOMAIN b = 1..k
  BY <1>7, LenProperties
<1> QED
  BY <1>1, <1>2, <1>4, <1>5, <1>6, <1>7, <1>8

\* What a requeue and a restart add to the attempts a message may have spent.
LEMMA SpentFacts ==
    ASSUME TypeOK, NEW m \in Messages
    PROVE  /\ Spent[m] \in Nat
           /\ UNCHANGED operatorVars => Spent'[m] = Spent[m]
           /\ requeues' = requeues /\ restarts' = restarts + 1 => Spent'[m] = Spent[m] + 1
           /\ \A n \in Messages : requeues' = [requeues EXCEPT ![n] = @ + 1] /\ restarts' = restarts
                => Spent'[m] = Spent[m] + (IF n = m THEN MaxAttempts ELSE 0)
<1>1. requeues[m] \in Nat /\ restarts \in Nat /\ MaxAttempts \in Nat
  BY OutboxAssumption DEF TypeOK
<1>2. Spent[m] \in Nat
  BY <1>1 DEF Spent
<1>3. UNCHANGED operatorVars => Spent'[m] = Spent[m]
  BY DEF Spent, operatorVars
<1>4. requeues' = requeues /\ restarts' = restarts + 1 => Spent'[m] = Spent[m] + 1
  BY <1>1 DEF Spent
<1>5. ASSUME NEW n \in Messages, requeues' = [requeues EXCEPT ![n] = @ + 1], restarts' = restarts
      PROVE  Spent'[m] = Spent[m] + (IF n = m THEN MaxAttempts ELSE 0)
  <2>1. requeues'[m] = IF n = m THEN requeues[m] + 1 ELSE requeues[m]
    BY <1>5 DEF TypeOK
  <2>2. MaxAttempts * (requeues[m] + 1) = MaxAttempts * requeues[m] + MaxAttempts
    BY <1>1
  <2> QED
    BY <1>1, <1>5, <2>1, <2>2 DEF Spent
<1> QED
  BY <1>2, <1>3, <1>4, <1>5

-----------------------------------------------------------------------------
(* The initial states, and what each step leaves true.                     *)

\* The store starts empty.
LEMMA OutboxInit == ASSUME Init PROVE OutboxInv
<1> USE OutboxAssumption DEF Init
<1>1. TypeOK
  BY DEF TypeOK, MessageState, PostState, Absent, NoPost
<1>2. BatchOK /\ InFlightOK /\ EnqueuedOK /\ CountedOK
  BY DEF BatchOK, InFlightOK, EnqueuedOK, CountedOK, Tried, Unrequested, Absent, NoPost
<1>3. BoundedOK
  BY <1>1, SpentFacts DEF BoundedOK, Bounded, Waiting, Unrequested, Absent, NoPost
<1>4. SentWasReceived /\ NotAbandonedEarly
  BY DEF SentWasReceived, NotAbandonedEarly, Absent
<1> QED
  BY <1>1, <1>2, <1>3, <1>4 DEF OutboxInv

\* enqueue_outbox, with and without its row.
LEMMA EnqueueStep ==
    ASSUME OutboxInv, NEW m \in Messages, NEW ok \in BOOLEAN, Enqueue(m, ok)
    PROVE  OutboxInv'
<1> USE OutboxAssumption DEF OutboxInv, Enqueue, taskVars, webhookVars
<1>1. NewMessage \in MessageState /\ NewMessage.present /\ ~NewMessage.sent /\ ~NewMessage.dead
      /\ NewMessage.count = 0
  BY DEF NewMessage, Absent, MessageState, TypeOK
<1>2. TypeOK'
  BY <1>1 DEF TypeOK, operatorVars, historyVars
<1>3. BatchOK'
  BY <1>1 DEF TypeOK, BatchOK, EnqueuedOK
<1>0. \A n : Unrequested(n)' = Unrequested(n) /\ Tried(n)' = Tried(n)
  BY TriedKept
<1>a. \A n \in Messages : Unrequested(n) \in {0, 1} /\ Tried(n) \in Nat
  BY TriedType
<1>b. m \in Messages /\ (post.active => post.msg \in Messages)
  BY DEF InFlightOK
<1>4. InFlightOK' /\ EnqueuedOK' /\ CountedOK'
  <2>1. InFlightOK'
    <3>1. post.active => /\ memory'[post.msg].present /\ memory'[post.msg].count <= post.count
      BY <1>1, <1>a, <1>b DEF TypeOK, InFlightOK, EnqueuedOK
    <3> QED
      BY <1>0, <3>1 DEF InFlightOK
  <2>2. EnqueuedOK'
    BY <1>1 DEF TypeOK, EnqueuedOK
  <2>3. CountedOK'
    <3> SUFFICES ASSUME NEW n \in Messages
                 PROVE  /\ table'[n].count <= Tried(n)'
                        /\ alive' => memory'[n].count <= Tried(n)'
                        /\ cut'[n] <= restarts'
      BY DEF CountedOK
    <3>1. table[n].count <= Tried(n) /\ (alive => memory[n].count <= Tried(n)) /\ cut[n] <= restarts
      BY DEF CountedOK
    <3>2. cut'[n] = cut[n] /\ restarts' = restarts /\ alive' = alive
      BY DEF operatorVars, historyVars
    <3>3. /\ memory'[n] = IF n = m THEN NewMessage ELSE memory[n]
          /\ table'[n] = IF n = m /\ ok THEN NewMessage ELSE table[n]
      BY DEF TypeOK
    <3> QED
      BY <1>0, <1>1, <1>a, <3>1, <3>2, <3>3
  <2> QED
    BY <2>1, <2>2, <2>3
<1>5. BoundedOK'
  <2>1. \A n \in Messages : Spent[n] \in Nat /\ Spent'[n] = Spent[n]
    BY SpentFacts
  <2> SUFFICES ASSUME NEW n \in Messages PROVE Bounded(n)'
    BY DEF BoundedOK
  <2>2. Bounded(n)
    BY DEF BoundedOK
  <2>3. /\ posts[n] \in Nat /\ memory[n] \in MessageState /\ table[n] \in MessageState
        /\ n = m => posts[n] = 0 /\ ~table[n].present
    BY DEF TypeOK, EnqueuedOK
  <2>4. /\ memory'[n] = IF n = m THEN NewMessage ELSE memory[n]
        /\ table'[n] = IF n = m /\ ok THEN NewMessage ELSE table[n]
    BY DEF TypeOK
  <2>5. CASE n = m
    <3>1. Unrequested(n) = 0
      BY <2>3, <2>5 DEF Unrequested, InFlightOK, EnqueuedOK, Enqueue
    <3>2. MaxAttempts \in Nat \ {0} /\ posts'[n] = posts[n]
      OBVIOUS
    <3> QED
      BY <1>0, <1>1, <2>1, <2>3, <2>4, <2>5, <3>1, <3>2 DEF Bounded, Waiting
  <2>6. CASE n # m
    BY <1>0, <2>1, <2>2, <2>3, <2>4, <2>6 DEF Bounded, Waiting
  <2> QED
    BY <2>5, <2>6
<1>6. SentWasReceived' /\ NotAbandonedEarly'
  BY <1>1 DEF TypeOK, SentWasReceived, NotAbandonedEarly, operatorVars, historyVars
<1> QED
  BY <1>2, <1>3, <1>4, <1>5, <1>6

\* requeue_outbox, also of the message in flight.
LEMMA RequeueStep ==
    ASSUME OutboxInv, NEW m \in Messages, NEW ok \in BOOLEAN, Requeue(m, ok)
    PROVE  OutboxInv'
<1> USE OutboxAssumption DEF OutboxInv
<1> DEFINE x == [memory[m] EXCEPT !.count = 0, !.next = clock, !.dead = FALSE]
<1>1. x \in MessageState /\ x.present /\ ~x.sent /\ ~x.dead /\ x.count = 0
  <2>1. memory[m] \in MessageState /\ memory[m].present /\ ~memory[m].sent /\ clock \in Nat
    BY DEF TypeOK, Requeue
  <2> QED
    BY <2>1 DEF MessageState
<1>2. /\ memory' = [memory EXCEPT ![m] = x]
      /\ table' = IF ok /\ table[m].present THEN [table EXCEPT ![m] = x] ELSE table
      /\ requeues' = [requeues EXCEPT ![m] = @ + 1]
      /\ UNCHANGED <<enqueued, alive, batch, post, clock, received, posts, restarts>>
      /\ memory[m].present /\ ~memory[m].sent
      /\ IF CleanRequeue(m, ok)
         THEN tries' = [tries EXCEPT ![m] = 0] /\ cut' = [cut EXCEPT ![m] = 0]
         ELSE UNCHANGED <<tries, cut>>
  BY DEF Requeue, Write, taskVars, webhookVars, historyVars
<1> HIDE DEF x
<1>3. TypeOK'
  <2>1. tries' \in [Messages -> Nat] /\ cut' \in [Messages -> Nat]
    <3>1. tries \in [Messages -> Nat] /\ cut \in [Messages -> Nat]
      BY DEF TypeOK
    <3>2. CASE CleanRequeue(m, ok)
      BY <1>2, <3>1, <3>2
    <3>3. CASE ~CleanRequeue(m, ok)
      BY <1>2, <3>1, <3>3
    <3> QED
      BY <3>2, <3>3
  <2>2. memory' \in [Messages -> MessageState] /\ table' \in [Messages -> MessageState]
    BY <1>1, <1>2 DEF TypeOK
  <2>3. requeues' \in [Messages -> Nat]
    <3>1. requeues \in [Messages -> Nat]
      BY DEF TypeOK
    <3> QED
      BY <1>2, <3>1
  <2> QED
    BY <1>2, <2>1, <2>2, <2>3 DEF TypeOK
<1>4. BatchOK'
  BY <1>1, <1>2 DEF TypeOK, BatchOK
<1>0. \A n \in Messages :
         /\ Unrequested(n)' = Unrequested(n) /\ Unrequested(n) \in {0, 1} /\ Tried(n) \in Nat
         /\ Tried(n)' = IF n = m /\ CleanRequeue(m, ok) THEN 0 ELSE Tried(n)
         /\ memory'[n] = IF n = m THEN x ELSE memory[n]
         /\ table'[n] = IF n = m /\ ok /\ table[m].present THEN x ELSE table[n]
         /\ memory[n] \in MessageState /\ table[n] \in MessageState
  <2> SUFFICES ASSUME NEW n \in Messages
      PROVE  /\ Unrequested(n)' = Unrequested(n) /\ Unrequested(n) \in {0, 1} /\ Tried(n) \in Nat
             /\ Tried(n)' = IF n = m /\ CleanRequeue(m, ok) THEN 0 ELSE Tried(n)
             /\ memory'[n] = IF n = m THEN x ELSE memory[n]
             /\ table'[n] = IF n = m /\ ok /\ table[m].present THEN x ELSE table[n]
             /\ memory[n] \in MessageState /\ table[n] \in MessageState
    OBVIOUS
  <2>1. Unrequested(n)' = Unrequested(n) /\ Unrequested(n) \in {0, 1} /\ Tried(n) \in Nat
    BY <1>2, TriedType DEF Unrequested
  <2>2. Tried(n)' = IF n = m /\ CleanRequeue(m, ok) THEN 0 ELSE Tried(n)
    <3>1. CASE CleanRequeue(m, ok)
      <4>1. tries' = [tries EXCEPT ![m] = 0] /\ cut' = [cut EXCEPT ![m] = 0]
        BY <1>2, <3>1
      <4>2. /\ tries'[n] = IF n = m THEN 0 ELSE tries[n]
            /\ cut'[n] = IF n = m THEN 0 ELSE cut[n]
        BY <4>1 DEF TypeOK
      <4>3. n = m => Unrequested(n) = 0
        BY <3>1 DEF CleanRequeue, Unrequested
      <4> QED
        BY <2>1, <3>1, <4>2, <4>3 DEF Tried
    <3>2. CASE ~CleanRequeue(m, ok)
      BY <1>2, <2>1, <3>2 DEF Tried
    <3> QED
      BY <3>1, <3>2
  <2> QED
    BY <1>2, <2>1, <2>2 DEF TypeOK
<1>5. InFlightOK' /\ EnqueuedOK' /\ CountedOK'
  <2>1. InFlightOK'
    <3> SUFFICES ASSUME post.active PROVE InFlightOK'
      BY <1>2 DEF InFlightOK
    <3>1. /\ post.msg \in Messages /\ memory[post.msg].present /\ post.count \in Nat
          /\ memory[post.msg].count <= post.count /\ post.count <= Tried(post.msg)
          /\ post.answered => post.asked /\ post.msg \in received
      BY DEF InFlightOK, TypeOK, PostState
    <3>4. (post.count <= Tried(post.msg))'
      <4>1. PICK q \in Messages : q = post.msg
        BY <3>1
      <4>2. Tried(q)' = Tried(q) /\ Tried(q) \in Nat /\ post.count <= Tried(q)
        BY <1>0, <3>1, <4>1 DEF CleanRequeue
      <4>3. (Tried(post.msg))' = Tried(q)'
        BY <1>2, <4>1 DEF Tried, Unrequested
      <4> QED
        BY <1>2, <3>1, <4>2, <4>3
    <3>3. memory'[post.msg].present /\ memory'[post.msg].count <= post.count
      BY <1>0, <1>1, <3>1
    <3> QED
      BY <1>2, <3>1, <3>3, <3>4 DEF InFlightOK
  <2>2. EnqueuedOK'
    BY <1>0, <1>1, <1>2 DEF EnqueuedOK
  <2>3. CountedOK'
    <3> SUFFICES ASSUME NEW n \in Messages
                 PROVE  /\ table'[n].count <= Tried(n)'
                        /\ alive' => memory'[n].count <= Tried(n)'
                        /\ cut'[n] <= restarts'
      BY DEF CountedOK
    <3>1. /\ table[n].count <= Tried(n) /\ (alive => memory[n].count <= Tried(n))
          /\ cut[n] <= restarts /\ cut[n] \in Nat /\ restarts \in Nat
          /\ ~table[n].present => table[n].count = 0
      BY DEF CountedOK, TypeOK, EnqueuedOK
    <3>2. cut'[n] <= restarts'
      <4>1. CASE CleanRequeue(m, ok)
        <5>1. cut'[n] = 0 \/ cut'[n] = cut[n]
          BY <1>2, <4>1 DEF TypeOK
        <5> QED
          BY <1>2, <3>1, <5>1
      <4>2. CASE ~CleanRequeue(m, ok)
        BY <1>2, <3>1, <4>2
      <4> QED
        BY <4>1, <4>2
    <3>3. CASE n = m
      <4>1. CleanRequeue(m, ok) => table'[n].count = 0
        BY <1>0, <1>1, <3>1, <3>3 DEF CleanRequeue
      <4>2. ~CleanRequeue(m, ok) => table'[n].count <= Tried(n)
        BY <1>0, <1>1, <3>1, <3>3 DEF MessageState
      <4> QED
        BY <1>0, <1>1, <3>2, <3>3, <4>1, <4>2
    <3>4. CASE n # m
      BY <1>0, <1>2, <3>1, <3>2, <3>4
    <3> QED
      BY <3>3, <3>4
  <2> QED
    BY <2>1, <2>2, <2>3
<1>6. BoundedOK'
  <2>1. \A n \in Messages : /\ Spent[n] \in Nat
                            /\ Spent'[n] = Spent[n] + (IF m = n THEN MaxAttempts ELSE 0)
    BY <1>2, SpentFacts
  <2> SUFFICES ASSUME NEW n \in Messages PROVE Bounded(n)'
    BY DEF BoundedOK
  <2>2. Bounded(n)
    BY DEF BoundedOK
  <2>3. posts[n] \in Nat /\ Spent[n] \in Nat /\ memory[n] \in MessageState /\ table[n] \in MessageState
    BY <2>1 DEF TypeOK
  <2>4. /\ memory'[n] = IF n = m THEN x ELSE memory[n]
        /\ table'[n] = IF n = m /\ ok /\ table[m].present THEN x ELSE table[n]
    BY <1>2 DEF TypeOK
  <2>5. CASE n = m
    <3>1. Unrequested(n)' = Unrequested(n) /\ Unrequested(n) \in {0, 1} /\ MaxAttempts \in Nat \ {0}
      BY <1>0
    <3>2. /\ Spent'[n] = Spent[n] + MaxAttempts /\ posts'[n] = posts[n]
          /\ posts[n] + Unrequested(n) <= Spent[n] + MaxAttempts
          /\ memory'[n].count = 0
      BY <1>1, <1>2, <2>1, <2>2, <2>4, <2>5 DEF Bounded
    <3>3. table'[n].count \in Nat
      BY <1>1, <2>3, <2>4 DEF MessageState
    <3> QED
      BY <2>3, <3>1, <3>2, <3>3 DEF Bounded
  <2>6. CASE n # m
    BY <1>0, <1>2, <2>1, <2>2, <2>3, <2>4, <2>6 DEF MessageState, Bounded, Waiting
  <2> QED
    BY <2>5, <2>6
<1>7. SentWasReceived' /\ NotAbandonedEarly'
  <2>1. SentWasReceived'
    BY <1>1, <1>2 DEF TypeOK, SentWasReceived
  <2>2. NotAbandonedEarly'
    <3> SUFFICES ASSUME NEW n \in Messages
                 PROVE  /\ memory'[n].dead \/ table'[n].dead => tries'[n] + cut'[n] >= MaxAttempts
                        /\ cut'[n] <= restarts'
      BY DEF NotAbandonedEarly
    <3>1. CASE CleanRequeue(m, ok) /\ n = m
      <4>1. ~memory'[n].dead /\ ~table'[n].dead
        BY <1>0, <1>1, <3>1 DEF CleanRequeue, EnqueuedOK
      <4> QED
        BY <1>5, <4>1 DEF CountedOK
    <3>2. CASE ~(CleanRequeue(m, ok) /\ n = m)
      <4>1. tries'[n] = tries[n] /\ cut'[n] = cut[n]
        BY <1>2, <3>2 DEF TypeOK
      <4> QED
        BY <1>0, <1>1, <1>5, <4>1 DEF CountedOK, NotAbandonedEarly
    <3> QED
      BY <3>1, <3>2
  <2> QED
    BY <2>1, <2>2
<1> QED
  BY <1>3, <1>4, <1>5, <1>6, <1>7

\* flush_once takes its batch.
LEMMA FlushStartStep == ASSUME OutboxInv, FlushStart PROVE OutboxInv'
<1> USE DEF OutboxInv, FlushStart, webhookVars, operatorVars, historyVars
<1>1. /\ batch' \in Seq(Messages)
      /\ \A i \in DOMAIN batch' : batch'[i] \in Pending
      /\ \A i, j \in DOMAIN batch' : i # j => batch'[i] # batch'[j]
  BY PendingOutboxFacts
<1>2. TypeOK' /\ BatchOK'
  BY <1>1 DEF TypeOK, BatchOK, Pending
<1>3. InFlightOK' /\ EnqueuedOK' /\ CountedOK' /\ SentWasReceived' /\ NotAbandonedEarly'
  BY DEF InFlightOK, EnqueuedOK, CountedOK, Tried, Unrequested, SentWasReceived, NotAbandonedEarly
<1>4. BoundedOK'
  BY DEF BoundedOK, Bounded, Waiting, Unrequested, Spent
<1> QED
  BY <1>2, <1>3, <1>4

\* mark_outbox_attempt, or the task's death in it.
LEMMA AttemptStep == ASSUME OutboxInv, NEW ok \in BOOLEAN, Attempt(ok) PROVE OutboxInv'
<1> USE OutboxAssumption DEF OutboxInv
<1>0. PICK m : m = Head(batch)
  OBVIOUS
<1> DEFINE x == [memory[m] EXCEPT !.count = @ + 1, !.next = 0]
<1>1. /\ batch \in Seq(Messages) /\ batch # <<>> /\ m \in Messages /\ m = batch[1]
      /\ Len(batch) \in Nat /\ DOMAIN batch = 1..Len(batch) /\ 1 \in DOMAIN batch
      /\ Tail(batch) \in Seq(Messages) /\ DOMAIN Tail(batch) = 1..(Len(batch) - 1)
      /\ \A i \in DOMAIN Tail(batch) : i + 1 \in DOMAIN batch /\ Tail(batch)[i] = batch[i + 1]
  <2>1. batch \in Seq(Messages) /\ batch # <<>>
    BY DEF Attempt, TypeOK
  <2>2. Len(batch) \in Nat /\ DOMAIN batch = 1..Len(batch) /\ Len(batch) # 0
    BY <2>1, LenProperties, EmptySeq
  <2>3. /\ Head(batch) \in Messages /\ Tail(batch) \in Seq(Messages)
        /\ Len(Tail(batch)) = Len(batch) - 1
        /\ \A i \in 1..Len(Tail(batch)) : Tail(batch)[i] = batch[i + 1]
    BY <2>1, HeadTailProperties
  <2>4. DOMAIN Tail(batch) = 1..(Len(batch) - 1)
    BY <2>3, LenProperties
  <2>5. Head(batch) = batch[1]
    BY <2>1, <2>2
  <2> QED
    BY <1>0, <2>1, <2>2, <2>3, <2>4, <2>5
<1>2. /\ memory[m] \in MessageState /\ memory[m].present /\ ~memory[m].sent /\ ~memory[m].dead
      /\ alive /\ ~post.active /\ \A i \in DOMAIN Tail(batch) : Tail(batch)[i] # m
  <2>1. memory[m] \in MessageState /\ memory[m].present /\ ~memory[m].sent /\ ~memory[m].dead
    BY <1>1 DEF TypeOK, BatchOK
  <2>2. alive /\ ~post.active
    BY DEF TypeOK, Attempt
  <2>3. ASSUME NEW i \in DOMAIN Tail(batch) PROVE Tail(batch)[i] # m
    <3>1. i \in Int /\ i >= 1 /\ i + 1 \in DOMAIN batch /\ Tail(batch)[i] = batch[i + 1]
      BY <1>1
    <3> QED
      BY <3>1, <1>1 DEF BatchOK
  <2> QED
    BY <2>1, <2>2, <2>3
<1>3. /\ x \in MessageState /\ x.present /\ ~x.sent /\ ~x.dead
      /\ x.count = memory[m].count + 1 /\ x.count \in Nat
  <2> DEFINE c == memory[m].count + 1
  <2>1. memory[m].count \in Nat /\ c \in Nat
    BY <1>2 DEF MessageState
  <2>2. x = [memory[m] EXCEPT !.count = c, !.next = 0]
    BY Zenon
  <2> HIDE DEF c, x
  <2>3. /\ x \in MessageState /\ x.present = memory[m].present /\ x.sent = memory[m].sent
        /\ x.dead = memory[m].dead /\ x.count = c
    BY <1>2, <2>1, <2>2 DEF MessageState
  <2> QED
    BY <1>2, <2>1, <2>3 DEF c
<1>4. /\ memory' = [memory EXCEPT ![m] = x]
      /\ table' = IF ok /\ table[m].present THEN [table EXCEPT ![m] = x] ELSE table
      /\ UNCHANGED <<enqueued, clock, received, posts, requeues, restarts, tries, cut>>
      /\ ok => /\ batch' = Tail(batch) /\ alive' = alive
               /\ post' = [active |-> TRUE, msg |-> m, count |-> x.count, asked |-> FALSE,
                           answered |-> FALSE]
      /\ ~ok => alive' = FALSE /\ batch' = <<>> /\ post' = NoPost
  BY <1>0 DEF Attempt, Write, TaskDies, operatorVars, webhookVars, historyVars
<1> HIDE DEF x
<1>5. TypeOK'
  <2>1. memory' \in [Messages -> MessageState] /\ table' \in [Messages -> MessageState]
    BY <1>1, <1>3, <1>4 DEF TypeOK
  <2>2. /\ posts' \in [Messages -> Nat] /\ tries' \in [Messages -> Nat]
        /\ cut' \in [Messages -> Nat]
    BY <1>1, <1>4 DEF TypeOK
  <2>3. /\ alive' \in BOOLEAN /\ batch' \in Seq(Messages) /\ (~alive' => batch' = <<>>)
        /\ post' \in PostState
    <3>1. CASE ok
      <4>1. alive' \in BOOLEAN /\ batch' \in Seq(Messages) /\ alive'
        BY <1>1, <1>2, <1>4, <3>1 DEF TypeOK
      <4>2. post' = [active |-> TRUE, msg |-> m, count |-> x.count, asked |-> FALSE,
                     answered |-> FALSE]
        BY <1>4, <3>1
      <4>3. m \in Messages /\ x.count \in Nat
        BY <1>1, <1>3
      <4> HIDE DEF OutboxInv
      <4>4. post' \in PostState
        BY <4>2, <4>3 DEF PostState
      <4> QED
        BY <4>1, <4>4
    <3>2. CASE ~ok
      BY <1>4, <3>2, NoPostType, EmptySeq
    <3> QED
      BY <3>1, <3>2
  <2>4. /\ enqueued' \in [Messages -> {"no", "returned", "raised"}] /\ clock' \in Nat
        /\ received' \subseteq Messages /\ requeues' \in [Messages -> Nat]
        /\ restarts' \in 0..MaxRestarts
    BY <1>4 DEF TypeOK
  <2> QED
    BY <2>1, <2>2, <2>3, <2>4, Zenon DEF TypeOK, PostState
<1>6. BatchOK'
  <2>1. CASE ok
    <3>1. \A i \in DOMAIN Tail(batch) : /\ Tail(batch)[i] \in Messages /\ Tail(batch)[i] # m
                                        /\ memory'[Tail(batch)[i]] = memory[Tail(batch)[i]]
      BY <1>1, <1>2, <1>4 DEF TypeOK
    <3> QED
      BY <2>1, <3>1, <1>1, <1>2, <1>4 DEF BatchOK
  <2>2. CASE ~ok
    BY <2>2, <1>4 DEF BatchOK, NoPost
  <2> QED
    BY <2>1, <2>2
<1>a. \A n \in Messages :
         /\ Unrequested(n) = 0 /\ Unrequested(n)' = IF n = m /\ ok THEN 1 ELSE 0
         /\ Tried(n) \in Nat /\ Tried(n)' = IF n = m /\ ok THEN Tried(n) + 1 ELSE Tried(n)
  <2> SUFFICES ASSUME NEW n \in Messages
      PROVE  /\ Unrequested(n) = 0 /\ Unrequested(n)' = IF n = m /\ ok THEN 1 ELSE 0
             /\ Tried(n) \in Nat /\ Tried(n)' = IF n = m /\ ok THEN Tried(n) + 1 ELSE Tried(n)
    OBVIOUS
  <2>1. Unrequested(n) = 0 /\ Tried(n) \in Nat
    BY <1>2, TriedType DEF Unrequested
  <2>2. Unrequested(n)' = IF n = m /\ ok THEN 1 ELSE 0
    BY <1>4, NoPostType DEF Unrequested
  <2>3. tries[n] \in Nat /\ cut[n] \in Nat /\ tries'[n] = tries[n] /\ cut'[n] = cut[n]
    BY <1>4 DEF TypeOK
  <2> QED
    BY <2>1, <2>2, <2>3 DEF Tried
<1>7. InFlightOK' /\ CountedOK'
  <2>1. memory[m].count \in Nat /\ Tried(m) \in Nat /\ memory[m].count <= Tried(m)
    BY <1>a, <1>1, <1>2 DEF CountedOK, TypeOK, MessageState
  <2>2. \A n \in Messages :
           /\ memory'[n] = IF n = m THEN x ELSE memory[n]
           /\ table'[n] = IF n = m /\ ok /\ table[m].present THEN x ELSE table[n]
           /\ table[n].count \in Nat /\ memory[n].count \in Nat
    BY <1>1, <1>4 DEF TypeOK, MessageState
  <2>3. InFlightOK'
    <3>1. CASE ok
      <4>1. /\ post'.msg = m /\ post'.count = x.count /\ ~post'.answered
            /\ memory'[m] = x /\ Tried(m)' = Tried(m) + 1
        BY <1>a, <1>1, <1>4, <2>2, <3>1
      <4>2. m \in Messages /\ x.present /\ x.count \in Nat /\ x.count <= Tried(m) + 1
        BY <1>1, <1>3, <2>1
      <4>3. (Tried(post.msg))' = Tried(m)'
        BY <4>1 DEF Tried, Unrequested
      <4> QED
        BY <4>1, <4>2, <4>3 DEF InFlightOK
    <3>2. CASE ~ok
      BY <1>4, <3>2, NoPostType DEF InFlightOK
    <3> QED
      BY <3>1, <3>2
  <2>4. CountedOK'
    BY <1>a, <1>2, <1>3, <1>4, <2>1, <2>2 DEF CountedOK
  <2> QED
    BY <2>3, <2>4
<1>8. EnqueuedOK'
  <2>1. \A n \in Messages :
           /\ memory'[n] = IF n = m THEN x ELSE memory[n]
           /\ (table'[n] = table[n] \/ (table[n].present /\ table'[n] = x))
    BY <1>1, <1>4 DEF TypeOK
  <2> QED
    BY <1>1, <1>2, <1>3, <1>4, <2>1 DEF EnqueuedOK
<1>9. BoundedOK'
  <2>1. \A n \in Messages : Spent[n] \in Nat /\ Spent'[n] = Spent[n]
    BY <1>4, SpentFacts DEF operatorVars
  <2> SUFFICES ASSUME NEW n \in Messages PROVE Bounded(n)'
    BY DEF BoundedOK
  <2>2. Bounded(n)
    BY DEF BoundedOK
  <2>3. posts[n] \in Nat /\ memory[n] \in MessageState /\ table[n] \in MessageState
    BY DEF TypeOK
  <2>4. /\ memory'[n] = IF n = m THEN x ELSE memory[n]
        /\ table'[n] = IF n = m /\ ok /\ table[m].present THEN x ELSE table[n]
        /\ posts'[n] = posts[n]
    BY <1>1, <1>4 DEF TypeOK
  <2>5. CASE n = m
    <3>0. Unrequested(m) = 0 /\ Unrequested(m)' = IF ok THEN 1 ELSE 0
      BY <1>a, <2>5
    <3>1. posts[m] < Spent[m] + MaxAttempts /\ posts[m] <= Spent[m] + memory[m].count
      <4>1. memory[m].count \in Nat /\ posts[m] \in Nat /\ Spent[m] \in Nat
        BY <2>1, <2>3, <2>5 DEF MessageState
      <4> QED
        BY <1>2, <2>2, <2>5, <3>0, <4>1 DEF Bounded, Waiting
    <3>2. ~Waiting(m)'
      BY <1>4 DEF Waiting
    <3>3. /\ posts[m] \in Nat /\ Spent[m] \in Nat /\ memory[m].count \in Nat /\ table[m].count \in Nat
          /\ table[m].present => posts[m] <= Spent[m] + table[m].count
      BY <2>1, <2>2, <2>3, <2>5, <3>0 DEF MessageState, Bounded
    <3>4. CASE ok
      <4>1. /\ memory'[m].count = memory[m].count + 1 /\ Spent'[m] = Spent[m]
            /\ posts'[m] = posts[m] /\ Unrequested(m)' = 1
            /\ IF table[m].present THEN table'[m].count = memory[m].count + 1
                                   ELSE table'[m] = table[m]
        BY <1>3, <2>1, <2>4, <2>5, <3>0, <3>4
      <4> QED
        BY <2>5, <3>1, <3>2, <3>3, <4>1 DEF Bounded
    <3>5. CASE ~ok
      <4>1. /\ memory'[m].count = memory[m].count + 1 /\ Spent'[m] = Spent[m]
            /\ posts'[m] = posts[m] /\ table'[m] = table[m] /\ Unrequested(m)' = 0
        BY <1>3, <2>1, <2>4, <2>5, <3>0, <3>5
      <4> QED
        BY <2>5, <3>1, <3>2, <3>3, <4>1 DEF Bounded
    <3> QED
      BY <3>4, <3>5
  <2>6. CASE n # m
    <3>1. Unrequested(n) = 0 /\ Unrequested(n)' = 0
      BY <1>a, <2>6
    <3> QED
      BY <1>2, <1>4, <2>1, <2>2, <2>3, <2>4, <2>6, <3>1 DEF MessageState, Bounded, Waiting
  <2> QED
    BY <2>5, <2>6
<1>10. SentWasReceived' /\ NotAbandonedEarly'
  <2>1. \A n \in Messages :
           /\ memory'[n] = IF n = m THEN x ELSE memory[n]
           /\ table'[n] = IF n = m /\ ok /\ table[m].present THEN x ELSE table[n]
           /\ tries'[n] = tries[n] /\ cut'[n] = cut[n]
    BY <1>1, <1>4 DEF TypeOK
  <2>2. SentWasReceived'
    BY <1>2, <1>3, <1>4, <2>1 DEF SentWasReceived
  <2>3. NotAbandonedEarly'
    BY <1>2, <1>3, <1>4, <2>1 DEF NotAbandonedEarly
  <2> QED
    BY <2>2, <2>3
<1> QED
  BY <1>5, <1>6, <1>7, <1>8, <1>9, <1>10

\* mark_outbox_sent and mark_outbox_failed: the state x of the message in flight
\* is written, keeping its count, and the request is over.
LEMMA EndOfPost ==
    ASSUME OutboxInv, post.active, post.asked, NEW ok \in BOOLEAN, NEW done \in BOOLEAN,
           NEW x \in MessageState,
           Write(post.msg, x, ok), IF done THEN EndPost ELSE TaskDies,
           UNCHANGED <<enqueued, clock, webhookVars, operatorVars, historyVars>>,
           x.present, x.count = memory[post.msg].count,
           x.sent => post.msg \in received,
           x.dead => Tried(post.msg) >= MaxAttempts,
           x.sent \/ x.dead \/ x.count < MaxAttempts
    PROVE  OutboxInv'
<1> USE OutboxAssumption DEF OutboxInv
<1>0. PICK m : m = post.msg
  OBVIOUS
<1>1. /\ m \in Messages /\ memory[m] \in MessageState /\ memory[m].present
      /\ alive /\ m \notin {batch[i] : i \in DOMAIN batch}
  BY <1>0 DEF InFlightOK, BatchOK, TypeOK
<1>2. /\ memory' = [memory EXCEPT ![m] = x]
      /\ table' = IF ok /\ table[m].present THEN [table EXCEPT ![m] = x] ELSE table
      /\ UNCHANGED <<enqueued, clock, received, posts, requeues, restarts, tries, cut>>
      /\ done => alive' = alive /\ batch' = batch
      /\ ~done => alive' = FALSE /\ batch' = <<>>
      /\ post' = NoPost
  BY <1>0 DEF Write, EndPost, TaskDies, operatorVars, webhookVars, historyVars
<1>3. TypeOK'
  <2>1. memory' \in [Messages -> MessageState] /\ table' \in [Messages -> MessageState]
    BY <1>0, <1>1, <1>2 DEF TypeOK
  <2>2. alive' \in BOOLEAN /\ batch' \in Seq(Messages) /\ (~alive' => batch' = <<>>)
    <3>1. CASE done
      BY <1>2, <3>1 DEF TypeOK
    <3>2. CASE ~done
      BY <1>2, <3>2, EmptySeq
    <3> QED
      BY <3>1, <3>2
  <2>3. post' \in PostState
    BY <1>2, NoPostType
  <2>4. /\ enqueued' \in [Messages -> {"no", "returned", "raised"}] /\ clock' \in Nat
        /\ received' \subseteq Messages /\ posts' \in [Messages -> Nat]
        /\ requeues' \in [Messages -> Nat] /\ restarts' \in 0..MaxRestarts
        /\ tries' \in [Messages -> Nat] /\ cut' \in [Messages -> Nat]
    BY <1>2 DEF TypeOK
  <2> QED
    BY <2>1, <2>2, <2>3, <2>4, Zenon DEF TypeOK, PostState
<1>4. BatchOK'
  <2>1. \A i \in DOMAIN batch : batch[i] \in Messages /\ batch[i] # m
    BY <1>0, <1>1 DEF TypeOK
  <2>2. \A i \in DOMAIN batch : memory'[batch[i]] = memory[batch[i]]
    BY <1>0, <1>1, <1>2, <2>1 DEF TypeOK
  <2>3. CASE done
    BY <1>1, <1>2, <2>2, <2>3, NoPostType DEF BatchOK
  <2>4. CASE ~done
    BY <1>2, <2>4, NoPostType DEF BatchOK
  <2> QED
    BY <2>3, <2>4
<1>a. \A n \in Messages :
         /\ Unrequested(n) = 0 /\ Unrequested(n)' = 0
         /\ Tried(n) \in Nat /\ Tried(n)' = Tried(n) /\ Tried(n) = tries[n] + cut[n]
         /\ memory'[n] = IF n = m THEN x ELSE memory[n]
         /\ table'[n] = IF n = m /\ ok /\ table[m].present THEN x ELSE table[n]
         /\ tries'[n] = tries[n] /\ cut'[n] = cut[n]
  <2> SUFFICES ASSUME NEW n \in Messages
      PROVE  /\ Unrequested(n) = 0 /\ Unrequested(n)' = 0
             /\ Tried(n) \in Nat /\ Tried(n)' = Tried(n) /\ Tried(n) = tries[n] + cut[n]
             /\ memory'[n] = IF n = m THEN x ELSE memory[n]
             /\ table'[n] = IF n = m /\ ok /\ table[m].present THEN x ELSE table[n]
             /\ tries'[n] = tries[n] /\ cut'[n] = cut[n]
    OBVIOUS
  <2>1. Unrequested(n) = 0 /\ Unrequested(n)' = 0
    BY <1>2, NoPostType DEF Unrequested
  <2>2. tries[n] \in Nat /\ cut[n] \in Nat /\ tries'[n] = tries[n] /\ cut'[n] = cut[n]
    BY <1>2 DEF TypeOK
  <2> QED
    BY <1>0, <1>1, <1>2, <2>1, <2>2 DEF Tried, TypeOK
<1>5. InFlightOK' /\ EnqueuedOK' /\ CountedOK'
  <2>1. InFlightOK'
    BY <1>2, NoPostType DEF InFlightOK
  <2>2. EnqueuedOK'
    BY <1>0, <1>1, <1>2, <1>a DEF EnqueuedOK
  <2>3. CountedOK'
    BY <1>0, <1>1, <1>2, <1>a DEF CountedOK
  <2> QED
    BY <2>1, <2>2, <2>3
<1>6. BoundedOK'
  <2>1. \A n \in Messages : Spent[n] \in Nat /\ Spent'[n] = Spent[n]
    BY SpentFacts
  <2> SUFFICES ASSUME NEW n \in Messages PROVE Bounded(n)'
    BY DEF BoundedOK
  <2>2. Bounded(n)
    BY DEF BoundedOK
  <2>3. posts[n] \in Nat /\ memory[n] \in MessageState /\ table[n] \in MessageState
    BY DEF TypeOK
  <2>4. /\ memory'[n] = IF n = m THEN x ELSE memory[n]
        /\ table'[n] = IF n = m /\ ok /\ table[m].present THEN x ELSE table[n]
    BY <1>0, <1>1, <1>2 DEF TypeOK
  <2>5. CASE n = m
    <3>1. x.count = memory[m].count /\ (x.sent \/ x.dead \/ x.count < MaxAttempts)
      BY <1>0
    <3>2. ~(Waiting(m)' /\ memory'[m].count >= MaxAttempts)
      BY <1>0, <1>1, <2>4, <2>5, <3>1 DEF Waiting, MessageState
    <3> QED
      <4>1. /\ Unrequested(n) = 0 /\ Unrequested(n)' = 0 /\ posts'[n] = posts[n] /\ posts[n] \in Nat
            /\ Spent'[n] = Spent[n] /\ Spent[n] \in Nat /\ MaxAttempts \in Nat
        BY <1>2, <1>a, <2>1, <2>3
      <4>2. memory'[n].count = memory[n].count /\ memory[n].present
        BY <1>1, <2>4, <2>5, <3>1
      <4>3. table'[n] = table[n] \/ (table[n].present /\ table'[n].count = memory[n].count)
        BY <1>0, <2>4, <2>5, <3>1
      <4>4. table[n].count \in Nat /\ memory[n].count \in Nat
        BY <2>3 DEF MessageState
      <4> QED
        <5>1. /\ posts[n] <= Spent[n] + memory[n].count
              /\ table[n].present => posts[n] <= Spent[n] + table[n].count
              /\ posts[n] <= Spent[n] + MaxAttempts
          BY <2>2, <4>1, <4>2, <4>4 DEF Bounded
        <5>2. /\ posts'[n] + Unrequested(n)' <= Spent'[n] + memory'[n].count
              /\ table'[n].present => posts'[n] + Unrequested(n)' <= Spent'[n] + table'[n].count
              /\ posts'[n] + Unrequested(n)' <= Spent'[n] + MaxAttempts
          BY <4>1, <4>2, <4>3, <4>4, <5>1
        <5> QED
          BY <2>5, <3>2, <5>2 DEF Bounded
  <2>6. CASE n # m
    BY <1>0, <1>1, <1>2, <1>a, <2>1, <2>2, <2>3, <2>4, <2>6 DEF MessageState, Bounded, Waiting
  <2> QED
    BY <2>5, <2>6
<1>7. SentWasReceived' /\ NotAbandonedEarly'
  <2>1. SentWasReceived'
    BY <1>0, <1>1, <1>2, <1>a DEF SentWasReceived
  <2>2. NotAbandonedEarly'
    BY <1>0, <1>1, <1>2, <1>a DEF NotAbandonedEarly
  <2> QED
    BY <2>1, <2>2
<1> QED
  BY <1>3, <1>4, <1>5, <1>6, <1>7

\* A 2xx response.
LEMMA PostOkStep == ASSUME OutboxInv, NEW ok \in BOOLEAN, PostOk(ok) PROVE OutboxInv'
<1> DEFINE x == [memory[post.msg] EXCEPT !.sent = TRUE, !.next = 0, !.dead = FALSE]
<1>1. memory[post.msg] \in MessageState /\ memory[post.msg].present /\ post.msg \in received
  BY DEF OutboxInv, InFlightOK, TypeOK, PostOk
<1>2. /\ x \in MessageState /\ x.present /\ x.sent /\ ~x.dead
      /\ x.count = memory[post.msg].count
  BY <1>1 DEF MessageState
<1>3. /\ post.active /\ post.asked /\ Write(post.msg, x, ok) /\ (IF ok THEN EndPost ELSE TaskDies)
      /\ UNCHANGED <<enqueued, clock, webhookVars, operatorVars, historyVars>>
  BY DEF PostOk, OutboxInv, InFlightOK
<1> HIDE DEF x
<1> QED
  BY <1>1, <1>2, <1>3, EndOfPost

\* The request failed: retried later, or dead-lettered at the last attempt.
LEMMA PostFailsStep ==
    ASSUME OutboxInv, NEW ok \in BOOLEAN, NEW audited \in BOOLEAN, PostFails(ok, audited)
    PROVE  OutboxInv'
<1> DEFINE plan == PlanRetry(post.count)
           x == [memory[post.msg] EXCEPT !.next = plan.next, !.dead = plan.dead]
<1>1. /\ memory[post.msg] \in MessageState /\ memory[post.msg].present
      /\ memory[post.msg].sent => post.msg \in received
      /\ post.count \in Nat /\ memory[post.msg].count <= post.count
      /\ Tried(post.msg) \in Nat /\ post.count <= Tried(post.msg)
  BY TriedType DEF OutboxInv, InFlightOK, TypeOK, PostState, PostFails, SentWasReceived
<1>2. plan.next \in Nat /\ plan.dead \in BOOLEAN /\ (plan.dead <=> post.count >= MaxAttempts)
  BY <1>1, PlanRetryFacts DEF OutboxInv, TypeOK
<1> HIDE DEF plan
<1>3. /\ x \in MessageState /\ x.present /\ x.sent = memory[post.msg].sent /\ x.dead = plan.dead
      /\ x.count = memory[post.msg].count /\ x.count \in Nat
  BY <1>1, <1>2 DEF MessageState
<1>4. /\ post.active /\ post.asked /\ Write(post.msg, x, ok)
      /\ IF ok /\ audited THEN EndPost ELSE TaskDies
      /\ UNCHANGED <<enqueued, clock, webhookVars, operatorVars, historyVars>>
  BY DEF PostFails, plan
<1> HIDE DEF x
<1>6. (ok /\ audited) \in BOOLEAN
  OBVIOUS
<1>5. /\ x.sent => post.msg \in received
      /\ x.dead => Tried(post.msg) >= MaxAttempts
      /\ x.dead \/ x.count < MaxAttempts
  BY <1>1, <1>2, <1>3, OutboxAssumption
<1> QED
  BY <1>1, <1>3, <1>4, <1>5, <1>6, EndOfPost

\* An exception flush_once does not catch ends the task.
LEMMA PostUncaughtStep == ASSUME OutboxInv, PostUncaught PROVE OutboxInv'
<1> USE DEF OutboxInv, PostUncaught, TaskDies, webhookVars, operatorVars, historyVars
<1>1. TypeOK'
  BY NoPostType, EmptySeq DEF TypeOK, PostState
<1>2. BatchOK' /\ InFlightOK' /\ EnqueuedOK' /\ CountedOK' /\ SentWasReceived' /\ NotAbandonedEarly'
  BY DEF BatchOK, InFlightOK, EnqueuedOK, CountedOK, Tried, Unrequested, SentWasReceived,
         NotAbandonedEarly, NoPost
<1>3. BoundedOK'
  BY DEF BoundedOK, Bounded, Waiting, Unrequested, NoPost, Spent
<1> QED
  BY <1>1, <1>2, <1>3

\* The webhook accepts the message in flight.
LEMMA WebhookAcceptsStep == ASSUME OutboxInv, WebhookAccepts PROVE OutboxInv'
<1> USE DEF OutboxInv, WebhookAccepts, operatorVars, historyVars
<1>1. /\ post' \in PostState /\ post'.active = post.active /\ post'.msg = post.msg
      /\ post'.count = post.count /\ post'.asked = post.asked /\ post.asked
      /\ received' = received \cup {post.msg} /\ post.msg \in Messages
  BY DEF TypeOK, PostState, InFlightOK
<1>2. TypeOK'
  <2>1. posts' = posts /\ received' \subseteq Messages
    BY <1>1 DEF TypeOK
  <2> QED
    BY <1>1, <2>1 DEF TypeOK, PostState
<1>3. BatchOK' /\ EnqueuedOK' /\ CountedOK' /\ SentWasReceived' /\ NotAbandonedEarly'
  BY <1>1 DEF BatchOK, EnqueuedOK, CountedOK, Tried, Unrequested, SentWasReceived, NotAbandonedEarly
<1>4. InFlightOK'
  BY <1>1 DEF InFlightOK, Tried, Unrequested
<1>5. BoundedOK'
  BY <1>1 DEF BoundedOK, Bounded, Waiting, Unrequested, Spent
<1> QED
  BY <1>2, <1>3, <1>4, <1>5

\* The counted attempt is requested.
LEMMA RequestStep == ASSUME OutboxInv, Request PROVE OutboxInv'
<1> USE DEF OutboxInv
<1>0. PICK m \in Messages : m = post.msg
  BY DEF InFlightOK, Request
<1>1. /\ post' \in PostState /\ post'.active /\ post.active /\ post'.msg = m /\ ~post.asked
      /\ post'.count = post.count /\ post'.asked /\ post'.answered = post.answered
      /\ posts' = [posts EXCEPT ![m] = @ + 1] /\ tries' = [tries EXCEPT ![m] = @ + 1]
      /\ UNCHANGED <<memory, table, enqueued, alive, batch, clock, received, requeues, restarts, cut>>
  BY <1>0 DEF TypeOK, PostState, Request, operatorVars
<1>2. TypeOK'
  <2>1. posts' \in [Messages -> Nat] /\ tries' \in [Messages -> Nat]
    <3>1. posts \in [Messages -> Nat] /\ tries \in [Messages -> Nat]
      BY DEF TypeOK
    <3> QED
      BY <1>1, <3>1
  <2> QED
    BY <1>1, <2>1 DEF TypeOK
<1>3. \A n \in Messages :
         /\ posts'[n] + Unrequested(n)' = posts[n] + Unrequested(n)
         /\ Tried(n)' = Tried(n) /\ Tried(n) \in Nat
         /\ posts[n] \in Nat /\ posts'[n] \in Nat /\ tries[n] \in Nat /\ tries'[n] \in Nat
         /\ tries'[n] >= tries[n] /\ cut'[n] = cut[n] /\ cut[n] \in Nat
         /\ (n # m => posts'[n] = posts[n])
  <2> SUFFICES ASSUME NEW n \in Messages
      PROVE  /\ posts'[n] + Unrequested(n)' = posts[n] + Unrequested(n)
             /\ Tried(n)' = Tried(n) /\ Tried(n) \in Nat
             /\ posts[n] \in Nat /\ posts'[n] \in Nat /\ tries[n] \in Nat /\ tries'[n] \in Nat
             /\ tries'[n] >= tries[n] /\ cut'[n] = cut[n] /\ cut[n] \in Nat
             /\ (n # m => posts'[n] = posts[n])
    OBVIOUS
  <2>1. /\ posts[n] \in Nat /\ tries[n] \in Nat /\ cut[n] \in Nat /\ cut'[n] = cut[n]
        /\ posts'[n] = IF n = m THEN posts[n] + 1 ELSE posts[n]
        /\ tries'[n] = IF n = m THEN tries[n] + 1 ELSE tries[n]
    BY <1>1 DEF TypeOK
  <2>2. Unrequested(n) = (IF n = m THEN 1 ELSE 0) /\ Unrequested(n)' = 0
    BY <1>0, <1>1 DEF Unrequested
  <2>3. Tried(n) \in Nat
    BY TriedType
  <2> QED
    BY <2>1, <2>2, <2>3 DEF Tried
<1>4. BatchOK' /\ EnqueuedOK' /\ CountedOK' /\ SentWasReceived' /\ NotAbandonedEarly'
  <2>1. BatchOK' /\ SentWasReceived'
    BY <1>0, <1>1 DEF BatchOK, SentWasReceived
  <2>2. EnqueuedOK'
    BY <1>0, <1>1, <1>3 DEF EnqueuedOK, InFlightOK
  <2>3. CountedOK'
    BY <1>1, <1>3 DEF CountedOK
  <2>4. NotAbandonedEarly'
    BY <1>1, <1>3, OutboxAssumption DEF NotAbandonedEarly
  <2> QED
    BY <2>1, <2>2, <2>3, <2>4
<1>5. InFlightOK'
  <2>1. (Tried(post.msg))' = Tried(m)'
    BY <1>1 DEF Tried, Unrequested
  <2> QED
    BY <1>0, <1>1, <1>3, <2>1 DEF InFlightOK
<1>6. BoundedOK'
  <2> SUFFICES ASSUME NEW n \in Messages PROVE Bounded(n)'
    BY DEF BoundedOK
  <2>1. Bounded(n) /\ Spent'[n] = Spent[n]
    BY <1>1 DEF BoundedOK, Spent
  <2>2. Waiting(n)' => Waiting(n) /\ n # m
    BY <1>0, <1>1 DEF Waiting
  <2> QED
    BY <1>1, <1>3, <2>1, <2>2 DEF Bounded
<1> QED
  BY <1>2, <1>4, <1>5, <1>6

\* Time passes.
LEMMA TickStep == ASSUME OutboxInv, Tick PROVE OutboxInv'
<1> USE DEF OutboxInv, Tick, taskVars, webhookVars, operatorVars, historyVars
<1>1. TypeOK'
  BY DEF TypeOK
<1>2. BatchOK' /\ InFlightOK' /\ EnqueuedOK' /\ CountedOK' /\ SentWasReceived' /\ NotAbandonedEarly'
  BY DEF BatchOK, InFlightOK, EnqueuedOK, CountedOK, Tried, Unrequested, SentWasReceived,
         NotAbandonedEarly
<1>3. BoundedOK'
  BY DEF BoundedOK, Bounded, Waiting, Unrequested, Spent
<1> QED
  BY <1>1, <1>2, <1>3

\* A new process knows what the table holds; the attempt in flight is lost.
LEMMA RestartStep == ASSUME OutboxInv, Restart PROVE OutboxInv'
<1> USE OutboxAssumption DEF OutboxInv, Restart, webhookVars
<1>a. \A n \in Messages :
         /\ cut'[n] = cut[n] + Unrequested(n) /\ Unrequested(n)' = 0 /\ Unrequested(n) \in {0, 1}
         /\ Tried(n)' = Tried(n) /\ Tried(n) \in Nat
         /\ cut[n] \in Nat /\ tries[n] \in Nat /\ tries'[n] = tries[n]
  <2> SUFFICES ASSUME NEW n \in Messages
      PROVE  /\ cut'[n] = cut[n] + Unrequested(n) /\ Unrequested(n)' = 0 /\ Unrequested(n) \in {0, 1}
             /\ Tried(n)' = Tried(n) /\ Tried(n) \in Nat
             /\ cut[n] \in Nat /\ tries[n] \in Nat /\ tries'[n] = tries[n]
    OBVIOUS
  <2>1. /\ cut[n] \in Nat /\ tries[n] \in Nat /\ tries'[n] = tries[n]
        /\ Unrequested(n) \in {0, 1} /\ Tried(n) \in Nat
    BY TriedType DEF TypeOK
  <2>2. Unrequested(n)' = 0
    BY NoPostType DEF Unrequested
  <2>3. cut'[n] = cut[n] + Unrequested(n)
    <3>1. CASE post.active /\ ~post.asked
      <4>1. PICK q \in Messages : q = post.msg
        BY <3>1 DEF InFlightOK
      <4>2. cut' = [cut EXCEPT ![q] = @ + 1] /\ cut \in [Messages -> Nat]
        BY <3>1, <4>1 DEF TypeOK
      <4>3. Unrequested(n) = IF n = q THEN 1 ELSE 0
        BY <3>1, <4>1 DEF Unrequested
      <4> QED
        BY <2>1, <4>2, <4>3
    <3>2. CASE ~(post.active /\ ~post.asked)
      BY <2>1, <3>2 DEF Unrequested
    <3> QED
      BY <3>1, <3>2
  <2> QED
    BY <2>1, <2>2, <2>3 DEF Tried
<1>1. TypeOK'
  <2>1. cut' \in [Messages -> Nat]
    <3>1. cut \in [Messages -> Nat]
      BY DEF TypeOK
    <3>2. post.active => post.msg \in Messages
      BY DEF InFlightOK
    <3> QED
      BY <3>1, <3>2
  <2>2. /\ restarts' \in 0..MaxRestarts /\ post' \in PostState /\ batch' \in Seq(Messages)
    BY NoPostType, EmptySeq DEF TypeOK
  <2> QED
    BY <2>1, <2>2 DEF TypeOK, PostState
<1>2. BatchOK' /\ InFlightOK' /\ EnqueuedOK' /\ CountedOK' /\ SentWasReceived' /\ NotAbandonedEarly'
  <2>1. BatchOK' /\ InFlightOK' /\ EnqueuedOK' /\ SentWasReceived'
    BY NoPostType DEF BatchOK, InFlightOK, EnqueuedOK, SentWasReceived
  <2>2. CountedOK'
    <3>1. restarts' = restarts + 1 /\ restarts \in Nat /\ memory' = table /\ table' = table
      BY DEF TypeOK
    <3>2. \A n \in Messages : table[n].count <= Tried(n) /\ cut[n] <= restarts
      BY DEF CountedOK
    <3>3. \A n \in Messages : cut'[n] <= restarts'
      BY <1>a, <3>1, <3>2
    <3> QED
      BY <1>a, <3>1, <3>2, <3>3 DEF CountedOK
  <2>3. NotAbandonedEarly'
    BY <1>a, <2>2 DEF NotAbandonedEarly, CountedOK
  <2> QED
    BY <2>1, <2>2, <2>3
<1>3. BoundedOK'
  <2>1. \A n \in Messages : Spent[n] \in Nat /\ Spent'[n] = Spent[n] + 1
    BY SpentFacts
  <2> SUFFICES ASSUME NEW n \in Messages PROVE Bounded(n)'
    BY DEF BoundedOK
  <2>2. Bounded(n)
    BY DEF BoundedOK
  <2>3. posts[n] \in Nat /\ memory[n] \in MessageState /\ table[n] \in MessageState
    BY DEF TypeOK
  <2>4. memory'[n] = table[n] /\ table'[n] = table[n] /\ posts'[n] = posts[n]
    OBVIOUS
  <2>6. posts[n] \in Nat /\ Spent[n] \in Nat /\ table[n].count \in Nat /\ MaxAttempts \in Nat
    BY <2>1, <2>3 DEF MessageState
  <2>8. Unrequested(n) \in {0, 1} /\ Unrequested(n)' = 0
    BY <1>a
  <2>5. posts[n] <= Spent[n] + MaxAttempts /\ (table[n].present => posts[n] <= Spent[n] + table[n].count)
    BY <2>2, <2>6, <2>8 DEF Bounded
  <2>7. posts[n] < Spent[n] + 1 + MaxAttempts
    BY <2>5, <2>6
  <2> QED
    BY <2>1, <2>4, <2>5, <2>6, <2>7, <2>8 DEF Bounded
<1> QED
  BY <1>1, <1>2, <1>3

\* Every step of the outbox keeps the invariant.
LEMMA OutboxStep == ASSUME OutboxInv, [Next]_vars PROVE OutboxInv'
<1>1. CASE UNCHANGED vars
  BY <1>1 DEF vars, OutboxInv, TypeOK, BatchOK, InFlightOK, EnqueuedOK, CountedOK, BoundedOK,
              Bounded, Waiting, Spent, Tried, Unrequested, SentWasReceived, NotAbandonedEarly
<1>2. CASE Next
  BY <1>2, EnqueueStep, RequeueStep, FlushStartStep, AttemptStep, RequestStep, PostOkStep, PostFailsStep,
     PostUncaughtStep, WebhookAcceptsStep, TickStep, RestartStep DEF Next, DispatchStep
<1> QED
  BY <1>1, <1>2

\* The inductive invariant holds for every set of messages and every limit.
THEOREM OutboxInvariant == Spec => []OutboxInv
BY OutboxInit, OutboxStep, PTL DEF Spec

\* The variables of the outbox have their types, and a dead dispatcher has no
\* batch left.
THEOREM TypeCorrect == Spec => []TypeOK
<1>1. OutboxInv => TypeOK
  BY DEF OutboxInv
<1> QED
  BY <1>1, OutboxInvariant, PTL

\* "sent" is recorded only of a message the webhook accepted, and a message
\* whose enqueue_outbox returned stays in the table, whatever statements fail
\* and wherever the process dies.
THEOREM SentWasReceivedHolds == Spec => []SentWasReceived
<1>1. OutboxInv => SentWasReceived
  BY DEF OutboxInv
<1> QED
  BY <1>1, OutboxInvariant, PTL

\* plan_retry bounds the requests made: max_attempts per requeue_outbox, and one
\* more for each restart.
THEOREM AttemptsBoundedHolds == Spec => []AttemptsBounded
<1>1. ASSUME OutboxInv PROVE AttemptsBounded
  <2> SUFFICES ASSUME NEW m \in Messages
               PROVE  posts[m] <= MaxAttempts * (1 + requeues[m]) + restarts
    BY DEF AttemptsBounded
  <2>1. requeues[m] \in Nat /\ restarts \in Nat /\ MaxAttempts \in Nat /\ posts[m] \in Nat
    BY <1>1, OutboxAssumption DEF OutboxInv, TypeOK
  <2>2. posts[m] <= Spent[m] + MaxAttempts
    <3>1. posts[m] + Unrequested(m) <= Spent[m] + MaxAttempts
      BY <1>1 DEF OutboxInv, BoundedOK, Bounded
    <3>2. Unrequested(m) \in {0, 1} /\ Spent[m] \in Nat
      BY <1>1, TriedType, SpentFacts DEF OutboxInv
    <3> QED
      BY <2>1, <3>1, <3>2
  <2>3. MaxAttempts * (1 + requeues[m]) = MaxAttempts * requeues[m] + MaxAttempts
    BY <2>1
  <2> QED
    BY <2>1, <2>2, <2>3 DEF Spent
<1> QED
  BY <1>1, OutboxInvariant, PTL

\* A dead letter has been requested max_attempts times since its last clean
\* requeue_outbox, less the attempts a process death cut between
\* mark_outbox_attempt and client.post, at most one per death.
THEOREM NotAbandonedEarlyHolds == Spec => []NotAbandonedEarly
<1>1. OutboxInv => NotAbandonedEarly
  BY DEF OutboxInv
<1> QED
  BY <1>1, OutboxInvariant, PTL
=============================================================================
