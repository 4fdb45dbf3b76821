--------------------------- MODULE OrderExecution ---------------------------
(***************************************************************************)
(* Broker-facing order execution of zksato: TradingService.submit and      *)
(* cancel_order (service.py), the Settrade adapter (broker/settrade.py),   *)
(* the durable store it writes (store.py, persistence.py), broker          *)
(* reconciliation and its worker (reconcile.py) and the coordination lock  *)
(* they run under (coordination.py).  Paper mode is a module of its own.   *)
(*                                                                         *)
(* All handlers share one asyncio loop, so the code between two awaits     *)
(* that really suspend is one step.  The only suspensions on these paths   *)
(* are the SDK calls made through asyncio.to_thread: the portfolio read    *)
(* that opens a submission, place_order, cancel_order and list_orders.  A  *)
(* submission is cut into "from the portfolio's return to the hand-over of *)
(* place_order" and "from the broker's answer to the end".                 *)
(*                                                                         *)
(* A request places at most one order, so request r also names the broker  *)
(* order it may create: "broker_order_id = r" is the flag bid of a local   *)
(* record.  A local record is created by the request's own handler or is   *)
(* adopted by reconciliation; adopted records carry no client_order_id     *)
(* because _map_order has no intent to take it from.                       *)
(***************************************************************************)
EXTENDS Naturals, FiniteSets

CONSTANTS
    Requests,     \* POST /v1/orders calls and automated submissions
    Automated,    \* the requests submitted by the automation engine
    ClientIds,    \* client_order_id values
    NoId,         \* client_order_id = None
    Cid,          \* the client_order_id each request carries
    Approvals,    \* live approvals, each bound to one intent
    ApprovalOf,   \* X-Live-Approval-Id presented by each request
    CancelCalls,  \* DELETE /v1/orders/{id} calls
    Quantity,     \* order quantity, in fillable units
    MaxRestarts,  \* bound on process restarts
    Settings,     \* the configuration the guards read
    LateFailures  \* can a failure that submit takes for definite come after
                  \* the broker took the order?

ASSUME RequestsAssumption ==
    IsFiniteSet(Requests) /\ Requests # {} /\ Automated \subseteq Requests
ASSUME IdsAssumption == NoId \notin ClientIds /\ Cid \in [Requests -> ClientIds \cup {NoId}]
ASSUME ApprovalsAssumption == ApprovalOf \in [Requests -> Approvals]
ASSUME QuantityAssumption == Quantity \in Nat \ {0}
ASSUME BoundAssumption == MaxRestarts \in Nat /\ LateFailures \in BOOLEAN
ASSUME SettingsAssumption ==
    Settings \in [trading_mode: {"sandbox", "live"}, reconciliation_enabled: BOOLEAN,
                  live_trading_enabled: BOOLEAN, live_requires_confirmation: BOOLEAN,
                  max_open_orders: Nat, redis: BOOLEAN]

VARIABLES
    \* durable (SQL) state
    claims,     \* idempotency_keys
    orders,     \* the orders table, by origin and request
    approvals,  \* live_approvals
    \* process-local state
    ready,      \* _broker_reconciliation_ready
    phase,      \* the handler of each request
    cancels,    \* the handler of each cancel call
    recon,      \* the reconciliation run of each caller, with its snapshot
    lock,       \* holder of the "broker-reconciliation" lock
    worker,     \* is ReconciliationWorker._task alive?
    restarts,   \* process restarts so far
    \* the broker
    venue       \* each request's order as the broker sees it

vars == <<claims, orders, approvals, ready, phase, cancels, recon, lock, worker,
          restarts, venue>>

storeVars == <<claims, orders, approvals>>
reconVars == <<recon, lock, worker>>

-----------------------------------------------------------------------------
(* The broker's view of an order and the local record of it.               *)

Books == {"absent", "transit", "lost", "live", "cancelled", "rejected"}
VenueOrder == [book: Books, matched: 0..Quantity]
NoVenueOrder == [book |-> "absent", matched |-> 0]
EmptyBook == [r \in Requests |-> NoVenueOrder]

\* Orders that get_orders returns.
Visible(v) == v.book \in {"live", "cancelled", "rejected"}

\* An order the broker accepted (it may since have been cancelled).
Accepted(v) == v.book \in {"live", "cancelled"}

\* SettradeBroker._status: cancel and reject markers win over the matched volume.
StatusOf(v) ==
    CASE v.book = "cancelled" -> "cancelled"
      [] v.book = "rejected"  -> "rejected"
      [] v.book = "live" /\ v.matched >= Quantity -> "filled"
      [] v.book = "live" /\ v.matched \in 1..(Quantity - 1) -> "partially_filled"
      [] OTHER -> "accepted"

OpenStatuses == {"accepted", "partially_filled", "needs_reconciliation"}
TerminalStatuses == {"filled", "cancelled", "rejected"}
Statuses == {"none"} \cup OpenStatuses \cup TerminalStatuses

Origins == {"submitted", "adopted"}
LocalOrder == [bid: BOOLEAN, status: Statuses, filled: 0..Quantity]
NoOrder == [bid |-> FALSE, status |-> "none", filled |-> 0]

\* _map_order applied to the broker's order, and the record submit writes when
\* the outcome is unknown.
Mapped(v) == [bid |-> TRUE, status |-> StatusOf(v), filled |-> v.matched]
Ambiguous == [bid |-> FALSE, status |-> "needs_reconciliation", filled |-> 0]

Exists(o, r) == orders[o][r].status # "none"
OpenOrders == {i \in Origins \X Requests : orders[i[1]][i[2]].status \in OpenStatuses}

\* The callers of ReconciliationService.run.
Runners == {"worker", "operator"}
Idle == [running |-> FALSE, snapshot |-> EmptyBook]
NoCancel == [stage |-> "idle", origin |-> "submitted",
             req |-> CHOOSE r \in Requests : TRUE, filled |-> 0]

Init ==
    /\ claims = {}
    /\ orders = [o \in Origins |-> [r \in Requests |-> NoOrder]]
    /\ approvals = [a \in Approvals |-> "none"]
    /\ ready = FALSE
    /\ phase = [r \in Requests |-> "idle"]
    /\ cancels = [c \in CancelCalls |-> NoCancel]
    /\ recon = [w \in Runners |-> Idle]
    /\ lock = "free"
    /\ worker = Settings.reconciliation_enabled
    /\ restarts = 0
    /\ venue = EmptyBook

-----------------------------------------------------------------------------
(* Submission, up to the hand-over of place_order to the SDK thread.       *)

\* The check of RiskEngine.evaluate that reads the order table.  The others
\* read data this module does not hold and may reject any request.
RiskApproves == Cardinality(OpenOrders) < Settings.max_open_orders

NeedsApproval ==
    Settings.trading_mode = "live" /\ Settings.live_requires_confirmation

\* _enforce_execution_policy
PolicyAllows(r) ==
    /\ Settings.trading_mode = "live" => r \notin Automated
    /\ Settings.reconciliation_enabled => ready
    /\ Settings.trading_mode = "live" => Settings.live_trading_enabled
    /\ NeedsApproval => approvals[ApprovalOf[r]] = "granted"

\* Mutant: the approval is validated but not marked as consumed.
ConsumeApprovalReusable(r) == UNCHANGED approvals

\* ApprovalRepository.consume, the last thing the policy does.
ConsumeApproval(r) ==
    approvals' = IF NeedsApproval
                 THEN [approvals EXCEPT ![ApprovalOf[r]] = "consumed"]
                 ELSE approvals

HasId(r) == Cid[r] # NoId

\* Mutant: a duplicate is looked up in the order table only.
DuplicateRecorded(r) ==
    HasId(r) /\ \E q \in Requests : Cid[q] = Cid[r] /\ Exists("submitted", q)

\* The insert into idempotency_keys conflicts.
Duplicate(r) == HasId(r) /\ Cid[r] \in claims

\* Mutant: a missing client_order_id is claimed like any other.
ClaimUnguarded(r) == claims' = claims \cup {Cid[r]}

\* claim_client_order_id / release_client_order_id
Claim(r) == claims' = IF HasId(r) THEN claims \cup {Cid[r]} ELSE claims
Release(r) == claims' = IF HasId(r) THEN claims \ {Cid[r]} ELSE claims

Finish(r) == phase' = [phase EXCEPT ![r] = "done"]

\* RiskRejectedError or TradingModeError before anything was written.
Reject(r) ==
    /\ phase[r] = "idle"
    /\ Finish(r)
    /\ UNCHANGED <<storeVars, ready, cancels, reconVars, restarts, venue>>

\* Risk and policy pass (the approval is consumed), but the id is taken: the
\* existing order is returned, or "duplicate client_order_id" raised.
RepeatRequest(r) ==
    /\ phase[r] = "idle"
    /\ RiskApproves /\ PolicyAllows(r)
    /\ Duplicate(r)
    /\ ConsumeApproval(r)
    /\ Finish(r)
    /\ UNCHANGED <<claims, orders, ready, cancels, reconVars, restarts, venue>>

\* The quote went stale, or the price deviates, at the re-check after the claim:
\* the claim is released again; the approval stays consumed.
RecheckFails(r) ==
    /\ phase[r] = "idle"
    /\ RiskApproves /\ PolicyAllows(r)
    /\ ~Duplicate(r)
    /\ ConsumeApproval(r)
    /\ Release(r)
    /\ Finish(r)
    /\ UNCHANGED <<orders, ready, cancels, reconVars, restarts, venue>>

Transmit(r) ==
    /\ phase[r] = "idle"
    /\ RiskApproves /\ PolicyAllows(r)
    /\ ~Duplicate(r)
    /\ ConsumeApproval(r)
    /\ Claim(r)
    /\ phase' = [phase EXCEPT ![r] = "waiting"]
    /\ venue' = [venue EXCEPT ![r].book = "transit"]
    /\ UNCHANGED <<orders, ready, cancels, reconVars, restarts>>

-----------------------------------------------------------------------------
(* Submission, from the broker's answer.                                   *)

\* The SDK answers with the order as it was when it was entered: nothing
\* matched yet, or refused by the exchange.
Entered(v) == [book |-> IF v.book = "rejected" THEN "rejected" ELSE "live", matched |-> 0]
Answer(r) == Mapped(Entered(venue[r]))

AnswerOk(r) ==
    /\ phase[r] = "waiting"
    /\ Visible(venue[r])
    /\ orders' = [orders EXCEPT !["submitted"][r] = Answer(r)]
    /\ Finish(r)
    /\ UNCHANGED <<claims, approvals, ready, cancels, reconVars, restarts, venue>>

\* BrokerAmbiguousError: the claim is kept, the gate closed.
AnswerAmbiguous(r) ==
    /\ phase[r] = "waiting"
    /\ orders' = [orders EXCEPT !["submitted"][r] = Ambiguous]
    /\ ready' = FALSE
    /\ Finish(r)
    /\ UNCHANGED <<claims, approvals, cancels, reconVars, restarts, venue>>

\* RuntimeError, ValueError or OSError: the claim is released.  The order never
\* reached the broker, or (a late failure) it did: _map_order raises ValueError on
\* an answer it cannot read, and an OSError of the transport that is neither a
\* TimeoutError nor a ConnectionError is not made a BrokerAmbiguousError.
AnswerFailed(r) ==
    /\ phase[r] = "waiting"
    /\ \/ /\ venue[r].book = "transit"
          /\ venue' = [venue EXCEPT ![r].book = "lost"]
       \/ LateFailures /\ UNCHANGED venue
    /\ Release(r)
    /\ Finish(r)
    /\ UNCHANGED <<orders, approvals, ready, cancels, reconVars, restarts>>

\* Any other exception, such as an SDK error, leaves submit uncaught.
AnswerUncaught(r) ==
    /\ phase[r] = "waiting"
    /\ Finish(r)
    /\ UNCHANGED <<storeVars, ready, cancels, reconVars, restarts, venue>>

-----------------------------------------------------------------------------
(* Live approvals.                                                         *)

GrantApproval(a) ==
    /\ Settings.trading_mode = "live"
    /\ approvals[a] = "none"
    /\ approvals' = [approvals EXCEPT ![a] = "granted"]
    /\ UNCHANGED <<claims, orders, ready, phase, cancels, reconVars, restarts, venue>>

ExpireApproval(a) ==
    /\ approvals[a] = "granted"
    /\ approvals' = [approvals EXCEPT ![a] = "expired"]
    /\ UNCHANGED <<claims, orders, ready, phase, cancels, reconVars, restarts, venue>>

-----------------------------------------------------------------------------
(* Cancellation.  The handler keeps the record it looked up before the     *)
(* broker call; reconciliation may replace it in the store meanwhile.      *)

CancelStart(c, o, r) ==
    /\ cancels[c].stage = "idle"
    /\ orders[o][r].bid
    /\ cancels' = [cancels EXCEPT ![c] = [stage |-> "waiting", origin |-> o, req |-> r,
                                          filled |-> orders[o][r].filled]]
    /\ UNCHANGED <<storeVars, ready, phase, reconVars, restarts, venue>>

FinishCancel(c) == cancels' = [cancels EXCEPT ![c].stage = "done"]

WriteTarget(c, status, filled) ==
    orders' = [orders EXCEPT ![cancels[c].origin][cancels[c].req] =
                   [bid |-> TRUE, status |-> status, filled |-> filled]]

\* The broker confirmed.  Its payload may leave the matched volume out.
CancelOk(c) ==
    /\ cancels[c].stage = "waiting"
    /\ venue[cancels[c].req].book = "cancelled"
    /\ \E matched \in {0, venue[cancels[c].req].matched} :
           WriteTarget(c, "cancelled", matched)
    /\ FinishCancel(c)
    /\ UNCHANGED <<claims, approvals, ready, phase, reconVars, restarts, venue>>

\* Mutants: an ambiguous cancellation leaves the gate open, or is taken for a
\* confirmed one.
CancelAmbiguousOpen(c) ==
    /\ cancels[c].stage = "waiting"
    /\ WriteTarget(c, "needs_reconciliation", cancels[c].filled)
    /\ FinishCancel(c)
    /\ UNCHANGED <<claims, approvals, ready, phase, reconVars, restarts, venue>>

CancelAmbiguousOptimistic(c) ==
    /\ cancels[c].stage = "waiting"
    /\ WriteTarget(c, "cancelled", cancels[c].filled)
    /\ ready' = FALSE
    /\ FinishCancel(c)
    /\ UNCHANGED <<claims, approvals, phase, reconVars, restarts, venue>>

CancelAmbiguous(c) ==
    /\ cancels[c].stage = "waiting"
    /\ WriteTarget(c, "needs_reconciliation", cancels[c].filled)
    /\ ready' = FALSE
    /\ FinishCancel(c)
    /\ UNCHANGED <<claims, approvals, phase, reconVars, restarts, venue>>

\* Any other exception of the broker call leaves the state alone.
CancelFailed(c) ==
    /\ cancels[c].stage = "waiting"
    /\ FinishCancel(c)
    /\ UNCHANGED <<storeVars, ready, phase, reconVars, restarts, venue>>

-----------------------------------------------------------------------------
(* Reconciliation.  list_orders is the only await of a run; what follows   *)
(* it is one step.                                                         *)

\* A run that finds the lock busy returns an empty report and changes nothing.
ReconStart(w) ==
    /\ w = "worker" => worker
    /\ ~recon[w].running
    /\ lock = "free"
    /\ lock' = w
    /\ recon' = [recon EXCEPT ![w] = [running |-> TRUE, snapshot |-> venue]]
    /\ UNCHANGED <<storeVars, ready, phase, cancels, worker, restarts, venue>>

\* Mutant: the lock is left to its TTL.
ReleaseLockNever(w) == UNCHANGED lock

\* The owner's token is compared before the lock is deleted.
ReleaseLock(w) == lock' = IF lock = w THEN "free" ELSE lock

EndRun(w) ==
    /\ recon[w].running
    /\ recon' = [recon EXCEPT ![w] = Idle]
    /\ ReleaseLock(w)

\* _match: find_order_by_broker_order_id returns the oldest record.  Adoption
\* only happens while no record carries the id, so the adopted one is older.
Match(r) ==
    IF orders["submitted"][r].bid /\ ~Exists("adopted", r) THEN "submitted" ELSE "adopted"

\* Mutants: unknown remote orders are skipped instead of inserted, or records in
\* a terminal status are not refreshed.
ReconciledWithoutInsert(s) ==
    [o \in Origins |-> [r \in Requests |->
        IF Visible(s[r]) /\ orders[o][r].bid THEN Mapped(s[r]) ELSE orders[o][r]]]

ReconciledOpenOnly(s) ==
    [o \in Origins |-> [r \in Requests |->
        IF Visible(s[r]) /\ o = Match(r) /\ orders[o][r].status \notin TerminalStatuses
        THEN Mapped(s[r]) ELSE orders[o][r]]]

\* The order table after the loop over the remote orders (merge or insert) and
\* the loop that marks open local orders missing from the snapshot.
Reconciled(s) ==
    [o \in Origins |-> [r \in Requests |->
        IF Visible(s[r])
        THEN IF o = Match(r) THEN Mapped(s[r]) ELSE orders[o][r]
        ELSE IF orders[o][r].bid /\ orders[o][r].status \in OpenStatuses
             THEN [orders[o][r] EXCEPT !.status = "needs_reconciliation"]
             ELSE orders[o][r]]]

Unresolved(table) ==
    {i \in Origins \X Requests : table[i[1]][i[2]].status = "needs_reconciliation"}

ReconApply(w) ==
    /\ EndRun(w)
    /\ orders' = Reconciled(recon[w].snapshot)
    /\ ready' = (Unresolved(orders') = {})
    /\ UNCHANGED <<claims, approvals, phase, cancels, worker, restarts, venue>>

\* RuntimeError, OSError or ValueError from the broker.
ReconFail(w) ==
    /\ EndRun(w)
    /\ ready' = FALSE
    /\ UNCHANGED <<storeVars, phase, cancels, worker, restarts, venue>>

\* Any other exception ends the worker's task; the gate keeps its value.
ReconUncaught(w) ==
    /\ EndRun(w)
    /\ worker' = (worker /\ w # "worker")
    /\ UNCHANGED <<storeVars, ready, phase, cancels, restarts, venue>>

\* The Redis key has a TTL and is never renewed.
LockExpire ==
    /\ Settings.redis
    /\ lock # "free"
    /\ lock' = "free"
    /\ UNCHANGED <<storeVars, ready, phase, cancels, recon, worker, restarts, venue>>

-----------------------------------------------------------------------------
(* The process stops (or dies) and starts again: handlers and snapshots    *)
(* are gone, what was handed to the broker is not.                         *)

Restart ==
    /\ restarts < MaxRestarts
    /\ restarts' = restarts + 1
    /\ ready' = FALSE
    /\ phase' = [r \in Requests |-> IF phase[r] = "waiting" THEN "done" ELSE phase[r]]
    /\ cancels' = [c \in CancelCalls |->
                      IF cancels[c].stage = "waiting"
                      THEN [cancels[c] EXCEPT !.stage = "done"] ELSE cancels[c]]
    /\ recon' = [w \in Runners |-> Idle]
    /\ lock' = IF Settings.redis /\ lock # "free" THEN "orphaned" ELSE "free"
    /\ worker' = Settings.reconciliation_enabled
    /\ UNCHANGED <<storeVars, venue>>

-----------------------------------------------------------------------------
(* The broker.                                                             *)

VenueReceive(r) ==
    /\ venue[r].book = "transit"
    /\ \E b \in {"live", "rejected", "lost"} : venue' = [venue EXCEPT ![r].book = b]
    /\ UNCHANGED <<storeVars, ready, phase, cancels, reconVars, restarts>>

VenueMatch(r) ==
    /\ venue[r].book = "live" /\ venue[r].matched < Quantity
    /\ venue' = [venue EXCEPT ![r].matched = @ + 1]
    /\ UNCHANGED <<storeVars, ready, phase, cancels, reconVars, restarts>>

\* On a cancel request, or at the end of the day.
VenueCancel(r) ==
    /\ venue[r].book = "live" /\ venue[r].matched < Quantity
    /\ venue' = [venue EXCEPT ![r].book = "cancelled"]
    /\ UNCHANGED <<storeVars, ready, phase, cancels, reconVars, restarts>>

-----------------------------------------------------------------------------

SubmitStep(r) ==
    Reject(r) \/ RepeatRequest(r) \/ RecheckFails(r) \/ Transmit(r)

AnswerStep(r) ==
    AnswerOk(r) \/ AnswerAmbiguous(r) \/ AnswerFailed(r) \/ AnswerUncaught(r)

ApprovalStep(a) == GrantApproval(a) \/ ExpireApproval(a)

CancelStep(c) ==
    \/ \E o \in Origins, r \in Requests : CancelStart(c, o, r)
    \/ CancelOk(c) \/ CancelAmbiguous(c) \/ CancelFailed(c)

ReconStep(w) == ReconStart(w) \/ ReconApply(w) \/ ReconFail(w) \/ ReconUncaught(w)

VenueStep(r) == VenueReceive(r) \/ VenueMatch(r) \/ VenueCancel(r)

Next ==
    \/ \E r \in Requests : SubmitStep(r) \/ AnswerStep(r) \/ VenueStep(r)
    \/ \E a \in Approvals : ApprovalStep(a)
    \/ \E c \in CancelCalls : CancelStep(c)
    \/ \E w \in Runners : ReconStep(w)
    \/ LockExpire
    \/ Restart

Spec == Init /\ [][Next]_vars

\* The worker polls for ever and the broker answers it again and again; an
\* operator's run ends; the Redis key of a dead process expires.
Fairness ==
    /\ SF_vars(ReconStart("worker"))
    /\ SF_vars(ReconApply("worker"))
    /\ WF_vars(ReconApply("operator") \/ ReconFail("operator"))
    /\ WF_vars(lock = "orphaned" /\ LockExpire)

FairSpec == Spec /\ Fairness

-----------------------------------------------------------------------------
(* Properties.                                                             *)

TypeOK ==
    /\ claims \subseteq ClientIds
    /\ orders \in [Origins -> [Requests -> LocalOrder]]
    /\ approvals \in [Approvals -> {"none", "granted", "consumed", "expired"}]
    /\ ready \in BOOLEAN
    /\ phase \in [Requests -> {"idle", "waiting", "done"}]
    /\ cancels \in [CancelCalls -> [stage: {"idle", "waiting", "done"}, origin: Origins,
                                    req: Requests, filled: 0..Quantity]]
    /\ recon \in [Runners -> [running: BOOLEAN, snapshot: [Requests -> VenueOrder]]]
    /\ lock \in Runners \cup {"free", "orphaned"}
    /\ worker \in BOOLEAN
    /\ restarts \in 0..MaxRestarts
    /\ venue \in [Requests -> VenueOrder]

\* Two requests with the same client_order_id are never both accepted by the
\* broker, whatever timeouts, retries and restarts happen in between (submit's
\* claim is durable and kept on every outcome that may have reached the broker).
AtMostOncePlacement ==
    \A r1, r2 \in Requests :
        /\ r1 # r2 /\ HasId(r1) /\ Cid[r1] = Cid[r2]
        => ~(Accepted(venue[r1]) /\ Accepted(venue[r2]))

\* While the gate _enforce_execution_policy reads is open, no local order is
\* unresolved: every handler that makes one unresolved closes the gate in the
\* same step, and a run opens it only after looking at the whole table.
GateSound == ready => Unresolved(orders) = {}

\* The local table never runs ahead of the broker: a record with a broker order
\* id is of an order the broker has, its terminal status is the broker's final
\* one and it reports no more filled than was matched, although answers,
\* cancellations and snapshots are applied late and over one another.
Truthful(x, v) ==
    /\ x.bid => Visible(v)
    /\ x.status \in TerminalStatuses => x.status = StatusOf(v)
    /\ x.filled <= v.matched
LocalTruth == \A o \in Origins, r \in Requests : Truthful(orders[o][r], venue[r])

\* A live approval authorises one transmission: two requests that present the
\* same approval are never both handed to the broker (consume is one-time).
OneApprovalPerPlacement ==
    NeedsApproval =>
        \A r1, r2 \in Requests :
            /\ r1 # r2 /\ ApprovalOf[r1] = ApprovalOf[r2]
            => venue[r1] = NoVenueOrder \/ venue[r2] = NoVenueOrder

\* The gate opens only on a snapshot this process took itself, and then every
\* order in that snapshot has a local record that find_order_by_broker_order_id
\* finds.
GateOpensOnEvidence ==
    [][~ready /\ ready' =>
          \E w \in Runners :
              /\ recon[w].running
              /\ \A r \in Requests : Visible(recon[w].snapshot[r]) =>
                     \E o \in Origins : orders'[o][r].bid]_vars

\* The record reconciliation matches to a broker order comes to agree with the
\* broker for good, if the worker stays alive (fairness: it polls for ever and
\* is answered again and again).
Agrees(r) == Visible(venue[r]) => orders[Match(r)][r] = Mapped(venue[r])
Converges == <>[]worker => <>[](\A r \in Requests : Agrees(r))

\* An unresolved record reconciliation can no longer reach: it has no broker
\* order id, or an adopted record of the same broker order is found first.
Stuck(r) ==
    orders["submitted"][r].status = "needs_reconciliation" /\ Match(r) = "adopted"

\* Short of such a record and with the worker alive, the gate opens again and
\* again: reconciliation clears every other unresolved order.
GateReopens ==
    <>[](worker /\ \A r \in Requests : ~Stuck(r)) => []<>ready

\* Reconciliation resolves unknown outcomes (docs/ORDER-LIFECYCLE.md), and with
\* the worker alive it comes to "zero unresolved orders" (docs/DR-RUNBOOK.md).
UnknownIsResolved == <>[]worker => []<>(Unresolved(orders) = {})
=============================================================================
