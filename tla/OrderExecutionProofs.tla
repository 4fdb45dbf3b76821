------------------------ MODULE OrderExecutionProofs ------------------------
(***************************************************************************)
(* Proofs about OrderExecution, for every set of requests, client ids,     *)
(* approvals and cancel calls, every quantity, configuration and number of *)
(* restarts.                                                               *)
(***************************************************************************)
EXTENDS OrderExecution, TLAPS

-----------------------------------------------------------------------------
(* What the operators of the model return.                                 *)

\* SettradeBroker._status returns a status of an order table row.
LEMMA StatusOfType ==
    ASSUME NEW v \in VenueOrder
    PROVE  /\ StatusOf(v) \in Statuses \ {"none", "needs_reconciliation"}
           /\ Mapped(v) \in LocalOrder
  BY DEF VenueOrder, StatusOf, Mapped, LocalOrder, Statuses, OpenStatuses,
         TerminalStatuses, Books

\* The record submit writes from the broker's answer is "accepted" with nothing
\* filled, or "rejected".
LEMMA AnswerType ==
    ASSUME TypeOK, NEW r \in Requests
    PROVE  /\ Answer(r) \in LocalOrder
           /\ Answer(r).bid /\ Answer(r).filled = 0
           /\ Answer(r).status = IF venue[r].book = "rejected" THEN "rejected" ELSE "accepted"
<1>1. Entered(venue[r]) \in VenueOrder
  BY QuantityAssumption DEF Entered, VenueOrder, Books
<1>2. Mapped(Entered(venue[r])) \in LocalOrder
  BY <1>1, StatusOfType
<1> QED
  BY <1>2, QuantityAssumption DEF Answer, Entered, Mapped, StatusOf

\* Reconciliation keeps the shape of the order table.
LEMMA ReconciledType ==
    ASSUME TypeOK, NEW s \in [Requests -> VenueOrder]
    PROVE  Reconciled(s) \in [Origins -> [Requests -> LocalOrder]]
<1>1. ASSUME NEW o \in Origins, NEW r \in Requests
      PROVE  [orders[o][r] EXCEPT !.status = "needs_reconciliation"] \in LocalOrder
  <2>1. orders[o][r] \in LocalOrder
    BY DEF TypeOK
  <2> QED
    BY <2>1 DEF LocalOrder, Statuses, OpenStatuses
<1>2. ASSUME NEW r \in Requests PROVE Mapped(s[r]) \in LocalOrder
  BY <1>2, StatusOfType
<1> QED
  BY <1>1, <1>2 DEF Reconciled, TypeOK

-----------------------------------------------------------------------------
(* Type correctness.                                                       *)

\* The empty tables, idle handlers and empty book the process starts with are
\* well typed.
LEMMA InitType == Init => TypeOK
<1> SUFFICES ASSUME Init PROVE TypeOK
  OBVIOUS
<1>1. NoCancel \in [stage: {"idle", "waiting", "done"}, origin: Origins,
                    req: Requests, filled: 0..Quantity]
  BY RequestsAssumption, QuantityAssumption DEF NoCancel, Origins
<1>2. NoVenueOrder \in VenueOrder
  BY QuantityAssumption DEF NoVenueOrder, VenueOrder, Books
<1>3. NoOrder \in LocalOrder
  BY QuantityAssumption DEF NoOrder, LocalOrder, Statuses
<1>4. EmptyBook \in [Requests -> VenueOrder]
  BY <1>2 DEF EmptyBook
<1>5. Idle \in [running: BOOLEAN, snapshot: [Requests -> VenueOrder]]
  BY <1>4 DEF Idle
<1>6. worker \in BOOLEAN /\ restarts \in 0..MaxRestarts
  BY SettingsAssumption, BoundAssumption DEF Init
<1>7. orders \in [Origins -> [Requests -> LocalOrder]]
  BY <1>3 DEF Init
<1> QED
  BY <1>1, <1>4, <1>5, <1>6, <1>7 DEF Init, TypeOK

\* Every step of Next is a step of one of the actions.
LEMMA NextCases ==
    ASSUME Next
    PROVE  \/ \E r \in Requests :
                 \/ Reject(r) \/ RepeatRequest(r) \/ RecheckFails(r) \/ Transmit(r)
                 \/ AnswerOk(r) \/ AnswerAmbiguous(r) \/ AnswerFailed(r) \/ AnswerUncaught(r)
                 \/ VenueReceive(r) \/ VenueMatch(r) \/ VenueCancel(r)
           \/ \E a \in Approvals : GrantApproval(a) \/ ExpireApproval(a)
           \/ \E c \in CancelCalls :
                 \/ \E o \in Origins, r \in Requests : CancelStart(c, o, r)
                 \/ CancelOk(c) \/ CancelAmbiguous(c) \/ CancelFailed(c)
           \/ \E w \in Runners :
                 ReconStart(w) \/ ReconApply(w) \/ ReconFail(w) \/ ReconUncaught(w)
           \/ LockExpire
           \/ Restart
  BY Zenon DEF Next, SubmitStep, AnswerStep, VenueStep, ApprovalStep, CancelStep, ReconStep

\* Every handler, run and broker step writes values of the declared types.
LEMMA TypeStep == TypeOK /\ [Next]_vars => TypeOK'
<1> SUFFICES ASSUME TypeOK, [Next]_vars PROVE TypeOK'
  OBVIOUS
<1> USE DEF TypeOK, storeVars, reconVars
<1>1. ASSUME NEW r \in Requests, Reject(r) \/ AnswerUncaught(r) PROVE TypeOK'
  BY <1>1 DEF Reject, AnswerUncaught, Finish
<1>2. ASSUME NEW r \in Requests PROVE ConsumeApproval(r) =>
          approvals' \in [Approvals -> {"none", "granted", "consumed", "expired"}]
  BY ApprovalsAssumption DEF ConsumeApproval
<1>3. ASSUME NEW r \in Requests PROVE Claim(r) \/ Release(r) => claims' \subseteq ClientIds
  BY IdsAssumption DEF Claim, Release, HasId
<1>4. ASSUME NEW r \in Requests, RepeatRequest(r) PROVE TypeOK'
  BY <1>2, <1>4 DEF RepeatRequest, Finish
<1>5. ASSUME NEW r \in Requests, RecheckFails(r) PROVE TypeOK'
  BY <1>2, <1>3, <1>5 DEF RecheckFails, Finish
<1>6. ASSUME NEW r \in Requests, NEW b \in Books, venue' = [venue EXCEPT ![r].book = b]
      PROVE  venue' \in [Requests -> VenueOrder]
  BY <1>6 DEF VenueOrder
<1>7. ASSUME NEW r \in Requests, Transmit(r) PROVE TypeOK'
  <2>1. venue' \in [Requests -> VenueOrder]
    BY <1>6, <1>7 DEF Transmit, Books
  <2> QED
    BY <1>2, <1>3, <1>7, <2>1 DEF Transmit
<1>8. ASSUME NEW o \in Origins, NEW r \in Requests, NEW x \in LocalOrder,
             orders' = [orders EXCEPT ![o][r] = x]
      PROVE  orders' \in [Origins -> [Requests -> LocalOrder]]
  BY <1>8
<1>9. ASSUME NEW r \in Requests, AnswerOk(r) PROVE TypeOK'
  <2>1. orders' \in [Origins -> [Requests -> LocalOrder]]
    BY <1>8, <1>9, AnswerType DEF AnswerOk, Origins
  <2> QED
    BY <1>9, <2>1 DEF AnswerOk, Finish
<1>10. ASSUME NEW r \in Requests, AnswerAmbiguous(r) PROVE TypeOK'
  <2>1. Ambiguous \in LocalOrder
    BY QuantityAssumption DEF Ambiguous, LocalOrder, Statuses, OpenStatuses
  <2>2. orders' \in [Origins -> [Requests -> LocalOrder]]
    BY <1>8, <1>10, <2>1 DEF AnswerAmbiguous, Origins
  <2> QED
    BY <1>10, <2>2 DEF AnswerAmbiguous, Finish
<1>11. ASSUME NEW r \in Requests, AnswerFailed(r) PROVE TypeOK'
  <2>1. venue' \in [Requests -> VenueOrder]
    BY <1>6, <1>11 DEF AnswerFailed, Books
  <2> QED
    BY <1>3, <1>11, <2>1 DEF AnswerFailed, Finish
<1>12. ASSUME NEW r \in Requests, VenueReceive(r) \/ VenueCancel(r) PROVE TypeOK'
  <2>1. venue' \in [Requests -> VenueOrder]
    BY <1>6, <1>12 DEF VenueReceive, VenueCancel, Books
  <2> QED
    BY <1>12, <2>1 DEF VenueReceive, VenueCancel
<1>13. ASSUME NEW r \in Requests, VenueMatch(r) PROVE TypeOK'
  <2>1. venue' \in [Requests -> VenueOrder]
    <3>1. venue[r].matched + 1 \in 0..Quantity
      BY <1>13, QuantityAssumption DEF VenueMatch, VenueOrder
    <3>2. venue' = [venue EXCEPT ![r].matched = venue[r].matched + 1]
      BY <1>13 DEF VenueMatch
    <3> QED
      BY <3>1, <3>2 DEF VenueOrder
  <2> QED
    BY <1>13, <2>1 DEF VenueMatch
<1>14. ASSUME NEW a \in Approvals, GrantApproval(a) \/ ExpireApproval(a) PROVE TypeOK'
  BY <1>14 DEF GrantApproval, ExpireApproval
<1>15. ASSUME NEW c \in CancelCalls, NEW o \in Origins, NEW r \in Requests, CancelStart(c, o, r)
       PROVE  TypeOK'
  BY <1>15 DEF CancelStart, LocalOrder
<1>16. ASSUME NEW c \in CancelCalls, FinishCancel(c)
       PROVE  cancels' \in [CancelCalls -> [stage: {"idle", "waiting", "done"}, origin: Origins,
                                             req: Requests, filled: 0..Quantity]]
  BY <1>16 DEF FinishCancel
<1>17. ASSUME NEW c \in CancelCalls, NEW t \in Statuses, NEW n \in 0..Quantity,
              WriteTarget(c, t, n)
       PROVE  orders' \in [Origins -> [Requests -> LocalOrder]]
  <2>1. [bid |-> TRUE, status |-> t, filled |-> n] \in LocalOrder
    BY DEF LocalOrder
  <2>2. cancels[c].origin \in Origins /\ cancels[c].req \in Requests
    OBVIOUS
  <2> QED
    BY <1>8, <1>17, <2>1, <2>2 DEF WriteTarget
<1>18. ASSUME NEW c \in CancelCalls, CancelOk(c) PROVE TypeOK'
  <2>1. PICK n \in {0, venue[cancels[c].req].matched} : WriteTarget(c, "cancelled", n)
    BY <1>18 DEF CancelOk
  <2>2. n \in 0..Quantity
    BY QuantityAssumption DEF VenueOrder
  <2>3. orders' \in [Origins -> [Requests -> LocalOrder]]
    BY <1>17, <2>1, <2>2 DEF Statuses, TerminalStatuses
  <2> QED
    BY <1>16, <1>18, <2>3 DEF CancelOk
<1>19. ASSUME NEW c \in CancelCalls, CancelAmbiguous(c) PROVE TypeOK'
  <2>1. orders' \in [Origins -> [Requests -> LocalOrder]]
    BY <1>17, <1>19 DEF CancelAmbiguous, Statuses, OpenStatuses
  <2> QED
    BY <1>16, <1>19, <2>1 DEF CancelAmbiguous
<1>20. ASSUME NEW c \in CancelCalls, CancelFailed(c) PROVE TypeOK'
  BY <1>16, <1>20 DEF CancelFailed
<1>21. Idle \in [running: BOOLEAN, snapshot: [Requests -> VenueOrder]]
  BY QuantityAssumption DEF Idle, EmptyBook, NoVenueOrder, VenueOrder, Books
<1>22. ASSUME NEW w \in Runners, ReconStart(w) PROVE TypeOK'
  BY <1>22 DEF ReconStart
<1>23. ASSUME NEW w \in Runners, EndRun(w)
       PROVE  /\ recon' \in [Runners -> [running: BOOLEAN, snapshot: [Requests -> VenueOrder]]]
              /\ lock' \in Runners \cup {"free", "orphaned"}
  BY <1>21, <1>23 DEF EndRun, ReleaseLock
<1>24. ASSUME NEW w \in Runners, ReconApply(w) PROVE TypeOK'
  <2>1. orders' \in [Origins -> [Requests -> LocalOrder]]
    BY <1>24, ReconciledType DEF ReconApply
  <2> QED
    BY <1>23, <1>24, <2>1 DEF ReconApply
<1>25. ASSUME NEW w \in Runners, ReconFail(w) \/ ReconUncaught(w) PROVE TypeOK'
  BY <1>23, <1>25 DEF ReconFail, ReconUncaught
<1>26. ASSUME LockExpire PROVE TypeOK'
  BY <1>26 DEF LockExpire
<1>27. ASSUME Restart PROVE TypeOK'
  <2>1. phase' \in [Requests -> {"idle", "waiting", "done"}]
    BY <1>27 DEF Restart
  <2>2. cancels' \in [CancelCalls -> [stage: {"idle", "waiting", "done"}, origin: Origins,
                                      req: Requests, filled: 0..Quantity]]
    BY <1>27, SMTT(20) DEF Restart
  <2>3. recon' \in [Runners -> [running: BOOLEAN, snapshot: [Requests -> VenueOrder]]]
    BY <1>21, <1>27 DEF Restart
  <2>4. worker' \in BOOLEAN /\ restarts' \in 0..MaxRestarts
    BY <1>27, SettingsAssumption, BoundAssumption DEF Restart
  <2>5. lock' \in Runners \cup {"free", "orphaned"}
    BY <1>27 DEF Restart
  <2> QED
    BY <1>27, <2>1, <2>2, <2>3, <2>4, <2>5 DEF Restart
<1>28. ASSUME UNCHANGED vars PROVE TypeOK'
  BY <1>28 DEF vars
<1> QED
  BY <1>1, <1>4, <1>5, <1>7, <1>9, <1>10, <1>11, <1>12, <1>13, <1>14, <1>15, <1>18, <1>19,
     <1>20, <1>22, <1>24, <1>25, <1>26, <1>27, <1>28, NextCases

-----------------------------------------------------------------------------
(* The inductive invariant.                                                *)

\* A request nobody has handled yet has no order at the broker.
Untouched == \A r \in Requests : phase[r] = "idle" => venue[r] = NoVenueOrder

\* u may be a later state of the broker order v: once visible, always visible; a
\* final status is kept; the matched volume only grows.
Later(v, u) ==
    /\ Visible(v) => Visible(u)
    /\ StatusOf(v) \in TerminalStatuses => StatusOf(u) = StatusOf(v)
    /\ v.matched <= u.matched

\* Every snapshot a run holds is an earlier state of the broker.
SnapshotsOld == \A w \in Runners, r \in Requests : Later(recon[w].snapshot[r], venue[r])

\* A cancel call that waits is for an order the broker has, and the record it
\* looked up reported no more filled than is matched.
CancelsOld ==
    \A c \in CancelCalls : cancels[c].stage = "waiting" =>
        /\ Visible(venue[cancels[c].req])
        /\ cancels[c].filled <= venue[cancels[c].req].matched

\* An order that may be at the broker.
MayExist(r) == venue[r].book \notin {"absent", "lost"}

\* Its client_order_id is claimed, and no other request's order shares it.
Claimed == \A r \in Requests : HasId(r) /\ MayExist(r) => Cid[r] \in claims
OnePerId ==
    \A r1, r2 \in Requests :
        r1 # r2 /\ HasId(r1) /\ Cid[r1] = Cid[r2] => ~(MayExist(r1) /\ MayExist(r2))

\* The approval of an order that was handed over is consumed.
Consumed ==
    NeedsApproval =>
        \A r \in Requests : venue[r] # NoVenueOrder => approvals[ApprovalOf[r]] = "consumed"

\* Later is reflexive.
LEMMA LaterReflexive == ASSUME NEW v \in VenueOrder PROVE Later(v, v)
  BY QuantityAssumption DEF Later, VenueOrder

\* Two later looks at one broker order compose.
LEMMA LaterTransitive ==
    ASSUME NEW v \in VenueOrder, NEW u \in VenueOrder, NEW t \in VenueOrder,
           Later(v, u), Later(u, t)
    PROVE  Later(v, t)
<1>1. v.matched \in Nat /\ u.matched \in Nat /\ t.matched \in Nat
  BY QuantityAssumption DEF VenueOrder
<1> QED
  BY <1>1 DEF Later

\* A record that is true of a broker order stays true as the order moves on.
LEMMA TruthfulLater ==
    ASSUME NEW x \in LocalOrder, NEW v \in VenueOrder, NEW u \in VenueOrder,
           Truthful(x, v), Later(v, u)
    PROVE  Truthful(x, u)
<1>1. x.filled \in Nat /\ v.matched \in Nat /\ u.matched \in Nat
  BY QuantityAssumption DEF LocalOrder, VenueOrder
<1> QED
  BY <1>1 DEF Later, Truthful

\* No step takes a broker order back.
LEMMA VenueAdvances ==
    ASSUME TypeOK, Untouched, [Next]_vars
    PROVE  \A q \in Requests : Later(venue[q], venue'[q])
<1> SUFFICES ASSUME NEW q \in Requests PROVE Later(venue[q], venue'[q])
  OBVIOUS
<1>q. venue[q] \in VenueOrder /\ Later(venue[q], venue[q])
  BY LaterReflexive DEF TypeOK
<1>1. CASE UNCHANGED venue
  BY <1>1, <1>q
<1>2. ASSUME NEW r \in Requests, NEW b \in Books, venue[r].book \in {"absent", "transit"},
             venue' = [venue EXCEPT ![r].book = b]
      PROVE  Later(venue[q], venue'[q])
  <2>1. CASE q # r
    BY <1>2, <1>q, <2>1 DEF TypeOK
  <2>2. CASE q = r
    <3>1. venue'[q].matched = venue[q].matched /\ venue[q].matched \in Nat
      BY <1>2, <2>2, QuantityAssumption DEF TypeOK, VenueOrder
    <3>2. ~Visible(venue[q]) /\ StatusOf(venue[q]) = "accepted"
      BY <1>2, <2>2 DEF Visible, StatusOf
    <3> QED
      BY <3>1, <3>2 DEF Later, TerminalStatuses
  <2> QED
    BY <2>1, <2>2
<1>3. ASSUME NEW r \in Requests, Transmit(r) PROVE Later(venue[q], venue'[q])
  <2>1. venue[r].book = "absent"
    BY <1>3 DEF Transmit, Untouched, NoVenueOrder
  <2> QED
    BY <1>2, <1>3, <2>1 DEF Transmit, Books
<1>4. ASSUME NEW r \in Requests, AnswerFailed(r) PROVE Later(venue[q], venue'[q])
  BY <1>1, <1>2, <1>4 DEF AnswerFailed, Books
<1>5. ASSUME NEW r \in Requests, VenueReceive(r) PROVE Later(venue[q], venue'[q])
  BY <1>2, <1>5 DEF VenueReceive, Books
<1>6. ASSUME NEW r \in Requests, VenueMatch(r) \/ VenueCancel(r)
      PROVE  Later(venue[q], venue'[q])
  <2>1. CASE q # r
    BY <1>6, <1>q, <2>1 DEF VenueMatch, VenueCancel, TypeOK
  <2>2. CASE q = r
    <3>1. /\ venue[q].matched \in Nat /\ venue'[q].matched \in Nat
          /\ venue[q].matched <= venue'[q].matched
      <4>1. venue[q].matched \in Nat
        BY QuantityAssumption DEF TypeOK, VenueOrder
      <4>2. VenueMatch(r) => venue'[q].matched = venue[q].matched + 1
        BY <2>2 DEF VenueMatch, TypeOK, VenueOrder
      <4>3. VenueCancel(r) => venue'[q].matched = venue[q].matched
        BY <2>2 DEF VenueCancel, TypeOK, VenueOrder
      <4> QED
        BY <1>6, <4>1, <4>2, <4>3
    <3>2. StatusOf(venue[q]) \notin TerminalStatuses
      BY <1>6, <2>2, QuantityAssumption
      DEF VenueMatch, VenueCancel, StatusOf, TerminalStatuses, TypeOK, VenueOrder
    <3>3. Visible(venue'[q])
      BY <1>6, <2>2 DEF VenueMatch, VenueCancel, Visible, TypeOK, VenueOrder
    <3> QED
      BY <3>1, <3>2, <3>3 DEF Later
  <2> QED
    BY <2>1, <2>2
<1>7. CASE UNCHANGED vars
  BY <1>1, <1>7 DEF vars
<1>8. ASSUME NEW r \in Requests,
             \/ Reject(r) \/ RepeatRequest(r) \/ RecheckFails(r)
             \/ AnswerOk(r) \/ AnswerAmbiguous(r) \/ AnswerUncaught(r)
      PROVE  UNCHANGED venue
  BY <1>8 DEF Reject, RepeatRequest, RecheckFails, AnswerOk, AnswerAmbiguous, AnswerUncaught
<1>9. ASSUME NEW a \in Approvals, GrantApproval(a) \/ ExpireApproval(a) PROVE UNCHANGED venue
  BY <1>9 DEF GrantApproval, ExpireApproval
<1>10. ASSUME NEW c \in CancelCalls,
              \/ \E o \in Origins, r \in Requests : CancelStart(c, o, r)
              \/ CancelOk(c) \/ CancelAmbiguous(c) \/ CancelFailed(c)
       PROVE  UNCHANGED venue
  BY <1>10 DEF CancelStart, CancelOk, CancelAmbiguous, CancelFailed
<1>11. ASSUME NEW w \in Runners,
              ReconStart(w) \/ ReconApply(w) \/ ReconFail(w) \/ ReconUncaught(w)
       PROVE  UNCHANGED venue
  BY <1>11 DEF ReconStart, ReconApply, ReconFail, ReconUncaught
<1>12. LockExpire \/ Restart => UNCHANGED venue
  BY DEF LockExpire, Restart
<1> QED
  BY <1>1, <1>3, <1>4, <1>5, <1>6, <1>7, <1>8, <1>9, <1>10, <1>11, <1>12, NextCases

\* Untouched is inductive: only Transmit hands an order over, and it takes the
\* request out of "idle" in the same step.
LEMMA UntouchedStep == TypeOK /\ Untouched /\ [Next]_vars => Untouched'
<1> SUFFICES ASSUME TypeOK, Untouched, [Next]_vars, NEW q \in Requests, phase'[q] = "idle"
             PROVE  venue'[q] = NoVenueOrder
  BY DEF Untouched
<1> USE DEF Untouched, TypeOK, storeVars, reconVars
<1>1. ASSUME NEW r \in Requests,
             \/ Reject(r) \/ RepeatRequest(r) \/ RecheckFails(r)
             \/ AnswerOk(r) \/ AnswerAmbiguous(r) \/ AnswerUncaught(r)
      PROVE  venue'[q] = NoVenueOrder
  BY <1>1 DEF Reject, RepeatRequest, RecheckFails, AnswerOk, AnswerAmbiguous,
              AnswerUncaught, Finish
<1>2. ASSUME NEW r \in Requests, Transmit(r) \/ AnswerFailed(r)
      PROVE  venue'[q] = NoVenueOrder
  <2>1. q # r /\ phase[q] = "idle"
    BY <1>2 DEF Transmit, AnswerFailed, Finish
  <2> QED
    BY <1>2, <2>1 DEF Transmit, AnswerFailed
<1>3. ASSUME NEW r \in Requests, VenueReceive(r) \/ VenueMatch(r) \/ VenueCancel(r)
      PROVE  venue'[q] = NoVenueOrder
  BY <1>3 DEF VenueReceive, VenueMatch, VenueCancel, NoVenueOrder
<1>4. ASSUME NEW a \in Approvals, GrantApproval(a) \/ ExpireApproval(a)
      PROVE  venue'[q] = NoVenueOrder
  BY <1>4 DEF GrantApproval, ExpireApproval
<1>5. ASSUME NEW c \in CancelCalls,
             \/ \E o \in Origins, r \in Requests : CancelStart(c, o, r)
             \/ CancelOk(c) \/ CancelAmbiguous(c) \/ CancelFailed(c)
      PROVE  venue'[q] = NoVenueOrder
  BY <1>5 DEF CancelStart, CancelOk, CancelAmbiguous, CancelFailed
<1>6. ASSUME NEW w \in Runners,
             ReconStart(w) \/ ReconApply(w) \/ ReconFail(w) \/ ReconUncaught(w)
      PROVE  venue'[q] = NoVenueOrder
  BY <1>6 DEF ReconStart, ReconApply, ReconFail, ReconUncaught
<1>7. ASSUME LockExpire \/ Restart PROVE venue'[q] = NoVenueOrder
  BY <1>7 DEF LockExpire, Restart
<1>8. ASSUME UNCHANGED vars PROVE venue'[q] = NoVenueOrder
  BY <1>8 DEF vars
<1> QED
  BY <1>1, <1>2, <1>3, <1>4, <1>5, <1>6, <1>7, <1>8, NextCases

\* A run holds the snapshot it took at its start; the broker only moves on.
LEMMA SnapshotsStep ==
    TypeOK /\ TypeOK' /\ Untouched /\ SnapshotsOld /\ [Next]_vars => SnapshotsOld'
<1> SUFFICES ASSUME TypeOK, TypeOK', Untouched, SnapshotsOld, [Next]_vars,
                    NEW w \in Runners, NEW q \in Requests
             PROVE  Later(recon'[w].snapshot[q], venue'[q])
  BY DEF SnapshotsOld
<1>1. /\ recon[w].snapshot[q] \in VenueOrder
      /\ venue[q] \in VenueOrder /\ venue'[q] \in VenueOrder
  BY DEF TypeOK
<1>2. Later(venue[q], venue'[q])
  BY VenueAdvances
<1>3. recon'[w].snapshot[q] = recon[w].snapshot[q] => Later(recon'[w].snapshot[q], venue'[q])
  BY <1>1, <1>2, LaterTransitive DEF SnapshotsOld
<1>4. ASSUME recon'[w] = Idle PROVE Later(recon'[w].snapshot[q], venue'[q])
  <2>1. recon'[w].snapshot[q] = NoVenueOrder
    BY <1>4 DEF Idle, EmptyBook
  <2>2. venue'[q].matched \in Nat
    BY <1>1, QuantityAssumption DEF VenueOrder
  <2> QED
    BY <2>1, <2>2 DEF Later, NoVenueOrder, Visible, StatusOf, TerminalStatuses
<1>5. ASSUME NEW v \in Runners, ReconStart(v) PROVE Later(recon'[w].snapshot[q], venue'[q])
  <2>1. CASE v = w
    BY <1>1, <1>5, <2>1, LaterReflexive DEF ReconStart, TypeOK
  <2>2. CASE v # w
    BY <1>3, <1>5, <2>2 DEF ReconStart, TypeOK
  <2> QED
    BY <2>1, <2>2
<1>6. ASSUME NEW v \in Runners, ReconApply(v) \/ ReconFail(v) \/ ReconUncaught(v)
      PROVE  recon'[w] = Idle \/ recon'[w] = recon[w]
  BY <1>6 DEF ReconApply, ReconFail, ReconUncaught, EndRun, TypeOK
<1>7. ASSUME NEW r \in Requests,
             \/ Reject(r) \/ RepeatRequest(r) \/ RecheckFails(r) \/ Transmit(r)
             \/ AnswerOk(r) \/ AnswerAmbiguous(r) \/ AnswerFailed(r) \/ AnswerUncaught(r)
             \/ VenueReceive(r) \/ VenueMatch(r) \/ VenueCancel(r)
      PROVE  recon'[w] = recon[w]
  BY <1>7 DEF Reject, RepeatRequest, RecheckFails, Transmit, AnswerOk, AnswerAmbiguous,
              AnswerFailed, AnswerUncaught, VenueReceive, VenueMatch, VenueCancel, reconVars
<1>8. ASSUME NEW a \in Approvals, GrantApproval(a) \/ ExpireApproval(a)
      PROVE  recon'[w] = recon[w]
  BY <1>8 DEF GrantApproval, ExpireApproval, reconVars
<1>9. ASSUME NEW c \in CancelCalls,
             \/ \E o \in Origins, r \in Requests : CancelStart(c, o, r)
             \/ CancelOk(c) \/ CancelAmbiguous(c) \/ CancelFailed(c)
      PROVE  recon'[w] = recon[w]
  BY <1>9 DEF CancelStart, CancelOk, CancelAmbiguous, CancelFailed, reconVars
<1>10. LockExpire => recon'[w] = recon[w]
  BY DEF LockExpire
<1>11. Restart => recon'[w] = Idle
  BY DEF Restart
<1>12. UNCHANGED vars => recon'[w] = recon[w]
  BY DEF vars
<1> QED
  BY <1>3, <1>4, <1>5, <1>6, <1>7, <1>8, <1>9, <1>10, <1>11, <1>12, NextCases

\* CancelsOld is inductive: the fill a cancel handler read before its broker call
\* is never more than the broker has matched by the time it is written.
LEMMA CancelsStep ==
    /\ TypeOK /\ TypeOK' /\ Untouched /\ LocalTruth /\ CancelsOld /\ [Next]_vars
    => CancelsOld'
<1> SUFFICES ASSUME TypeOK, TypeOK', Untouched, LocalTruth, CancelsOld, [Next]_vars,
                    NEW c \in CancelCalls, cancels'[c].stage = "waiting"
             PROVE  /\ Visible(venue'[cancels'[c].req])
                    /\ cancels'[c].filled <= venue'[cancels'[c].req].matched
  BY DEF CancelsOld
<1> DEFINE Goal == /\ Visible(venue'[cancels'[c].req])
                   /\ cancels'[c].filled <= venue'[cancels'[c].req].matched
<1>1. ASSUME cancels'[c] = cancels[c] PROVE Goal
  <2> DEFINE q == cancels[c].req
  <2>1. /\ q \in Requests /\ cancels[c].filled \in Nat
        /\ venue[q].matched \in Nat /\ venue'[q].matched \in Nat
    BY QuantityAssumption DEF TypeOK, VenueOrder
  <2>2. Visible(venue[q]) /\ cancels[c].filled <= venue[q].matched
    BY <1>1 DEF CancelsOld
  <2>3. Later(venue[q], venue'[q])
    BY <2>1, VenueAdvances
  <2>4. Visible(venue'[q]) /\ cancels[c].filled <= venue'[q].matched
    BY <2>1, <2>2, <2>3 DEF Later
  <2> QED
    BY <1>1, <2>4
<1>2. ASSUME NEW k \in CancelCalls, NEW o \in Origins, NEW r \in Requests, CancelStart(k, o, r)
      PROVE  Goal
  <2>1. CASE k = c
    <3>1. cancels'[c].req = r /\ cancels'[c].filled = orders[o][r].filled /\ orders[o][r].bid
      BY <1>2, <2>1 DEF CancelStart, TypeOK
    <3>2. venue' = venue
      BY <1>2 DEF CancelStart
    <3> QED
      BY <3>1, <3>2 DEF LocalTruth, Truthful
  <2>2. CASE k # c
    BY <1>1, <1>2, <2>2 DEF CancelStart, TypeOK
  <2> QED
    BY <2>1, <2>2
<1>3. ASSUME NEW k \in CancelCalls, CancelOk(k) \/ CancelAmbiguous(k) \/ CancelFailed(k)
      PROVE  cancels'[c] = cancels[c]
  BY <1>3 DEF CancelOk, CancelAmbiguous, CancelFailed, FinishCancel, TypeOK
<1>4. ASSUME NEW r \in Requests,
             \/ Reject(r) \/ RepeatRequest(r) \/ RecheckFails(r) \/ Transmit(r)
             \/ AnswerOk(r) \/ AnswerAmbiguous(r) \/ AnswerFailed(r) \/ AnswerUncaught(r)
             \/ VenueReceive(r) \/ VenueMatch(r) \/ VenueCancel(r)
      PROVE  cancels'[c] = cancels[c]
  BY <1>4 DEF Reject, RepeatRequest, RecheckFails, Transmit, AnswerOk, AnswerAmbiguous,
              AnswerFailed, AnswerUncaught, VenueReceive, VenueMatch, VenueCancel
<1>5. ASSUME NEW a \in Approvals, GrantApproval(a) \/ ExpireApproval(a)
      PROVE  cancels'[c] = cancels[c]
  BY <1>5 DEF GrantApproval, ExpireApproval
<1>6. ASSUME NEW w \in Runners,
             ReconStart(w) \/ ReconApply(w) \/ ReconFail(w) \/ ReconUncaught(w)
      PROVE  cancels'[c] = cancels[c]
  BY <1>6 DEF ReconStart, ReconApply, ReconFail, ReconUncaught
<1>7. LockExpire => cancels'[c] = cancels[c]
  BY DEF LockExpire
<1>8. ASSUME Restart PROVE FALSE
  BY <1>8 DEF Restart, TypeOK
<1>9. UNCHANGED vars => cancels'[c] = cancels[c]
  BY DEF vars
<1> QED
  BY <1>1, <1>2, <1>3, <1>4, <1>5, <1>6, <1>7, <1>8, <1>9, NextCases

\* What a handler or a run writes is true of the broker, and what it leaves alone
\* stays true because the broker only moves on.
LEMMA LocalTruthStep ==
    /\ TypeOK /\ TypeOK' /\ Untouched /\ SnapshotsOld /\ CancelsOld /\ LocalTruth
    /\ [Next]_vars
    => LocalTruth'
<1> SUFFICES ASSUME TypeOK, TypeOK', Untouched, SnapshotsOld, CancelsOld, LocalTruth,
                    [Next]_vars, NEW p \in Origins, NEW q \in Requests
             PROVE  Truthful(orders'[p][q], venue'[q])
  BY DEF LocalTruth
<1> DEFINE Goal == Truthful(orders'[p][q], venue'[q])
<1>t. /\ orders[p][q] \in LocalOrder /\ orders'[p][q] \in LocalOrder
      /\ venue[q] \in VenueOrder /\ venue'[q] \in VenueOrder
      /\ venue[q].matched \in Nat
  BY QuantityAssumption DEF TypeOK, VenueOrder
<1>1. ASSUME orders'[p][q] = orders[p][q] PROVE Goal
  <2>1. Later(venue[q], venue'[q])
    BY VenueAdvances
  <2>2. Truthful(orders[p][q], venue[q])
    BY DEF LocalTruth
  <2> QED
    BY <1>1, <1>t, <2>1, <2>2, TruthfulLater
<1>2. ASSUME NEW r \in Requests, AnswerOk(r) PROVE Goal
  <2>1. CASE p = "submitted" /\ q = r
    <3>1. orders'[p][q] = Answer(r) /\ venue' = venue /\ Visible(venue[r])
      BY <1>2, <2>1 DEF AnswerOk, TypeOK
    <3> QED
      BY <1>t, <2>1, <3>1, AnswerType DEF Truthful, StatusOf, TerminalStatuses
  <2>2. CASE ~(p = "submitted" /\ q = r)
    BY <1>1, <1>2, <2>2 DEF AnswerOk, TypeOK
  <2> QED
    BY <2>1, <2>2
<1>3. ASSUME NEW r \in Requests, AnswerAmbiguous(r) PROVE Goal
  <2>1. CASE p = "submitted" /\ q = r
    <3>1. orders'[p][q] = Ambiguous /\ venue' = venue
      BY <1>3, <2>1 DEF AnswerAmbiguous, TypeOK
    <3> QED
      BY <1>t, <3>1 DEF Ambiguous, Truthful, TerminalStatuses
  <2>2. CASE ~(p = "submitted" /\ q = r)
    BY <1>1, <1>3, <2>2 DEF AnswerAmbiguous, TypeOK
  <2> QED
    BY <2>1, <2>2
<1>4. ASSUME NEW c \in CancelCalls, NEW t, NEW n, WriteTarget(c, t, n), venue' = venue,
             Truthful([bid |-> TRUE, status |-> t, filled |-> n], venue[cancels[c].req])
      PROVE  Goal
  <2>1. cancels[c].origin \in Origins /\ cancels[c].req \in Requests
    BY DEF TypeOK
  <2>2. CASE p = cancels[c].origin /\ q = cancels[c].req
    <3>1. orders'[p][q] = [bid |-> TRUE, status |-> t, filled |-> n]
      BY <1>4, <2>1, <2>2 DEF WriteTarget, TypeOK
    <3> QED
      BY <1>4, <2>2, <3>1
  <2>3. CASE ~(p = cancels[c].origin /\ q = cancels[c].req)
    BY <1>1, <1>4, <2>1, <2>3 DEF WriteTarget, TypeOK
  <2> QED
    BY <2>2, <2>3
<1>5. ASSUME NEW c \in CancelCalls, CancelOk(c) PROVE Goal
  <2>1. PICK n \in {0, venue[cancels[c].req].matched} : WriteTarget(c, "cancelled", n)
    BY <1>5 DEF CancelOk
  <2>2. venue[cancels[c].req].matched \in Nat
    BY QuantityAssumption DEF TypeOK, VenueOrder
  <2>3. Truthful([bid |-> TRUE, status |-> "cancelled", filled |-> n], venue[cancels[c].req])
    BY <1>5, <2>1, <2>2 DEF CancelOk, Truthful, Visible, StatusOf
  <2> QED
    BY <1>4, <1>5, <2>1, <2>3 DEF CancelOk
<1>6. ASSUME NEW c \in CancelCalls, CancelAmbiguous(c) PROVE Goal
  <2>1. Truthful([bid |-> TRUE, status |-> "needs_reconciliation",
                  filled |-> cancels[c].filled], venue[cancels[c].req])
    BY <1>6 DEF CancelAmbiguous, CancelsOld, Truthful, TerminalStatuses
  <2> QED
    BY <1>4, <1>6, <2>1 DEF CancelAmbiguous
<1>7. ASSUME NEW w \in Runners, ReconApply(w) PROVE Goal
  <2> DEFINE s == recon[w].snapshot
  <2>1. s[q] \in VenueOrder /\ s[q].matched \in Nat /\ Later(s[q], venue[q])
    BY QuantityAssumption DEF TypeOK, SnapshotsOld, VenueOrder
  <2>2. venue' = venue /\ orders'[p][q] = Reconciled(s)[p][q]
    BY <1>7 DEF ReconApply
  <2>3. CASE Visible(s[q]) /\ p = Match(q)
    <3>1. orders'[p][q] = Mapped(s[q])
      BY <2>2, <2>3 DEF Reconciled
    <3> QED
      BY <2>1, <2>2, <2>3, <3>1 DEF Mapped, Truthful, Later
  <2>4. CASE ~(Visible(s[q]) /\ p = Match(q))
    <3>1. \/ orders'[p][q] = orders[p][q]
          \/ orders'[p][q] = [orders[p][q] EXCEPT !.status = "needs_reconciliation"]
      BY <2>2, <2>4 DEF Reconciled
    <3>2. Truthful([orders[p][q] EXCEPT !.status = "needs_reconciliation"], venue[q])
      BY <1>t DEF LocalTruth, Truthful, TerminalStatuses, LocalOrder
    <3> QED
      BY <1>1, <2>2, <3>1, <3>2
  <2> QED
    BY <2>3, <2>4
<1>8. ASSUME NEW r \in Requests,
             \/ Reject(r) \/ RepeatRequest(r) \/ RecheckFails(r) \/ Transmit(r)
             \/ AnswerFailed(r) \/ AnswerUncaught(r)
             \/ VenueReceive(r) \/ VenueMatch(r) \/ VenueCancel(r)
      PROVE  orders' = orders
  BY <1>8 DEF Reject, RepeatRequest, RecheckFails, Transmit, AnswerFailed, AnswerUncaught,
              VenueReceive, VenueMatch, VenueCancel, storeVars
<1>9. ASSUME NEW a \in Approvals, GrantApproval(a) \/ ExpireApproval(a) PROVE orders' = orders
  BY <1>9 DEF GrantApproval, ExpireApproval
<1>10. ASSUME NEW c \in CancelCalls,
              (\E o \in Origins, r \in Requests : CancelStart(c, o, r)) \/ CancelFailed(c)
       PROVE  orders' = orders
  BY <1>10 DEF CancelStart, CancelFailed, storeVars
<1>11. ASSUME NEW w \in Runners, ReconStart(w) \/ ReconFail(w) \/ ReconUncaught(w)
       PROVE  orders' = orders
  BY <1>11 DEF ReconStart, ReconFail, ReconUncaught, storeVars
<1>12. LockExpire \/ Restart \/ UNCHANGED vars => orders' = orders
  BY DEF LockExpire, Restart, vars, storeVars
<1> QED
  BY <1>1, <1>2, <1>3, <1>5, <1>6, <1>7, <1>8, <1>9, <1>10, <1>11, <1>12, NextCases

\* GateSound is inductive: each handler that leaves an order unresolved closes
\* the gate in the same step.
LEMMA GateSoundStep == TypeOK /\ GateSound /\ [Next]_vars => GateSound'
<1> SUFFICES ASSUME TypeOK, GateSound, [Next]_vars, ready',
                    NEW p \in Origins, NEW q \in Requests
             PROVE  orders'[p][q].status # "needs_reconciliation"
  BY DEF GateSound, Unresolved
<1> DEFINE Goal == orders'[p][q].status # "needs_reconciliation"
<1>1. ASSUME ready, orders'[p][q] = orders[p][q] PROVE Goal
  <2>1. <<p, q>> \notin Unresolved(orders)
    BY <1>1 DEF GateSound
  <2> QED
    BY <1>1, <2>1 DEF Unresolved
<1>2. ASSUME NEW r \in Requests, AnswerOk(r) PROVE Goal
  <2>1. CASE p = "submitted" /\ q = r
    BY <1>2, <2>1, AnswerType DEF AnswerOk, TypeOK
  <2>2. CASE ~(p = "submitted" /\ q = r)
    BY <1>1, <1>2, <2>2 DEF AnswerOk, TypeOK
  <2> QED
    BY <2>1, <2>2
<1>3. ASSUME NEW c \in CancelCalls, CancelOk(c) PROVE Goal
  <2>1. PICK n \in {0, venue[cancels[c].req].matched} : WriteTarget(c, "cancelled", n)
    BY <1>3 DEF CancelOk
  <2>2. cancels[c].origin \in Origins /\ cancels[c].req \in Requests
    BY DEF TypeOK
  <2>3. ready
    BY <1>3 DEF CancelOk
  <2> QED
    BY <1>1, <2>1, <2>2, <2>3 DEF WriteTarget, TypeOK
<1>4. ASSUME NEW w \in Runners, ReconApply(w) PROVE Goal
  <2>1. <<p, q>> \notin Unresolved(orders')
    BY <1>4 DEF ReconApply
  <2> QED
    BY <2>1 DEF Unresolved
<1>5. ASSUME NEW r \in Requests,
             \/ Reject(r) \/ RepeatRequest(r) \/ RecheckFails(r) \/ Transmit(r)
             \/ AnswerFailed(r) \/ AnswerUncaught(r)
             \/ VenueReceive(r) \/ VenueMatch(r) \/ VenueCancel(r)
      PROVE  orders' = orders /\ ready' = ready
  BY <1>5 DEF Reject, RepeatRequest, RecheckFails, Transmit, AnswerFailed, AnswerUncaught,
              VenueReceive, VenueMatch, VenueCancel, storeVars
<1>6. ASSUME NEW a \in Approvals, GrantApproval(a) \/ ExpireApproval(a)
      PROVE  orders' = orders /\ ready' = ready
  BY <1>6 DEF GrantApproval, ExpireApproval
<1>7. ASSUME NEW c \in CancelCalls,
             (\E o \in Origins, r \in Requests : CancelStart(c, o, r)) \/ CancelFailed(c)
      PROVE  orders' = orders /\ ready' = ready
  BY <1>7 DEF CancelStart, CancelFailed, storeVars
<1>8. ASSUME NEW w \in Runners, ReconStart(w) \/ ReconUncaught(w)
      PROVE  orders' = orders /\ ready' = ready
  BY <1>8 DEF ReconStart, ReconUncaught, storeVars
<1>9. LockExpire \/ UNCHANGED vars => orders' = orders /\ ready' = ready
  BY DEF LockExpire, vars, storeVars
<1>10. /\ \A r \in Requests : ~AnswerAmbiguous(r)
       /\ \A c \in CancelCalls : ~CancelAmbiguous(c)
       /\ \A w \in Runners : ~ReconFail(w)
       /\ ~Restart
  BY DEF AnswerAmbiguous, CancelAmbiguous, ReconFail, Restart
<1> QED
  BY <1>1, <1>2, <1>3, <1>4, <1>5, <1>6, <1>7, <1>8, <1>9, <1>10, NextCases

\* No submission, answer or restart frees the id of an order that may exist, as
\* long as every failure submit takes for definite is one.
LEMMA ClaimsStep ==
    /\ ~LateFailures /\ TypeOK /\ TypeOK' /\ Untouched /\ Claimed /\ OnePerId /\ [Next]_vars
    => Claimed' /\ OnePerId'
<1> SUFFICES ASSUME ~LateFailures, TypeOK, TypeOK', Untouched, Claimed, OnePerId, [Next]_vars
             PROVE  Claimed' /\ OnePerId'
  OBVIOUS
<1> USE DEF MayExist, HasId
<1>1. ASSUME claims' = claims, \A r \in Requests : MayExist(r)' => MayExist(r)
      PROVE  Claimed' /\ OnePerId'
  BY <1>1 DEF Claimed, OnePerId
<1>2. ASSUME NEW r \in Requests, RecheckFails(r) PROVE Claimed' /\ OnePerId'
  <2>1. claims' = claims /\ venue' = venue
    BY <1>2 DEF RecheckFails, Release, Duplicate
  <2> QED
    BY <1>1, <2>1
<1>3. ASSUME NEW r \in Requests, Transmit(r) PROVE Claimed' /\ OnePerId'
  <2>1. \A q \in Requests : q # r => venue'[q] = venue[q]
    BY <1>3 DEF Transmit, TypeOK
  <2>2. claims \subseteq claims' /\ (HasId(r) => Cid[r] \in claims' /\ Cid[r] \notin claims)
    BY <1>3 DEF Transmit, Claim, Duplicate
  <2>3. Claimed'
    BY <2>1, <2>2 DEF Claimed
  <2>4. OnePerId'
    BY <2>1, <2>2 DEF Claimed, OnePerId
  <2> QED
    BY <2>3, <2>4
<1>4. ASSUME NEW r \in Requests, AnswerFailed(r) PROVE Claimed' /\ OnePerId'
  <2>1. venue[r].book = "transit" /\ venue' = [venue EXCEPT ![r].book = "lost"]
    BY <1>4 DEF AnswerFailed
  <2>2. /\ ~MayExist(r)' /\ MayExist(r)
        /\ \A q \in Requests : q # r => venue'[q] = venue[q]
    BY <2>1 DEF TypeOK, VenueOrder
  <2>3. claims' = IF HasId(r) THEN claims \ {Cid[r]} ELSE claims
    BY <1>4 DEF AnswerFailed, Release
  <2>4. Claimed'
    BY <2>2, <2>3 DEF Claimed, OnePerId
  <2>5. OnePerId'
    BY <2>2 DEF OnePerId
  <2> QED
    BY <2>4, <2>5
<1>5. ASSUME NEW r \in Requests, VenueReceive(r) \/ VenueMatch(r) \/ VenueCancel(r)
      PROVE  Claimed' /\ OnePerId'
  <2>1. \A q \in Requests : MayExist(q)' => MayExist(q)
    BY <1>5 DEF VenueReceive, VenueMatch, VenueCancel, TypeOK, VenueOrder
  <2> QED
    BY <1>1, <1>5, <2>1 DEF VenueReceive, VenueMatch, VenueCancel, storeVars
<1>6. ASSUME NEW r \in Requests,
             \/ Reject(r) \/ RepeatRequest(r)
             \/ AnswerOk(r) \/ AnswerAmbiguous(r) \/ AnswerUncaught(r)
      PROVE  claims' = claims /\ venue' = venue
  BY <1>6 DEF Reject, RepeatRequest, AnswerOk, AnswerAmbiguous, AnswerUncaught, storeVars
<1>7. ASSUME NEW a \in Approvals, GrantApproval(a) \/ ExpireApproval(a)
      PROVE  claims' = claims /\ venue' = venue
  BY <1>7 DEF GrantApproval, ExpireApproval
<1>8. ASSUME NEW c \in CancelCalls,
             \/ \E o \in Origins, r \in Requests : CancelStart(c, o, r)
             \/ CancelOk(c) \/ CancelAmbiguous(c) \/ CancelFailed(c)
      PROVE  claims' = claims /\ venue' = venue
  BY <1>8 DEF CancelStart, CancelOk, CancelAmbiguous, CancelFailed, storeVars
<1>9. ASSUME NEW w \in Runners,
             ReconStart(w) \/ ReconApply(w) \/ ReconFail(w) \/ ReconUncaught(w)
      PROVE  claims' = claims /\ venue' = venue
  BY <1>9 DEF ReconStart, ReconApply, ReconFail, ReconUncaught, storeVars
<1>10. LockExpire \/ Restart \/ UNCHANGED vars => claims' = claims /\ venue' = venue
  BY DEF LockExpire, Restart, vars, storeVars
<1> QED
  BY <1>1, <1>2, <1>3, <1>4, <1>5, <1>6, <1>7, <1>8, <1>9, <1>10, NextCases

\* An approval is consumed in the step that hands its order over, and stays so.
LEMMA ApprovalsStep ==
    /\ TypeOK /\ TypeOK' /\ Untouched /\ Consumed /\ OneApprovalPerPlacement /\ [Next]_vars
    => Consumed' /\ OneApprovalPerPlacement'
<1> SUFFICES ASSUME TypeOK, TypeOK', Untouched, Consumed, OneApprovalPerPlacement,
                    [Next]_vars, NeedsApproval
             PROVE  Consumed' /\ OneApprovalPerPlacement'
  BY DEF Consumed, OneApprovalPerPlacement, NeedsApproval
<1> DEFINE Goal == Consumed' /\ OneApprovalPerPlacement'
           Kept == \A a \in Approvals : approvals[a] = "consumed" => approvals'[a] = "consumed"
           NoNew == \A q \in Requests : venue'[q] # NoVenueOrder => venue[q] # NoVenueOrder
<1>1. ASSUME Kept, NoNew PROVE Goal
  BY <1>1, ApprovalsAssumption DEF Consumed, OneApprovalPerPlacement
<1>2. ASSUME NEW r \in Requests, ConsumeApproval(r)
      PROVE  Kept /\ approvals'[ApprovalOf[r]] = "consumed"
  BY <1>2, ApprovalsAssumption DEF ConsumeApproval, TypeOK
<1>3. ASSUME NEW r \in Requests, Transmit(r) PROVE Goal
  <2>1. approvals[ApprovalOf[r]] = "granted" /\ ConsumeApproval(r)
    BY <1>3 DEF Transmit, PolicyAllows
  <2>2. \A q \in Requests : q # r => venue'[q] = venue[q]
    BY <1>3 DEF Transmit, TypeOK
  <2>3. \A q \in Requests : ApprovalOf[q] = ApprovalOf[r] => venue[q] = NoVenueOrder
    BY <2>1 DEF Consumed
  <2>4. Consumed'
    BY <1>2, <2>1, <2>2, ApprovalsAssumption DEF Consumed
  <2>5. OneApprovalPerPlacement'
    BY <2>2, <2>3 DEF OneApprovalPerPlacement
  <2> QED
    BY <2>4, <2>5
<1>4. ASSUME NEW r \in Requests, RepeatRequest(r) \/ RecheckFails(r) PROVE Goal
  BY <1>1, <1>2, <1>4 DEF RepeatRequest, RecheckFails
<1>5. ASSUME NEW r \in Requests,
             \/ AnswerFailed(r) \/ VenueReceive(r) \/ VenueMatch(r) \/ VenueCancel(r)
      PROVE  Goal
  <2>1. venue[r] # NoVenueOrder \/ venue' = venue
    BY <1>5 DEF AnswerFailed, VenueReceive, VenueMatch, VenueCancel, NoVenueOrder
  <2>2. \A q \in Requests : q # r => venue'[q] = venue[q]
    BY <1>5 DEF AnswerFailed, VenueReceive, VenueMatch, VenueCancel, TypeOK
  <2>3. approvals' = approvals
    BY <1>5 DEF AnswerFailed, VenueReceive, VenueMatch, VenueCancel, storeVars
  <2> QED
    BY <1>1, <2>1, <2>2, <2>3
<1>6. ASSUME NEW a \in Approvals, GrantApproval(a) \/ ExpireApproval(a) PROVE Goal
  <2>1. Kept
    BY <1>6 DEF GrantApproval, ExpireApproval, TypeOK
  <2> QED
    BY <1>1, <1>6, <2>1 DEF GrantApproval, ExpireApproval
<1>7. ASSUME NEW r \in Requests,
             Reject(r) \/ AnswerOk(r) \/ AnswerAmbiguous(r) \/ AnswerUncaught(r)
      PROVE  approvals' = approvals /\ venue' = venue
  BY <1>7 DEF Reject, AnswerOk, AnswerAmbiguous, AnswerUncaught, storeVars
<1>8. ASSUME NEW c \in CancelCalls,
             \/ \E o \in Origins, r \in Requests : CancelStart(c, o, r)
             \/ CancelOk(c) \/ CancelAmbiguous(c) \/ CancelFailed(c)
      PROVE  approvals' = approvals /\ venue' = venue
  BY <1>8 DEF CancelStart, CancelOk, CancelAmbiguous, CancelFailed, storeVars
<1>9. ASSUME NEW w \in Runners,
             ReconStart(w) \/ ReconApply(w) \/ ReconFail(w) \/ ReconUncaught(w)
      PROVE  approvals' = approvals /\ venue' = venue
  BY <1>9 DEF ReconStart, ReconApply, ReconFail, ReconUncaught, storeVars
<1>10. LockExpire \/ Restart \/ UNCHANGED vars => approvals' = approvals /\ venue' = venue
  BY DEF LockExpire, Restart, vars, storeVars
<1> QED
  BY <1>1, <1>3, <1>4, <1>5, <1>6, <1>7, <1>8, <1>9, <1>10, NextCases

-----------------------------------------------------------------------------
(* The theorems.                                                           *)

Inv == /\ TypeOK /\ Untouched /\ SnapshotsOld /\ CancelsOld /\ LocalTruth /\ GateSound
       /\ Consumed /\ OneApprovalPerPlacement

\* The invariant holds when the process starts with empty tables.
LEMMA InitInv == Init => Inv /\ Claimed /\ OnePerId
<1> SUFFICES ASSUME Init PROVE Inv /\ Claimed /\ OnePerId
  OBVIOUS
<1>1. TypeOK
  BY InitType
<1>2. \A r \in Requests : venue[r] = NoVenueOrder
  BY DEF Init, EmptyBook
<1>3. Untouched /\ Consumed /\ OneApprovalPerPlacement
  BY <1>2 DEF Untouched, Consumed, OneApprovalPerPlacement
<1>4. SnapshotsOld
  <2> SUFFICES ASSUME NEW w \in Runners, NEW r \in Requests
               PROVE  Later(recon[w].snapshot[r], venue[r])
    BY DEF SnapshotsOld
  <2>1. recon[w].snapshot[r] = NoVenueOrder
    BY DEF Init, Idle, EmptyBook
  <2> QED
    BY <1>1, <1>2, <2>1, LaterReflexive DEF TypeOK
<1>5. CancelsOld
  BY DEF Init, CancelsOld, NoCancel
<1>6. LocalTruth
  BY <1>2 DEF Init, LocalTruth, Truthful, NoOrder, NoVenueOrder, TerminalStatuses
<1>7. GateSound
  BY DEF Init, GateSound
<1>8. Claimed /\ OnePerId
  BY <1>2 DEF Claimed, OnePerId, MayExist, NoVenueOrder
<1> QED
  BY <1>1, <1>3, <1>4, <1>5, <1>6, <1>7, <1>8 DEF Inv

\* Every step keeps the whole invariant: one lemma above for each conjunct.
LEMMA StepInv == Inv /\ [Next]_vars => Inv'
  BY TypeStep, UntouchedStep, SnapshotsStep, CancelsStep, LocalTruthStep, GateSoundStep,
     ApprovalsStep DEF Inv

\* The inductive invariant holds in every state of every execution.
LEMMA Invariance == Spec => []Inv
<1>1. Init => Inv
  BY InitInv
<1> QED
  BY <1>1, StepInv, PTL DEF Spec

\* Every variable keeps its type: the order table, the claims, the snapshots and
\* the broker's book stay within their domains whatever the handlers write.
THEOREM TypeCorrect == Spec => []TypeOK
<1>1. Inv => TypeOK
  BY DEF Inv
<1> QED
  BY <1>1, Invariance, PTL

\* The reconciliation gate is open only while no local order is unresolved.
THEOREM GateIsSound == Spec => []GateSound
<1>1. Inv => GateSound
  BY DEF Inv
<1> QED
  BY <1>1, Invariance, PTL

\* No interleaving of answers, cancellations, stale snapshots and restarts makes
\* the local order table claim more than the broker did.
THEOREM LocalRecordsTruthful == Spec => []LocalTruth
<1>1. Inv => LocalTruth
  BY DEF Inv
<1> QED
  BY <1>1, Invariance, PTL

\* One live approval lets at most one order through to the broker.
THEOREM ApprovalsAreOneTime == Spec => []OneApprovalPerPlacement
<1>1. Inv => OneApprovalPerPlacement
  BY DEF Inv
<1> QED
  BY <1>1, Invariance, PTL

\* Retries of one client_order_id never place two orders, provided that no failure
\* submit takes for definite comes after the broker took the order.
THEOREM PlacementIsIdempotent == ~LateFailures => (Spec => []AtMostOncePlacement)
<1> SUFFICES ASSUME ~LateFailures PROVE Spec => []AtMostOncePlacement
  OBVIOUS
<1> DEFINE I == Inv /\ Claimed /\ OnePerId
<1>1. Init => I
  BY InitInv
<1>2. I /\ [Next]_vars => I'
  BY StepInv, ClaimsStep DEF Inv
<1>3. I => AtMostOncePlacement
  BY DEF OnePerId, AtMostOncePlacement, MayExist, Accepted
<1> QED
  BY <1>1, <1>2, <1>3, PTL DEF Spec

\* The gate opens only in a run that holds a snapshot, and that run leaves a local
\* record with the broker order id for every order in it.
THEOREM GateNeedsEvidence == Spec => GateOpensOnEvidence
<1> DEFINE A == ~ready /\ ready' =>
                  \E w \in Runners :
                      /\ recon[w].running
                      /\ \A r \in Requests : Visible(recon[w].snapshot[r]) =>
                             \E o \in Origins : orders'[o][r].bid
<1>1. Inv /\ [Next]_vars => [A]_vars
  <2> SUFFICES ASSUME Inv, Next, ~ready, ready' PROVE A
    BY DEF vars
  <2>1. ASSUME NEW w \in Runners, ReconApply(w) PROVE A
    <3>1. recon[w].running
      BY <2>1 DEF ReconApply, EndRun
    <3>2. ASSUME NEW r \in Requests, Visible(recon[w].snapshot[r])
          PROVE  \E o \in Origins : orders'[o][r].bid
      <4>1. Match(r) \in Origins
        BY DEF Match, Origins
      <4>2. orders'[Match(r)][r] = Mapped(recon[w].snapshot[r])
        BY <2>1, <3>2, <4>1 DEF ReconApply, Reconciled
      <4> QED
        BY <4>1, <4>2 DEF Mapped
    <3> QED
      BY <3>1, <3>2
  <2>2. ASSUME NEW r \in Requests PROVE
            /\ ~Reject(r) /\ ~RepeatRequest(r) /\ ~RecheckFails(r) /\ ~Transmit(r)
            /\ ~AnswerOk(r) /\ ~AnswerAmbiguous(r) /\ ~AnswerFailed(r) /\ ~AnswerUncaught(r)
            /\ ~VenueReceive(r) /\ ~VenueMatch(r) /\ ~VenueCancel(r)
    BY DEF Reject, RepeatRequest, RecheckFails, Transmit, AnswerOk, AnswerAmbiguous,
           AnswerFailed, AnswerUncaught, VenueReceive, VenueMatch, VenueCancel
  <2>3. ASSUME NEW a \in Approvals PROVE ~GrantApproval(a) /\ ~ExpireApproval(a)
    BY DEF GrantApproval, ExpireApproval
  <2>4. ASSUME NEW c \in CancelCalls PROVE
            /\ ~\E o \in Origins, r \in Requests : CancelStart(c, o, r)
            /\ ~CancelOk(c) /\ ~CancelAmbiguous(c) /\ ~CancelFailed(c)
    BY DEF CancelStart, CancelOk, CancelAmbiguous, CancelFailed
  <2>5. ASSUME NEW w \in Runners PROVE ~ReconStart(w) /\ ~ReconFail(w) /\ ~ReconUncaught(w)
    BY DEF ReconStart, ReconFail, ReconUncaught
  <2>6. ~LockExpire /\ ~Restart
    BY DEF LockExpire, Restart
  <2> QED
    BY <2>1, <2>2, <2>3, <2>4, <2>5, <2>6, NextCases
<1> QED
  BY <1>1, Invariance, PTL DEF Spec, GateOpensOnEvidence

=============================================================================
