------------------------- MODULE VideoEaCycleProofs -------------------------
(***************************************************************************)
(* VideoEaCycle implements VideoEaPromise: whatever saves fail, whatever   *)
(* answers are lost and whenever the process restarts, for any plans of    *)
(* the planner or a client, prices and number of cycles.  The second part  *)
(* is about the planner's plans: each is sound, for every history of       *)
(* integer prices and every configuration VideoEaConfig allows.            *)
(***************************************************************************)
EXTENDS VideoEaCycle, InductionFacts, SequenceTheorems, TLAPS

\* The plans an arm request may use and the snapshots they lead to.  What Plan
\* computes and what clients post plays no part.
PlansOffered == {NoPlan} \cup {Plan(h, c) : h \in Histories, c \in Configs}
PlansMade == PlansOffered \cup ClientPlans
AllKeys == UNION {Keys(p.triggers) : p \in PlansMade}
Live == {"armed", "active", "paused"}
Snapshots ==
    [state: {"idle", "armed", "active", "paused", "invalidated"}, plan: PlansMade,
     last: Prices \cup {0}, fired: SUBSET AllKeys, cycle: Nat]

\* A snapshot in memory or in the table is of one of the first n cycles, knows
\* every trigger that an answer has reported in its cycle, and is over itself
\* when an answer has declared its cycle over.
Knows(x, n) ==
    /\ x \in Snapshots
    /\ x.cycle <= n
    /\ x.state = "idle" <=> x = IdleCycle
    /\ x.state # "idle" => x.cycle >= 1
    /\ x.fired \subseteq Keys(x.plan.triggers)
    /\ x.state \in Live => x.cycle \notin ended
    /\ x.cycle >= 1 => \A i \in 1..Len(reported[x.cycle]) : reported[x.cycle][i] \subseteq x.fired

\* The snapshot in memory knows also what was only shown.
Remembers(x) ==
    /\ x.state \in Live => x.cycle \notin closed
    /\ x.cycle >= 1 => shown[x.cycle] \subseteq x.fired

\* What was reported and declared over was shown.
ToldOK(n) ==
    /\ reported \in [Cycles -> Seq(SUBSET AllKeys)]
    /\ shown \in [Cycles -> SUBSET AllKeys]
    /\ ended \subseteq closed /\ closed \subseteq 1..n
    /\ \A c \in Cycles : \A i \in 1..Len(reported[c]) : reported[c][i] \subseteq shown[c]
    /\ \A c \in Cycles : c > n => reported[c] = <<>> /\ shown[c] = {}

LogOK ==
    /\ offered \in PlansOffered
    /\ armed \in 0..MaxCycles
    /\ faults \in 0..MaxFaults
    /\ ToldOK(armed)

CycleInv == LogOK /\ Knows(snapshot, armed) /\ Remembers(snapshot) /\ Knows(saved, armed)

\* What an answer adds to the log when n cycles have been armed: keys that its
\* own snapshot knows and that were neither reported nor shown before.
Addition(x, keys, n) ==
    /\ Knows(x, n) /\ Remembers(x)
    /\ x.state = "idle" \/ x.cycle >= 1
    /\ keys \subseteq x.fired
    /\ keys # {} =>
         /\ x.state \in Live
         /\ \A i \in 1..Len(reported[x.cycle]) : keys \cap reported[x.cycle][i] = {}
         /\ keys \cap shown[x.cycle] = {}

\* NoPlan and the idle snapshot are what a new runtime has.
LEMMA IdleFacts ==
    ASSUME armed \in Nat
    PROVE  Knows(IdleCycle, armed) /\ Remembers(IdleCycle)
<1>1. NoPlan \in PlansMade /\ NoPlan.triggers = {}
  BY DEF PlansMade, PlansOffered, NoPlan
<1>2. IdleCycle \in Snapshots
  BY <1>1 DEF IdleCycle, Snapshots
<1>3. IdleCycle.cycle = 0 /\ IdleCycle.state = "idle" /\ IdleCycle.fired = {}
  BY DEF IdleCycle
<1> QED
  BY <1>1, <1>2, <1>3 DEF Knows, Remembers, Live

\* A snapshot declares over cycles that have been armed, and never its own while
\* that runs or is paused.
LEMMA OverFacts ==
    ASSUME NEW n \in Nat, armed \in Nat, armed <= n, NEW x \in Snapshots, x.cycle <= n
    PROVE  Over(x) \subseteq 1..n /\ (x.state \in Live => x.cycle \notin Over(x))
<1>1. x.cycle \in Nat
  BY DEF Snapshots
<1>2. CASE x.state = "idle"
  BY <1>1, <1>2 DEF Over, Live
<1>3. CASE x.state = "invalidated"
  BY <1>1, <1>3 DEF Over, Live
<1>4. CASE x.state # "idle" /\ x.state # "invalidated"
  BY <1>1, <1>4 DEF Over, Live
<1> QED
  BY <1>2, <1>3, <1>4

\* What an answer shows was not shown before or stays as it was.
LEMMA ShowsMore ==
    ASSUME ToldOK(armed), armed \in Nat, NEW n \in Nat, armed <= n, n <= MaxCycles,
           NEW x \in Snapshots, x.cycle <= n, Shows(x)
    PROVE  /\ shown' \in [Cycles -> SUBSET AllKeys]
           /\ \A c \in Cycles : shown[c] \subseteq shown'[c]
           /\ x.cycle \in Cycles => shown'[x.cycle] = shown[x.cycle] \cup x.fired
           /\ closed' = closed \cup Over(x) /\ closed' \subseteq 1..n
           /\ \A c \in Cycles : c > n => shown'[c] = {}
           /\ x.state \in Live /\ x.cycle \notin closed => x.cycle \notin closed'
<1>1. x.cycle \in Nat /\ x.fired \in SUBSET AllKeys
  BY DEF Snapshots
<1>2. shown' = [c \in Cycles |-> IF c = x.cycle THEN shown[c] \cup x.fired ELSE shown[c]]
  BY DEF Shows
<1>3. shown \in [Cycles -> SUBSET AllKeys]
  BY DEF ToldOK
<1>4. shown' \in [Cycles -> SUBSET AllKeys]
  BY <1>1, <1>2, <1>3
<1>5. \A c \in Cycles : c > n => c > armed /\ c # x.cycle
  BY <1>1, CycleAssumption DEF Cycles
<1>6. \A c \in Cycles : c > n => shown'[c] = {}
  BY <1>2, <1>5 DEF ToldOK
<1>7. closed' = closed \cup Over(x)
  BY DEF Shows
<1>8. closed \subseteq 1..n
  BY DEF ToldOK
<1>9. Over(x) \subseteq 1..n /\ (x.state \in Live => x.cycle \notin Over(x))
  BY OverFacts
<1> QED
  BY <1>2, <1>4, <1>6, <1>7, <1>8, <1>9

\* A snapshot that an answer has shown still remembers all that was told.
LEMMA ShownRemembered ==
    ASSUME LogOK, NEW n \in Nat, armed <= n, n <= MaxCycles, NEW x, Knows(x, n), Remembers(x), Shows(x)
    PROVE  x.cycle >= 1 => x.cycle \in Cycles /\ shown'[x.cycle] = x.fired
<1>1. x \in Snapshots /\ x.cycle <= n /\ x.cycle \in Nat /\ armed \in Nat /\ ToldOK(armed)
  BY CycleAssumption DEF Knows, Snapshots, LogOK
<1>2. x.cycle >= 1 => x.cycle \in Cycles
  BY <1>1, CycleAssumption DEF Cycles
<1>3. x.cycle \in Cycles => shown'[x.cycle] = shown[x.cycle] \cup x.fired
  BY <1>1, ShowsMore
<1> QED
  BY <1>2, <1>3 DEF Remembers

\* An answer that appends to the log of a cycle a set of keys new to it.
NewReport(c, batch) ==
    /\ reported \in [Cycles -> Seq(SUBSET AllKeys)]
    /\ c \in Cycles /\ c \notin closed
    /\ batch \in SUBSET AllKeys
    /\ \A i \in 1..Len(reported[c]) : batch \cap reported[c][i] = {}
    /\ batch \cap shown[c] = {} /\ batch \subseteq shown'[c]
    /\ Promise!MoreShown
    /\ reported' = [reported EXCEPT ![c] = Append(@, batch)]

LogGrows(c, batch) ==
    /\ reported' \in [Cycles -> Seq(SUBSET AllKeys)]
    /\ \A d \in Cycles : d # c => reported'[d] = reported[d]
    /\ \A i \in 1..Len(reported'[c]) :
         reported'[c][i] = batch \/ (i \in 1..Len(reported[c]) /\ reported'[c][i] = reported[c][i])

\* A report appends one set of keys to the log of its cycle.
LEMMA ReportIsPromised ==
    ASSUME NEW c, NEW batch, NewReport(c, batch)
    PROVE  Promise!Report(c) /\ LogGrows(c, batch)
<1> USE DEF NewReport
<1>1. PICK log : log = reported[c]
  OBVIOUS
<1>2. log \in Seq(SUBSET AllKeys)
  BY <1>1
<1>3. PICK longer : longer = Append(log, batch)
  OBVIOUS
<1>4. /\ longer \in Seq(SUBSET AllKeys) /\ Len(longer) = Len(log) + 1
      /\ \A i \in 1..Len(log) : longer[i] = log[i]
      /\ longer[Len(log) + 1] = batch
  BY <1>2, <1>3, AppendProperties
<1>5. Len(log) \in Nat
  BY <1>2, LenProperties
<1>6. reported' = [reported EXCEPT ![c] = longer] /\ reported'[c] = longer
  BY <1>1, <1>3
<1>7. Promise!Last(reported'[c]) = batch
  BY <1>4, <1>6 DEF Promise!Last
<1>8. \A earlier \in Promise!Range(reported[c]) : batch \cap earlier = {}
  BY <1>1, <1>2, LenProperties DEF Promise!Range
<1>9. Promise!Report(c)
  BY <1>1, <1>3, <1>4, <1>6, <1>7, <1>8 DEF Promise!Report
<1>10. \A i \in 1..Len(longer) : longer[i] = batch \/ (i \in 1..Len(log) /\ longer[i] = log[i])
  BY <1>4, <1>5
<1>11. reported' \in [Cycles -> Seq(SUBSET AllKeys)] /\ \A d \in Cycles : d # c => reported'[d] = reported[d]
  BY <1>4, <1>6
<1> QED
  BY <1>1, <1>6, <1>9, <1>10, <1>11 DEF LogGrows

\* The end of a request, however it is saved and answered, keeps the invariant
\* and is a step of the promise.
LEMMA AnswerStep ==
    ASSUME CycleInv, NEW x, NEW keys, NEW n \in 0..MaxCycles, armed <= n,
           Addition(x, keys, n), armed' = n, offered' = offered, SaveAndAnswer(x, keys)
    PROVE  CycleInv' /\ Promise!Next
<1>1. PICK outcome \in {"answered", "lost", "unsaved"} :
        /\ outcome # "answered" => faults < MaxFaults
        /\ faults' = IF outcome = "answered" THEN faults ELSE faults + 1
        /\ saved' = IF outcome = "unsaved" THEN saved ELSE x
        /\ IF outcome = "answered"
           THEN /\ reported' = IF keys = {} THEN reported
                               ELSE [reported EXCEPT ![x.cycle] = Append(@, keys)]
                /\ ended' = ended \cup Over(x)
                /\ Shows(x)
           ELSE UNCHANGED toldVars
  BY DEF SaveAndAnswer
<1>2. snapshot' = x
  BY DEF SaveAndAnswer
<1>3. faults' \in 0..MaxFaults
  BY <1>1, CycleAssumption DEF CycleInv, LogOK
<1>4. armed \in Nat /\ n \in Nat /\ MaxCycles \in Nat /\ n <= MaxCycles
  BY CycleAssumption DEF CycleInv, LogOK
<1>5. Knows(saved, n)
  BY <1>4 DEF CycleInv, Knows, Snapshots
<1>6. ToldOK(armed) /\ ToldOK(n)
  <2>1. ToldOK(armed)
    BY DEF CycleInv, LogOK
  <2>2. 1..armed \subseteq 1..n /\ \A c \in Cycles : c > n => c > armed
    BY <1>4 DEF Cycles
  <2>3. closed \subseteq 1..n /\ \A c \in Cycles : c > n => reported[c] = <<>> /\ shown[c] = {}
    BY <2>1, <2>2 DEF ToldOK
  <2> QED
    BY <2>1, <2>3 DEF ToldOK
<1>7. x \in Snapshots /\ x.cycle \in Nat /\ x.cycle <= n /\ Knows(x, n) /\ Remembers(x) /\ LogOK
  BY DEF Addition, Knows, Snapshots, CycleInv
<1>8. CASE outcome # "answered"
  <2>1. UNCHANGED <<offered, reported, ended, shown, closed>>
    BY <1>1, <1>8 DEF toldVars
  <2>2. LogOK'
    BY <1>3, <1>6, <2>1 DEF CycleInv, LogOK, ToldOK
  <2>3. Knows(snapshot, armed)' /\ Knows(saved, armed)' /\ Remembers(snapshot)'
    BY <1>1, <1>2, <1>5, <1>7, <2>1 DEF Knows, Remembers
  <2>4. Promise!Show
    BY <2>1 DEF Promise!Show, Promise!MoreShown
  <2> QED
    BY <2>2, <2>3, <2>4 DEF CycleInv, Promise!Next
<1>9. CASE outcome = "answered"
  <2>1. /\ reported' = (IF keys = {} THEN reported ELSE [reported EXCEPT ![x.cycle] = Append(@, keys)])
        /\ ended' = ended \cup Over(x) /\ Shows(x) /\ saved' = x
    BY <1>1, <1>9
  <2>2. /\ shown' \in [Cycles -> SUBSET AllKeys]
        /\ \A c \in Cycles : shown[c] \subseteq shown'[c]
        /\ closed' = closed \cup Over(x) /\ closed' \subseteq 1..n
        /\ \A c \in Cycles : c > n => shown'[c] = {}
        /\ x.state \in Live /\ x.cycle \notin closed => x.cycle \notin closed'
    BY <1>4, <1>6, <1>7, <2>1, ShowsMore
  <2>3. x.cycle >= 1 => x.cycle \in Cycles /\ shown'[x.cycle] = x.fired
    BY <1>4, <1>7, <2>1, ShownRemembered
  <2>4. ended' \subseteq closed' /\ Promise!MoreShown
    BY <1>6, <2>1, <2>2 DEF ToldOK, Promise!MoreShown
  <2>5. x.state \in Live => x.cycle \notin closed' /\ x.cycle \notin ended'
    BY <1>7, <2>2, <2>4 DEF Remembers
  <2>6. CASE keys = {}
    <3>1. reported' = reported
      BY <2>1, <2>6
    <3>2. ToldOK(armed)'
      BY <1>6, <2>2, <2>4, <3>1 DEF ToldOK
    <3>3. Knows(snapshot, armed)' /\ Knows(saved, armed)' /\ Remembers(snapshot)'
      BY <1>2, <1>7, <2>1, <2>3, <2>5, <3>1 DEF Knows, Remembers
    <3>4. LogOK'
      BY <1>3, <1>7, <3>2 DEF LogOK
    <3>5. Promise!Show
      BY <2>4, <3>1 DEF Promise!Show
    <3> QED
      BY <3>3, <3>4, <3>5 DEF CycleInv, Promise!Next
  <2>7. CASE keys # {}
    <3>1. PICK c : c = x.cycle
      OBVIOUS
    <3>2. /\ x.state \in Live /\ keys \subseteq x.fired /\ x.fired \in SUBSET AllKeys
          /\ \A i \in 1..Len(reported[c]) : keys \cap reported[c][i] = {}
          /\ keys \cap shown[c] = {} /\ c >= 1
      BY <2>7, <3>1 DEF Addition, Knows, Snapshots, Live
    <3>3. c \in Cycles /\ shown'[c] = x.fired /\ c \notin closed
      BY <2>3, <3>1, <3>2, <1>7 DEF Remembers
    <3>4. reported' = [reported EXCEPT ![c] = Append(@, keys)]
      BY <2>1, <2>7, <3>1
    <3>5. reported \in [Cycles -> Seq(SUBSET AllKeys)] /\ keys \in SUBSET AllKeys
      BY <1>6, <3>2 DEF ToldOK
    <3>6. /\ Promise!Report(c)
          /\ reported' \in [Cycles -> Seq(SUBSET AllKeys)]
          /\ \A d \in Cycles : d # c => reported'[d] = reported[d]
          /\ \A i \in 1..Len(reported'[c]) :
               reported'[c][i] = keys \/ (i \in 1..Len(reported[c]) /\ reported'[c][i] = reported[c][i])
      <4>1. keys \subseteq shown'[c] /\ Promise!MoreShown
        BY <2>4, <3>2, <3>3
      <4>2. /\ keys \cap shown[c] = {} /\ c \in Cycles /\ c \notin closed
            /\ \A i \in 1..Len(reported[c]) : keys \cap reported[c][i] = {}
        BY <3>2, <3>3
      <4>3. NewReport(c, keys)
        BY <3>4, <3>5, <4>1, <4>2 DEF NewReport
      <4> QED
        BY <4>3, ReportIsPromised DEF LogGrows
    <3>7. \A d \in Cycles : \A i \in 1..Len(reported'[d]) : reported'[d][i] \subseteq shown'[d]
      <4> SUFFICES ASSUME NEW d \in Cycles, NEW i \in 1..Len(reported'[d])
                   PROVE  reported'[d][i] \subseteq shown'[d]
        OBVIOUS
      <4>1. \A k \in 1..Len(reported[d]) : reported[d][k] \subseteq shown'[d]
        BY <1>6, <2>2 DEF ToldOK
      <4>2. CASE d = c
        BY <3>2, <3>3, <3>6, <4>1, <4>2
      <4>3. CASE d # c
        BY <3>6, <4>1, <4>3
      <4> QED
        BY <4>2, <4>3
    <3>8. \A d \in Cycles : d > n => reported'[d] = <<>>
      <4> SUFFICES ASSUME NEW d \in Cycles, d > n PROVE reported'[d] = <<>>
        OBVIOUS
      <4>1. d # c
        BY <1>4, <1>7, <3>1 DEF Cycles
      <4> QED
        BY <1>6, <3>6, <4>1 DEF ToldOK
    <3>9. ToldOK(armed)'
      BY <2>2, <2>4, <3>6, <3>7, <3>8 DEF ToldOK
    <3>10. \A i \in 1..Len(reported'[c]) : reported'[c][i] \subseteq x.fired
      BY <3>3, <3>7
    <3>11. Knows(snapshot, armed)' /\ Knows(saved, armed)' /\ Remembers(snapshot)'
      BY <1>2, <1>7, <2>1, <2>3, <2>5, <3>1, <3>10 DEF Knows, Remembers
    <3>12. LogOK'
      BY <1>3, <1>7, <3>9 DEF LogOK
    <3> QED
      BY <3>3, <3>6, <3>11, <3>12 DEF CycleInv, Promise!Next
  <2> QED
    BY <2>6, <2>7
<1> QED
  BY <1>8, <1>9

-----------------------------------------------------------------------------
(* The requests.                                                           *)

\* A request whose snapshot differs from the one in memory in its state and last
\* price only, and that names no trigger.
LEMMA SilentStep ==
    ASSUME CycleInv, NEW x \in Snapshots,
           x.plan = snapshot.plan, x.fired = snapshot.fired, x.cycle = snapshot.cycle,
           x.state # "idle", snapshot.state # "idle",
           x.state \in Live => snapshot.state \in Live,
           SaveAndAnswer(x, {}), UNCHANGED <<offered, armed>>
    PROVE  CycleInv' /\ Promise!Next
<1>1. /\ Knows(snapshot, armed) /\ Remembers(snapshot) /\ armed \in 0..MaxCycles /\ armed <= armed
      /\ MaxCycles \in Nat
  BY CycleAssumption DEF CycleInv, LogOK
<1>2. x.state = "idle" <=> x = IdleCycle
  BY DEF IdleCycle
<1>3. Knows(x, armed) /\ Remembers(x)
  BY <1>1, <1>2 DEF Knows, Remembers
<1>4. Addition(x, {}, armed)
  BY <1>1, <1>3 DEF Addition, Knows
<1> QED
  BY <1>1, <1>4, AnswerStep

\* A request that leaves the snapshot as it is.
LEMMA SameStep ==
    ASSUME CycleInv, SaveAndAnswer(snapshot, {}), UNCHANGED <<offered, armed>>
    PROVE  CycleInv' /\ Promise!Next
<1>1. /\ Knows(snapshot, armed) /\ Remembers(snapshot) /\ armed \in 0..MaxCycles /\ armed <= armed
      /\ MaxCycles \in Nat
  BY CycleAssumption DEF CycleInv, LogOK
<1>2. Addition(snapshot, {}, armed)
  BY <1>1 DEF Addition, Knows
<1> QED
  BY <1>1, <1>2, AnswerStep

\* The state endpoint only shows what memory has.
LEMMA ShowStep ==
    ASSUME CycleInv, ShowState
    PROVE  CycleInv' /\ Promise!Next
<1>1. /\ Shows(snapshot)
      /\ UNCHANGED <<offered, snapshot, saved, armed, reported, ended, faults>>
  BY DEF ShowState
<1>2. /\ LogOK /\ ToldOK(armed) /\ armed \in Nat /\ armed <= armed /\ armed <= MaxCycles
      /\ Knows(snapshot, armed) /\ Remembers(snapshot) /\ snapshot \in Snapshots /\ snapshot.cycle <= armed
  BY CycleAssumption DEF CycleInv, LogOK, Knows
<1>3. /\ shown' \in [Cycles -> SUBSET AllKeys]
      /\ \A c \in Cycles : shown[c] \subseteq shown'[c]
      /\ closed' = closed \cup Over(snapshot) /\ closed' \subseteq 1..armed
      /\ \A c \in Cycles : c > armed => shown'[c] = {}
      /\ snapshot.state \in Live /\ snapshot.cycle \notin closed => snapshot.cycle \notin closed'
  BY <1>1, <1>2, ShowsMore
<1>4. snapshot.cycle >= 1 => snapshot.cycle \in Cycles /\ shown'[snapshot.cycle] = snapshot.fired
  BY <1>1, <1>2, ShownRemembered
<1>5. Remembers(snapshot)'
  BY <1>1, <1>2, <1>3, <1>4 DEF Remembers
<1>6. ToldOK(armed)'
  BY <1>1, <1>2, <1>3 DEF ToldOK
<1>7. CycleInv'
  BY <1>1, <1>5, <1>6 DEF CycleInv, LogOK, Knows
<1>8. Promise!Show
  BY <1>1, <1>3 DEF Promise!Show, Promise!MoreShown
<1> QED
  BY <1>7, <1>8 DEF Promise!Next

\* arm starts a cycle with a number of its own.
LEMMA ArmStep ==
    ASSUME CycleInv, NEW plan \in PlansMade, NEW price \in Prices, Arm(plan, price)
    PROVE  CycleInv' /\ Promise!Next
<1>1. PICK x : x = [state |-> "armed", plan |-> plan, last |-> price, fired |-> {},
                    cycle |-> armed + 1]
  OBVIOUS
<1>2. armed \in 0..MaxCycles /\ MaxCycles \in Nat /\ armed < MaxCycles /\ armed' = armed + 1
  BY CycleAssumption DEF CycleInv, LogOK, Arm
<1>3. /\ x.state = "armed" /\ x.fired = {} /\ x.cycle = armed + 1 /\ x.plan = plan
      /\ x \in Snapshots
  BY <1>1, <1>2 DEF Snapshots
<1>4. armed + 1 \in Cycles /\ armed + 1 \in 0..MaxCycles /\ armed + 1 > armed /\ armed <= armed + 1
  BY <1>2 DEF Cycles
<1>5. reported[armed + 1] = <<>> /\ shown[armed + 1] = {}
  BY <1>4 DEF CycleInv, LogOK, ToldOK
<1>6. armed + 1 \notin ended /\ armed + 1 \notin closed
  BY <1>2 DEF CycleInv, LogOK, ToldOK
<1>7. Knows(x, armed + 1) /\ Remembers(x)
  <2>1. x # IdleCycle
    BY <1>3 DEF IdleCycle
  <2>2. Len(reported[armed + 1]) = 0
    BY <1>5, EmptySeq
  <2> QED
    BY <1>2, <1>3, <1>5, <1>6, <2>1, <2>2 DEF Knows, Remembers
<1>8. Addition(x, {}, armed + 1)
  BY <1>2, <1>3, <1>7 DEF Addition
<1>9. SaveAndAnswer(x, {}) /\ offered' = offered
  BY <1>1 DEF Arm
<1> QED
  BY <1>2, <1>4, <1>8, <1>9, AnswerStep

\* on_price reports the crossings that the snapshot has not seen.
LEMMA ObserveStep ==
    ASSUME CycleInv, NEW price \in Prices, OnPriceObserves(price)
    PROVE  CycleInv' /\ Promise!Next
<1>1. PICK fresh : fresh = Fresh(price)
  OBVIOUS
<1>2. PICK x : x = [snapshot EXCEPT !.last = price, !.fired = @ \cup fresh,
                                    !.state = IF fresh = {} THEN @ ELSE "active"]
  OBVIOUS
<1>3. SaveAndAnswer(x, fresh) /\ UNCHANGED <<offered, armed>> /\ Running
  BY <1>1, <1>2 DEF OnPriceObserves
<1>4. fresh \subseteq Keys(snapshot.plan.triggers) /\ fresh \cap snapshot.fired = {}
  BY <1>1 DEF Fresh, Activate, Keys
<1>5. /\ Knows(snapshot, armed) /\ Remembers(snapshot) /\ snapshot \in Snapshots
      /\ snapshot.fired \subseteq AllKeys /\ snapshot.plan \in PlansMade
      /\ armed \in 0..MaxCycles /\ MaxCycles \in Nat /\ armed <= armed
  BY CycleAssumption DEF CycleInv, LogOK, Knows, Snapshots
<1>6. fresh \subseteq AllKeys
  BY <1>4, <1>5 DEF AllKeys
<1>7. /\ x \in Snapshots /\ x.plan = snapshot.plan /\ x.cycle = snapshot.cycle
      /\ x.fired = snapshot.fired \cup fresh /\ x.state \in {"armed", "active"}
  BY <1>2, <1>3, <1>5, <1>6 DEF Snapshots, Running
<1>8. /\ snapshot.cycle >= 1 /\ snapshot.cycle \notin ended /\ snapshot.cycle \notin closed
      /\ shown[x.cycle] \subseteq snapshot.fired
  BY <1>3, <1>5, <1>7 DEF Knows, Remembers, Running, Live
<1>9. \A i \in 1..Len(reported[x.cycle]) : reported[x.cycle][i] \subseteq snapshot.fired
  BY <1>5, <1>7, <1>8 DEF Knows
<1>10. Knows(x, armed) /\ Remembers(x)
  <2>1. x # IdleCycle
    BY <1>7 DEF IdleCycle
  <2> QED
    BY <1>4, <1>5, <1>7, <1>8, <1>9, <2>1 DEF Knows, Remembers
<1>11. Addition(x, fresh, armed)
  BY <1>4, <1>7, <1>8, <1>9, <1>10 DEF Addition, Live
<1> QED
  BY <1>3, <1>5, <1>11, AnswerStep

\* A restart takes back only what was shown of an unsaved change.
LEMMA RestartStep ==
    ASSUME CycleInv, CycleRestart
    PROVE  CycleInv' /\ Promise!Next
<1>1. /\ snapshot' = saved /\ UNCHANGED <<offered, saved, armed, reported, ended>>
      /\ faults < MaxFaults /\ faults' = faults + 1
      /\ shown' = [c \in Cycles |-> IF c = saved.cycle THEN shown[c] \cap saved.fired ELSE shown[c]]
      /\ closed' = (IF saved.state \in {"idle", "invalidated"} THEN closed ELSE closed \ {saved.cycle})
  BY DEF CycleRestart, TakesBack
<1>2. ToldOK(armed) /\ Knows(saved, armed) /\ saved \in Snapshots /\ saved.cycle \in Nat
      /\ armed \in Nat /\ armed <= MaxCycles /\ MaxCycles \in Nat /\ saved.cycle <= armed
  BY CycleAssumption DEF CycleInv, LogOK, Knows, Snapshots
<1>3. /\ shown \in [Cycles -> SUBSET AllKeys] /\ shown' \in [Cycles -> SUBSET AllKeys]
      /\ \A c \in Cycles : shown'[c] \subseteq shown[c]
      /\ closed' \subseteq closed
  BY <1>1, <1>2 DEF ToldOK
<1>4. \A c \in Cycles : \A i \in 1..Len(reported[c]) : reported[c][i] \subseteq shown'[c]
  <2> SUFFICES ASSUME NEW c \in Cycles, NEW i \in 1..Len(reported[c]) PROVE reported[c][i] \subseteq shown'[c]
    OBVIOUS
  <2>1. reported[c][i] \subseteq shown[c]
    BY <1>2 DEF ToldOK
  <2>2. CASE c = saved.cycle
    <3>1. saved.cycle >= 1
      BY <2>2 DEF Cycles
    <3>2. reported[c][i] \subseteq saved.fired
      BY <1>2, <2>2, <3>1 DEF Knows
    <3> QED
      BY <1>1, <2>1, <2>2, <3>2
  <2>3. CASE c # saved.cycle
    BY <1>1, <2>1, <2>3
  <2> QED
    BY <2>2, <2>3
<1>5. ended \subseteq closed'
  <2>1. ended \subseteq closed
    BY <1>2 DEF ToldOK
  <2>2. CASE saved.state \in {"idle", "invalidated"}
    BY <1>1, <2>1, <2>2
  <2>3. CASE saved.state \notin {"idle", "invalidated"}
    <3>1. saved.state \in Live
      BY <1>2, <2>3 DEF Snapshots, Live
    <3>2. saved.cycle \notin ended
      BY <1>2, <3>1 DEF Knows
    <3> QED
      BY <1>1, <2>1, <2>3, <3>2
  <2> QED
    BY <2>2, <2>3
<1>6. ToldOK(armed)'
  <2>1. closed' \subseteq 1..armed /\ \A c \in Cycles : c > armed => reported[c] = <<>> /\ shown'[c] = {}
    BY <1>2, <1>3 DEF ToldOK
  <2> QED
    BY <1>1, <1>2, <1>3, <1>4, <1>5, <2>1 DEF ToldOK
<1>7. Remembers(snapshot)'
  <2>1. saved.cycle >= 1 => saved.cycle \in Cycles
    BY <1>2 DEF Cycles
  <2>2. saved.cycle >= 1 => shown'[saved.cycle] \subseteq saved.fired
    BY <1>1, <2>1
  <2>3. saved.state \in Live => saved.cycle \notin closed'
    BY <1>1 DEF Live
  <2> QED
    BY <1>1, <2>2, <2>3 DEF Remembers
<1>8. CycleInv'
  <2>1. faults' \in 0..MaxFaults
    BY <1>1, CycleAssumption DEF CycleInv, LogOK
  <2>2. LogOK'
    BY <1>1, <1>6, <2>1 DEF CycleInv, LogOK
  <2>3. Knows(snapshot, armed)' /\ Knows(saved, armed)'
    BY <1>1, <1>2 DEF Knows
  <2> QED
    BY <1>7, <2>2, <2>3 DEF CycleInv
<1>9. CASE snapshot = saved
  <2>1. Remembers(saved)
    BY <1>9 DEF CycleInv
  <2>2. \A c \in Cycles : shown'[c] = shown[c]
    <3> SUFFICES ASSUME NEW c \in Cycles PROVE shown'[c] = shown[c]
      OBVIOUS
    <3>1. CASE c = saved.cycle
      <4>1. saved.cycle >= 1
        BY <3>1 DEF Cycles
      <4>2. shown[c] \subseteq saved.fired
        BY <2>1, <3>1, <4>1 DEF Remembers
      <4> QED
        BY <1>1, <3>1, <4>2
    <3>2. CASE c # saved.cycle
      BY <1>1, <3>2
    <3> QED
      BY <3>1, <3>2
  <2>3. closed' = closed
    <3>1. CASE saved.state \in {"idle", "invalidated"}
      BY <1>1, <3>1
    <3>2. CASE saved.state \notin {"idle", "invalidated"}
      <4>1. saved.state \in Live
        BY <1>2, <3>2 DEF Snapshots, Live
      <4>2. saved.cycle \notin closed
        BY <2>1, <4>1 DEF Remembers
      <4> QED
        BY <1>1, <3>2, <4>2
    <3> QED
      BY <3>1, <3>2
  <2>4. Promise!Show
    BY <1>1, <2>2, <2>3 DEF Promise!Show, Promise!MoreShown
  <2> QED
    BY <1>8, <2>4 DEF Promise!Next
<1>10. CASE snapshot # saved
  <2>1. \A c \in Cycles : \A batch \in Promise!Range(reported[c]) : batch \subseteq shown'[c]
    <3>1. \A c \in Cycles : reported[c] \in Seq(SUBSET AllKeys)
      BY <1>2 DEF ToldOK
    <3>2. \A c \in Cycles : DOMAIN reported[c] = 1..Len(reported[c])
      BY <3>1, LenProperties
    <3> QED
      BY <1>4, <3>2 DEF Promise!Range
  <2>2. Promise!Withdraw
    BY <1>1, <1>3, <1>5, <1>10, <2>1 DEF Promise!Withdraw
  <2> QED
    BY <1>8, <2>2 DEF Promise!Next
<1> QED
  BY <1>9, <1>10

\* Every request and every restart keeps the invariant and the promise.
LEMMA CycleStep ==
    ASSUME CycleInv, [CycleNext]_cycleVars
    PROVE  CycleInv' /\ [Promise!Next]_Promise!vars
<1>1. CASE UNCHANGED cycleVars
  <2>1. UNCHANGED <<offered, snapshot, saved, armed, reported, ended, shown, closed, faults>>
    BY <1>1 DEF cycleVars, toldVars
  <2>2. CycleInv'
    BY <2>1 DEF CycleInv, LogOK, ToldOK, Knows, Remembers
  <2> QED
    BY <2>1, <2>2 DEF Promise!vars
<1>2. ASSUME NEW h \in Histories, NEW c \in Configs, RequestPlan(h, c)
      PROVE  CycleInv' /\ Promise!Next
  <2>1. offered' \in PlansOffered
    BY <1>2 DEF RequestPlan, PlansOffered
  <2>2. UNCHANGED <<snapshot, saved, armed, reported, ended, shown, closed, faults>>
    BY <1>2 DEF RequestPlan, toldVars
  <2>3. CycleInv'
    BY <2>1, <2>2 DEF CycleInv, LogOK, ToldOK, Knows, Remembers
  <2>4. Promise!Show
    BY <2>2 DEF Promise!Show, Promise!MoreShown
  <2> QED
    BY <2>3, <2>4 DEF Promise!Next
<1>3. ASSUME NEW p \in Prices, NEW plan \in {offered} \cup ClientPlans, Arm(plan, p)
      PROVE  CycleInv' /\ Promise!Next
  <2>1. plan \in PlansMade
    BY DEF CycleInv, LogOK, PlansMade
  <2> QED
    BY <1>3, <2>1, ArmStep
<1>4. ASSUME NEW p \in Prices, OnPriceInvalidates(p)
      PROVE  CycleInv' /\ Promise!Next
  <2>1. PICK x : x = [snapshot EXCEPT !.state = "invalidated", !.last = p]
    OBVIOUS
  <2>2. /\ SaveAndAnswer(x, {}) /\ UNCHANGED <<offered, armed>>
        /\ snapshot.state # "idle" /\ snapshot \in Snapshots
    BY <1>4, <2>1 DEF OnPriceInvalidates, Running, CycleInv, Knows
  <2>3. /\ x \in Snapshots /\ x.plan = snapshot.plan /\ x.fired = snapshot.fired
        /\ x.cycle = snapshot.cycle /\ x.state = "invalidated"
    BY <2>1, <2>2 DEF Snapshots
  <2> QED
    BY <2>2, <2>3, SilentStep DEF Live
<1>5. ASSUME NEW p \in Prices, OnPriceObserves(p)
      PROVE  CycleInv' /\ Promise!Next
  BY <1>5, ObserveStep
<1>6. CASE OnPriceIgnored
  BY <1>6, SameStep DEF OnPriceIgnored
<1>7. CASE PauseCycle
  <2>1. CASE ~Running
    BY <1>7, <2>1, SameStep DEF PauseCycle
  <2>2. CASE Running
    <3>1. PICK x : x = [snapshot EXCEPT !.state = "paused"]
      OBVIOUS
    <3>2. /\ SaveAndAnswer(x, {}) /\ UNCHANGED <<offered, armed>>
          /\ snapshot.state \in {"armed", "active"} /\ snapshot \in Snapshots
      BY <1>7, <2>2, <3>1 DEF PauseCycle, Running, CycleInv, Knows
    <3>3. /\ x \in Snapshots /\ x.plan = snapshot.plan /\ x.fired = snapshot.fired
          /\ x.cycle = snapshot.cycle /\ x.state = "paused"
      BY <3>1, <3>2 DEF Snapshots
    <3> QED
      BY <3>2, <3>3, SilentStep DEF Live
  <2> QED
    BY <2>1, <2>2
<1>8. CASE ResumeCycle
  <2>1. CASE snapshot.state # "paused"
    BY <1>8, <2>1, SameStep DEF ResumeCycle
  <2>2. CASE snapshot.state = "paused"
    <3>1. PICK x : x = [snapshot EXCEPT !.state = "armed"]
      OBVIOUS
    <3>2. /\ SaveAndAnswer(x, {}) /\ UNCHANGED <<offered, armed>>
          /\ snapshot \in Snapshots
      BY <1>8, <2>2, <3>1 DEF ResumeCycle, CycleInv, Knows
    <3>3. /\ x \in Snapshots /\ x.plan = snapshot.plan /\ x.fired = snapshot.fired
          /\ x.cycle = snapshot.cycle /\ x.state = "armed"
      BY <3>1, <3>2 DEF Snapshots
    <3> QED
      BY <2>2, <3>2, <3>3, SilentStep DEF Live
  <2> QED
    BY <2>1, <2>2
<1>9. CASE Reset
  <2>1. armed \in 0..MaxCycles /\ MaxCycles \in Nat /\ armed <= armed /\ armed \in Nat
    BY CycleAssumption DEF CycleInv, LogOK
  <2>2. Knows(IdleCycle, armed) /\ Remembers(IdleCycle) /\ IdleCycle.state = "idle"
    BY <2>1, IdleFacts DEF IdleCycle
  <2>3. Addition(IdleCycle, {}, armed)
    BY <2>2 DEF Addition
  <2> QED
    BY <1>9, <2>1, <2>3, AnswerStep DEF Reset
<1>10. CASE ShowState
  BY <1>10, ShowStep
<1>11. CASE CycleRestart
  BY <1>11, RestartStep
<1> QED
  BY <1>1, <1>2, <1>3, <1>4, <1>5, <1>6, <1>7, <1>8, <1>9, <1>10, <1>11 DEF CycleNext

\* A new runtime satisfies the invariant.
LEMMA CycleStart == CycleInit => CycleInv
<1> SUFFICES ASSUME CycleInit PROVE CycleInv
  OBVIOUS
<1>1. NoPlan \in PlansOffered
  BY DEF PlansOffered
<1>2. <<>> \in Seq(SUBSET AllKeys) /\ Len(<<>>) = 0
  BY EmptySeq
<1>3. ToldOK(armed)
  BY <1>2 DEF CycleInit, ToldOK
<1>4. LogOK /\ armed \in Nat
  BY <1>1, <1>3, CycleAssumption DEF CycleInit, LogOK
<1>5. Knows(IdleCycle, armed) /\ Remembers(IdleCycle)
  BY <1>4, IdleFacts
<1> QED
  BY <1>4, <1>5 DEF CycleInit, CycleInv

\* The state of the runtime is well formed: in memory and in the table only
\* triggers of the snapshot's own plan have fired, and no cycle is unknown.
THEOREM CycleTypeCorrect == CycleSpec => []CycleTypeOK
<1>1. CycleInv => CycleTypeOK
  <2> SUFFICES ASSUME CycleInv PROVE CycleTypeOK
    OBVIOUS
  <2>1. armed \in 0..MaxCycles /\ MaxCycles \in Nat /\ ended \subseteq closed /\ closed \subseteq Cycles
    BY CycleAssumption DEF CycleInv, LogOK, ToldOK, Cycles
  <2> QED
    BY <2>1 DEF CycleInv, LogOK, Knows, Snapshots, CycleTypeOK
<1> QED
  BY <1>1, CycleStart, CycleStep, PTL DEF CycleSpec

\* The runtime implements its promise (on_price, arm, reset, save, restore and
\* the state endpoint): a trigger is reported at most once in its cycle, never
\* after an answer has shown it fired and never in a cycle shown to be over;
\* all a restart takes back is what was shown of a save that failed.
THEOREM CycleKeepsPromise == CycleSpec => KeepsPromise
<1>1. CycleInit => Promise!Init
  BY DEF CycleInit, Promise!Init
<1> QED
  BY <1>1, CycleStart, CycleStep, PTL DEF CycleSpec, KeepsPromise, Promise!Spec

-----------------------------------------------------------------------------
(* The plans.                                                              *)

\* The candles of a history and the configurations, as PlannerAssumption has them.
CandleShapes == [open: Int, high: Int, low: Int, close: Int]
ConfigShapes ==
    [mode: {"pa_filtered", "symmetric_research"},
     profile: {"set_equity", "tfex_research", "generic_research"},
     lookback: Nat \ {0}, pivot: Nat \ {0}, atrPeriod: Nat \ {0}, buffer: Nat, tolerance: Nat,
     zone: Nat, wick: Nat, step: Nat, tick: Nat \ {0}, lower: Nat, upper: Nat, levels: Nat \ {0},
     quantity: Nat \ {0}, maxQuantity: Nat, maxPending: Nat, stop: Nat, confirm: BOOLEAN]

\* Rounding to a tick moves a value by at most half a tick, or up to one tick, and
\* commutes with steps of whole ticks.
LEMMA RoundFacts ==
    ASSUME NEW v \in Int, NEW tick \in Nat \ {0}
    PROVE  \E r \in Int :
             /\ RoundToTick(v, tick) = Greater(tick, r * tick) /\ r = (v + tick \div 2) \div tick
             /\ RoundToTick(v, tick) \in Int /\ RoundToTick(v, tick) >= tick
             /\ r * tick \in Int /\ r * tick > v - tick /\ r * tick < v + tick
             /\ RoundToTick(v, tick) >= r * tick
             /\ RoundToTick(v, tick) > tick => RoundToTick(v, tick) = r * tick
<1>1. PICK h : h = tick \div 2
  OBVIOUS
<1>2. h \in Int /\ 0 <= h /\ h < tick
  BY <1>1
<1>3. PICK r : r = (v + h) \div tick
  OBVIOUS
<1>4. r \in Int
  BY <1>2, <1>3
<1>5. PICK m : m = r * tick
  OBVIOUS
<1>6. m \in Int
  BY <1>4, <1>5
<1>7. m <= v + h /\ v + h < m + tick
  BY <1>2, <1>3, <1>5
<1>8. RoundToTick(v, tick) = Greater(tick, m)
  BY <1>1, <1>3, <1>5 DEF RoundToTick
<1>9. /\ Greater(tick, m) \in Int /\ Greater(tick, m) >= tick /\ Greater(tick, m) >= m
      /\ Greater(tick, m) > tick => Greater(tick, m) = m
  BY <1>6 DEF Greater
<1>10. m > v - tick /\ m < v + tick
  BY <1>2, <1>6, <1>7
<1> QED
  BY <1>1, <1>3, <1>4, <1>5, <1>6, <1>8, <1>9, <1>10

\* The greatest element of a bounded set of natural numbers.
LEMMA MaxFacts ==
    ASSUME NEW S, S \subseteq Nat, S # {}, NEW n \in Nat, \A x \in S : x <= n
    PROVE  Max(S) \in S
<1>1. PICK D : D = {d \in Nat : n - d \in S}
  OBVIOUS
<1>2. D # {}
  <2>1. PICK x \in S : TRUE
    OBVIOUS
  <2>2. n - x \in Nat /\ n - (n - x) = x
    BY <2>1
  <2> QED
    BY <1>1, <2>1, <2>2
<1>3. PICK d \in D : \A e \in D : d <= e
  BY <1>1, <1>2, LeastNat
<1>4. n - d \in S /\ d \in Nat
  BY <1>1, <1>3
<1>5. ASSUME NEW y \in S PROVE n - d >= y
  <2>1. y \in Nat /\ y <= n
    BY <1>5
  <2>2. n - y \in Nat /\ n - (n - y) = y
    BY <2>1
  <2>3. n - y \in D
    BY <1>1, <2>2
  <2>4. d <= n - y
    BY <1>3, <2>3
  <2> QED
    BY <1>4, <2>1, <2>4
<1>6. \E x \in S : \A y \in S : x >= y
  BY <1>4, <1>5
<1> QED
  BY <1>6 DEF Max

\* The least element of a set of natural numbers.
LEMMA MinFacts ==
    ASSUME NEW S, S \subseteq Nat, S # {}
    PROVE  Min(S) \in S
<1>1. \E x \in S : \A y \in S : x <= y
  BY LeastNat
<1> QED
  BY <1>1 DEF Min

\* A history and its mirror image have integer prices.
LEMMA FlipFacts ==
    ASSUME NEW candles \in Seq(CandleShapes)
    PROVE  /\ Flip(candles) \in Seq(CandleShapes) /\ Len(Flip(candles)) = Len(candles)
           /\ Len(candles) \in Nat
           /\ \A i \in 1..Len(candles) :
                /\ candles[i].open \in Int /\ candles[i].high \in Int
                /\ candles[i].low \in Int /\ candles[i].close \in Int
<1>1. Len(candles) \in Nat /\ DOMAIN candles = 1..Len(candles)
  BY LenProperties
<1>2. \A i \in 1..Len(candles) :
        /\ candles[i].open \in Int /\ candles[i].high \in Int
        /\ candles[i].low \in Int /\ candles[i].close \in Int
  <2> SUFFICES ASSUME NEW i \in 1..Len(candles) PROVE candles[i] \in CandleShapes
    BY DEF CandleShapes
  <2> QED
    BY ElementOfSeq
<1>3. PICK n : n = Len(candles)
  OBVIOUS
<1>4. \A i \in 1..n : [open |-> -candles[i].open, high |-> -candles[i].low,
                       low |-> -candles[i].high, close |-> -candles[i].close] \in CandleShapes
  <2> SUFFICES ASSUME NEW i \in 1..n
               PROVE  [open |-> -candles[i].open, high |-> -candles[i].low,
                       low |-> -candles[i].high, close |-> -candles[i].close] \in CandleShapes
    OBVIOUS
  <2>1. /\ -candles[i].open \in Int /\ -candles[i].low \in Int
        /\ -candles[i].high \in Int /\ -candles[i].close \in Int
    BY <1>2, <1>3
  <2> QED
    BY <2>1 DEF CandleShapes
<1>5. Flip(candles) \in [1..n -> CandleShapes]
  BY <1>1, <1>3, <1>4 DEF Flip
<1>6. Flip(candles) \in Seq(CandleShapes)
  BY <1>1, <1>3, <1>5, SeqDef
<1>7. Len(Flip(candles)) = n
  <2>1. DOMAIN Flip(candles) = 1..n /\ DOMAIN Flip(candles) = 1..Len(Flip(candles))
    BY <1>5, <1>6, LenProperties
  <2>2. Len(Flip(candles)) \in Nat
    BY <1>6, LenProperties
  <2> QED
    BY <1>1, <1>3, <2>1, <2>2
<1> QED
  BY <1>1, <1>2, <1>3, <1>6, <1>7

\* The average true range is an integer.
LEMMA AtrType ==
    ASSUME NEW candles \in Seq(CandleShapes), NEW period \in Nat \ {0}, Len(candles) >= period + 2
    PROVE  Atr(candles, period) \in Int
<1>1. PICK n, f : n = Len(candles) /\ f = [i \in 2..n |-> TrueRange(candles[i - 1], candles[i])]
  OBVIOUS
<1>2. n \in Nat
  BY <1>1, FlipFacts
<1>3. ASSUME NEW i \in 2..n PROVE TrueRange(candles[i - 1], candles[i]) \in Int
  <2>1. i \in 1..n /\ i - 1 \in 1..n
    BY <1>2
  <2>2. PICK p, q : p = candles[i - 1] /\ q = candles[i]
    OBVIOUS
  <2>3. p.close \in Int /\ q.high \in Int /\ q.low \in Int
    BY <1>1, <2>1, <2>2, FlipFacts
  <2>4. PICK a, b, c : a = q.high - q.low /\ b = Abs(q.high - p.close) /\ c = Abs(q.low - p.close)
    OBVIOUS
  <2>5. a \in Int /\ b \in Int /\ c \in Int
    BY <2>3, <2>4 DEF Abs
  <2>6. \E x \in {a, b, c} : \A y \in {a, b, c} : x >= y
    BY <2>5
  <2>7. Max({a, b, c}) \in {a, b, c}
    BY <2>6 DEF Max
  <2> QED
    BY <2>2, <2>4, <2>5, <2>7 DEF TrueRange
<1>4. f \in [2..n -> Int]
  BY <1>1, <1>3
<1>5. PICK S : S = (n - period + 1)..n
  OBVIOUS
<1>6. S \subseteq 2..n /\ IsFiniteSet(S)
  <2>1. n - period + 1 \in Int /\ n \in Int
    BY <1>2
  <2> QED
    <3>1. S \subseteq 2..n
      BY <1>1, <1>2, <1>5
    <3>2. IsFiniteSet(S)
      BY <1>5, <2>1, FS_Interval
    <3> QED
      BY <3>1, <3>2
<1>7. SumFunctionOnSet(f, S) \in Int
  BY <1>4, <1>6, SumType
<1>8. Atr(candles, period) = SumFunctionOnSet(f, S) \div period
  BY <1>1, <1>5 DEF Atr
<1> QED
  BY <1>7, <1>8

\* The retests found above a level are later candles of the history.
LEMMA FoundFacts ==
    ASSUME NEW candles \in Seq(CandleShapes), NEW atr, NEW config \in ConfigShapes
    PROVE  \A f \in FoundAbove(candles, atr, config) :
             f.pivot \in Nat /\ f.retest \in 1..Len(candles) /\ f.level \in Int
<1>1. PICK n : n = Len(candles)
  OBVIOUS
<1>2. n \in Nat /\ config.pivot \in Nat
  BY <1>1, FlipFacts DEF ConfigShapes
<1>3. \A p \in PivotHighs(candles, config.pivot) : p \in 1..n
  BY <1>1, <1>2 DEF PivotHighs
<1>4. ASSUME NEW p \in 1..n, NEW level, NEW r \in FindRetest(candles, p, level, atr, config)
      PROVE  r \in 1..n
  <2>1. PICK breakouts : breakouts = {b \in (p + 1)..(n - 1) :
                                        candles[b].close > level + HalfAtrs(config.buffer, atr)}
    OBVIOUS
  <2>2. PICK found : found = IF breakouts = {} THEN {} ELSE
                        {x \in (Min(breakouts) + 1)..n :
                            /\ candles[x].low <= level + HalfAtrs(config.tolerance, atr)
                            /\ candles[x].close >= level - HalfAtrs(config.tolerance, atr)
                            /\ config.confirm => BullishPa(candles, x, config.wick)}
    OBVIOUS
  <2>3. FindRetest(candles, p, level, atr, config) = IF found = {} THEN {} ELSE {Min(found)}
    BY <1>1, <2>1, <2>2 DEF FindRetest
  <2>4. found # {} /\ r = Min(found)
    BY <1>4, <2>3
  <2>5. breakouts # {} /\ breakouts \subseteq Nat
    BY <1>2, <2>1, <2>2, <2>4
  <2>6. Min(breakouts) \in Nat
    BY <2>5, MinFacts
  <2>7. found \subseteq 1..n
    BY <1>2, <2>2, <2>6
  <2>8. found \subseteq Nat
    BY <1>2, <2>7
  <2>9. Min(found) \in found
    BY <2>4, <2>8, MinFacts
  <2> QED
    BY <2>4, <2>7, <2>9
<1>5. ASSUME NEW f \in FoundAbove(candles, atr, config)
      PROVE  f.pivot \in Nat /\ f.retest \in 1..n /\ f.level \in Int
  <2>1. PICK p \in PivotHighs(candles, config.pivot) :
          f \in {[pivot |-> p, level |-> candles[p].high, retest |-> r] :
                   r \in FindRetest(candles, p, candles[p].high, atr, config)}
    BY <1>5 DEF FoundAbove
  <2>4. PICK r \in FindRetest(candles, p, candles[p].high, atr, config) :
          f = [pivot |-> p, level |-> candles[p].high, retest |-> r]
    BY <2>1
  <2>2. p \in 1..n /\ r \in 1..n
    BY <1>3, <1>4, <2>1, <2>4
  <2>3. candles[p].high \in Int
    BY <1>1, <2>2, FlipFacts
  <2> QED
    BY <2>2, <2>3, <2>4
<1> QED
  BY <1>1, <1>5

\* The latest retest of a set, and the level of the first structure that has it.
Latest(found) == IF found = {} THEN 0 ELSE Max({f.retest : f \in found})
LevelOf(found) ==
    (CHOOSE f \in found :
        /\ f.retest = Latest(found)
        /\ \A g \in found : g.retest = f.retest => f.pivot <= g.pivot).level

\* There is such a structure.
LEMMA LatestFacts ==
    ASSUME NEW found, NEW n \in Nat,
           \A f \in found : f.pivot \in Nat /\ f.retest \in 1..n /\ f.level \in Int
    PROVE  /\ Latest(found) \in Nat
           /\ found # {} => Latest(found) >= 1 /\ LevelOf(found) \in Int
<1>1. CASE found = {}
  BY <1>1 DEF Latest
<1>2. CASE found # {}
  <2>1. PICK S : S = {f.retest : f \in found}
    OBVIOUS
  <2>2. S \subseteq Nat /\ S # {} /\ \A x \in S : x <= n
    BY <1>2, <2>1
  <2>3. Max(S) \in S
    BY <2>2, MaxFacts
  <2>4. Latest(found) = Max(S)
    BY <1>2, <2>1 DEF Latest
  <2>5. Latest(found) \in 1..n
    BY <2>1, <2>3, <2>4
  <2>6. PICK F : F = {f \in found : f.retest = Latest(found)}
    OBVIOUS
  <2>7. PICK P : P = {f.pivot : f \in F}
    OBVIOUS
  <2>8. F # {}
    BY <2>1, <2>3, <2>4, <2>6
  <2>9. P \subseteq Nat /\ P # {}
    BY <2>6, <2>7, <2>8
  <2>10. PICK p \in P : \A q \in P : p <= q
    BY <2>9, LeastNat
  <2>11. PICK f \in F : f.pivot = p
    BY <2>7, <2>10
  <2>12. f \in found /\ f.retest = Latest(found)
    BY <2>6, <2>11
  <2>13. \A g \in found : g.retest = f.retest => f.pivot <= g.pivot
    BY <2>6, <2>7, <2>10, <2>11, <2>12
  <2>14. PICK h : h = CHOOSE k \in found :
                        /\ k.retest = Latest(found)
                        /\ \A g \in found : g.retest = k.retest => k.pivot <= g.pivot
    OBVIOUS
  <2>15. h \in found
    BY <2>12, <2>13, <2>14
  <2> QED
    BY <2>5, <2>14, <2>15 DEF LevelOf
<1> QED
  BY <1>1, <1>2

\* A bias comes with the level of its zone.
LEMMA StructureFacts ==
    ASSUME NEW candles \in Seq(CandleShapes), NEW atr, NEW config \in ConfigShapes,
           NEW pa, pa = DetectPaStructure(candles, atr, config)
    PROVE  /\ pa.bias \in {"long", "short", "neutral"}
           /\ pa.level \in Int
<1>1. PICK flipped, highs, lows, above, below :
        /\ flipped = Flip(candles) /\ highs = PivotHighs(candles, config.pivot)
        /\ lows = PivotHighs(flipped, config.pivot)
        /\ above = FoundAbove(candles, atr, config) /\ below = FoundAbove(flipped, atr, config)
  OBVIOUS
<1>2. pa = IF above \cup below # {}
           THEN IF Latest(above) >= Latest(below)
                THEN [bias |-> "long", level |-> LevelOf(above)]
                ELSE [bias |-> "short", level |-> -LevelOf(below)]
           ELSE IF RejectsSupport(candles, lows, atr, config)
           THEN [bias |-> "long", level |-> candles[Max(lows)].low]
           ELSE IF RejectsSupport(flipped, highs, atr, config)
           THEN [bias |-> "short", level |-> candles[Max(highs)].high]
           ELSE [bias |-> "neutral", level |-> 0]
  BY <1>1 DEF DetectPaStructure, Latest, LevelOf
<1>3. PICK n : n = Len(candles)
  OBVIOUS
<1>4. n \in Nat /\ flipped \in Seq(CandleShapes) /\ Len(flipped) = n /\ config.pivot \in Nat
  BY <1>1, <1>3, FlipFacts DEF ConfigShapes
<1>5. /\ Latest(above) \in Nat /\ (above # {} => Latest(above) >= 1 /\ LevelOf(above) \in Int)
      /\ Latest(below) \in Nat /\ (below # {} => Latest(below) >= 1 /\ LevelOf(below) \in Int)
  BY <1>1, <1>3, <1>4, FoundFacts, LatestFacts
<1>6. CASE above \cup below # {}
  <2>1. CASE Latest(above) >= Latest(below)
    <3>1. above # {}
      BY <1>5, <1>6, <2>1 DEF Latest
    <3> QED
      BY <1>2, <1>5, <1>6, <2>1, <3>1
  <2>2. CASE ~(Latest(above) >= Latest(below))
    <3>1. below # {}
      BY <1>5, <2>2 DEF Latest
    <3>2. -LevelOf(below) \in Int
      BY <1>5, <3>1
    <3> QED
      BY <1>2, <1>6, <2>2, <3>2
  <2> QED
    BY <2>1, <2>2
<1>7. ASSUME NEW S, S # {}, NEW c \in Seq(CandleShapes), Len(c) = n, S = PivotHighs(c, config.pivot)
      PROVE  candles[Max(S)].low \in Int /\ candles[Max(S)].high \in Int
  <2>1. S \subseteq 1..n
    BY <1>4, <1>7 DEF PivotHighs
  <2>2. S \subseteq Nat /\ \A x \in S : x <= n
    BY <1>4, <2>1
  <2>3. Max(S) \in S
    BY <1>4, <1>7, <2>2, MaxFacts
  <2>4. Max(S) \in 1..Len(candles)
    BY <1>3, <2>1, <2>3
  <2> QED
    BY <2>4, FlipFacts
<1>8. CASE ~(above \cup below # {})
  <2>1. CASE RejectsSupport(candles, lows, atr, config)
    <3>1. lows # {}
      BY <2>1 DEF RejectsSupport
    <3> QED
      BY <1>1, <1>2, <1>4, <1>7, <1>8, <2>1, <3>1
  <2>2. CASE ~RejectsSupport(candles, lows, atr, config) /\ RejectsSupport(flipped, highs, atr, config)
    <3>1. highs # {}
      BY <2>2 DEF RejectsSupport
    <3> QED
      BY <1>1, <1>2, <1>3, <1>7, <1>8, <2>2, <3>1
  <2>3. CASE ~RejectsSupport(candles, lows, atr, config) /\ ~RejectsSupport(flipped, highs, atr, config)
    BY <1>2, <1>8, <2>3
  <2> QED
    BY <2>1, <2>2, <2>3
<1> QED
  BY <1>6, <1>8

\* The step between two levels is a whole number of ticks, at least one.
LEMMA StepFacts ==
    ASSUME NEW v \in Int, NEW tick \in Nat \ {0}
    PROVE  \E m \in Nat \ {0} : Greater(tick, RoundToTick(v, tick)) = m * tick
<1>1. PICK r \in Int : /\ RoundToTick(v, tick) = Greater(tick, r * tick)
                       /\ RoundToTick(v, tick) \in Int /\ RoundToTick(v, tick) >= tick
                       /\ r * tick \in Int
  BY RoundFacts
<1>2. Greater(tick, RoundToTick(v, tick)) = RoundToTick(v, tick)
  BY <1>1 DEF Greater
<1>3. CASE r * tick > tick
  <2>1. RoundToTick(v, tick) = r * tick
    BY <1>1, <1>3 DEF Greater
  <2>2. r > 0
    <3>1. CASE r <= 0
      <4>1. r * tick <= 0
        BY <3>1
      <4> QED
        BY <1>1, <1>3, <4>1
    <3> QED
      BY <3>1
  <2> QED
    BY <1>2, <2>1, <2>2
<1>4. CASE ~(r * tick > tick)
  <2>1. RoundToTick(v, tick) = 1 * tick
    BY <1>1, <1>4 DEF Greater
  <2> QED
    BY <1>2, <2>1
<1> QED
  BY <1>3, <1>4

\* A trigger of level k lies k steps from the anchor, up for a buy and down for a sell,
\* rounded to a tick.
LadderPrice(anchor, step, side, k, tick) ==
    RoundToTick(anchor + (IF side = "buy" THEN step * k ELSE -(step * k)), tick)

Ladder(anchor, step, sides, levels, tick) ==
    {[side |-> s, level |-> k, price |-> LadderPrice(anchor, step, s, k, tick),
      key |-> <<s, k, LadderPrice(anchor, step, s, k, tick)>>] :
        s \in sides, k \in 1..levels}

\* A trigger lies in the price band, and above one tick on the side of the anchor it is
\* entered on and apart from the others.
WellPlaced(t, all, anchor, config) ==
    /\ WithinPriceBand(t.price, config)
    /\ t.price > config.tick =>
         /\ IF t.side = "buy" THEN t.price > anchor ELSE t.price < anchor
         /\ \A u \in all \ {t} : u.price # t.price

\* A directional plan is invalidated on the losing side of its anchor.
LosingSide(bias, x, anchor, tick) ==
    /\ bias = "long" /\ anchor > tick => x < anchor
    /\ bias = "short" => x > anchor

\* Above one tick a trigger's price is on the side of the anchor it is entered on.
LEMMA LadderSide ==
    ASSUME NEW anchor \in Int, NEW tick \in Nat \ {0}, NEW m \in Nat \ {0}, NEW k \in Nat \ {0},
           NEW step, step = m * tick,
           NEW side \in {"buy", "sell"}, LadderPrice(anchor, step, side, k, tick) > tick
    PROVE  IF side = "buy" THEN LadderPrice(anchor, step, side, k, tick) > anchor
           ELSE LadderPrice(anchor, step, side, k, tick) < anchor
<1>1. PICK d : d = step * k
  OBVIOUS
<1>2. step \in Int /\ step >= tick
  OBVIOUS
<1>3. d \in Int /\ d >= step
  BY <1>1, <1>2
<1>4. PICK v : v = anchor + (IF side = "buy" THEN d ELSE -d)
  OBVIOUS
<1>5. v \in Int
  BY <1>3, <1>4
<1>6. LadderPrice(anchor, step, side, k, tick) = RoundToTick(v, tick)
  BY <1>1, <1>4 DEF LadderPrice
<1>7. PICK z \in Int : z > v - tick /\ z < v + tick /\ RoundToTick(v, tick) = z
  BY <1>5, <1>6, RoundFacts
<1>8. CASE side = "buy"
  BY <1>2, <1>3, <1>4, <1>6, <1>7, <1>8
<1>9. CASE side = "sell"
  BY <1>2, <1>3, <1>4, <1>6, <1>7, <1>9
<1> QED
  BY <1>8, <1>9

\* Above one tick two levels of one side have different prices, because the step is a
\* whole number of ticks.
LEMMA LadderApart ==
    ASSUME NEW anchor \in Int, NEW tick \in Nat \ {0}, NEW m \in Nat \ {0}, NEW k \in Nat, NEW l \in Nat,
           NEW step, step = m * tick, k < l,
           NEW side \in {"buy", "sell"}, LadderPrice(anchor, step, side, k, tick) > tick
    PROVE  LadderPrice(anchor, step, side, k, tick) # LadderPrice(anchor, step, side, l, tick)
<1>1. PICK h : h = tick \div 2
  OBVIOUS
<1>2. h \in Int
  BY <1>1
<1>3. PICK w \in {1, -1} : w = IF side = "buy" THEN 1 ELSE -1
  OBVIOUS
<1>4. ASSUME NEW j \in Nat
      PROVE  /\ LadderPrice(anchor, step, side, j, tick) = RoundToTick(anchor + (w * m * j) * tick, tick)
             /\ w * m * j \in Int
  <2>1. step * j = (m * j) * tick /\ -(step * j) = (-1 * m * j) * tick
    OBVIOUS
  <2>2. CASE side = "buy"
    BY <1>3, <2>1, <2>2 DEF LadderPrice
  <2>3. CASE side # "buy"
    BY <1>3, <2>1, <2>3 DEF LadderPrice
  <2> QED
    BY <2>2, <2>3
<1>5. PICK r0 : r0 = (anchor + h) \div tick
  OBVIOUS
<1>6. r0 \in Int
  BY <1>2, <1>5
<1>7. ASSUME NEW x \in Int
      PROVE  (anchor + x * tick + h) \div tick = r0 + x
  BY <1>2, <1>5, <1>6
<1>8. ASSUME NEW x \in Int
      PROVE  RoundToTick(anchor + x * tick, tick) = Greater(tick, (r0 + x) * tick)
  BY <1>1, <1>7 DEF RoundToTick
<1>9. PICK x, y : x = w * m * k /\ y = w * m * l
  OBVIOUS
<1>10. x \in Int /\ y \in Int /\ x # y
  <2>1. m * k < m * l
    OBVIOUS
  <2> QED
    BY <1>3, <1>9, <2>1
<1>11. PICK a, b : a = (r0 + x) * tick /\ b = (r0 + y) * tick
  OBVIOUS
<1>12. a \in Int /\ b \in Int /\ a # b
  BY <1>6, <1>10, <1>11
<1>13. /\ LadderPrice(anchor, step, side, k, tick) = Greater(tick, a)
       /\ LadderPrice(anchor, step, side, l, tick) = Greater(tick, b)
  BY <1>4, <1>8, <1>9, <1>10, <1>11
<1> QED
  BY <1>12, <1>13 DEF Greater

\* The levels _triggers is asked for keep one or two sides within both caps.
LEMMA LevelsFacts ==
    ASSUME NEW config \in ConfigShapes, NEW sides,
           sides \in {{"buy"}, {"sell"}, {"buy", "sell"}}
    PROVE  /\ IsFiniteSet(sides) /\ Levels(config, sides) \in Nat
           /\ Cardinality(sides) \in {1, 2}
           /\ Cardinality(sides) * Levels(config, sides) <= config.maxPending
           /\ Cardinality(sides) * Levels(config, sides) * config.quantity <= config.maxQuantity
<1>1. IsFiniteSet(sides) /\ Cardinality(sides) \in {1, 2}
  <2>1. IsFiniteSet({"buy"}) /\ Cardinality({"buy"}) = 1 /\ IsFiniteSet({"sell"}) /\ Cardinality({"sell"}) = 1
    BY FS_Singleton
  <2>2. IsFiniteSet({"buy"} \cup {"sell"}) /\ Cardinality({"buy"} \cup {"sell"}) = 2
    BY <2>1, FS_AddElement
  <2>3. {"buy"} \cup {"sell"} = {"buy", "sell"}
    OBVIOUS
  <2> QED
    BY <2>1, <2>2, <2>3
<1>2. PICK n \in {1, 2} : n = Cardinality(sides)
  BY <1>1
<1>3. PICK q, a, b, c : /\ q = config.maxQuantity \div config.quantity
                        /\ a = config.levels /\ b = q \div n /\ c = config.maxPending \div n
  OBVIOUS
<1>4. /\ config.levels \in Nat /\ config.maxQuantity \in Nat /\ config.maxPending \in Nat
      /\ config.quantity \in Nat \ {0}
  BY DEF ConfigShapes
<1>5. q \in Nat /\ q * config.quantity <= config.maxQuantity
  BY <1>3, <1>4
<1>6. /\ a \in Nat /\ b \in Nat /\ c \in Nat
      /\ b * n <= q /\ c * n <= config.maxPending
  BY <1>2, <1>3, <1>4, <1>5
<1>7. PICK l : l = Min({a, b, c})
  OBVIOUS
<1>8. l \in {a, b, c} /\ \A x \in {a, b, c} : l <= x
  <2>1. \E x \in {a, b, c} : \A y \in {a, b, c} : x <= y
    BY <1>6
  <2> QED
    BY <1>7, <2>1 DEF Min
<1>9. l \in Nat /\ l <= b /\ l <= c
  BY <1>6, <1>8
<1>10. Levels(config, sides) = l
  BY <1>2, <1>3, <1>7 DEF Levels
<1>11. n * l <= config.maxPending /\ n * l <= q /\ n * l \in Nat
  BY <1>2, <1>4, <1>5, <1>6, <1>9
<1>12. (n * l) * config.quantity <= q * config.quantity
  BY <1>4, <1>5, <1>11
<1>13. (n * l) * config.quantity <= config.maxQuantity
  BY <1>4, <1>5, <1>11, <1>12
<1> QED
  BY <1>1, <1>2, <1>9, <1>10, <1>11, <1>13

\* A ladder has at most one trigger for each side and level.
LEMMA LadderSize ==
    ASSUME NEW anchor, NEW step, NEW sides, IsFiniteSet(sides), NEW levels \in Nat, NEW config
    PROVE  /\ IsFiniteSet(Triggers(anchor, step, sides, levels, config))
           /\ Cardinality(Triggers(anchor, step, sides, levels, config)) \in Nat
           /\ Cardinality(Triggers(anchor, step, sides, levels, config)) <= Cardinality(sides) * levels
<1>1. PICK f : f = [x \in sides \X (1..levels) |->
                      [side |-> x[1], level |-> x[2],
                       price |-> LadderPrice(anchor, step, x[1], x[2], config.tick),
                       key |-> <<x[1], x[2], LadderPrice(anchor, step, x[1], x[2], config.tick)>>]]
  OBVIOUS
<1>2. PICK all : all = Ladder(anchor, step, sides, levels, config.tick)
  OBVIOUS
<1>3. Triggers(anchor, step, sides, levels, config) = {t \in all : WithinPriceBand(t.price, config)}
  BY <1>2 DEF Triggers, Ladder, LadderPrice
<1>4. f \in Surjection(sides \X (1..levels), all)
  <2>1. \A x \in sides \X (1..levels) : f[x] \in all
    <3> SUFFICES ASSUME NEW x \in sides \X (1..levels) PROVE f[x] \in all
      OBVIOUS
    <3>1. PICK s \in sides, k \in 1..levels : x = <<s, k>>
      OBVIOUS
    <3>2. x[1] = s /\ x[2] = k
      BY <3>1
    <3>3. f[x] = [side |-> s, level |-> k, price |-> LadderPrice(anchor, step, s, k, config.tick),
                  key |-> <<s, k, LadderPrice(anchor, step, s, k, config.tick)>>]
      BY <1>1, <3>2
    <3> QED
      BY <1>2, <3>3 DEF Ladder
  <2>2. f \in [sides \X (1..levels) -> all]
    BY <1>1, <2>1
  <2>3. ASSUME NEW t \in all PROVE \E x \in sides \X (1..levels) : f[x] = t
    <3>1. PICK s \in sides, k \in 1..levels :
            t = [side |-> s, level |-> k, price |-> LadderPrice(anchor, step, s, k, config.tick),
                 key |-> <<s, k, LadderPrice(anchor, step, s, k, config.tick)>>]
      BY <1>2, <2>3 DEF Ladder
    <3>2. <<s, k>> \in sides \X (1..levels) /\ f[<<s, k>>] = t
      BY <1>1, <3>1
    <3> QED
      BY <3>2
  <2> QED
    BY <2>2, <2>3 DEF Surjection
<1>5. IsFiniteSet(1..levels) /\ Cardinality(1..levels) = levels
  <2>1. 1 \in Int /\ levels \in Int
    OBVIOUS
  <2>2. IsFiniteSet(1..levels) /\ Cardinality(1..levels) = IF 1 > levels THEN 0 ELSE levels - 1 + 1
    BY <2>1, FS_Interval
  <2> QED
    BY <2>2
<1>6. /\ IsFiniteSet(sides \X (1..levels))
      /\ Cardinality(sides \X (1..levels)) = Cardinality(sides) * levels
  BY <1>5, FS_Product
<1>7. IsFiniteSet(all) /\ Cardinality(all) <= Cardinality(sides) * levels
  BY <1>4, <1>6, FS_Surjection
<1>8. Triggers(anchor, step, sides, levels, config) \in SUBSET all
  BY <1>3
<1>9. /\ IsFiniteSet(Triggers(anchor, step, sides, levels, config))
      /\ Cardinality(Triggers(anchor, step, sides, levels, config)) <= Cardinality(all)
  BY <1>7, <1>8, FS_Subset
<1>10. /\ Cardinality(Triggers(anchor, step, sides, levels, config)) \in Nat
       /\ Cardinality(all) \in Nat /\ Cardinality(sides) \in Nat
  BY <1>7, <1>9, FS_CardinalityType
<1> QED
  BY <1>7, <1>9, <1>10

\* A directional plan is invalidated on the losing side of its anchor.
LEMMA InvalidationFacts ==
    ASSUME NEW anchor \in Int, NEW atr \in Int, NEW level \in Int, NEW config \in ConfigShapes,
           NEW step \in Int, step >= config.tick, NEW bias \in {"long", "short"},
           NEW x, x = Invalidation(anchor, atr, step, bias, Zone(level, atr, config), config)
    PROVE  LosingSide(bias, x, anchor, config.tick)
<1>1. PICK half, distance, zone : /\ half = HalfAtrs(config.zone, atr)
                                  /\ distance = Greater(HalfAtrs(config.stop, atr), step)
                                  /\ zone = Zone(level, atr, config)
  OBVIOUS
<1>2. /\ config.tick \in Nat \ {0} /\ config.lower \in Nat /\ config.upper \in Nat
      /\ config.zone \in Nat /\ config.stop \in Nat
  BY DEF ConfigShapes
<1>3. half \in Int /\ HalfAtrs(config.stop, atr) \in Int
  <2>1. config.zone * atr \in Int /\ config.stop * atr \in Int
    BY <1>2
  <2> QED
    BY <1>1, <2>1 DEF HalfAtrs
<1>4. distance \in Int /\ distance >= step
  BY <1>1, <1>3 DEF Greater
<1>5. zone.low \in Int /\ zone.high \in Int
  <2>1. PICK a, b, c : a = config.tick /\ b = config.lower /\ c = level - half
    OBVIOUS
  <2>2. a \in Int /\ b \in Int /\ c \in Int
    BY <1>2, <1>3, <2>1
  <2>3. \E u \in {a, b, c} : \A y \in {a, b, c} : u >= y
    BY <2>2
  <2>4. Max({a, b, c}) \in {a, b, c}
    BY <2>3 DEF Max
  <2>5. zone.low = Max({a, b, c})
    BY <1>1, <2>1 DEF Zone
  <2>6. zone.high = IF config.upper # 0 THEN Lesser(config.upper, level + half) ELSE level + half
    BY <1>1 DEF Zone
  <2> QED
    BY <1>2, <1>3, <2>2, <2>4, <2>5, <2>6 DEF Lesser
<1>6. CASE bias = "long"
  <2>1. PICK v : v = Lesser(zone.low - distance, anchor - distance)
    OBVIOUS
  <2>2. v \in Int /\ v <= anchor - distance
    BY <1>4, <1>5, <2>1 DEF Lesser
  <2>3. x = RoundToTick(v, config.tick)
    BY <1>1, <1>6, <2>1 DEF Invalidation
  <2>4. PICK z \in Int : z < v + config.tick /\ RoundToTick(v, config.tick) = Greater(config.tick, z)
    BY <1>2, <2>2, RoundFacts
  <2>5. z < anchor
    BY <1>2, <1>4, <2>2, <2>4
  <2> QED
    BY <1>2, <1>6, <2>3, <2>4, <2>5 DEF Greater, LosingSide
<1>7. CASE bias = "short"
  <2>1. PICK v : v = Greater(zone.high + distance, anchor + distance)
    OBVIOUS
  <2>2. v \in Int /\ v >= anchor + distance
    BY <1>4, <1>5, <2>1 DEF Greater
  <2>3. x = RoundToTick(v, config.tick)
    BY <1>1, <1>7, <2>1 DEF Invalidation
  <2>4. PICK z \in Int : z > v - config.tick /\ RoundToTick(v, config.tick) >= z
                         /\ RoundToTick(v, config.tick) \in Int
    BY <1>2, <2>2, RoundFacts
  <2>5. z > anchor
    BY <1>2, <1>4, <2>2, <2>4
  <2> QED
    BY <1>7, <2>3, <2>4, <2>5 DEF LosingSide
<1> QED
  BY <1>6, <1>7

\* The triggers of a ladder lie in the price band, on the side of the anchor they are
\* entered on, and apart.
LEMMA LadderFacts ==
    ASSUME NEW anchor \in Int, NEW config \in ConfigShapes, NEW m \in Nat \ {0},
           NEW step, step = m * config.tick, NEW levels \in Nat,
           NEW sides, sides \subseteq {"buy", "sell"},
           NEW all, all = Triggers(anchor, step, sides, levels, config)
    PROVE  \A t \in all : t.side \in sides /\ WellPlaced(t, all, anchor, config)
<1>1. PICK tick : tick = config.tick
  OBVIOUS
<1>2. tick \in Nat \ {0}
  BY <1>1 DEF ConfigShapes
<1>3. all = {t \in Ladder(anchor, step, sides, levels, tick) : WithinPriceBand(t.price, config)}
  BY <1>1 DEF Triggers, Ladder, LadderPrice
<1>4. ASSUME NEW t \in all
      PROVE  /\ WithinPriceBand(t.price, config) /\ t.side \in sides /\ t.level \in 1..levels
             /\ t.price = LadderPrice(anchor, step, t.side, t.level, tick)
             /\ t = [side |-> t.side, level |-> t.level, price |-> t.price,
                     key |-> <<t.side, t.level, t.price>>]
  <2>1. WithinPriceBand(t.price, config) /\ t \in Ladder(anchor, step, sides, levels, tick)
    BY <1>3, <1>4
  <2>2. PICK s \in sides, k \in 1..levels :
          t = [side |-> s, level |-> k, price |-> LadderPrice(anchor, step, s, k, tick),
               key |-> <<s, k, LadderPrice(anchor, step, s, k, tick)>>]
    BY <2>1 DEF Ladder
  <2> QED
    BY <2>1, <2>2
<1>5. ASSUME NEW t \in all, t.price > tick
      PROVE  /\ t.price \in Int
             /\ IF t.side = "buy" THEN t.price > anchor ELSE t.price < anchor
  <2>1. PICK s, k : s = t.side /\ k = t.level
    OBVIOUS
  <2>2. s \in {"buy", "sell"} /\ k \in Nat \ {0} /\ t.price = LadderPrice(anchor, step, s, k, tick)
    BY <1>4, <1>5, <2>1
  <2>3. IF s = "buy" THEN t.price > anchor ELSE t.price < anchor
    BY <1>1, <1>2, <1>5, <2>2, LadderSide
  <2>4. t.price \in Int
    <3>1. anchor + (IF s = "buy" THEN step * k ELSE -(step * k)) \in Int
      <4>1. step \in Int
        BY <1>1, <1>2
      <4>2. step * k \in Int
        BY <2>2, <4>1
      <4> QED
        BY <4>2
    <3> QED
      BY <1>2, <2>2, <3>1, RoundFacts DEF LadderPrice
  <2> QED
    BY <2>1, <2>3, <2>4
<1>6. ASSUME NEW t \in all, t.price > tick, NEW u \in all, u # t
      PROVE  u.price # t.price
  <2> SUFFICES ASSUME u.price = t.price PROVE FALSE
    OBVIOUS
  <2>1. u.price > tick
    BY <1>6
  <2>2. t.side = u.side
    <3>1. t.side \in {"buy", "sell"} /\ u.side \in {"buy", "sell"}
      BY <1>4, <1>6
    <3> QED
      BY <1>5, <1>6, <2>1, <3>1
  <2>3. PICK s, k, l : s = t.side /\ k = t.level /\ l = u.level
    OBVIOUS
  <2>4. /\ s \in {"buy", "sell"} /\ k \in Nat /\ l \in Nat
        /\ t.price = LadderPrice(anchor, step, s, k, tick)
        /\ u.price = LadderPrice(anchor, step, s, l, tick)
    BY <1>4, <1>6, <2>2, <2>3
  <2>5. k # l
    BY <1>4, <1>6, <2>2, <2>3
  <2>6. CASE k < l
    BY <1>1, <1>2, <1>6, <2>4, <2>6, LadderApart
  <2>7. CASE l < k
    BY <1>1, <1>2, <2>1, <2>4, <2>7, LadderApart
  <2> QED
    BY <2>4, <2>5, <2>6, <2>7
<1> QED
  BY <1>1, <1>4, <1>5, <1>6 DEF WellPlaced

\* The candles a plan looks at are candles of the history.
LEMMA LookbackFacts ==
    ASSUME NEW history \in Seq(CandleShapes), NEW n \in Nat \ {0}, NEW candles,
           candles = IF Len(history) > n
                     THEN SubSeq(history, Len(history) - n + 1, Len(history)) ELSE history
    PROVE  candles \in Seq(CandleShapes)
<1>1. Len(history) \in Nat
  BY LenProperties
<1>2. CASE Len(history) > n
  <2>1. PICK a, b : a = Len(history) - n + 1 /\ b = Len(history)
    OBVIOUS
  <2>2. a \in 1..Len(history) + 1 /\ b \in a - 1..Len(history)
    BY <1>1, <1>2, <2>1
  <2>3. SubSeq(history, a, b) \in Seq(CandleShapes)
    BY <2>2, SubSeqProperties
  <2> QED
    BY <1>2, <2>1, <2>3
<1> QED
  BY <1>2

\* What the planner promises of a ladder, of any plan.
SoundLadder(plan) ==
    /\ Cardinality(plan.triggers) * plan.config.quantity <= plan.config.maxQuantity
    /\ Cardinality(plan.triggers) <= plan.config.maxPending
    /\ \A t \in plan.triggers :
         /\ WellPlaced(t, plan.triggers, plan.anchor, plan.config)
         /\ t.side = "sell" => plan.config.profile # "set_equity"
    /\ LosingSide(plan.bias, plan.invalidation, plan.anchor, plan.config.tick)

\* Plan keeps it for every history and configuration.
LEMMA PlanLadder ==
    ASSUME NEW history \in Seq(CandleShapes), NEW config \in ConfigShapes,
           NEW plan, plan = Plan(history, config), plan.triggers # {}
    PROVE  SoundLadder(plan)
<1>1. PICK candles : candles = IF Len(history) > config.lookback
                               THEN SubSeq(history, Len(history) - config.lookback + 1, Len(history))
                               ELSE history
  OBVIOUS
<1>2. PICK anchor, minimum, atr :
        /\ anchor = candles[Len(candles)].close
        /\ minimum = Greater(config.atrPeriod + 2, 2 * config.pivot + 5)
        /\ atr = Atr(candles, config.atrPeriod)
  OBVIOUS
<1>3. PICK pa : pa = DetectPaStructure(candles, atr, config)
  OBVIOUS
<1>4. PICK step, sides :
        /\ step = Greater(config.tick, RoundToTick(HalfAtrs(config.step, atr), config.tick))
        /\ sides = Sides(config, pa.bias)
  OBVIOUS
<1>5. PICK all, x :
        /\ all = Triggers(anchor, step, sides, Levels(config, sides), config)
        /\ x = IF pa.bias = "neutral" THEN 0
               ELSE Invalidation(anchor, atr, step, pa.bias, Zone(pa.level, atr, config), config)
  OBVIOUS
<1>6. plan = IF Len(candles) < minimum \/ atr <= 0 \/ ~WithinPriceBand(anchor, config)
             THEN EmptyPlan(anchor, "neutral", config)
             ELSE IF Blocked(config, pa.bias) \/ (config.mode = "pa_filtered" /\ pa.bias = "neutral")
             THEN EmptyPlan(anchor, pa.bias, config)
             ELSE [EmptyPlan(anchor, pa.bias, config) EXCEPT !.triggers = all, !.invalidation = x]
  BY <1>1, <1>2, <1>3, <1>4, <1>5, ZenonT(60) DEF Plan
<1>7. EmptyPlan(anchor, "neutral", config).triggers = {} /\ EmptyPlan(anchor, pa.bias, config).triggers = {}
  BY DEF EmptyPlan
<1>8. /\ ~(Len(candles) < minimum) /\ ~Blocked(config, pa.bias)
      /\ ~(config.mode = "pa_filtered" /\ pa.bias = "neutral")
      /\ plan = [EmptyPlan(anchor, pa.bias, config) EXCEPT !.triggers = all, !.invalidation = x]
  BY <1>6, <1>7
<1>9. /\ plan.triggers = all /\ plan.invalidation = x /\ plan.bias = pa.bias
      /\ plan.anchor = anchor /\ plan.config = config
  BY <1>8 DEF EmptyPlan
<1>10. /\ config.mode \in {"pa_filtered", "symmetric_research"} /\ config.lookback \in Nat \ {0}
       /\ config.atrPeriod \in Nat \ {0} /\ config.pivot \in Nat /\ config.tick \in Nat \ {0}
       /\ config.step \in Nat /\ config.quantity \in Nat \ {0} /\ config.maxPending \in Nat
       /\ config.maxQuantity \in Nat
  BY DEF ConfigShapes
<1>11. candles \in Seq(CandleShapes)
  BY <1>1, <1>10, LookbackFacts
<1>12. Len(candles) \in Nat /\ Len(candles) >= config.atrPeriod + 2
  <2>1. Len(candles) \in Nat
    BY <1>11, LenProperties
  <2> QED
    BY <1>2, <1>8, <1>10, <2>1 DEF Greater
<1>13. anchor \in Int /\ atr \in Int
  <2>1. Len(candles) \in 1..Len(candles)
    BY <1>10, <1>12
  <2> QED
    BY <1>2, <1>10, <1>11, <1>12, <2>1, FlipFacts, AtrType
<1>14. pa.bias \in {"long", "short", "neutral"} /\ pa.level \in Int
  BY <1>3, <1>11, StructureFacts
<1>15. PICK m \in Nat \ {0} : step = m * config.tick
  <2>1. HalfAtrs(config.step, atr) \in Int
    <3>1. config.step * atr \in Int
      BY <1>10, <1>13
    <3> QED
      BY <3>1 DEF HalfAtrs
  <2> QED
    BY <1>4, <1>10, <2>1, StepFacts
<1>16. step \in Int /\ step >= config.tick
  BY <1>10, <1>15
<1>17. sides \in {{"buy"}, {"sell"}, {"buy", "sell"}}
  BY <1>4 DEF Sides
<1>18. PICK levels : levels = Levels(config, sides)
  OBVIOUS
<1>19. /\ IsFiniteSet(sides) /\ levels \in Nat /\ Cardinality(sides) \in {1, 2}
       /\ Cardinality(sides) * levels <= config.maxPending
       /\ Cardinality(sides) * levels * config.quantity <= config.maxQuantity
  BY <1>17, <1>18, LevelsFacts
<1>20. Cardinality(all) \in Nat /\ Cardinality(all) <= Cardinality(sides) * levels
  BY <1>5, <1>18, <1>19, LadderSize
<1>21. /\ Cardinality(all) <= config.maxPending
       /\ Cardinality(all) * config.quantity <= config.maxQuantity
  <2>1. PICK c, n, q : c = Cardinality(all) /\ n = Cardinality(sides) * levels /\ q = config.quantity
    OBVIOUS
  <2>2. c \in Nat /\ n \in Nat /\ c <= n /\ q \in Nat
    BY <1>10, <1>19, <1>20, <2>1
  <2>3. c * q <= n * q /\ c * q \in Nat /\ n * q \in Nat
    BY <2>2
  <2> QED
    BY <1>10, <1>19, <2>1, <2>2, <2>3
<1>22. \A t \in all : t.side \in sides /\ WellPlaced(t, all, anchor, config)
  <2>1. sides \subseteq {"buy", "sell"} /\ all = Triggers(anchor, step, sides, levels, config)
    BY <1>5, <1>17, <1>18
  <2> QED
    BY <1>13, <1>15, <1>19, <2>1, LadderFacts
<1>23. "sell" \in sides => config.profile # "set_equity"
  BY <1>4, <1>8, <1>10, <1>14 DEF Sides, Blocked
<1>24. LosingSide(pa.bias, x, anchor, config.tick)
  <2>1. CASE pa.bias = "neutral"
    BY <2>1 DEF LosingSide
  <2>2. CASE pa.bias # "neutral"
    <3>1. pa.bias \in {"long", "short"}
      BY <1>14, <2>2
    <3>2. x = Invalidation(anchor, atr, step, pa.bias, Zone(pa.level, atr, config), config)
      BY <1>5, <2>2
    <3> QED
      BY <1>13, <1>14, <1>16, <3>1, <3>2, InvalidationFacts
  <2> QED
    BY <2>1, <2>2
<1> QED
  BY <1>9, <1>21, <1>22, <1>23, <1>24 DEF SoundLadder

\* Every plan the runtime is offered respects its caps and its price band, enters each
\* trigger on its own side of the anchor and at a price of its own, never sells under
\* the SET profile, and is invalidated on the losing side (plan, _triggers, _sides,
\* _round_to_tick and _invalidation of VideoDerivedEaPlanner).
THEOREM PlansAreSound == CycleSpec => []PlanSound
<1>1. CycleInv => PlanSound
  <2> SUFFICES ASSUME CycleInv, offered.triggers # {} PROVE SoundLadder(offered)
    BY DEF PlanSound, SoundLadder, WellPlaced, LosingSide
  <2>1. offered \in PlansOffered /\ offered # NoPlan
    BY DEF CycleInv, LogOK, NoPlan
  <2>2. PICK h \in Histories, c \in Configs : offered = Plan(h, c)
    BY <2>1 DEF PlansOffered
  <2>3. h \in Seq(CandleShapes) /\ c \in ConfigShapes
    BY PlannerAssumption, Zenon DEF CandleShapes, ConfigShapes
  <2> QED
    BY <2>2, <2>3, PlanLadder
<1> QED
  BY <1>1, CycleStart, CycleStep, PTL DEF CycleSpec
=============================================================================
