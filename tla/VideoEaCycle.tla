---------------------------- MODULE VideoEaCycle ----------------------------
(***************************************************************************)
(* The virtual-trigger cycle of one symbol: VideoEaCycleRuntime            *)
(* (video_ea_runtime.py), its endpoints (api.py) and its durable snapshot  *)
(* (store.py, persistence.py).                                             *)
(*                                                                         *)
(* Every endpoint but one loads the snapshot, acts on it and saves it      *)
(* under one lock, so a request is one step.  The save changes memory      *)
(* first and the table second; when the table's write fails the request is *)
(* answered with an error although memory keeps the change.  "lost" is a   *)
(* request whose save succeeds but whose answer never arrives: a failed    *)
(* audit write, a dropped connection.  The endpoint that only reads the    *)
(* state answers from memory, saved or not.                                *)
(*                                                                         *)
(* A cycle is what one arm request starts; its number is not in the code   *)
(* and only serves to name it.                                             *)
(***************************************************************************)
EXTENDS VideoEaPlanner

CONSTANTS
    Histories,  \* candle histories a plan is asked for
    Configs,    \* configurations
    ClientPlans, \* plans a client posts that no plan request returned
    Prices,     \* observed prices
    MaxCycles,  \* bound on arm requests
    MaxFaults   \* bound on failed saves, lost answers and restarts

ASSUME CycleAssumption ==
    /\ Prices \subseteq Nat \ {0}
    /\ MaxCycles \in Nat /\ MaxFaults \in Nat

\* The ranges VideoEaConfig allows.
ASSUME PlannerAssumption ==
    /\ Histories \subseteq Seq([open: Int, high: Int, low: Int, close: Int])
    /\ Configs \subseteq
         [mode: {"pa_filtered", "symmetric_research"},
          profile: {"set_equity", "tfex_research", "generic_research"},
          lookback: Nat \ {0}, pivot: Nat \ {0}, atrPeriod: Nat \ {0}, buffer: Nat, tolerance: Nat,
          zone: Nat, wick: Nat, step: Nat, tick: Nat \ {0}, lower: Nat, upper: Nat, levels: Nat \ {0},
          quantity: Nat \ {0}, maxQuantity: Nat, maxPending: Nat, stop: Nat, confirm: BOOLEAN]

VARIABLES
    offered,   \* the plan the latest plan request returned
    snapshot,  \* StateStore.runtime_state of the symbol
    saved,     \* its row in runtime_state_table
    armed,     \* arm requests so far
    reported,  \* per cycle, the sets of keys its answers have reported as crossed
    ended,     \* the cycles an answer that was saved has said to be over
    shown,     \* per cycle, the fired keys any answer has shown
    closed,    \* the cycles any answer has shown to be over
    faults

toldVars == <<reported, ended, shown, closed>>
cycleVars == <<offered, snapshot, saved, armed, toldVars, faults>>

-----------------------------------------------------------------------------
NoPlan == [bias |-> "neutral", anchor |-> 0, triggers |-> {}, invalidation |-> 0]
IdleCycle == [state |-> "idle", plan |-> NoPlan, last |-> 0, fired |-> {}, cycle |-> 0]
Cycles == 1..MaxCycles

CycleInit ==
    /\ offered = NoPlan
    /\ snapshot = IdleCycle
    /\ saved = IdleCycle
    /\ armed = 0
    /\ reported = [c \in Cycles |-> <<>>]
    /\ ended = {}
    /\ shown = [c \in Cycles |-> {}]
    /\ closed = {}
    /\ faults = 0

Keys(triggers) == {t.key : t \in triggers}

\* The cycles that a snapshot says are over.
Over(x) ==
    CASE x.state = "idle" -> 1..armed
      [] x.state = "invalidated" -> 1..x.cycle
      [] OTHER -> 1..(x.cycle - 1)

\* An answer shows a snapshot (snapshot).
Shows(x) ==
    /\ shown' = [c \in Cycles |-> IF c = x.cycle THEN shown[c] \cup x.fired ELSE shown[c]]
    /\ closed' = closed \cup Over(x)

\* The end of a request that made the snapshot x and reports some keys: how it
\* is saved and answered.
SaveAndAnswer(x, keys) ==
    /\ snapshot' = x
    /\ \E outcome \in {"answered", "lost", "unsaved"} :
         /\ outcome # "answered" => faults < MaxFaults
         /\ faults' = IF outcome = "answered" THEN faults ELSE faults + 1
         /\ saved' = IF outcome = "unsaved" THEN saved ELSE x
         /\ IF outcome = "answered"
            THEN /\ reported' = IF keys = {} THEN reported
                                ELSE [reported EXCEPT ![x.cycle] = Append(@, keys)]
                 /\ ended' = ended \cup Over(x)
                 /\ Shows(x)
            ELSE UNCHANGED toldVars

\* research_video_ea_plan.  It may be asked for at any time; the model asks once.
RequestPlan(history, config) ==
    /\ offered = NoPlan
    /\ offered' = Plan(history, config)
    /\ UNCHANGED <<snapshot, saved, armed, toldVars, faults>>

\* research_video_ea_state: nothing is saved.
ShowState ==
    /\ Shows(snapshot)
    /\ UNCHANGED <<offered, snapshot, saved, armed, reported, ended, faults>>

Running == snapshot.state \in {"armed", "active"}

\* arm: of the plan offered or of any other, whatever its keys; refused for a
\* plan without triggers and for a running cycle, but not for a paused one,
\* which the new cycle replaces.
Arm(plan, price) ==
    /\ armed < MaxCycles
    /\ plan.triggers # {}
    /\ ~Running
    /\ armed' = armed + 1
    /\ SaveAndAnswer([state |-> "armed", plan |-> plan, last |-> price, fired |-> {},
                      cycle |-> armed + 1], {})
    /\ UNCHANGED offered

\* _invalidated
Invalidated(plan, price) ==
    /\ plan.invalidation # 0
    /\ \/ plan.bias = "long" /\ price <= plan.invalidation
       \/ plan.bias = "short" /\ price >= plan.invalidation

\* on_price of a running cycle; in any other state the price is ignored and the
\* snapshot saved as it is.
OnPriceInvalidates(price) ==
    /\ Running
    /\ Invalidated(snapshot.plan, price)
    /\ SaveAndAnswer([snapshot EXCEPT !.state = "invalidated", !.last = price], {})
    /\ UNCHANGED <<offered, armed>>

\* Mutant: a crossing is reported whether or not its trigger has fired before.
FreshAll(price) == Keys(Activate(snapshot.plan, snapshot.last, price))

\* The keys crossed that have not fired; a plan that gives two triggers one key
\* has them fire together or the first of them only.
Fresh(price) == Keys(Activate(snapshot.plan, snapshot.last, price)) \ snapshot.fired

OnPriceObserves(price) ==
    /\ Running
    /\ ~Invalidated(snapshot.plan, price)
    /\ LET fresh == Fresh(price)
       IN  SaveAndAnswer([snapshot EXCEPT
                            !.last = price, !.fired = @ \cup fresh,
                            !.state = IF fresh = {} THEN @ ELSE "active"], fresh)
    /\ UNCHANGED <<offered, armed>>

OnPriceIgnored ==
    /\ ~Running
    /\ SaveAndAnswer(snapshot, {})
    /\ UNCHANGED <<offered, armed>>

\* pause and resume of a cycle that is not over; otherwise only the save is done.
PauseCycle ==
    /\ SaveAndAnswer(IF Running THEN [snapshot EXCEPT !.state = "paused"] ELSE snapshot, {})
    /\ UNCHANGED <<offered, armed>>

ResumeCycle ==
    /\ SaveAndAnswer(IF snapshot.state = "paused" THEN [snapshot EXCEPT !.state = "armed"]
                     ELSE snapshot, {})
    /\ UNCHANGED <<offered, armed>>

Reset ==
    /\ SaveAndAnswer(IdleCycle, {})
    /\ UNCHANGED <<offered, armed>>

\* The new process knows nothing of what was shown of the saved cycle after its
\* save: shown and closed keep what still stands.
TakesBack(x) ==
    /\ shown' = [c \in Cycles |-> IF c = x.cycle THEN shown[c] \cap x.fired ELSE shown[c]]
    /\ closed' = IF x.state \in {"idle", "invalidated"} THEN closed ELSE closed \ {x.cycle}

\* A new process loads the row; a snapshot the program saved passes restore.
CycleRestart ==
    /\ faults < MaxFaults
    /\ faults' = faults + 1
    /\ snapshot' = saved
    /\ TakesBack(saved)
    /\ UNCHANGED <<offered, saved, armed, reported, ended>>

CycleNext ==
    \/ \E h \in Histories, c \in Configs : RequestPlan(h, c)
    \/ \E p \in Prices :
          \/ \E plan \in {offered} \cup ClientPlans : Arm(plan, p)
          \/ OnPriceInvalidates(p) \/ OnPriceObserves(p)
    \/ OnPriceIgnored \/ PauseCycle \/ ResumeCycle \/ Reset \/ ShowState
    \/ CycleRestart

CycleSpec == CycleInit /\ [][CycleNext]_cycleVars

-----------------------------------------------------------------------------
(* Properties.                                                             *)

CycleTypeOK ==
    /\ snapshot.state \in {"idle", "armed", "active", "paused", "invalidated"}
    /\ snapshot.state = "idle" <=> snapshot = IdleCycle
    /\ snapshot.fired \subseteq Keys(snapshot.plan.triggers)
    /\ saved.fired \subseteq Keys(saved.plan.triggers)
    /\ armed \in 0..MaxCycles /\ snapshot.cycle <= armed /\ saved.cycle <= armed
    /\ ended \subseteq closed /\ closed \subseteq Cycles
    /\ faults \in 0..MaxFaults

\* A plan keeps what the planner promises of a ladder: its triggers respect the
\* caps and the price band, lie on the side of the anchor they are entered on,
\* and are not stacked on one price (unless _round_to_tick had to raise them to
\* one tick); the SET profile never sells; and the cycle is invalidated on the
\* losing side of the anchor, so never before the price has moved.
PlanSound ==
    offered.triggers # {} =>
        LET config == offered.config
            all == offered.triggers
        IN  /\ Cardinality(all) * config.quantity <= config.maxQuantity
            /\ Cardinality(all) <= config.maxPending
            /\ \A t \in all :
                  /\ WithinPriceBand(t.price, config)
                  /\ t.side = "sell" => config.profile # "set_equity"
                  /\ t.price > config.tick =>
                       /\ IF t.side = "buy" THEN t.price > offered.anchor
                          ELSE t.price < offered.anchor
                       /\ \A u \in all \ {t} : u.price # t.price
            /\ offered.bias = "long" /\ offered.anchor > config.tick =>
                  offered.invalidation < offered.anchor
            /\ offered.bias = "short" => offered.invalidation > offered.anchor

\* What the runtime promises its operator, whatever fails between its steps.
\* Only what the table has is here to stay.
Promise == INSTANCE VideoEaPromise WITH
    reported <- reported, ended <- ended, shown <- shown, closed <- closed,
    durable <- snapshot = saved

\* A trigger is reported at most once in its cycle, never after an answer has
\* shown it fired, and never in a cycle an answer has shown to be over: in no
\* order of prices, pauses, failed saves, lost answers and restarts.  What the
\* state endpoint showed of a save that failed is all a restart takes back.
KeepsPromise == Promise!Spec
=============================================================================
