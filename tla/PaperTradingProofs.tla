------------------------- MODULE PaperTradingProofs -------------------------
(***************************************************************************)
(* Proofs about paper trading, for any intents, quotes, symbols, fill      *)
(* limits and initial cash, and for any process deaths between two writes. *)
(***************************************************************************)
EXTENDS PaperTrading, InductionFacts, SequenceTheorems

-----------------------------------------------------------------------------
(* The handlers, write by write.                                           *)

PlacingJobs == [pc: {"placing"}, order: OrderIds, total: Nat, loop: {"none", "exits"},
                at: Nat, symbol: Symbols]
FillJobs == [pc: {"account_saved", "order_saved"}, order: OrderIds, total: Nat, n: Nat, price: Nat,
             loop: {"none", "matching", "exits"}, at: Nat, symbol: Symbols]
CancelJobs == [pc: {"order_saved"}, order: OrderIds, loop: {"none"}]
LoopJobs == [pc: {"matching", "exits"}, at: Nat, symbol: Symbols]
ReconcileJobs == [pc: {"reconciling"}, at: Nat]

\* The handler that runs has reached one of its writes, at an order that is
\* listed.
JobOK ==
    /\ job \in {Idle} \cup PlacingJobs \cup FillJobs \cup CancelJobs \cup LoopJobs \cup ReconcileJobs
    /\ job \in PlacingJobs \cup FillJobs \cup LoopJobs \cup ReconcileJobs => job.at <= Len(listed)

\* An order that has a row is claimed and listed; one without a row is empty.
RowsOK ==
    \A o \in OrderIds :
        IF book[o].status = "none" THEN book[o] = NoOrder
        ELSE o \in claims /\ \E k \in 1..Len(listed) : listed[k] = o

\* What is being placed has no row yet.  An exit sells no more than its order
\* has bought.
PlacingOK ==
    job.pc = "placing" =>
        /\ book[job.order].status = "none" /\ job.order \in claims
        /\ job.order \in Exits => job.total <= book[job.order[1]].filled

\* A fill that is in the account and not in the order yet fits into the order,
\* which is not over.
SavedOK ==
    job.pc = "account_saved" =>
        /\ book[job.order].status \in {"none"} \cup OpenPaper /\ job.order \in claims
        /\ book[job.order].filled + job.n <= job.total
        /\ job.order \in Exits => /\ book[job.order].status = "none"
                                  /\ job.total <= book[job.order[1]].filled

\* A reconciliation has recorded the fills of every order it has passed.
HealedOK ==
    job.pc = "reconciling" =>
        \A k \in 1..Len(listed) : k > job.at => fills[listed[k]] = book[listed[k]].filled

PaperInv ==
    /\ TypeOK /\ JobOK /\ RowsOK /\ PlacingOK /\ SavedOK /\ HealedOK
    /\ FillsBounded /\ OneExitPerLevel

-----------------------------------------------------------------------------
(* The operators.                                                          *)

\* The handlers are told apart by their pc.
LEMMA JobFacts ==
    ASSUME JobOK
    PROVE  /\ job = Idle <=> job.pc = "idle"
           /\ job \in PlacingJobs <=> job.pc = "placing"
           /\ job.pc = "account_saved" => job \in FillJobs
           /\ job.pc = "order_saved" => job \in FillJobs \cup CancelJobs
           /\ job \in LoopJobs <=> job.pc \in {"matching", "exits"}
           /\ job \in ReconcileJobs <=> job.pc = "reconciling"
           /\ job.pc \in {"idle", "placing", "account_saved", "order_saved", "matching", "exits",
                          "reconciling"}
<1>1. Idle.pc = "idle"
  BY DEF Idle
<1>2. /\ \A j \in PlacingJobs : j.pc = "placing"
      /\ \A j \in FillJobs : j.pc \in {"account_saved", "order_saved"}
  BY DEF PlacingJobs, FillJobs
<1>3. /\ \A j \in CancelJobs : j.pc = "order_saved"
      /\ \A j \in LoopJobs : j.pc \in {"matching", "exits"}
      /\ \A j \in ReconcileJobs : j.pc = "reconciling"
  BY DEF CancelJobs, LoopJobs, ReconcileJobs
<1> QED
  BY <1>1, <1>2, <1>3 DEF JobOK

\* Intents and exits have a symbol, a side and a limit.
LEMMA OrderFacts ==
    ASSUME NEW o \in OrderIds
    PROVE  /\ Symbol(o) \in Symbols /\ Side(o) \in {"buy", "sell"} /\ Limit(o) \in Nat
           /\ o \in Exits => /\ Side(o) = "sell" /\ Limit(o) = 0
                             /\ o[1] \in Intents /\ o[1] \in OrderIds /\ o[1] # o
<1>1. CASE o \in Exits
  <2>1. o[1] \in Intents
    BY <1>1 DEF Exits
  <2>2. o[1] # o
    BY <1>1, <2>1, ExitIdsAssumption
  <2> QED
    BY <1>1, <2>1, <2>2, TermAssumption DEF Symbol, Side, Limit, OrderIds
<1>2. CASE o \notin Exits
  <2>1. o \in Intents
    BY <1>2 DEF OrderIds
  <2> QED
    BY <1>2, <2>1, TermAssumption DEF Symbol, Side, Limit
<1> QED
  BY <1>1, <1>2

\* Prices are natural numbers.
LEMMA PriceFacts ==
    ASSUME NEW q \in Quotes \cup {NoQuote}, NEW limit \in Nat, NEW side
    PROVE  FillPrice(side, limit, q) \in Nat
<1>1. q.bid \in Nat /\ q.offer \in Nat /\ q.last \in Nat
  BY QuotesAssumption DEF NoQuote
<1>2. Executable(side, q) \in Nat
  BY <1>1 DEF Executable
<1>3. \A a, b \in Nat : Min({a, b}) \in Nat /\ Max({a, b}) \in Nat
  <2> SUFFICES ASSUME NEW a \in Nat, NEW b \in Nat
               PROVE  Min({a, b}) \in Nat /\ Max({a, b}) \in Nat
    OBVIOUS
  <2>1. \E x \in {a, b} : \A y \in {a, b} : x <= y
    OBVIOUS
  <2>2. \E x \in {a, b} : \A y \in {a, b} : x >= y
    OBVIOUS
  <2>3. Min({a, b}) \in {a, b}
    BY <2>1 DEF Min
  <2>4. Max({a, b}) \in {a, b}
    BY <2>2 DEF Max
  <2> QED
    BY <2>3, <2>4
<1>4. PICK e : e = Executable(side, q)
  OBVIOUS
<1>5. Min({limit, e}) \in Nat /\ Max({limit, e}) \in Nat
  BY <1>2, <1>3, <1>4
<1> QED
  BY <1>2, <1>4, <1>5 DEF FillPrice

\* A handler that has done its part of the loop goes back to it.
LEMMA ResumeFacts ==
    ASSUME job \in PlacingJobs \cup FillJobs \cup CancelJobs
    PROVE  \/ Resume(job) = Idle
           \/ /\ Resume(job) \in LoopJobs /\ job \in PlacingJobs \cup FillJobs
              /\ Resume(job).at = job.at
<1>1. CASE job \in PlacingJobs
  BY <1>1 DEF PlacingJobs, LoopJobs, Resume
<1>2. CASE job \in FillJobs
  BY <1>2 DEF FillJobs, LoopJobs, Resume
<1>3. CASE job \in CancelJobs
  BY <1>3 DEF CancelJobs, Resume
<1> QED
  BY <1>1, <1>2, <1>3

\* An affordable fill leaves cash and holdings natural numbers.
LEMMA AccountFacts ==
    ASSUME TypeOK, NEW o \in OrderIds, NEW n \in Nat, NEW price \in Nat,
           ~Unaffordable(o, n, price), SaveAccount(o, n, price)
    PROVE  /\ account' \in [cash: Nat, held: [Symbols -> Nat]]
           /\ n * price \in Nat
           /\ account'.cash = IF Side(o) = "buy" THEN account.cash - n * price
                              ELSE account.cash + n * price
           /\ \A s \in Symbols :
                account'.held[s] = IF s # Symbol(o) THEN account.held[s]
                                   ELSE IF Side(o) = "buy" THEN account.held[s] + n
                                   ELSE account.held[s] - n
<1>1. PICK s, m : s = Symbol(o) /\ m = n * price
  OBVIOUS
<1>2. m \in Nat /\ s \in Symbols
  BY <1>1, OrderFacts
<1>3. /\ account \in [cash: Nat, held: [Symbols -> Nat]]
      /\ account.cash \in Nat /\ account.held \in [Symbols -> Nat] /\ account.held[s] \in Nat
  BY <1>2 DEF TypeOK
<1>4. PICK cash, hold : /\ cash = (IF Side(o) = "buy" THEN account.cash - m ELSE account.cash + m)
                        /\ hold = (IF Side(o) = "buy" THEN account.held[s] + n ELSE account.held[s] - n)
  OBVIOUS
<1>5. cash \in Nat /\ hold \in Nat
  BY <1>1, <1>2, <1>3, <1>4 DEF Unaffordable
<1>6. account' = [account EXCEPT !.cash = cash, !.held[s] = hold]
  BY <1>1, <1>4 DEF SaveAccount
<1>7. account' \in [cash: Nat, held: [Symbols -> Nat]] /\ account'.cash = cash
      /\ account'.held = [account.held EXCEPT ![s] = hold]
  BY <1>3, <1>5, <1>6
<1> QED
  BY <1>1, <1>2, <1>3, <1>4, <1>7

-----------------------------------------------------------------------------
(* The steps that write no order.                                          *)

\* A handler that is idle or in a loop has nothing pending.
LEMMA NothingPending ==
    ASSUME job' \in {Idle} \cup LoopJobs
    PROVE  PlacingOK' /\ SavedOK' /\ HealedOK' /\ job'.pc \in {"idle", "matching", "exits"}
<1>1. job'.pc \in {"idle", "matching", "exits"}
  BY DEF Idle, LoopJobs
<1> QED
  BY <1>1 DEF PlacingOK, SavedOK, HealedOK

\* A step that leaves the tables and only moves the handler on.
LEMMA MovesOn ==
    ASSUME PaperInv, UNCHANGED <<account, book, listed, fills, claims>>,
           quotes' \in [Symbols -> Quotes \cup {NoQuote}], arrived' \in 0..MaxQuotes,
           crashes' \in 0..MaxCrashes, torn' \in BOOLEAN,
           job' \in {Idle} \cup LoopJobs, job' \in LoopJobs => job'.at <= Len(listed)
    PROVE  PaperInv'
<1>1. TypeOK'
  BY NothingPending DEF PaperInv, TypeOK
<1>2. JobOK'
  <2>1. job' = Idle => job'.pc = "idle"
    BY DEF Idle
  <2>2. job' \in LoopJobs => job'.pc \in {"matching", "exits"}
    BY DEF LoopJobs
  <2>3. \A j \in PlacingJobs \cup FillJobs \cup ReconcileJobs :
          j.pc \in {"placing", "account_saved", "order_saved", "reconciling"}
    BY DEF PlacingJobs, FillJobs, ReconcileJobs
  <2>4. \A j \in LoopJobs : j.pc # "idle"
    BY DEF LoopJobs
  <2> QED
    BY <2>1, <2>2, <2>3, <2>4 DEF JobOK
<1>3. RowsOK' /\ FillsBounded' /\ OneExitPerLevel'
  BY DEF PaperInv, RowsOK, FillsBounded, OneExitPerLevel
<1> QED
  BY <1>1, <1>2, <1>3, NothingPending DEF PaperInv

\* The loops of on_quote, and the death of the process.
LEMMA LoopStep ==
    ASSUME PaperInv,
           \/ \E s \in Symbols, q \in Quotes : OnQuote(s, q)
           \/ MatchSkip \/ MatchDone \/ ExitSkip \/ OnQuoteDone \/ ReconcileDone \/ Crash
    PROVE  PaperInv'
<1> USE PaperSettingsAssumption
<1>1. /\ JobOK /\ quotes \in [Symbols -> Quotes \cup {NoQuote}] /\ arrived \in 0..MaxQuotes
      /\ crashes \in 0..MaxCrashes /\ torn \in BOOLEAN /\ listed \in Seq(OrderIds)
  BY DEF PaperInv, TypeOK
<1>2. Len(listed) \in Nat
  BY <1>1, LenProperties
<1>3. ASSUME NEW s \in Symbols, NEW q \in Quotes, OnQuote(s, q) PROVE PaperInv'
  <2>1. /\ UNCHANGED <<account, book, listed, fills, claims, crashes, torn>>
        /\ arrived' \in 0..MaxQuotes /\ quotes' \in [Symbols -> Quotes \cup {NoQuote}]
    BY <1>1, <1>3 DEF OnQuote
  <2>2. job' = [pc |-> "matching", at |-> Len(listed), symbol |-> s]
    BY <1>3 DEF OnQuote
  <2>3. job' \in LoopJobs /\ job'.at <= Len(listed)
    BY <1>2, <2>2 DEF LoopJobs
  <2> QED
    BY <1>1, <2>1, <2>3, MovesOn
<1>4. CASE MatchSkip \/ ExitSkip
  <2>1. /\ UNCHANGED <<account, book, listed, fills, claims, quotes, bounds>>
        /\ job \in LoopJobs /\ job.at > 0 /\ job' = [job EXCEPT !.at = @ - 1]
    BY <1>1, <1>4, JobFacts DEF MatchSkip, ExitSkip, Advance
  <2>2. job.at <= Len(listed) /\ job.at \in Nat
    BY <1>1, <2>1 DEF JobOK, LoopJobs
  <2>3. job' \in LoopJobs /\ job'.at = job.at - 1
    BY <2>1, <2>2 DEF LoopJobs
  <2> QED
    BY <1>1, <1>2, <2>1, <2>2, <2>3, MovesOn DEF bounds
<1>5. CASE MatchDone
  <2>1. /\ UNCHANGED <<account, book, listed, fills, claims, quotes, bounds>>
        /\ job \in LoopJobs /\ job' = [pc |-> "exits", at |-> Len(listed), symbol |-> job.symbol]
    BY <1>1, <1>5, JobFacts DEF MatchDone
  <2>2. job' \in LoopJobs /\ job'.at <= Len(listed)
    BY <1>2, <2>1 DEF LoopJobs
  <2> QED
    BY <1>1, <2>1, <2>2, MovesOn DEF bounds
<1>6. Idle \notin LoopJobs
  BY DEF Idle, LoopJobs
<1>7. CASE OnQuoteDone \/ ReconcileDone
  BY <1>1, <1>6, <1>7, MovesOn DEF OnQuoteDone, ReconcileDone, bounds
<1>8. CASE Crash
  <2>1. /\ UNCHANGED <<account, book, listed, fills, claims, quotes, arrived>>
        /\ job' = Idle /\ crashes < MaxCrashes /\ crashes' = crashes + 1
    BY <1>8 DEF Crash
  <2>2. crashes' \in 0..MaxCrashes
    BY <1>1, <2>1
  <2>3. torn' \in BOOLEAN
    BY <1>8 DEF Crash
  <2> QED
    BY <1>1, <1>6, <2>1, <2>2, <2>3, MovesOn
<1> QED
  BY <1>3, <1>4, <1>5, <1>7, <1>8

\* submit: the id is claimed before the order is placed.
LEMMA SubmitStep ==
    ASSUME PaperInv, NEW o \in OrderIds, o \notin claims, claims' = claims \cup {o},
           NEW j \in PlacingJobs, job' = j, j.order = o, j.at <= Len(listed),
           o \in Exits => j.total <= book[o[1]].filled,
           UNCHANGED <<account, book, listed, fills, quotes, bounds>>
    PROVE  PaperInv'
<1>1. j.pc = "placing"
  BY DEF PlacingJobs
<1>2. TypeOK'
  BY <1>1 DEF PaperInv, TypeOK, bounds
<1>3. JobOK'
  BY DEF JobOK
<1>4. book[o].status = "none"
  BY DEF PaperInv, RowsOK
<1>5. PlacingOK' /\ SavedOK' /\ HealedOK'
  BY <1>1, <1>4 DEF PlacingOK, SavedOK, HealedOK
<1>6. RowsOK' /\ FillsBounded' /\ OneExitPerLevel'
  BY DEF PaperInv, RowsOK, FillsBounded, OneExitPerLevel
<1> QED
  BY <1>2, <1>3, <1>5, <1>6 DEF PaperInv

\* The client's orders and the protective exits.
LEMMA SubmitSteps ==
    ASSUME PaperInv, (\E i \in Intents : Submit(i)) \/ ExitSubmit
    PROVE  PaperInv'
<1>0. /\ TypeOK /\ JobOK /\ listed \in Seq(OrderIds)
      /\ book \in [OrderIds -> [status: {"none", "accepted", "partially_filled", "filled", "cancelled"},
                                quantity: Nat, filled: Nat, value: Nat]]
  BY DEF PaperInv, TypeOK
<1>1. Len(listed) \in Nat
  BY <1>0, LenProperties
<1>2. ASSUME NEW i \in Intents, Submit(i) PROVE PaperInv'
  <2>1. PICK j : j = [pc |-> "placing", order |-> i, total |-> Term[i].quantity,
                      loop |-> "none", at |-> 0, symbol |-> Term[i].symbol]
    OBVIOUS
  <2>2. i \in OrderIds /\ i \notin Exits
    BY ExitIdsAssumption DEF OrderIds
  <2>3. j \in PlacingJobs /\ j.order = i /\ j.at <= Len(listed)
    BY <1>1, <2>1, <2>2, TermAssumption DEF PlacingJobs
  <2>4. /\ i \notin claims /\ claims' = claims \cup {i} /\ job' = j
        /\ UNCHANGED <<account, book, listed, fills, quotes, bounds>>
    BY <1>2, <2>1 DEF Submit
  <2> QED
    BY <2>2, <2>3, <2>4, SubmitStep
<1>3. CASE ExitSubmit
  <2>1. job \in LoopJobs /\ job.at > 0
    BY <1>0, <1>3, JobFacts DEF ExitSubmit
  <2>2. job.at \in Nat /\ job.at <= Len(listed) /\ job.symbol \in Symbols
    BY <1>0, <2>1 DEF JobOK, LoopJobs
  <2>3. PICK i : i = listed[job.at]
    OBVIOUS
  <2>4. i \in OrderIds
    BY <1>0, <1>1, <2>1, <2>2, <2>3, ElementOfSeq
  <2>5. PICK o : o = <<i, ExitReason(i)>>
    OBVIOUS
  <2>6. Exitable(i) /\ o \notin claims /\ claims' = claims \cup {o}
    BY <1>3, <2>3, <2>5 DEF ExitSubmit
  <2>7. o \in Exits /\ o \in OrderIds /\ o[1] = i
    <3>1. i \in Intents /\ ExitReason(i) \in Reasons
      BY <2>6 DEF Exitable, ExitReason, Reasons
    <3> QED
      BY <2>5, <3>1 DEF Exits, OrderIds
  <2>8. PICK j : j = [pc |-> "placing", order |-> o, total |-> book[i].filled,
                      loop |-> "exits", at |-> job.at - 1, symbol |-> job.symbol]
    OBVIOUS
  <2>9. book[i].filled \in Nat
    BY <1>0, <2>4
  <2>10. j \in PlacingJobs /\ j.order = o /\ j.at <= Len(listed) /\ j.total <= book[o[1]].filled
    BY <1>1, <2>1, <2>2, <2>7, <2>8, <2>9 DEF PlacingJobs
  <2>11. job' = j /\ UNCHANGED <<account, book, listed, fills, quotes, bounds>>
    BY <1>3, <2>3, <2>5, <2>8 DEF ExitSubmit
  <2> QED
    BY <2>6, <2>7, <2>10, <2>11, SubmitStep
<1> QED
  BY <1>2, <1>3

\* place_order could not afford the fill: the claim is released.
LEMMA PlaceFailsStep ==
    ASSUME PaperInv, PlaceFails
    PROVE  PaperInv'
<1>1. /\ job \in PlacingJobs /\ job.pc = "placing" /\ claims' = claims \ {job.order} /\ job' = Resume(job)
      /\ UNCHANGED <<account, book, listed, fills, quotes, bounds>>
  BY JobFacts DEF PlaceFails, PaperInv
<1>2. /\ job' \in {Idle} \cup LoopJobs
      /\ job' \in LoopJobs => job'.at <= Len(listed)
  <2>1. job.at <= Len(listed)
    BY <1>1 DEF PaperInv, JobOK
  <2>2. Idle \notin LoopJobs
    BY DEF Idle, LoopJobs
  <2> QED
    BY <1>1, <2>1, <2>2, ResumeFacts
<1>3. TypeOK'
  BY <1>1, <1>2, NothingPending DEF PaperInv, TypeOK, bounds
<1>4. RowsOK'
  BY <1>1 DEF PaperInv, RowsOK, PlacingOK
<1>5. FillsBounded' /\ OneExitPerLevel'
  BY <1>1 DEF PaperInv, FillsBounded, OneExitPerLevel
<1>6. JobOK'
  <2>1. \A j \in PlacingJobs \cup FillJobs \cup ReconcileJobs :
          j.pc \in {"placing", "account_saved", "order_saved", "reconciling"}
    BY DEF PlacingJobs, FillJobs, ReconcileJobs
  <2> QED
    BY <1>1, <1>2, <2>1, NothingPending DEF JobOK
<1> QED
  BY <1>2, <1>3, <1>4, <1>5, <1>6, NothingPending DEF PaperInv

-----------------------------------------------------------------------------
(* The steps of a fill.                                                    *)

\* apply_fill: the account is saved, with an order that has room for the fill.
LEMMA SaveAccountStep ==
    ASSUME PaperInv, NEW j \in FillJobs, j.pc = "account_saved", job' = j,
           j.at <= Len(listed),
           account' \in [cash: Nat, held: [Symbols -> Nat]],
           book[j.order].status \in {"none"} \cup OpenPaper, j.order \in claims,
           book[j.order].filled + j.n <= j.total,
           j.order \in Exits => /\ book[j.order].status = "none"
                                /\ j.total <= book[j.order[1]].filled,
           UNCHANGED <<book, listed, fills, claims, quotes, bounds>>
    PROVE  PaperInv'
<1>1. TypeOK'
  BY DEF PaperInv, TypeOK, bounds
<1>2. JobOK'
  BY DEF JobOK
<1>3. PlacingOK' /\ SavedOK' /\ HealedOK'
  BY DEF PlacingOK, SavedOK, HealedOK
<1>4. RowsOK' /\ FillsBounded' /\ OneExitPerLevel'
  BY DEF PaperInv, RowsOK, FillsBounded, OneExitPerLevel
<1> QED
  BY <1>1, <1>2, <1>3, <1>4 DEF PaperInv

\* The fill of place_order is whole.
LEMMA PlaceFillStep ==
    ASSUME PaperInv, PlaceFill
    PROVE  /\ PaperInv'
           /\ job' \in FillJobs /\ job'.pc = "account_saved"
           /\ ~Unaffordable(job'.order, job'.n, job'.price) /\ SaveAccount(job'.order, job'.n, job'.price)
<1>1. job \in PlacingJobs /\ job.pc = "placing"
  BY JobFacts DEF PlaceFill, PaperInv
<1>2. PICK o, n, price : o = job.order /\ n = job.total /\ price = PlacePrice(job.order)
  OBVIOUS
<1>3. o \in OrderIds /\ n \in Nat
  BY <1>1, <1>2 DEF PlacingJobs
<1>4. price \in Nat
  <2>1. quotes[Symbol(o)] \in Quotes \cup {NoQuote} /\ Limit(o) \in Nat
    BY <1>3, OrderFacts DEF PaperInv, TypeOK
  <2> QED
    BY <1>2, <2>1, PriceFacts DEF PlacePrice
<1>5. PICK j : j = [pc |-> "account_saved", order |-> o, total |-> n, n |-> n, price |-> price,
                    loop |-> job.loop, at |-> job.at, symbol |-> job.symbol]
  OBVIOUS
<1>6. /\ ~Unaffordable(o, n, price) /\ SaveAccount(o, n, price) /\ job' = j
      /\ UNCHANGED <<book, listed, fills, claims, quotes, bounds>>
  BY <1>2, <1>5 DEF PlaceFill
<1>7. /\ j \in FillJobs /\ j.pc = "account_saved" /\ j.order = o /\ j.n = n /\ j.total = n
      /\ j.price = price /\ j.at = job.at
  BY <1>1, <1>3, <1>4, <1>5 DEF FillJobs, PlacingJobs
<1>8. account' \in [cash: Nat, held: [Symbols -> Nat]]
  BY <1>3, <1>4, <1>6, AccountFacts DEF PaperInv
<1>9. /\ book[o].status = "none" /\ o \in claims /\ book[o].filled = 0
      /\ o \in Exits => n <= book[o[1]].filled
  <2>1. book[o].status = "none" /\ o \in claims /\ (o \in Exits => n <= book[o[1]].filled)
    BY <1>1, <1>2 DEF PaperInv, PlacingOK
  <2>2. book[o] = NoOrder
    BY <1>3, <2>1 DEF PaperInv, RowsOK
  <2> QED
    BY <2>1, <2>2 DEF NoOrder
<1>10. job.at <= Len(listed) /\ 0 + n <= n
  BY <1>1, <1>3 DEF PaperInv, JobOK
<1> QED
  BY <1>6, <1>7, <1>8, <1>9, <1>10, SaveAccountStep

\* The fill of process_quote fills at most what remains.
LEMMA MatchFillStep ==
    ASSUME PaperInv, MatchFill
    PROVE  /\ PaperInv'
           /\ job' \in FillJobs /\ job'.pc = "account_saved"
           /\ ~Unaffordable(job'.order, job'.n, job'.price) /\ SaveAccount(job'.order, job'.n, job'.price)
<1>1. job \in LoopJobs /\ job.at > 0 /\ listed \in Seq(OrderIds)
  BY JobFacts DEF MatchFill, PaperInv, TypeOK
<1>2. job.at \in Nat /\ job.at <= Len(listed) /\ job.symbol \in Symbols
  BY <1>1 DEF PaperInv, JobOK, LoopJobs
<1>3. Len(listed) \in Nat
  BY <1>1, LenProperties
<1>4. PICK o : o = listed[job.at]
  OBVIOUS
<1>5. o \in OrderIds
  BY <1>1, <1>2, <1>3, <1>4, ElementOfSeq
<1>6. PICK n, price : n = FillQuantity(o) /\ price = FillPrice(Side(o), Limit(o), quotes[job.symbol])
  OBVIOUS
<1>7. Matchable(o)
  BY <1>4 DEF MatchFill
<1>8. /\ book[o].quantity \in Nat /\ book[o].filled \in Nat
      /\ Remaining(o) > 0 /\ book[o].status \in OpenPaper /\ Limit(o) # 0
  BY <1>5, <1>7 DEF Matchable, PaperInv, TypeOK
<1>9. n \in Nat /\ n <= Remaining(o) /\ Remaining(o) \in Nat
  <2>1. PICK r : r = Remaining(o)
    OBVIOUS
  <2>2. r \in Nat
    BY <1>8, <2>1 DEF Remaining
  <2>3. ASSUME MaxFill > 0 PROVE Min({r, MaxFill}) \in {r, MaxFill} /\ Min({r, MaxFill}) <= r
    <3>1. \E x \in {r, MaxFill} : \A y \in {r, MaxFill} : x <= y
      BY <2>2, PaperSettingsAssumption
    <3> QED
      BY <2>2, <3>1, PaperSettingsAssumption DEF Min
  <2> QED
    BY <1>6, <2>1, <2>2, <2>3, PaperSettingsAssumption DEF FillQuantity
<1>10. price \in Nat
  <2>1. quotes[job.symbol] \in Quotes \cup {NoQuote} /\ Limit(o) \in Nat
    BY <1>2, <1>5, OrderFacts DEF PaperInv, TypeOK
  <2> QED
    BY <1>6, <2>1, PriceFacts
<1>11. PICK j : j = [pc |-> "account_saved", order |-> o, total |-> book[o].quantity, n |-> n,
                     price |-> price, loop |-> "matching", at |-> job.at - 1, symbol |-> job.symbol]
  OBVIOUS
<1>12. /\ ~Unaffordable(o, n, price) /\ SaveAccount(o, n, price) /\ job' = j
       /\ UNCHANGED <<book, listed, fills, claims, quotes, bounds>>
  BY <1>4, <1>6, <1>11 DEF MatchFill
<1>13. /\ j \in FillJobs /\ j.pc = "account_saved" /\ j.order = o /\ j.n = n
       /\ j.total = book[o].quantity /\ j.price = price /\ j.at = job.at - 1
  BY <1>1, <1>2, <1>5, <1>8, <1>9, <1>10, <1>11 DEF FillJobs
<1>14. account' \in [cash: Nat, held: [Symbols -> Nat]]
  BY <1>5, <1>9, <1>10, <1>12, AccountFacts DEF PaperInv
<1>15. o \in claims /\ o \notin Exits /\ book[o].filled + n <= book[o].quantity
  <2>1. o \in claims
    BY <1>5, <1>8 DEF PaperInv, RowsOK, OpenPaper
  <2>2. o \notin Exits
    BY <1>5, <1>8, OrderFacts
  <2>3. book[o].filled + n <= book[o].quantity
    BY <1>8, <1>9 DEF Remaining
  <2> QED
    BY <2>1, <2>2, <2>3
<1>16. job.at - 1 <= Len(listed)
  BY <1>2, <1>3
<1> QED
  BY <1>8, <1>12, <1>13, <1>14, <1>15, <1>16, SaveAccountStep

Rows == [status: {"none", "accepted", "partially_filled", "filled", "cancelled"},
         quantity: Nat, filled: Nat, value: Nat]

\* An order is written: its row gets or keeps a place in the list, its fills
\* do not shrink and fit into it, and an exit stays within its order.
LEMMA WriteOrder ==
    ASSUME PaperInv, NEW o \in OrderIds, NEW row \in Rows,
           book' = [book EXCEPT ![o] = row],
           listed' = IF book[o].status = "none" THEN Append(listed, o) ELSE listed,
           row.status # "none", o \in claims,
           book[o].filled <= row.filled, row.filled <= row.quantity,
           o \in Exits => row.filled <= book[o[1]].filled,
           UNCHANGED <<fills, claims>>
    PROVE  /\ book' \in [OrderIds -> Rows] /\ listed' \in Seq(OrderIds)
           /\ Len(listed') \in Nat /\ Len(listed) <= Len(listed')
           /\ RowsOK' /\ FillsBounded' /\ OneExitPerLevel'
<1>1. /\ book \in [OrderIds -> Rows] /\ listed \in Seq(OrderIds) /\ fills \in [OrderIds -> Nat]
      /\ RowsOK /\ FillsBounded /\ OneExitPerLevel
  BY DEF PaperInv, TypeOK, Rows
<1>2. \A p \in OrderIds : book'[p] = IF p = o THEN row ELSE book[p]
  BY <1>1
<1>3. book' \in [OrderIds -> Rows]
  BY <1>1
<1>4. /\ listed' \in Seq(OrderIds) /\ Len(listed') \in Nat /\ Len(listed) \in Nat
      /\ Len(listed) <= Len(listed')
      /\ \A k \in 1..Len(listed) : k \in 1..Len(listed') /\ listed'[k] = listed[k]
      /\ book[o].status = "none" => Len(listed') \in 1..Len(listed') /\ listed'[Len(listed')] = o
  <2>1. Len(listed) \in Nat
    BY <1>1, LenProperties
  <2>2. CASE book[o].status = "none"
    <3>1. listed' = Append(listed, o)
      BY <2>2
    <3>2. /\ listed' \in Seq(OrderIds) /\ Len(listed') = Len(listed) + 1
          /\ \A k \in 1..Len(listed) : listed'[k] = listed[k]
          /\ listed'[Len(listed) + 1] = o
      BY <1>1, <3>1, AppendProperties
    <3> QED
      BY <2>1, <3>2
  <2>3. CASE book[o].status # "none"
    BY <1>1, <2>1, <2>3
  <2> QED
    BY <2>2, <2>3
<1>5. RowsOK'
  <2> SUFFICES ASSUME NEW p \in OrderIds
               PROVE  IF book'[p].status = "none" THEN book'[p] = NoOrder
                      ELSE p \in claims /\ \E k \in 1..Len(listed') : listed'[k] = p
    BY DEF RowsOK
  <2>1. CASE p = o
    BY <1>1, <1>2, <1>4, <2>1 DEF RowsOK
  <2>2. CASE p # o
    BY <1>1, <1>2, <1>4, <2>2 DEF RowsOK
  <2> QED
    BY <2>1, <2>2
<1>6. \A p \in OrderIds : book[p].filled \in Nat /\ book'[p].filled \in Nat /\ book[p].filled <= book'[p].filled
  BY <1>1, <1>2, <1>3 DEF Rows
<1>7. FillsBounded'
  <2> SUFFICES ASSUME NEW p \in OrderIds
               PROVE  fills[p] <= book'[p].filled /\ book'[p].filled <= book'[p].quantity
    BY DEF FillsBounded
  <2>1. fills[p] <= book[p].filled /\ fills[p] \in Nat /\ book[p].filled <= book[p].quantity
    BY <1>1 DEF FillsBounded
  <2> QED
    BY <1>2, <1>6, <2>1
<1>8. OneExitPerLevel'
  <2> SUFFICES ASSUME NEW x \in Exits PROVE book'[x].filled <= book'[x[1]].filled
    BY DEF OneExitPerLevel
  <2>1. x \in OrderIds /\ x[1] \in OrderIds /\ x[1] # x
    BY OrderFacts DEF OrderIds
  <2>2. book[x].filled <= book[x[1]].filled
    BY <1>1 DEF OneExitPerLevel
  <2> QED
    BY <1>2, <1>6, <2>1, <2>2
<1> QED
  BY <1>3, <1>4, <1>5, <1>7, <1>8

\* The order of a fill is saved.
LEMMA SaveOrderStep ==
    ASSUME PaperInv, SaveOrder
    PROVE  /\ PaperInv'
           /\ job \in FillJobs
           /\ book[job.order].status \in {"none"} \cup OpenPaper
           /\ \A p \in OrderIds :
                /\ p # job.order => book'[p] = book[p]
                /\ p = job.order => /\ book'[p].filled = book[p].filled + job.n
                                    /\ book'[p].value = book[p].value + job.n * job.price
<1>1. job \in FillJobs /\ job.pc = "account_saved"
  BY JobFacts DEF SaveOrder, PaperInv
<1>2. PICK o, total, n, price : o = job.order /\ total = job.total /\ n = job.n /\ price = job.price
  OBVIOUS
<1>3. /\ o \in OrderIds /\ total \in Nat /\ n \in Nat /\ price \in Nat /\ n * price \in Nat
      /\ job.at \in Nat /\ job.at <= Len(listed)
  BY <1>1, <1>2 DEF FillJobs, PaperInv, JobOK
<1>4. book \in [OrderIds -> Rows] /\ book[o] \in Rows
  BY <1>3 DEF PaperInv, TypeOK, Rows
<1>5. PICK m, filled, status : /\ m = n * price /\ filled = book[o].filled + n
                               /\ status = IF filled >= total THEN "filled" ELSE "partially_filled"
  OBVIOUS
<1>6. PICK row : row = [[book[o] EXCEPT !.quantity = total] EXCEPT
                           !.filled = filled, !.value = @ + m, !.status = status]
  OBVIOUS
<1>7. /\ row \in Rows /\ row.filled = book[o].filled + n /\ row.value = book[o].value + m
      /\ row.quantity = total /\ row.status # "none"
  <2>1. PICK old : old = [book[o] EXCEPT !.quantity = total]
    OBVIOUS
  <2>2. old \in Rows /\ old.quantity = total /\ old.filled = book[o].filled /\ old.value = book[o].value
    BY <1>3, <1>4, <2>1 DEF Rows
  <2>3. old.value \in Nat /\ m \in Nat /\ book[o].filled \in Nat
    BY <1>3, <1>4, <1>5, <2>2 DEF Rows
  <2>4. PICK value : value = old.value + m
    OBVIOUS
  <2>5. value \in Nat /\ filled \in Nat /\ status \in {"filled", "partially_filled"}
    BY <1>3, <1>5, <2>3, <2>4
  <2>6. row = [old EXCEPT !.filled = filled, !.value = value, !.status = status]
    BY <1>6, <2>1, <2>4
  <2>7. row \in Rows /\ row.filled = filled /\ row.value = value /\ row.quantity = old.quantity
        /\ row.status = status
    BY <2>2, <2>5, <2>6 DEF Rows
  <2> QED
    BY <1>5, <2>2, <2>4, <2>5, <2>7
<1>8. /\ book' = [book EXCEPT ![o] = row]
      /\ listed' = IF book[o].status = "none" THEN Append(listed, o) ELSE listed
      /\ job' = [job EXCEPT !.pc = "order_saved"]
      /\ UNCHANGED <<account, fills, claims, quotes, bounds>>
  <2>1. [book[o] EXCEPT !.quantity = total].filled = book[o].filled
    BY <1>4 DEF Rows
  <2> QED
    BY <1>2, <1>5, <1>6, <2>1 DEF SaveOrder
<1>9. /\ book[o].status \in {"none"} \cup OpenPaper /\ o \in claims
      /\ book[o].filled + n <= total
      /\ o \in Exits => book[o].status = "none" /\ total <= book[o[1]].filled
  BY <1>1, <1>2 DEF PaperInv, SavedOK
<1>10. book[o].filled \in Nat /\ book[o].filled <= row.filled /\ row.filled <= row.quantity
  BY <1>3, <1>4, <1>7, <1>9 DEF Rows
<1>11. o \in Exits => row.filled <= book[o[1]].filled
  <2> SUFFICES ASSUME o \in Exits PROVE row.filled <= book[o[1]].filled
    OBVIOUS
  <2>1. book[o[1]].filled \in Nat
    BY <1>3, <1>4, OrderFacts DEF Rows
  <2> QED
    BY <1>3, <1>7, <1>9, <1>10, <2>1
<1>12. /\ book' \in [OrderIds -> Rows] /\ listed' \in Seq(OrderIds)
       /\ Len(listed') \in Nat /\ Len(listed) <= Len(listed')
       /\ RowsOK' /\ FillsBounded' /\ OneExitPerLevel'
  BY <1>3, <1>7, <1>8, <1>9, <1>10, <1>11, WriteOrder
<1>13. job' \in FillJobs /\ job'.pc = "order_saved" /\ job'.at = job.at
  BY <1>1, <1>8 DEF FillJobs
<1>14. TypeOK'
  BY <1>8, <1>12, <1>13 DEF PaperInv, TypeOK, Rows, bounds
<1>15. JobOK'
  <2>1. Len(listed) \in Nat
    BY LenProperties DEF PaperInv, TypeOK
  <2>2. job.at <= Len(listed')
    BY <1>3, <1>12, <2>1
  <2> QED
    BY <1>13, <2>2 DEF JobOK
<1>16. PlacingOK' /\ SavedOK' /\ HealedOK'
  BY <1>13 DEF PlacingOK, SavedOK, HealedOK
<1>17. \A p \in OrderIds : book'[p] = IF p = o THEN row ELSE book[p]
  BY <1>4, <1>8
<1> QED
  BY <1>1, <1>2, <1>3, <1>5, <1>7, <1>9, <1>12, <1>14, <1>15, <1>16, <1>17 DEF PaperInv

\* The part of an order's fills that is not recorded is.
LEMMA RecordFillStep ==
    ASSUME PaperInv, RecordFill
    PROVE  PaperInv'
<1>1. job \in FillJobs \cup CancelJobs
  BY JobFacts DEF RecordFill, PaperInv
<1>2. PICK o : o = job.order
  OBVIOUS
<1>3. o \in OrderIds
  BY <1>1, <1>2 DEF FillJobs, CancelJobs
<1>4. /\ fills \in [OrderIds -> Nat] /\ fills[o] \in Nat /\ book[o].filled \in Nat
      /\ fills[o] + (book[o].filled - fills[o]) = book[o].filled
  BY <1>3 DEF PaperInv, TypeOK
<1>5. /\ fills' = [fills EXCEPT ![o] = fills[o] + (book[o].filled - fills[o])]
      /\ job' = Resume(job) /\ UNCHANGED <<account, book, listed, claims, quotes, bounds>>
  BY <1>2 DEF RecordFill
<1>6. fills' = [fills EXCEPT ![o] = book[o].filled]
  BY <1>4, <1>5
<1>7. fills' \in [OrderIds -> Nat] /\ \A p \in OrderIds : fills'[p] = IF p = o THEN book[o].filled ELSE fills[p]
  BY <1>4, <1>6
<1>8. job' \in {Idle} \cup LoopJobs /\ (job' \in LoopJobs => job'.at <= Len(listed))
  <2>1. job \in FillJobs => job.at <= Len(listed)
    BY DEF PaperInv, JobOK
  <2>2. Idle \notin LoopJobs /\ PlacingJobs \cap (FillJobs \cup CancelJobs) = {}
    BY DEF Idle, LoopJobs, PlacingJobs, FillJobs, CancelJobs
  <2> QED
    BY <1>1, <1>5, <2>1, <2>2, ResumeFacts
<1>9. TypeOK'
  BY <1>5, <1>7, <1>8, NothingPending DEF PaperInv, TypeOK, bounds
<1>10. FillsBounded'
  <2> SUFFICES ASSUME NEW p \in OrderIds
               PROVE  fills'[p] <= book[p].filled /\ book[p].filled <= book[p].quantity
    BY <1>5 DEF FillsBounded
  <2> QED
    BY <1>4, <1>7 DEF PaperInv, FillsBounded
<1>11. RowsOK' /\ OneExitPerLevel'
  BY <1>5 DEF PaperInv, RowsOK, OneExitPerLevel
<1>12. JobOK'
  <2>1. \A j \in PlacingJobs \cup FillJobs \cup ReconcileJobs :
          j.pc \in {"placing", "account_saved", "order_saved", "reconciling"}
    BY DEF PlacingJobs, FillJobs, ReconcileJobs
  <2> QED
    BY <1>5, <1>8, <2>1, NothingPending DEF JobOK
<1> QED
  BY <1>8, <1>9, <1>10, <1>11, <1>12, NothingPending DEF PaperInv

\* A limit order that does not cross rests.
LEMMA PlaceRestStep ==
    ASSUME PaperInv, PlaceRest
    PROVE  /\ PaperInv' /\ job \in PlacingJobs /\ book[job.order] = NoOrder
           /\ \A p \in OrderIds : /\ book'[p].filled = book[p].filled /\ book'[p].value = book[p].value
                                  /\ p # job.order => book'[p] = book[p]
<1>1. job \in PlacingJobs /\ job.pc = "placing"
  BY JobFacts DEF PlaceRest, PaperInv
<1>2. PICK o, total : o = job.order /\ total = job.total
  OBVIOUS
<1>3. o \in OrderIds /\ total \in Nat /\ job.at <= Len(listed) /\ job.at \in Nat
  BY <1>1, <1>2 DEF PlacingJobs, PaperInv, JobOK
<1>4. PICK row : row = [status |-> "accepted", quantity |-> total, filled |-> 0, value |-> 0]
  OBVIOUS
<1>5. row \in Rows /\ row.filled = 0 /\ row.value = 0 /\ row.quantity = total /\ row.status = "accepted"
  BY <1>3, <1>4 DEF Rows
<1>6. book[o].status = "none" /\ o \in claims
  BY <1>1, <1>2 DEF PaperInv, PlacingOK
<1>7. book[o] = NoOrder
  BY <1>3, <1>6 DEF PaperInv, RowsOK
<1>8. book[o].filled = 0 /\ book[o].value = 0
  BY <1>7 DEF NoOrder
<1>9. /\ book' = [book EXCEPT ![o] = row] /\ listed' = Append(listed, o) /\ job' = Resume(job)
      /\ UNCHANGED <<account, fills, claims, quotes, bounds>>
  BY <1>2, <1>4 DEF PlaceRest
<1>10. o \in Exits => row.filled <= book[o[1]].filled
  BY <1>3, <1>5, OrderFacts DEF PaperInv, TypeOK
<1>11. /\ book' \in [OrderIds -> Rows] /\ listed' \in Seq(OrderIds)
       /\ Len(listed') \in Nat /\ Len(listed) <= Len(listed')
       /\ RowsOK' /\ FillsBounded' /\ OneExitPerLevel'
  <2>1. book[o].filled <= row.filled /\ row.filled <= row.quantity /\ row.status # "none"
    BY <1>3, <1>5, <1>8
  <2>2. listed' = IF book[o].status = "none" THEN Append(listed, o) ELSE listed
    BY <1>6, <1>9
  <2> QED
    BY <1>3, <1>5, <1>6, <1>9, <1>10, <2>1, <2>2, WriteOrder
<1>12. job' \in {Idle} \cup LoopJobs /\ (job' \in LoopJobs => job'.at <= Len(listed'))
  <2>1. Idle \notin LoopJobs
    BY DEF Idle, LoopJobs
  <2>2. Len(listed) \in Nat
    BY LenProperties DEF PaperInv, TypeOK
  <2>3. job.at <= Len(listed')
    BY <1>3, <1>11, <2>2
  <2> QED
    BY <1>1, <1>9, <2>1, <2>3, ResumeFacts
<1>13. TypeOK'
  BY <1>9, <1>11, <1>12, NothingPending DEF PaperInv, TypeOK, Rows, bounds
<1>14. JobOK'
  <2>1. \A j \in PlacingJobs \cup FillJobs \cup ReconcileJobs :
          j.pc \in {"placing", "account_saved", "order_saved", "reconciling"}
    BY DEF PlacingJobs, FillJobs, ReconcileJobs
  <2> QED
    BY <1>12, <2>1, NothingPending DEF JobOK
<1>15. \A p \in OrderIds : book'[p] = IF p = o THEN row ELSE book[p]
  BY <1>9 DEF PaperInv, TypeOK
<1> QED
  BY <1>1, <1>2, <1>5, <1>7, <1>8, <1>11, <1>12, <1>13, <1>14, <1>15, NothingPending DEF PaperInv

\* An open order is cancelled, with what was filled.
LEMMA CancelledRow ==
    ASSUME PaperInv, NEW o \in OrderIds, book[o].status \in OpenPaper,
           book' = [book EXCEPT ![o].status = "cancelled"], UNCHANGED <<listed, fills, claims>>
    PROVE  /\ book' \in [OrderIds -> Rows]
           /\ RowsOK' /\ FillsBounded' /\ OneExitPerLevel'
           /\ \A p \in OrderIds : /\ book'[p].filled = book[p].filled /\ book'[p].value = book[p].value
                                  /\ p # o => book'[p] = book[p]
<1>1. book \in [OrderIds -> Rows] /\ book[o] \in Rows
  BY DEF PaperInv, TypeOK, Rows
<1>2. PICK row : row = [book[o] EXCEPT !.status = "cancelled"]
  OBVIOUS
<1>3. /\ row \in Rows /\ row.filled = book[o].filled /\ row.value = book[o].value
      /\ row.quantity = book[o].quantity /\ row.status = "cancelled"
  BY <1>1, <1>2 DEF Rows
<1>4. book' = [book EXCEPT ![o] = row]
  BY <1>1, <1>2
<1>5. book[o].status # "none"
  BY DEF OpenPaper
<1>6. o \in claims /\ book[o].filled <= book[o].quantity
  BY <1>5 DEF PaperInv, RowsOK, FillsBounded
<1>7. o \in Exits => row.filled <= book[o[1]].filled
  BY <1>3 DEF PaperInv, OneExitPerLevel
<1>8. listed' = IF book[o].status = "none" THEN Append(listed, o) ELSE listed
  BY <1>5
<1>9. book[o].filled <= row.filled /\ row.filled <= row.quantity /\ row.status # "none"
  BY <1>1, <1>3, <1>6 DEF Rows
<1>10. /\ book' \in [OrderIds -> Rows] /\ RowsOK' /\ FillsBounded' /\ OneExitPerLevel'
  BY <1>3, <1>4, <1>6, <1>7, <1>8, <1>9, WriteOrder
<1>11. \A p \in OrderIds : book'[p] = IF p = o THEN row ELSE book[p]
  BY <1>1, <1>4
<1> QED
  BY <1>3, <1>10, <1>11

\* cancel_order, and the cancellation of process_quote.
LEMMA CancelSteps ==
    ASSUME PaperInv, MatchCancel \/ \E o \in OrderIds : Cancel(o)
    PROVE  /\ PaperInv'
           /\ \A p \in OrderIds : /\ book'[p].filled = book[p].filled /\ book'[p].value = book[p].value
                                  /\ book[p].status \notin OpenPaper => book'[p] = book[p]
<1>1. ASSUME NEW o \in OrderIds, Cancel(o)
      PROVE  /\ PaperInv'
             /\ \A p \in OrderIds : /\ book'[p].filled = book[p].filled /\ book'[p].value = book[p].value
                                    /\ book[p].status \notin OpenPaper => book'[p] = book[p]
  <2>1. /\ book[o].status \in OpenPaper /\ book' = [book EXCEPT ![o].status = "cancelled"]
        /\ job' = [pc |-> "order_saved", order |-> o, loop |-> "none"]
        /\ UNCHANGED <<account, listed, fills, claims, quotes, bounds>>
    BY <1>1 DEF Cancel, WriteCancelled
  <2>2. /\ book' \in [OrderIds -> Rows] /\ RowsOK' /\ FillsBounded' /\ OneExitPerLevel'
        /\ \A p \in OrderIds : /\ book'[p].filled = book[p].filled /\ book'[p].value = book[p].value
                               /\ p # o => book'[p] = book[p]
    BY <2>1, CancelledRow
  <2>3. job' \in CancelJobs /\ job'.pc = "order_saved"
    BY <2>1 DEF CancelJobs
  <2>4. job' \notin PlacingJobs \cup FillJobs \cup LoopJobs \cup ReconcileJobs
    <3>1. DOMAIN job' = {"pc", "order", "loop"}
      BY <2>1
    <3>2. \A j \in FillJobs : DOMAIN j = {"pc", "order", "total", "n", "price", "loop", "at", "symbol"}
      BY DEF FillJobs
    <3>3. \A j \in PlacingJobs \cup LoopJobs \cup ReconcileJobs : j.pc # "order_saved"
      BY DEF PlacingJobs, LoopJobs, ReconcileJobs
    <3> QED
      BY <2>3, <3>1, <3>2, <3>3
  <2>5. TypeOK'
    BY <2>1, <2>2, <2>3 DEF PaperInv, TypeOK, Rows, bounds
  <2>6. JobOK'
    BY <2>3, <2>4 DEF JobOK
  <2>7. PlacingOK' /\ SavedOK' /\ HealedOK'
    BY <2>3 DEF PlacingOK, SavedOK, HealedOK
  <2> QED
    BY <2>1, <2>2, <2>5, <2>6, <2>7 DEF PaperInv
<1>2. CASE MatchCancel
  <2>1. job \in LoopJobs /\ job.at > 0 /\ listed \in Seq(OrderIds)
    BY <1>2, JobFacts DEF MatchCancel, PaperInv, TypeOK
  <2>2. job.at \in Nat /\ job.at <= Len(listed)
    BY <2>1 DEF PaperInv, JobOK, LoopJobs
  <2>3. Len(listed) \in Nat
    BY <2>1, LenProperties
  <2>4. PICK o : o = listed[job.at]
    OBVIOUS
  <2>5. o \in OrderIds
    BY <2>1, <2>2, <2>3, <2>4, ElementOfSeq
  <2>6. /\ book[o].status \in OpenPaper /\ book' = [book EXCEPT ![o].status = "cancelled"]
        /\ job' = [job EXCEPT !.at = @ - 1]
        /\ UNCHANGED <<account, listed, fills, claims, quotes, bounds>>
    BY <1>2, <2>4 DEF MatchCancel, Matchable, Advance
  <2>7. /\ book' \in [OrderIds -> Rows] /\ RowsOK' /\ FillsBounded' /\ OneExitPerLevel'
        /\ \A p \in OrderIds : /\ book'[p].filled = book[p].filled /\ book'[p].value = book[p].value
                               /\ p # o => book'[p] = book[p]
    BY <2>5, <2>6, CancelledRow
  <2>8. job' \in LoopJobs /\ job'.at = job.at - 1
    BY <2>1, <2>2, <2>6 DEF LoopJobs
  <2>9. PlacingOK' /\ SavedOK' /\ HealedOK' /\ job'.pc \in {"idle", "matching", "exits"}
    BY <2>8, NothingPending
  <2>10. TypeOK'
    BY <2>6, <2>7, <2>9 DEF PaperInv, TypeOK, Rows, bounds
  <2>11. JobOK'
    BY <2>2, <2>3, <2>6, <2>8 DEF JobOK
  <2> QED
    BY <2>6, <2>7, <2>9, <2>10, <2>11 DEF PaperInv
<1> QED
  BY <1>1, <1>2

-----------------------------------------------------------------------------
(* POST /v1/reconcile.                                                     *)

\* A reconciliation starts behind the newest order, with nothing to vouch for.
LEMMA ReconcileStartStep ==
    ASSUME PaperInv, ReconcileStart
    PROVE  PaperInv'
<1>1. /\ job' = [pc |-> "reconciling", at |-> Len(listed)]
      /\ UNCHANGED <<account, book, listed, fills, claims, quotes, bounds>>
  BY DEF ReconcileStart
<1>2. listed \in Seq(OrderIds) /\ Len(listed) \in Nat
  BY LenProperties DEF PaperInv, TypeOK
<1>3. job' \in ReconcileJobs /\ job'.pc = "reconciling" /\ job'.at = Len(listed)
  BY <1>1, <1>2 DEF ReconcileJobs
<1>4. TypeOK'
  BY <1>1, <1>3 DEF PaperInv, TypeOK, bounds
<1>5. JobOK'
  BY <1>1, <1>2, <1>3 DEF JobOK
<1>6. PlacingOK' /\ SavedOK'
  BY <1>3 DEF PlacingOK, SavedOK
<1>7. HealedOK'
  BY <1>1, <1>2, <1>3 DEF HealedOK
<1>8. RowsOK' /\ FillsBounded' /\ OneExitPerLevel'
  BY <1>1 DEF PaperInv, RowsOK, FillsBounded, OneExitPerLevel
<1> QED
  BY <1>4, <1>5, <1>6, <1>7, <1>8 DEF PaperInv

\* It records what the next order's fills lack: as no fill was recorded twice,
\* the larger of the two quantities is the order's.
LEMMA ReconcileNextStep ==
    ASSUME PaperInv, ReconcileNext
    PROVE  PaperInv'
<1>1. job \in ReconcileJobs /\ job.pc = "reconciling" /\ job.at > 0 /\ listed \in Seq(OrderIds)
  BY JobFacts DEF ReconcileNext, PaperInv, TypeOK
<1>2. job.at \in Nat /\ job.at <= Len(listed)
  BY <1>1 DEF PaperInv, JobOK, ReconcileJobs
<1>3. Len(listed) \in Nat
  BY <1>1, LenProperties
<1>4. PICK o : o = listed[job.at]
  OBVIOUS
<1>5. o \in OrderIds
  BY <1>1, <1>2, <1>3, <1>4, ElementOfSeq
<1>6. /\ fills \in [OrderIds -> Nat] /\ fills[o] \in Nat /\ book[o].filled \in Nat
      /\ fills[o] <= book[o].filled
  BY <1>5 DEF PaperInv, TypeOK, FillsBounded
<1>7. Max({fills[o], book[o].filled}) = book[o].filled
  <2>1. PICK a, b : a = fills[o] /\ b = book[o].filled
    OBVIOUS
  <2>2. a \in Nat /\ b \in Nat /\ a <= b
    BY <1>6, <2>1
  <2>3. \E x \in {a, b} : \A y \in {a, b} : x >= y
    BY <2>2
  <2>4. Max({a, b}) \in {a, b} /\ Max({a, b}) >= b
    BY <2>3 DEF Max
  <2> QED
    BY <2>1, <2>2, <2>4
<1>8. /\ fills' = [fills EXCEPT ![o] = book[o].filled] /\ job' = [job EXCEPT !.at = @ - 1]
      /\ UNCHANGED <<account, book, listed, claims, quotes, bounds>>
  <2>1. fills' = [fills EXCEPT ![o] = Max({fills[o], book[o].filled})]
    BY <1>4 DEF ReconcileNext
  <2> QED
    BY <1>7, <2>1 DEF ReconcileNext, Advance
<1>9. /\ fills' \in [OrderIds -> Nat]
      /\ \A p \in OrderIds : fills'[p] = IF p = o THEN book[o].filled ELSE fills[p]
  BY <1>6, <1>8
<1>10. job' \in ReconcileJobs /\ job'.pc = "reconciling" /\ job'.at = job.at - 1
  BY <1>1, <1>2, <1>8 DEF ReconcileJobs
<1>11. TypeOK'
  BY <1>8, <1>9, <1>10 DEF PaperInv, TypeOK, bounds
<1>12. JobOK'
  BY <1>2, <1>3, <1>8, <1>10 DEF JobOK
<1>13. PlacingOK' /\ SavedOK'
  BY <1>10 DEF PlacingOK, SavedOK
<1>14. HealedOK'
  <2> SUFFICES ASSUME NEW k \in 1..Len(listed), k > job.at - 1
               PROVE  fills'[listed[k]] = book[listed[k]].filled
    BY <1>8, <1>10 DEF HealedOK
  <2>1. listed[k] \in OrderIds
    BY <1>1, <1>3, ElementOfSeq
  <2>2. k = job.at \/ fills[listed[k]] = book[listed[k]].filled
    BY <1>1, <1>2, <1>3 DEF PaperInv, HealedOK
  <2> QED
    BY <1>4, <1>9, <2>1, <2>2
<1>15. FillsBounded'
  <2> SUFFICES ASSUME NEW p \in OrderIds
               PROVE  fills'[p] <= book[p].filled /\ book[p].filled <= book[p].quantity
    BY <1>8 DEF FillsBounded
  <2> QED
    BY <1>6, <1>9 DEF PaperInv, FillsBounded
<1>16. RowsOK' /\ OneExitPerLevel'
  BY <1>8 DEF PaperInv, RowsOK, OneExitPerLevel
<1> QED
  BY <1>11, <1>12, <1>13, <1>14, <1>15, <1>16 DEF PaperInv

-----------------------------------------------------------------------------
(* The invariant.                                                          *)

\* An empty store satisfies it.
LEMMA PaperInit == Init => PaperInv
<1> SUFFICES ASSUME Init PROVE PaperInv
  OBVIOUS
<1> USE PaperSettingsAssumption
<1>1. listed = <<>> /\ listed \in Seq(OrderIds) /\ Len(listed) = 0
  BY EmptySeq DEF Init
<1>2. job = Idle /\ job.pc = "idle"
  BY DEF Init, Idle
<1>3. \A o \in OrderIds : /\ book[o] = NoOrder /\ book[o].status = "none" /\ book[o].filled = 0
                          /\ book[o].quantity = 0 /\ fills[o] = 0
  BY DEF Init, NoOrder
<1>4. TypeOK
  <2>1. NoOrder \in Rows
    BY DEF NoOrder, Rows
  <2>2. book \in [OrderIds -> Rows]
    BY <2>1 DEF Init
  <2>3. /\ account \in [cash: Nat, held: [Symbols -> Nat]] /\ fills \in [OrderIds -> Nat]
        /\ claims \subseteq OrderIds /\ quotes \in [Symbols -> Quotes \cup {NoQuote}]
        /\ arrived \in 0..MaxQuotes /\ crashes \in 0..MaxCrashes
    BY DEF Init
  <2>4. torn \in BOOLEAN
    BY DEF Init
  <2> QED
    BY <1>1, <1>2, <2>2, <2>3, <2>4 DEF TypeOK, Rows
<1>5. JobOK
  <2>1. \A j \in PlacingJobs \cup FillJobs \cup LoopJobs \cup ReconcileJobs : j.pc # "idle"
    BY DEF PlacingJobs, FillJobs, LoopJobs, ReconcileJobs
  <2> QED
    BY <1>2, <2>1 DEF JobOK
<1>6. RowsOK /\ FillsBounded
  BY <1>3 DEF RowsOK, FillsBounded
<1>7. PlacingOK /\ SavedOK /\ HealedOK
  BY <1>2 DEF PlacingOK, SavedOK, HealedOK
<1>8. OneExitPerLevel
  <2> SUFFICES ASSUME NEW x \in Exits PROVE book[x].filled <= book[x[1]].filled
    BY DEF OneExitPerLevel
  <2>1. x \in OrderIds /\ x[1] \in OrderIds
    BY OrderFacts DEF OrderIds
  <2> QED
    BY <1>3, <2>1
<1> QED
  BY <1>4, <1>5, <1>6, <1>7, <1>8 DEF PaperInv

\* Every handler, at every write, keeps the invariant.
LEMMA PaperStep == PaperInv /\ [Next]_vars => PaperInv'
<1> SUFFICES ASSUME PaperInv, [Next]_vars PROVE PaperInv'
  OBVIOUS
<1>1. CASE (\E i \in Intents : Submit(i)) \/ ExitSubmit
  BY <1>1, SubmitSteps
<1>2. CASE PlaceFill
  BY <1>2, PlaceFillStep
<1>3. CASE PlaceFails
  BY <1>3, PlaceFailsStep
<1>4. CASE PlaceRest
  BY <1>4, PlaceRestStep
<1>5. CASE SaveOrder
  BY <1>5, SaveOrderStep
<1>6. CASE RecordFill
  BY <1>6, RecordFillStep
<1>7. CASE MatchCancel \/ \E o \in OrderIds : Cancel(o)
  BY <1>7, CancelSteps
<1>8. CASE MatchFill
  BY <1>8, MatchFillStep
<1>9. CASE \/ \E s \in Symbols, q \in Quotes : OnQuote(s, q)
           \/ MatchSkip \/ MatchDone \/ ExitSkip \/ OnQuoteDone \/ ReconcileDone \/ Crash
  BY <1>9, LoopStep
<1>10. CASE ReconcileStart
  BY <1>10, ReconcileStartStep
<1>11. CASE ReconcileNext
  BY <1>11, ReconcileNextStep
<1>12. CASE UNCHANGED vars
  BY <1>12 DEF vars, PaperInv, TypeOK, JobOK, RowsOK, PlacingOK, SavedOK, HealedOK,
               FillsBounded, OneExitPerLevel
<1> QED
  BY <1>1, <1>2, <1>3, <1>4, <1>5, <1>6, <1>7, <1>8, <1>9, <1>10, <1>11, <1>12 DEF Next

\* The strengthening of the properties below, for every handler and every death.
LEMMA PaperInvariant == Spec => []PaperInv
  BY PaperInit, PaperStep, PTL DEF Spec

-----------------------------------------------------------------------------
(* What the invariant says of the tables.                                  *)

\* Cash and holdings are never negative, through fills, exits, cancellations and
\* process deaths.
THEOREM PaperTypeCorrect == Spec => []TypeOK
<1>1. PaperInv => TypeOK
  BY DEF PaperInv
<1> QED
  BY <1>1, PaperInvariant, PTL

\* record_order_fill never records more than was filled, and no order is filled
\* beyond its quantity.
THEOREM FillsAreBounded == Spec => []FillsBounded
<1>1. PaperInv => FillsBounded
  BY DEF PaperInv
<1> QED
  BY <1>1, PaperInvariant, PTL

\* A protective exit never sells more than the order it protects bought.
THEOREM ExitsAreBounded == Spec => []OneExitPerLevel
<1>1. PaperInv => OneExitPerLevel
  BY DEF PaperInv
<1> QED
  BY <1>1, PaperInvariant, PTL

\* No handler and no restart writes an order that is filled or cancelled.
THEOREM PaperOrdersEnd == Spec => PaperTerminalIsFinal
<1>1. ASSUME PaperInv, [Next]_vars, NEW o \in OrderIds, book[o].status \in {"filled", "cancelled"}
      PROVE  book'[o] = book[o]
  <2>1. book[o].status \notin OpenPaper /\ book[o].status # "none"
    BY <1>1 DEF OpenPaper
  <2>2. CASE SaveOrder
    BY <1>1, <2>1, <2>2, SaveOrderStep
  <2>3. CASE PlaceRest
    <3>1. book[job.order].status = "none"
      BY <1>1, <2>3, PlaceRestStep DEF NoOrder
    <3> QED
      BY <1>1, <2>1, <2>3, <3>1, PlaceRestStep
  <2>4. CASE MatchCancel \/ \E p \in OrderIds : Cancel(p)
    BY <1>1, <2>1, <2>4, CancelSteps
  <2>5. CASE UNCHANGED book
    BY <2>5
  <2>6. ASSUME Next, ~SaveOrder, ~PlaceRest, ~MatchCancel, ~\E p \in OrderIds : Cancel(p)
        PROVE  UNCHANGED book
    BY <2>6 DEF Next, Submit, PlaceFill, PlaceFails, RecordFill, OnQuote, MatchSkip, MatchFill,
                MatchDone, ExitSubmit, ExitSkip, OnQuoteDone, ReconcileStart, ReconcileNext,
                ReconcileDone, Crash
  <2> QED
    BY <1>1, <2>2, <2>3, <2>4, <2>5, <2>6 DEF vars
<1>2. PaperInv /\ [Next]_vars =>
        [\A o \in OrderIds : book[o].status \in {"filled", "cancelled"} => book'[o] = book[o]]_vars
  BY <1>1
<1> QED
  BY <1>2, PaperInvariant, PTL DEF Spec, PaperTerminalIsFinal

\* The last step of a reconciliation that no death interrupts finds every fill
\* recorded.
THEOREM ReconciliationHeals == Spec => ReconcileHeals
<1>1. ASSUME PaperInv, [Next]_vars, job.pc = "reconciling", job.at = 0, crashes' = crashes
      PROVE  \A o \in OrderIds : fills'[o] = book'[o].filled
  <2>1. job # Idle /\ crashes \in Nat /\ ~(job.at > 0)
    BY <1>1, PaperSettingsAssumption DEF Idle, PaperInv, TypeOK
  <2>2. UNCHANGED <<book, fills>>
    <3>1. CASE ReconcileDone
      BY <3>1 DEF ReconcileDone
    <3>2. CASE UNCHANGED vars
      BY <3>2 DEF vars
    <3>3. ~Crash
      BY <1>1, <2>1 DEF Crash
    <3>4. ~ReconcileNext /\ ~ReconcileStart /\ ~\E o \in OrderIds : Cancel(o)
      BY <2>1 DEF ReconcileNext, ReconcileStart, Cancel
    <3>5. ~(\E i \in Intents : Submit(i)) /\ ~\E s \in Symbols, q \in Quotes : OnQuote(s, q)
      BY <2>1 DEF Submit, OnQuote
    <3>6. ~PlaceFill /\ ~PlaceFails /\ ~PlaceRest /\ ~SaveOrder /\ ~RecordFill
      BY <1>1 DEF PlaceFill, PlaceFails, PlaceRest, SaveOrder, RecordFill
    <3>7. ~MatchSkip /\ ~MatchFill /\ ~MatchCancel /\ ~MatchDone /\ ~ExitSubmit /\ ~ExitSkip /\ ~OnQuoteDone
      BY <1>1 DEF MatchSkip, MatchFill, MatchCancel, MatchDone, ExitSubmit, ExitSkip, OnQuoteDone
    <3> QED
      BY <1>1, <3>1, <3>2, <3>3, <3>4, <3>5, <3>6, <3>7 DEF Next
  <2>3. ASSUME NEW o \in OrderIds PROVE fills[o] = book[o].filled
    <3>1. CASE book[o].status = "none"
      <4>1. book[o].filled = 0
        BY <1>1, <3>1 DEF PaperInv, RowsOK, NoOrder
      <4>2. fills[o] \in Nat /\ fills[o] <= 0
        BY <1>1, <4>1 DEF PaperInv, TypeOK, FillsBounded
      <4> QED
        BY <4>1, <4>2
    <3>2. CASE book[o].status # "none"
      <4>1. PICK k \in 1..Len(listed) : listed[k] = o
        BY <1>1, <3>2 DEF PaperInv, RowsOK
      <4>2. Len(listed) \in Nat
        BY <1>1, LenProperties DEF PaperInv, TypeOK
      <4>3. k > job.at
        BY <1>1, <4>1, <4>2
      <4> QED
        BY <1>1, <4>1, <4>3 DEF PaperInv, HealedOK
    <3> QED
      BY <3>1, <3>2
  <2> QED
    BY <2>2, <2>3
<1>2. PaperInv /\ [Next]_vars =>
        [job.pc = "reconciling" /\ job.at = 0 /\ crashes' = crashes =>
            \A o \in OrderIds : fills'[o] = book'[o].filled]_vars
  BY <1>1
<1> QED
  BY <1>2, PaperInvariant, PTL DEF Spec, ReconcileHeals

-----------------------------------------------------------------------------
(* Conservation.  The account is saved before the order, so between the    *)
(* two writes the order lacks the fill that runs; counting that fill in,   *)
(* cash and holdings always are what the orders make of the initial cash,  *)
(* unless a process died just there.                                       *)

HalfSaved(o) == job.pc = "account_saved" /\ job.order = o
DueValue == [o \in OrderIds |-> book[o].value + IF HalfSaved(o) THEN job.n * job.price ELSE 0]
DueFilled(s) ==
    [o \in OrderIds |-> IF Symbol(o) = s THEN book[o].filled + IF HalfSaved(o) THEN job.n ELSE 0
                        ELSE 0]

CashOK ==
    account.cash + SumFunctionOnSet(DueValue, Buys) = InitialCash + SumFunctionOnSet(DueValue, Sells)
HeldOK ==
    \A s \in Symbols :
        account.held[s] + SumFunctionOnSet(DueFilled(s), Sells) = SumFunctionOnSet(DueFilled(s), Buys)
BalanceInv == ~torn => CashOK /\ HeldOK

\* There are finitely many orders, and each buys or sells.
LEMMA SidesFinite ==
    /\ IsFiniteSet(Buys) /\ Buys \subseteq OrderIds
    /\ IsFiniteSet(Sells) /\ Sells \subseteq OrderIds
    /\ \A o \in OrderIds : /\ o \in Buys <=> Side(o) = "buy"
                           /\ o \in Sells <=> Side(o) # "buy"
<1>1. Reasons = {"stop_loss"} \cup {"take_profit"}
  BY DEF Reasons
<1>2. IsFiniteSet(Reasons)
  BY <1>1, FS_Singleton, FS_Union
<1>3. IsFiniteSet(Exits)
  BY <1>2, FS_Product, ExitIdsAssumption DEF Exits
<1>4. IsFiniteSet(OrderIds)
  BY <1>3, FS_Union, ExitIdsAssumption DEF OrderIds
<1>5. Buys \subseteq OrderIds /\ Sells \subseteq OrderIds
  BY DEF Buys, Sells
<1>6. IsFiniteSet(Buys) /\ IsFiniteSet(Sells)
  BY <1>4, <1>5, FS_Subset
<1> QED
  BY <1>5, <1>6 DEF Buys, Sells

\* What one order is worth changes the sum of its side.
LEMMA SidesUpdate ==
    ASSUME NEW f \in [OrderIds -> Int], NEW h \in [OrderIds -> Int], NEW o, NEW d \in Int,
           \A p \in OrderIds : h[p] = IF p = o THEN f[p] + d ELSE f[p]
    PROVE  /\ SumFunctionOnSet(h, Buys) =
                IF o \in Buys THEN SumFunctionOnSet(f, Buys) + d ELSE SumFunctionOnSet(f, Buys)
           /\ SumFunctionOnSet(h, Sells) =
                IF o \in Sells THEN SumFunctionOnSet(f, Sells) + d ELSE SumFunctionOnSet(f, Sells)
<1>1. ASSUME NEW S, IsFiniteSet(S), S \subseteq OrderIds
      PROVE  SumFunctionOnSet(h, S) =
               IF o \in S THEN SumFunctionOnSet(f, S) + d ELSE SumFunctionOnSet(f, S)
  <2>1. \A p \in S : h[p] = IF p = o THEN f[p] + d ELSE f[p]
    BY <1>1
  <2> QED
    BY <1>1, <2>1, SumUpdate, Zenon
<1> QED
  BY <1>1, SidesFinite, Zenon

DueOK ==
    /\ DueValue \in [OrderIds -> Int]
    /\ \A s \in Symbols : DueFilled(s) \in [OrderIds -> Int]
    /\ \A o \in OrderIds : book[o].filled \in Nat /\ book[o].value \in Nat
    /\ job.pc = "account_saved" =>
         /\ job.order \in OrderIds /\ job.n \in Nat /\ job.price \in Nat
         /\ job.n * job.price \in Nat

\* What the orders are worth, the fill that runs included, is a number.
LEMMA DueFacts == PaperInv => DueOK
<1> SUFFICES ASSUME PaperInv PROVE DueOK
  OBVIOUS
<1>1. \A o \in OrderIds : book[o].filled \in Nat /\ book[o].value \in Nat
  BY DEF PaperInv, TypeOK
<1>2. job.pc = "account_saved" =>
        /\ job.order \in OrderIds /\ job.n \in Nat /\ job.price \in Nat /\ job.n * job.price \in Nat
  BY JobFacts DEF PaperInv, FillJobs
<1>3. DueValue \in [OrderIds -> Int]
  <2>1. PICK m : m = job.n * job.price
    OBVIOUS
  <2>2. \A o \in OrderIds : (book[o].value + IF HalfSaved(o) THEN m ELSE 0) \in Int
    BY <1>1, <1>2, <2>1 DEF HalfSaved
  <2> QED
    BY <2>1, <2>2 DEF DueValue
<1>4. ASSUME NEW s \in Symbols PROVE DueFilled(s) \in [OrderIds -> Int]
  <2>1. \A o \in OrderIds : (book[o].filled + IF HalfSaved(o) THEN job.n ELSE 0) \in Int
    BY <1>1, <1>2 DEF HalfSaved
  <2> QED
    BY <2>1 DEF DueFilled
<1> QED
  BY <1>1, <1>2, <1>3, <1>4 DEF DueOK

\* A step that neither moves the account nor what the orders are worth.
LEMMA BalanceKept ==
    ASSUME BalanceInv, torn' = torn, account' = account,
           \A o \in OrderIds :
              /\ book'[o].value + (IF HalfSaved(o)' THEN job'.n * job'.price ELSE 0)
                   = book[o].value + (IF HalfSaved(o) THEN job.n * job.price ELSE 0)
              /\ book'[o].filled + (IF HalfSaved(o)' THEN job'.n ELSE 0)
                   = book[o].filled + (IF HalfSaved(o) THEN job.n ELSE 0)
    PROVE  BalanceInv'
<1>1. DueValue' = DueValue
  BY DEF DueValue
<1>2. \A s \in Symbols : DueFilled(s)' = DueFilled(s)
  BY DEF DueFilled
<1>3. CashOK => CashOK'
  BY <1>1 DEF CashOK
<1>4. HeldOK => HeldOK'
  BY <1>2 DEF HeldOK
<1> QED
  BY <1>3, <1>4 DEF BalanceInv

\* A fill moves cash and holding one way and what the order is worth the other.
LEMMA BalanceFill ==
    ASSUME PaperInv, PaperInv', BalanceInv, UNCHANGED <<book, torn>>, job.pc # "account_saved",
           job'.pc = "account_saved",
           ~Unaffordable(job'.order, job'.n, job'.price), SaveAccount(job'.order, job'.n, job'.price)
    PROVE  BalanceInv'
<1> SUFFICES ASSUME ~torn PROVE CashOK' /\ HeldOK'
  BY DEF BalanceInv
<1>0. DueOK /\ DueOK'
  BY DueFacts, PTL
<1>1. PICK o, n, price, m : o = job'.order /\ n = job'.n /\ price = job'.price /\ m = n * price
  OBVIOUS
<1>2. o \in OrderIds /\ n \in Nat /\ price \in Nat /\ m \in Nat
  BY <1>0, <1>1 DEF DueOK
<1>3. CashOK /\ HeldOK
  BY DEF BalanceInv
<1>4. /\ account.cash \in Nat /\ account'.cash \in Nat
      /\ \A s \in Symbols : account.held[s] \in Nat /\ account'.held[s] \in Nat
  BY DEF PaperInv, TypeOK
<1>5. /\ account'.cash = IF Side(o) = "buy" THEN account.cash - m ELSE account.cash + m
      /\ \A s \in Symbols :
           account'.held[s] = IF s # Symbol(o) THEN account.held[s]
                              ELSE IF Side(o) = "buy" THEN account.held[s] + n
                              ELSE account.held[s] - n
  BY <1>1, <1>2, AccountFacts DEF PaperInv
<1>6. \A p \in OrderIds : ~HalfSaved(p) /\ (HalfSaved(p)' <=> p = o)
  BY <1>1 DEF HalfSaved
<1>7. CashOK'
  <2>1. PICK f, h : f = DueValue /\ h = DueValue'
    OBVIOUS
  <2>2. f \in [OrderIds -> Int] /\ h \in [OrderIds -> Int]
    BY <1>0, <2>1 DEF DueOK
  <2>3. \A p \in OrderIds : f[p] = book[p].value /\ h[p] = book[p].value + IF p = o THEN m ELSE 0
    BY <1>0, <1>1, <1>6, <2>1 DEF DueValue, DueOK
  <2>4. \A p \in OrderIds : h[p] = IF p = o THEN f[p] + m ELSE f[p]
    BY <2>2, <2>3
  <2>5. m \in Int
    BY <1>2
  <2>6. SumFunctionOnSet(h, Buys) = IF o \in Buys THEN SumFunctionOnSet(f, Buys) + m ELSE SumFunctionOnSet(f, Buys)
    BY <2>2, <2>4, <2>5, SidesUpdate
  <2>7. SumFunctionOnSet(h, Sells) = IF o \in Sells THEN SumFunctionOnSet(f, Sells) + m ELSE SumFunctionOnSet(f, Sells)
    BY <2>2, <2>4, <2>5, SidesUpdate
  <2>8. SumFunctionOnSet(f, Buys) \in Int /\ SumFunctionOnSet(f, Sells) \in Int
    BY <2>2, SidesFinite, SumType
  <2>9. account.cash + SumFunctionOnSet(f, Buys) = InitialCash + SumFunctionOnSet(f, Sells)
    BY <1>3, <2>1 DEF CashOK
  <2>10. o \in Buys <=> Side(o) = "buy"
    BY <1>2, SidesFinite
  <2>11. o \in Sells <=> Side(o) # "buy"
    BY <1>2, SidesFinite
  <2>12. account'.cash + SumFunctionOnSet(h, Buys) = InitialCash + SumFunctionOnSet(h, Sells)
    BY <1>2, <1>4, <1>5, <2>6, <2>7, <2>8, <2>9, <2>10, <2>11, PaperSettingsAssumption
  <2> QED
    BY <2>1, <2>12 DEF CashOK
<1>8. HeldOK'
  <2> SUFFICES ASSUME NEW s \in Symbols
               PROVE  account'.held[s] + SumFunctionOnSet(DueFilled(s)', Sells)
                        = SumFunctionOnSet(DueFilled(s)', Buys)
    BY DEF HeldOK
  <2>1. PICK f, h : f = DueFilled(s) /\ h = DueFilled(s)'
    OBVIOUS
  <2>2. f \in [OrderIds -> Int] /\ h \in [OrderIds -> Int]
    BY <1>0, <2>1 DEF DueOK
  <2>3. PICK d : d = IF Symbol(o) = s THEN n ELSE 0
    OBVIOUS
  <2>4. \A p \in OrderIds : /\ f[p] = IF Symbol(p) = s THEN book[p].filled ELSE 0
                            /\ h[p] = IF Symbol(p) = s THEN book[p].filled + IF p = o THEN n ELSE 0
                                      ELSE 0
    BY <1>0, <1>1, <1>6, <2>1 DEF DueFilled, DueOK
  <2>5. d \in Int /\ \A p \in OrderIds : h[p] = IF p = o THEN f[p] + d ELSE f[p]
    BY <1>0, <1>2, <2>2, <2>3, <2>4 DEF DueOK
  <2>6. SumFunctionOnSet(h, Buys) = IF o \in Buys THEN SumFunctionOnSet(f, Buys) + d ELSE SumFunctionOnSet(f, Buys)
    BY <2>2, <2>5, SidesUpdate
  <2>7. SumFunctionOnSet(h, Sells) = IF o \in Sells THEN SumFunctionOnSet(f, Sells) + d ELSE SumFunctionOnSet(f, Sells)
    BY <2>2, <2>5, SidesUpdate
  <2>8. SumFunctionOnSet(f, Buys) \in Int /\ SumFunctionOnSet(f, Sells) \in Int
    BY <2>2, SidesFinite, SumType
  <2>9. account.held[s] + SumFunctionOnSet(f, Sells) = SumFunctionOnSet(f, Buys)
    BY <1>3, <2>1 DEF HeldOK
  <2>10. o \in Buys <=> Side(o) = "buy"
    BY <1>2, SidesFinite
  <2>11. o \in Sells <=> Side(o) # "buy"
    BY <1>2, SidesFinite
  <2>12. account'.held[s] + SumFunctionOnSet(h, Sells) = SumFunctionOnSet(h, Buys)
    BY <1>2, <1>4, <1>5, <2>3, <2>6, <2>7, <2>8, <2>9, <2>10, <2>11
  <2> QED
    BY <2>1, <2>12
<1> QED
  BY <1>7, <1>8

\* At the start nothing is bought or sold.
LEMMA BalanceInit == Init => BalanceInv
<1> SUFFICES ASSUME Init PROVE CashOK /\ HeldOK
  BY DEF BalanceInv
<1>1. PaperInv
  BY PaperInit
<1>2. \A o \in OrderIds : ~HalfSaved(o) /\ book[o].value = 0 /\ book[o].filled = 0
  BY DEF Init, HalfSaved, Idle, NoOrder
<1>3. account.cash = InitialCash /\ \A s \in Symbols : account.held[s] = 0
  BY DEF Init
<1>4. CashOK
  <2>1. PICK f : f = DueValue
    OBVIOUS
  <2>2. f \in [OrderIds -> Int] /\ \A o \in OrderIds : f[o] = 0
    BY <1>1, <1>2, DueFacts, <2>1 DEF DueValue, DueOK
  <2>3. SumFunctionOnSet(f, Buys) = 0 /\ SumFunctionOnSet(f, Sells) = 0
    BY <2>2, SidesFinite, SumZero
  <2> QED
    BY <1>3, <2>1, <2>3, PaperSettingsAssumption DEF CashOK
<1>5. HeldOK
  <2> SUFFICES ASSUME NEW s \in Symbols
               PROVE  account.held[s] + SumFunctionOnSet(DueFilled(s), Sells)
                        = SumFunctionOnSet(DueFilled(s), Buys)
    BY DEF HeldOK
  <2>1. PICK f : f = DueFilled(s)
    OBVIOUS
  <2>2. f \in [OrderIds -> Int] /\ \A o \in OrderIds : f[o] = 0
    BY <1>1, <1>2, DueFacts, <2>1 DEF DueFilled, DueOK
  <2>3. SumFunctionOnSet(f, Buys) = 0 /\ SumFunctionOnSet(f, Sells) = 0
    BY <2>2, SidesFinite, SumZero
  <2> QED
    BY <1>3, <2>1, <2>3
<1> QED
  BY <1>4, <1>5

\* Every step keeps the balance, but for the death that tears a fill.
LEMMA BalanceStep == PaperInv /\ PaperInv' /\ BalanceInv /\ [Next]_vars => BalanceInv'
<1> SUFFICES ASSUME PaperInv, PaperInv', BalanceInv, [Next]_vars PROVE BalanceInv'
  OBVIOUS
<1>1. CASE PlaceFill
  <2>1. job.pc # "account_saved" /\ UNCHANGED <<book, torn>>
    BY <1>1 DEF PlaceFill, bounds
  <2> QED
    BY <1>1, <2>1, PlaceFillStep, BalanceFill
<1>2. CASE MatchFill
  <2>1. job.pc # "account_saved" /\ UNCHANGED <<book, torn>>
    BY <1>2 DEF MatchFill, bounds
  <2> QED
    BY <1>2, <2>1, MatchFillStep, BalanceFill
<1>3. CASE SaveOrder
  <2>1. /\ job.pc = "account_saved" /\ job'.pc = "order_saved" /\ account' = account /\ torn' = torn
    BY <1>3, JobFacts DEF SaveOrder, bounds, PaperInv, FillJobs
  <2>2. \A p \in OrderIds : ~HalfSaved(p)' /\ (HalfSaved(p) <=> p = job.order)
    BY <2>1 DEF HalfSaved
  <2>3. PICK m : m = job.n * job.price
    OBVIOUS
  <2>4. \A p \in OrderIds :
          /\ p # job.order => book'[p] = book[p]
          /\ p = job.order => /\ book'[p].filled = book[p].filled + job.n
                              /\ book'[p].value = book[p].value + m
    BY <1>3, <2>3, SaveOrderStep
  <2>5. \A p \in OrderIds : /\ book[p].filled \in Nat /\ book[p].value \in Nat
                            /\ book'[p].filled \in Nat /\ book'[p].value \in Nat
    <3>1. DueOK /\ DueOK'
      BY DueFacts, PTL
    <3> QED
      BY <3>1 DEF DueOK
  <2>6. \A p \in OrderIds :
          /\ book'[p].value + 0 = book[p].value + (IF HalfSaved(p) THEN m ELSE 0)
          /\ book'[p].filled + 0 = book[p].filled + (IF HalfSaved(p) THEN job.n ELSE 0)
    BY <2>2, <2>4, <2>5
  <2>7. \A p \in OrderIds :
          /\ book'[p].value + (IF HalfSaved(p)' THEN job'.n * job'.price ELSE 0)
               = book[p].value + (IF HalfSaved(p) THEN job.n * job.price ELSE 0)
          /\ book'[p].filled + (IF HalfSaved(p)' THEN job'.n ELSE 0)
               = book[p].filled + (IF HalfSaved(p) THEN job.n ELSE 0)
    BY <2>2, <2>3, <2>6
  <2> QED
    BY <2>1, <2>7, BalanceKept
<1>4. ASSUME \A o \in OrderIds : book'[o].filled = book[o].filled /\ book'[o].value = book[o].value,
             account' = account, torn' = torn,
             job.pc # "account_saved", job'.pc # "account_saved"
      PROVE  BalanceInv'
  <2>1. \A o \in OrderIds : ~HalfSaved(o) /\ ~HalfSaved(o)'
    BY <1>4 DEF HalfSaved
  <2> QED
    BY <1>4, <2>1, BalanceKept
<1>5. CASE PlaceRest
  <2>1. job'.pc # "account_saved"
    <3>1. job \in PlacingJobs
      BY <1>5, PlaceRestStep
    <3> QED
      BY <1>5, <3>1 DEF PlaceRest, Resume, PlacingJobs, Idle
  <2> QED
    BY <1>4, <1>5, <2>1, PlaceRestStep DEF PlaceRest, bounds
<1>6. CASE MatchCancel
  <2>1. job'.pc = job.pc
    <3>1. job \in LoopJobs
      BY <1>6, JobFacts DEF MatchCancel, PaperInv
    <3> QED
      BY <1>6, <3>1 DEF MatchCancel, Advance, LoopJobs
  <2> QED
    BY <1>4, <1>6, <2>1, CancelSteps DEF MatchCancel, bounds
<1>7. CASE \E o \in OrderIds : Cancel(o)
  BY <1>4, <1>7, CancelSteps DEF Cancel, WriteCancelled, bounds, Idle
<1>8. CASE Crash
  <2>1. CASE job.pc = "account_saved"
    BY <1>8, <2>1 DEF Crash, BalanceInv
  <2>2. CASE job.pc # "account_saved"
    <3>1. torn' = torn
      BY <1>8, <2>2, Zenon DEF Crash, PaperInv, TypeOK
    <3> QED
      BY <1>4, <1>8, <2>2, <3>1 DEF Crash, Idle
  <2> QED
    BY <2>1, <2>2
<1>9. CASE RecordFill \/ PlaceFails
  <2>1. job \in PlacingJobs \cup FillJobs \cup CancelJobs
    BY <1>9, JobFacts DEF RecordFill, PlaceFails, PaperInv
  <2>2. job' = Idle \/ job' \in LoopJobs
    BY <1>9, <2>1, ResumeFacts DEF RecordFill, PlaceFails
  <2>3. job'.pc # "account_saved"
    BY <2>2 DEF Idle, LoopJobs
  <2> QED
    BY <1>4, <1>9, <2>3 DEF RecordFill, PlaceFails, bounds
<1>10. CASE MatchSkip \/ ExitSkip \/ ReconcileNext
  <2>1. job \in LoopJobs \cup ReconcileJobs /\ job' = [job EXCEPT !.at = @ - 1]
    BY <1>10, JobFacts DEF MatchSkip, ExitSkip, ReconcileNext, Advance, PaperInv
  <2>2. job'.pc = job.pc
    BY <2>1 DEF LoopJobs, ReconcileJobs
  <2> QED
    BY <1>4, <1>10, <2>2 DEF MatchSkip, ExitSkip, ReconcileNext, bounds
<1>11. CASE (\E i \in Intents : Submit(i)) \/ \E s \in Symbols, q \in Quotes : OnQuote(s, q)
  BY <1>4, <1>11 DEF Submit, OnQuote, bounds, Idle
<1>12. CASE MatchDone \/ ExitSubmit
  BY <1>4, <1>12 DEF MatchDone, ExitSubmit, bounds
<1>13. CASE OnQuoteDone \/ ReconcileStart \/ ReconcileDone
  BY <1>4, <1>13 DEF OnQuoteDone, ReconcileStart, ReconcileDone, bounds, Idle
<1>14. CASE UNCHANGED vars
  <2>1. \A o \in OrderIds : HalfSaved(o)' <=> HalfSaved(o)
    BY <1>14 DEF vars, HalfSaved
  <2> QED
    BY <1>14, <2>1, BalanceKept DEF vars
<1> QED
  BY <1>1, <1>2, <1>3, <1>5, <1>6, <1>7, <1>8, <1>9, <1>10, <1>11, <1>12, <1>13, <1>14 DEF Next

\* Cash and holdings are exactly what the orders' fills make of the initial cash,
\* after every handler and after every death that does not tear a fill.
THEOREM CashIsConserved == Spec => []Conservation
<1>1. PaperInv /\ BalanceInv => Conservation
  <2> SUFFICES ASSUME PaperInv, BalanceInv, job.pc # "account_saved", ~torn PROVE Balanced
    BY DEF Conservation
  <2>1. \A o \in OrderIds : ~HalfSaved(o) /\ book[o].filled \in Nat /\ book[o].value \in Nat
    BY DueFacts DEF DueOK, HalfSaved
  <2>2. DueValue = [o \in OrderIds |-> book[o].value]
    BY <2>1 DEF DueValue
  <2>3. \A s \in Symbols : DueFilled(s) = [o \in OrderIds |-> IF Symbol(o) = s THEN book[o].filled ELSE 0]
    BY <2>1 DEF DueFilled
  <2>4. CashOK /\ HeldOK
    BY DEF BalanceInv
  <2>5. account.cash + Value(Buys) = InitialCash + Value(Sells)
    BY <2>2, <2>4 DEF CashOK, Value
  <2>6. \A s \in Symbols : account.held[s] + Filled(Sells, s) = Filled(Buys, s)
    BY <2>3, <2>4 DEF HeldOK, Filled
  <2> QED
    BY <2>5, <2>6 DEF Balanced
<1> QED
  BY <1>1, BalanceInit, BalanceStep, PaperInvariant, PTL DEF Spec
=============================================================================
