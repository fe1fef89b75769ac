------------------------------ MODULE BacktestProofs ------------------------------
(***************************************************************************)
(* What the portfolio of the backtest keeps in every market, for any       *)
(* universe, calendar, prices and limits.  IInv says how cash, budget and  *)
(* proceeds split, when a position that is due has its exit pending, and   *)
(* which closes let plans exist.                                           *)
(***************************************************************************)
EXTENDS Backtest, FiniteSetTheorems, TLAPS

\* The budget is the cash without what the session's exits brought in.
FundsSplit == cash = budget + proceeds /\ (phase = "night" => proceeds = 0)

\* A position as old as its canceled exits allow has a pending exit.
DueIsPending ==
  \A s \in Held :
    lots[s].age = MaxHold + lots[s].canceled => s \in exits

\* Plans, and leave to make them, come from a close within the daily limit.
PlansFollowGoodClose ==
  allowed \/ plans # <<>> => ~(100 * nav <= navBefore * (100 - LossPct))

IInv ==
  /\ TypeOK
  /\ OrdersMatchPositions
  /\ FundsSplit
  /\ PositionCap
  /\ AgeBounded
  /\ DueIsPending
  /\ PlansFollowGoodClose

---------------------------------------------------------------------------------

\* A sale at a price above the costs brings something in.
LEMMA SaleCoversCosts ==
  ASSUME NEW q \in Nat \ {0}, NEW p \in Prices
  PROVE  q * p - Fee \in Nat
<1>1. p \in Nat /\ p > Fee /\ Fee \in Nat
  BY PricesAssumption
<1>2. q * p \in Nat /\ q * p >= p
  BY <1>1
<1> QED
  BY <1>1, <1>2

\* What is left of the queue when its head is taken.
LEMMA TailFacts ==
  ASSUME NEW S, NEW q \in Seq(S), q # <<>>
  PROVE  /\ Head(q) \in S /\ Head(q) = q[1] /\ 1 \in DOMAIN q
         /\ Tail(q) \in Seq(S) /\ Len(Tail(q)) = Len(q) - 1 /\ Len(q) \in Nat
         /\ \A i \in DOMAIN Tail(q) :
              i + 1 \in DOMAIN q /\ i + 1 # 1 /\ Tail(q)[i] = q[i + 1]
  OBVIOUS

\* A position that ages, or whose exit is canceled, is a position.
LEMMA LotFacts ==
  ASSUME NEW lot \in Lot
  PROVE  /\ [lot EXCEPT !.age = @ + 1] \in Lot
         /\ [lot EXCEPT !.age = @ + 1].age = lot.age + 1
         /\ [lot EXCEPT !.age = @ + 1].canceled = lot.canceled
         /\ [lot EXCEPT !.canceled = @ + 1] \in Lot
         /\ [lot EXCEPT !.canceled = @ + 1].age = lot.age
         /\ [lot EXCEPT !.canceled = @ + 1].canceled = lot.canceled + 1
  BY DEF Lot

LEMMA InitIInv == Init => IInv
<1> SUFFICES ASSUME Init PROVE IInv
  OBVIOUS
<1> USE CountsAssumption DEF Init
<1>1. Held = {} /\ Cardinality(Held) = 0
  BY FS_EmptySet DEF Held
<1>2. TypeOK
  <2>1. plans \in Seq(Plan)
    OBVIOUS
  <2>2. {cash, budget, left, proceeds} \subseteq Nat /\ day \in 0 .. Days
    OBVIOUS
  <2>3. open \in [Symbols -> Prices \union {0}] /\ close \in [Symbols -> Prices]
    OBVIOUS
  <2> QED
    BY <1>1, <2>1, <2>2, <2>3 DEF TypeOK
<1>3. PositionCap
  BY <1>1 DEF PositionCap
<1> QED
  BY <1>1, <1>2, <1>3
  DEF IInv, OrdersMatchPositions, FundsSplit, AgeBounded, DueIsPending,
      PlansFollowGoodClose

---------------------------------------------------------------------------------

\* The shape of the state is kept; no balance falls below zero.
LEMMA TypeStep == TypeOK /\ OrdersMatchPositions /\ [Next]_vars => TypeOK'
<1> SUFFICES ASSUME TypeOK, OrdersMatchPositions, [Next]_vars PROVE TypeOK'
  OBVIOUS
<1>0. exits \subseteq Held
  BY DEF OrdersMatchPositions
<1> USE PricesAssumption DEF TypeOK, Held, marketVars, bookVars, navVars
<1>1. CASE OpenSession
  <2>1. day' \in 0 .. Days /\ proceeds' \in Nat
    BY <1>1, CountsAssumption DEF OpenSession
  <2>2. open' \in [Symbols -> Prices \union {0}] /\ missing' \in SUBSET Symbols
    BY <1>1 DEF OpenSession
  <2> QED
    BY <1>1, <2>1, <2>2 DEF OpenSession
<1>2. ASSUME NEW s \in Symbols, ExitFilled(s) PROVE TypeOK'
  <2> DEFINE credit == lots[s].quantity * open[s] - Fee
  <2>1. credit \in Nat
    <3>1. lots[s] \in Lot /\ open[s] \in Prices
      BY <1>0, <1>2 DEF ExitFilled, Fillable
    <3> QED
      BY <3>1, SaleCoversCosts DEF Lot
  <2>2. cash' = cash + credit /\ proceeds' = proceeds + credit
    BY <1>2 DEF ExitFilled
  <2>3. cash' \in Nat /\ proceeds' \in Nat
    BY <2>1, <2>2
  <2>4. (Held \subseteq Symbols /\ \A t \in Held : lots[t] \in Lot)'
    BY <1>2 DEF ExitFilled
  <2> QED
    BY <1>2, <2>3, <2>4 DEF ExitFilled
<1>3. ASSUME NEW s \in Symbols, ExitCanceled(s) PROVE TypeOK'
  <2>1. (Held \subseteq Symbols /\ \A t \in Held : lots[t] \in Lot)'
    <3>1. s \in Held /\ lots' = [lots EXCEPT ![s] = [lots[s] EXCEPT !.canceled = @ + 1]]
      BY <1>0, <1>3 DEF ExitCanceled
    <3>2. [lots[s] EXCEPT !.canceled = @ + 1] \in Lot
      BY <3>1, LotFacts
    <3> QED
      BY <3>1, <3>2
  <2> QED
    BY <1>3, <2>1 DEF ExitCanceled
<1>4. ASSUME NEW s \in Symbols, PlanEntry(s) PROVE TypeOK'
  <2>1. PICK q \in 1 .. left :
          /\ Sized(q, close[s])
          /\ plans' = Append(plans, [symbol |-> s, expected |-> close[s], quantity |-> q])
          /\ left' = left - (q * close[s] + Fee)
    BY <1>4 DEF PlanEntry
  <2>2. /\ q \in Nat \ {0} /\ left \in Nat
        /\ close[s] \in Prices /\ close[s] \in Nat /\ Fee \in Nat
    <3>1. left \in Nat
      OBVIOUS
    <3>2. close[s] \in Prices /\ close[s] \in Nat /\ Fee \in Nat
      OBVIOUS
    <3> QED
      BY <3>1, <3>2
  <2>3. plans' \in Seq(Plan)
    <3>1. [symbol |-> s, expected |-> close[s], quantity |-> q] \in Plan
      BY <2>2 DEF Plan
    <3> QED
      BY <2>1, <3>1
  <2>4. left' \in Nat
    <3>1. q * close[s] \in Nat
      BY <2>2
    <3>2. q * close[s] + Fee <= left
      BY <2>1 DEF Sized
    <3> QED
      BY <2>1, <2>2, <3>1, <3>2
  <2> QED
    BY <1>4, <2>3, <2>4 DEF PlanEntry
<1>5. CASE EntryFilled
  <2> DEFINE plan == Head(plans)
  <2>1. plan \in Plan /\ plans' \in Seq(Plan)
    BY <1>5, TailFacts DEF EntryFilled, Entering
  <2>2. /\ plan.symbol \in Symbols /\ plan.quantity \in Nat \ {0}
        /\ open[plan.symbol] \in Prices /\ open[plan.symbol] \in Nat
    BY <1>5, <2>1 DEF EntryFilled, Executable, Fillable, Plan
  <2>3. Debit(plan) \in Nat /\ Debit(plan) <= budget /\ budget <= cash
    <3>1. plan.quantity * open[plan.symbol] \in Nat
      BY <2>2
    <3> QED
      BY <1>5, <3>1 DEF Debit, EntryFilled, Executable, Affordable, OrdersMatchPositions
  <2>4. cash' \in Nat /\ budget' \in Nat
    BY <1>5, <2>3 DEF EntryFilled
  <2>5. (Held \subseteq Symbols /\ \A t \in Held : lots[t] \in Lot)'
    BY <1>5, <2>2 DEF EntryFilled, Lot
  <2> QED
    BY <1>5, <2>1, <2>4, <2>5 DEF EntryFilled
<1>6. CASE EntryCanceled
  BY <1>6, TailFacts DEF EntryCanceled, Entering
<1>7. CASE Close
  <2>1. (Held \subseteq Symbols /\ \A t \in Held : lots[t] \in Lot)'
    <3>1. lots' = [t \in Held |-> Aged(t)]
      BY <1>7 DEF Close
    <3>2. \A t \in Held : Aged(t) \in Lot
      BY LotFacts DEF Aged
    <3> QED
      BY <3>1, <3>2
  <2>2. close' \in [Symbols -> Prices] /\ allowed' \in BOOLEAN
    BY <1>7 DEF Close
  <2>3. exits' \in SUBSET Symbols
    BY <1>7 DEF Close, ExitsDue
  <2>4. open' \in [Symbols -> Prices \union {0}]
    BY <1>7 DEF Close
  <2> QED
    BY <1>7, <2>1, <2>2, <2>3, <2>4 DEF Close
<1>8. CASE CloseRaises
  BY <1>8 DEF CloseRaises
<1>9. CASE UNCHANGED vars
  BY <1>9 DEF vars
<1> QED
  BY <1>1, <1>2, <1>3, <1>4, <1>5, <1>6, <1>7, <1>8, <1>9 DEF Next

\* Fills move cash and budget together, and exits move cash and proceeds.
LEMMA FundsStep ==
  TypeOK /\ OrdersMatchPositions /\ FundsSplit /\ [Next]_vars => FundsSplit'
<1> SUFFICES ASSUME TypeOK, OrdersMatchPositions, FundsSplit, [Next]_vars
             PROVE FundsSplit'
  OBVIOUS
<1>0. /\ cash \in Nat /\ budget \in Nat /\ proceeds \in Nat /\ exits \subseteq Held
      /\ cash = budget + proceeds /\ (phase = "night" => proceeds = 0)
  BY DEF TypeOK, OrdersMatchPositions, FundsSplit
<1> USE <1>0 DEF FundsSplit, marketVars, bookVars, navVars
<1>1. ASSUME NEW s \in Symbols, ExitFilled(s) PROVE FundsSplit'
  <2>1. lots[s] \in Lot /\ open[s] \in Prices
    BY <1>1 DEF ExitFilled, Fillable, TypeOK
  <2>2. lots[s].quantity * open[s] - Fee \in Nat
    BY <2>1, SaleCoversCosts DEF Lot
  <2> QED
    BY <1>1, <2>2 DEF ExitFilled
<1>2. CASE EntryFilled
  <2>1. Head(plans) \in Plan
    BY <1>2, TailFacts DEF EntryFilled, Entering, TypeOK
  <2>2. Head(plans).quantity \in Nat /\ open[Head(plans).symbol] \in Nat /\ Fee \in Nat
    <3>1. Head(plans).quantity \in Nat /\ Head(plans).symbol \in Symbols
      BY <2>1 DEF Plan
    <3>2. open[Head(plans).symbol] \in Prices \union {0}
      BY <3>1 DEF TypeOK
    <3>3. Prices \union {0} \subseteq Nat /\ Fee \in Nat
      BY PricesAssumption
    <3> QED
      BY <3>1, <3>2, <3>3
  <2>3. Debit(Head(plans)) \in Nat
    BY <2>2 DEF Debit
  <2> QED
    BY <1>2, <2>3 DEF EntryFilled, Entering
<1>3. ASSUME NEW s \in Symbols, ExitCanceled(s) \/ PlanEntry(s) PROVE FundsSplit'
  BY <1>3 DEF ExitCanceled, PlanEntry
<1>4. CASE OpenSession \/ EntryCanceled \/ Close \/ CloseRaises \/ UNCHANGED vars
  BY <1>4 DEF OpenSession, EntryCanceled, Entering, Close, CloseRaises, vars
<1> QED
  BY <1>1, <1>2, <1>3, <1>4 DEF Next

\* Intents keep their positions and plans stay apart from each other and from
\* what is held: an exit only leaves, an entry comes from the head of the queue.
LEMMA OrdersStep ==
  TypeOK /\ OrdersMatchPositions /\ FundsSplit' /\ TypeOK' /\ [Next]_vars
    => OrdersMatchPositions'
<1> SUFFICES ASSUME TypeOK, OrdersMatchPositions, FundsSplit', TypeOK', [Next]_vars
             PROVE OrdersMatchPositions'
  OBVIOUS
<1>0. budget' <= cash'
  BY DEF FundsSplit, TypeOK
<1> USE DEF OrdersMatchPositions, Held, marketVars, bookVars, navVars
<1>1. ASSUME NEW s \in Symbols, ExitFilled(s) \/ ExitCanceled(s)
      PROVE OrdersMatchPositions'
  BY <1>0, <1>1 DEF ExitFilled, ExitCanceled
<1>2. ASSUME NEW s \in Symbols, PlanEntry(s) PROVE OrdersMatchPositions'
  <2>1. PICK q : plans' = Append(plans, [symbol |-> s, expected |-> close[s], quantity |-> q])
    BY <1>2 DEF PlanEntry
  <2>2. s \notin Held /\ \A i \in DOMAIN plans : plans[i].symbol # s
    BY <1>2 DEF PlanEntry, Occupied, Planned
  <2>3. /\ plans \in Seq(Plan) /\ Len(plans) \in Nat /\ DOMAIN plans = 1 .. Len(plans)
        /\ DOMAIN plans' = 1 .. Len(plans) + 1
        /\ plans'[Len(plans) + 1].symbol = s
        /\ \A i \in DOMAIN plans : plans'[i] = plans[i]
    BY <2>1 DEF TypeOK
  <2>4. ASSUME NEW i \in DOMAIN plans'
        PROVE  i \in DOMAIN plans \/ i = Len(plans) + 1
    BY <2>3
  <2>5. UNCHANGED <<lots, exits>>
    BY <1>2 DEF PlanEntry
  <2> QED
    BY <1>0, <2>2, <2>3, <2>4, <2>5
<1>3. CASE EntryFilled
  <2>1. /\ plans # <<>> /\ plans \in Seq(Plan) /\ plans' = Tail(plans)
        /\ exits = {} /\ exits' = exits
        /\ DOMAIN lots' = Held \union {Head(plans).symbol}
    BY <1>3 DEF EntryFilled, Entering, TypeOK
  <2>2. \A i \in DOMAIN plans' :
          i + 1 \in DOMAIN plans /\ i + 1 # 1 /\ plans'[i] = plans[i + 1]
    BY <2>1, TailFacts
  <2>3. Head(plans) = plans[1] /\ 1 \in DOMAIN plans
    BY <2>1, TailFacts
  <2>4. \A i \in DOMAIN plans' : plans'[i].symbol \notin DOMAIN lots'
    BY <2>1, <2>2, <2>3
  <2>5. \A i, j \in DOMAIN plans' : plans'[i].symbol = plans'[j].symbol => i + 1 = j + 1
    BY <2>2
  <2>6. \A i, j \in DOMAIN plans' : i + 1 = j + 1 => i = j
    <3>1. DOMAIN plans' \subseteq Int
      BY DEF TypeOK
    <3> QED
      BY <3>1
  <2> QED
    BY <1>0, <2>1, <2>4, <2>5, <2>6
<1>4. CASE EntryCanceled
  <2>1. /\ plans # <<>> /\ plans \in Seq(Plan) /\ plans' = Tail(plans)
        /\ UNCHANGED <<lots, exits>>
    BY <1>4 DEF EntryCanceled, Entering, TypeOK
  <2>2. \A i \in DOMAIN plans' : i + 1 \in DOMAIN plans /\ plans'[i] = plans[i + 1]
    BY <2>1, TailFacts
  <2>3. \A i, j \in DOMAIN plans' : i + 1 = j + 1 => i = j
    <3>1. DOMAIN plans' \subseteq Int
      BY DEF TypeOK
    <3> QED
      BY <3>1
  <2> QED
    BY <1>0, <2>1, <2>2, <2>3
<1>5. CASE Close
  <2>1. exits' \subseteq Held /\ DOMAIN lots' = Held /\ plans' = plans
    BY <1>5 DEF Close, ExitsDue
  <2> QED
    BY <1>0, <2>1
<1>6. CASE OpenSession \/ CloseRaises \/ UNCHANGED vars
  BY <1>0, <1>6 DEF OpenSession, CloseRaises, vars
<1> QED
  BY <1>1, <1>2, <1>3, <1>4, <1>5, <1>6 DEF Next

\* A plan takes a free slot, an entry turns a plan into a position, and the
\* rest only frees slots.
LEMMA CapStep ==
  TypeOK /\ OrdersMatchPositions /\ PositionCap /\ [Next]_vars => PositionCap'
<1> SUFFICES ASSUME TypeOK, OrdersMatchPositions, PositionCap, [Next]_vars
             PROVE PositionCap'
  OBVIOUS
<1>0. /\ IsFiniteSet(Held) /\ Cardinality(Held) \in Nat /\ exits \subseteq Held
      /\ plans \in Seq(Plan) /\ Len(plans) \in Nat /\ MaxPositions \in Nat
      /\ Cardinality(Held) + Len(plans) <= MaxPositions
  <2>1. IsFiniteSet(Held)
    BY SymbolsAssumption, FS_Subset DEF TypeOK
  <2> QED
    BY <2>1, FS_CardinalityType, CountsAssumption
    DEF TypeOK, OrdersMatchPositions, PositionCap
<1> USE <1>0 DEF PositionCap, marketVars, bookVars, navVars
<1>1. ASSUME NEW s \in Symbols, ExitFilled(s) PROVE PositionCap'
  <2>1. Held' = Held \ {s} /\ plans' = plans
    BY <1>1 DEF ExitFilled, Held
  <2>2. Cardinality(Held \ {s}) <= Cardinality(Held) /\ Cardinality(Held \ {s}) \in Nat
    BY FS_Subset, FS_CardinalityType
  <2> QED
    BY <2>1, <2>2
<1>2. ASSUME NEW s \in Symbols, ExitCanceled(s) PROVE PositionCap'
  BY <1>2 DEF ExitCanceled, Held
<1>3. ASSUME NEW s \in Symbols, PlanEntry(s) PROVE PositionCap'
  <2>1. Len(plans') = Len(plans) + 1 /\ Held' = Held
    BY <1>3 DEF PlanEntry, Held
  <2>2. Len(plans) < MaxPositions - Cardinality(Held)
    BY <1>3 DEF PlanEntry, Slots
  <2> QED
    BY <2>1, <2>2
<1>4. CASE EntryFilled
  <2>1. Held' = Held \union {Head(plans).symbol} /\ Len(plans') = Len(plans) - 1
    BY <1>4, TailFacts DEF EntryFilled, Entering, Held
  <2> DEFINE n == Cardinality(Held \union {Head(plans).symbol})
  <2>2. n \in {Cardinality(Held), Cardinality(Held) + 1}
    BY FS_AddElement
  <2>3. n <= Cardinality(Held) + 1 /\ n \in Nat
    BY <2>2
  <2>4. Cardinality(Held') = n
    BY <2>1
  <2> HIDE DEF n
  <2> QED
    BY <2>1, <2>3, <2>4
<1>5. CASE EntryCanceled
  BY <1>5, TailFacts DEF EntryCanceled, Entering, Held
<1>6. CASE OpenSession \/ Close \/ CloseRaises \/ UNCHANGED vars
  BY <1>6 DEF OpenSession, Close, CloseRaises, vars, Held
<1> QED
  BY <1>1, <1>2, <1>3, <1>4, <1>5, <1>6 DEF Next

\* At a valid close a position that is due gets its intent; at one that is not,
\* it does not age.  A canceled exit raises the bound by one.
LEMMA AgeStep ==
  TypeOK /\ OrdersMatchPositions /\ AgeBounded /\ DueIsPending /\ [Next]_vars
    => AgeBounded' /\ DueIsPending'
<1> SUFFICES ASSUME TypeOK, OrdersMatchPositions, AgeBounded, DueIsPending, [Next]_vars
             PROVE AgeBounded' /\ DueIsPending'
  OBVIOUS
<1>0. /\ MaxHold \in Nat \ {0} /\ exits \subseteq Held
      /\ \A s \in Held : lots[s] \in Lot /\ lots[s].age \in Nat /\ lots[s].canceled \in Nat
  BY CountsAssumption DEF TypeOK, OrdersMatchPositions, Lot
<1> USE <1>0 DEF AgeBounded, DueIsPending, Held, marketVars, bookVars, navVars
<1>1. ASSUME NEW s \in Symbols, ExitFilled(s) PROVE AgeBounded' /\ DueIsPending'
  BY <1>1 DEF ExitFilled
<1>2. ASSUME NEW s \in Symbols, ExitCanceled(s) PROVE AgeBounded' /\ DueIsPending'
  <2>1. /\ s \in Held /\ exits' = exits \ {s}
        /\ lots' = [lots EXCEPT ![s] = [lots[s] EXCEPT !.canceled = @ + 1]]
    BY <1>2 DEF ExitCanceled
  <2>2. lots'[s].age = lots[s].age /\ lots'[s].canceled = lots[s].canceled + 1
    BY <2>1, LotFacts
  <2>3. DOMAIN lots' = Held /\ \A t \in Held \ {s} : lots'[t] = lots[t]
    BY <2>1
  <2> QED
    BY <2>1, <2>2, <2>3
<1>3. CASE EntryFilled
  <2>1. /\ exits = {} /\ exits' = {}
        /\ DOMAIN lots' = Held \union {Head(plans).symbol}
        /\ lots'[Head(plans).symbol].age = 0 /\ lots'[Head(plans).symbol].canceled = 0
        /\ \A t \in Held \ {Head(plans).symbol} : lots'[t] = lots[t]
    BY <1>3 DEF EntryFilled, Entering
  <2> QED
    BY <2>1
<1>4. CASE Close
  <2>1. exits = {} /\ DOMAIN lots' = Held /\ \A t \in Held : lots'[t] = Aged(t)
    BY <1>4 DEF Close, SessionOver
  <2>2. \A t \in Held : lots[t].age < MaxHold + lots[t].canceled
    BY <2>1
  <2>3. ASSUME NEW t \in Held, Fillable(t)
        PROVE  /\ lots'[t].age = lots[t].age + 1 /\ lots'[t].canceled = lots[t].canceled
               /\ lots[t].age + 1 >= MaxHold => t \in exits'
    <3>1. lots'[t] = [lots[t] EXCEPT !.age = @ + 1]
      BY <2>1, <2>3 DEF Aged
    <3>2. lots[t].age + 1 >= MaxHold => t \in exits'
      BY <1>4, <2>3 DEF Close, ExitsDue, HeldTooLong
    <3> QED
      BY <3>1, <3>2, LotFacts
  <2>4. ASSUME NEW t \in Held, ~Fillable(t)
        PROVE  lots'[t] = lots[t]
    BY <2>1, <2>4 DEF Aged
  <2>5. ASSUME NEW t \in Held
        PROVE  /\ lots'[t].age <= MaxHold + lots'[t].canceled
               /\ lots'[t].age = MaxHold + lots'[t].canceled => t \in exits'
    BY <2>2, <2>3, <2>4
  <2> QED
    BY <2>1, <2>5
<1>5. ASSUME NEW s \in Symbols, PlanEntry(s) PROVE AgeBounded' /\ DueIsPending'
  BY <1>5 DEF PlanEntry
<1>6. CASE OpenSession \/ EntryCanceled \/ CloseRaises \/ UNCHANGED vars
  BY <1>6 DEF OpenSession, EntryCanceled, CloseRaises, vars
<1> QED
  BY <1>1, <1>2, <1>3, <1>4, <1>5, <1>6 DEF Next

\* The guard's verdict at a close is the only leave to plan, and the queue is
\* empty when the next one is given.
LEMMA GuardStep == PlansFollowGoodClose /\ [Next]_vars => PlansFollowGoodClose'
<1> SUFFICES ASSUME PlansFollowGoodClose, [Next]_vars PROVE PlansFollowGoodClose'
  OBVIOUS
<1> USE DEF PlansFollowGoodClose, marketVars, bookVars, navVars
<1>1. ASSUME NEW s \in Symbols, ExitFilled(s) \/ ExitCanceled(s) \/ PlanEntry(s)
      PROVE PlansFollowGoodClose'
  BY <1>1 DEF ExitFilled, ExitCanceled, PlanEntry
<1>2. CASE Close
  BY <1>2 DEF Close, SessionOver, LossReached
<1>3. CASE EntryFilled \/ EntryCanceled
  BY <1>3 DEF EntryFilled, EntryCanceled, Entering
<1>4. CASE OpenSession \/ CloseRaises \/ UNCHANGED vars
  BY <1>4 DEF OpenSession, CloseRaises, vars
<1> QED
  BY <1>1, <1>2, <1>3, <1>4 DEF Next

LEMMA NextIInv == IInv /\ [Next]_vars => IInv'
  BY TypeStep, FundsStep, OrdersStep, CapStep, AgeStep, GuardStep DEF IInv

LEMMA Invariance == Spec => []IInv
  BY InitIInv, NextIInv, PTL DEF Spec

---------------------------------------------------------------------------------

\* No balance of the portfolio is ever negative, in any market.
THEOREM TypeCorrect == Spec => []TypeOK
  BY Invariance, PTL DEF IInv

\* The orders handed to the executors always match the positions.
THEOREM OrdersValid == Spec => []OrdersMatchPositions
  BY Invariance, PTL DEF IInv

\* Entries never spend the proceeds of the session's exits.
THEOREM EntriesUsePlannedCash == Spec => []ProceedsWait
<1>1. IInv => ProceedsWait
  BY DEF IInv, TypeOK, FundsSplit, ProceedsWait
<1> QED
  BY <1>1, Invariance, PTL

\* Positions and plans stay within the slots although exits may be canceled.
THEOREM SlotsHold == Spec => []PositionCap
  BY Invariance, PTL DEF IInv

\* The holding limit is exceeded only as often as exits were canceled.
THEOREM CanceledExitsAreRenewed == Spec => []AgeBounded
  BY Invariance, PTL DEF IInv

\* The session after one at the loss limit buys nothing.
THEOREM LossGuardHolds == Spec => LossStopsEntries
<1>1. IInv /\ [Next]_vars
        => [Held' \ Held # {} => ~(100 * nav <= navBefore * (100 - LossPct))]_vars
  <2> SUFFICES ASSUME IInv, [Next]_vars, Held' \ Held # {}
               PROVE ~(100 * nav <= navBefore * (100 - LossPct))
    OBVIOUS
  <2>1. EntryFilled
    <3> USE DEF Held, marketVars, bookVars, navVars
    <3>1. ASSUME NEW s \in Symbols PROVE ~(ExitFilled(s) \/ ExitCanceled(s) \/ PlanEntry(s))
      BY DEF ExitFilled, ExitCanceled, PlanEntry
    <3>2. ~(OpenSession \/ EntryCanceled \/ Close \/ CloseRaises \/ UNCHANGED vars)
      BY DEF OpenSession, EntryCanceled, Close, CloseRaises, vars
    <3> QED
      BY <3>1, <3>2 DEF Next
  <2> QED
    BY <2>1 DEF IInv, PlansFollowGoodClose, EntryFilled, Entering
<1> QED
  BY <1>1, Invariance, PTL DEF Spec, LossStopsEntries
=================================================================================
