-------------------------------- MODULE Backtest --------------------------------
(***************************************************************************)
(* BacktestRunner.run: the day loop of the portfolio backtest.  A session  *)
(* first tries the exits, then the entries planned at the last close, each *)
(* once; its close ages the positions, raises exit intents, values the     *)
(* portfolio, applies the daily-loss guard and plans the next entries.     *)
(* The market chooses the bars, the ranking and the trend rule's verdict.  *)
(***************************************************************************)
EXTENDS Integers, Sequences, FiniteSetsExt

CONSTANTS
  Symbols,        \* the universe
  Prices,         \* opens and closes
  Days,           \* length of the trading calendar
  InitialCash,
  Fee,            \* costs of an order
  MaxPositions,
  MaxHold,        \* valid closes after which a position leaves (20)
  TrendAge,       \* valid closes before the trend rule applies (10)
  StopPct,        \* initial_stop_pct and the other fractions, in percent
  RiskPct, NotionalPct, LossPct, GapPct

ASSUME SymbolsAssumption == IsFiniteSet(Symbols)
ASSUME PricesAssumption == Fee \in Nat /\ Prices \subseteq Nat \ 0 .. Fee /\ Prices # {}
ASSUME CountsAssumption ==
  /\ Days \in Nat \ {0} /\ InitialCash \in Nat \ {0}
  /\ MaxPositions \in Nat \ {0}
  /\ MaxHold \in Nat \ {0} /\ TrendAge \in Nat
ASSUME PercentsAssumption ==
  /\ {StopPct, RiskPct, NotionalPct, LossPct} \subseteq 1 .. 99
  /\ GapPct \in 1 .. 99

VARIABLES
  day, phase,   \* session of the calendar, and what happens in it
  cash,         \* PortfolioState.cash
  lots,         \* OPEN positions by symbol
  exits,        \* pending exit intents
  plans,        \* pending entry plans, in rank order
  budget,       \* executable cash of the entries
  left,         \* cash the plans have not reserved
  allowed,      \* the guard lets entries be planned
  nav,          \* NAV of the last close
  open,         \* fillable opens of the session, 0 for none
  missing,      \* symbols without a bar in the session
  close,        \* last close of each symbol
  proceeds,     \* history: what the session's exits brought in
  navBefore     \* history: NAV of the close before the last one

marketVars == <<open, missing, close>>
bookVars == <<cash, lots, proceeds>>
navVars == <<allowed, nav, navBefore>>
vars == <<day, phase, bookVars, exits, plans, budget, left, navVars, marketVars>>

\* A position: shares, entry price, valid closes since, and exits that were canceled.
Lot == [quantity : Nat \ {0}, entry : Prices, age : Nat, canceled : Nat]
Plan == [symbol : Symbols, expected : Prices, quantity : Nat \ {0}]

Held == DOMAIN lots
Planned == {plans[i].symbol : i \in DOMAIN plans}

Init ==
  /\ day = 0
  /\ phase = "night"
  /\ cash = InitialCash
  /\ lots = [s \in {} |-> 0]
  /\ exits = {}
  /\ plans = <<>>
  /\ budget = InitialCash
  /\ left = InitialCash
  /\ allowed = FALSE
  /\ nav = InitialCash
  /\ open = [s \in Symbols |-> 0]
  /\ missing = {}
  /\ close \in [Symbols -> Prices]
  /\ proceeds = 0
  /\ navBefore = InitialCash

---------------------------------------------------------------------------------
(* The open: every pending order is tried once *)

OpenSession ==
  /\ phase = "night" /\ day < Days
  /\ phase' = "session"
  /\ day' = day + 1
  /\ open' \in [Symbols -> Prices \union {0}]
  /\ missing' \in SUBSET {s \in Symbols : open'[s] = 0}
  /\ allowed' = FALSE
  /\ proceeds' = 0
  /\ UNCHANGED <<cash, lots, exits, plans, budget, left, nav, navBefore, close>>

Fillable(s) == open[s] # 0

ExitFilled(s) ==
  /\ phase = "session" /\ s \in exits /\ Fillable(s)
  /\ exits' = exits \ {s}
  /\ LET credit == lots[s].quantity * open[s] - Fee
     IN cash' = cash + credit /\ proceeds' = proceeds + credit
  /\ lots' = [t \in Held \ {s} |-> lots[t]]
  /\ UNCHANGED <<day, phase, plans, budget, left, navVars, marketVars>>

\* No bar, or none that trades: the intent ends, and only a later close renews it.
ExitCanceled(s) ==
  /\ phase = "session" /\ s \in exits /\ ~Fillable(s)
  /\ exits' = exits \ {s}
  /\ lots' = [lots EXCEPT ![s].canceled = @ + 1]
  /\ UNCHANGED <<day, phase, cash, proceeds, plans, budget, left, navVars, marketVars>>

\* Mutant: what the exits brought in is spent as well.
AffordableNow(cost) == cost <= cash

\* The budget is the cash of the last close, less the session's fills so far.
Affordable(cost) == cost <= budget

Debit(plan) == plan.quantity * open[plan.symbol] + Fee

\* Fillable, no gap up beyond the limit, and paid for at the actual open.
Executable(plan) ==
  /\ Fillable(plan.symbol)
  /\ 100 * open[plan.symbol] <= plan.expected * (100 + GapPct)
  /\ Affordable(Debit(plan))

Entering == phase = "session" /\ exits = {} /\ plans # <<>>

EntryFilled ==
  /\ Entering /\ Executable(Head(plans))
  /\ plans' = Tail(plans)
  /\ LET plan == Head(plans)
         lot == [quantity |-> plan.quantity, entry |-> open[plan.symbol],
                 age |-> 0, canceled |-> 0]
     IN /\ cash' = cash - Debit(plan)
        /\ budget' = budget - Debit(plan)
        /\ lots' = [s \in Held \union {plan.symbol} |->
                      IF s = plan.symbol THEN lot ELSE lots[s]]
  /\ UNCHANGED <<day, phase, proceeds, exits, left, navVars, marketVars>>

EntryCanceled ==
  /\ Entering /\ ~Executable(Head(plans))
  /\ plans' = Tail(plans)
  /\ UNCHANGED <<day, phase, bookVars, exits, budget, left, navVars, marketVars>>

---------------------------------------------------------------------------------
(* The close *)

\* Mutant: the limit itself is still held.
HeldTooLongLater(age) == age > MaxHold

HeldTooLong(age) == age >= MaxHold

Stopped(lot, price) == 100 * price <= lot.entry * (100 - StopPct)

Aged(s) == IF Fillable(s) THEN [lots[s] EXCEPT !.age = @ + 1] ELSE lots[s]

\* _exit_reason at a valid close; `broken` are the symbols below their average.
ExitsDue(prices, broken) ==
  {s \in Held :
     /\ Fillable(s)
     /\ \/ Stopped(lots[s], prices[s])
        \/ HeldTooLong(lots[s].age + 1)
        \/ lots[s].age + 1 >= TrendAge /\ s \in broken}

\* mark_to_market, with the last close for a bar that is missing.
Value(prices) == MapThenSumSet(LAMBDA s : lots[s].quantity * prices[s], Held)

\* Mutant: the limit itself does not stop entries.
LossBeyondLimit(before, after) == 100 * after < before * (100 - LossPct)

LossReached(before, after) == 100 * after <= before * (100 - LossPct)

SessionOver == phase = "session" /\ exits = {} /\ plans = <<>>

Close ==
  /\ SessionOver
  /\ phase' = "night"
  /\ \E prices \in [Symbols -> Prices], broken \in SUBSET Held :
       /\ \A s \in missing : prices[s] = close[s]
       /\ close' = prices
       /\ exits' = ExitsDue(prices, broken)
       /\ nav' = cash + Value(prices)
       /\ allowed' = (day < Days /\ ~LossReached(nav, cash + Value(prices)))
  /\ lots' = [s \in Held |-> Aged(s)]
  /\ navBefore' = nav
  /\ budget' = cash
  /\ left' = cash
  /\ open' = [s \in Symbols |-> 0]
  /\ proceeds' = 0
  /\ UNCHANGED <<day, cash, plans, missing>>

\* _validated_history: a symbol without a bar at this close is one of the
\* eligible universe, and the run raises; the last session reads no history.
CloseRaises ==
  /\ SessionOver /\ day < Days /\ missing # {}
  /\ phase' = "raised"
  /\ UNCHANGED <<day, bookVars, exits, plans, budget, left, navVars, marketVars>>

---------------------------------------------------------------------------------
(* Planning the next entries *)

\* Mutant: a pending exit frees its slot.
SlotsAfterExits == MaxPositions - Cardinality(Held \ exits)

Slots == MaxPositions - Cardinality(Held)

WithinLimits(q, price) ==
  /\ q * price * StopPct <= nav * RiskPct
  /\ 100 * q * price <= nav * NotionalPct

\* Mutant: the costs of the order are not set aside.
SizedBeforeCosts(q, price) == WithinLimits(q, price) /\ q * price <= left

\* q shares are within the risk and notional limits and the cash left.
Sized(q, price) == WithinLimits(q, price) /\ q * price + Fee <= left

Occupied == Held \union Planned

\* The next candidate of the ranking that sizes to a share, for as many as it
\* sizes to; who the candidates are, and in which order, the market chooses.
PlanEntry(s) ==
  /\ phase = "night" /\ allowed
  /\ Len(plans) < Slots
  /\ s \in Symbols \ (Occupied \union missing)
  /\ \E q \in 1 .. left :
       /\ Sized(q, close[s]) /\ ~Sized(q + 1, close[s])
       /\ plans' = Append(plans, [symbol |-> s, expected |-> close[s], quantity |-> q])
       /\ left' = left - (q * close[s] + Fee)
  /\ UNCHANGED <<day, phase, bookVars, exits, budget, navVars, marketVars>>

Next ==
  \/ OpenSession
  \/ \E s \in Symbols : ExitFilled(s) \/ ExitCanceled(s) \/ PlanEntry(s)
  \/ EntryFilled \/ EntryCanceled
  \/ Close \/ CloseRaises

Spec == Init /\ [][Next]_vars

---------------------------------------------------------------------------------
(* Properties *)

\* The shape of the state; no cash, budget or reservation is ever negative.
TypeOK ==
  /\ day \in 0 .. Days
  /\ phase \in {"night", "session", "raised"}
  /\ {cash, budget, left, proceeds} \subseteq Nat
  /\ Held \subseteq Symbols /\ \A s \in Held : lots[s] \in Lot
  /\ exits \in SUBSET Symbols
  /\ plans \in Seq(Plan)
  /\ allowed \in BOOLEAN
  /\ open \in [Symbols -> Prices \union {0}]
  /\ missing \in SUBSET Symbols
  /\ close \in [Symbols -> Prices]

\* No exit intent without its position, no plan for a held symbol, no two plans
\* for one symbol, and no budget above the cash when the session opens.
OrdersMatchPositions ==
  /\ exits \subseteq Held
  /\ \A i, j \in DOMAIN plans :
       /\ plans[i].symbol \notin Held
       /\ plans[i].symbol = plans[j].symbol => i = j
  /\ budget <= cash

\* Entries never spend what the same session's exits brought in, and so never
\* depend on the exits having filled.
ProceedsWait == proceeds <= cash

\* Positions and planned entries together stay within the maximum, although an
\* exit that was due may be canceled at the open the entries fill on.
PositionCap == Cardinality(Held) + Len(plans) <= MaxPositions

\* A position is past the holding limit by no more closes than its exits were
\* canceled: a canceled exit is renewed by the first valid close.
AgeBounded == \A s \in Held : lots[s].age <= MaxHold + lots[s].canceled

\* No entry fills in the session after one that lost the daily limit or more.
LossStopsEntries ==
  [][Held' \ Held # {} => ~(100 * nav <= navBefore * (100 - LossPct))]_vars
=================================================================================
