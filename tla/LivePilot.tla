-------------------------------- MODULE LivePilot --------------------------------
(***************************************************************************)
(* pilot_cli around the production submitter: one-shot runs, started by    *)
(* cron (from-decision --autonomous) or by the operator (submit, from-     *)
(* decision --arm), that read the daily-loss ledger and the account, pass  *)
(* pretrade, the session, the kill switch and the day's budget, and submit *)
(* through the contract of SubmissionContract.  A run may be killed after  *)
(* any step; nothing but the account lock keeps two runs apart.            *)
(***************************************************************************)
EXTENDS Naturals, FiniteSetsExt

CONSTANTS
  Runs,           \* pilot_cli invocations
  Accounts,       \* the one account pilot_cli trades
  Days,           \* number of trading days
  Sizes,          \* order notionals, in units of the pilot cap
  MaxPositions,   \* --max-positions
  Limits,         \* daily limits an authorization may carry
  Jobs,           \* what runs may be started for
  MaxEvents       \* bound on what the operator does

ASSUME AccountAssumption == \E a \in Accounts : Accounts = {a}
ASSUME DaysAssumption == Days \in Nat \ {0}
ASSUME SizesAssumption == IsFiniteSet(Runs) /\ Sizes \subseteq Nat \ {0}
ASSUME LimitsAssumption == Limits \subseteq [orders : Nat \ {0}, notional : Nat \ {0}]
ASSUME PositionsAssumption == MaxPositions \in Nat \ {0} /\ MaxEvents \in Nat

VARIABLES
  day, session,   \* trading day, and whether KRX regular hours are on
  engaged,        \* kill-switch marker present
  expires,        \* first day the authorization is no longer good for; 0: none
  limits,         \* its daily limits
  granted,        \* history: the limits of every authorization so far
  events,         \* what the operator has done so far, counted
  lossOver,       \* per ledger day: realized loss above the limit
  positions,      \* holdings of the account
  job,            \* what each run was started for
  pc,             \* position of each run
  runDay,         \* the day of `now` in an autonomous run
  budget,         \* runs with a line in the order-budget ledger
  sent, halted,   \* state of the submission contract
  accepted,       \* runs whose order KIS accepted
  filled,         \* runs whose order filled
  overlapped,     \* history: a run started while another one was going
  late            \* history: requests sent since the kill switch was engaged

clockVars == <<day, session>>
operatorVars == <<engaged, expires, limits, granted, lossOver, events>>
brokerVars == <<positions, accepted, filled>>
runVars == <<job, pc, runDay, budget>>
contractVars == <<sent, halted>>
historyVars == <<overlapped, late>>
vars == <<clockVars, operatorVars, brokerVars, runVars, contractVars, historyVars>>

Day == 1 .. Days

\* The canonical intent: signal date, side and size stand for all its fields.
Intents == [signal : Day, side : {"BUY", "SELL"}, size : Sizes]

\* submit, from-decision --arm, or from-decision --autonomous.
Job == [intent : Intents, via : {"submit", "decision", "autonomous"}]

ASSUME JobsAssumption == Jobs \subseteq Job

Contract == INSTANCE SubmissionContract WITH Senders <- Runs

intent(r) == job[r].intent
Buys(r) == intent(r).side = "BUY"
Autonomous(r) == job[r].via = "autonomous"

\* build_pilot_order caps entries, and the SELLs of submit too; build_pilot_exit,
\* for the SELLs of a decision, caps nothing.
EntryCapped(r) == Buys(r) \/ job[r].via = "submit"

Ended == {"done", "refused", "ambiguous", "unrecorded", "killed"}
Active(r) == pc[r] \notin Ended \union {"start"}

Init ==
  /\ day = 1 /\ session = FALSE
  /\ engaged = FALSE
  /\ expires = 0
  /\ events = 0
  /\ limits \in Limits
  /\ granted = {}
  /\ lossOver = [d \in Day |-> FALSE]
  /\ positions \in 0 .. MaxPositions
  /\ job \in [Runs -> Jobs]
  /\ pc = [r \in Runs |-> "start"]
  /\ runDay = [r \in Runs |-> 1]
  /\ budget = {}
  /\ Contract!ContractInit
  /\ accepted = {}
  /\ filled = {}
  /\ overlapped = FALSE
  /\ late = 0

Goto(r, here, there) ==
  /\ pc[r] = here
  /\ pc' = [pc EXCEPT ![r] = there]

----------------------------------------------------------------------------------
(* Building the plan *)

\* realized_loss_for(signal day): the ledger of the signal's day, not today's.
ReadLoss(r) ==
  /\ intent(r).signal <= day
  /\ Goto(r, "start",
       IF EntryCapped(r) /\ lossOver[intent(r).signal] THEN "refused" ELSE "account")
  /\ overlapped' = (overlapped \/ \E q \in Runs : Active(q))
  /\ UNCHANGED <<clockVars, operatorVars, brokerVars, job, runDay, budget,
                 contractVars, late>>

\* read_account_state, then validate_pretrade: an entry needs a free slot, the
\* exit of a decision something to sell.  Holdings count, orders still in the book do not.
ReadAccount(r) ==
  /\ Goto(r, "account",
       IF \/ EntryCapped(r) /\ positions >= MaxPositions
          \/ ~EntryCapped(r) /\ positions = 0
         THEN "refused"
         ELSE IF Autonomous(r) THEN "session" ELSE "switch")
  /\ UNCHANGED <<clockVars, operatorVars, brokerVars, job, runDay, budget,
                 contractVars, historyVars>>

----------------------------------------------------------------------------------
(* The gates *)

\* _submit_autonomous reads the clock once; its day is used until the end.
CheckSession(r) ==
  /\ Goto(r, "session", IF session THEN "switch" ELSE "refused")
  /\ runDay' = [runDay EXCEPT ![r] = day]
  /\ UNCHANGED <<clockVars, operatorVars, brokerVars, job, budget, contractVars,
                 historyVars>>

\* Mutant: an engaged switch is ignored.
SwitchIgnored == TRUE

SwitchClear == ~engaged

CheckSwitch(r) ==
  /\ Goto(r, "switch",
       IF ~SwitchClear THEN "refused"
       ELSE IF Autonomous(r) THEN "authorize" ELSE "submit")
  /\ UNCHANGED <<clockVars, operatorVars, brokerVars, job, runDay, budget,
                 contractVars, historyVars>>

CountedOn(d) == {q \in budget : runDay[q] = d}

notional == [q \in Runs |-> intent(q).size]
NotionalOf(R) == FoldFunctionOnSet(+, 0, notional, R)

\* Mutant: the order about to be placed is forgotten.
WithinLimitsSoFar(r) ==
  /\ Cardinality(CountedOn(runDay[r])) <= limits.orders
  /\ NotionalOf(CountedOn(runDay[r])) <= limits.notional

WithinLimits(r) ==
  /\ Cardinality(CountedOn(runDay[r])) < limits.orders
  /\ NotionalOf(CountedOn(runDay[r])) + intent(r).size <= limits.notional

\* day_order_usage and require_autonomous_authorized, with the clock of
\* CheckSession.
Authorize(r) ==
  /\ Goto(r, "authorize",
       IF runDay[r] < expires /\ WithinLimits(r) THEN "submit" ELSE "refused")
  /\ UNCHANGED <<clockVars, operatorVars, brokerVars, job, runDay, budget,
                 contractVars, historyVars>>

\* submit_pilot_order looks at the switch again.
CheckSwitchAgain(r) ==
  /\ Goto(r, "submit", IF SwitchClear THEN "client" ELSE "refused")
  /\ UNCHANGED <<clockVars, operatorVars, brokerVars, job, runDay, budget,
                 contractVars, historyVars>>

----------------------------------------------------------------------------------
(* The submitter, by its contract *)

\* Halted, already submitted, or any failure before the POST.
SubmitRefused(r) ==
  /\ Goto(r, "client", "refused")
  /\ UNCHANGED <<clockVars, operatorVars, brokerVars, job, runDay, budget,
                 contractVars, historyVars>>

Send(r) ==
  /\ Goto(r, "client", "sent")
  /\ \E a \in Accounts :
       Contract!Send([sender |-> r, acct |-> a, intent |-> intent(r)])
  /\ late' = IF engaged THEN late + 1 ELSE 0
  /\ UNCHANGED <<clockVars, operatorVars, brokerVars, job, runDay, budget, overlapped>>

Acknowledged(r) ==
  /\ r \in accepted
  /\ Goto(r, "sent", IF Autonomous(r) THEN "record" ELSE "done")
  /\ UNCHANGED <<clockVars, operatorVars, brokerVars, job, runDay, budget,
                 contractVars, historyVars>>

\* Mutant: the halt is left out.
AmbiguousOpen(r) ==
  /\ Goto(r, "sent", "ambiguous")
  /\ UNCHANGED <<clockVars, operatorVars, brokerVars, job, runDay, budget,
                 contractVars, historyVars>>

\* AmbiguousBrokerState: the halt is on disk, the run ends without an entry.
Ambiguous(r) ==
  /\ Goto(r, "sent", "ambiguous")
  /\ \E a \in Accounts : Contract!Halt(a)
  /\ UNCHANGED <<clockVars, operatorVars, brokerVars, job, runDay, budget, historyVars>>

\* The halt could not be written.
Unrecorded(r) ==
  /\ Goto(r, "sent", "unrecorded")
  /\ UNCHANGED <<clockVars, operatorVars, brokerVars, job, runDay, budget,
                 contractVars, historyVars>>

\* record_order appends the placed order to the ledger of the day of `now`.
RecordOrder(r) ==
  /\ Goto(r, "record", "done")
  /\ budget' = budget \union {r}
  /\ UNCHANGED <<clockVars, operatorVars, brokerVars, job, runDay, contractVars,
                 historyVars>>

Killed(r) ==
  /\ Active(r)
  /\ pc' = [pc EXCEPT ![r] = "killed"]
  /\ UNCHANGED <<clockVars, operatorVars, brokerVars, job, runDay, budget,
                 contractVars, historyVars>>

Run(r) ==
  \/ ReadLoss(r) \/ ReadAccount(r)
  \/ CheckSession(r) \/ CheckSwitch(r) \/ Authorize(r) \/ CheckSwitchAgain(r)
  \/ SubmitRefused(r) \/ Send(r)
  \/ Acknowledged(r) \/ Ambiguous(r) \/ Unrecorded(r)
  \/ RecordOrder(r) \/ Killed(r)

----------------------------------------------------------------------------------
(* Clock, operator, broker *)

Bell ==
  /\ IF session
       THEN session' = FALSE /\ UNCHANGED day
       ELSE \/ session' = TRUE /\ UNCHANGED day
            \/ day < Days /\ day' = day + 1 /\ UNCHANGED session
  /\ UNCHANGED <<operatorVars, brokerVars, runVars, contractVars, historyVars>>

Operate == events < MaxEvents /\ events' = events + 1

\* halt and resume.
FlipSwitch ==
  /\ Operate
  /\ engaged' = ~engaged
  /\ late' = 0
  /\ UNCHANGED <<clockVars, expires, limits, granted, lossOver, brokerVars, runVars,
                 contractVars, overlapped>>

\* authorize-autonomous: good through the day before `expires`.
WriteAuthorization ==
  /\ Operate
  /\ expires' \in {d + 1 : d \in Day}
  /\ limits' \in Limits
  /\ granted' = granted \union {limits'}
  /\ UNCHANGED <<clockVars, engaged, lossOver, brokerVars, runVars, contractVars,
                 historyVars>>

\* The operator takes the file away.
RemoveAuthorization ==
  /\ Operate
  /\ expires' = 0
  /\ UNCHANGED <<clockVars, engaged, limits, granted, lossOver, brokerVars, runVars,
                 contractVars, historyVars>>

\* settle or record-loss books a trade that crosses the limit, either way.
BookTrade ==
  /\ Operate
  /\ \E d \in 1 .. day : lossOver' = [lossOver EXCEPT ![d] = ~lossOver[d]]
  /\ UNCHANGED <<clockVars, engaged, expires, limits, granted, brokerVars, runVars,
                 contractVars, historyVars>>

Sent(r) == \E s \in sent : s.sender = r

\* KIS takes the order, perhaps after the client has given up.
Accept(r) ==
  /\ Sent(r)
  /\ accepted' = accepted \union {r}
  /\ UNCHANGED <<clockVars, operatorVars, positions, filled, runVars, contractVars,
                 historyVars>>

FillOrder(r) ==
  /\ r \in accepted \ filled
  /\ filled' = filled \union {r}
  /\ IF Buys(r) THEN positions' = positions + 1
                ELSE positions > 0 /\ positions' = positions - 1
  /\ UNCHANGED <<clockVars, operatorVars, accepted, runVars, contractVars, historyVars>>

Environment ==
  \/ Bell \/ FlipSwitch \/ WriteAuthorization \/ RemoveAuthorization \/ BookTrade
  \/ \E r \in Runs : Accept(r) \/ FillOrder(r)

Next == Environment \/ \E r \in Runs : Run(r)

Spec == Init /\ [][Next]_vars

----------------------------------------------------------------------------------
(* Properties *)

\* The shape of the state: clock, operator files, runs and the broker's orders.
TypeOK ==
  /\ day \in Day /\ session \in BOOLEAN
  /\ engaged \in BOOLEAN
  /\ expires \in 0 .. Days + 1
  /\ events \in 0 .. MaxEvents
  /\ limits \in Limits /\ granted \subseteq Limits
  /\ lossOver \in [Day -> BOOLEAN]
  /\ positions \in Nat
  /\ job \in [Runs -> Jobs]
  /\ pc \in [Runs -> Ended \union
               {"start", "account", "session", "switch", "authorize", "submit",
                "client", "sent", "record"}]
  /\ runDay \in [Runs -> Day]
  /\ budget \subseteq Runs
  /\ sent \subseteq Contract!Request
  /\ halted \subseteq Accounts
  /\ filled \subseteq accepted /\ accepted \subseteq Runs
  /\ overlapped \in BOOLEAN
  /\ late \in Nat

\* An autonomous order the budget ledger does not know of leaves the account
\* halted, unless its run was cut short: ambiguity can cost at most one order.
UncountedOrderHalts ==
  \A r \in Runs :
    Autonomous(r) /\ Sent(r) /\ r \notin budget =>
      \/ pc[r] \in {"sent", "record", "unrecorded", "killed"}
      \/ halted = Accounts

\* Orders of the day that were sent, and those that slipped past the ledger.
AutonomousOn(d) == {r \in Runs : Autonomous(r) /\ Sent(r) /\ runDay[r] = d}
SlippedOn(d) == {r \in AutonomousOn(d) : pc[r] \in {"unrecorded", "killed"}}

\* While runs do not overlap, the day's orders and their notional stay within the
\* largest count and the largest notional the operator ever authorized, beyond
\* the orders of runs cut short after their POST.
DailyBudget ==
  ~overlapped =>
    \A d \in Day :
      /\ Cardinality(AutonomousOn(d)) <=
           Max({0} \union {g.orders : g \in granted}) + Cardinality(SlippedOn(d))
      /\ NotionalOf(AutonomousOn(d)) <=
           Max({0} \union {g.notional : g \in granted}) + NotionalOf(SlippedOn(d))

\* Once the kill switch is engaged, at most the one run that had passed it for
\* the last time still sends its request.
SwitchStopsAllButOne == ~overlapped => late <= 1
==================================================================================
