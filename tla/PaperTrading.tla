------------------------------ MODULE PaperTrading ------------------------------
(***************************************************************************)
(* paper.cli run: an invocation reads the newest saved account for the     *)
(* guardrail, reads it again for the session, looks at the kill switch,    *)
(* simulates the fills of one date and saves the session write-once.  The  *)
(* invocations share the session directory without a lock and each may be  *)
(* killed between two steps.                                               *)
(***************************************************************************)
EXTENDS PositionLimit, FiniteSetsExt, Functions

CONSTANTS
  Invocations,    \* run_paper_day invocations (a retry is another element)
  Dates,          \* number of execution dates
  InitialCash,    \* --initial-cash
  Amounts,        \* what a fill may move: quantity * fill price
  Fee             \* costs of a fill

ASSUME DatesAssumption == Dates \in Nat \ {0}
ASSUME CashAssumption ==
  InitialCash \in Nat \ {0} /\ Fee \in Nat /\ Amounts \subseteq Nat \ 0 .. Fee

VARIABLES
  engaged,     \* the kill-switch marker is present
  file,        \* paper-<date>.json of each date
  book,        \* what a complete file says
  pc,          \* position of each run
  date,        \* --execution-date of each run
  plan,        \* decisions the guardrail admitted
  opening,     \* account the session starts from
  result,      \* the simulated session
  disordered   \* history: runs overlapped, or a date was run after a later one

ledgerVars == <<file, book>>
localVars == <<date, plan, opening, result>>
vars == <<engaged, ledgerVars, pc, localVars, disordered>>

Day == 1 .. Dates

\* PaperAccount: cash, and the entry amount of every position held.
Account == [cash : Nat, lots : UNION {[H -> Amounts] : H \in SUBSET Symbols}]

Held(account) == DOMAIN account.lots

NoAccount == [cash |-> 0, lots |-> [s \in {} |-> 0]]
NoPlan == [sells |-> {}, buys |-> {}]
NoSession == [account |-> NoAccount, bought |-> {}, sold |-> {}, stuck |-> {},
              delta |-> 0, pnl |-> 0]

Init ==
  /\ engaged \in BOOLEAN
  /\ file = [d \in Day |-> "absent"]
  /\ book = [d \in Day |-> NoSession]
  /\ pc = [r \in Invocations |-> "start"]
  /\ date = [r \in Invocations |-> 1]
  /\ plan = [r \in Invocations |-> NoPlan]
  /\ opening = [r \in Invocations |-> NoAccount]
  /\ result = [r \in Invocations |-> NoSession]
  /\ disordered = FALSE

Active(r) == pc[r] \notin {"start", "done", "refused", "killed"}

Goto(r, here, there) ==
  /\ pc[r] = here
  /\ pc' = [pc EXCEPT ![r] = there]

\* The process is gone, and with it everything it had read or computed.
End(r, here, there) ==
  /\ Goto(r, here, there)
  /\ date' = [date EXCEPT ![r] = 1]
  /\ plan' = [plan EXCEPT ![r] = NoPlan]
  /\ opening' = [opening EXCEPT ![r] = NoAccount]
  /\ result' = [result EXCEPT ![r] = NoSession]

---------------------------------------------------------------------------------
(* The ledger *)

Present == {d \in Day : file[d] # "absent"}

\* Mutant: the oldest session is read for the newest.
OldestDate == Min(Present)

\* load_latest_account: the newest by date, whenever it was written.
NewestDate == Max(Present)

\* The newest file does not parse, or its digest does not match.
Unreadable == Present # {} /\ file[NewestDate] = "partial"

LatestAccount ==
  IF Present = {}
    THEN [cash |-> InitialCash, lots |-> [s \in {} |-> 0]]
    ELSE book[NewestDate].account

---------------------------------------------------------------------------------
(* The guardrail and the simulated session *)

\* What apply_guardrails may admit: SELLs of what is held, BUYs of what is not,
\* as many as there are slots.
Admissible(held) ==
  {p \in [sells : SUBSET held, buys : SUBSET (Symbols \ held)] :
     Cardinality(p.buys) <= FreeSlots(held, p.sells)}

\* CASH_UNAVAILABLE for a BUY that would leave less than nothing.
Affordable(cash) == cash >= 0

\* What the elements of S amount to.
SumOver(amount, S) == FoldFunctionOnSet(+, 0, amount, S)

Realized(account, sold, price) ==
  SumOver([s \in sold |-> price[s] - Fee - account.lots[s]], sold)

\* simulate_paper_session, for the SELLs and BUYs that fill at these amounts.
SessionOf(account, sells, sold, bought, price) ==
  LET proceeds == SumOver([s \in sold |-> price[s] - Fee], sold)
      spent == SumOver([s \in bought |-> price[s] + Fee], bought)
      held == (Held(account) \ sold) \union bought
  IN [account |-> [cash |-> account.cash + proceeds - spent,
                   lots |-> [s \in held |->
                               IF s \in bought THEN price[s] ELSE account.lots[s]]],
      bought |-> bought, sold |-> sold, stuck |-> sells \ sold,
      delta |-> proceeds - spent,
      pnl |-> Realized(account, sold, price)]

---------------------------------------------------------------------------------
(* One invocation *)

\* A run that starts beside another, or for a date before one on file.
Disorder(d) ==
  disordered' = \/ disordered
                \/ \E q \in Invocations : Active(q)
                \/ Present # {} /\ d < Max(Present)

\* _held_symbols and apply_guardrails; the dates and the reply are the caller's.
Guardrail(r) ==
  /\ Goto(r, "start", "admitted")
  /\ ~Unreadable
  /\ \E d \in Day : date' = [date EXCEPT ![r] = d] /\ Disorder(d)
  /\ \E p \in Admissible(Held(LatestAccount)) : plan' = [plan EXCEPT ![r] = p]
  /\ UNCHANGED <<engaged, ledgerVars, opening, result>>

\* run_paper_session loads the newest account for itself.
LoadAccount(r) ==
  /\ Goto(r, "admitted", "loaded")
  /\ ~Unreadable
  /\ opening' = [opening EXCEPT ![r] = LatestAccount]
  /\ UNCHANGED <<engaged, ledgerVars, date, plan, result, disordered>>

\* The newest file does not parse: the run raises, at either load.
LoadRefused(r) ==
  /\ Unreadable
  /\ \E here \in {"start", "admitted"} : End(r, here, "refused")
  /\ UNCHANGED <<engaged, ledgerVars, disordered>>

EffectiveBuys(r) == IF engaged THEN {} ELSE plan[r].buys

\* The kill switch is read once; which orders fill, and at which amounts, is the
\* market's choice.  SELLs come first, and BUYs may spend what they brought.
Simulate(r) ==
  /\ Goto(r, "loaded", "simulated")
  /\ \E sold \in SUBSET (plan[r].sells \intersect Held(opening[r])) :
     \E bought \in SUBSET (EffectiveBuys(r) \ Held(opening[r])) :
     \E price \in [sold \union bought -> Amounts] :
       LET session == SessionOf(opening[r], plan[r].sells, sold, bought, price)
       IN /\ Affordable(session.account.cash)
          /\ result' = [result EXCEPT ![r] = session]
  /\ UNCHANGED <<engaged, ledgerVars, date, plan, opening, disordered>>

\* save_paper_session: the O_EXCL create claims the date ...
Create(r) ==
  /\ file[date[r]] = "absent"
  /\ Goto(r, "simulated", "created")
  /\ file' = [file EXCEPT ![date[r]] = "partial"]
  /\ UNCHANGED <<engaged, book, localVars, disordered>>

DateTaken(r) ==
  /\ file[date[r]] # "absent"
  /\ End(r, "simulated", "refused")
  /\ UNCHANGED <<engaged, ledgerVars, disordered>>

\* ... and then it is written.
Write(r) ==
  /\ End(r, "created", "done")
  /\ file' = [file EXCEPT ![date[r]] = "full"]
  /\ book' = [book EXCEPT ![date[r]] = result[r]]
  /\ UNCHANGED <<engaged, disordered>>

\* The process dies, or the write fails.
Killed(r) ==
  /\ \E here \in {"admitted", "loaded", "simulated", "created"} : End(r, here, "killed")
  /\ UNCHANGED <<engaged, ledgerVars, disordered>>

\* halt and resume.
FlipSwitch ==
  /\ engaged' = ~engaged
  /\ UNCHANGED <<ledgerVars, pc, localVars, disordered>>

Run(r) ==
  \/ Guardrail(r) \/ LoadAccount(r) \/ LoadRefused(r) \/ Simulate(r)
  \/ Create(r) \/ DateTaken(r) \/ Write(r) \/ Killed(r)

Next == FlipSwitch \/ \E r \in Invocations : Run(r)

Spec == Init /\ [][Next]_vars

---------------------------------------------------------------------------------
(* Properties *)

Session ==
  [account : Account, bought : SUBSET Symbols, sold : SUBSET Symbols,
   stuck : SUBSET Symbols, delta : Int, pnl : Int]

Plan == [sells : SUBSET Symbols, buys : SUBSET Symbols]

\* The shape of the state; in particular no account, saved or simulated, holds a
\* negative cash, which PaperAccount would refuse.
TypeOK ==
  /\ engaged \in BOOLEAN
  /\ file \in [Day -> {"absent", "partial", "full"}]
  /\ book \in [Day -> Session]
  /\ pc \in [Invocations -> {"start", "admitted", "loaded", "simulated", "created",
                             "done", "refused", "killed"}]
  /\ date \in [Invocations -> Day]
  /\ plan \in [Invocations -> Plan]
  /\ opening \in [Invocations -> Account]
  /\ result \in [Invocations -> Session]
  /\ disordered \in BOOLEAN

Saved == {d \in Day : file[d] = "full"}

Deltas == [d \in Day |-> book[d].delta]
Results == [d \in Day |-> book[d].pnl]
Entries == [d \in Day |-> Cardinality(book[d].bought)]

\* The newest account holds the initial cash and every fill of every session on
\* file, and the realized result the report adds up, the entry amounts still open
\* and the costs of the entries account for it: no session is lost, applied twice
\* or seeded afresh, across restarts and kills, as long as runs neither overlap
\* nor go back in time.
AccountReconciles ==
  ~disordered /\ Saved # {} =>
    LET newest == book[Max(Saved)].account
    IN /\ newest.cash = InitialCash + SumOver(Deltas, Saved)
       /\ newest.cash + SumOver(newest.lots, Held(newest)) + Fee * SumOver(Entries, Saved)
          = InitialCash + SumOver(Results, Saved)

\* A session that buys ends within the position count, but for the exits that
\* were admitted, gave their slot away and did not fill.
CapacityUpToStuckExits ==
  ~disordered =>
    \A d \in Saved :
      book[d].bought # {} =>
        Cardinality(Held(book[d].account)) <= MaxPositions + Cardinality(book[d].stuck)
=================================================================================
