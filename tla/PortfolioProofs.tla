----------------------------- MODULE PortfolioProofs -----------------------------
(***************************************************************************)
(* The two users of the position limit: the paper ledger, whose account is *)
(* what its sessions made of it, and the forward signals, whose records    *)
(* add up to a portfolio within the limit.  The risk watch beside the      *)
(* signals reads the same evidence: its digests, made in time, let no      *)
(* material disclosure fall between two of them.                           *)
(***************************************************************************)
EXTENDS PaperTrading, RiskWatch, FiniteSums

----------------------------------------------------------------------------------
(***************************************************************************)
(* The ledger.  While invocations follow each other in the order of their  *)
(* dates, the account an invocation starts from is still the newest one on *)
(* file when it writes, so each session continues the one before it.       *)
(***************************************************************************)

\* The account of the newest complete session, or the one the ledger is seeded with.
Seed == [cash |-> InitialCash, lots |-> [s \in {} |-> 0]]
LastSaved == IF Saved = {} THEN Seed ELSE book[Max(Saved)].account

LotsOf(account) == SumOver(account.lots, Held(account))

\* The account is what the sessions of S made of the initial cash.
Reconciled(account, S) ==
  /\ account.cash = InitialCash + SumOver(Deltas, S)
  /\ account.cash + LotsOf(account) + Fee * SumOver(Entries, S)
     = InitialCash + SumOver(Results, S)

\* What one session does to the account it starts from.
Continues(session, account) ==
  /\ session.account.cash = account.cash + session.delta
  /\ session.account.cash + LotsOf(session.account) + Fee * Cardinality(session.bought)
     = account.cash + LotsOf(account) + session.pnl

WithinCapacity(session) ==
  session.bought # {} =>
    Cardinality(Held(session.account)) <= MaxPositions + Cardinality(session.stuck)

\* One invocation at a time ...
Alone == \A r, q \in Invocations : Active(r) /\ Active(q) => r = q

\* ... for a date no earlier than those on file, all of them complete when it looked.
Ahead(r) ==
  Active(r) =>
    \A d \in Present :
      /\ d <= date[r]
      /\ d # date[r] \/ pc[r] # "created" => file[d] = "full"

\* The file an invocation has created is empty.
Claimed(r) == pc[r] = "created" => file[date[r]] = "partial"

\* The second load returns what the first one saw.
LoadedIsLast(r) ==
  pc[r] \in {"loaded", "simulated", "created"} => opening[r] = LastSaved

PlanAdmissible(r) ==
  pc[r] \in {"admitted", "loaded"} => plan[r] \in Admissible(Held(LastSaved))

ResultContinues(r) ==
  pc[r] \in {"simulated", "created"} =>
    Continues(result[r], LastSaved) /\ WithinCapacity(result[r])

OnTrack(r) ==
  Ahead(r) /\ Claimed(r) /\ LoadedIsLast(r) /\ PlanAdmissible(r) /\ ResultContinues(r)

\* A session that was cut short stays the newest: nothing is read past it.
CutShortIsNewest ==
  \A d \in Present : file[d] = "partial" => \A e \in Present : e <= d

LastReconciled == Reconciled(LastSaved, Saved)

SavedWithinCapacity == \A d \in Saved : WithinCapacity(book[d])

LedgerSound == CutShortIsNewest /\ LastReconciled /\ SavedWithinCapacity

InTurn == Alone /\ (\A r \in Invocations : OnTrack(r)) /\ LedgerSound

PaperInv == TypeOK /\ (~disordered => InTurn)

----------------------------------------------------------------------------------
(* What one session does *)

LEMMA SumIsTotal == ASSUME NEW f, NEW S PROVE SumOver(f, S) = Total(f, S)
  BY DEF SumOver, Total

LEMMA SymbolSets ==
  ASSUME NEW S \in SUBSET Symbols
  PROVE  IsFiniteSet(S) /\ Cardinality(S) \in Nat
  BY SymbolsAssumption, FS_Subset, FS_CardinalityType

LEMMA AmountsAreInt == Amounts \subseteq Nat /\ Fee \in Nat
  BY CashAssumption

\* Buys, admitted for the account, cost the slots that were free.
LEMMA AdmittedFit ==
  ASSUME NEW held \in SUBSET Symbols, NEW p \in Admissible(held), p.buys # {}
  PROVE  Cardinality(held \ p.sells) + Cardinality(p.buys) <= MaxPositions
<1>1. /\ p.sells \in SUBSET held /\ p.buys \in SUBSET (Symbols \ held)
      /\ Cardinality(p.buys) <= FreeSlots(held, p.sells)
  BY DEF Admissible
<1>2. Cardinality(p.buys) \in Nat /\ Cardinality(p.buys) # 0
  BY <1>1, SymbolSets, FS_EmptySet
<1>3. Cardinality(held \ p.sells) \in Nat
  BY SymbolSets
<1> QED BY <1>1, <1>2, <1>3, PositionsAssumption DEF FreeSlots, NotNegative

\* The fills the market may choose give a session that continues the account.
LEMMA SessionContinues ==
  ASSUME NEW account \in Account,
         NEW p \in Plan,
         NEW sold \in SUBSET (p.sells \intersect Held(account)),
         NEW bought \in SUBSET (p.buys \ Held(account)),
         NEW price \in [sold \union bought -> Amounts],
         SessionOf(account, p.sells, sold, bought, price).account.cash >= 0
  PROVE  LET session == SessionOf(account, p.sells, sold, bought, price) IN
         /\ session \in Session
         /\ Continues(session, account)
         /\ p \in Admissible(Held(account)) => WithinCapacity(session)
<1> DEFINE H == Held(account)
           session == SessionOf(account, p.sells, sold, bought, price)
           K == (H \ sold) \union bought
           lots == [s \in K |-> IF s \in bought THEN price[s] ELSE account.lots[s]]
           gain == [s \in sold |-> price[s] - Fee]
           cost == [s \in bought |-> price[s] + Fee]
           pnl == [s \in sold |-> price[s] - Fee - account.lots[s]]
<1>1. /\ H \in SUBSET Symbols /\ account.cash \in Nat
      /\ account.lots \in [H -> Amounts]
  <2>1. PICK G \in SUBSET Symbols : account.lots \in [G -> Amounts]
    BY DEF Account
  <2> QED BY <2>1 DEF Held, Account
<1>2. p.sells \in SUBSET Symbols /\ p.buys \in SUBSET Symbols
  BY DEF Plan
<1>3. /\ sold \in SUBSET H /\ bought \in SUBSET Symbols /\ K \in SUBSET Symbols
      /\ sold \in SUBSET Symbols /\ bought \intersect H = {} /\ bought \in SUBSET K
      /\ K \ bought = H \ sold
  BY <1>1, <1>2
<1>4. IsFiniteSet(H) /\ IsFiniteSet(sold) /\ IsFiniteSet(bought) /\ IsFiniteSet(K)
      /\ IsFiniteSet(H \ sold)
  BY <1>1, <1>3, SymbolSets
<1>5. /\ \A s \in H : account.lots[s] \in Nat
      /\ \A s \in sold \union bought : price[s] \in Nat
      /\ Fee \in Int /\ Fee \in Nat
  <2>1. \A s \in H : account.lots[s] \in Amounts
    BY <1>1
  <2>2. \A s \in sold \union bought : price[s] \in Amounts
    OBVIOUS
  <2>3. Amounts \subseteq Nat /\ Fee \in Nat /\ Fee \in Int
    BY AmountsAreInt
  <2> HIDE DEF H
  <2>4. \A s \in H : account.lots[s] \in Nat
    BY <2>1, <2>3
  <2>5. \A s \in sold \union bought : price[s] \in Nat
    BY <2>2, <2>3
  <2> QED BY <2>3, <2>4, <2>5
<1>6. lots \in [K -> Amounts] /\ \A s \in K : lots[s] \in Nat
  BY <1>1, <1>3, AmountsAreInt
<1>7. /\ session.account.cash = account.cash + SumOver(gain, sold) - SumOver(cost, bought)
      /\ session.account.lots = lots /\ Held(session.account) = K
      /\ session.bought = bought /\ session.sold = sold /\ session.stuck = p.sells \ sold
      /\ session.delta = SumOver(gain, sold) - SumOver(cost, bought)
      /\ session.pnl = SumOver(pnl, sold)
      /\ session = [account |-> session.account, bought |-> session.bought,
                    sold |-> session.sold, stuck |-> session.stuck,
                    delta |-> session.delta, pnl |-> session.pnl]
      /\ session.account = [cash |-> session.account.cash, lots |-> session.account.lots]
  BY DEF SessionOf, Held, Realized
<1>0. session.account.cash >= 0
  OBVIOUS
<1> HIDE DEF session, lots, gain, cost, pnl
<1>8. /\ Total(gain, sold) \in Int /\ Total(cost, bought) \in Int /\ Total(pnl, sold) \in Int
      /\ Total(lots, bought) \in Int /\ Total(lots, H \ sold) \in Int
      /\ Total(account.lots, sold) \in Int /\ Total(account.lots, H \ sold) \in Int
  <2>1. /\ \A s \in sold : gain[s] \in Int /\ pnl[s] \in Int /\ account.lots[s] \in Int
        /\ \A s \in bought : cost[s] \in Int /\ lots[s] \in Int
        /\ \A s \in H \ sold : lots[s] \in Int /\ account.lots[s] \in Int
    BY <1>3, <1>5, <1>6 DEF gain, pnl, cost
  <2> QED BY <1>4, <2>1, TotalRemove
<1>9. Total(lots, K) = Total(lots, bought) + Total(account.lots, H \ sold)
  <2>1. Total(lots, K) = Total(lots, bought) + Total(lots, K \ bought)
    BY <1>3, <1>4, <1>6, TotalSplit
  <2>2. \A s \in H \ sold : lots[s] = account.lots[s]
    BY <1>3 DEF lots
  <2>3. Total(lots, H \ sold) = Total(account.lots, H \ sold)
    BY <1>4, <2>2, TotalSame
  <2> QED BY <1>3, <2>1, <2>3
<1>10. Total(cost, bought) = Total(lots, bought) + Fee * Cardinality(bought)
  <2> DEFINE fees == [s \in bought |-> Fee]
  <2>1. \A s \in bought : lots[s] \in Int /\ fees[s] \in Int /\ cost[s] = lots[s] + fees[s]
    BY <1>3, <1>5, <1>6 DEF cost, lots
  <2>2. \A s \in bought : fees[s] = Fee
    OBVIOUS
  <2> HIDE DEF fees
  <2>3. Total(cost, bought) = Total(lots, bought) + Total(fees, bought)
    BY <1>4, <2>1, TotalPlus
  <2>4. Total(fees, bought) = Fee * Cardinality(bought)
    BY <1>4, <1>5, <2>2, TotalConstant
  <2> QED BY <2>3, <2>4
<1>11. Total(gain, sold) = Total(pnl, sold) + Total(account.lots, sold)
  <2>1. \A s \in sold : /\ pnl[s] \in Int /\ account.lots[s] \in Int
                        /\ gain[s] = pnl[s] + account.lots[s]
    BY <1>3, <1>5 DEF gain, pnl
  <2> QED BY <1>4, <2>1, TotalPlus
<1>12. Total(account.lots, H) = Total(account.lots, sold) + Total(account.lots, H \ sold)
  <2>1. \A s \in H : account.lots[s] \in Int
    BY <1>5
  <2> QED BY <1>3, <1>4, <2>1, TotalSplit
<1>13. Fee * Cardinality(bought) \in Nat
  BY <1>3, <1>5, SymbolSets
<1>14. session \in Session
  <2>1. session.account.cash \in Nat /\ session.delta \in Int /\ session.pnl \in Int
    BY <1>1, <1>7, <1>8, <1>0, SumIsTotal
  <2>2. session.account.lots \in UNION {[G -> Amounts] : G \in SUBSET Symbols}
    <3> HIDE DEF K
    <3>1. lots \in [K -> Amounts] /\ K \in SUBSET Symbols
      BY <1>3, <1>6
    <3> QED BY <1>7, <3>1, Zenon
  <2>3. session.account \in Account
    BY <1>7, <2>1, <2>2 DEF Account
  <2>4. /\ session.bought \in SUBSET Symbols /\ session.sold \in SUBSET Symbols
        /\ session.stuck \in SUBSET Symbols
    BY <1>1, <1>2, <1>3, <1>7
  <2> QED BY <1>7, <2>1, <2>3, <2>4 DEF Session
<1>15. Continues(session, account)
  <2>1. session.account.cash = account.cash + session.delta
    BY <1>1, <1>7, <1>8, SumIsTotal
  <2>2. LotsOf(session.account) = Total(lots, K) /\ LotsOf(account) = Total(account.lots, H)
    BY <1>7, SumIsTotal DEF LotsOf
  <2>3. /\ session.delta = Total(gain, sold) - Total(cost, bought)
        /\ session.pnl = Total(pnl, sold)
    BY <1>7, SumIsTotal
  <2>4. session.account.cash + LotsOf(session.account) + Fee * Cardinality(bought)
        = account.cash + LotsOf(account) + session.pnl
    BY <1>1, <1>8, <1>9, <1>10, <1>11, <1>12, <1>13, <2>1, <2>2, <2>3
  <2> QED BY <1>7, <2>1, <2>4 DEF Continues
<1>16. ASSUME p \in Admissible(Held(account)) PROVE WithinCapacity(session)
  <2> SUFFICES ASSUME bought # {}
               PROVE  Cardinality(K) <= MaxPositions + Cardinality(p.sells \ sold)
    BY <1>7 DEF WithinCapacity
  <2>0. p \in Admissible(H) /\ p.sells \in SUBSET H /\ p.buys # {}
    BY <1>16 DEF Admissible
  <2> DEFINE L == H \ p.sells
             M == p.sells \ sold
  <2>1. /\ K \in SUBSET ((L \union M) \union p.buys)
        /\ L \in SUBSET Symbols /\ M \in SUBSET Symbols /\ p.buys \in SUBSET Symbols
    BY <1>1, <1>2, <2>0
  <2>2. IsFiniteSet(L) /\ IsFiniteSet(M) /\ IsFiniteSet(p.buys) /\ IsFiniteSet(L \union M)
        /\ IsFiniteSet((L \union M) \union p.buys)
    BY <2>1, SymbolSets, FS_Union
  <2>3. Cardinality(L) + Cardinality(p.buys) <= MaxPositions
    BY <1>1, <2>0, AdmittedFit
  <2>4. Cardinality(K) <= Cardinality((L \union M) \union p.buys)
    BY <2>1, <2>2, FS_Subset
  <2>5. /\ Cardinality(L) \in Nat /\ Cardinality(M) \in Nat /\ Cardinality(p.buys) \in Nat
        /\ Cardinality(L \union M) \in Nat /\ Cardinality(K) \in Nat
        /\ Cardinality((L \union M) \union p.buys) \in Nat
    BY <1>4, <2>2, FS_CardinalityType
  <2>6. /\ Cardinality(L \union M) <= Cardinality(L) + Cardinality(M)
        /\ Cardinality((L \union M) \union p.buys) <= Cardinality(L \union M) + Cardinality(p.buys)
    <3>1. Cardinality(L \intersect M) \in Nat
          /\ Cardinality((L \union M) \intersect p.buys) \in Nat
      BY <2>2, FS_Intersection, FS_CardinalityType
    <3> HIDE DEF L, M
    <3>2. Cardinality(L \union M) = Cardinality(L) + Cardinality(M) - Cardinality(L \intersect M)
      BY <2>2, FS_Union
    <3>3. Cardinality((L \union M) \union p.buys)
          = Cardinality(L \union M) + Cardinality(p.buys)
            - Cardinality((L \union M) \intersect p.buys)
      BY <2>2, FS_Union
    <3> QED BY <2>5, <3>1, <3>2, <3>3
  <2> HIDE DEF L, M, K
  <2>7. Cardinality(K) <= MaxPositions + Cardinality(M)
    BY <2>3, <2>4, <2>5, <2>6, PositionsAssumption
  <2> QED BY <2>7 DEF M
<1> QED BY <1>14, <1>15, <1>16 DEF session

----------------------------------------------------------------------------------
(* What the dates on file say *)

LEMMA DateSets ==
  ASSUME TypeOK
  PROVE  /\ Saved \subseteq Present /\ Present \subseteq Day
         /\ IsFiniteSet(Saved) /\ IsFiniteSet(Present) /\ Day \subseteq Int
         /\ Present # {} => Max(Present) \in Present /\ \A d \in Present : d <= Max(Present)
         /\ Saved # {} => Max(Saved) \in Saved /\ \A d \in Saved : d <= Max(Saved)
<1>1. Saved \subseteq Present /\ Present \subseteq Day /\ Day \subseteq Int
  BY DEF Saved, Present, Day
<1>2. IsFiniteSet(Day)
  BY FS_Interval, DatesAssumption DEF Day
<1>3. IsFiniteSet(Saved) /\ IsFiniteSet(Present)
  BY <1>1, <1>2, FS_Subset
<1> QED BY <1>1, <1>3, MaxOfFinite

\* A load that does not raise returns the account of the newest complete session.
LEMMA LoadReturnsLast ==
  ASSUME TypeOK, ~Unreadable, CutShortIsNewest
  PROVE  LatestAccount = LastSaved /\ \A d \in Present : file[d] = "full"
<1>1. ASSUME NEW d \in Present, file[d] # "full" PROVE FALSE
  <2>1. file[d] = "partial"
    BY <1>1, DateSets DEF TypeOK, Present
  <2>2. \A e \in Present : e <= d
    BY <2>1 DEF CutShortIsNewest
  <2>3. Max(Present) = d
    BY <2>2, DateSets
  <2> QED BY <2>1, <2>3 DEF Unreadable, NewestDate
<1>2. Present = Saved
  BY <1>1, DateSets DEF Saved
<1> QED BY <1>1, <1>2 DEF LatestAccount, LastSaved, Seed, NewestDate

LEMMA NoAccountTyped == NoAccount \in Account
<1>1. NoAccount.lots \in [{} -> Amounts]
  BY DEF NoAccount
<1> QED BY <1>1 DEF NoAccount, Account

LEMMA AccountsTyped ==
  ASSUME TypeOK
  PROVE  LastSaved \in Account /\ LatestAccount \in Account
<1> DEFINE none == [s \in {} |-> 0]
<1>1. none \in [{} -> Amounts] /\ InitialCash \in Nat
  BY CashAssumption
<1>2. [cash |-> InitialCash, lots |-> none] \in Account
  <2> HIDE DEF none
  <2> QED BY <1>1 DEF Account
<1>3. \A d \in Day : book[d].account \in Account
  BY DEF TypeOK, Session
<1> QED BY <1>2, <1>3, DateSets DEF LastSaved, Seed, LatestAccount, NewestDate

LEMMA HeldOfAccount ==
  ASSUME NEW account \in Account
  PROVE  Held(account) \in SUBSET Symbols
<1>1. PICK G \in SUBSET Symbols : account.lots \in [G -> Amounts]
  BY DEF Account
<1> QED BY <1>1 DEF Held

----------------------------------------------------------------------------------
(* The shape of the state *)

LEMMA BlankTyped == NoPlan \in Plan /\ NoSession \in Session
<1>1. NoSession.account \in Account
  BY NoAccountTyped DEF NoSession
<1> QED BY <1>1 DEF NoPlan, Plan, NoSession, Session

LEMMA EndTyped ==
  ASSUME TypeOK, NEW r \in Invocations, NEW here, NEW there \in {"done", "refused", "killed"},
         End(r, here, there)
  PROVE  /\ pc' = [pc EXCEPT ![r] = there]
         /\ pc' \in [Invocations -> {"start", "admitted", "loaded", "simulated", "created",
                                     "done", "refused", "killed"}]
         /\ date' \in [Invocations -> Day]
         /\ plan' \in [Invocations -> Plan]
         /\ opening' \in [Invocations -> Account]
         /\ result' \in [Invocations -> Session]
<1>1. 1 \in Day
  BY DatesAssumption DEF Day
<1>2. pc \in [Invocations -> {"start", "admitted", "loaded", "simulated", "created",
                             "done", "refused", "killed"}]
      /\ date \in [Invocations -> Day] /\ plan \in [Invocations -> Plan]
      /\ opening \in [Invocations -> Account] /\ result \in [Invocations -> Session]
  BY DEF TypeOK
<1>3. pc' = [pc EXCEPT ![r] = there]
  BY DEF End, Goto
<1>4. /\ pc' \in [Invocations -> {"start", "admitted", "loaded", "simulated", "created",
                                  "done", "refused", "killed"}]
  BY <1>2, <1>3
<1>5. date' \in [Invocations -> Day]
  BY <1>1, <1>2 DEF End
<1>6. plan' \in [Invocations -> Plan]
  BY <1>2, BlankTyped DEF End
<1>7. opening' \in [Invocations -> Account]
  BY <1>2, NoAccountTyped DEF End
<1>8. result' \in [Invocations -> Session]
  BY <1>2, BlankTyped DEF End
<1> QED BY <1>3, <1>4, <1>5, <1>6, <1>7, <1>8

LEMMA PlansTyped ==
  ASSUME NEW held \in SUBSET Symbols
  PROVE  Admissible(held) \subseteq Plan
  BY DEF Admissible, Plan

\* What the market may choose is a fill of an admitted order.
LEMMA SimulateFacts ==
  ASSUME TypeOK, NEW r \in Invocations, Simulate(r)
  PROVE  \E session \in Session :
           /\ result' = [result EXCEPT ![r] = session]
           /\ Continues(session, opening[r])
           /\ plan[r] \in Admissible(Held(opening[r])) => WithinCapacity(session)
<1> DEFINE S(sold, bought, price) == SessionOf(opening[r], plan[r].sells, sold, bought, price)
<1>1. opening[r] \in Account /\ plan[r] \in Plan
  BY DEF TypeOK
<1> DEFINE Fill(sold, bought, price) ==
             /\ Affordable(S(sold, bought, price).account.cash)
             /\ result' = [result EXCEPT ![r] = S(sold, bought, price)]
<1>2. PICK sold \in SUBSET (plan[r].sells \intersect Held(opening[r])) :
        \E bought \in SUBSET (EffectiveBuys(r) \ Held(opening[r])) :
        \E price \in [sold \union bought -> Amounts] : Fill(sold, bought, price)
  BY Zenon DEF Simulate
<1>3. PICK bought \in SUBSET (EffectiveBuys(r) \ Held(opening[r])) :
        \E price \in [sold \union bought -> Amounts] : Fill(sold, bought, price)
  BY <1>2, Zenon
<1>4. PICK price \in [sold \union bought -> Amounts] : Fill(sold, bought, price)
  BY <1>3, Zenon
<1>5. bought \in SUBSET (plan[r].buys \ Held(opening[r]))
  BY <1>4 DEF EffectiveBuys
<1>6. S(sold, bought, price).account.cash >= 0
  BY <1>4 DEF Affordable
<1>7. /\ S(sold, bought, price) \in Session
      /\ Continues(S(sold, bought, price), opening[r])
      /\ plan[r] \in Admissible(Held(opening[r])) => WithinCapacity(S(sold, bought, price))
  BY <1>1, <1>4, <1>5, <1>6, SessionContinues
<1> HIDE DEF S
<1> QED BY <1>4, <1>7

LEMMA PaperTyped ==
  ASSUME TypeOK, [Next]_vars
  PROVE  TypeOK'
<1> USE DEF ledgerVars, localVars
<1>0. /\ engaged \in BOOLEAN
      /\ file \in [Day -> {"absent", "partial", "full"}]
      /\ book \in [Day -> Session]
      /\ pc \in [Invocations -> {"start", "admitted", "loaded", "simulated", "created",
                                 "done", "refused", "killed"}]
      /\ date \in [Invocations -> Day]
      /\ plan \in [Invocations -> Plan]
      /\ opening \in [Invocations -> Account]
      /\ result \in [Invocations -> Session]
      /\ disordered \in BOOLEAN
  BY DEF TypeOK
<1>1. CASE UNCHANGED vars
  BY <1>0, <1>1 DEF TypeOK, vars
<1>2. CASE FlipSwitch
  BY <1>0, <1>2 DEF TypeOK, FlipSwitch
<1>3. ASSUME NEW r \in Invocations, Guardrail(r) PROVE TypeOK'
  <2>1. plan' \in [Invocations -> Plan]
    <3>1. Admissible(Held(LatestAccount)) \subseteq Plan
      BY AccountsTyped, HeldOfAccount, PlansTyped
    <3> QED BY <1>0, <1>3, <3>1 DEF Guardrail
  <2>2. disordered' \in BOOLEAN
    <3>1. PICK d \in Day : Disorder(d)
      BY <1>3 DEF Guardrail
    <3> QED BY <3>1 DEF Disorder
  <2>3. date' \in [Invocations -> Day]
    BY <1>0, <1>3 DEF Guardrail
  <2> QED BY <1>0, <1>3, <2>1, <2>2, <2>3 DEF TypeOK, Guardrail, Goto
<1>4. ASSUME NEW r \in Invocations, LoadAccount(r) PROVE TypeOK'
  <2>1. opening' \in [Invocations -> Account]
    BY <1>0, <1>4, AccountsTyped DEF LoadAccount
  <2> QED BY <1>0, <1>4, <2>1 DEF TypeOK, LoadAccount, Goto
<1>5. ASSUME NEW r \in Invocations, LoadRefused(r) PROVE TypeOK'
  <2>1. PICK here : End(r, here, "refused")
    BY <1>5 DEF LoadRefused
  <2> QED BY <1>0, <1>5, <2>1, EndTyped DEF TypeOK, LoadRefused
<1>6. ASSUME NEW r \in Invocations, Simulate(r) PROVE TypeOK'
  <2>1. result' \in [Invocations -> Session]
    BY <1>0, <1>6, SimulateFacts
  <2> QED BY <1>0, <1>6, <2>1 DEF TypeOK, Simulate, Goto
<1>7. ASSUME NEW r \in Invocations, Create(r) PROVE TypeOK'
  BY <1>0, <1>7 DEF TypeOK, Create, Goto
<1>8. ASSUME NEW r \in Invocations, DateTaken(r) PROVE TypeOK'
  <2>1. End(r, "simulated", "refused")
    BY <1>8 DEF DateTaken
  <2> QED BY <1>0, <1>8, <2>1, EndTyped DEF TypeOK, DateTaken
<1>9. ASSUME NEW r \in Invocations, Write(r) PROVE TypeOK'
  <2>1. End(r, "created", "done")
    BY <1>9 DEF Write
  <2>2. file' \in [Day -> {"absent", "partial", "full"}] /\ book' \in [Day -> Session]
    BY <1>0, <1>9 DEF Write
  <2> QED BY <1>0, <1>9, <2>1, <2>2, EndTyped DEF TypeOK, Write
<1>10. ASSUME NEW r \in Invocations, Killed(r) PROVE TypeOK'
  <2>1. PICK here : End(r, here, "killed")
    BY <1>10 DEF Killed
  <2> QED BY <1>0, <1>10, <2>1, EndTyped DEF TypeOK, Killed
<1> QED
  BY <1>1, <1>2, <1>3, <1>4, <1>5, <1>6, <1>7, <1>8, <1>9, <1>10 DEF Next, Run

LEMMA PaperInitTyped == Init => TypeOK
<1> SUFFICES ASSUME Init PROVE TypeOK
  OBVIOUS
<1>1. 1 \in Day
  BY DatesAssumption DEF Day
<1> QED BY <1>1, NoAccountTyped, BlankTyped DEF Init, TypeOK

----------------------------------------------------------------------------------
(* Steps that follow each other *)

\* While nothing is written the ledger says what it said.
LEMMA LedgerKept ==
  ASSUME UNCHANGED ledgerVars
  PROVE  /\ Present' = Present /\ Saved' = Saved /\ LastSaved' = LastSaved
         /\ LedgerSound => LedgerSound'
<1>1. file' = file /\ book' = book
  BY DEF ledgerVars
<1>2. Present' = Present /\ Saved' = Saved
  BY <1>1 DEF Present, Saved
<1>3. LastSaved' = LastSaved
  BY <1>1, <1>2 DEF LastSaved, Seed
<1>4. CutShortIsNewest => CutShortIsNewest'
  BY <1>1, <1>2 DEF CutShortIsNewest
<1>5. LastReconciled => LastReconciled'
  BY <1>1, <1>2, <1>3 DEF LastReconciled, Reconciled, Deltas, Entries, Results, LotsOf, Held
<1>6. SavedWithinCapacity => SavedWithinCapacity'
  BY <1>1, <1>2 DEF SavedWithinCapacity, WithinCapacity, Held
<1> QED BY <1>2, <1>3, <1>4, <1>5, <1>6 DEF LedgerSound

\* Neither do the invocations that do not move.
LEMMA BystanderKept ==
  ASSUME UNCHANGED ledgerVars, NEW q, OnTrack(q),
         pc'[q] = pc[q], date'[q] = date[q], plan'[q] = plan[q], opening'[q] = opening[q],
         result'[q] = result[q]
  PROVE  OnTrack(q)'
<1>1. Present' = Present /\ LastSaved' = LastSaved /\ file' = file
  BY LedgerKept DEF ledgerVars
<1>2. Ahead(q)' /\ Claimed(q)' /\ LoadedIsLast(q)'
  BY <1>1 DEF OnTrack, Ahead, Active, Claimed, LoadedIsLast
<1>3. PlanAdmissible(q)'
  BY <1>1 DEF OnTrack, PlanAdmissible, Admissible, FreeSlots, NotNegative, Held
<1>4. ResultContinues(q)'
  BY <1>1 DEF OnTrack, ResultContinues, Continues, WithinCapacity, LotsOf, Held
<1> QED BY <1>2, <1>3, <1>4 DEF OnTrack

\* What has ended, or not begun, owes nothing.
LEMMA IdleOnTrack ==
  ASSUME NEW r \in Invocations, ~Active(r)'
  PROVE  OnTrack(r)'
  BY DEF OnTrack, Active, Ahead, Claimed, LoadedIsLast, PlanAdmissible, ResultContinues

\* An invocation that gives up, or is killed, leaves the others and the ledger as they were.
LEMMA EndInTurn ==
  ASSUME TypeOK, InTurn, UNCHANGED ledgerVars, NEW r \in Invocations, NEW here,
         NEW there \in {"done", "refused", "killed"}, End(r, here, there)
  PROVE  InTurn'
<1>1. pc' = [pc EXCEPT ![r] = there]
  BY DEF End, Goto
<1>2. \A q \in Invocations : q # r =>
        /\ pc'[q] = pc[q] /\ date'[q] = date[q] /\ plan'[q] = plan[q]
        /\ opening'[q] = opening[q] /\ result'[q] = result[q]
  BY <1>1 DEF End, TypeOK
<1>3. ~Active(r)'
  BY <1>1 DEF Active, TypeOK
<1>4. Alone'
  BY <1>2, <1>3 DEF InTurn, Alone, Active
<1>5. \A q \in Invocations : OnTrack(q)'
  <2>1. ASSUME NEW q \in Invocations, q # r PROVE OnTrack(q)'
    BY <1>2, <2>1, BystanderKept DEF InTurn
  <2>2. OnTrack(r)'
    BY <1>3, IdleOnTrack
  <2> QED BY <2>1, <2>2
<1>6. LedgerSound'
  BY LedgerKept DEF InTurn
<1> QED BY <1>4, <1>5, <1>6 DEF InTurn

\* A step of r within its run: the others do not move.
LEMMA StepInTurn ==
  ASSUME TypeOK, InTurn, UNCHANGED ledgerVars, NEW r \in Invocations,
         Active(r) \/ \A q \in Invocations : ~Active(q),
         \A q \in Invocations : q # r =>
           /\ pc'[q] = pc[q] /\ date'[q] = date[q] /\ plan'[q] = plan[q]
           /\ opening'[q] = opening[q] /\ result'[q] = result[q],
         OnTrack(r)'
  PROVE  InTurn'
<1>1. Alone'
  BY DEF InTurn, Alone, Active
<1>2. \A q \in Invocations : OnTrack(q)'
  <2>1. ASSUME NEW q \in Invocations, q # r PROVE OnTrack(q)'
    BY <2>1, BystanderKept DEF InTurn
  <2> QED BY <2>1
<1>3. LedgerSound'
  BY LedgerKept DEF InTurn
<1> QED BY <1>1, <1>2, <1>3 DEF InTurn

LEMMA GuardrailInTurn ==
  ASSUME TypeOK, InTurn, ~disordered, NEW r \in Invocations, Guardrail(r), ~disordered'
  PROVE  InTurn'
<1>1. PICK d \in Day : date' = [date EXCEPT ![r] = d] /\ Disorder(d)
  BY DEF Guardrail
<1>2. /\ \A q \in Invocations : ~Active(q)
      /\ Present = {} \/ ~(d < Max(Present))
  BY <1>1 DEF Disorder
<1>3. pc' = [pc EXCEPT ![r] = "admitted"] /\ UNCHANGED ledgerVars /\ UNCHANGED <<opening, result>>
  BY DEF Guardrail, Goto
<1>4. LatestAccount = LastSaved /\ \A e \in Present : file[e] = "full"
  BY LoadReturnsLast DEF Guardrail, InTurn, LedgerSound
<1>5. PICK p \in Admissible(Held(LastSaved)) : plan' = [plan EXCEPT ![r] = p]
  BY <1>4 DEF Guardrail
<1>6. pc'[r] = "admitted" /\ date'[r] = d /\ plan'[r] = p
  BY <1>1, <1>3, <1>5 DEF TypeOK
<1>7. Present' = Present /\ LastSaved' = LastSaved /\ file' = file
  BY <1>3, LedgerKept DEF ledgerVars
<1>8. Ahead(r)'
  <2>1. \A e \in Present : e <= d
    BY <1>2, DateSets
  <2> QED BY <1>4, <1>6, <1>7, <2>1 DEF Ahead
<1>9. PlanAdmissible(r)'
  BY <1>6, <1>7 DEF PlanAdmissible, Admissible, FreeSlots, NotNegative, Held
<1>10. OnTrack(r)'
  BY <1>6, <1>8, <1>9 DEF OnTrack, Claimed, LoadedIsLast, ResultContinues
<1>11. \A q \in Invocations : q # r =>
         /\ pc'[q] = pc[q] /\ date'[q] = date[q] /\ plan'[q] = plan[q]
         /\ opening'[q] = opening[q] /\ result'[q] = result[q]
  BY <1>1, <1>3, <1>5 DEF TypeOK
<1> QED BY <1>2, <1>3, <1>10, <1>11, StepInTurn

LEMMA LoadInTurn ==
  ASSUME TypeOK, InTurn, NEW r \in Invocations, LoadAccount(r)
  PROVE  InTurn'
<1>1. /\ pc[r] = "admitted" /\ pc' = [pc EXCEPT ![r] = "loaded"] /\ UNCHANGED ledgerVars
      /\ opening' = [opening EXCEPT ![r] = LatestAccount] /\ UNCHANGED <<date, plan, result>>
  BY DEF LoadAccount, Goto
<1>2. LatestAccount = LastSaved /\ \A e \in Present : file[e] = "full"
  BY LoadReturnsLast DEF LoadAccount, InTurn, LedgerSound
<1>3. pc'[r] = "loaded" /\ opening'[r] = LastSaved
  BY <1>1, <1>2 DEF TypeOK
<1>4. Present' = Present /\ LastSaved' = LastSaved /\ file' = file
  BY <1>1, LedgerKept DEF ledgerVars
<1>5. Active(r) /\ OnTrack(r)
  BY <1>1 DEF Active, InTurn
<1>6. Ahead(r)' /\ LoadedIsLast(r)' /\ Claimed(r)' /\ ResultContinues(r)'
  BY <1>1, <1>2, <1>3, <1>4, <1>5 DEF OnTrack, Ahead, LoadedIsLast, Claimed, ResultContinues
<1>7. PlanAdmissible(r)'
  BY <1>1, <1>3, <1>4, <1>5
  DEF OnTrack, PlanAdmissible, Admissible, FreeSlots, NotNegative, Held
<1>8. OnTrack(r)'
  BY <1>6, <1>7 DEF OnTrack
<1>9. \A q \in Invocations : q # r =>
        /\ pc'[q] = pc[q] /\ date'[q] = date[q] /\ plan'[q] = plan[q]
        /\ opening'[q] = opening[q] /\ result'[q] = result[q]
  BY <1>1 DEF TypeOK
<1> QED BY <1>1, <1>5, <1>8, <1>9, StepInTurn

LEMMA SimulateInTurn ==
  ASSUME TypeOK, InTurn, NEW r \in Invocations, Simulate(r)
  PROVE  InTurn'
<1>1. /\ pc[r] = "loaded" /\ pc' = [pc EXCEPT ![r] = "simulated"] /\ UNCHANGED ledgerVars
      /\ UNCHANGED <<date, plan, opening>>
  BY DEF Simulate, Goto
<1>2. PICK session \in Session :
        /\ result' = [result EXCEPT ![r] = session]
        /\ Continues(session, opening[r])
        /\ plan[r] \in Admissible(Held(opening[r])) => WithinCapacity(session)
  BY SimulateFacts
<1>3. Active(r) /\ OnTrack(r)
  BY <1>1 DEF Active, InTurn
<1>4. opening[r] = LastSaved /\ plan[r] \in Admissible(Held(LastSaved))
  BY <1>1, <1>3 DEF OnTrack, LoadedIsLast, PlanAdmissible
<1>5. pc'[r] = "simulated" /\ result'[r] = session
  BY <1>1, <1>2 DEF TypeOK
<1>6. Present' = Present /\ LastSaved' = LastSaved /\ file' = file
  BY <1>1, LedgerKept DEF ledgerVars
<1>7. Continues(session, LastSaved) /\ WithinCapacity(session)
  BY <1>2, <1>4
<1>8. ResultContinues(r)'
  BY <1>5, <1>6, <1>7 DEF ResultContinues, Continues, WithinCapacity, LotsOf, Held
<1>9. Ahead(r)' /\ LoadedIsLast(r)' /\ Claimed(r)' /\ PlanAdmissible(r)'
  BY <1>1, <1>3, <1>5, <1>6 DEF OnTrack, Ahead, LoadedIsLast, Claimed, PlanAdmissible, Active
<1>10. OnTrack(r)'
  BY <1>8, <1>9 DEF OnTrack
<1>11. \A q \in Invocations : q # r =>
         /\ pc'[q] = pc[q] /\ date'[q] = date[q] /\ plan'[q] = plan[q]
         /\ opening'[q] = opening[q] /\ result'[q] = result[q]
  BY <1>1, <1>2 DEF TypeOK
<1> QED BY <1>1, <1>3, <1>10, <1>11, StepInTurn

LEMMA CreateInTurn ==
  ASSUME TypeOK, InTurn, NEW r \in Invocations, Create(r)
  PROVE  InTurn'
<1> DEFINE d == date[r]
<1>1. /\ pc[r] = "simulated" /\ pc' = [pc EXCEPT ![r] = "created"] /\ file[d] = "absent"
      /\ file' = [file EXCEPT ![d] = "partial"]
      /\ UNCHANGED <<book, date, plan, opening, result>>
  BY DEF Create, Goto, localVars
<1>2. Active(r) /\ OnTrack(r) /\ d \in Day
  BY <1>1 DEF Active, InTurn, TypeOK
<1>3. \A q \in Invocations : q # r => ~Active(q) /\ pc'[q] = pc[q]
  BY <1>1, <1>2 DEF InTurn, Alone, TypeOK
<1>4. pc'[r] = "created"
  BY <1>1 DEF TypeOK
<1>5. Present' = Present \union {d} /\ Saved' = Saved
  BY <1>1, <1>2 DEF Present, Saved, TypeOK
<1>6. LastSaved' = LastSaved
  BY <1>1, <1>5 DEF LastSaved, Seed
<1>7. \A e \in Present : e <= d /\ e # d /\ file'[e] = "full" /\ file[e] = "full"
  <2>1. \A e \in Present : e <= d /\ file[e] = "full"
    BY <1>1, <1>2 DEF OnTrack, Ahead
  <2> QED BY <1>1, <1>2, <2>1, DateSets DEF Present, TypeOK
<1>8. file'[d] = "partial"
  BY <1>1, <1>2 DEF TypeOK
<1>9. Ahead(r)' /\ Claimed(r)'
  BY <1>1, <1>2, <1>4, <1>5, <1>7, <1>8 DEF Ahead, Claimed, Day
<1>10. LoadedIsLast(r)'
  BY <1>1, <1>2, <1>6 DEF OnTrack, LoadedIsLast
<1>11. PlanAdmissible(r)'
  BY <1>4 DEF PlanAdmissible
<1>12. ResultContinues(r)'
  BY <1>1, <1>2, <1>6 DEF OnTrack, ResultContinues, Continues, WithinCapacity, LotsOf, Held
<1>13. \A q \in Invocations : OnTrack(q)'
  <2>1. OnTrack(r)'
    BY <1>9, <1>10, <1>11, <1>12 DEF OnTrack
  <2>2. ASSUME NEW q \in Invocations, q # r PROVE OnTrack(q)'
    BY <1>3, <2>2, IdleOnTrack DEF Active
  <2> QED BY <2>1, <2>2
<1>14. Alone'
  BY <1>3 DEF Alone, Active
<1>15. CutShortIsNewest'
  BY <1>2, <1>5, <1>7, <1>8 DEF CutShortIsNewest, Day
<1>16. LastReconciled'
  BY <1>1, <1>5, <1>6
  DEF InTurn, LedgerSound, LastReconciled, Reconciled, Deltas, Entries, Results, LotsOf, Held
<1>17. SavedWithinCapacity'
  BY <1>1, <1>5 DEF InTurn, LedgerSound, SavedWithinCapacity, WithinCapacity, Held
<1> QED BY <1>13, <1>14, <1>15, <1>16, <1>17 DEF InTurn, LedgerSound

LEMMA WriteInTurn ==
  ASSUME TypeOK, InTurn, NEW r \in Invocations, Write(r)
  PROVE  InTurn'
<1> DEFINE d == date[r]
           new == result[r]
<1>1. /\ pc[r] = "created" /\ pc' = [pc EXCEPT ![r] = "done"]
      /\ file' = [file EXCEPT ![d] = "full"] /\ book' = [book EXCEPT ![d] = new]
  BY DEF Write, End, Goto
<1>2. Active(r) /\ OnTrack(r) /\ d \in Day /\ new \in Session
  BY <1>1 DEF Active, InTurn, TypeOK
<1>3. \A q \in Invocations : ~Active(q)'
  BY <1>1, <1>2 DEF InTurn, Alone, TypeOK, Active
<1>4. file[d] = "partial" /\ \A e \in Present : e <= d /\ (e # d => file[e] = "full")
  BY <1>1, <1>2 DEF OnTrack, Claimed, Ahead
<1>5. /\ Present' = Present /\ Saved' = Saved \union {d} /\ d \notin Saved
      /\ \A e \in Saved : e < d
  <2>1. Present' = Present /\ Saved' = Saved \union {d} /\ d \notin Saved
    BY <1>1, <1>2, <1>4 DEF Present, Saved, TypeOK
  <2>2. \A e \in Saved : e <= d /\ e # d /\ e \in Int /\ d \in Int
    BY <1>2, <1>4, <2>1, DateSets
  <2> QED BY <2>1, <2>2
<1>6. book'[d] = new /\ \A e \in Saved : book'[e] = book[e] /\ e \in Day
  BY <1>1, <1>2, <1>5, DateSets DEF TypeOK
<1>7. LastSaved' = new.account
  <2>1. TypeOK'
    <3>1. Next
      BY DEF Next, Run
    <3> QED BY <3>1, PaperTyped
  <2>2. Saved' # {} => Max(Saved') \in Saved' /\ \A e \in Saved' : e <= Max(Saved')
    <3>1. Saved' \in SUBSET Int /\ IsFiniteSet(Saved')
      BY <1>2, <1>5, DateSets, FS_AddElement
    <3> QED BY <3>1, MaxOfFinite
  <2>3. Max(Saved') = d
    BY <1>2, <1>5, <2>2, DateSets
  <2> QED BY <1>5, <1>6, <2>3 DEF LastSaved
<1>8. Continues(new, LastSaved) /\ WithinCapacity(new)
  BY <1>1, <1>2 DEF OnTrack, ResultContinues
<1>9. /\ SumOver(Deltas', Saved') = new.delta + SumOver(Deltas, Saved)
      /\ SumOver(Results', Saved') = new.pnl + SumOver(Results, Saved)
      /\ SumOver(Entries', Saved') = Cardinality(new.bought) + SumOver(Entries, Saved)
      /\ SumOver(Deltas, Saved) \in Int /\ SumOver(Results, Saved) \in Int
      /\ SumOver(Entries, Saved) \in Int
  <2>1. ASSUME NEW e \in Day
        PROVE  /\ Deltas[e] \in Int /\ Results[e] \in Int /\ Entries[e] \in Int
               /\ Deltas[e] = book[e].delta /\ Results[e] = book[e].pnl
               /\ Entries[e] = Cardinality(book[e].bought)
               /\ Deltas'[e] = book'[e].delta /\ Results'[e] = book'[e].pnl
               /\ Entries'[e] = Cardinality(book'[e].bought)
    <3>1. book[e] \in Session
      BY DEF TypeOK
    <3>2. Cardinality(book[e].bought) \in Nat
      BY <3>1, SymbolSets DEF Session
    <3> QED BY <3>1, <3>2 DEF Deltas, Results, Entries, Session
  <2>2. /\ Deltas'[d] = new.delta /\ Results'[d] = new.pnl
        /\ Entries'[d] = Cardinality(new.bought)
        /\ new.delta \in Int /\ new.pnl \in Int /\ Cardinality(new.bought) \in Int
    <3>1. Cardinality(new.bought) \in Nat
      BY <1>2, SymbolSets DEF Session
    <3> QED BY <1>2, <1>6, <2>1, <3>1 DEF Session
  <2>3. \A e \in Saved :
          /\ Deltas'[e] = Deltas[e] /\ Results'[e] = Results[e] /\ Entries'[e] = Entries[e]
          /\ Deltas[e] \in Int /\ Results[e] \in Int /\ Entries[e] \in Int
    BY <1>6, <2>1
  <2>4. IsFiniteSet(Saved)
    BY DateSets
  <2>5. ASSUME NEW f, NEW g, \A e \in Saved : f[e] = g[e] /\ g[e] \in Int, f[d] \in Int
        PROVE  Total(f, Saved \union {d}) = f[d] + Total(g, Saved) /\ Total(g, Saved) \in Int
    <3>1. \A e \in Saved \union {d} : f[e] \in Int
      BY <2>5
    <3>2. Total(f, Saved \union {d}) = f[d] + Total(f, Saved)
      BY <1>5, <2>4, <3>1, TotalAdd
    <3>3. Total(f, Saved) = Total(g, Saved)
      BY <2>4, <2>5, TotalSame
    <3>4. Total(g, Saved) \in Int
      BY <2>4, <2>5, TotalRemove
    <3> QED BY <3>2, <3>3, <3>4
  <2>6. /\ Total(Deltas', Saved') = new.delta + Total(Deltas, Saved)
        /\ Total(Deltas, Saved) \in Int
    BY <1>5, <2>2, <2>3, <2>5
  <2>7. /\ Total(Results', Saved') = new.pnl + Total(Results, Saved)
        /\ Total(Results, Saved) \in Int
    BY <1>5, <2>2, <2>3, <2>5
  <2>8. /\ Total(Entries', Saved') = Cardinality(new.bought) + Total(Entries, Saved)
        /\ Total(Entries, Saved) \in Int
    BY <1>5, <2>2, <2>3, <2>5
  <2> QED BY <2>6, <2>7, <2>8, SumIsTotal
<1>10. LastReconciled'
  <2> DEFINE D == SumOver(Deltas, Saved)
             R == SumOver(Results, Saved)
             E == SumOver(Entries, Saved)
             n == Cardinality(new.bought)
  <2>1. /\ LastSaved.cash = InitialCash + D
        /\ LastSaved.cash + LotsOf(LastSaved) + Fee * E = InitialCash + R
    BY DEF InTurn, LedgerSound, LastReconciled, Reconciled
  <2>2. /\ new.account.cash = LastSaved.cash + new.delta
        /\ new.account.cash + LotsOf(new.account) + Fee * n
           = LastSaved.cash + LotsOf(LastSaved) + new.pnl
    BY <1>8 DEF Continues
  <2>3. /\ n \in Int /\ D \in Int /\ R \in Int /\ E \in Int /\ Fee \in Int
        /\ new.delta \in Int /\ new.pnl \in Int /\ LastSaved.cash \in Int
        /\ new.account.cash \in Int /\ InitialCash \in Int
    <3>1. n \in Nat
      BY <1>2, SymbolSets DEF Session
    <3> QED BY <1>2, <1>9, <3>1, AccountsTyped, CashAssumption DEF Session, Account
  <2>4. LotsOf(LastSaved) \in Int /\ LotsOf(new.account) \in Int
    <3>1. ASSUME NEW account \in Account PROVE LotsOf(account) \in Int
      <4>1. PICK G \in SUBSET Symbols : account.lots \in [G -> Amounts]
        BY DEF Account
      <4>2. Held(account) = G /\ IsFiniteSet(G) /\ \A s \in G : account.lots[s] \in Int
        <5>1. Held(account) = G /\ \A s \in G : account.lots[s] \in Amounts
          BY <4>1 DEF Held
        <5>2. \A x \in Amounts : x \in Int
          BY AmountsAreInt
        <5>3. IsFiniteSet(G)
          BY SymbolSets
        <5> QED BY <5>1, <5>2, <5>3
      <4> QED BY <4>2, SumIsTotal, TotalRemove DEF LotsOf
    <3> QED BY <1>2, <3>1, AccountsTyped DEF Session
  <2>5. Fee * (n + E) = Fee * n + Fee * E /\ Fee * n \in Int /\ Fee * E \in Int
    <3>1. \A a, b, c \in Int : a * (b + c) = a * b + a * c /\ a * b \in Int /\ a * c \in Int
      OBVIOUS
    <3> QED BY <2>3, <3>1
  <2> HIDE DEF D, R, E, n
  <2>6. new.account.cash = InitialCash + (new.delta + D)
    BY <2>1, <2>2, <2>3
  <2>7. new.account.cash + LotsOf(new.account) + Fee * (n + E) = InitialCash + (new.pnl + R)
    <3> HIDE DEF new
    <3> QED BY <2>1, <2>2, <2>3, <2>4, <2>5
  <2>8. /\ LastSaved'.cash = InitialCash + SumOver(Deltas', Saved')
        /\ LastSaved'.cash + SumOver(LastSaved'.lots, Held(LastSaved'))
             + Fee * SumOver(Entries', Saved')
           = InitialCash + SumOver(Results', Saved')
    BY <1>7, <1>9, <2>6, <2>7 DEF D, R, E, n, LotsOf
  <2> QED BY <2>8 DEF LastReconciled, Reconciled, LotsOf, Held
<1>11. SavedWithinCapacity'
  <2>1. \A e \in Saved' : WithinCapacity(book'[e])
    BY <1>5, <1>6, <1>8 DEF InTurn, LedgerSound, SavedWithinCapacity
  <2> QED BY <2>1 DEF SavedWithinCapacity, WithinCapacity, Held
<1>12. CutShortIsNewest'
  <2>1. \A e \in Present' : file'[e] # "partial"
    BY <1>1, <1>2, <1>4, <1>5, DateSets DEF TypeOK
  <2> QED BY <2>1 DEF CutShortIsNewest
<1>13. \A q \in Invocations : OnTrack(q)'
  BY <1>3, IdleOnTrack
<1>14. Alone'
  BY <1>3 DEF Alone, Active
<1> QED BY <1>10, <1>11, <1>12, <1>13, <1>14 DEF InTurn, LedgerSound

(* The invariant, and what follows *)

LEMMA InitPaper == Init => PaperInv
<1> SUFFICES ASSUME Init PROVE PaperInv
  OBVIOUS
<1>1. TypeOK
  BY PaperInitTyped
<1>2. Present = {} /\ Saved = {}
  BY DEF Init, Present, Saved
<1>3. \A r \in Invocations : ~Active(r) /\ pc[r] = "start"
  BY DEF Init, Active
<1>4. \A r \in Invocations : OnTrack(r)
  BY <1>3 DEF OnTrack, Ahead, Claimed, LoadedIsLast, PlanAdmissible, ResultContinues
<1>5. LastReconciled
  <2>1. \A f : SumOver(f, {}) = 0
    BY SumIsTotal, TotalDef, FS_EmptySet
  <2>2. LastSaved.cash = InitialCash /\ LotsOf(LastSaved) = 0
    BY <1>2, <2>1 DEF LastSaved, Seed, LotsOf, Held
  <2>3. Fee * 0 = 0 /\ InitialCash \in Int
    BY CashAssumption
  <2> QED BY <1>2, <2>1, <2>2, <2>3 DEF LastReconciled, Reconciled
<1>6. CutShortIsNewest /\ SavedWithinCapacity /\ Alone
  BY <1>2, <1>3 DEF CutShortIsNewest, SavedWithinCapacity, Alone
<1> QED BY <1>1, <1>4, <1>5, <1>6 DEF PaperInv, InTurn, LedgerSound

LEMMA NextPaper == PaperInv /\ [Next]_vars => PaperInv'
<1> SUFFICES ASSUME PaperInv, [Next]_vars PROVE PaperInv'
  OBVIOUS
<1>1. TypeOK /\ TypeOK'
  BY PaperTyped DEF PaperInv
<1> SUFFICES ASSUME ~disordered' PROVE InTurn'
  BY <1>1 DEF PaperInv
<1>2. ~disordered
  <2>1. disordered' = disordered \/ \E r \in Invocations : Guardrail(r)
    BY DEF Next, Run, FlipSwitch, LoadAccount, LoadRefused, Simulate, Create, DateTaken, Write,
           Killed, vars
  <2>2. ASSUME NEW r \in Invocations, Guardrail(r), disordered PROVE disordered'
    BY <2>2 DEF Guardrail, Disorder
  <2> QED BY <2>1, <2>2
<1>3. InTurn
  BY <1>2 DEF PaperInv
<1>4. CASE UNCHANGED <<ledgerVars, pc, localVars>>
  <2>1. /\ UNCHANGED ledgerVars
        /\ pc' = pc /\ date' = date /\ plan' = plan /\ opening' = opening /\ result' = result
    BY <1>4 DEF localVars
  <2>2. \A q \in Invocations : OnTrack(q)'
    BY <1>3, <2>1, BystanderKept DEF InTurn
  <2>3. LedgerSound'
    BY <1>3, <2>1, LedgerKept DEF InTurn
  <2>4. Alone'
    BY <1>3, <2>1 DEF InTurn, Alone, Active
  <2> QED BY <2>2, <2>3, <2>4 DEF InTurn
<1>5. ASSUME NEW r \in Invocations, Guardrail(r) PROVE InTurn'
  BY <1>1, <1>2, <1>3, <1>5, GuardrailInTurn
<1>6. ASSUME NEW r \in Invocations, LoadAccount(r) PROVE InTurn'
  BY <1>1, <1>3, <1>6, LoadInTurn
<1>7. ASSUME NEW r \in Invocations, Simulate(r) PROVE InTurn'
  BY <1>1, <1>3, <1>7, SimulateInTurn
<1>8. ASSUME NEW r \in Invocations, Create(r) PROVE InTurn'
  BY <1>1, <1>3, <1>8, CreateInTurn
<1>9. ASSUME NEW r \in Invocations, Write(r) PROVE InTurn'
  BY <1>1, <1>3, <1>9, WriteInTurn
<1>10. ASSUME NEW r \in Invocations, LoadRefused(r) \/ DateTaken(r) \/ Killed(r) PROVE InTurn'
  <2>1. UNCHANGED ledgerVars
        /\ \E here, there : there \in {"refused", "killed"} /\ End(r, here, there)
    BY <1>10 DEF LoadRefused, DateTaken, Killed
  <2> QED BY <1>1, <1>3, <2>1, EndInTurn
<1> QED
  BY <1>4, <1>5, <1>6, <1>7, <1>8, <1>9, <1>10 DEF Next, Run, FlipSwitch, vars

\* Every account, saved or simulated, holds cash that is not negative and positions of
\* amounts that can be filled, whatever the invocations do to each other
\* (paper/session.py:28-62).
THEOREM PaperTypeCorrect == Spec => []TypeOK
<1>1. TypeOK /\ [Next]_vars => TypeOK'
  BY PaperTyped
<1> QED BY <1>1, PaperInitTyped, PTL DEF Spec

LEMMA PaperInductive == Spec => []PaperInv
  BY InitPaper, NextPaper, PTL DEF Spec

\* No session is lost, applied twice or seeded afresh: the newest account is what all the
\* sessions on file made of the initial cash, as long as invocations neither overlap nor go
\* back in time, across kills and restarts, for any number of dates and invocations
\* (paper/runner.py:55-89, paper/ledger.py:94-157).
THEOREM AccountAlwaysReconciles == Spec => []AccountReconciles
<1>1. PaperInv => AccountReconciles
  BY DEF PaperInv, InTurn, LedgerSound, LastReconciled, Reconciled, LastSaved, LotsOf,
         AccountReconciles
<1> QED BY <1>1, PaperInductive, PTL

\* A session that buys ends within the position limit, but for exits that did not fill, for
\* any limit and any number of symbols (llm/guardrail.py:133-152, paper/session.py:82-130).
THEOREM CapacityAlwaysUpToStuckExits == Spec => []CapacityUpToStuckExits
<1>1. PaperInv => CapacityUpToStuckExits
  BY DEF PaperInv, InTurn, LedgerSound, SavedWithinCapacity, WithinCapacity,
         CapacityUpToStuckExits
<1> QED BY <1>1, PaperInductive, PTL

----------------------------------------------------------------------------------
(***************************************************************************)
(* The forward signals.  While records come one session after the other,   *)
(* each for the portfolio the records before it lead to, there is one such *)
(* portfolio after every session, and each record was admitted for it.     *)
(***************************************************************************)

SignalsTyped ==
  /\ today \in Sessions
  /\ records = [p \in Paths |-> records[p]]

\* The audit files of session d.
FilesOf(d) == {k \in Runs : records[<<d, k>>] # None}

OneFileEach == \A d \in Sessions : FilesOf(d) = {} \/ \E k : FilesOf(d) = {k}

\* Following the records of the first n sessions leads to one portfolio, within the limit.
WithinLimit(n) ==
  \E held \in SUBSET Symbols : HeldAsOf(n) = {held} /\ Cardinality(held) <= MaxPositions

SignalsInv ==
  /\ SignalsTyped
  /\ orderly => OneFileEach /\ \A n \in 0 .. Days : WithinLimit(n)

----------------------------------------------------------------------------------
(* Following the records of one session *)

\* The held symbols after the files of session d, in that order.
Followed(d, held, order) ==
  FoldLeft(LAMBDA h, k : Follow(h, records[<<d, k>>]), held, order)

\* g has them after every part of the order.
Iterates(g, d, held, order) ==
  g = [s \in SUBSET DOMAIN order |->
         IF s = {} THEN held
         ELSE Follow(g[s \ {Max(s)}], records[<<d, order[Max(s)]>>])]

\* The fold is such a function, applied to the whole order.
LEMMA FollowedIs ==
  ASSUME NEW d, NEW held, NEW order
  PROVE  Followed(d, held, order) = (CHOOSE g : Iterates(g, d, held, order))[DOMAIN order]
  BY Zenon DEF Followed, FoldLeft, MapThenFoldSet, Iterates

LEMMA ThroughIs ==
  ASSUME NEW d, NEW held
  PROVE  Through(d, held) = {Followed(d, held, order) : order \in SetToSeqs(FilesOf(d))}
  BY Zenon DEF Through, Followed, FilesOf

LEMMA FollowedNone ==
  ASSUME NEW d, NEW held, NEW order, DOMAIN order = {}
  PROVE  Followed(d, held, order) = held
<1> DEFINE It == CHOOSE g : Iterates(g, d, held, order)
           g0 == [s \in SUBSET DOMAIN order |-> held]
<1>1. \A s \in SUBSET DOMAIN order : s = {}
  OBVIOUS
<1>2. g0 = [s \in SUBSET DOMAIN order |->
              IF s = {} THEN held
              ELSE Follow(g0[s \ {Max(s)}], records[<<d, order[Max(s)]>>])]
  BY <1>1
<1>3. Iterates(g0, d, held, order)
  BY <1>2, Zenon DEF Iterates
<1>4. Iterates(It, d, held, order)
  <2> HIDE DEF g0
  <2> QED BY <1>3, Zenon
<1> HIDE DEF It
<1>5. It[{}] = held
  BY <1>4 DEF Iterates
<1>6. Followed(d, held, order) = It[DOMAIN order]
  BY FollowedIs DEF It
<1> QED BY <1>5, <1>6

LEMMA FollowedOne ==
  ASSUME NEW d, NEW held, NEW order, DOMAIN order = {1}
  PROVE  Followed(d, held, order) = Follow(held, records[<<d, order[1]>>])
<1> DEFINE It == CHOOSE g : Iterates(g, d, held, order)
           last == Follow(held, records[<<d, order[1]>>])
           g0 == [s \in SUBSET DOMAIN order |-> IF s = {} THEN held ELSE last]
<1>1. \A s \in SUBSET {1} : s # {} => s = {1} /\ s \ {1} = {}
  OBVIOUS
<1>2. Max({1}) = 1
  <2>1. IsFiniteSet({1})
    BY FS_Singleton
  <2> QED BY <2>1, MaxOfFinite
<1>3. g0 = [s \in SUBSET DOMAIN order |->
              IF s = {} THEN held
              ELSE Follow(g0[s \ {Max(s)}], records[<<d, order[Max(s)]>>])]
  <2>1. \A s \in SUBSET {1} : s # {} =>
           Follow(g0[s \ {Max(s)}], records[<<d, order[Max(s)]>>]) = last
    BY <1>1, <1>2
  <2> HIDE DEF last
  <2> QED BY <2>1
<1>4. Iterates(g0, d, held, order)
  BY <1>3, Zenon DEF Iterates
<1>5. Iterates(It, d, held, order)
  <2> HIDE DEF g0
  <2> QED BY <1>4, Zenon
<1> HIDE DEF It
<1>6. It[{}] = held /\ It[{1}] = Follow(It[{1} \ {1}], records[<<d, order[1]>>])
  <2>1. It = [s \in SUBSET {1} |->
                IF s = {} THEN held
                ELSE Follow(It[s \ {Max(s)}], records[<<d, order[Max(s)]>>])]
    BY <1>5 DEF Iterates
  <2>2. {} \in SUBSET {1} /\ {1} \in SUBSET {1} /\ {1} # {}
    OBVIOUS
  <2> QED BY <1>2, <2>1, <2>2
<1>7. Followed(d, held, order) = It[DOMAIN order]
  BY FollowedIs DEF It
<1>8. {1} \ {1} = {}
  OBVIOUS
<1> QED BY <1>6, <1>7, <1>8

\* A session without files changes nothing; one file is followed.
LEMMA ThroughNone ==
  ASSUME NEW d, NEW held, FilesOf(d) = {}
  PROVE  Through(d, held) = {held}
<1>1. Cardinality({}) = 0 /\ 1 .. 0 = {}
  BY FS_EmptySet
<1>2. \A order \in SetToSeqs({}) : DOMAIN order = {}
  BY <1>1 DEF SetToSeqs
<1>3. SetToSeqs({}) # {}
  <2>1. [i \in {} |-> i] \in SetToSeqs({})
    BY <1>1 DEF SetToSeqs
  <2> QED BY <2>1
<1>4. \A order \in SetToSeqs({}) : Followed(d, held, order) = held
  BY <1>2, FollowedNone
<1>5. Through(d, held) = {Followed(d, held, order) : order \in SetToSeqs({})}
  BY ThroughIs
<1> QED BY <1>3, <1>4, <1>5

LEMMA ThroughOne ==
  ASSUME NEW d, NEW held, NEW k, FilesOf(d) = {k}
  PROVE  Through(d, held) = {Follow(held, records[<<d, k>>])}
<1>1. Cardinality({k}) = 1 /\ 1 .. 1 = {1}
  BY FS_Singleton
<1>2. \A order \in SetToSeqs({k}) : DOMAIN order = {1} /\ order[1] = k
  BY <1>1 DEF SetToSeqs
<1>3. SetToSeqs({k}) # {}
  <2>1. [i \in {1} |-> k] \in SetToSeqs({k})
    BY <1>1 DEF SetToSeqs
  <2> QED BY <2>1
<1>4. \A order \in SetToSeqs({k}) : Followed(d, held, order) = Follow(held, records[<<d, k>>])
  BY <1>2, FollowedOne
<1>5. Through(d, held) = {Followed(d, held, order) : order \in SetToSeqs({k})}
  BY ThroughIs
<1> QED BY <1>3, <1>4, <1>5

----------------------------------------------------------------------------------
(* Following the records of one session after the other *)

LEMMA LeastNatural ==
  ASSUME NEW S \in SUBSET Nat, S # {}
  PROVE  \E n \in S : \A m \in S : n <= m
<1>1. \E n \in S : \A m \in S : <<m, n>> \notin OpToRel(<, Nat)
  BY NatLessThanWellFounded, WFMin
<1>2. \A m, n \in Nat : <<m, n>> \notin OpToRel(<, Nat) => n <= m
  BY DEF OpToRel
<1> QED BY <1>1, <1>2

\* The portfolios after session n, from those before it.
Beyond(n, portfolios) == UNION {Through(n, h) : h \in portfolios}

\* g has the portfolios after every session up to d.
Leads(g, d) ==
  g = [n \in 0 .. d |-> IF n = 0 THEN {{}} ELSE Beyond(n, g[n - 1])]

LEMMA HeldIs ==
  ASSUME NEW d
  PROVE  HeldAsOf(d) = (CHOOSE g : Leads(g, d))[d]
  BY Zenon DEF HeldAsOf, Leads, Beyond

LEMMA LeadsAt ==
  ASSUME NEW d \in Nat, NEW g, Leads(g, d), NEW n \in 0 .. d
  PROVE  g[n] = IF n = 0 THEN {{}} ELSE Beyond(n, g[n - 1])
  BY Zenon DEF Leads

\* Two of them agree where both are defined.
LEMMA LeadsAgree ==
  ASSUME NEW d \in Nat, NEW e \in Nat, NEW g, NEW f, Leads(g, d), Leads(f, e),
         NEW n \in Nat, n <= d, n <= e
  PROVE  g[n] = f[n]
<1> DEFINE S == {m \in 0 .. n : g[m] # f[m]}
<1>1. S = {}
  <2> SUFFICES ASSUME S # {} PROVE FALSE
    OBVIOUS
  <2>1. S \in SUBSET Nat
    OBVIOUS
  <2>2. PICK m \in S : \A k \in S : m <= k
    <3> HIDE DEF S
    <3> QED BY <2>1, LeastNatural
  <2>3. m \in 0 .. d /\ m \in 0 .. e /\ m \in Nat /\ g[m] # f[m] /\ m <= n
    OBVIOUS
  <2>4. /\ g[m] = IF m = 0 THEN {{}} ELSE Beyond(m, g[m - 1])
        /\ f[m] = IF m = 0 THEN {{}} ELSE Beyond(m, f[m - 1])
    BY <2>3, LeadsAt
  <2>5. m # 0
    BY <2>3, <2>4
  <2>6. m - 1 \notin S /\ m - 1 \in 0 .. n
    BY <2>2, <2>3, <2>5
  <2>7. g[m - 1] = f[m - 1]
    BY <2>6
  <2> QED BY <2>3, <2>4, <2>5, <2>7
<1> QED BY <1>1

\* There is one for every session.
LEMMA LeadsExist == \A d \in Nat : \E g : Leads(g, d)
<1> DEFINE S == {d \in Nat : ~\E g : Leads(g, d)}
<1>1. S = {}
  <2> SUFFICES ASSUME S # {} PROVE FALSE
    OBVIOUS
  <2>1. PICK d \in S : \A e \in S : d <= e
    <3>1. S \in SUBSET Nat
      OBVIOUS
    <3> HIDE DEF S
    <3> QED BY <3>1, LeastNatural
  <2>2. d \in Nat /\ ~\E g : Leads(g, d)
    OBVIOUS
  <2>3. CASE d = 0
    <3> DEFINE g == [n \in 0 .. d |-> {{}}]
    <3>1. g = [n \in 0 .. d |-> IF n = 0 THEN {{}} ELSE Beyond(n, g[n - 1])]
      <4>1. \A n \in 0 .. d : n = 0
        BY <2>3
      <4> QED BY <4>1
    <3>2. Leads(g, d)
      BY <3>1, Zenon DEF Leads
    <3> QED BY <2>2, <3>2
  <2>4. CASE d # 0
    <3>1. d - 1 \in Nat /\ d - 1 \notin S
      BY <2>1, <2>2, <2>4
    <3>2. PICK f : Leads(f, d - 1)
      BY <3>1
    <3> DEFINE g == [n \in 0 .. d |-> IF n = d THEN Beyond(n, f[n - 1]) ELSE f[n]]
    <3>3. ASSUME NEW n \in 0 .. d
          PROVE  g[n] = IF n = 0 THEN {{}} ELSE Beyond(n, g[n - 1])
      <4>1. n # 0 => n - 1 \in 0 .. d /\ n - 1 # d /\ g[n - 1] = f[n - 1]
        BY <2>2
      <4>2. CASE n = d
        BY <2>4, <4>1, <4>2
      <4>3. CASE n # d
        <5>1. n \in 0 .. (d - 1) /\ g[n] = f[n]
          BY <2>2, <4>3
        <5>2. f[n] = IF n = 0 THEN {{}} ELSE Beyond(n, f[n - 1])
          BY <3>1, <3>2, <5>1, LeadsAt
        <5> QED BY <4>1, <5>1, <5>2
      <4> QED BY <4>2, <4>3
    <3>4. Leads(g, d)
      <4>1. g = [n \in 0 .. d |-> IF n = 0 THEN {{}} ELSE Beyond(n, g[n - 1])]
        BY <3>3
      <4> QED BY <4>1, Zenon DEF Leads
    <3> QED BY <2>2, <3>4
  <2> QED BY <2>3, <2>4
<1> QED BY <1>1

\* What the recursion of HeldAsOf says, session by session.
LEMMA HeldByDay ==
  /\ HeldAsOf(0) = {{}}
  /\ \A d \in Nat : d # 0 => HeldAsOf(d) = Beyond(d, HeldAsOf(d - 1))
<1> DEFINE It(d) == CHOOSE g : Leads(g, d)
<1>1. \A d \in Nat : Leads(It(d), d) /\ HeldAsOf(d) = It(d)[d]
  BY LeadsExist, HeldIs, Zenon
<1> HIDE DEF It
<1>2. HeldAsOf(0) = {{}}
  <2>1. 0 \in 0 .. 0 /\ 0 \in Nat
    OBVIOUS
  <2>2. It(0)[0] = {{}}
    BY <1>1, <2>1, LeadsAt
  <2> QED BY <1>1, <2>2
<1>3. ASSUME NEW d \in Nat, d # 0
      PROVE  HeldAsOf(d) = Beyond(d, HeldAsOf(d - 1))
  <2>1. d - 1 \in Nat /\ d \in 0 .. d /\ d - 1 <= d
    BY <1>3
  <2>2. It(d)[d] = Beyond(d, It(d)[d - 1])
    BY <1>1, <1>3, <2>1, LeadsAt
  <2>3. It(d)[d - 1] = It(d - 1)[d - 1]
    <3>1. d - 1 <= d - 1
      BY <2>1
    <3> QED BY <1>1, <2>1, <3>1, LeadsAgree
  <2> QED BY <1>1, <2>1, <2>2, <2>3
<1> QED BY <1>2, <1>3

\* With one file a session at most there is one portfolio after it.
FollowingSays ==
  /\ HeldAsOf(0) = {{}}
  /\ \A d \in Nat \ {0} : \A h : HeldAsOf(d - 1) = {h} =>
       /\ FilesOf(d) = {} => HeldAsOf(d) = {h}
       /\ \A k : FilesOf(d) = {k} => HeldAsOf(d) = {Follow(h, records[<<d, k>>])}

LEMMA FollowingHolds == FollowingSays
<1>1. ASSUME NEW d \in Nat \ {0}, NEW h, HeldAsOf(d - 1) = {h}
      PROVE  /\ FilesOf(d) = {} => HeldAsOf(d) = {h}
             /\ \A k : FilesOf(d) = {k} => HeldAsOf(d) = {Follow(h, records[<<d, k>>])}
  <2>1. HeldAsOf(d) = Through(d, h)
    <3>1. HeldAsOf(d) = Beyond(d, {h})
      BY <1>1, HeldByDay
    <3>2. UNION {Through(d, x) : x \in {h}} = Through(d, h)
      OBVIOUS
    <3> QED BY <3>1, <3>2 DEF Beyond
  <2> QED BY <2>1, ThroughNone, ThroughOne
<1> QED BY <1>1, HeldByDay DEF FollowingSays

LEMMA FollowingLater ==
  /\ HeldAsOf(0)' = {{}}
  /\ \A d \in Nat \ {0} : \A h : HeldAsOf(d - 1)' = {h} =>
       /\ FilesOf(d)' = {} => HeldAsOf(d)' = {h}
       /\ \A k : FilesOf(d)' = {k} => HeldAsOf(d)' = {Follow(h, records'[<<d, k>>])}
<1>1. FollowingSays'
  BY FollowingHolds, PTL
<1> QED BY <1>1 DEF FollowingSays, Follow

----------------------------------------------------------------------------------
(* The limit *)

\* What the guardrails admit for a portfolio within the limit keeps it there.
LEMMA AdmittedWithinLimit ==
  ASSUME NEW held \in SUBSET Symbols, Cardinality(held) <= MaxPositions,
         NEW picks, picks.buys \subseteq Symbols, NEW barred,
         NEW record \in Admissions(picks, held, barred)
  PROVE  /\ Follow(held, record) \in SUBSET Symbols
         /\ Cardinality(Follow(held, record)) <= MaxPositions
<1> DEFINE L == held \ record.sells
           free == FreeSlots(held, record.sells)
<1>1. /\ record.buys \in SUBSET Symbols /\ record.buys \intersect held = {}
      /\ Cardinality(record.buys) = free \/ Cardinality(record.buys) < free
      /\ record.sells \in SUBSET held
  BY DEF Admissions
<1>2. Follow(held, record) = L \union record.buys
  BY <1>1 DEF Follow
<1>3. /\ L \in SUBSET Symbols /\ L \in SUBSET held /\ L \intersect record.buys = {}
      /\ IsFiniteSet(L) /\ IsFiniteSet(held) /\ IsFiniteSet(record.buys)
  BY <1>1, SymbolSets
<1>4. Cardinality(L) <= Cardinality(held)
  BY <1>3, FS_Subset
<1>5. /\ Cardinality(L) \in Nat /\ Cardinality(held) \in Nat /\ Cardinality(record.buys) \in Nat
      /\ MaxPositions \in Nat
  BY <1>3, FS_CardinalityType, PositionsAssumption
<1>6. Cardinality(L \union record.buys) = Cardinality(L) + Cardinality(record.buys)
  <2> HIDE DEF L
  <2>1. Cardinality(L \union record.buys)
        = Cardinality(L) + Cardinality(record.buys) - Cardinality(L \intersect record.buys)
    BY <1>3, FS_Union
  <2>2. Cardinality(L \intersect record.buys) = 0
    BY <1>3, FS_EmptySet
  <2> QED BY <1>5, <2>1, <2>2
<1>7. free = IF MaxPositions - Cardinality(L) > 0 THEN MaxPositions - Cardinality(L) ELSE 0
  BY DEF FreeSlots, NotNegative
<1>8. Cardinality(L) + Cardinality(record.buys) <= MaxPositions
  <2> HIDE DEF L, free
  <2> QED BY <1>1, <1>4, <1>5, <1>7
<1> QED BY <1>1, <1>2, <1>3, <1>6, <1>8

\* The sessions before d are read as before.
LEMMA HeldBefore ==
  ASSUME Days \in Nat, OneFileEach, \A n \in 0 .. Days : WithinLimit(n), NEW d \in Nat,
         \A n \in Sessions : n < d =>
           /\ FilesOf(n)' = FilesOf(n)
           /\ \A k \in FilesOf(n) : records'[<<n, k>>] = records[<<n, k>>]
  PROVE  \A n \in 0 .. Days : n < d => HeldAsOf(n)' = HeldAsOf(n)
<1> DEFINE S == {n \in 0 .. Days : n < d /\ HeldAsOf(n)' # HeldAsOf(n)}
<1>1. S = {}
  <2> SUFFICES ASSUME S # {} PROVE FALSE
    OBVIOUS
  <2>1. PICK m \in S : \A n \in S : m <= n
    <3>1. S \in SUBSET Nat
      OBVIOUS
    <3> HIDE DEF S
    <3> QED BY <3>1, LeastNatural
  <2>2. m \in 0 .. Days /\ m < d /\ HeldAsOf(m)' # HeldAsOf(m)
    OBVIOUS
  <2>3. m \in Nat \ {0} /\ m \in Sessions /\ m - 1 \in 0 .. Days
    <3>1. m # 0
      BY <2>2, FollowingHolds, FollowingLater DEF FollowingSays
    <3> QED BY <2>2, <3>1 DEF Sessions
  <2>4. m - 1 \notin S /\ m - 1 < d
    BY <2>1, <2>2, <2>3
  <2>5. HeldAsOf(m - 1)' = HeldAsOf(m - 1)
    BY <2>3, <2>4
  <2>6. PICK h : HeldAsOf(m - 1) = {h}
    BY <2>3 DEF WithinLimit
  <2>7. FilesOf(m)' = FilesOf(m) /\ \A k \in FilesOf(m) : records'[<<m, k>>] = records[<<m, k>>]
    BY <2>2, <2>3
  <2> HIDE DEF S
  <2>8. CASE FilesOf(m) = {}
    <3>1. HeldAsOf(m) = {h}
      BY <2>3, <2>6, <2>8, FollowingHolds DEF FollowingSays
    <3>2. HeldAsOf(m)' = {h}
      <4>1. HeldAsOf(m - 1)' = {h} /\ FilesOf(m)' = {}
        BY <2>5, <2>6, <2>7, <2>8
      <4> QED BY <2>3, <4>1, FollowingLater
    <3> QED BY <2>2, <3>1, <3>2
  <2>9. ASSUME NEW k, FilesOf(m) = {k} PROVE FALSE
    <3>1. HeldAsOf(m) = {Follow(h, records[<<m, k>>])}
      BY <2>3, <2>6, <2>9, FollowingHolds DEF FollowingSays
    <3>2. HeldAsOf(m)' = {Follow(h, records'[<<m, k>>])}
      <4>1. HeldAsOf(m - 1)' = {h} /\ FilesOf(m)' = {k}
        BY <2>5, <2>6, <2>7, <2>9
      <4>2. \A j : FilesOf(m)' = {j} => HeldAsOf(m)' = {Follow(h, records'[<<m, j>>])}
        BY <2>3, <4>1, FollowingLater
      <4> QED BY <4>1, <4>2
    <3>3. records'[<<m, k>>] = records[<<m, k>>]
      BY <2>7, <2>9
    <3> QED BY <2>2, <3>1, <3>2, <3>3
  <2> QED BY <2>3, <2>8, <2>9 DEF OneFileEach
<1> QED BY <1>1

\* A step that writes no file leaves every portfolio what it was.
LEMMA NothingRecorded ==
  ASSUME Days \in Nat, OneFileEach, \A n \in 0 .. Days : WithinLimit(n), records' = records
  PROVE  OneFileEach' /\ \A n \in 0 .. Days : WithinLimit(n)'
<1>1. \A n : FilesOf(n)' = FilesOf(n)
  BY DEF FilesOf
<1>2. OneFileEach'
  BY <1>1 DEF OneFileEach
<1>3. Days + 1 \in Nat /\ \A n \in 0 .. Days : n < Days + 1
  OBVIOUS
<1>4. \A n \in 0 .. Days : HeldAsOf(n)' = HeldAsOf(n)
  BY <1>1, <1>3, HeldBefore
<1> QED BY <1>2, <1>4 DEF WithinLimit

\* A file written after all others, for the portfolio they lead to.
LEMMA RecordedInOrder ==
  ASSUME SignalsTyped, OneFileEach, \A n \in 0 .. Days : WithinLimit(n),
         NEW d \in Sessions, NEW run \in Runs, NEW held, InOrder(d, held), NEW picks,
         picks.buys \subseteq Symbols, NEW barred, NEW record \in Admissions(picks, held, barred),
         Put(d, run, record)
  PROVE  OneFileEach' /\ \A n \in 0 .. Days : WithinLimit(n)'
<1>0. Days \in Nat /\ d \in Nat \ {0} /\ d \in 1 .. Days /\ Sessions = 1 .. Days
  BY SignalBounds DEF Sessions
<1>1. \A n \in Sessions, k \in Runs : <<n, k>> \in Paths
  BY DEF Paths
<1>2. /\ \A n \in Sessions, k \in Runs :
           records'[<<n, k>>] = IF n = d /\ k = run THEN record ELSE records[<<n, k>>]
  BY <1>1 DEF SignalsTyped, Put
<1>3. \A n \in Sessions : n >= d => FilesOf(n) = {}
  <2>1. ASSUME NEW n \in Sessions, n >= d, NEW k \in FilesOf(n) PROVE FALSE
    <3>1. <<n, k>> \in Written
      BY <1>1 DEF Written, FilesOf
    <3>2. n < d
      BY <3>1 DEF InOrder
    <3> QED BY <1>0, <2>1, <3>2
  <2> QED BY <2>1
<1>4. \A n \in Sessions : n # d => FilesOf(n)' = FilesOf(n)
  BY <1>2 DEF FilesOf
<1>5. FilesOf(d)' = {} \/ FilesOf(d)' = {run}
  BY <1>2, <1>3, <1>0 DEF FilesOf
<1>6. OneFileEach'
  BY <1>4, <1>5 DEF OneFileEach
<1>7. \A n \in 0 .. Days : n < d => HeldAsOf(n)' = HeldAsOf(n)
  <2>1. \A n \in Sessions : n < d =>
          /\ FilesOf(n)' = FilesOf(n)
          /\ \A k \in FilesOf(n) : records'[<<n, k>>] = records[<<n, k>>]
    BY <1>0, <1>2, <1>4 DEF FilesOf
  <2> QED BY <1>0, <2>1, HeldBefore
<1>8. PICK h \in SUBSET Symbols : HeldAsOf(d - 1) = {h} /\ Cardinality(h) <= MaxPositions
  BY <1>0 DEF WithinLimit
<1>9. held = h
  <2>1. FilesOf(d) = {}
    BY <1>0, <1>3
  <2>2. HeldAsOf(d) = {h}
    BY <1>0, <1>8, <2>1, FollowingHolds DEF FollowingSays
  <2> QED BY <2>2 DEF InOrder
<1>10. WithinLimit(d)'
  <2>1. HeldAsOf(d - 1)' = {h}
    BY <1>0, <1>7, <1>8
  <2>2. CASE FilesOf(d)' = {}
    <3>1. HeldAsOf(d)' = {h}
      BY <1>0, <2>1, <2>2, FollowingLater
    <3> QED BY <1>8, <3>1 DEF WithinLimit
  <2>3. CASE FilesOf(d)' = {run}
    <3>1. HeldAsOf(d)' = {Follow(h, records'[<<d, run>>])}
      <4>1. d \in Nat \ {0}
        BY <1>0
      <4>2. \A k : FilesOf(d)' = {k} => HeldAsOf(d)' = {Follow(h, records'[<<d, k>>])}
        BY <2>1, <4>1, FollowingLater
      <4> QED BY <2>3, <4>2
    <3>2. records'[<<d, run>>] = record
      BY <1>2
    <3>3. /\ Follow(h, record) \in SUBSET Symbols
          /\ Cardinality(Follow(h, record)) <= MaxPositions
      BY <1>8, <1>9, AdmittedWithinLimit
    <3> QED BY <3>1, <3>2, <3>3 DEF WithinLimit
  <2> QED BY <1>5, <2>2, <2>3
<1>11. \A n \in 0 .. Days : WithinLimit(n)'
  <2> DEFINE S == {n \in 0 .. Days : ~WithinLimit(n)'}
  <2>1. S = {}
    <3> SUFFICES ASSUME S # {} PROVE FALSE
      OBVIOUS
    <3>1. PICK m \in S : \A n \in S : m <= n
      <4>1. S \in SUBSET Nat
        OBVIOUS
      <4> HIDE DEF S
      <4> QED BY <4>1, LeastNatural
    <3>2. m \in 0 .. Days /\ ~WithinLimit(m)'
      OBVIOUS
    <3>3. ~(m < d)
      BY <1>7, <3>2 DEF WithinLimit
    <3>4. m # d
      BY <1>10, <3>2
    <3>5. m \in Nat \ {0} /\ m \in Sessions /\ m > d /\ m - 1 \in 0 .. Days
      BY <1>0, <3>2, <3>3, <3>4
    <3>6. m - 1 \notin S
      BY <3>1, <3>5
    <3> DEFINE Before == WithinLimit(m - 1)'
    <3>7. Before
      BY <3>5, <3>6
    <3>8. PICK g \in SUBSET Symbols : HeldAsOf(m - 1)' = {g} /\ Cardinality(g) <= MaxPositions
      BY <3>7 DEF WithinLimit
    <3>9. FilesOf(m)' = {}
      BY <1>0, <1>3, <1>4, <3>5
    <3>10. HeldAsOf(m)' = {g}
      BY <3>5, <3>8, <3>9, FollowingLater
    <3> QED BY <3>2, <3>8, <3>10 DEF WithinLimit
  <2> QED BY <2>1
<1> QED BY <1>6, <1>11

----------------------------------------------------------------------------------
(* The invariant, and what follows *)

LEMMA InitSignals == RInit => SignalsInv
<1> SUFFICES ASSUME RInit PROVE SignalsInv
  OBVIOUS
<1>0. Days \in Nat \ {0}
  BY SignalBounds
<1>1. SignalsTyped
  BY <1>0 DEF RInit, SInit, SignalsTyped, Sessions
<1>2. \A n \in Sessions : FilesOf(n) = {}
  BY DEF RInit, SInit, FilesOf, Paths
<1>3. OneFileEach
  BY <1>2 DEF OneFileEach
<1> DEFINE S == {n \in 0 .. Days : HeldAsOf(n) # {{}}}
<1>4. S = {}
  <2> SUFFICES ASSUME S # {} PROVE FALSE
    OBVIOUS
  <2>1. PICK m \in S : \A n \in S : m <= n
    <3>1. S \in SUBSET Nat
      OBVIOUS
    <3> HIDE DEF S
    <3> QED BY <3>1, LeastNatural
  <2>2. m \in 0 .. Days /\ HeldAsOf(m) # {{}}
    OBVIOUS
  <2>3. m \in Nat \ {0} /\ m \in Sessions /\ m - 1 \in 0 .. Days
    <3>1. m # 0
      BY <2>2, FollowingHolds DEF FollowingSays
    <3> QED BY <1>0, <2>2, <3>1 DEF Sessions
  <2>4. HeldAsOf(m - 1) = {{}}
    BY <2>1, <2>3
  <2>5. HeldAsOf(m) = {{}}
    BY <1>2, <2>3, <2>4, FollowingHolds DEF FollowingSays
  <2> QED BY <2>2, <2>5
<1>5. \A n \in 0 .. Days : WithinLimit(n)
  <2>1. {} \in SUBSET Symbols /\ Cardinality({}) <= MaxPositions
    BY FS_EmptySet, PositionsAssumption
  <2> QED BY <1>4, <2>1 DEF WithinLimit
<1> QED BY <1>1, <1>3, <1>5 DEF SignalsInv

\* One file, at a path not yet taken, for a session that has begun.
LEMMA RecordedFacts ==
  ASSUME SignalsTyped, Recorded
  PROVE  \E d \in Sessions, run \in Runs : \E record :
           /\ Put(d, run, record) /\ Valid(d) /\ UNCHANGED <<today, feed, missing, reply>>
           /\ \/ orderly' = FALSE
              \/ \E held, barred : /\ record \in Admissions(reply.picks, held, barred)
                                   /\ orderly' = (orderly /\ InOrder(d, held))
<1>1. PICK d \in Sessions, run \in Runs : Record(d, run)
  BY DEF Recorded
<1>2. d \in Sessions
  BY <1>1
<1>3. Valid(d) /\ UNCHANGED <<today, feed, missing, reply>>
  BY <1>1 DEF Record
<1>4. CASE Put(d, run, Torn) /\ orderly' = FALSE
  BY <1>2, <1>3, <1>4
<1>5. CASE \E held, barred, admitted :
             /\ admitted \in Admissions(reply.picks, held, barred) /\ Put(d, run, admitted)
             /\ orderly' = (orderly /\ InOrder(d, held))
  BY <1>2, <1>3, <1>5
<1> QED BY <1>1, <1>4, <1>5, Zenon DEF Record

LEMMA RecordedKeeps ==
  ASSUME SignalsInv, Recorded
  PROVE  SignalsTyped' /\ (orderly' => OneFileEach' /\ \A n \in 0 .. Days : WithinLimit(n)')
<1>0. SignalsTyped
  BY DEF SignalsInv
<1>1. PICK d \in Sessions, run \in Runs : \E record :
        /\ Put(d, run, record) /\ Valid(d) /\ UNCHANGED <<today, feed, missing, reply>>
        /\ \/ orderly' = FALSE
           \/ \E held, barred : /\ record \in Admissions(reply.picks, held, barred)
                                /\ orderly' = (orderly /\ InOrder(d, held))
  BY <1>0, RecordedFacts
<1>2. PICK record :
        /\ Put(d, run, record) /\ Valid(d) /\ UNCHANGED <<today, feed, missing, reply>>
        /\ \/ orderly' = FALSE
           \/ \E held, barred : /\ record \in Admissions(reply.picks, held, barred)
                                /\ orderly' = (orderly /\ InOrder(d, held))
  BY <1>1
<1>3. records' = [p \in Paths |-> records'[p]]
  BY <1>0, <1>2 DEF SignalsTyped, Put
<1>4. SignalsTyped'
  BY <1>0, <1>2, <1>3 DEF SignalsTyped, Sessions, Paths
<1>5. ASSUME orderly' PROVE OneFileEach' /\ \A n \in 0 .. Days : WithinLimit(n)'
  <2>1. PICK held, barred : /\ record \in Admissions(reply.picks, held, barred)
                            /\ orderly /\ InOrder(d, held)
    BY <1>2, <1>5
  <2>2. reply.picks.buys \subseteq Symbols
    BY <1>2 DEF Valid
  <2>3. OneFileEach /\ \A n \in 0 .. Days : WithinLimit(n)
    BY <2>1 DEF SignalsInv
  <2> QED BY <1>0, <1>2, <2>1, <2>2, <2>3, RecordedInOrder
<1> QED BY <1>4, <1>5

LEMMA NextSignals == SignalsInv /\ [RNext]_rvars => SignalsInv'
<1> SUFFICES ASSUME SignalsInv, [RNext]_rvars PROVE SignalsInv'
  OBVIOUS
<1>0. SignalsTyped /\ Days \in Nat \ {0}
  BY SignalBounds DEF SignalsInv
<1>1. ASSUME records' = records, orderly' = orderly, SignalsTyped' PROVE SignalsInv'
  <2>1. orderly => OneFileEach' /\ \A n \in 0 .. Days : WithinLimit(n)'
    BY <1>0, <1>1, NothingRecorded DEF SignalsInv
  <2> QED BY <1>1, <2>1 DEF SignalsInv
<1>2. ASSUME UNCHANGED <<today, records>> PROVE SignalsTyped'
  BY <1>0, <1>2 DEF SignalsTyped, Sessions, Paths
<1>3. CASE UNCHANGED svars
  BY <1>1, <1>2, <1>3 DEF svars
<1>4. CASE NextSession
  <2>1. SignalsTyped'
    BY <1>0, <1>4 DEF NextSession, SignalsTyped, Sessions, Paths
  <2> QED BY <1>1, <1>4, <2>1 DEF NextSession
<1>5. CASE Published \/ Decide
  BY <1>1, <1>2, <1>5 DEF Published, Decide
<1>6. CASE Recorded
  BY <1>6, RecordedKeeps DEF SignalsInv
<1>7. CASE Watch \/ Judge \/ Review
  BY <1>3, <1>7 DEF Watch, Judge, Review
<1> QED BY <1>3, <1>4, <1>5, <1>6, <1>7 DEF RNext, SNext, rvars

LEMMA SignalsInductive == RSpec => []SignalsInv
  BY InitSignals, NextSignals, PTL DEF RSpec

\* Recorded one after the other, each with the portfolio the records imply, the decisions
\* never add up to more than max_positions symbols, for any limit, universe and number of
\* sessions (llm/guardrail.py:133-152 with llm/positions.py:31-45).
THEOREM HeldAlwaysWithinLimit == RSpec => []HeldWithinLimit
<1>1. SignalsInv => HeldWithinLimit
  <2> SUFFICES ASSUME SignalsInv, orderly, NEW held \in HeldAsOf(today)
               PROVE  Cardinality(held) <= MaxPositions
    BY DEF HeldWithinLimit
  <2>1. today \in 0 .. Days
    BY SignalBounds DEF SignalsInv, SignalsTyped, Sessions
  <2> QED BY <2>1 DEF SignalsInv, WithinLimit
<1> QED BY <1>1, SignalsInductive, PTL

\* Nothing is recorded under a session whose brief could not contain what it cites, whatever
\* earlier or later session the reply was made for, for any feed, any windows and any page
\* and result caps (llm/decision.py:108-117, llm/brief.py:117-132).
THEOREM NeverLooksAhead == RSpec => NoLookAhead
<1> DEFINE OnlyCitesIt ==
             \A p \in Paths : Kept(p) =>
               \A id \in reply.cites :
                 IF id[1] = "px" THEN id[2] = p[1] ELSE feed[id[2]].day <= p[1]
<1>1. SignalsInv /\ [RNext]_rvars => [OnlyCitesIt]_svars
  <2> SUFFICES ASSUME SignalsInv, RNext, NEW p \in Paths, Kept(p), NEW id \in reply.cites
               PROVE  IF id[1] = "px" THEN id[2] = p[1] ELSE feed[id[2]].day <= p[1]
    BY DEF rvars
  <2>0. SignalsTyped
    BY DEF SignalsInv
  <2>1. Recorded
    BY DEF RNext, SNext, NextSession, Published, Decide, Watch, Judge, Review, svars, Kept
  <2>2. PICK d \in Sessions, run \in Runs : \E record : Put(d, run, record) /\ Valid(d)
    BY <2>0, <2>1, RecordedFacts
  <2>3. p = <<d, run>>
    BY <2>0, <2>2 DEF SignalsTyped, Put, Kept
  <2>4. id \in BriefIds(d)
    BY <2>2 DEF Valid
  <2>5. CASE id = Price(d)
    BY <2>3, <2>5 DEF Price
  <2>6. ASSUME NEW s \in Symbols, NEW i \in PitEvidence(s, d), id = Cited(i)
        PROVE  id[1] # "px" /\ feed[id[2]].day <= p[1]
    BY <2>3, <2>6 DEF PitEvidence, Item, Cited
  <2> QED BY <2>4, <2>5, <2>6 DEF BriefIds
<1> QED BY <1>1, SignalsInductive, PTL DEF RSpec, NoLookAhead

\* What a score reports stays reported, with the same exit, for any forward window and any
\* missing bars (llm/forward_cli.py:111-113, llm/forward_eval.py:82-101).
THEOREM ScoresAlwaysSettle == RSpec => ScoresSettle
<1>1. SignalsInv /\ [RNext]_rvars => [Readable' => Outcomes \subseteq Outcomes']_svars
  <2> SUFFICES ASSUME SignalsInv, RNext, NEW o \in Outcomes PROVE o \in Outcomes'
    BY DEF rvars
  <2>0. SignalsTyped /\ Days \in Nat /\ ForwardSessions \in Nat
    BY SignalBounds DEF SignalsInv
  <2>1. /\ today \in Nat /\ today' \in Nat /\ today <= today' /\ missing' = missing
        /\ \A p \in Written : p \in Written' /\ records'[p] = records[p]
    <3>1. today \in Nat
      BY <2>0 DEF SignalsTyped, Sessions
    <3>2. CASE Recorded
      <4>1. PICK d \in Sessions, run \in Runs :
              \E record : Put(d, run, record) /\ UNCHANGED <<today, missing>>
        BY <2>0, <3>2, RecordedFacts
      <4>2. ASSUME NEW p \in Written PROVE p \in Written' /\ records'[p] = records[p]
        <5>1. p \in Paths /\ records[p] # None /\ p # <<d, run>>
          BY <4>1 DEF Written, Put
        <5>2. records'[p] = records[p]
          BY <2>0, <4>1, <5>1 DEF SignalsTyped, Put
        <5> QED BY <5>1, <5>2 DEF Written, Paths, Sessions
      <4> QED BY <3>1, <4>1, <4>2
    <3>3. CASE ~Recorded
      <4>1. records' = records /\ missing' = missing /\ (today' = today \/ today' = today + 1)
        BY <3>3 DEF RNext, SNext, NextSession, Published, Decide, Watch, Judge, Review, svars
      <4> QED BY <3>1, <4>1 DEF Written, Paths, Sessions
    <3> QED BY <3>2, <3>3
  <2>2. PICK p \in Written : o \in [path : {p}, symbol : records[p].buys, window : Window(p[1])]
    BY DEF Outcomes
  <2>3. /\ HasBar(o.symbol, o.window[1]) /\ HasBar(o.symbol, o.window[2])
    BY DEF Outcomes
  <2>4. \A s, n : HasBar(s, n) => HasBar(s, n)'
    BY <2>1 DEF HasBar
  <2>5. p[1] \in Nat
    BY <2>0 DEF Written, Paths, Sessions
  <2>6. Window(p[1]) \subseteq Window(p[1])'
    BY <2>0, <2>1, <2>5 DEF Window
  <2>7. o \in [path : {p}, symbol : records'[p].buys, window : Window(p[1])']
    BY <2>1, <2>2, <2>6
  <2>8. o \in UNION {[path : {q}, symbol : records'[q].buys, window : Window(q[1])'] :
                     q \in Written'}
    BY <2>1, <2>2, <2>7
  <2>9. HasBar(o.symbol, o.window[1])' /\ HasBar(o.symbol, o.window[2])'
    BY <2>3, <2>4
  <2> QED BY <2>8, <2>9 DEF Outcomes
<1> QED BY <1>1, SignalsInductive, PTL DEF RSpec, ScoresSettle

(***************************************************************************)
(* The risk watch.  What was published after the last digest of a name is  *)
(* dated no earlier than that digest, so the next one that comes in time   *)
(* asks for it, and finds it on the page.                                  *)
(***************************************************************************)

Headline == [kind : {"news", "disclosure"}, symbol : Symbols, risky : BOOLEAN, day : Sessions]
Look == [day : Sessions, upto : Nat, steady : BOOLEAN]

WatchTyped ==
  /\ today \in Sessions
  /\ feed \in Seq(Headline)
  /\ looks \in [Symbols -> Look]

\* A digest was as of a day that has come, and what it did not see is not older.
LooksPast ==
  \A s \in Symbols :
    /\ looks[s].day <= today /\ looks[s].upto <= Len(feed)
    /\ \A i \in DOMAIN feed : looks[s].upto < i => looks[s].day <= Item(i).day

FeedPast == \A i \in DOMAIN feed : Item(i).day <= today

\* The agent dismisses only flags it was shown.
VerdictsShown == verdicts # None => verdicts.dismissed \subseteq verdicts.shown

WatchInv == WatchTyped /\ LooksPast /\ FeedPast /\ VerdictsShown /\ NoDisclosureMissed

----------------------------------------------------------------------------------

LEMMA InitWatch == RInit => WatchInv
<1> SUFFICES ASSUME RInit PROVE WatchInv
  OBVIOUS
<1>1. today = 1 /\ feed = <<>> /\ verdicts = None /\ looks = [s \in Symbols |-> NoLook]
  BY DEF RInit, SInit
<1>2. 1 \in Sessions /\ NoLook \in Look
  BY SignalBounds DEF Sessions, NoLook, Look
<1>3. WatchTyped
  BY <1>1, <1>2 DEF WatchTyped
<1>4. LooksPast /\ FeedPast
  BY <1>1 DEF LooksPast, FeedPast, NoLook
<1>5. VerdictsShown /\ NoDisclosureMissed
  BY <1>1 DEF VerdictsShown, NoDisclosureMissed, OfKind
<1> QED BY <1>3, <1>4, <1>5 DEF WatchInv

LEMMA DatedFeed == ASSUME WatchTyped, NEW i \in DOMAIN feed PROVE Item(i).day \in Nat
<1>1. feed[i] \in Headline
  BY DEF WatchTyped
<1>2. \A h \in Headline : h.day \in Nat
  BY DEF Headline, Sessions
<1> QED BY <1>1, <1>2 DEF Item

\* A digest that comes in time has every material disclosure filed since the one before.
LEMMA InTimeFlagsAll ==
  ASSUME WatchTyped, LooksPast, FeedPast, NEW watched, NEW s \in watched, s \in Symbols,
         InTime(s), NEW i \in Unseen(s), Item(i).risky
  PROVE  i \in Flags(watched, today)
<1> DEFINE W == {j \in OfKind("disclosure", s) : InWindow(j, today, WatchWindow)}
           Later == {j \in W : j > i}
<1>1. /\ today \in Nat /\ WatchWindow \in Nat /\ DartPage \in Nat
      /\ looks[s].day \in Nat /\ looks[s].upto \in Nat
  BY SignalBounds DEF WatchTyped, Look, Sessions
<1>2. i \in DOMAIN feed /\ i \in Nat /\ looks[s].upto < i /\ i \in OfKind("disclosure", s)
  BY DEF Unseen, OfKind, WatchTyped
<1>3. Item(i).day \in Nat
  BY <1>2, DatedFeed
<1>4. i \in W
  <2>1. looks[s].day <= Item(i).day /\ Item(i).day <= today
    BY <1>2 DEF LooksPast, FeedPast
  <2> QED BY <1>1, <1>2, <1>3, <2>1 DEF InTime, InWindow
<1>5. IsFiniteSet(Unseen(s)) /\ Cardinality(Unseen(s)) \in Nat
  <2>1. Unseen(s) \subseteq 1 .. Len(feed) /\ Len(feed) \in Nat
    <3>1. DOMAIN feed = 1 .. Len(feed) /\ Len(feed) \in Nat
      BY DEF WatchTyped
    <3> QED BY <3>1 DEF Unseen, OfKind
  <2>2. IsFiniteSet(1 .. Len(feed))
    BY <2>1, FS_Interval
  <2>3. IsFiniteSet(Unseen(s))
    BY <2>1, <2>2, FS_Subset
  <2> QED BY <2>3, FS_CardinalityType
<1>6. Later \subseteq Unseen(s) \ {i}
  <2> SUFFICES ASSUME NEW j \in Later PROVE j \in Unseen(s) /\ j # i
    OBVIOUS
  <2>1. j \in OfKind("disclosure", s) /\ j \in Nat /\ j > i
    BY DEF OfKind, WatchTyped
  <2> QED BY <1>1, <1>2, <2>1 DEF Unseen
<1>7. Cardinality(Later) < DartPage
  <2> HIDE DEF Later
  <2>1. /\ IsFiniteSet(Unseen(s) \ {i})
        /\ Cardinality(Unseen(s) \ {i}) = Cardinality(Unseen(s)) - 1
    BY <1>5, FS_RemoveElement
  <2>2. Cardinality(Later) <= Cardinality(Unseen(s)) - 1 /\ Cardinality(Later) \in Nat
    BY <1>6, <2>1, FS_Subset, FS_CardinalityType
  <2> QED BY <1>1, <1>5, <2>2 DEF InTime
<1>8. i \in Disclosures(s, today, WatchWindow)
  BY <1>4, <1>7 DEF Disclosures, NewestOf
<1> QED BY <1>8 DEF Flags, Evidence

\* A digest that tells the operator of every flag, or of those the agent did not dismiss.
LEMMA DigestKeeps ==
  ASSUME WatchInv, UNCHANGED <<svars, verdicts>>,
         NEW watched \in SUBSET Symbols, NEW d, NEW told, Digest(watched, d, told),
         d = today => Flags(watched, today) \subseteq told
  PROVE  WatchInv'
<1>1. WatchTyped /\ LooksPast /\ FeedPast /\ VerdictsShown /\ NoDisclosureMissed
  BY DEF WatchInv
<1>2. UNCHANGED <<today, feed, verdicts>> /\ considered \subseteq considered'
  BY DEF svars, Digest
<1>3. \A s \in Symbols : looks'[s] =
        IF s \in watched /\ d = today
        THEN [day |-> today, upto |-> Len(feed), steady |-> looks[s].steady /\ InTime(s)]
        ELSE looks[s]
  BY DEF Digest
<1>4. WatchTyped'
  <2>1. \A s \in Symbols : looks'[s] \in Look
    <3> SUFFICES ASSUME NEW s \in Symbols PROVE looks'[s] \in Look
      OBVIOUS
    <3>1. looks[s] \in Look /\ today \in Sessions /\ Len(feed) \in Nat
      BY <1>1 DEF WatchTyped
    <3> DEFINE ok == looks[s].steady /\ InTime(s)
    <3>2. ok \in BOOLEAN
      OBVIOUS
    <3>3. looks'[s] = [day |-> today, upto |-> Len(feed), steady |-> ok] \/ looks'[s] = looks[s]
      BY <1>3
    <3> HIDE DEF ok
    <3>4. [day |-> today, upto |-> Len(feed), steady |-> ok] \in Look
      BY <3>1, <3>2 DEF Look
    <3> QED BY <3>1, <3>3, <3>4
  <2>2. looks' \in [Symbols -> Look]
    BY <2>1 DEF Digest
  <2> QED BY <1>1, <1>2, <2>2 DEF WatchTyped
<1>5. LooksPast' /\ FeedPast'
  <2>1. \A i \in DOMAIN feed : ~(Len(feed) < i)
    BY <1>1 DEF WatchTyped
  <2>2. today <= today /\ Len(feed) <= Len(feed)
    BY <1>1 DEF WatchTyped, Sessions
  <2>3. ASSUME NEW s \in Symbols
        PROVE  /\ looks'[s].day <= today /\ looks'[s].upto <= Len(feed)
               /\ \A i \in DOMAIN feed : looks'[s].upto < i => looks'[s].day <= Item(i).day
    <3>1. CASE s \in watched /\ d = today
      <4>1. looks'[s].day = today /\ looks'[s].upto = Len(feed)
        <5> DEFINE ok == looks[s].steady /\ InTime(s)
        <5>1. looks'[s] = [day |-> today, upto |-> Len(feed), steady |-> ok]
          BY <1>3, <3>1
        <5> HIDE DEF ok
        <5> QED BY <5>1
      <4> QED BY <2>1, <2>2, <4>1
    <3>2. CASE ~(s \in watched /\ d = today)
      <4>1. looks'[s] = looks[s]
        BY <1>3, <3>2
      <4> QED BY <1>1, <4>1 DEF LooksPast
    <3> QED BY <3>1, <3>2
  <2> QED BY <1>1, <1>2, <2>3 DEF LooksPast, FeedPast, Item
<1>6. ASSUME NEW s \in Symbols, looks'[s].steady, NEW i \in OfKind("disclosure", s)',
             i <= looks'[s].upto, Item(i)'.risky
      PROVE  i \in considered'
  <2>1. i \in OfKind("disclosure", s) /\ Item(i).risky /\ i \in Nat
    BY <1>1, <1>2, <1>6 DEF OfKind, Item, WatchTyped
  <2>2. CASE s \in watched /\ d = today
    <3> DEFINE ok == looks[s].steady /\ InTime(s)
    <3>1. ok
      <4>1. looks'[s] = [day |-> today, upto |-> Len(feed), steady |-> ok]
        BY <1>3, <2>2
      <4> HIDE DEF ok
      <4> QED BY <1>6, <4>1
    <3>2. CASE i <= looks[s].upto
      BY <1>1, <1>2, <2>1, <3>1, <3>2 DEF NoDisclosureMissed
    <3>3. CASE ~(i <= looks[s].upto)
      <4>1. i \in Unseen(s)
        BY <1>1, <2>1, <3>3 DEF Unseen, WatchTyped, Look
      <4>2. i \in Flags(watched, today)
        BY <1>1, <2>1, <2>2, <3>1, <4>1, InTimeFlagsAll
      <4> QED BY <2>2, <4>2 DEF Digest
    <3> QED BY <3>2, <3>3
  <2>3. CASE ~(s \in watched /\ d = today)
    BY <1>1, <1>2, <1>3, <1>6, <2>1, <2>3 DEF NoDisclosureMissed
  <2> QED BY <2>2, <2>3
<1>7. NoDisclosureMissed'
  BY <1>6 DEF NoDisclosureMissed
<1> QED BY <1>1, <1>2, <1>4, <1>5, <1>7 DEF WatchInv, VerdictsShown

LEMMA PublishedWatch == ASSUME WatchInv, Published, UNCHANGED watchVars PROVE WatchInv'
<1>1. WatchTyped /\ LooksPast /\ FeedPast /\ VerdictsShown /\ NoDisclosureMissed
  BY DEF WatchInv
<1>2. UNCHANGED <<today, verdicts, considered, looks>>
  BY DEF Published, watchVars
<1>3. PICK h \in Headlines :
        feed' = Append(feed, [kind |-> h.kind, symbol |-> h.symbol, risky |-> h.risky, day |-> today])
  BY DEF Published
<1> DEFINE new == [kind |-> h.kind, symbol |-> h.symbol, risky |-> h.risky, day |-> today]
<1>4. new \in Headline /\ new.day = today
  <2>1. h \in [kind : {"news", "disclosure"}, symbol : Symbols, risky : BOOLEAN]
    BY SignalBounds
  <2> QED BY <1>1, <2>1 DEF WatchTyped, Headline
<1> HIDE DEF new
<1>5. /\ feed' \in Seq(Headline) /\ Len(feed) \in Nat /\ Len(feed') = Len(feed) + 1
      /\ DOMAIN feed = 1 .. Len(feed) /\ DOMAIN feed' = 1 .. Len(feed')
      /\ feed'[Len(feed')] = new
      /\ \A i \in DOMAIN feed : i \in DOMAIN feed' /\ feed'[i] = feed[i]
  BY <1>1, <1>3, <1>4 DEF WatchTyped, new
<1>6. \A i \in DOMAIN feed' : i \in Nat /\ (i \in DOMAIN feed \/ (i = Len(feed') /\ i > Len(feed)))
  BY <1>5
<1>7. today \in Nat /\ \A s \in Symbols : looks[s].day \in Nat /\ looks[s].upto \in Nat
  BY <1>1 DEF WatchTyped, Look, Sessions
<1>8. WatchTyped'
  BY <1>1, <1>2, <1>5 DEF WatchTyped, Sessions
<1>9. FeedPast'
  <2> SUFFICES ASSUME NEW i \in DOMAIN feed' PROVE feed'[i].day <= today
    BY <1>2 DEF FeedPast, Item
  <2>1. CASE i \in DOMAIN feed
    BY <1>1, <1>5, <2>1 DEF FeedPast, Item
  <2>2. CASE i = Len(feed')
    BY <1>4, <1>5, <1>7, <2>2
  <2> QED BY <1>6, <2>1, <2>2
<1>10. LooksPast'
  <2> SUFFICES ASSUME NEW s \in Symbols
               PROVE  /\ looks[s].day <= today /\ looks[s].upto <= Len(feed')
                      /\ \A i \in DOMAIN feed' : looks[s].upto < i => looks[s].day <= feed'[i].day
    BY <1>2 DEF LooksPast, Item
  <2>1. looks[s].day <= today /\ looks[s].upto <= Len(feed)
    BY <1>1 DEF LooksPast
  <2>2. ASSUME NEW i \in DOMAIN feed', looks[s].upto < i PROVE looks[s].day <= feed'[i].day
    <3>1. CASE i \in DOMAIN feed
      BY <1>1, <1>5, <2>2, <3>1 DEF LooksPast, Item
    <3>2. CASE i = Len(feed')
      BY <1>4, <1>5, <2>1, <3>2
    <3> QED BY <1>6, <3>1, <3>2
  <2> QED BY <1>5, <1>7, <2>1, <2>2
<1>11. NoDisclosureMissed'
  <2> SUFFICES ASSUME NEW s \in Symbols, looks[s].steady, NEW i \in OfKind("disclosure", s)',
                      i <= looks[s].upto, Item(i)'.risky
               PROVE  i \in considered
    BY <1>2 DEF NoDisclosureMissed
  <2>1. i \in DOMAIN feed'
    BY DEF OfKind
  <2>2. i \in DOMAIN feed
    <3>1. looks[s].upto <= Len(feed)
      BY <1>1 DEF LooksPast
    <3> QED BY <1>5, <1>6, <1>7, <2>1, <3>1
  <2>3. i \in OfKind("disclosure", s) /\ Item(i).risky
    BY <1>5, <2>2 DEF OfKind, Item
  <2> QED BY <1>1, <2>3 DEF NoDisclosureMissed
<1> QED BY <1>1, <1>2, <1>8, <1>9, <1>10, <1>11 DEF WatchInv, VerdictsShown

LEMMA NextWatch == WatchInv /\ [RNext]_rvars => WatchInv'
<1> SUFFICES ASSUME WatchInv, [RNext]_rvars PROVE WatchInv'
  OBVIOUS
<1>1. WatchTyped /\ LooksPast /\ FeedPast /\ VerdictsShown /\ NoDisclosureMissed
  BY DEF WatchInv
<1>2. ASSUME UNCHANGED <<feed, looks, considered>>, VerdictsShown', today' \in Sessions, today <= today'
      PROVE  WatchInv'
  <2>1. today \in Nat /\ today' \in Nat /\ \A s \in Symbols : looks[s].day \in Nat
    BY <1>1, <1>2 DEF WatchTyped, Look, Sessions
  <2>2. \A i \in DOMAIN feed : Item(i).day \in Nat
    BY <1>1, DatedFeed
  <2>3. WatchTyped'
    BY <1>1, <1>2 DEF WatchTyped, Sessions
  <2>4. LooksPast' /\ FeedPast'
    BY <1>1, <1>2, <2>1, <2>2 DEF LooksPast, FeedPast, Item
  <2>5. NoDisclosureMissed'
    BY <1>1, <1>2 DEF NoDisclosureMissed, OfKind, Item
  <2> QED BY <1>2, <2>3, <2>4, <2>5 DEF WatchInv
<1>3. today \in Sessions /\ today <= today
  BY <1>1 DEF WatchTyped, Sessions
<1>4. CASE UNCHANGED rvars
  BY <1>1, <1>2, <1>3, <1>4 DEF rvars, svars, watchVars, VerdictsShown
<1>5. CASE SNext /\ UNCHANGED watchVars
  <2>1. VerdictsShown'
    BY <1>1, <1>5 DEF watchVars, VerdictsShown
  <2>2. CASE NextSession
    <3>1. today' \in Sessions /\ today <= today'
      BY <1>3, <2>2, SignalBounds DEF NextSession, Sessions
    <3> QED BY <1>2, <1>5, <2>1, <2>2, <3>1 DEF NextSession, watchVars
  <2>3. CASE Published
    BY <1>5, <2>3, PublishedWatch
  <2>4. CASE Decide
    BY <1>2, <1>3, <1>5, <2>1, <2>4 DEF Decide, watchVars
  <2>5. CASE Recorded
    BY <1>2, <1>3, <1>5, <2>1, <2>5 DEF Recorded, Record, watchVars
  <2> QED BY <1>5, <2>2, <2>3, <2>4, <2>5 DEF SNext
<1>6. CASE Watch
  <2>1. PICK watched \in Watchable, d \in 1..today : Digest(watched, d, Flags(watched, d))
    BY <1>6 DEF Watch
  <2>2. watched \in SUBSET Symbols /\ (d = today => Flags(watched, today) \subseteq Flags(watched, d))
    BY DEF Watchable
  <2>3. UNCHANGED <<svars, verdicts>>
    BY <1>6 DEF Watch
  <2> QED BY <2>1, <2>2, <2>3, DigestKeeps
<1>7. CASE Judge
  <2>1. VerdictsShown'
    BY <1>7 DEF Judge, VerdictsShown
  <2> QED BY <1>2, <1>3, <1>7, <2>1 DEF Judge, svars
<1>8. CASE Review
  <2> DEFINE Told(w, d) == Refined(Flags(w, d)) \cup (verdicts.shown \cap verdicts.dismissed)
  <2>1. PICK watched \in Watchable, d \in 1..today : Digest(watched, d, Told(watched, d))
    BY <1>8 DEF Review
  <2>2. verdicts.dismissed \subseteq verdicts.shown
    BY <1>1, <1>8 DEF Review, VerdictsShown
  <2>3. watched \in SUBSET Symbols /\ (d = today => Flags(watched, today) \subseteq Told(watched, d))
    BY <2>2 DEF Watchable, Refined
  <2>4. UNCHANGED <<svars, verdicts>>
    BY <1>8 DEF Review
  <2> HIDE DEF Told
  <2> QED BY <2>1, <2>3, <2>4, DigestKeeps
<1> QED BY <1>4, <1>5, <1>6, <1>7, <1>8 DEF RNext

LEMMA WatchInductive == RSpec => []WatchInv
  BY InitWatch, NextWatch, PTL DEF RSpec

\* No material disclosure escapes a name that has its digests in time, whatever is published,
\* watched, looked back at and dismissed in between, for any window, page, names and number
\* of sessions (llm/risk_cli.py:32-49 and 105-160, llm/risk_review.py:85-142,
\* llm/dart_disclosures.py:64-71).
THEOREM NoDisclosureEverMissed == RSpec => []NoDisclosureMissed
<1>1. WatchInv => NoDisclosureMissed
  BY DEF WatchInv
<1> QED BY <1>1, WatchInductive, PTL
==================================================================================
