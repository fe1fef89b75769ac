----------------------------- MODULE LivePilotProofs -----------------------------
(***************************************************************************)
(* What the pilot's gates promise for any number of runs, days, sizes and  *)
(* authorizations: ambiguity halts the account, an engaged switch lets one *)
(* request pass, and the day's orders stay within what the operator once   *)
(* authorized.  The budget is a sum over runs: see FiniteSums for what a   *)
(* sum over a finite set is.                                               *)
(***************************************************************************)
EXTENDS LivePilot, FiniteSums

----------------------------------------------------------------------------------
(* The invariant *)

\* The largest daily limits among the authorizations G.
MostOrdersOf(G) == Max({0} \union {g.orders : g \in G})
MostNotionalOf(G) == Max({0} \union {g.notional : g \in G})

MostOrders == MostOrdersOf(granted)
MostNotional == MostNotionalOf(granted)

\* Orders of the day that no kill kept from being counted.
KeptOn(d) == AutonomousOn(d) \ SlippedOn(d)

\* A run that has sent is past its POST.
SentIsPast ==
  \A r \in Runs :
    Sent(r) => pc[r] \in {"sent", "record", "done", "ambiguous", "unrecorded", "killed"}

\* The budget ledger has the autonomous runs that ended well, and no other.
BudgetIsDone ==
  \A r \in Runs :
    /\ pc[r] = "record" => Autonomous(r)
    /\ r \in budget => pc[r] = "done" /\ Autonomous(r)
    /\ pc[r] = "done" /\ Autonomous(r) => r \in budget

AmbiguousHalts == \A r \in Runs : pc[r] = "ambiguous" => halted = Accounts

\* Runs that do not overlap follow each other.
OneAtATime ==
  ~overlapped => \A r, q \in Runs : Active(r) /\ Active(q) => r = q

\* The one request an engaged switch lets pass was the last one past the gate.
SwitchSpent ==
  /\ ~engaged => late = 0
  /\ ~overlapped => late <= 1
  /\ ~overlapped /\ late = 1 => \A r \in Runs : pc[r] # "client"

\* What is in force was granted.
LimitsGranted ==
  /\ IsFiniteSet(granted)
  /\ expires # 0 => limits \in granted

\* A run past Authorize still has room for its order.
ClearedHasRoom ==
  ~overlapped =>
    \A r \in Runs :
      Autonomous(r) /\ pc[r] \in {"submit", "client"} =>
        /\ Cardinality(CountedOn(runDay[r])) < MostOrders
        /\ NotionalOf(CountedOn(runDay[r])) + intent(r).size <= MostNotional

KeptWithin ==
  ~overlapped =>
    \A d \in Day :
      /\ Cardinality(KeptOn(d)) <= MostOrders
      /\ NotionalOf(KeptOn(d)) <= MostNotional

IInv ==
  /\ TypeOK
  /\ SentIsPast
  /\ BudgetIsDone
  /\ AmbiguousHalts
  /\ OneAtATime
  /\ SwitchSpent
  /\ LimitsGranted
  /\ ClearedHasRoom
  /\ KeptWithin

----------------------------------------------------------------------------------
(* It is kept *)

LEMMA TypeInit == Init => TypeOK
<1> SUFFICES ASSUME Init PROVE TypeOK
  OBVIOUS
<1> USE DaysAssumption, PositionsAssumption DEF Init
<1>1. day \in Day /\ expires \in 0 .. Days + 1 /\ events \in 0 .. MaxEvents /\ positions \in Nat
  BY DEF Day
<1>2. lossOver \in [Day -> BOOLEAN] /\ job \in [Runs -> Jobs] /\ runDay \in [Runs -> Day]
  BY DEF Day
<1>3. pc \in [Runs -> Ended \union
                {"start", "account", "session", "switch", "authorize", "submit",
                 "client", "sent", "record"}]
  OBVIOUS
<1>4. sent = {} /\ halted = {}
  BY DEF Contract!ContractInit
<1> QED BY <1>1, <1>2, <1>3, <1>4 DEF TypeOK

\* Clock, files, positions and requests keep their shape.
LEMMA TypeStep == TypeOK /\ [Next]_vars => TypeOK'
<1> SUFFICES ASSUME TypeOK, [Next]_vars PROVE TypeOK'
  OBVIOUS
<1> USE DaysAssumption, PositionsAssumption, JobsAssumption
    DEF TypeOK, Day, Ended, Goto, clockVars, operatorVars, brokerVars, runVars, contractVars,
        historyVars
<1>1. ASSUME NEW r \in Runs, ReadLoss(r) PROVE TypeOK'
  <2>1. overlapped' \in BOOLEAN
    BY <1>1, Zenon DEF ReadLoss
  <2> QED BY <1>1, <2>1 DEF ReadLoss
<1>2. ASSUME NEW r \in Runs, ReadAccount(r) PROVE TypeOK'
  BY <1>2 DEF ReadAccount
<1>3. ASSUME NEW r \in Runs, CheckSession(r) PROVE TypeOK'
  BY <1>3 DEF CheckSession
<1>4. ASSUME NEW r \in Runs, CheckSwitch(r) PROVE TypeOK'
  BY <1>4 DEF CheckSwitch
<1>5. ASSUME NEW r \in Runs, Authorize(r) PROVE TypeOK'
  BY <1>5 DEF Authorize
<1>6. ASSUME NEW r \in Runs, CheckSwitchAgain(r) \/ SubmitRefused(r) PROVE TypeOK'
  BY <1>6 DEF CheckSwitchAgain, SubmitRefused
<1>7. ASSUME NEW r \in Runs, Send(r) PROVE TypeOK'
  <2>1. PICK a \in Accounts :
          Contract!Send([sender |-> r, acct |-> a, intent |-> intent(r)])
    BY <1>7 DEF Send
  <2>2. intent(r) \in Intents
    BY DEF intent, Job
  <2>3. [sender |-> r, acct |-> a, intent |-> intent(r)] \in Contract!Request
    BY <2>2 DEF Contract!Request
  <2>4. sent' \subseteq Contract!Request /\ halted' = halted
    BY <2>1, <2>3 DEF Contract!Send
  <2>5. late' \in Nat
    BY <1>7 DEF Send
  <2> QED BY <1>7, <2>4, <2>5 DEF Send
<1>8. ASSUME NEW r \in Runs, Acknowledged(r) \/ Unrecorded(r) PROVE TypeOK'
  BY <1>8 DEF Acknowledged, Unrecorded
<1>9. ASSUME NEW r \in Runs, Ambiguous(r) PROVE TypeOK'
  BY <1>9 DEF Ambiguous, Contract!Halt
<1>10. ASSUME NEW r \in Runs, RecordOrder(r) PROVE TypeOK'
  BY <1>10 DEF RecordOrder
<1>11. ASSUME NEW r \in Runs, Killed(r) PROVE TypeOK'
  BY <1>11 DEF Killed
<1>12. CASE Bell
  <2>1. session' \in BOOLEAN
    BY <1>12, Zenon DEF Bell
  <2>2. day' \in Day
    BY <1>12 DEF Bell
  <2> QED BY <1>12, <2>1, <2>2 DEF Bell
<1>13. CASE FlipSwitch \/ RemoveAuthorization
  <2>1. engaged' \in BOOLEAN
    BY <1>13, Zenon DEF FlipSwitch, RemoveAuthorization
  <2>2. events' \in 0 .. MaxEvents
    BY <1>13 DEF FlipSwitch, RemoveAuthorization, Operate
  <2> QED BY <1>13, <2>1, <2>2 DEF FlipSwitch, RemoveAuthorization
<1>14. CASE WriteAuthorization
  <2>1. limits' \in Limits /\ granted' \subseteq Limits /\ expires' \in 0 .. Days + 1
        /\ events' \in 0 .. MaxEvents
    BY <1>14 DEF WriteAuthorization, Operate
  <2> QED BY <1>14, <2>1 DEF WriteAuthorization
<1>15. CASE BookTrade
  <2>1. PICK d \in 1 .. day : lossOver' = [lossOver EXCEPT ![d] = ~lossOver[d]]
    BY <1>15 DEF BookTrade
  <2>2. lossOver' \in [Day -> BOOLEAN] /\ events' \in 0 .. MaxEvents
    BY <1>15, <2>1 DEF BookTrade, Operate
  <2> QED BY <1>15, <2>2 DEF BookTrade
<1>16. ASSUME NEW r \in Runs, Accept(r) PROVE TypeOK'
  BY <1>16 DEF Accept
<1>17. ASSUME NEW r \in Runs, FillOrder(r) PROVE TypeOK'
  BY <1>17 DEF FillOrder
<1>18. CASE UNCHANGED vars
  BY <1>18 DEF vars
<1> QED
  BY <1>1, <1>2, <1>3, <1>4, <1>5, <1>6, <1>7, <1>8, <1>9, <1>10, <1>11, <1>12, <1>13, <1>14,
     <1>15, <1>16, <1>17, <1>18
  DEF Next, Environment, Run

\* The largest limits of finitely many authorizations are limits of theirs, or 0.
LEMMA MostIsLimit ==
  ASSUME NEW G \in SUBSET Limits, IsFiniteSet(G)
  PROVE  /\ MostOrdersOf(G) \in {0} \union {g.orders : g \in G}
         /\ MostNotionalOf(G) \in {0} \union {g.notional : g \in G}
         /\ MostOrdersOf(G) \in Nat /\ \A g \in G : g.orders <= MostOrdersOf(G)
         /\ MostNotionalOf(G) \in Nat /\ \A g \in G : g.notional <= MostNotionalOf(G)
<1> DEFINE O == {0} \union {g.orders : g \in G}
           N == {0} \union {g.notional : g \in G}
<1>1. IsFiniteSet({g.orders : g \in G}) /\ IsFiniteSet({g.notional : g \in G})
  <2> DEFINE f == [g \in G |-> g.orders]
             h == [g \in G |-> g.notional]
  <2>1. f \in Surjection(G, {g.orders : g \in G}) /\ h \in Surjection(G, {g.notional : g \in G})
    BY DEF Surjection
  <2> QED BY <2>1, FS_Surjection
<1>2. IsFiniteSet(O) /\ IsFiniteSet(N)
  BY <1>1, FS_Union, FS_Singleton
<1>3. O \in SUBSET Nat /\ N \in SUBSET Nat /\ O # {} /\ N # {}
  BY LimitsAssumption
<1>4. (\A g \in G : g.orders \in O) /\ (\A g \in G : g.notional \in N)
  OBVIOUS
<1>5. MostOrdersOf(G) = Max(O) /\ MostNotionalOf(G) = Max(N)
  BY DEF MostOrdersOf, MostNotionalOf
<1> HIDE DEF O, N
<1>6. Max(O) \in O /\ \A y \in O : Max(O) >= y
  BY <1>2, <1>3, MaxOfFinite
<1>7. Max(N) \in N /\ \A y \in N : Max(N) >= y
  BY <1>2, <1>3, MaxOfFinite
<1>8. MostOrdersOf(G) \in O /\ MostNotionalOf(G) \in N
  BY <1>5, <1>6, <1>7
<1> QED BY <1>3, <1>4, <1>5, <1>6, <1>7, <1>8 DEF O, N

\* More authorizations only raise them.
LEMMA MostGrows ==
  ASSUME NEW H \in SUBSET Limits, IsFiniteSet(H), NEW G \in SUBSET H
  PROVE  MostOrdersOf(G) <= MostOrdersOf(H) /\ MostNotionalOf(G) <= MostNotionalOf(H)
<1>1. IsFiniteSet(G) /\ G \in SUBSET Limits
  BY FS_Subset
<1>2. /\ MostOrdersOf(G) \in {0} \union {g.orders : g \in G}
      /\ MostNotionalOf(G) \in {0} \union {g.notional : g \in G}
  BY <1>1, MostIsLimit
<1>3. MostOrdersOf(H) \in Nat /\ (\A g \in H : g.orders <= MostOrdersOf(H))
      /\ MostNotionalOf(H) \in Nat /\ (\A g \in H : g.notional <= MostNotionalOf(H))
  BY MostIsLimit
<1> QED BY <1>2, <1>3

\* The notional of runs is their sum, also in the next state.
LEMMA NotionalIsTotal ==
  ASSUME NEW R
  PROVE  NotionalOf(R) = Total(notional, R)
  BY Zenon DEF NotionalOf, Total

LEMMA SizesAreNat ==
  ASSUME TypeOK
  PROVE  \A r \in Runs : notional[r] \in Nat /\ notional[r] = intent(r).size
<1> SUFFICES ASSUME NEW r \in Runs PROVE notional[r] \in Nat /\ notional[r] = intent(r).size
  OBVIOUS
<1>1. job[r] \in Job
  BY JobsAssumption DEF TypeOK
<1>2. intent(r).size \in Sizes
  BY <1>1 DEF intent, Job, Intents
<1>3. notional[r] = intent(r).size
  BY DEF notional
<1> QED BY <1>2, <1>3, SizesAssumption

\* Sizes are naturals, so that fewer runs have less notional.
LEMMA FewerRuns ==
  ASSUME TypeOK, NEW R \in SUBSET Runs, NEW Q \in SUBSET R
  PROVE  /\ Cardinality(Q) \in Nat /\ Cardinality(R) \in Nat /\ Cardinality(Q) <= Cardinality(R)
         /\ NotionalOf(Q) \in Nat /\ NotionalOf(R) \in Nat /\ NotionalOf(Q) <= NotionalOf(R)
<1>1. IsFiniteSet(R) /\ IsFiniteSet(Q)
  BY SizesAssumption, FS_Subset
<1>2. \A r \in R : notional[r] \in Nat
  BY SizesAreNat
<1>3. Cardinality(Q) \in Nat /\ Cardinality(R) \in Nat /\ Cardinality(Q) <= Cardinality(R)
  BY <1>1, FS_CardinalityType, FS_Subset
<1>4. Total(notional, Q) \in Nat /\ Total(notional, Q) <= Total(notional, R)
  BY <1>1, <1>2, TotalSubset
<1>5. Total(notional, R) \in Nat
  BY <1>1, <1>2, TotalNat
<1> QED BY <1>3, <1>4, <1>5, NotionalIsTotal

\* One run more adds its order.
LEMMA OneRunMore ==
  ASSUME TypeOK, NEW R \in SUBSET Runs, NEW r \in Runs \ R
  PROVE  /\ Cardinality(R \union {r}) = Cardinality(R) + 1
         /\ NotionalOf(R \union {r}) = intent(r).size + NotionalOf(R)
         /\ intent(r).size \in Nat
<1>1. IsFiniteSet(R)
  BY SizesAssumption, FS_Subset
<1>2. (\A q \in R \union {r} : notional[q] \in Int) /\ notional[r] \in Nat
      /\ notional[r] = intent(r).size
  BY SizesAreNat
<1>3. Total(notional, R \union {r}) = notional[r] + Total(notional, R)
  BY <1>1, <1>2, TotalAdd
<1> QED BY <1>1, <1>2, <1>3, NotionalIsTotal, FS_AddElement

LEMMA InitIInv == Init => IInv
<1> SUFFICES ASSUME Init PROVE IInv
  OBVIOUS
<1>1. TypeOK
  BY TypeInit
<1>2. sent = {} /\ halted = {} /\ pc = [r \in Runs |-> "start"] /\ budget = {} /\ granted = {}
      /\ expires = 0 /\ late = 0 /\ ~engaged
  BY DEF Init, Contract!ContractInit
<1>3. \A r \in Runs : pc[r] = "start" /\ ~Sent(r) /\ ~Active(r)
  BY <1>2 DEF Sent, Active
<1>4. IsFiniteSet(granted)
  BY <1>2, FS_EmptySet
<1>5. KeptWithin
  <2>1. MostOrders \in Nat /\ MostNotional \in Nat
    BY <1>1, <1>4, MostIsLimit DEF TypeOK, MostOrders, MostNotional
  <2>2. \A d \in Day : KeptOn(d) = {}
    BY <1>3 DEF KeptOn, AutonomousOn
  <2>3. Cardinality({}) = 0
    BY FS_EmptySet
  <2>4. NotionalOf({}) = 0
    BY FS_EmptySet, TotalDef, NotionalIsTotal
  <2> QED BY <2>1, <2>2, <2>3, <2>4 DEF KeptWithin
<1>6. SentIsPast /\ BudgetIsDone /\ AmbiguousHalts /\ OneAtATime /\ ClearedHasRoom
  BY <1>2, <1>3 DEF SentIsPast, BudgetIsDone, AmbiguousHalts, OneAtATime, ClearedHasRoom
<1>7. SwitchSpent /\ LimitsGranted
  BY <1>2, <1>4 DEF SwitchSpent, LimitsGranted
<1> QED BY <1>1, <1>5, <1>6, <1>7 DEF IInv

\* The clock, the operator and the broker leave runs, requests and budget alone.
LEMMA EnvironmentQuiet ==
  ASSUME Environment, LimitsGranted
  PROVE  /\ UNCHANGED <<job, pc, runDay, budget, sent, halted, overlapped>>
         /\ granted \subseteq granted' /\ LimitsGranted'
         /\ late' = 0 \/ UNCHANGED <<engaged, late>>
<1> USE DEF clockVars, operatorVars, brokerVars, runVars, contractVars, historyVars
<1>1. CASE Bell
  BY <1>1 DEF Bell, LimitsGranted
<1>2. CASE FlipSwitch
  BY <1>2 DEF FlipSwitch, LimitsGranted
<1>3. CASE WriteAuthorization
  <2>1. granted' = granted \union {limits'}
    BY <1>3 DEF WriteAuthorization
  <2>2. IsFiniteSet(granted')
    BY <2>1, FS_AddElement DEF LimitsGranted
  <2> QED BY <1>3, <2>1, <2>2 DEF WriteAuthorization, LimitsGranted
<1>4. CASE RemoveAuthorization
  BY <1>4 DEF RemoveAuthorization, LimitsGranted
<1>5. CASE BookTrade
  BY <1>5 DEF BookTrade, LimitsGranted
<1>6. ASSUME NEW r \in Runs, Accept(r) \/ FillOrder(r)
      PROVE  UNCHANGED <<job, pc, runDay, budget, sent, halted, overlapped, granted, expires,
                         limits, engaged, late>>
  BY <1>6 DEF Accept, FillOrder
<1> QED BY <1>1, <1>2, <1>3, <1>4, <1>5, <1>6 DEF Environment, LimitsGranted

\* A step of a run is its own, and leaves the operator's files alone.
LEMMA RunShape ==
  ASSUME TypeOK, NEW r \in Runs, Run(r)
  PROVE  /\ UNCHANGED <<job, engaged, expires, limits, granted>>
         /\ \A q \in Runs \ {r} : pc'[q] = pc[q] /\ runDay'[q] = runDay[q]
         /\ overlapped => overlapped'
<1> USE DEF TypeOK, Goto, operatorVars, historyVars, contractVars
<1>1. ASSUME ReadLoss(r) PROVE overlapped => overlapped'
  BY <1>1, Zenon DEF ReadLoss
<1>2. CASE ReadLoss(r)
  BY <1>1, <1>2 DEF ReadLoss
<1>3. CASE CheckSession(r)
  BY <1>3 DEF CheckSession
<1>4. CASE ReadAccount(r) \/ CheckSwitch(r) \/ Authorize(r) \/ CheckSwitchAgain(r)
  BY <1>4 DEF ReadAccount, CheckSwitch, Authorize, CheckSwitchAgain
<1>5. CASE SubmitRefused(r) \/ Acknowledged(r) \/ Unrecorded(r) \/ RecordOrder(r) \/ Killed(r)
  BY <1>5 DEF SubmitRefused, Acknowledged, Unrecorded, RecordOrder, Killed
<1>6. CASE Send(r) \/ Ambiguous(r)
  BY <1>6 DEF Send, Ambiguous
<1> QED BY <1>2, <1>3, <1>4, <1>5, <1>6 DEF Run

\* The switch: a request behind it is the last one past the gate.
LEMMA SwitchStep ==
  ASSUME TypeOK, TypeOK', OneAtATime, SwitchSpent, NEW r \in Runs, Run(r)
  PROVE  SwitchSpent'
<1> USE DEF TypeOK, Goto, clockVars, operatorVars, brokerVars, contractVars, historyVars
<1>0. /\ UNCHANGED engaged
      /\ \A q \in Runs \ {r} : pc'[q] = pc[q]
      /\ ~overlapped' => ~overlapped
  <2>1. UNCHANGED engaged /\ (\A q \in Runs \ {r} : pc'[q] = pc[q]) /\ (overlapped => overlapped')
    BY RunShape
  <2> QED BY <2>1, Zenon
<1>1. ASSUME UNCHANGED late, pc'[r] = "client" => ~engaged
      PROVE  SwitchSpent'
  <2>1. (~engaged => late = 0) /\ (~overlapped => late <= 1)
        /\ (~overlapped /\ late = 1 => \A q \in Runs : pc[q] # "client")
    BY DEF SwitchSpent
  <2>2. ~engaged' => late' = 0
    BY <1>0, <1>1, <2>1, Zenon
  <2>3. ~overlapped' => late' <= 1
    BY <1>0, <1>1, <2>1, Zenon
  <2>4. ASSUME ~overlapped', late' = 1, NEW q \in Runs, pc'[q] = "client"
        PROVE  FALSE
    <3>1. ~overlapped
      BY <1>0, <2>4, Zenon
    <3>2. late = 1
      BY <1>1, <2>4
    <3>3. pc[q] # "client"
      BY <2>1, <3>1, <3>2
    <3>4. q = r
      BY <1>0, <2>4, <3>3
    <3>5. late = 0
      BY <1>1, <2>1, <2>4, <3>4
    <3> QED BY <3>2, <3>5
  <2> QED BY <2>2, <2>3, <2>4 DEF SwitchSpent
<1>2. CASE Send(r)
  <2>1. /\ pc[r] = "client" /\ pc'[r] = "sent"
        /\ late' = IF engaged THEN late + 1 ELSE 0
    BY <1>2 DEF Send
  <2>2. ASSUME ~overlapped' PROVE late' <= 1 /\ \A q \in Runs : pc'[q] # "client"
    <3>1. ~overlapped
      BY <1>0, <2>2, Zenon
    <3>2. \A q \in Runs \ {r} : pc[q] # "client"
      BY <2>1, <3>1 DEF OneAtATime, Active, Ended
    <3>3. late = 0
      BY <2>1, <3>1 DEF SwitchSpent
    <3>4. late' <= 1
      BY <2>1, <3>3
    <3> QED BY <1>0, <2>1, <3>2, <3>4
  <2>3. ~engaged' => late' = 0
    <3>1. ~engaged => late' = 0
      BY <2>1
    <3> QED BY <1>0, <3>1, Zenon
  <2> QED BY <2>2, <2>3 DEF SwitchSpent
<1>3. CASE CheckSwitchAgain(r)
  <2>1. UNCHANGED late /\ (pc'[r] = "client" => ~engaged)
    BY <1>3 DEF CheckSwitchAgain, SwitchClear
  <2> QED BY <1>1, <2>1
<1>4. CASE ReadLoss(r) \/ ReadAccount(r) \/ CheckSession(r) \/ CheckSwitch(r) \/ Authorize(r)
  <2>1. UNCHANGED late /\ pc'[r] # "client"
    BY <1>4 DEF ReadLoss, ReadAccount, CheckSession, CheckSwitch, Authorize
  <2> QED BY <1>1, <2>1
<1>5. CASE SubmitRefused(r) \/ Acknowledged(r) \/ Ambiguous(r) \/ Unrecorded(r)
           \/ RecordOrder(r) \/ Killed(r)
  <2>1. UNCHANGED late /\ pc'[r] # "client"
    BY <1>5 DEF SubmitRefused, Acknowledged, Ambiguous, Unrecorded, RecordOrder, Killed
  <2> QED BY <1>1, <2>1
<1> QED BY <1>2, <1>3, <1>4, <1>5 DEF Run

\* Runs that do not overlap stay one at a time.
LEMMA OneAtATimeStep ==
  ASSUME TypeOK, TypeOK', OneAtATime, NEW r \in Runs, Run(r)
  PROVE  OneAtATime'
<1> USE DEF TypeOK, Goto, Ended
<1>0. (\A q \in Runs \ {r} : pc'[q] = pc[q]) /\ (~overlapped' => ~overlapped)
  <2>1. (\A q \in Runs \ {r} : pc'[q] = pc[q]) /\ (overlapped => overlapped')
    BY RunShape
  <2> QED BY <2>1, Zenon
<1>1. ASSUME ~overlapped' PROVE \A p, q \in Runs : Active(p)' /\ Active(q)' => p = q
  <2>1. ~overlapped
    BY <1>0, <1>1, Zenon
  <2>2. \A p, q \in Runs : Active(p) /\ Active(q) => p = q
    BY <2>1 DEF OneAtATime
  <2>3. \A q \in Runs \ {r} : Active(q)' => Active(q)
    BY <1>0 DEF Active
  <2>4. CASE ReadLoss(r)
    <3>1. \A q \in Runs : ~Active(q)
      BY <1>1, <2>4, Zenon DEF ReadLoss
    <3> QED BY <2>3, <3>1
  <2>5. CASE ~ReadLoss(r)
    <3>1. Active(r)
      BY <2>5
      DEF Run, ReadAccount, CheckSession, CheckSwitch, Authorize, CheckSwitchAgain, SubmitRefused,
          Send, Acknowledged, Ambiguous, Unrecorded, RecordOrder, Killed, Active
    <3> QED BY <2>2, <2>3, <3>1
  <2> QED BY <2>4, <2>5
<1> QED BY <1>1 DEF OneAtATime

\* Positions, requests and the ledger stay in step.
LEMMA PositionsStep ==
  ASSUME TypeOK, TypeOK', SentIsPast, BudgetIsDone, AmbiguousHalts, NEW r \in Runs, Run(r)
  PROVE  SentIsPast' /\ BudgetIsDone' /\ AmbiguousHalts'
<1> USE DEF TypeOK, Goto, Ended, clockVars, operatorVars, brokerVars, contractVars, historyVars
<1>0. UNCHANGED job /\ \A q \in Runs \ {r} : pc'[q] = pc[q]
  BY RunShape
<1>1. \A q \in Runs : Autonomous(q)' <=> Autonomous(q)
  BY <1>0 DEF Autonomous
<1> DEFINE Quiet == UNCHANGED <<budget, sent, halted>>
           Parts == {"start", "account", "session", "switch", "authorize", "submit", "client"}
\* Before its POST a run has no request and no line in the ledger.
<1>2. ASSUME Quiet, pc[r] \in Parts, pc'[r] \in (Parts \ {"start"}) \union {"refused"}
      PROVE  SentIsPast' /\ BudgetIsDone' /\ AmbiguousHalts'
  BY <1>0, <1>1, <1>2 DEF SentIsPast, BudgetIsDone, AmbiguousHalts, Sent
<1>3. CASE ReadLoss(r) \/ ReadAccount(r) \/ CheckSession(r) \/ CheckSwitch(r) \/ Authorize(r)
           \/ CheckSwitchAgain(r) \/ SubmitRefused(r)
  <2>1. Quiet /\ pc[r] \in Parts /\ pc'[r] \in (Parts \ {"start"}) \union {"refused"}
    BY <1>3
    DEF ReadLoss, ReadAccount, CheckSession, CheckSwitch, Authorize, CheckSwitchAgain,
        SubmitRefused
  <2> QED BY <1>2, <2>1
<1>4. CASE Send(r)
  <2>1. pc[r] = "client" /\ pc'[r] = "sent" /\ UNCHANGED budget
    BY <1>4 DEF Send
  <2>2. UNCHANGED halted /\ \A q \in Runs \ {r} : Sent(q)' => Sent(q)
    BY <1>4 DEF Send, Contract!Send, Sent
  <2> QED BY <1>0, <1>1, <2>1, <2>2 DEF SentIsPast, BudgetIsDone, AmbiguousHalts
<1>5. CASE Acknowledged(r)
  <2>1. Quiet /\ pc[r] = "sent" /\ pc'[r] = IF Autonomous(r) THEN "record" ELSE "done"
    BY <1>5 DEF Acknowledged
  <2> QED BY <1>0, <1>1, <2>1 DEF SentIsPast, BudgetIsDone, AmbiguousHalts, Sent
<1>6. CASE Ambiguous(r)
  <2>1. pc[r] = "sent" /\ pc'[r] = "ambiguous" /\ UNCHANGED budget
    BY <1>6 DEF Ambiguous
  <2>2. UNCHANGED sent /\ halted' = Accounts
    BY <1>6, AccountAssumption DEF Ambiguous, Contract!Halt
  <2> QED BY <1>0, <1>1, <2>1, <2>2 DEF SentIsPast, BudgetIsDone, AmbiguousHalts, Sent
<1>7. CASE Unrecorded(r) \/ Killed(r)
  <2>1. Quiet /\ Active(r) /\ pc'[r] \in {"unrecorded", "killed"}
    BY <1>7 DEF Unrecorded, Killed, Active
  <2> QED BY <1>0, <1>1, <2>1 DEF SentIsPast, BudgetIsDone, AmbiguousHalts, Sent, Active
<1>8. CASE RecordOrder(r)
  <2>1. /\ pc[r] = "record" /\ pc'[r] = "done" /\ budget' = budget \union {r}
        /\ UNCHANGED <<sent, halted>>
    BY <1>8 DEF RecordOrder
  <2> QED BY <1>0, <1>1, <2>1 DEF SentIsPast, BudgetIsDone, AmbiguousHalts, Sent
<1> QED BY <1>3, <1>4, <1>5, <1>6, <1>7, <1>8 DEF Run

\* Kept orders, said directly.
LEMMA KeptSays ==
  \A d : KeptOn(d) = {r \in Runs : /\ Autonomous(r) /\ Sent(r) /\ runDay[r] = d
                                   /\ pc[r] \notin {"unrecorded", "killed"}}
  BY DEF KeptOn, AutonomousOn, SlippedOn

LEMMA MostStep ==
  ASSUME TypeOK, TypeOK', LimitsGranted', granted \subseteq granted'
  PROVE  /\ MostOrders \in Nat /\ MostOrders' \in Nat /\ MostOrders <= MostOrders'
         /\ MostNotional \in Nat /\ MostNotional' \in Nat /\ MostNotional <= MostNotional'
<1>1. granted' \in SUBSET Limits /\ granted \in SUBSET Limits /\ IsFiniteSet(granted')
  BY DEF TypeOK, LimitsGranted
<1>2. IsFiniteSet(granted)
  BY <1>1, FS_Subset
<1>3. /\ MostOrdersOf(granted) \in Nat /\ MostOrdersOf(granted') \in Nat
      /\ MostNotionalOf(granted) \in Nat /\ MostNotionalOf(granted') \in Nat
  BY <1>1, <1>2, MostIsLimit
<1>4. MostOrdersOf(granted) <= MostOrdersOf(granted')
      /\ MostNotionalOf(granted) <= MostNotionalOf(granted')
  BY <1>1, MostGrows
<1> QED BY <1>3, <1>4 DEF MostOrders, MostNotional

\* The notional of the kept and of the counted runs is a sum, in every state.
SumsSay ==
  \A d : /\ NotionalOf(KeptOn(d)) = Total(notional, KeptOn(d))
         /\ NotionalOf(CountedOn(d)) = Total(notional, CountedOn(d))

LEMMA SumsSayIt == SumsSay
  BY NotionalIsTotal DEF SumsSay

LEMMA SumsLater ==
  /\ \A d : NotionalOf(KeptOn(d))' = Total(notional', KeptOn(d)')
  /\ \A r : NotionalOf(CountedOn(runDay[r]))' = Total(notional', CountedOn(runDay[r])')
<1>1. SumsSay'
  BY SumsSayIt, PTL
<1>2. \A d : /\ NotionalOf(KeptOn(d))' = Total(notional', KeptOn(d)')
             /\ NotionalOf(CountedOn(d))' = Total(notional', CountedOn(d)')
  BY <1>1 DEF SumsSay
<1> QED BY <1>2

\* Sizes do not change: a later sum over fewer runs is no larger.
LEMMA FewerRunsLater ==
  ASSUME TypeOK, UNCHANGED job, NEW R \in SUBSET Runs, NEW Q \in SUBSET R
  PROVE  /\ Cardinality(Q) <= Cardinality(R) /\ Cardinality(Q) \in Nat /\ Cardinality(R) \in Nat
         /\ Total(notional', Q) <= NotionalOf(R)
         /\ Total(notional', Q) \in Nat /\ NotionalOf(R) \in Nat
<1>1. notional' = notional
  BY DEF notional, intent
<1>2. Total(notional', Q) = NotionalOf(Q)
  BY <1>1, NotionalIsTotal
<1>3. /\ Cardinality(Q) \in Nat /\ Cardinality(R) \in Nat /\ Cardinality(Q) <= Cardinality(R)
      /\ NotionalOf(Q) \in Nat /\ NotionalOf(R) \in Nat /\ NotionalOf(Q) <= NotionalOf(R)
  BY FewerRuns
<1> QED BY <1>2, <1>3

\* Fewer kept orders are within what more were.
LEMMA FewerKept ==
  ASSUME TypeOK, TypeOK', LimitsGranted', KeptWithin, UNCHANGED job, granted \subseteq granted',
         ~overlapped' => ~overlapped, \A d \in Day : KeptOn(d)' \subseteq KeptOn(d)
  PROVE  KeptWithin'
<1> SUFFICES ASSUME ~overlapped', NEW d \in Day
             PROVE  Cardinality(KeptOn(d))' <= MostOrders' /\ NotionalOf(KeptOn(d))' <= MostNotional'
  BY DEF KeptWithin
<1>1. ~overlapped
  BY Zenon
<1>2. Cardinality(KeptOn(d)) <= MostOrders /\ NotionalOf(KeptOn(d)) <= MostNotional
  BY <1>1 DEF KeptWithin
<1>3. KeptOn(d) \in SUBSET Runs /\ KeptOn(d)' \in SUBSET KeptOn(d)
  BY KeptSays
<1>4. NotionalOf(KeptOn(d))' = Total(notional', KeptOn(d)')
  BY SumsLater
<1>5. /\ Cardinality(KeptOn(d)') <= Cardinality(KeptOn(d))
      /\ Cardinality(KeptOn(d)') \in Nat /\ Cardinality(KeptOn(d)) \in Nat
      /\ NotionalOf(KeptOn(d))' <= NotionalOf(KeptOn(d))
      /\ NotionalOf(KeptOn(d))' \in Nat /\ NotionalOf(KeptOn(d)) \in Nat
  BY <1>3, <1>4, FewerRunsLater
<1>6. /\ MostOrders \in Nat /\ MostOrders' \in Nat /\ MostOrders <= MostOrders'
      /\ MostNotional \in Nat /\ MostNotional' \in Nat /\ MostNotional <= MostNotional'
  BY MostStep
<1> HIDE DEF KeptWithin
<1> QED BY <1>2, <1>5, <1>6

\* A run that stays cleared keeps its room, while the ledger of its day does not grow.
LEMMA RoomKept ==
  ASSUME TypeOK, TypeOK', LimitsGranted', ClearedHasRoom, UNCHANGED job,
         granted \subseteq granted', ~overlapped' => ~overlapped,
         NEW r \in Runs, Autonomous(r), pc[r] \in {"submit", "client"}, ~overlapped',
         CountedOn(runDay[r])' \subseteq CountedOn(runDay[r])
  PROVE  /\ Cardinality(CountedOn(runDay[r]))' < MostOrders'
         /\ NotionalOf(CountedOn(runDay[r]))' + intent(r)'.size <= MostNotional'
<1> DEFINE C == CountedOn(runDay[r])
<1>1. ~overlapped
  BY Zenon
<1>2. Cardinality(C) < MostOrders /\ NotionalOf(C) + intent(r).size <= MostNotional
  BY <1>1 DEF ClearedHasRoom
<1>3. C \in SUBSET Runs /\ C' \in SUBSET C
  BY DEF CountedOn, TypeOK
<1>4. NotionalOf(C)' = Total(notional', C')
  BY SumsLater
<1>5. /\ Cardinality(C') <= Cardinality(C)
      /\ Cardinality(C') \in Nat /\ Cardinality(C) \in Nat
      /\ NotionalOf(C)' <= NotionalOf(C)
      /\ NotionalOf(C)' \in Nat /\ NotionalOf(C) \in Nat
  <2> HIDE DEF C
  <2> QED BY <1>3, <1>4, FewerRunsLater
<1>6. /\ MostOrders \in Nat /\ MostOrders' \in Nat /\ MostOrders <= MostOrders'
      /\ MostNotional \in Nat /\ MostNotional' \in Nat /\ MostNotional <= MostNotional'
  BY MostStep
<1>7. intent(r)' = intent(r) /\ intent(r).size \in Nat
  BY SizesAreNat DEF intent
<1> HIDE DEF C
<1>8. Cardinality(C)' < MostOrders' /\ NotionalOf(C)' + intent(r)'.size <= MostNotional'
  BY <1>2, <1>5, <1>6, <1>7
<1> QED BY <1>8 DEF C

\* The orders that count: those of runs that kept their place in the ledger.
Budget == ClearedHasRoom /\ KeptWithin

\* A step that sends nothing, records nothing and lets no run past Authorize.
LEMMA BudgetIdle ==
  ASSUME TypeOK, TypeOK', LimitsGranted', Budget, UNCHANGED <<job, sent, budget>>,
         granted \subseteq granted', ~overlapped' => ~overlapped,
         \A q \in Runs : runDay'[q] = runDay[q] \/ (q \notin budget /\ ~Sent(q)
                                                     /\ pc'[q] \notin {"submit", "client"}),
         \A q \in Runs : pc'[q] \in {"submit", "client"} /\ Autonomous(q)
                           => pc[q] \in {"submit", "client"},
         \A q \in Runs : Sent(q) /\ pc[q] \in {"unrecorded", "killed"}
                           => pc'[q] \in {"unrecorded", "killed"}
  PROVE  Budget'
<1>1. \A q \in Runs : (Sent(q)' <=> Sent(q)) /\ (Autonomous(q)' <=> Autonomous(q))
  BY DEF Sent, Autonomous
<1>2. \A d \in Day : KeptOn(d)' \subseteq KeptOn(d)
  <2> SUFFICES ASSUME NEW d \in Day, NEW q \in KeptOn(d)' PROVE q \in KeptOn(d)
    OBVIOUS
  <2>1. /\ q \in Runs /\ Autonomous(q)' /\ Sent(q)' /\ runDay'[q] = d
        /\ pc'[q] \notin {"unrecorded", "killed"}
    BY DEF KeptOn, AutonomousOn, SlippedOn
  <2>2. Autonomous(q) /\ Sent(q) /\ pc[q] \notin {"unrecorded", "killed"} /\ runDay[q] = d
    BY <1>1, <2>1
  <2> QED BY <2>1, <2>2, KeptSays
<1>3. KeptWithin'
  <2>1. KeptWithin
    BY DEF Budget
  <2> QED BY <1>2, <2>1, FewerKept
<1>4. ASSUME ~overlapped', NEW r \in Runs, Autonomous(r)', pc'[r] \in {"submit", "client"}
      PROVE  /\ Cardinality(CountedOn(runDay[r]))' < MostOrders'
             /\ NotionalOf(CountedOn(runDay[r]))' + intent(r)'.size <= MostNotional'
  <2>1. Autonomous(r) /\ pc[r] \in {"submit", "client"} /\ runDay'[r] = runDay[r]
    BY <1>1, <1>4
  <2>2. CountedOn(runDay[r])' \subseteq CountedOn(runDay[r])
    BY <2>1 DEF CountedOn, TypeOK
  <2>3. ClearedHasRoom
    BY DEF Budget
  <2> QED BY <1>4, <2>1, <2>2, <2>3, RoomKept
<1>5. ClearedHasRoom'
  BY <1>4 DEF ClearedHasRoom
<1> QED BY <1>3, <1>5, Zenon DEF Budget

\* A run that passes Authorize has room for its order in the limits in force.
LEMMA AuthorizeStep ==
  ASSUME TypeOK, TypeOK', LimitsGranted, LimitsGranted', Budget, NEW r \in Runs, Authorize(r),
         pc'[r] = "submit"
  PROVE  Budget'
<1> USE DEF Goto, clockVars, operatorVars, brokerVars, contractVars, historyVars
<1>1. /\ UNCHANGED <<job, sent, budget, granted, limits, runDay, overlapped>>
      /\ \A q \in Runs \ {r} : pc'[q] = pc[q]
      /\ pc[r] = "authorize" /\ runDay[r] < expires /\ WithinLimits(r)
  BY DEF Authorize, TypeOK
<1>2. \A q \in Runs : (Sent(q)' <=> Sent(q)) /\ (Autonomous(q)' <=> Autonomous(q))
  BY <1>1 DEF Sent, Autonomous
<1>3. KeptWithin'
  <2>1. \A d \in Day : KeptOn(d)' \subseteq KeptOn(d)
    <3> SUFFICES ASSUME NEW d \in Day, NEW q \in KeptOn(d)' PROVE q \in KeptOn(d)
      OBVIOUS
    <3>1. /\ q \in Runs /\ Autonomous(q)' /\ Sent(q)' /\ runDay'[q] = d
          /\ pc'[q] \notin {"unrecorded", "killed"}
      BY DEF KeptOn, AutonomousOn, SlippedOn
    <3> QED BY <1>1, <1>2, <3>1, KeptSays
  <2>2. KeptWithin /\ (~overlapped' => ~overlapped) /\ granted \subseteq granted'
    BY <1>1, Zenon DEF Budget
  <2> QED BY <1>1, <2>1, <2>2, FewerKept
<1>4. ClearedHasRoom'
  <2>1. ASSUME ~overlapped', NEW q \in Runs, Autonomous(q)', pc'[q] \in {"submit", "client"}, q # r
        PROVE  /\ Cardinality(CountedOn(runDay[q]))' < MostOrders'
               /\ NotionalOf(CountedOn(runDay[q]))' + intent(q)'.size <= MostNotional'
    <3>1. Autonomous(q) /\ pc[q] \in {"submit", "client"}
      BY <1>1, <1>2, <2>1
    <3>2. CountedOn(runDay[q])' \subseteq CountedOn(runDay[q])
      BY <1>1 DEF CountedOn
    <3>3. ClearedHasRoom /\ (~overlapped' => ~overlapped) /\ granted \subseteq granted'
      BY <1>1, Zenon DEF Budget
    <3> QED BY <1>1, <2>1, <3>1, <3>2, <3>3, RoomKept
  <2>2. /\ Cardinality(CountedOn(runDay[r]))' < MostOrders'
        /\ NotionalOf(CountedOn(runDay[r]))' + intent(r)'.size <= MostNotional'
    <3> DEFINE C == CountedOn(runDay[r])
    <3>1. limits \in granted
      <4>1. expires # 0
        BY <1>1 DEF TypeOK, Day
      <4> QED BY <4>1 DEF LimitsGranted
    <3>2. /\ limits.orders <= MostOrders /\ limits.notional <= MostNotional
          /\ MostOrders \in Nat /\ MostNotional \in Nat
          /\ limits.orders \in Nat /\ limits.notional \in Nat
      <4>1. granted \in SUBSET Limits /\ IsFiniteSet(granted)
        BY DEF TypeOK, LimitsGranted
      <4>2. limits.orders \in Nat /\ limits.notional \in Nat
        BY LimitsAssumption DEF TypeOK
      <4> QED BY <3>1, <4>1, <4>2, MostIsLimit DEF MostOrders, MostNotional
    <3>3. C' = C /\ C \in SUBSET Runs
      BY <1>1 DEF CountedOn, TypeOK
    <3>4. notional' = notional /\ intent(r)' = intent(r)
      BY <1>1 DEF notional, intent
    <3>5. NotionalOf(C)' = NotionalOf(C)
      <4>1. NotionalOf(C)' = Total(notional', C')
        BY SumsLater
      <4> HIDE DEF C
      <4> QED BY <3>3, <3>4, <4>1, NotionalIsTotal
    <3>6. Cardinality(C) \in Nat /\ NotionalOf(C) \in Nat /\ intent(r).size \in Nat
      <4> HIDE DEF C
      <4> QED BY <3>3, FewerRuns, SizesAreNat
    <3>7. MostOrders' = MostOrders /\ MostNotional' = MostNotional
      BY <1>1 DEF MostOrders, MostNotional
    <3>8. Cardinality(C) < limits.orders /\ NotionalOf(C) + intent(r).size <= limits.notional
      BY <1>1 DEF WithinLimits
    <3>9. Cardinality(C)' = Cardinality(C)
      BY <3>3
    <3> HIDE DEF C
    <3>10. Cardinality(C)' < MostOrders' /\ NotionalOf(C)' + intent(r)'.size <= MostNotional'
      BY <3>2, <3>4, <3>5, <3>6, <3>7, <3>8, <3>9
    <3> QED BY <3>10 DEF C
  <2> QED BY <2>1, <2>2 DEF ClearedHasRoom
<1> QED BY <1>3, <1>4, Zenon DEF Budget

\* The order of a run that does not overlap finds the ledger complete: what was sent before
\* it was counted, was cut short, or has halted the account.
LEMMA SendStep ==
  ASSUME IInv, TypeOK', LimitsGranted', NEW r \in Runs, Send(r)
  PROVE  Budget'
<1> USE DEF Goto, clockVars, operatorVars, brokerVars, contractVars, historyVars
<1>0. TypeOK
  BY DEF IInv
<1>1. /\ UNCHANGED <<job, budget, granted, runDay, overlapped>>
      /\ \A q \in Runs \ {r} : pc'[q] = pc[q]
      /\ pc[r] = "client" /\ pc'[r] = "sent"
  BY <1>0 DEF Send, TypeOK
<1>2. /\ halted # Accounts
      /\ \A q \in Runs \ {r} : Sent(q)' => Sent(q)
  BY DEF Send, Contract!Send, Sent
<1>3. \A q \in Runs : Autonomous(q)' <=> Autonomous(q)
  BY <1>1 DEF Autonomous
<1>4. (~overlapped' => ~overlapped) /\ granted \subseteq granted'
  BY <1>1, Zenon
<1>5. ClearedHasRoom'
  <2>1. ASSUME ~overlapped', NEW q \in Runs, Autonomous(q)', pc'[q] \in {"submit", "client"}
        PROVE  /\ Cardinality(CountedOn(runDay[q]))' < MostOrders'
               /\ NotionalOf(CountedOn(runDay[q]))' + intent(q)'.size <= MostNotional'
    <3>1. Autonomous(q) /\ pc[q] \in {"submit", "client"} /\ ClearedHasRoom
      BY <1>1, <1>3, <2>1 DEF IInv
    <3>2. CountedOn(runDay[q])' \subseteq CountedOn(runDay[q])
      BY <1>1 DEF CountedOn
    <3> QED BY <1>0, <1>1, <1>4, <2>1, <3>1, <3>2, RoomKept
  <2> QED BY <2>1 DEF ClearedHasRoom
<1>6. ASSUME ~overlapped', NEW d \in Day
      PROVE  Cardinality(KeptOn(d))' <= MostOrders' /\ NotionalOf(KeptOn(d))' <= MostNotional'
  <2> DEFINE K == KeptOn(d)
             C == CountedOn(d)
  <2>1. ~overlapped
    BY <1>4, <1>6, Zenon
  <2>2. K' \subseteq K \union {r}
    <3> SUFFICES ASSUME NEW q \in KeptOn(d)', q # r PROVE q \in KeptOn(d)
      OBVIOUS
    <3>1. /\ q \in Runs /\ Autonomous(q)' /\ Sent(q)' /\ runDay'[q] = d
          /\ pc'[q] \notin {"unrecorded", "killed"}
      BY DEF KeptOn, AutonomousOn, SlippedOn
    <3>2. Autonomous(q) /\ Sent(q) /\ pc[q] = pc'[q] /\ runDay[q] = d
      BY <1>1, <1>2, <1>3, <3>1
    <3> QED BY <3>1, <3>2, KeptSays
  <2>3. r \in K' => Autonomous(r) /\ runDay[r] = d
    BY <1>1, <1>3 DEF KeptOn, AutonomousOn
  <2>4. K \subseteq C
    <3> SUFFICES ASSUME NEW q \in KeptOn(d) PROVE q \in CountedOn(d)
      OBVIOUS
    <3>1. /\ q \in Runs /\ Autonomous(q) /\ Sent(q) /\ runDay[q] = d
          /\ pc[q] \notin {"unrecorded", "killed"}
      BY KeptSays
    <3>2. pc[q] \in {"sent", "record", "done", "ambiguous"}
      BY <3>1 DEF IInv, SentIsPast
    <3>3. pc[q] # "ambiguous"
      BY <1>2, <3>1 DEF IInv, AmbiguousHalts
    <3>4. pc[q] \notin {"sent", "record"}
      <4>1. Active(r) /\ q # r
        BY <1>1, <3>2 DEF Active, Ended
      <4>2. ~Active(q)
        BY <2>1, <3>1, <4>1 DEF IInv, OneAtATime
      <4> QED BY <4>2 DEF Active, Ended
    <3>5. q \in budget
      BY <3>1, <3>2, <3>3, <3>4 DEF IInv, BudgetIsDone
    <3> QED BY <3>1, <3>5 DEF CountedOn
  <2>5. C \in SUBSET Runs /\ K \in SUBSET Runs /\ r \notin K /\ K' \in SUBSET Runs
    <3>1. ~Sent(r)
      BY <1>1 DEF IInv, SentIsPast
    <3>2. C \in SUBSET Runs
      BY <1>0 DEF CountedOn, TypeOK
    <3>3. K \in SUBSET Runs /\ r \notin K
      BY <3>1, KeptSays
    <3>4. K' \in SUBSET Runs
      BY DEF KeptOn, AutonomousOn
    <3> QED BY <3>2, <3>3, <3>4
  <2>6. NotionalOf(K)' = Total(notional', K')
    BY SumsLater
  <2>7. /\ MostOrders \in Nat /\ MostOrders' \in Nat /\ MostOrders <= MostOrders'
        /\ MostNotional \in Nat /\ MostNotional' \in Nat /\ MostNotional <= MostNotional'
    BY <1>0, <1>4, MostStep
  <2>8. Cardinality(K) <= MostOrders /\ NotionalOf(K) <= MostNotional
    BY <2>1 DEF IInv, KeptWithin
  <2>9. Autonomous(r) /\ runDay[r] = d =>
          Cardinality(C) < MostOrders /\ NotionalOf(C) + intent(r).size <= MostNotional
    BY <1>1, <2>1 DEF IInv, ClearedHasRoom
  <2> HIDE DEF K, C
  <2>10. /\ Cardinality(C) \in Nat /\ Cardinality(K) \in Nat /\ Cardinality(K) <= Cardinality(C)
         /\ NotionalOf(C) \in Nat /\ NotionalOf(K) \in Nat /\ NotionalOf(K) <= NotionalOf(C)
    BY <1>0, <2>4, <2>5, FewerRuns
  <2>11. CASE r \in K'
    <3>1. K' \in SUBSET (K \union {r}) /\ K \union {r} \in SUBSET Runs
      BY <2>2, <2>5
    <3>2. /\ Cardinality(K \union {r}) = Cardinality(K) + 1
          /\ NotionalOf(K \union {r}) = intent(r).size + NotionalOf(K)
          /\ intent(r).size \in Nat
      BY <1>0, <2>5, OneRunMore
    <3>3. /\ Cardinality(K') <= Cardinality(K \union {r}) /\ Cardinality(K') \in Nat
          /\ Total(notional', K') <= NotionalOf(K \union {r}) /\ Total(notional', K') \in Nat
      BY <1>0, <1>1, <3>1, FewerRunsLater
    <3>4. Cardinality(C) < MostOrders /\ NotionalOf(C) + intent(r).size <= MostNotional
      BY <2>3, <2>9, <2>11
    <3>5. Cardinality(K') <= MostOrders' /\ NotionalOf(K)' <= MostNotional'
      BY <2>6, <2>7, <2>10, <3>2, <3>3, <3>4
    <3> QED BY <3>5 DEF K
  <2>12. CASE r \notin K'
    <3>1. K' \in SUBSET K
      BY <2>2, <2>12
    <3>2. /\ Cardinality(K') <= Cardinality(K) /\ Cardinality(K') \in Nat
          /\ Total(notional', K') <= NotionalOf(K) /\ Total(notional', K') \in Nat
      BY <1>0, <1>1, <2>5, <3>1, FewerRunsLater
    <3>3. Cardinality(K') <= MostOrders' /\ NotionalOf(K)' <= MostNotional'
      BY <2>6, <2>7, <2>8, <2>10, <3>2
    <3> QED BY <3>3 DEF K
  <2> QED BY <2>11, <2>12
<1>7. KeptWithin'
  BY <1>6 DEF KeptWithin
<1> QED BY <1>5, <1>7, Zenon DEF Budget

\* The ledger gets a line when its run is the only one going, so no cleared run loses room.
LEMMA RecordStep ==
  ASSUME IInv, TypeOK', LimitsGranted', NEW r \in Runs, RecordOrder(r)
  PROVE  Budget'
<1> USE DEF Goto, clockVars, operatorVars, brokerVars, contractVars, historyVars
<1>0. TypeOK
  BY DEF IInv
<1>1. /\ UNCHANGED <<job, sent, granted, runDay, overlapped>>
      /\ \A q \in Runs \ {r} : pc'[q] = pc[q]
      /\ pc[r] = "record" /\ pc'[r] = "done"
  BY <1>0 DEF RecordOrder, TypeOK
<1>2. \A q \in Runs : (Sent(q)' <=> Sent(q)) /\ (Autonomous(q)' <=> Autonomous(q))
  BY <1>1 DEF Sent, Autonomous
<1>3. (~overlapped' => ~overlapped) /\ granted \subseteq granted'
  BY <1>1, Zenon
<1>4. KeptWithin'
  <2>1. \A d \in Day : KeptOn(d)' \subseteq KeptOn(d)
    <3> SUFFICES ASSUME NEW d \in Day, NEW q \in KeptOn(d)' PROVE q \in KeptOn(d)
      OBVIOUS
    <3>1. /\ q \in Runs /\ Autonomous(q)' /\ Sent(q)' /\ runDay'[q] = d
          /\ pc'[q] \notin {"unrecorded", "killed"}
      BY DEF KeptOn, AutonomousOn, SlippedOn
    <3>2. pc[q] \notin {"unrecorded", "killed"}
      BY <1>1, <3>1
    <3> QED BY <1>1, <1>2, <3>1, <3>2, KeptSays
  <2>2. KeptWithin
    BY DEF IInv
  <2> QED BY <1>0, <1>1, <1>3, <2>1, <2>2, FewerKept
<1>5. ClearedHasRoom'
  <2> SUFFICES ASSUME ~overlapped', NEW q \in Runs, pc'[q] \in {"submit", "client"} PROVE FALSE
    BY DEF ClearedHasRoom
  <2>1. ~overlapped
    BY <1>3, Zenon
  <2>2. q # r /\ pc[q] \in {"submit", "client"}
    BY <1>1
  <2>3. Active(r) /\ Active(q)
    BY <1>1, <2>2 DEF Active, Ended
  <2> QED BY <2>1, <2>2, <2>3 DEF IInv, OneAtATime
<1> QED BY <1>4, <1>5, Zenon DEF Budget

\* The budget through every step of a run.
LEMMA BudgetStep ==
  ASSUME IInv, TypeOK', LimitsGranted', NEW r \in Runs, Run(r)
  PROVE  Budget'
<1> USE DEF Goto, clockVars, operatorVars, brokerVars, contractVars, historyVars
<1>0. TypeOK /\ Budget /\ SentIsPast /\ BudgetIsDone /\ LimitsGranted
  BY Zenon DEF IInv, Budget
<1>1. /\ UNCHANGED <<job, granted>> /\ granted \subseteq granted'
      /\ \A q \in Runs \ {r} : pc'[q] = pc[q] /\ runDay'[q] = runDay[q]
      /\ ~overlapped' => ~overlapped
  <2>1. /\ UNCHANGED <<job, granted>>
        /\ \A q \in Runs \ {r} : pc'[q] = pc[q] /\ runDay'[q] = runDay[q]
        /\ overlapped => overlapped'
    BY <1>0, RunShape
  <2>2. granted \subseteq granted'
    BY <2>1
  <2> QED BY <2>1, <2>2, Zenon
\* A step before the POST that clears no autonomous run.
<1>2. ASSUME UNCHANGED <<sent, budget>>,
             pc[r] \in {"start", "account", "session", "switch", "authorize", "submit", "client"},
             UNCHANGED runDay \/ pc'[r] \notin {"submit", "client"},
             pc'[r] \in {"submit", "client"} /\ Autonomous(r) => pc[r] \in {"submit", "client"}
      PROVE  Budget'
  <2>1. r \notin budget /\ ~Sent(r)
    BY <1>0, <1>2 DEF SentIsPast, BudgetIsDone
  <2>2. ASSUME NEW q \in Runs, q # r
        PROVE  runDay'[q] = runDay[q] /\ pc'[q] = pc[q]
    BY <1>1, <2>2
  <2>3. CASE UNCHANGED runDay
    <3>1. \A q \in Runs : pc'[q] \in {"submit", "client"} /\ Autonomous(q)
                            => pc[q] \in {"submit", "client"}
      BY <1>2, <2>2
    <3>2. \A q \in Runs : Sent(q) /\ pc[q] \in {"unrecorded", "killed"}
                            => pc'[q] \in {"unrecorded", "killed"}
      BY <1>2, <2>1, <2>2
    <3> QED BY <1>0, <1>1, <1>2, <2>3, <3>1, <3>2, BudgetIdle
  <2>4. CASE pc'[r] \notin {"submit", "client"}
    <3>1. \A q \in Runs : pc'[q] \in {"submit", "client"} /\ Autonomous(q)
                            => pc[q] \in {"submit", "client"}
      BY <2>2, <2>4
    <3>2. \A q \in Runs : Sent(q) /\ pc[q] \in {"unrecorded", "killed"}
                            => pc'[q] \in {"unrecorded", "killed"}
      BY <1>2, <2>1, <2>2
    <3>3. \A q \in Runs : runDay'[q] = runDay[q] \/ (q \notin budget /\ ~Sent(q)
                                                      /\ pc'[q] \notin {"submit", "client"})
      BY <2>1, <2>2, <2>4
    <3> QED BY <1>0, <1>1, <1>2, <3>1, <3>2, <3>3, BudgetIdle
  <2> QED BY <1>2, <2>3, <2>4
<1>3. CASE ReadLoss(r) \/ ReadAccount(r)
  <2>1. UNCHANGED <<sent, budget>> /\ pc[r] \in {"start", "account"}
        /\ pc'[r] \notin {"submit", "client"}
    BY <1>0, <1>3 DEF ReadLoss, ReadAccount, TypeOK
  <2> QED BY <1>2, <2>1
<1>4. CASE CheckSession(r)
  <2>1. UNCHANGED <<sent, budget>> /\ pc[r] = "session" /\ pc'[r] \notin {"submit", "client"}
    BY <1>0, <1>4 DEF CheckSession, TypeOK
  <2> QED BY <1>2, <2>1
<1>5. CASE CheckSwitch(r)
  <2>1. UNCHANGED <<sent, budget, runDay>> /\ pc[r] = "switch"
        /\ (Autonomous(r) => pc'[r] \notin {"submit", "client"})
    BY <1>0, <1>5 DEF CheckSwitch, TypeOK
  <2> QED BY <1>2, <2>1
<1>6. CASE Authorize(r)
  <2>1. UNCHANGED <<sent, budget, runDay>> /\ pc[r] = "authorize"
        /\ pc'[r] \in {"submit", "refused"}
    BY <1>0, <1>6 DEF Authorize, TypeOK
  <2>2. CASE pc'[r] = "submit"
    BY <1>0, <1>6, <2>2, AuthorizeStep
  <2>3. CASE pc'[r] = "refused"
    BY <1>2, <2>1, <2>3
  <2> QED BY <2>1, <2>2, <2>3
<1>7. CASE CheckSwitchAgain(r) \/ SubmitRefused(r)
  <2>1. UNCHANGED <<sent, budget, runDay>> /\ pc[r] \in {"submit", "client"}
    BY <1>7 DEF CheckSwitchAgain, SubmitRefused
  <2> QED BY <1>2, <2>1
<1>8. CASE Send(r)
  BY <1>8, SendStep
<1>9. CASE RecordOrder(r)
  BY <1>9, RecordStep
<1>10. CASE Acknowledged(r) \/ Ambiguous(r) \/ Unrecorded(r) \/ Killed(r)
  <2>1. UNCHANGED <<sent, budget, runDay>> /\ pc[r] \notin {"unrecorded", "killed"}
        /\ pc'[r] \notin {"submit", "client"}
    BY <1>0, <1>10
    DEF Acknowledged, Ambiguous, Unrecorded, Killed, Contract!Halt, Active, Ended, TypeOK
  <2>2. \A q \in Runs : pc'[q] \in {"submit", "client"} => pc[q] \in {"submit", "client"}
    BY <1>1, <2>1
  <2>3. \A q \in Runs : pc[q] \in {"unrecorded", "killed"} => pc'[q] \in {"unrecorded", "killed"}
    BY <1>1, <2>1
  <2> QED BY <1>0, <1>1, <2>1, <2>2, <2>3, BudgetIdle
<1> QED BY <1>3, <1>4, <1>5, <1>6, <1>7, <1>8, <1>9, <1>10 DEF Run

\* Every step of a run, the operator, the broker or the clock keeps the invariant.
LEMMA NextIInv == IInv /\ [Next]_vars => IInv'
<1> SUFFICES ASSUME IInv, [Next]_vars PROVE IInv'
  OBVIOUS
<1>0. /\ TypeOK /\ SentIsPast /\ BudgetIsDone /\ AmbiguousHalts /\ OneAtATime /\ SwitchSpent
      /\ LimitsGranted /\ Budget
  BY Zenon DEF IInv, Budget
<1>1. TypeOK'
  BY <1>0, TypeStep
<1>2. ASSUME NEW r \in Runs, Run(r) PROVE IInv'
  <2>1. SwitchSpent' /\ OneAtATime' /\ SentIsPast' /\ BudgetIsDone' /\ AmbiguousHalts'
    BY <1>0, <1>1, <1>2, SwitchStep, OneAtATimeStep, PositionsStep
  <2>2. LimitsGranted'
    <3>1. UNCHANGED <<expires, limits, granted>>
      BY <1>0, <1>2, RunShape
    <3> QED BY <1>0, <3>1 DEF LimitsGranted
  <2>3. Budget'
    BY <1>1, <1>2, <2>2, BudgetStep
  <2> QED BY <1>1, <2>1, <2>2, <2>3, Zenon DEF IInv, Budget
<1>3. CASE Environment
  <2>1. /\ UNCHANGED <<job, pc, runDay, budget, sent, halted, overlapped>>
        /\ granted \subseteq granted' /\ LimitsGranted'
        /\ late' = 0 \/ UNCHANGED <<engaged, late>>
    BY <1>0, <1>3, EnvironmentQuiet
  <2>2. SentIsPast' /\ BudgetIsDone' /\ AmbiguousHalts' /\ OneAtATime'
    BY <1>0, <2>1 DEF SentIsPast, BudgetIsDone, AmbiguousHalts, OneAtATime, Sent, Autonomous,
                       Active
  <2>3. SwitchSpent'
    <3>1. CASE late' = 0
      BY <3>1 DEF SwitchSpent
    <3>2. CASE UNCHANGED <<engaged, late>>
      BY <1>0, <2>1, <3>2 DEF SwitchSpent
    <3> QED BY <2>1, <3>1, <3>2
  <2>4. Budget'
    <3>1. /\ \A q \in Runs : pc'[q] = pc[q] /\ runDay'[q] = runDay[q]
          /\ ~overlapped' => ~overlapped
      BY <2>1, Zenon
    <3> QED BY <1>0, <1>1, <2>1, <3>1, BudgetIdle
  <2> QED BY <1>1, <2>1, <2>2, <2>3, <2>4, Zenon DEF IInv, Budget
<1>4. CASE UNCHANGED vars
  <2>1. UNCHANGED <<job, pc, runDay, budget, sent, halted, overlapped, granted, expires, limits,
                    engaged, late>>
    BY <1>4
    DEF vars, clockVars, operatorVars, brokerVars, runVars, contractVars, historyVars
  <2>2. /\ SentIsPast' /\ BudgetIsDone' /\ AmbiguousHalts' /\ OneAtATime' /\ SwitchSpent'
        /\ LimitsGranted'
    BY <1>0, <2>1 DEF SentIsPast, BudgetIsDone, AmbiguousHalts, OneAtATime, Sent, Autonomous,
                       Active, SwitchSpent, LimitsGranted
  <2>3. Budget'
    <3>1. /\ \A q \in Runs : pc'[q] = pc[q] /\ runDay'[q] = runDay[q]
          /\ ~overlapped' => ~overlapped
      BY <2>1, Zenon
    <3>2. granted \subseteq granted'
      BY <2>1
    <3> QED BY <1>0, <1>1, <2>1, <2>2, <3>1, <3>2, BudgetIdle
  <2> QED BY <1>1, <2>2, <2>3, Zenon DEF IInv, Budget
<1> QED BY <1>2, <1>3, <1>4 DEF Next

----------------------------------------------------------------------------------
(* What follows *)

THEOREM Inductive == Spec => []IInv
  BY InitIInv, NextIInv, PTL DEF Spec

\* Clock, files, runs and requests keep their shape, whatever the operator and the broker do.
THEOREM TypeCorrect == Spec => []TypeOK
<1>1. IInv => TypeOK
  BY DEF IInv
<1> QED BY <1>1, Inductive, PTL

\* An autonomous order without a line in the budget ledger leaves the account halted, or its
\* run was cut short: submit_pilot_order raises before record_order only behind a halt.
THEOREM AmbiguityHalts == Spec => []UncountedOrderHalts
<1>1. IInv => UncountedOrderHalts
  BY DEF IInv, SentIsPast, BudgetIsDone, AmbiguousHalts, UncountedOrderHalts
<1> QED BY <1>1, Inductive, PTL

\* Once the switch is engaged, one request still goes out at most while runs do not overlap.
THEOREM SwitchHolds == Spec => []SwitchStopsAllButOne
<1>1. IInv => SwitchStopsAllButOne
  BY DEF IInv, SwitchSpent, SwitchStopsAllButOne
<1> QED BY <1>1, Inductive, PTL

\* The orders of a day and their notional stay within the largest limits ever authorized,
\* beyond those of runs cut short: day_order_usage counts all the others before they are sent.
THEOREM BudgetHolds == Spec => []DailyBudget
<1>1. ASSUME IInv, ~overlapped, NEW d \in Day
      PROVE  /\ Cardinality(AutonomousOn(d)) <= MostOrders + Cardinality(SlippedOn(d))
             /\ NotionalOf(AutonomousOn(d)) <= MostNotional + NotionalOf(SlippedOn(d))
  <2> DEFINE A == AutonomousOn(d)
             S == SlippedOn(d)
             K == KeptOn(d)
  <2>0. TypeOK /\ LimitsGranted
    BY <1>1 DEF IInv
  <2>1. A \in SUBSET Runs /\ S \in SUBSET A /\ K = A \ S /\ K \in SUBSET Runs /\ S \in SUBSET Runs
    BY DEF AutonomousOn, SlippedOn, KeptOn
  <2>2. Cardinality(K) <= MostOrders /\ NotionalOf(K) <= MostNotional
    BY <1>1 DEF IInv, KeptWithin
  <2>3. MostOrders \in Nat /\ MostNotional \in Nat
    BY <2>0, MostIsLimit DEF TypeOK, LimitsGranted, MostOrders, MostNotional
  <2> HIDE DEF A, S, K
  <2>4. IsFiniteSet(A) /\ IsFiniteSet(S) /\ IsFiniteSet(K)
    BY <2>1, SizesAssumption, FS_Subset
  <2>5. \A r \in A : notional[r] \in Int
    BY <2>0, <2>1, SizesAreNat
  <2>6. NotionalOf(A) = NotionalOf(S) + NotionalOf(K)
    <3>1. Total(notional, A) = Total(notional, S) + Total(notional, A \ S)
      BY <2>1, <2>4, <2>5, TotalSplit
    <3> QED BY <2>1, <3>1, NotionalIsTotal
  <2>7. Cardinality(A) = Cardinality(S) + Cardinality(K)
    <3>1. A = S \union K /\ S \cap K = {}
      BY <2>1
    <3>2. Cardinality(S \union K) = Cardinality(S) + Cardinality(K) - Cardinality(S \cap K)
      BY <2>4, FS_Union
    <3>3. Cardinality(S \cap K) = 0
      BY <3>1, FS_EmptySet
    <3>4. Cardinality(S) \in Nat /\ Cardinality(K) \in Nat
      BY <2>4, FS_CardinalityType
    <3> QED BY <3>1, <3>2, <3>3, <3>4
  <2>8. /\ Cardinality(S) \in Nat /\ Cardinality(K) \in Nat
        /\ NotionalOf(S) \in Nat /\ NotionalOf(K) \in Nat
    BY <2>0, <2>1, FewerRuns
  <2>9. Cardinality(A) <= MostOrders + Cardinality(S) /\ NotionalOf(A) <= MostNotional + NotionalOf(S)
    BY <2>2, <2>3, <2>6, <2>7, <2>8
  <2> QED BY <2>9 DEF A, S
<1>2. IInv => DailyBudget
  BY <1>1 DEF DailyBudget, MostOrders, MostNotional, MostOrdersOf, MostNotionalOf
<1> QED BY <1>2, Inductive, PTL
=================================================================================
