---------------------------- MODULE SettlementProofs ----------------------------
(***************************************************************************)
(* What is booked about orders the broker executed.  The settlement rests  *)
(* on an order seen outside the book never trading again; the reader is    *)
(* why three lists read one after the other may be trusted with that.      *)
(***************************************************************************)
EXTENDS RealizedSettlement, BrokerReader, FiniteSetTheorems, WellFoundedInduction, TLAPS

----------------------------------------------------------------------------------
(***************************************************************************)
(* What the daily-loss ledger holds is right for any number of SELLs and   *)
(* settles, overlapping or killed: the strengthened invariant IInv says    *)
(* why reading the open orders before the fills is enough.  Alone says     *)
(* what more holds while invocations follow each other: then no loss is    *)
(* booked twice and no cost basis lost, but for a settle that was killed.  *)
(***************************************************************************)

\* Before its SELL is accepted an order has no trace at the broker.
NewIsBlank ==
  \A o \in Orders :
    seller[o] = "new" => filled[o] = 0 /\ sellDay[o] = 0 /\ ~resting[o]

\* An order in the book still has shares to trade.
RestingHasRest == \A o \in Orders : resting[o] => filled[o] < Quantity

\* Files and settlers only know orders that were placed.
KnownArePlaced ==
  /\ \A o \in pending : seller[o] # "new"
  /\ \A s \in Settlers : \A o \in batch[s] : seller[o] # "new"

\* An order once seen outside the book never trades again.
GoneIsFinal ==
  \A s \in Settlers, o \in Orders :
    seen[s][o] = "gone" => seller[o] # "new" /\ ~resting[o]

\* Shares a settler is about to book are the order's final fill, of its day.
VerdictIsFinal ==
  \A s \in Settlers, o \in Orders :
    verdict[s][o] \in 1 .. Quantity =>
      /\ seller[o] # "new" /\ ~resting[o]
      /\ verdict[s][o] = filled[o]
      /\ askDay[s] = sellDay[o]

\* A settler reads nothing before it has loaded the file.
IdleIsBlank ==
  \A s \in Settlers, o \in Orders :
    spc[s] = "idle" => verdict[s][o] = Unread

\* Nothing is booked before every entry has its verdict.
RecordingAfterReads ==
  \A s \in Settlers :
    spc[s] = "recording" => \A o \in batch[s] : verdict[s][o] # Unread

BookedArePlaced == \A e \in ledger : seller[e.order] # "new"

IInv ==
  /\ TypeOK
  /\ NewIsBlank
  /\ RestingHasRest
  /\ KnownArePlaced
  /\ GoneIsFinal
  /\ VerdictIsFinal
  /\ IdleIsBlank
  /\ RecordingAfterReads
  /\ BookedArePlaced
  /\ SettledIsFinal

---------------------------------------------------------------------------------

\* What a settler may come to book is a count within the order.
LEMMA SharesInRange ==
  ASSUME TypeOK, NEW s \in Settlers, NEW o \in Orders
  PROVE  SharesToSettle(s, o) \in Count
  BY QuantityAssumption DEF TypeOK, SharesToSettle, FillsOn, Count

\* The overlap flag is a truth value.
LEMMA StartFlags == Start => overlapped' \in BOOLEAN
  BY Zenon DEF Start

LEMMA TypeInit == Init => TypeOK
<1> SUFFICES ASSUME Init PROVE TypeOK
  OBVIOUS
<1> USE QuantityAssumption, DaysAssumption DEF Init, Day, Count, Unread
<1>1. /\ today \in Day
      /\ filled \in [Orders -> Count]
      /\ askDay \in [Settlers -> Day]
  OBVIOUS
<1>2. verdict \in [Settlers -> [Orders -> Count \union {Unread}]]
  OBVIOUS
<1>3. seen \in [Settlers -> [Orders -> {"unread", "resting", "gone"}]]
  OBVIOUS
<1> QED BY <1>1, <1>2, <1>3 DEF TypeOK

\* Broker, positions, files and ledger stay within their ranges.
LEMMA TypeStep ==
  TypeOK /\ RestingHasRest /\ RecordingAfterReads /\ [Next]_vars => TypeOK'
<1> SUFFICES ASSUME TypeOK, RestingHasRest, RecordingAfterReads, [Next]_vars
             PROVE  TypeOK'
  OBVIOUS
<1> USE QuantityAssumption, DaysAssumption
    DEF TypeOK, RestingHasRest, RecordingAfterReads, brokerVars, fileVars, settlerVars, SettlerAt
<1>1. ASSUME NEW o \in Orders, Fill(o) PROVE TypeOK'
  <2>1. filled[o] + 1 \in Count
    BY <1>1 DEF Fill, Count
  <2>2. (filled[o] + 1 < Quantity) \in BOOLEAN
    OBVIOUS
  <2> QED BY <1>1, <2>1, <2>2 DEF Fill
<1>2. ASSUME NEW o \in Orders, Expire(o) PROVE TypeOK'
  BY <1>2 DEF Expire
<1>3. CASE NextDay
  BY <1>3 DEF NextDay, Day
<1>4. ASSUME NEW o \in Orders, Place(o) PROVE TypeOK'
  <2>1. overlapped' \in BOOLEAN
    BY <1>4, StartFlags DEF Place
  <2> QED BY <1>4, <2>1 DEF Place
<1>5. ASSUME NEW o \in Orders, Capture(o) PROVE TypeOK'
  BY <1>5 DEF Capture
<1>6. ASSUME NEW o \in Orders, SellerKilled(o) PROVE TypeOK'
  BY <1>6 DEF SellerKilled
<1>7. ASSUME NEW s \in Settlers, Load(s) PROVE TypeOK'
  <2>1. overlapped' \in BOOLEAN
    BY <1>7, StartFlags DEF Load
  <2>2. PICK d \in 1 .. today : askDay' = [askDay EXCEPT ![s] = d]
    BY <1>7 DEF Load
  <2>3. d \in Day
    BY DEF Day
  <2>4. UNCHANGED <<brokerVars, seller, fileVars, seen, verdict, ledger>>
    BY <1>7 DEF Load
  <2>5. /\ spc' \in {[spc EXCEPT ![s] = "done"], [spc EXCEPT ![s] = "reading"]}
        /\ batch' \in {batch, [batch EXCEPT ![s] = pending]}
    BY <1>7 DEF Load
  <2> QED BY <2>1, <2>2, <2>3, <2>4, <2>5
<1>8. ASSUME NEW s \in Settlers, NEW o \in Orders, ReadOpen(s, o) PROVE TypeOK'
  BY <1>8 DEF ReadOpen
<1>9. ASSUME NEW s \in Settlers, NEW o \in Orders, ReadFills(s, o) PROVE TypeOK'
  BY <1>9, SharesInRange DEF ReadFills
<1>10. ASSUME NEW s \in Settlers, StartRecording(s) PROVE TypeOK'
  BY <1>10 DEF StartRecording
<1>11. ASSUME NEW s \in Settlers, NEW o \in Orders, Record(s, o) PROVE TypeOK'
  <2>1. [order |-> o, by |-> s, quantity |-> verdict[s][o], day |-> askDay[s]]
          \in Entry
    BY <1>11 DEF Record, Entry, Count, Unread
  <2> QED BY <1>11, <2>1 DEF Record
<1>12. ASSUME NEW s \in Settlers, Truncate(s) PROVE TypeOK'
  BY <1>12 DEF Truncate
<1>2a. ASSUME NEW s \in Settlers, Rewrite(s) PROVE TypeOK'
  BY <1>2a DEF Rewrite, Remaining
<1>14. ASSUME NEW s \in Settlers, SettlerKilled(s) PROVE TypeOK'
  BY <1>14 DEF SettlerKilled
<1>15. CASE UNCHANGED vars
  BY <1>15 DEF vars
<1> QED
  BY <1>1, <1>2, <1>3, <1>4, <1>5, <1>6, <1>7, <1>8, <1>9, <1>10, <1>11, <1>12, <1>2a, <1>14, <1>15
  DEF Next, Broker, Sell, Settle

LEMMA InitIInv == Init => IInv
  BY TypeInit, QuantityAssumption
  DEF Init, IInv, Unread, NewIsBlank, RestingHasRest, KnownArePlaced,
      GoneIsFinal, VerdictIsFinal, IdleIsBlank, RecordingAfterReads, BookedArePlaced,
      SettledIsFinal

\* Every step of the broker, a pilot run or a settle keeps the invariant.
LEMMA NextIInv == IInv /\ [Next]_vars => IInv'
<1> SUFFICES ASSUME IInv, [Next]_vars PROVE IInv'
  OBVIOUS
<1>0. TypeOK'
  BY TypeStep DEF IInv
<1> USE QuantityAssumption, DaysAssumption
    DEF IInv, TypeOK, NewIsBlank, RestingHasRest,
        KnownArePlaced, GoneIsFinal, VerdictIsFinal, IdleIsBlank,
        RecordingAfterReads, BookedArePlaced, SettledIsFinal, brokerVars, fileVars,
        settlerVars, SettlerAt
<1>1. ASSUME NEW o \in Orders, Fill(o) PROVE IInv'
  <2>1. RestingHasRest'
    BY <1>1 DEF Fill, Count
  <2>2. NewIsBlank' /\ GoneIsFinal' /\ VerdictIsFinal'
    BY <1>1 DEF Fill
  <2>3. SettledIsFinal'
    BY <1>1 DEF Fill, Entry
  <2> QED BY <1>0, <1>1, <2>1, <2>2, <2>3 DEF Fill
<1>2. ASSUME NEW o \in Orders, Expire(o) PROVE IInv'
  BY <1>0, <1>2 DEF Expire
<1>3. CASE NextDay
  BY <1>0, <1>3 DEF NextDay
<1>4. ASSUME NEW o \in Orders, Place(o) PROVE IInv'
  BY <1>0, <1>4 DEF Place
<1>5. ASSUME NEW o \in Orders, Capture(o) PROVE IInv'
  BY <1>0, <1>5 DEF Capture
<1>6. ASSUME NEW o \in Orders, SellerKilled(o) PROVE IInv'
  BY <1>0, <1>6 DEF SellerKilled
<1>7. ASSUME NEW s \in Settlers, Load(s) PROVE IInv'
  <2>1. /\ UNCHANGED <<brokerVars, seller, fileVars, seen, verdict, ledger>>
        /\ spc[s] = "idle"
        /\ spc' \in {[spc EXCEPT ![s] = "done"], [spc EXCEPT ![s] = "reading"]}
        /\ batch' \in {batch, [batch EXCEPT ![s] = pending]}
    BY <1>7 DEF Load
  <2>2. PICK d \in 1 .. today : askDay' = [askDay EXCEPT ![s] = d]
    BY <1>7 DEF Load
  <2>3. KnownArePlaced'
    <3>1. CASE batch' = batch
      BY <2>1, <3>1
    <3>2. CASE batch' = [batch EXCEPT ![s] = pending]
      BY <2>1, <3>2
    <3> QED BY <2>1, <3>1, <3>2
  <2>5. IdleIsBlank'
    BY <2>1
  <2>6. RecordingAfterReads'
    <3>1. \A t \in Settlers : t # s => spc'[t] = spc[t] /\ batch'[t] = batch[t]
      BY <2>1
    <3>2. spc'[s] # "recording"
      BY <2>1
    <3> QED BY <2>1, <3>1, <3>2
  <2>4. VerdictIsFinal'
    BY <2>1, <2>2 DEF Unread
  <2> QED BY <1>0, <2>1, <2>3, <2>4, <2>5, <2>6
<1>8. ASSUME NEW s \in Settlers, NEW o \in Orders, ReadOpen(s, o) PROVE IInv'
  BY <1>0, <1>8 DEF ReadOpen
<1>9. ASSUME NEW s \in Settlers, NEW o \in Orders, ReadFills(s, o) PROVE IInv'
  BY <1>0, <1>9 DEF ReadFills, SharesToSettle, FillsOn
<1>10. ASSUME NEW s \in Settlers, StartRecording(s) PROVE IInv'
  BY <1>0, <1>10 DEF StartRecording
<1>11. ASSUME NEW s \in Settlers, NEW o \in Orders, Record(s, o) PROVE IInv'
  <2>1. verdict[s][o] \in 1 .. Quantity
    BY <1>11 DEF Record, Count
  <2>2. SettledIsFinal' /\ BookedArePlaced'
    BY <1>11, <2>1 DEF Record, Entry, Day
  <2> QED BY <1>0, <1>11, <2>2 DEF Record
<1>12. ASSUME NEW s \in Settlers, Truncate(s) PROVE IInv'
  BY <1>0, <1>12 DEF Truncate
<1>2a. ASSUME NEW s \in Settlers, Rewrite(s) PROVE IInv'
  <2>1. pending' \subseteq pending \union batch[s]
    BY <1>2a DEF Rewrite, Remaining
  <2> QED BY <1>0, <1>2a, <2>1 DEF Rewrite
<1>14. ASSUME NEW s \in Settlers, SettlerKilled(s) PROVE IInv'
  <2>1. UNCHANGED <<brokerVars, seller, fileVars, askDay, batch, seen, verdict, ledger>>
    BY <1>14 DEF SettlerKilled
  <2>2. \A t \in Settlers : spc'[t] \in {"recording", "idle"} => spc'[t] = spc[t]
    BY <1>14 DEF SettlerKilled
  <2>3. IdleIsBlank' /\ RecordingAfterReads'
    BY <2>1, <2>2
  <2>4. NewIsBlank' /\ RestingHasRest' /\ KnownArePlaced' /\ GoneIsFinal' /\ VerdictIsFinal'
        /\ BookedArePlaced'
    BY <2>1
  <2>5. SettledIsFinal'
    BY <2>1
  <2> QED BY <1>0, <2>3, <2>4, <2>5
<1>15. CASE UNCHANGED vars
  BY <1>0, <1>15 DEF vars
<1> QED
  BY <1>1, <1>2, <1>3, <1>4, <1>5, <1>6, <1>7, <1>8, <1>9, <1>10, <1>11, <1>12, <1>2a, <1>14, <1>15
  DEF Next, Broker, Sell, Settle

THEOREM Inductive == Spec => []IInv
  BY InitIInv, NextIInv, PTL DEF Spec

\* Only final fills are booked, and on the day they were sold: the breaker is
\* never fed a partial loss or another day's.
THEOREM LedgerIsRight == Spec => []SettledIsFinal
<1>1. IInv => SettledIsFinal
  BY DEF IInv
<1> QED BY <1>1, Inductive, PTL

---------------------------------------------------------------------------------
(* Invocations that do not overlap *)

\* Files and settlers know a SELL by its capture.
FilesKnowCaptured ==
  /\ \A o \in pending : seller[o] = "captured"
  /\ \A s \in Settlers : \A o \in batch[s] : seller[o] = "captured"

\* A line of the ledger repeats the verdict of the settler that wrote it.
BookedWasRead ==
  \A e \in ledger :
    /\ spc[e.by] \notin {"idle", "reading"}
    /\ e.order \in batch[e.by]
    /\ verdict[e.by][e.order] = e.quantity

\* The file is rewritten when everything settled is in the ledger.
AllIsBooked ==
  \A s \in Settlers :
    spc[s] = "rewriting" =>
      \A o \in batch[s] : verdict[s][o] # Unread /\ (verdict[s][o] > 0 => Recorded(s, o))

\* One invocation is at work at a time.
OneBusy ==
  ~overlapped =>
    /\ \A s, t \in Settlers : Running(s) /\ Running(t) => s = t
    /\ \A o, p \in Orders : seller[o] = "acked" /\ seller[p] = "acked" => o = p
    /\ \A s \in Settlers, o \in Orders : ~(Running(s) /\ seller[o] = "acked")

\* The file is what the settler at work loaded, until it has cut it to nothing.
FileIsBatch ==
  ~overlapped =>
    /\ ~corrupt
    /\ \A s \in Settlers :
         /\ spc[s] \in {"reading", "recording"} => pending = batch[s]
         /\ spc[s] = "rewriting" => pending = {}

\* What a settler booked before it got to the file is in nobody's hands any more.
BookedIsGone ==
  ~overlapped =>
    \A e \in ledger :
      spc[e.by] \in {"rewriting", "done", "torn"} =>
        /\ e.order \notin pending
        /\ \A t \in Settlers \ {e.by} : Running(t) => e.order \notin batch[t]

Alone ==
  /\ FilesKnowCaptured
  /\ BookedWasRead
  /\ AllIsBooked
  /\ OneBusy
  /\ FileIsBatch
  /\ BookedIsGone
  /\ DoubleBookingNeedsKill
  /\ CostBasisKept

LEMMA InitAlone == Init => Alone
  BY DEF Init, Alone, FilesKnowCaptured, BookedWasRead, AllIsBooked, OneBusy, FileIsBatch,
         BookedIsGone, DoubleBookingNeedsKill, CostBasisKept, Running

\* Orders that trade or leave the book change no file and no position.
LEMMA AloneStays ==
  ASSUME Alone, UNCHANGED <<seller, pending, corrupt, spc, batch, verdict, ledger, overlapped>>
  PROVE  Alone'
<1>1. \A s \in Settlers : Running(s)' <=> Running(s)
  BY DEF Running
<1>2. FilesKnowCaptured' /\ BookedWasRead' /\ AllIsBooked' /\ OneBusy' /\ FileIsBatch'
      /\ BookedIsGone'
  BY <1>1 DEF Alone, FilesKnowCaptured, BookedWasRead, AllIsBooked, OneBusy, FileIsBatch,
              BookedIsGone, Recorded
<1>3. DoubleBookingNeedsKill' /\ CostBasisKept'
  BY DEF Alone, DoubleBookingNeedsKill, CostBasisKept, Booked, StillPending
<1> QED BY <1>2, <1>3, Zenon DEF Alone

\* The pilot run that sells: it starts when nobody is at work, and captures alone.
LEMMA AloneSell ==
  ASSUME IInv, Alone, NEW o \in Orders, Sell(o)
  PROVE  Alone'
<1> USE DEF TypeOK, brokerVars, fileVars, settlerVars
<1>0. TypeOK /\ UNCHANGED <<spc, batch, verdict, ledger, corrupt>>
  BY DEF IInv, Sell, Place, Capture, SellerKilled
<1>1. \A s \in Settlers : Running(s)' <=> Running(s)
  BY <1>0 DEF Running
<1>2. /\ \A p \in Orders \ {o} : seller'[p] = seller[p]
      /\ seller[o] # "captured"
      /\ seller'[o] = "captured" => o \in pending'
      /\ \/ pending' = pending
         \/ pending' = pending \union {o} /\ seller[o] = "acked" /\ seller'[o] = "captured"
  BY <1>0 DEF Sell, Place, Capture, SellerKilled
<1>2a. seller'[o] = "acked" => Place(o)
  <2>1. CASE Capture(o) \/ SellerKilled(o)
    BY <1>0, <2>1 DEF Capture, SellerKilled
  <2> QED BY <2>1 DEF Sell
<1>3. ~overlapped' => ~overlapped
  BY Zenon DEF Sell, Place, Capture, SellerKilled, Start
<1>4. FilesKnowCaptured'
  BY <1>0, <1>2 DEF Alone, FilesKnowCaptured
<1>5. BookedWasRead' /\ AllIsBooked'
  BY <1>0 DEF Alone, BookedWasRead, AllIsBooked, Recorded
<1>6. ASSUME ~overlapped'
      PROVE  /\ \A s, t \in Settlers : Running(s)' /\ Running(t)' => s = t
             /\ \A p, q \in Orders : seller'[p] = "acked" /\ seller'[q] = "acked" => p = q
             /\ \A s \in Settlers, p \in Orders : ~(Running(s)' /\ seller'[p] = "acked")
  <2>1. ~overlapped
    BY <1>3, <1>6
  <2>2. Place(o) => (\A p \in Orders : seller[p] # "acked") /\ (\A s \in Settlers : ~Running(s))
    BY <1>6, Zenon DEF Place, Start
  <2>3. /\ \A s, t \in Settlers : Running(s) /\ Running(t) => s = t
        /\ \A p, q \in Orders : seller[p] = "acked" /\ seller[q] = "acked" => p = q
        /\ \A s \in Settlers, p \in Orders : ~(Running(s) /\ seller[p] = "acked")
    BY <2>1 DEF Alone, OneBusy
  <2>4. \A p \in Orders : seller'[p] = "acked" => seller[p] = "acked" \/ (p = o /\ Place(o))
    BY <1>2, <1>2a
  <2> QED BY <1>1, <2>2, <2>3, <2>4
<1>7. OneBusy'
  BY <1>6 DEF OneBusy
<1>8. ~overlapped' /\ (\E s \in Settlers : Running(s)) => UNCHANGED pending
  <2>1. ~overlapped' /\ (\E s \in Settlers : Running(s)) => seller[o] # "acked"
    BY <1>3 DEF Alone, OneBusy
  <2> QED BY <1>2, <2>1
<1>9. FileIsBatch'
  <2> SUFFICES ASSUME ~overlapped'
               PROVE  /\ ~corrupt'
                      /\ \A s \in Settlers :
                           /\ spc'[s] \in {"reading", "recording"} => pending' = batch'[s]
                           /\ spc'[s] = "rewriting" => pending' = {}
    BY DEF FileIsBatch
  <2>1. /\ ~corrupt
        /\ \A s \in Settlers :
             /\ spc[s] \in {"reading", "recording"} => pending = batch[s]
             /\ spc[s] = "rewriting" => pending = {}
    BY <1>3 DEF Alone, FileIsBatch
  <2>2. ~corrupt'
    BY <1>0, <2>1
  <2> QED BY <1>0, <1>8, <2>1, <2>2 DEF Running
<1>10. BookedIsGone'
  <2> SUFFICES ASSUME ~overlapped', NEW e \in ledger, spc[e.by] \in {"rewriting", "done", "torn"}
               PROVE  /\ e.order \notin pending'
                      /\ \A t \in Settlers \ {e.by} : Running(t) => e.order \notin batch[t]
    BY <1>0, <1>1 DEF BookedIsGone
  <2>1. /\ e.order \notin pending
        /\ \A t \in Settlers \ {e.by} : Running(t) => e.order \notin batch[t]
    BY <1>3 DEF Alone, BookedIsGone
  <2>2. e.order # o
    BY <1>0, <1>2 DEF Alone, BookedWasRead, FilesKnowCaptured, Entry
  <2> QED BY <1>2, <2>1, <2>2
<1>11. DoubleBookingNeedsKill'
  BY <1>0, <1>3 DEF Alone, DoubleBookingNeedsKill
<1>12. CostBasisKept'
  <2> SUFFICES ASSUME ~overlapped', NEW p \in Orders, seller'[p] = "captured", ~Booked(p)'
               PROVE  StillPending(p)'
    BY DEF CostBasisKept
  <2>1. CASE p = o
    <3>1. p \in pending'
      BY <1>2, <2>1
    <3>2. ~corrupt'
      BY <1>0, <1>3 DEF Alone, FileIsBatch
    <3> QED BY <3>1, <3>2 DEF StillPending
  <2>2. CASE p # o
    <3>1. StillPending(p)
      BY <1>0, <1>2, <1>3, <2>2 DEF Alone, CostBasisKept, Booked
    <3> QED BY <1>0, <1>2, <3>1 DEF StillPending
  <2> QED BY <2>1, <2>2
<1> QED BY <1>4, <1>5, <1>7, <1>9, <1>10, <1>11, <1>12, Zenon DEF Alone

\* A settle that starts finds nobody at work and takes what the file holds.
LEMMA AloneLoad ==
  ASSUME IInv, Alone, NEW s \in Settlers, Load(s)
  PROVE  Alone'
<1> USE DEF TypeOK, fileVars, brokerVars, SettlerAt
<1>0. TypeOK
  BY DEF IInv
<1>1. /\ UNCHANGED <<seller, pending, corrupt, verdict, ledger>>
      /\ spc[s] = "idle"
      /\ \A t \in Settlers \ {s} : spc'[t] = spc[t] /\ batch'[t] = batch[t]
      /\ \/ spc'[s] = "done"
         \/ spc'[s] = "reading" /\ batch'[s] = pending
      /\ batch'[s] \in {batch[s], pending}
  BY <1>0 DEF Load
<1>2. ~overlapped' =>
        ~overlapped /\ (\A o \in Orders : seller[o] # "acked") /\ \A t \in Settlers : ~Running(t)
  BY Zenon DEF Load, Start
<1>3. \A t \in Settlers \ {s} : Running(t)' <=> Running(t)
  BY <1>1 DEF Running
<1>4. \A e \in ledger : e.by \in Settlers /\ e.order \in Orders /\ e.by # s
  BY <1>0, <1>1 DEF Alone, BookedWasRead, Entry
<1>5. FilesKnowCaptured'
  BY <1>1 DEF Alone, FilesKnowCaptured
<1>6. BookedWasRead'
  BY <1>1, <1>4 DEF Alone, BookedWasRead
<1>7. AllIsBooked'
  BY <1>1 DEF Alone, AllIsBooked, Recorded
<1>8. OneBusy'
  BY <1>1, <1>2, <1>3 DEF OneBusy
<1>9. FileIsBatch'
  <2> SUFFICES ASSUME ~overlapped'
               PROVE  /\ ~corrupt'
                      /\ \A t \in Settlers :
                           /\ spc'[t] \in {"reading", "recording"} => pending' = batch'[t]
                           /\ spc'[t] = "rewriting" => pending' = {}
    BY DEF FileIsBatch
  <2>1. ~corrupt'
    BY <1>1, <1>2 DEF Alone, FileIsBatch
  <2>2. \A t \in Settlers \ {s} : spc'[t] \notin {"reading", "recording", "rewriting"}
    BY <1>1, <1>2 DEF Running
  <2> QED BY <1>1, <2>1, <2>2
<1>10. BookedIsGone'
  <2> SUFFICES ASSUME ~overlapped', NEW e \in ledger, spc'[e.by] \in {"rewriting", "done", "torn"}
               PROVE  /\ e.order \notin pending
                      /\ \A t \in Settlers \ {e.by} : Running(t)' => e.order \notin batch'[t]
    BY <1>1 DEF BookedIsGone
  <2>1. e.order \notin pending
    BY <1>1, <1>2, <1>4 DEF Alone, BookedIsGone
  <2>2. \A t \in Settlers \ {s} : ~Running(t)'
    BY <1>2, <1>3
  <2>3. Running(s)' => batch'[s] = pending
    BY <1>1 DEF Running
  <2> QED BY <2>1, <2>2, <2>3
<1>11. DoubleBookingNeedsKill'
  <2> SUFFICES ASSUME NEW e \in ledger, NEW f \in ledger, ~overlapped', e.order = f.order,
                      e.by # f.by
               PROVE  \E t \in {e.by, f.by} : spc'[t] = "dead"
    BY <1>1 DEF DoubleBookingNeedsKill
  <2>1. \E t \in {e.by, f.by} : spc[t] = "dead"
    BY <1>2 DEF Alone, DoubleBookingNeedsKill
  <2> QED BY <1>1, <1>4, <2>1
<1>12. CostBasisKept'
  <2> SUFFICES ASSUME ~overlapped', NEW o \in Orders, seller[o] = "captured", ~Booked(o)
               PROVE  StillPending(o)'
    BY <1>1 DEF CostBasisKept, Booked
  <2>1. StillPending(o)
    BY <1>2 DEF Alone, CostBasisKept
  <2> QED BY <1>1, <2>1 DEF StillPending
<1> QED BY <1>5, <1>6, <1>7, <1>8, <1>9, <1>10, <1>11, <1>12, Zenon DEF Alone

\* The reads change nothing but what the settler knows, before it has booked anything.
LEMMA AloneRead ==
  ASSUME IInv, Alone, NEW s \in Settlers,
         StartRecording(s) \/ \E o \in Orders : ReadOpen(s, o) \/ ReadFills(s, o)
  PROVE  Alone'
<1> USE DEF TypeOK, fileVars, brokerVars, SettlerAt
<1>0. TypeOK
  BY DEF IInv
<1>1. /\ UNCHANGED <<seller, pending, corrupt, batch, ledger, overlapped>>
      /\ spc[s] = "reading" /\ spc'[s] \in {"reading", "recording"}
      /\ \A t \in Settlers \ {s} : spc'[t] = spc[t] /\ verdict'[t] = verdict[t]
  BY <1>0 DEF StartRecording, ReadOpen, ReadFills
<1>2. \A t \in Settlers : Running(t)' <=> Running(t)
  BY <1>1 DEF Running
<1>3. \A e \in ledger : e.by \in Settlers /\ e.by # s
  BY <1>0, <1>1 DEF Alone, BookedWasRead, Entry
<1>4. FilesKnowCaptured' /\ BookedWasRead'
  BY <1>1, <1>3 DEF Alone, FilesKnowCaptured, BookedWasRead
<1>5. AllIsBooked'
  BY <1>1 DEF Alone, AllIsBooked, Recorded
<1>6. OneBusy'
  BY <1>1, <1>2 DEF Alone, OneBusy
<1>7. FileIsBatch'
  BY <1>1 DEF Alone, FileIsBatch
<1>8. BookedIsGone'
  BY <1>1, <1>2, <1>3 DEF Alone, BookedIsGone
<1>9. DoubleBookingNeedsKill'
  BY <1>1, <1>3 DEF Alone, DoubleBookingNeedsKill
<1>10. CostBasisKept'
  BY <1>1 DEF Alone, CostBasisKept, Booked, StillPending
<1> QED BY <1>4, <1>5, <1>6, <1>7, <1>8, <1>9, <1>10, Zenon DEF Alone

\* A trade is booked a second time only after a settler that died before the file.
LEMMA AloneRecord ==
  ASSUME IInv, Alone, NEW s \in Settlers, NEW o \in Orders, Record(s, o)
  PROVE  Alone'
<1> USE DEF TypeOK, fileVars, settlerVars
<1> DEFINE new == [order |-> o, by |-> s, quantity |-> verdict[s][o], day |-> askDay[s]]
<1>0. TypeOK
  BY DEF IInv
<1>1. /\ UNCHANGED <<seller, pending, corrupt, spc, batch, verdict, overlapped>>
      /\ spc[s] = "recording" /\ o \in batch[s] /\ ledger' = ledger \union {new}
  BY DEF Record
<1>2. new.order = o /\ new.by = s /\ new.quantity = verdict[s][o]
  OBVIOUS
<1> HIDE DEF new
<1>3. \A t \in Settlers : Running(t)' <=> Running(t)
  BY <1>1 DEF Running
<1>4. FilesKnowCaptured'
  BY <1>1 DEF Alone, FilesKnowCaptured
<1>5. BookedWasRead'
  BY <1>1, <1>2 DEF Alone, BookedWasRead
<1>6. AllIsBooked'
  BY <1>1 DEF Alone, AllIsBooked, Recorded
<1>7. OneBusy' /\ FileIsBatch'
  BY <1>1, <1>3 DEF Alone, OneBusy, FileIsBatch
<1>8. BookedIsGone'
  BY <1>1, <1>2, <1>3 DEF Alone, BookedIsGone
<1>9. ASSUME ~overlapped, NEW e \in ledger, e.order = o, e.by # s
      PROVE  spc[e.by] = "dead"
  <2>1. e.by \in Settlers /\ spc[e.by] \notin {"idle", "reading"}
    BY <1>0 DEF Alone, BookedWasRead, Entry
  <2>2. Running(s)
    BY <1>1 DEF Running
  <2>3. ~Running(e.by)
    BY <1>9, <2>1, <2>2 DEF Alone, OneBusy
  <2>4. spc[e.by] \notin {"done", "torn"}
    BY <1>1, <1>9, <2>2 DEF Alone, BookedIsGone
  <2> QED BY <1>0, <2>1, <2>3, <2>4 DEF Running
<1>10. DoubleBookingNeedsKill'
  <2> SUFFICES ASSUME NEW e \in ledger', NEW f \in ledger', ~overlapped, e.order = f.order,
                      e.by # f.by
               PROVE  \E t \in {e.by, f.by} : spc[t] = "dead"
    BY <1>1 DEF DoubleBookingNeedsKill
  <2>1. CASE e \in ledger /\ f \in ledger
    BY <2>1 DEF Alone, DoubleBookingNeedsKill
  <2>2. CASE e \in ledger /\ f = new
    BY <1>2, <1>9, <2>2
  <2>3. CASE e = new /\ f \in ledger
    BY <1>2, <1>9, <2>3
  <2> QED BY <1>1, <2>1, <2>2, <2>3
<1>11. CostBasisKept'
  BY <1>1 DEF Alone, CostBasisKept, Booked, StillPending
<1> QED BY <1>4, <1>5, <1>6, <1>7, <1>8, <1>10, <1>11, Zenon DEF Alone

\* The settler at work cuts the file: what was in it is in its batch.
LEMMA AloneTruncate ==
  ASSUME IInv, Alone, NEW s \in Settlers, Truncate(s)
  PROVE  Alone'
<1> USE DEF TypeOK, fileVars, brokerVars, SettlerAt
<1>0. TypeOK
  BY DEF IInv
<1>1. /\ UNCHANGED <<seller, batch, verdict, ledger, overlapped>>
      /\ spc[s] = "recording" /\ spc'[s] = "rewriting"
      /\ \A t \in Settlers \ {s} : spc'[t] = spc[t]
      /\ pending' = {} /\ ~corrupt'
      /\ \A o \in batch[s] : verdict[s][o] > 0 => Recorded(s, o)
  BY <1>0 DEF Truncate
<1>2. \A t \in Settlers : Running(t)' <=> Running(t)
  BY <1>1 DEF Running
<1>3. FilesKnowCaptured' /\ BookedWasRead'
  <2>1. FilesKnowCaptured'
    BY <1>1 DEF Alone, FilesKnowCaptured
  <2>2. \A e \in ledger : e.by \in Settlers
    BY <1>0 DEF Entry
  <2>3. BookedWasRead'
    BY <1>1, <2>2 DEF Alone, BookedWasRead
  <2> QED BY <2>1, <2>3
<1>4. AllIsBooked'
  <2>1. \A o \in batch[s] : verdict[s][o] # Unread
    BY <1>1 DEF IInv, RecordingAfterReads
  <2> QED BY <1>1, <2>1 DEF Alone, AllIsBooked, Recorded
<1>5. OneBusy'
  BY <1>1, <1>2 DEF Alone, OneBusy
<1>6. FileIsBatch'
  <2> SUFFICES ASSUME ~overlapped', NEW t \in Settlers, spc'[t] \in {"reading", "recording"}
               PROVE  FALSE
    BY <1>1 DEF FileIsBatch
  <2>1. t # s /\ Running(t) /\ Running(s)
    BY <1>1 DEF Running
  <2> QED BY <1>1, <2>1 DEF Alone, OneBusy
<1>7. BookedIsGone'
  <2> SUFFICES ASSUME ~overlapped, NEW e \in ledger, spc'[e.by] \in {"rewriting", "done", "torn"},
                      NEW t \in Settlers \ {e.by}, Running(t)
               PROVE  e.order \notin batch[t]
    BY <1>1, <1>2 DEF BookedIsGone
  <2>1. Running(s)
    BY <1>1 DEF Running
  <2>2. t = s
    BY <2>1 DEF Alone, OneBusy
  <2>3. spc[e.by] \in {"rewriting", "done", "torn"}
    BY <1>0, <1>1, <2>2 DEF Entry
  <2> QED BY <2>3 DEF Alone, BookedIsGone
<1>8. DoubleBookingNeedsKill'
  <2> SUFFICES ASSUME NEW e \in ledger, NEW f \in ledger, ~overlapped, e.order = f.order,
                      e.by # f.by
               PROVE  \E t \in {e.by, f.by} : spc'[t] = "dead"
    BY <1>1 DEF DoubleBookingNeedsKill
  <2>1. PICK t \in {e.by, f.by} : spc[t] = "dead"
    BY DEF Alone, DoubleBookingNeedsKill
  <2>2. t \in Settlers
    BY <1>0 DEF Entry
  <2> QED BY <1>1, <2>1, <2>2
<1>9. CostBasisKept'
  <2> SUFFICES ASSUME ~overlapped, NEW o \in Orders, seller[o] = "captured", ~Booked(o)
               PROVE  \E t \in Settlers : spc'[t] \in {"rewriting", "torn"} /\ o \in batch[t]
    BY <1>1 DEF CostBasisKept, Booked, StillPending
  <2>1. StillPending(o)
    BY DEF Alone, CostBasisKept
  <2>2. CASE o \in pending
    BY <1>1, <2>2 DEF Alone, FileIsBatch
  <2>3. CASE o \notin pending
    BY <1>1, <2>1, <2>3 DEF StillPending
  <2> QED BY <2>2, <2>3
<1> QED BY <1>3, <1>4, <1>5, <1>6, <1>7, <1>8, <1>9, Zenon DEF Alone

\* It writes back what it did not book.
LEMMA AloneRewrite ==
  ASSUME IInv, Alone, NEW s \in Settlers, Rewrite(s)
  PROVE  Alone'
<1> USE DEF TypeOK, fileVars, brokerVars, SettlerAt
<1>0. TypeOK
  BY DEF IInv
<1>1. /\ UNCHANGED <<seller, batch, verdict, ledger, overlapped>>
      /\ spc[s] = "rewriting" /\ spc'[s] = "done"
      /\ \A t \in Settlers \ {s} : spc'[t] = spc[t]
      /\ pending' \subseteq pending \union Remaining(s)
  BY <1>0 DEF Rewrite
<1>2. ~overlapped => pending = {} /\ ~corrupt /\ pending' = Remaining(s) /\ ~corrupt'
  <2>1. ~overlapped => pending = {} /\ ~corrupt
    BY <1>1 DEF Alone, FileIsBatch
  <2>2. Remaining(s) = {} => UNCHANGED <<pending, corrupt>>
    BY DEF Rewrite
  <2>3. Remaining(s) # {} /\ pending = {} => pending' = Remaining(s) /\ UNCHANGED corrupt
    BY DEF Rewrite
  <2> QED BY <2>1, <2>2, <2>3
<1>3. \A t \in Settlers : Running(t)' => Running(t) /\ t # s
  BY <1>1 DEF Running
<1>4. \A e \in ledger : e.by \in Settlers
  BY <1>0 DEF Entry
<1>5. Running(s) /\ (~overlapped => \A t \in Settlers : ~Running(t)')
  BY <1>1, <1>3 DEF Running, Alone, OneBusy
<1>6. FilesKnowCaptured'
  BY <1>1 DEF Alone, FilesKnowCaptured, Remaining
<1>7. BookedWasRead'
  BY <1>1, <1>4 DEF Alone, BookedWasRead
<1>8. AllIsBooked'
  BY <1>1 DEF Alone, AllIsBooked, Recorded
<1>9. OneBusy'
  BY <1>1, <1>3 DEF Alone, OneBusy
<1>10. FileIsBatch'
  <2>1. ~overlapped => \A t \in Settlers : spc'[t] \notin {"reading", "recording", "rewriting"}
    BY <1>5 DEF Running
  <2> QED BY <1>1, <1>2, <2>1 DEF FileIsBatch
<1>11. BookedIsGone'
  <2> SUFFICES ASSUME ~overlapped, NEW e \in ledger, spc'[e.by] \in {"rewriting", "done", "torn"}
               PROVE  e.order \notin Remaining(s)
    BY <1>1, <1>2, <1>5 DEF BookedIsGone
  <2>1. CASE e.by = s
    <3>1. verdict[s][e.order] = e.quantity /\ e.quantity # 0
      BY <1>0, <2>1 DEF Alone, BookedWasRead, Entry
    <3> QED BY <3>1 DEF Remaining
  <2>2. CASE e.by # s
    <3>1. spc[e.by] \in {"rewriting", "done", "torn"}
      BY <1>1, <1>4, <2>2
    <3>2. e.order \notin batch[s]
      BY <1>5, <2>2, <3>1 DEF Alone, BookedIsGone
    <3> QED BY <3>2 DEF Remaining
  <2> QED BY <2>1, <2>2
<1>12. DoubleBookingNeedsKill'
  <2> SUFFICES ASSUME NEW e \in ledger, NEW f \in ledger, ~overlapped, e.order = f.order,
                      e.by # f.by
               PROVE  \E t \in {e.by, f.by} : spc'[t] = "dead"
    BY <1>1 DEF DoubleBookingNeedsKill
  <2>1. PICK t \in {e.by, f.by} : spc[t] = "dead"
    BY DEF Alone, DoubleBookingNeedsKill
  <2>2. t \in Settlers
    BY <1>0 DEF Entry
  <2> QED BY <1>1, <2>1, <2>2
<1>13. CostBasisKept'
  <2> SUFFICES ASSUME ~overlapped, NEW o \in Orders, seller[o] = "captured", ~Booked(o)
               PROVE  \/ o \in pending'
                      \/ \E t \in Settlers : spc'[t] \in {"rewriting", "torn"} /\ o \in batch[t]
    BY <1>1, <1>2 DEF CostBasisKept, Booked, StillPending
  <2>1. PICK t \in Settlers : spc[t] \in {"rewriting", "torn"} /\ o \in batch[t]
    BY <1>2 DEF Alone, CostBasisKept, StillPending
  <2>2. CASE t = s
    <3>1. verdict[s][o] # Unread /\ ~(verdict[s][o] > 0)
      BY <1>1, <2>1, <2>2 DEF Alone, AllIsBooked, Recorded, Booked
    <3>2. verdict[s][o] = 0
      BY <1>0, <3>1 DEF Count
    <3> QED BY <1>2, <2>1, <2>2, <3>2 DEF Remaining
  <2>3. CASE t # s
    BY <1>1, <2>1, <2>3
  <2> QED BY <2>2, <2>3
<1> QED BY <1>6, <1>7, <1>8, <1>9, <1>10, <1>11, <1>12, <1>13, Zenon DEF Alone

\* A settler that ends early leaves the file as it is: whole, or cut to nothing.
LEMMA AloneKilled ==
  ASSUME IInv, Alone, NEW s \in Settlers, SettlerKilled(s)
  PROVE  Alone'
<1> USE DEF TypeOK, fileVars, brokerVars, SettlerAt
<1>0. TypeOK
  BY DEF IInv
<1>1. /\ UNCHANGED <<seller, pending, corrupt, batch, verdict, ledger, overlapped>>
      /\ \/ spc[s] \in {"reading", "recording"} /\ spc'[s] = "dead"
         \/ spc[s] = "rewriting" /\ spc'[s] = "torn"
      /\ \A t \in Settlers \ {s} : spc'[t] = spc[t]
  BY <1>0 DEF SettlerKilled
<1>2. \A t \in Settlers : Running(t)' => Running(t) /\ t # s
  BY <1>1 DEF Running
<1>3. \A e \in ledger : e.by \in Settlers
  BY <1>0 DEF Entry
<1>4. FilesKnowCaptured'
  BY <1>1 DEF Alone, FilesKnowCaptured
<1>5. BookedWasRead'
  BY <1>1, <1>3 DEF Alone, BookedWasRead
<1>6. AllIsBooked'
  BY <1>1 DEF Alone, AllIsBooked, Recorded
<1>7. OneBusy'
  BY <1>1, <1>2 DEF Alone, OneBusy
<1>8. FileIsBatch'
  BY <1>1 DEF Alone, FileIsBatch
<1>9. BookedIsGone'
  <2> SUFFICES ASSUME ~overlapped, NEW e \in ledger, spc'[e.by] \in {"rewriting", "done", "torn"}
               PROVE  /\ e.order \notin pending
                      /\ \A t \in Settlers \ {e.by} : Running(t)' => e.order \notin batch[t]
    BY <1>1 DEF BookedIsGone
  <2>1. spc[e.by] \in {"rewriting", "done", "torn"}
    BY <1>1, <1>3
  <2> QED BY <1>2, <2>1 DEF Alone, BookedIsGone
<1>10. DoubleBookingNeedsKill'
  <2> SUFFICES ASSUME NEW e \in ledger, NEW f \in ledger, ~overlapped, e.order = f.order,
                      e.by # f.by
               PROVE  \E t \in {e.by, f.by} : spc'[t] = "dead"
    BY <1>1 DEF DoubleBookingNeedsKill
  <2>1. PICK t \in {e.by, f.by} : spc[t] = "dead"
    BY DEF Alone, DoubleBookingNeedsKill
  <2>2. t \in Settlers
    BY <1>0 DEF Entry
  <2> QED BY <1>1, <2>1, <2>2
<1>11. CostBasisKept'
  <2> SUFFICES ASSUME ~overlapped, NEW o \in Orders, seller[o] = "captured", ~Booked(o)
               PROVE  StillPending(o)'
    BY <1>1 DEF CostBasisKept, Booked
  <2>1. StillPending(o)
    BY DEF Alone, CostBasisKept
  <2> QED BY <1>1, <2>1 DEF StillPending
<1> QED BY <1>4, <1>5, <1>6, <1>7, <1>8, <1>9, <1>10, <1>11, Zenon DEF Alone

LEMMA NextAlone == IInv /\ Alone /\ [Next]_vars => Alone'
<1> SUFFICES ASSUME IInv, Alone, [Next]_vars PROVE Alone'
  OBVIOUS
<1>1. CASE Broker \/ UNCHANGED vars
  <2>1. UNCHANGED <<seller, pending, corrupt, spc, batch, verdict, ledger, overlapped>>
    BY <1>1 DEF Broker, Fill, Expire, NextDay, vars, fileVars, settlerVars
  <2> QED BY <2>1, AloneStays
<1>2. ASSUME NEW o \in Orders, Sell(o) PROVE Alone'
  BY <1>2, AloneSell
<1>3. ASSUME NEW s \in Settlers, Settle(s) PROVE Alone'
  BY <1>3, AloneLoad, AloneRead, AloneRecord, AloneTruncate, AloneRewrite, AloneKilled DEF Settle
<1> QED BY <1>1, <1>2, <1>3 DEF Next

THEOREM AloneAlways == Spec => []Alone
<1>1. Spec => [](IInv /\ Alone)
  BY InitIInv, NextIInv, InitAlone, NextAlone, PTL DEF Spec
<1> QED BY <1>1, PTL

\* The state keeps its shape whatever overlaps: orders, files, settlers and ledger.
THEOREM TypeCorrect == Spec => []TypeOK
<1>1. IInv => TypeOK
  BY DEF IInv
<1> QED BY <1>1, Inductive, PTL

\* A loss is booked twice only by a settle that followed one killed before it rewrote the
\* pending-sells file, or while two invocations overlapped.
THEOREM BookedTwiceNeedsKill == Spec => []DoubleBookingNeedsKill
<1>1. Alone => DoubleBookingNeedsKill
  BY DEF Alone
<1> QED BY <1>1, AloneAlways, PTL

\* While invocations follow each other, rewrite_pending_sells loses no cost basis outside the
\* window of its own write.
THEOREM CostBasisSafe == Spec => []CostBasisKept
<1>1. Alone => CostBasisKept
  BY DEF Alone
<1> QED BY <1>1, AloneAlways, PTL

----------------------------------------------------------------------------------
(***************************************************************************)
(* Why three reads, one after the other, lose nothing, for any number of   *)
(* orders, any page size and any page cap: an order leaves the open orders *)
(* for good, and what has traded stays among the fills, which are read     *)
(* last.                                                                   *)
(***************************************************************************)

(***************************************************************************)
(* The invariant                                                           *)
(***************************************************************************)
Bounded(S) == \E n \in Nat : \A x \in S : x <= n

Row == [order : DayOrders, filled : 0 .. Shares]
After(list) ==
  CASE list = "balance" -> {"open", "fills", "done"}
    [] list = "open" -> {"fills", "done"}
    [] list = "fills" -> {"done"}

\* The book of orders up to some last one, and what the reader has of it.
Shape ==
  /\ placed \subseteq DayOrders /\ Bounded(placed)
  /\ cancelled \subseteq placed
  /\ traded \in [DayOrders -> 0 .. Shares]
  /\ stage \in Lists \cup {"idle", "done", "failed"}
  /\ cursor \in Nat /\ rows \subseteq Row
  /\ snapshot \in [Lists -> (SUBSET Row) \cup {None}]
  /\ \A l \in Lists : stage \in After(l) => snapshot[l] \subseteq Row
  /\ stage # "idle" => atStart \subseteq placed

\* A row read once stays true as a lower bound.
Bounds(set) == \A r \in set : r.order \in placed /\ r.filled <= traded[r.order]
RowsAreBounds ==
  /\ Bounds(rows)
  /\ \A l \in Lists : stage \in After(l) => Bounds(snapshot[l])

Over(o) == o \in cancelled \/ traded[o] = Shares
Collected(o, n) == \E r \in rows : r.order = o /\ r.filled >= n

\* Past the cursor, an order is among the rows of the open orders or over.
OpenCovered ==
  stage = "open" => \A o \in atStart : o <= cursor => Over(o) \/ Collected(o, 0)

\* Once the open orders are read, an order that they do not show is over.
NotOpenIsOver ==
  stage \in After("open") => \A o \in atStart : Shown("open", o) \/ Over(o)

\* Past the cursor, the rows of the fills have every order, with what the holdings and the
\* open orders had of it.
FillsCovered ==
  stage = "fills" =>
    /\ \A o \in atStart : o <= cursor => Collected(o, 0)
    /\ \A r \in snapshot["balance"] \cup snapshot["open"] :
         r.filled > 0 /\ r.order <= cursor => Collected(r.order, r.filled)

\* The rows of the fills have the last word on an order that is over.
FillsFinal ==
  stage = "fills" =>
    \A r \in rows : r.order \in atStart /\ ~Shown("open", r.order) => r.filled = traded[r.order]

ReaderInv ==
  /\ Shape
  /\ RowsAreBounds
  /\ OpenCovered
  /\ NotOpenIsOver
  /\ FillsCovered
  /\ FillsFinal
  /\ NothingLost
  /\ FinalWhenNotOpen

(***************************************************************************)
(* Pages                                                                   *)
(***************************************************************************)
LEMMA MaxOfBounded ==
  ASSUME NEW S \in SUBSET Nat, S # {}, Bounded(S)
  PROVE  Max(S) \in S /\ \A y \in S : y <= Max(S)
<1>1. PICK n \in Nat : \A x \in S : x <= n
  BY DEF Bounded
<1> DEFINE D == {n - x : x \in S}
<1>2. D \subseteq Nat /\ D # {}
  <2>1. \A x \in S : x \in Nat /\ n - x \in Nat
    BY <1>1
  <2> QED BY <2>1
<1> HIDE DEF D
<1>3. PICK d \in D : \A e \in D : <<e, d>> \notin OpToRel(<, Nat)
  BY <1>2, NatLessThanWellFounded, WFMin
<1>4. \A e \in D : d <= e
  <2> SUFFICES ASSUME NEW e \in D PROVE d <= e
    OBVIOUS
  <2>1. <<e, d>> \in Nat \X Nat /\ d \in Nat /\ e \in Nat
    BY <1>2
  <2>2. ~(e < d)
    BY <1>3, <2>1 DEF OpToRel
  <2> QED BY <2>1, <2>2
<1>5. PICK x \in S : d = n - x
  BY DEF D
<1>6. \A y \in S : y <= x
  <2> SUFFICES ASSUME NEW y \in S PROVE y <= x
    OBVIOUS
  <2>1. d <= n - y
    BY <1>4 DEF D
  <2> QED BY <1>5, <2>1
<1>7. \E z \in S : \A y \in S : z >= y
  BY <1>6
<1>8. Max(S) \in S /\ \A y \in S : Max(S) >= y
  BY <1>7 DEF Max
<1> QED BY <1>8

LEMMA BoundedIsFinite ==
  ASSUME NEW S \in SUBSET Nat, Bounded(S)
  PROVE  IsFiniteSet(S)
<1>1. PICK n \in Nat : \A x \in S : x <= n
  BY DEF Bounded
<1>2. S \subseteq 0 .. n
  BY <1>1
<1>3. IsFiniteSet(0 .. n)
  BY FS_Interval
<1> QED BY <1>2, <1>3, FS_Subset

\* A page leaves out no row up to its last one, and the list is complete when no more follow.
LEMMA PageCovers ==
  ASSUME Shape, NEW again \in BOOLEAN
  PROVE  LET page == Page(again) IN
         /\ page \subseteq Listed /\ Listed \subseteq placed
         /\ Last(page) \in Nat
         /\ \A o \in Listed : cursor < o /\ o <= Last(page) => o \in page
         /\ Complete(page) => \A o \in Listed : o <= Last(page)
<1> DEFINE page == Page(again)
           Before(q) == {p \in From(again) : p < q}
<1>1. Listed \subseteq placed /\ From(again) \subseteq Listed /\ page \subseteq From(again)
  BY DEF Listed, Live, Traded, From, Page
<1>2. placed \subseteq Nat /\ Bounded(placed) /\ cursor \in Nat
  BY ReaderBounds DEF Shape
<1>3. page \subseteq Nat /\ Bounded(page) /\ From(again) \subseteq Nat /\ Bounded(From(again))
  <2>1. page \subseteq placed /\ From(again) \subseteq placed
    BY <1>1
  <2> HIDE DEF page
  <2> QED BY <1>2, <2>1 DEF Bounded
<1>4. page # {} => Last(page) \in page /\ \A o \in page : o <= Last(page)
  <2> HIDE DEF page
  <2> QED BY <1>3, MaxOfBounded DEF Last
<1>5. Last(page) \in Nat
  BY <1>2, <1>3, <1>4 DEF Last
<1>6. ASSUME NEW o \in Listed, cursor < o, o <= Last(page) PROVE o \in page
  <2>1. o \in Nat
    BY <1>1, <1>2
  <2>2. page # {}
    BY <1>2, <1>6, <2>1 DEF Last
  <2> DEFINE l == Last(page)
  <2>3. l \in page /\ l \in From(again) /\ l \in Nat
    BY <1>1, <1>3, <1>4, <2>2
  <2>4. o \in From(again)
    BY <1>6 DEF From
  <2>5. Cardinality(Before(l)) < PageSize
    BY <2>3 DEF Page
  <2>6. IsFiniteSet(Before(l)) /\ Before(o) \subseteq Before(l)
    <3>1. IsFiniteSet(From(again))
      BY <1>3, BoundedIsFinite
    <3>2. Before(l) \subseteq From(again)
      OBVIOUS
    <3>3. IsFiniteSet(Before(l))
      BY <3>1, <3>2, FS_Subset
    <3>4. Before(o) \subseteq Before(l)
      BY <1>3, <1>6, <2>1, <2>3
    <3> QED BY <3>3, <3>4
  <2>7. Cardinality(Before(o)) <= Cardinality(Before(l))
        /\ Cardinality(Before(o)) \in Nat /\ Cardinality(Before(l)) \in Nat
    BY <2>6, FS_Subset, FS_CardinalityType
  <2>8. Cardinality(Before(o)) < PageSize
    BY <2>5, <2>7, ReaderBounds
  <2> QED BY <2>4, <2>8 DEF Page
<1>7. Complete(page) => \A o \in Listed : o <= Last(page)
  BY <1>1, <1>2, <1>5 DEF Complete, More
<1> QED BY <1>1, <1>5, <1>6, <1>7

\* The rows of a page say what has traded at that moment.
LEMMA PageRows ==
  ASSUME Shape, NEW page \in SUBSET placed
  PROVE  /\ RowsOf(page) \subseteq Row
         /\ \A r \in RowsOf(page) : r.order \in page /\ r.filled = traded[r.order]
         /\ \A o \in page : \E r \in RowsOf(page) : r.order = o /\ r.filled = traded[o]
<1>1. \A o \in page : o \in DayOrders /\ traded[o] \in 0 .. Shares
  BY DEF Shape
<1>2. \A o \in page : [order |-> o, filled |-> traded[o]] \in Row
  BY <1>1 DEF Row
<1>3. RowsOf(page) \subseteq Row
  BY <1>2 DEF RowsOf
<1>4. \A r \in RowsOf(page) : r.order \in page /\ r.filled = traded[r.order]
  BY DEF RowsOf
<1>5. ASSUME NEW o \in page PROVE \E r \in RowsOf(page) : r.order = o /\ r.filled = traded[o]
  <2>1. [order |-> o, filled |-> traded[o]] \in RowsOf(page)
    BY DEF RowsOf
  <2> QED BY <2>1
<1> QED BY <1>3, <1>4, <1>5

(***************************************************************************)
(* Every step keeps the invariant                                          *)
(***************************************************************************)
LEMMA InitReader == ReaderInit => ReaderInv
<1> SUFFICES ASSUME ReaderInit PROVE ReaderInv
  OBVIOUS
<1> USE DEF ReaderInit, After, Lists
<1>1. Bounded(placed)
  BY DEF Bounded
<1>2. Shape
  <2>1. placed \subseteq DayOrders /\ cancelled \subseteq placed /\ cursor \in Nat /\ rows \subseteq Row
    OBVIOUS
  <2>2. traded \in [DayOrders -> 0 .. Shares]
    BY ReaderBounds
  <2>3. snapshot \in [Lists -> (SUBSET Row) \cup {None}]
    OBVIOUS
  <2>4. \A l \in Lists : stage \notin After(l)
    OBVIOUS
  <2> QED BY <1>1, <2>1, <2>2, <2>3, <2>4 DEF Shape
<1>3. RowsAreBounds
  BY DEF RowsAreBounds, Bounds
<1>4. OpenCovered /\ NotOpenIsOver /\ FillsCovered /\ FillsFinal
  BY DEF OpenCovered, NotOpenIsOver, FillsCovered, FillsFinal
<1>5. NothingLost /\ FinalWhenNotOpen
  BY DEF NothingLost, FinalWhenNotOpen
<1> QED BY <1>2, <1>3, <1>4, <1>5 DEF ReaderInv

\* Orders are placed, trade and are cancelled: what is over stays over.
LEMMA BookStep ==
  ASSUME ReaderInv, NEW o \in DayOrders, Enter(o) \/ Trade(o) \/ Cancel(o),
         UNCHANGED <<stage, pages, cursor, rows, snapshot, atStart>>
  PROVE  ReaderInv'
<1>0. Shape /\ RowsAreBounds
  BY DEF ReaderInv
<1>a. placed \subseteq DayOrders /\ cancelled \subseteq placed /\ traded \in [DayOrders -> 0 .. Shares]
  BY <1>0 DEF Shape
<1>1. /\ placed \subseteq placed' /\ placed' \subseteq DayOrders
      /\ cancelled \subseteq cancelled' /\ cancelled' \subseteq placed'
      /\ traded' \in [DayOrders -> 0 .. Shares]
  <2>1. CASE Enter(o)
    BY <1>a, <2>1 DEF Enter
  <2>2. CASE Trade(o)
    <3>1. traded[o] + 1 \in 0 .. Shares
      BY <1>a, <2>2, ReaderBounds DEF Trade, Live
    <3> QED BY <1>a, <2>2, <3>1 DEF Trade
  <2>3. CASE Cancel(o)
    BY <1>a, <2>3 DEF Cancel, Live
  <2> QED BY <2>1, <2>2, <2>3
<1>2. /\ \A p \in DayOrders : traded[p] <= traded'[p]
      /\ \A p \in placed : Over(p) => Over(p)' /\ traded'[p] = traded[p]
  BY <1>a, <1>1, ReaderBounds DEF Enter, Trade, Cancel, Live, Over
<1>3. \A p \in placed : traded'[p] = Shares /\ Over(p) => traded[p] = Shares
  BY <1>2
<1>4. Bounded(placed')
  <2>1. PICK n \in Nat : \A p \in placed : p <= n
    BY <1>0 DEF Shape, Bounded
  <2>2. placed' \subseteq placed \cup {o} /\ placed \cup {o} \subseteq Nat
    BY <1>0, ReaderBounds DEF Enter, Trade, Cancel, Shape
  <2>3. CASE o <= n
    BY <2>1, <2>2, <2>3 DEF Bounded
  <2>4. CASE ~(o <= n)
    <3>1. o \in Nat /\ \A p \in placed' : p <= o
      BY <2>1, <2>2, <2>4
    <3> QED BY <3>1 DEF Bounded
  <2> QED BY <2>3, <2>4
<1>5. Shape'
  BY <1>0, <1>1, <1>4 DEF Shape
<1>6. ASSUME NEW set, set \subseteq Row, Bounds(set)
      PROVE  \A r \in set : r.order \in placed' /\ r.filled <= traded'[r.order]
  <2> SUFFICES ASSUME NEW r \in set PROVE r.order \in placed' /\ r.filled <= traded'[r.order]
    OBVIOUS
  <2>1. r.order \in placed /\ r.filled <= traded[r.order] /\ r.filled \in Nat /\ r.order \in DayOrders
    BY <1>6 DEF Bounds, Row
  <2> DEFINE p == r.order
  <2>2. p \in DayOrders
    BY <2>1
  <2> HIDE DEF p
  <2>3. traded[p] \in 0 .. Shares /\ traded'[p] \in 0 .. Shares
    BY <1>a, <1>1, <2>2
  <2>4. traded[p] \in Nat /\ traded'[p] \in Nat /\ traded[p] <= traded'[p]
    BY <1>2, <2>2, <2>3, ReaderBounds
  <2> QED BY <1>1, <2>1, <2>4 DEF p
<1>7. RowsAreBounds'
  <2>1. \A r \in rows : r.order \in placed' /\ r.filled <= traded'[r.order]
    BY <1>0, <1>6 DEF Shape, RowsAreBounds
  <2>2. \A l \in Lists : stage \in After(l) =>
          \A r \in snapshot[l] : r.order \in placed' /\ r.filled <= traded'[r.order]
    BY <1>0, <1>6 DEF Shape, RowsAreBounds
  <2> QED BY <2>1, <2>2 DEF RowsAreBounds, Bounds
<1>8. stage # "idle" => atStart \subseteq placed
  BY <1>0 DEF Shape
<1>9. \A p, n : /\ Collected(p, n)' <=> Collected(p, n)
                /\ Shown("open", p)' <=> Shown("open", p)
                /\ Shown("fills", p)' <=> Shown("fills", p)
                /\ ShownFilled(p, n)' <=> ShownFilled(p, n)
  BY DEF Collected, Shown, ShownFilled
<1>10. OpenCovered'
  BY <1>2, <1>8, <1>9 DEF ReaderInv, OpenCovered
<1>11. NotOpenIsOver'
  BY <1>2, <1>8, <1>9 DEF ReaderInv, NotOpenIsOver, After
<1>12. FillsCovered'
  BY <1>2, <1>3, <1>8, <1>9 DEF ReaderInv, FillsCovered, NotOpenIsOver, After
<1>13. FillsFinal'
  BY <1>2, <1>8, <1>9 DEF ReaderInv, FillsFinal, NotOpenIsOver, After
<1>14. NothingLost'
  <2>1. \A p : Assess(p, FALSE)' = Assess(p, FALSE)
    BY <1>9 DEF Assess
  <2> QED BY <1>1, <1>9, <2>1 DEF ReaderInv, NothingLost
<1>15. FinalWhenNotOpen'
  BY <1>2, <1>8, <1>9 DEF ReaderInv, FinalWhenNotOpen, NotOpenIsOver, After
<1> QED BY <1>5, <1>7, <1>10, <1>11, <1>12, <1>13, <1>14, <1>15 DEF ReaderInv

(***************************************************************************)
(* One more page: what the rows say with it, as far as it reaches.         *)
(***************************************************************************)
Reached(page, o) == o <= Last(page) \/ Complete(page)
Among(set, o, n) == \E r \in set : r.order = o /\ r.filled >= n

LEMMA PageRead ==
  ASSUME ReaderInv, stage \in Lists, NEW again \in BOOLEAN, NEW page, page = Page(again),
         NEW read, read = rows \cup RowsOf(page)
  PROVE  /\ read \subseteq Row /\ Bounds(read) /\ Last(page) \in Nat
         /\ stage = "open" =>
              \A o \in atStart : Reached(page, o) => Over(o) \/ Among(read, o, 0)
         /\ stage = "fills" =>
              /\ \A o \in atStart : Reached(page, o) => Among(read, o, 0)
              /\ \A r \in snapshot["balance"] \cup snapshot["open"] :
                   r.filled > 0 /\ Reached(page, r.order) => Among(read, r.order, r.filled)
              /\ \A r \in read :
                   r.order \in atStart /\ ~Shown("open", r.order) => r.filled = traded[r.order]
<1>0. Shape /\ RowsAreBounds
  BY DEF ReaderInv
<1>1. /\ page \subseteq Listed /\ Listed \subseteq placed /\ Last(page) \in Nat
      /\ \A o \in Listed : cursor < o /\ o <= Last(page) => o \in page
      /\ Complete(page) => \A o \in Listed : o <= Last(page)
  BY <1>0, PageCovers
<1>2. /\ RowsOf(page) \subseteq Row
      /\ \A r \in RowsOf(page) : r.order \in page /\ r.filled = traded[r.order]
      /\ \A o \in page : \E r \in RowsOf(page) : r.order = o /\ r.filled = traded[o]
  BY <1>0, <1>1, PageRows
<1>3. /\ rows \subseteq Row /\ Bounds(rows) /\ cursor \in Nat
      /\ placed \subseteq DayOrders /\ atStart \subseteq placed /\ placed \subseteq Nat
  BY <1>0, ReaderBounds DEF Shape, RowsAreBounds, Lists
<1>4. \A o \in placed : traded[o] \in Nat /\ traded[o] <= Shares
  BY <1>3, <1>0, ReaderBounds DEF Shape
<1>5. read \subseteq Row
  BY <1>2, <1>3
<1>6. Bounds(read)
  <2>1. \A r \in RowsOf(page) : r.order \in placed /\ r.filled = traded[r.order] /\ traded[r.order] \in Nat
    BY <1>1, <1>2, <1>4
  <2>2. \A r \in RowsOf(page) : r.order \in placed /\ r.filled <= traded[r.order]
    BY <2>1
  <2> QED BY <1>3, <2>2 DEF Bounds
<1>7. \A o \in Listed : Reached(page, o) => o <= cursor \/ o \in page
  BY <1>1, <1>3 DEF Reached
<1>8. \A o \in page : Among(read, o, traded[o])
  <2>1. \A o \in page : traded[o] \in Nat
    BY <1>1, <1>4
  <2> QED BY <1>2, <2>1 DEF Among
<1>9. \A o, n : Collected(o, n) => Among(read, o, n)
  BY DEF Collected, Among
<1>10. \A o \in page, n \in Nat : n <= traded[o] => Among(read, o, n)
  <2> SUFFICES ASSUME NEW o \in page, NEW n \in Nat, n <= traded[o] PROVE Among(read, o, n)
    OBVIOUS
  <2>1. PICK r \in read : r.order = o /\ r.filled >= traded[o]
    BY <1>8 DEF Among
  <2>2. r.filled \in Nat /\ traded[o] \in Nat
    BY <1>1, <1>4, <1>5, ReaderBounds DEF Row
  <2>3. r.filled >= n
    BY <2>1, <2>2
  <2> QED BY <2>1, <2>3 DEF Among
<1>11. ASSUME stage = "open", NEW o \in atStart, Reached(page, o), ~Over(o)
       PROVE  Among(read, o, 0)
  <2>1. o \in Listed
    BY <1>3, <1>4, <1>11, ReaderBounds DEF Listed, Live, Over
  <2>2. o <= cursor \/ o \in page
    BY <1>7, <1>11, <2>1
  <2>3. CASE o <= cursor
    BY <1>9, <1>11, <2>3 DEF ReaderInv, OpenCovered
  <2>4. CASE o \in page
    <3>1. o \in placed
      BY <1>1, <2>4
    <3>2. 0 \in Nat /\ 0 <= traded[o]
      BY <1>4, <3>1
    <3> QED BY <1>10, <2>4, <3>2
  <2> QED BY <2>2, <2>3, <2>4
<1>12. ASSUME stage = "fills", NEW o \in atStart, Reached(page, o)
       PROVE  Among(read, o, 0)
  <2>1. o \in Listed
    BY <1>3, <1>12 DEF Listed
  <2>2. o <= cursor \/ o \in page
    BY <1>7, <1>12, <2>1
  <2>3. CASE o <= cursor
    BY <1>9, <1>12, <2>3 DEF ReaderInv, FillsCovered
  <2>4. CASE o \in page
    <3>1. o \in placed
      BY <1>1, <2>4
    <3>2. 0 \in Nat /\ 0 <= traded[o]
      BY <1>4, <3>1
    <3> QED BY <1>10, <2>4, <3>2
  <2> QED BY <2>2, <2>3, <2>4
<1>13. ASSUME stage = "fills", NEW r \in snapshot["balance"] \cup snapshot["open"],
              r.filled > 0, Reached(page, r.order)
       PROVE  Among(read, r.order, r.filled)
  <2>1. r \in Row /\ r.order \in placed /\ r.filled <= traded[r.order]
    BY <1>0, <1>13 DEF Shape, RowsAreBounds, Bounds, Lists, After
  <2>2. r.filled \in Nat /\ traded[r.order] \in Nat
    BY <1>4, <2>1, ReaderBounds DEF Row
  <2>3. r.order \in Listed
    BY <1>13, <2>1 DEF Listed
  <2>4. r.order <= cursor \/ r.order \in page
    BY <1>7, <1>13, <2>3
  <2>5. CASE r.order <= cursor
    BY <1>9, <1>13, <2>5 DEF ReaderInv, FillsCovered
  <2>6. CASE r.order \in page
    BY <1>10, <2>1, <2>2, <2>6
  <2> QED BY <2>4, <2>5, <2>6
<1>14. stage = "fills" => \A r \in read :
         r.order \in atStart /\ ~Shown("open", r.order) => r.filled = traded[r.order]
  BY <1>2 DEF ReaderInv, FillsFinal
<1> QED BY <1>1, <1>5, <1>6, <1>11, <1>12, <1>13, <1>14

(***************************************************************************)
(* The reader's steps                                                      *)
(***************************************************************************)
LEMMA StartStep == ASSUME ReaderInv, StartReading PROVE ReaderInv'
<1>1. Shape'
  BY DEF ReaderInv, Shape, StartReading, book, Lists, After, Bounded, Row
<1>2. RowsAreBounds'
  BY DEF ReaderInv, StartReading, book, Lists, After, RowsAreBounds, Bounds
<1>3. stage' = "balance"
  BY DEF StartReading
<1>4. OpenCovered' /\ NotOpenIsOver' /\ FillsCovered' /\ FillsFinal'
  BY <1>3 DEF OpenCovered, NotOpenIsOver, FillsCovered, FillsFinal, After
<1>5. NothingLost' /\ FinalWhenNotOpen'
  BY <1>3 DEF NothingLost, FinalWhenNotOpen
<1> QED BY <1>1, <1>2, <1>4, <1>5, Zenon DEF ReaderInv

LEMMA RaiseStep == ASSUME ReaderInv, Raise PROVE ReaderInv'
<1>1. Shape'
  BY DEF ReaderInv, Shape, Raise, FirstPage, book, Lists, After, Bounded, Row
<1>2. stage' = "failed" /\ rows' = {}
  BY DEF Raise, FirstPage
<1>3. RowsAreBounds'
  BY <1>2 DEF Lists, After, RowsAreBounds, Bounds
<1>4. OpenCovered' /\ NotOpenIsOver' /\ FillsCovered' /\ FillsFinal'
  BY <1>2 DEF OpenCovered, NotOpenIsOver, FillsCovered, FillsFinal, After
<1>5. NothingLost' /\ FinalWhenNotOpen'
  BY <1>2 DEF NothingLost, FinalWhenNotOpen
<1> QED BY <1>1, <1>3, <1>4, <1>5, Zenon DEF ReaderInv

LEMMA ContinueStep ==
  ASSUME ReaderInv, stage \in Lists, NEW again \in BOOLEAN, Continue(Page(again)),
         UNCHANGED <<book, atStart>>
  PROVE  ReaderInv'
<1> DEFINE page == Page(again)
           read == rows \cup RowsOf(page)
<1>1. /\ rows' = read /\ cursor' = Last(page)
      /\ stage' = stage /\ snapshot' = snapshot /\ atStart' = atStart
      /\ placed' = placed /\ cancelled' = cancelled /\ traded' = traded
  BY DEF Continue, book
<1>2. /\ read \subseteq Row /\ Bounds(read) /\ Last(page) \in Nat
      /\ stage = "open" =>
           \A o \in atStart : Reached(page, o) => Over(o) \/ Among(read, o, 0)
      /\ stage = "fills" =>
           /\ \A o \in atStart : Reached(page, o) => Among(read, o, 0)
           /\ \A r \in snapshot["balance"] \cup snapshot["open"] :
                r.filled > 0 /\ Reached(page, r.order) => Among(read, r.order, r.filled)
           /\ \A r \in read :
                r.order \in atStart /\ ~Shown("open", r.order) => r.filled = traded[r.order]
  BY PageRead
<1> HIDE DEF page, read
<1>3. \A o, n : /\ Among(read, o, n) => Collected(o, n)'
                /\ Shown("open", o)' <=> Shown("open", o)
                /\ Over(o)' <=> Over(o)
                /\ o <= cursor' => Reached(page, o)
  BY <1>1 DEF Among, Collected, Shown, Over, Reached
<1>4. Shape'
  BY <1>1, <1>2 DEF ReaderInv, Shape, Bounded
<1>5. RowsAreBounds'
  BY <1>1, <1>2 DEF ReaderInv, RowsAreBounds, Bounds
<1>6. OpenCovered'
  BY <1>1, <1>2, <1>3 DEF OpenCovered
<1>7. NotOpenIsOver'
  BY <1>1, <1>3 DEF ReaderInv, NotOpenIsOver
<1>8. FillsCovered'
  BY <1>1, <1>2, <1>3 DEF FillsCovered
<1>9. FillsFinal'
  BY <1>1, <1>2, <1>3 DEF FillsFinal
<1>10. NothingLost' /\ FinalWhenNotOpen'
  BY <1>1 DEF NothingLost, FinalWhenNotOpen, Lists
<1> QED BY <1>4, <1>5, <1>6, <1>7, <1>8, <1>9, <1>10, Zenon DEF ReaderInv

\* The complete list is kept, and the next one begins before the first order.
LEMMA EndListStep ==
  ASSUME ReaderInv, stage \in Lists, NEW again \in BOOLEAN, EndList(Page(again)),
         UNCHANGED <<book, atStart>>
  PROVE  ReaderInv'
<1> DEFINE page == Page(again)
           read == rows \cup RowsOf(page)
<1>1. /\ rows' = {} /\ cursor' = 0
      /\ stage' = NextList(stage) /\ snapshot' = [snapshot EXCEPT ![stage] = read]
      /\ atStart' = atStart
      /\ placed' = placed /\ cancelled' = cancelled /\ traded' = traded
      /\ Complete(page)
  BY DEF EndList, FirstPage, book
<1>2. /\ read \subseteq Row /\ Bounds(read)
      /\ stage = "open" =>
           \A o \in atStart : Over(o) \/ Among(read, o, 0)
      /\ stage = "fills" =>
           /\ \A o \in atStart : Among(read, o, 0)
           /\ \A r \in snapshot["balance"] \cup snapshot["open"] :
                r.filled > 0 => Among(read, r.order, r.filled)
           /\ \A r \in read :
                r.order \in atStart /\ ~Shown("open", r.order) => r.filled = traded[r.order]
  <2>1. \A o : Reached(page, o)
    BY <1>1 DEF Reached
  <2> HIDE DEF page
  <2> QED BY <2>1, PageRead DEF page
<1> HIDE DEF page, read
<1>3. snapshot \in [Lists -> (SUBSET Row) \cup {None}] /\ atStart \subseteq Nat \ {0}
  BY ReaderBounds DEF ReaderInv, Shape, Lists
<1>4. \/ stage = "balance" /\ stage' = "open"
      \/ stage = "open" /\ stage' = "fills"
      \/ stage = "fills" /\ stage' = "done"
  BY <1>1 DEF NextList, Lists
<1>5. /\ snapshot'[stage] = read
      /\ \A l \in Lists \ {stage} : snapshot'[l] = snapshot[l]
  BY <1>1, <1>3
<1>6. \A l \in Lists : stage' \in After(l) => l = stage \/ stage \in After(l)
  BY <1>4 DEF Lists, After
<1>7. Shape'
  <2>1. snapshot' \in [Lists -> (SUBSET Row) \cup {None}]
    BY <1>1, <1>2, <1>3
  <2>2. \A l \in Lists : stage' \in After(l) => snapshot'[l] \subseteq Row
    BY <1>2, <1>5, <1>6 DEF ReaderInv, Shape
  <2>3. stage' \in Lists \cup {"idle", "done", "failed"} /\ stage # "idle"
    BY <1>4 DEF Lists
  <2>4. Bounded(placed)'
    BY <1>1 DEF ReaderInv, Shape, Bounded
  <2> QED BY <1>1, <2>1, <2>2, <2>3, <2>4 DEF ReaderInv, Shape
<1>8. RowsAreBounds'
  <2>1. \A l \in Lists : stage' \in After(l) =>
          \A r \in snapshot'[l] : r.order \in placed /\ r.filled <= traded[r.order]
    BY <1>2, <1>5, <1>6 DEF ReaderInv, RowsAreBounds, Bounds
  <2> QED BY <1>1, <2>1 DEF RowsAreBounds, Bounds
<1>9. \A o \in atStart : ~(o <= cursor')
  BY <1>1, <1>3
<1>10. OpenCovered' /\ FillsFinal'
  BY <1>1, <1>9 DEF OpenCovered, FillsFinal
<1>11. FillsCovered'
  <2> SUFFICES ASSUME stage' = "fills"
               PROVE  \A r \in snapshot'["balance"] \cup snapshot'["open"] : ~(r.order <= cursor')
    BY <1>1, <1>9 DEF FillsCovered
  <2>1. snapshot'["balance"] \subseteq Row /\ snapshot'["open"] \subseteq Row
    BY <1>7 DEF Shape, Lists, After
  <2>2. \A r \in Row : r.order \in Nat \ {0}
    BY ReaderBounds DEF Row
  <2>3. \A r \in Row : ~(r.order <= cursor')
    BY <1>1, <2>2
  <2> QED BY <2>1, <2>3
<1>12. \A o : Over(o)' <=> Over(o)
  BY <1>1 DEF Over
<1>13. NotOpenIsOver'
  <2>1. CASE stage = "open"
    <3>1. \A o : Among(read, o, 0) => Shown("open", o)'
      BY <1>5, <2>1 DEF Among, Shown
    <3> QED BY <1>1, <1>2, <1>12, <2>1, <3>1 DEF NotOpenIsOver
  <2>2. CASE stage = "fills"
    <3>1. \A o : Shown("open", o)' <=> Shown("open", o)
      BY <1>5, <2>2 DEF Shown, Lists
    <3> QED BY <1>1, <1>12, <2>2, <3>1 DEF ReaderInv, NotOpenIsOver, After
  <2>3. CASE stage = "balance"
    BY <1>4, <2>3 DEF NotOpenIsOver, After
  <2> QED BY <1>4, <2>1, <2>2, <2>3
<1>14. CASE stage # "fills"
  <2>1. NothingLost' /\ FinalWhenNotOpen'
    BY <1>4, <1>14 DEF NothingLost, FinalWhenNotOpen
  <2> QED BY <1>7, <1>8, <1>10, <1>11, <1>13, <2>1, Zenon DEF ReaderInv
<1>15. CASE stage = "fills"
  <2>1. snapshot'["fills"] = read /\ snapshot'["open"] = snapshot["open"]
        /\ snapshot'["balance"] = snapshot["balance"]
    BY <1>5, <1>15 DEF Lists
  <2>2. \A o : Shown("open", o)' <=> Shown("open", o)
    BY <2>1 DEF Shown
  <2>3. \A o, n : Among(read, o, n) => Shown("fills", o)' /\ ShownFilled(o, n)'
    BY <2>1 DEF Among, Shown, ShownFilled
  <2>4. \A o \in atStart : Shown("fills", o)'
    BY <1>2, <1>15, <2>3
  <2>5. NothingLost'
    <3>1. \A o \in atStart : Assess(o, FALSE)' = "contradiction"
      BY <2>4 DEF Assess
    <3>2. \A r \in snapshot'["balance"] \cup snapshot'["open"] :
            r.filled > 0 => ShownFilled(r.order, r.filled)'
      BY <1>2, <1>15, <2>1, <2>3
    <3> QED BY <1>1, <3>1, <3>2 DEF NothingLost
  <2>6. FinalWhenNotOpen'
    BY <1>1, <1>2, <1>15, <2>1, <2>2 DEF FinalWhenNotOpen
  <2> QED BY <1>7, <1>8, <1>10, <1>11, <1>13, <2>5, <2>6, Zenon DEF ReaderInv
<1> QED BY <1>14, <1>15

LEMMA NextReader == ReaderInv /\ [ReaderNext]_readerVars => ReaderInv'
<1> SUFFICES ASSUME ReaderInv, [ReaderNext]_readerVars PROVE ReaderInv'
  OBVIOUS
<1>1. ASSUME NEW o \in DayOrders, Enter(o) \/ Trade(o) \/ Cancel(o),
             UNCHANGED <<stage, pages, cursor, rows, snapshot, atStart>>
      PROVE  ReaderInv'
  BY <1>1, BookStep
<1>2. CASE StartReading
  BY <1>2, StartStep
<1>3. CASE ReadPage
  BY <1>3, ContinueStep, EndListStep DEF ReadPage
<1>4. CASE Raise
  BY <1>4, RaiseStep
<1>5. CASE UNCHANGED readerVars
  <2>1. Shape' /\ RowsAreBounds'
    BY <1>5 DEF ReaderInv, Shape, Bounded, RowsAreBounds, Bounds, readerVars, book
  <2>2. OpenCovered' /\ NotOpenIsOver' /\ FillsCovered' /\ FillsFinal'
    BY <1>5 DEF ReaderInv, OpenCovered, NotOpenIsOver, FillsCovered, FillsFinal, Over, Collected, Shown, readerVars, book
  <2>3. NothingLost' /\ FinalWhenNotOpen'
    BY <1>5 DEF ReaderInv, NothingLost, FinalWhenNotOpen, Assess, Shown, ShownFilled, readerVars, book
  <2> QED BY <2>1, <2>2, <2>3, Zenon DEF ReaderInv
<1> QED BY <1>1, <1>2, <1>3, <1>4, <1>5 DEF ReaderNext

\* The reading keeps the invariant, whatever is traded while it goes on.
THEOREM ReaderInductive == ReaderSpec => []ReaderInv
<1> QED BY InitReader, NextReader, PTL DEF ReaderSpec

\* A snapshot misses no order and no trade: read_snapshot's three lists, read one after the
\* other, explain each other (production_reconciliation.py:202-240, 274-286, 404-420).
THEOREM ReadingLosesNothing == ReaderSpec => []NothingLost
<1>1. ReaderInv => NothingLost
  BY DEF ReaderInv
<1> QED BY <1>1, ReaderInductive, PTL

\* What the fills show of an order that the open orders do not is its last word, on which the
\* settlement books (production_reconciliation.py:282-286, pilot_reconcile.py).
THEOREM NotOpenIsFinal == ReaderSpec => []FinalWhenNotOpen
<1>1. ReaderInv => FinalWhenNotOpen
  BY DEF ReaderInv
<1> QED BY <1>1, ReaderInductive, PTL
==================================================================================
