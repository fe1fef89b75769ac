--------------------------- MODULE RealizedSettlement ---------------------------
(***************************************************************************)
(* The realized-loss path: a pilot run places a SELL and captures its cost *)
(* basis in the pending-sells file; `pilot_cli settle` reconciles each     *)
(* pending SELL with the broker, appends the filled ones to the daily-loss *)
(* ledger, and rewrites the file.  The invocations share files without a   *)
(* lock and each may be killed between two steps.                          *)
(***************************************************************************)
EXTENDS Naturals

CONSTANTS
  Orders,        \* SELL orders, each placed by its own pilot invocation
  Settlers,      \* `settle` invocations (a retry is another element)
  Quantity,      \* shares per SELL
  Days           \* number of trading days

ASSUME QuantityAssumption == Quantity \in Nat \ {0}
ASSUME DaysAssumption == Days \in Nat \ {0}

VARIABLES
  today,     \* trading day
  filled,    \* broker: shares sold so far, per order
  resting,   \* broker: the order is still in the book
  sellDay,   \* broker: day the order was accepted, 0 before
  seller,    \* position of each pilot invocation
  pending,   \* entries that parse in the pending-sells file
  corrupt,   \* the pending-sells file has a line that does not parse
  spc,       \* position of each settler
  askDay,    \* fills_day of each settler (--date, or today)
  batch,     \* entries each settler loaded
  seen,      \* what read_open_orders said of each entry
  verdict,   \* shares to settle for each entry, 0 to keep it pending
  ledger,    \* entries of the daily-loss ledger
  overlapped \* history: an invocation started while another one ran

brokerVars == <<today, filled, resting, sellDay>>
fileVars == <<pending, corrupt>>
settlerVars == <<spc, askDay, batch, seen, verdict>>
vars == <<brokerVars, seller, fileVars, settlerVars, ledger, overlapped>>

Day == 1 .. Days
Count == 0 .. Quantity
Unread == Quantity + 1

Entry == [order : Orders, by : Settlers, quantity : Count \ {0}, day : Day]

Init ==
  /\ today = 1
  /\ filled = [o \in Orders |-> 0]
  /\ resting = [o \in Orders |-> FALSE]
  /\ sellDay = [o \in Orders |-> 0]
  /\ seller = [o \in Orders |-> "new"]
  /\ pending = {}
  /\ corrupt = FALSE
  /\ spc = [s \in Settlers |-> "idle"]
  /\ askDay = [s \in Settlers |-> 1]
  /\ batch = [s \in Settlers |-> {}]
  /\ seen = [s \in Settlers |-> [o \in Orders |-> "unread"]]
  /\ verdict = [s \in Settlers |-> [o \in Orders |-> Unread]]
  /\ ledger = {}
  /\ overlapped = FALSE

Running(s) == spc[s] \in {"reading", "recording", "rewriting"}

\* Nothing keeps two invocations apart: cron and the operator just start them.
Start ==
  overlapped' = \/ overlapped
                \/ \E o \in Orders : seller[o] = "acked"
                \/ \E s \in Settlers : Running(s)

SettlerAt(s, here, there) ==
  /\ spc[s] = here
  /\ spc' = [spc EXCEPT ![s] = there]

---------------------------------------------------------------------------------
(* The broker *)

\* Shares trade; the order leaves the book with its last one.
Fill(o) ==
  /\ resting[o]
  /\ filled' = [filled EXCEPT ![o] = filled[o] + 1]
  /\ resting' = [resting EXCEPT ![o] = filled[o] + 1 < Quantity]
  /\ UNCHANGED <<today, sellDay, seller, fileVars, settlerVars, ledger, overlapped>>

\* The rest of the order is cancelled, or expires with its day.
Expire(o) ==
  /\ resting[o]
  /\ resting' = [resting EXCEPT ![o] = FALSE]
  /\ UNCHANGED <<today, filled, sellDay, seller, fileVars, settlerVars, ledger, overlapped>>

NextDay ==
  /\ today < Days
  /\ \A o \in Orders : ~resting[o]
  /\ today' = today + 1
  /\ UNCHANGED <<filled, resting, sellDay, seller, fileVars, settlerVars, ledger, overlapped>>

---------------------------------------------------------------------------------
(* The pilot invocation that sells *)

\* _place_order returned the acknowledgement.
Place(o) ==
  /\ seller[o] = "new"
  /\ seller' = [seller EXCEPT ![o] = "acked"]
  /\ resting' = [resting EXCEPT ![o] = TRUE]
  /\ sellDay' = [sellDay EXCEPT ![o] = today]
  /\ Start
  /\ UNCHANGED <<today, filled, fileVars, settlerVars, ledger>>

\* _capture_sell_cost: record_pending_sell appends one line.
Capture(o) ==
  /\ seller[o] = "acked"
  /\ seller' = [seller EXCEPT ![o] = "captured"]
  /\ pending' = pending \union {o}
  /\ UNCHANGED <<brokerVars, corrupt, settlerVars, ledger, overlapped>>

\* Killed (or the append fails) between the acknowledgement and the capture.
SellerKilled(o) ==
  /\ seller[o] = "acked"
  /\ seller' = [seller EXCEPT ![o] = "dead"]
  /\ UNCHANGED <<brokerVars, fileVars, settlerVars, ledger, overlapped>>

---------------------------------------------------------------------------------
(* settle *)

\* load_pending_sells; a corrupt file or nothing pending ends the call.
Load(s) ==
  /\ Start
  /\ IF corrupt \/ pending = {}
       THEN SettlerAt(s, "idle", "done") /\ UNCHANGED batch
       ELSE /\ SettlerAt(s, "idle", "reading")
            /\ batch' = [batch EXCEPT ![s] = pending]
  /\ \E d \in 1 .. today : askDay' = [askDay EXCEPT ![s] = d]
  /\ UNCHANGED <<brokerVars, seller, fileVars, seen, verdict, ledger>>

\* read_open_orders for one entry: whether it still rests, nothing else.
ReadOpen(s, o) ==
  /\ spc[s] = "reading" /\ o \in batch[s] /\ seen[s][o] = "unread"
  /\ \A q \in batch[s] : seen[s][q] = "unread" \/ verdict[s][q] # Unread
  /\ seen' = [seen EXCEPT ![s][o] = IF resting[o] THEN "resting" ELSE "gone"]
  /\ UNCHANGED <<brokerVars, seller, fileVars, spc, askDay, batch, verdict, ledger, overlapped>>

FillsOn(o, d) == IF sellDay[o] = d THEN filled[o] ELSE 0

\* Mutant: any fill counts as FILLED, whatever still rests.
AnyFillToSettle(s, o) == FillsOn(o, askDay[s])

\* reconcile_order is FILLED when something filled and nothing rests.
SharesToSettle(s, o) ==
  IF seen[s][o] = "gone" THEN FillsOn(o, askDay[s]) ELSE 0

\* read_daily_order_fills for the same entry, then its status.
ReadFills(s, o) ==
  /\ spc[s] = "reading" /\ o \in batch[s]
  /\ seen[s][o] # "unread" /\ verdict[s][o] = Unread
  /\ verdict' = [verdict EXCEPT ![s][o] = SharesToSettle(s, o)]
  /\ UNCHANGED <<brokerVars, seller, fileVars, spc, askDay, batch, seen, ledger, overlapped>>

\* All entries are reconciled before the first one is recorded.
StartRecording(s) ==
  /\ \A o \in batch[s] : verdict[s][o] # Unread
  /\ SettlerAt(s, "reading", "recording")
  /\ UNCHANGED <<brokerVars, seller, fileVars, askDay, batch, seen, verdict, ledger, overlapped>>

Recorded(s, o) == \E e \in ledger : e.order = o /\ e.by = s

\* record_realized_trade appends one line to the ledger of fills_day.
Record(s, o) ==
  /\ spc[s] = "recording" /\ o \in batch[s] /\ ~Recorded(s, o)
  /\ verdict[s][o] > 0
  /\ ledger' = ledger \union
       {[order |-> o, by |-> s, quantity |-> verdict[s][o], day |-> askDay[s]]}
  /\ UNCHANGED <<brokerVars, seller, fileVars, settlerVars, overlapped>>

\* rewrite_pending_sells: write_text opens the file and cuts it to nothing ...
Truncate(s) ==
  /\ \A o \in batch[s] : verdict[s][o] > 0 => Recorded(s, o)
  /\ SettlerAt(s, "recording", "rewriting")
  /\ pending' = {}
  /\ corrupt' = FALSE
  /\ UNCHANGED <<brokerVars, seller, askDay, batch, seen, verdict, ledger, overlapped>>

\* Mutant: the settled entries are written back.
RemainingAll(s) == batch[s]

\* Mutant: only what was seen in the book stays.
RemainingResting(s) == {o \in batch[s] : seen[s][o] = "resting"}

Remaining(s) == {o \in batch[s] : verdict[s][o] = 0}

\* ... then writes from offset 0.  Lines appended since are overwritten, in
\* whole or in part, unless there is nothing to write.
Rewrite(s) ==
  /\ SettlerAt(s, "rewriting", "done")
  /\ \/ Remaining(s) = {} /\ UNCHANGED fileVars
     \/ /\ Remaining(s) # {} /\ pending = {}
        /\ pending' = Remaining(s)
        /\ UNCHANGED corrupt
     \/ /\ Remaining(s) # {} /\ pending # {}
        /\ \E tail \in SUBSET pending : pending' = Remaining(s) \union tail
        /\ corrupt' \in {corrupt, TRUE}
  /\ UNCHANGED <<brokerVars, seller, askDay, batch, seen, verdict, ledger, overlapped>>

\* A read raises (nothing recorded yet), or the process is killed.
SettlerKilled(s) ==
  /\ \/ \E here \in {"reading", "recording"} : SettlerAt(s, here, "dead")
     \/ SettlerAt(s, "rewriting", "torn")
  /\ UNCHANGED <<brokerVars, seller, fileVars, askDay, batch, seen, verdict, ledger, overlapped>>

Broker == NextDay \/ \E o \in Orders : Fill(o) \/ Expire(o)

Sell(o) == Place(o) \/ Capture(o) \/ SellerKilled(o)

Settle(s) ==
  \/ Load(s) \/ StartRecording(s) \/ Truncate(s) \/ Rewrite(s) \/ SettlerKilled(s)
  \/ \E o \in Orders : ReadOpen(s, o) \/ ReadFills(s, o) \/ Record(s, o)

Next ==
  \/ Broker
  \/ \E o \in Orders : Sell(o)
  \/ \E s \in Settlers : Settle(s)

Spec == Init /\ [][Next]_vars

---------------------------------------------------------------------------------
(* Properties *)

\* The shape of the state: broker, files, positions and what settlers remember.
TypeOK ==
  /\ today \in Day
  /\ filled \in [Orders -> Count]
  /\ resting \in [Orders -> BOOLEAN]
  /\ sellDay \in [Orders -> Day \union {0}]
  /\ seller \in [Orders -> {"new", "acked", "captured", "dead"}]
  /\ pending \subseteq Orders
  /\ corrupt \in BOOLEAN
  /\ spc \in [Settlers -> {"idle", "reading", "recording", "rewriting",
                           "done", "dead", "torn"}]
  /\ askDay \in [Settlers -> Day]
  /\ batch \in [Settlers -> SUBSET Orders]
  /\ seen \in [Settlers -> [Orders -> {"unread", "resting", "gone"}]]
  /\ verdict \in [Settlers -> [Orders -> Count \union {Unread}]]
  /\ ledger \subseteq Entry
  /\ overlapped \in BOOLEAN

\* What the ledger holds of a SELL is its final fill, although the open orders
\* and the fills are two reads and the order trades between them, and it is booked
\* on the day its shares were sold, also by a later settle.
SettledIsFinal ==
  \A e \in ledger :
    /\ sellDay[e.order] # 0 /\ ~resting[e.order]
    /\ e.quantity = filled[e.order]
    /\ e.day = sellDay[e.order]

\* While invocations do not overlap, a SELL is booked twice only when the first
\* settle was killed before it had rewritten the pending-sells file.
DoubleBookingNeedsKill ==
  \A e, f \in ledger :
    ~overlapped /\ e.order = f.order /\ e.by # f.by =>
      \E s \in {e.by, f.by} : spc[s] = "dead"

Booked(o) == \E e \in ledger : e.order = o

\* The cost basis of a captured SELL that is not booked is in the file, except
\* while a settle is in the middle of writing it, or was killed there.
StillPending(o) ==
  \/ o \in pending /\ ~corrupt
  \/ \E s \in Settlers : spc[s] \in {"rewriting", "torn"} /\ o \in batch[s]

\* Without overlaps, no cost basis is lost outside that window.
CostBasisKept ==
  ~overlapped =>
    \A o \in Orders : seller[o] = "captured" /\ ~Booked(o) => StillPending(o)
=================================================================================
