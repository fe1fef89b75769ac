---------------------------- MODULE BrokerReader ----------------------------
(* read_snapshot (live/production_reconciliation.py): the holdings, then the  *)
(* open orders, then the day's fills of one account, page by page, while the  *)
(* broker goes on trading.  The three reads are not one view of the account:  *)
(* only their order keeps an order from falling between them.  The broker is  *)
(* modelled from what the reader requires of KIS: a page continues after the  *)
(* last row of the one before, and may begin with that row once more.  Every  *)
(* order is for a symbol of its own, so a holding is named by its order.      *)
EXTENDS Integers, FiniteSetsExt

CONSTANTS
  DayOrders,      \* the day's orders, in the order KIS lists them
  Shares,         \* shares of each
  PageSize,       \* rows KIS puts on a page
  MaxPages,       \* _MAX_PAGES
  None

ASSUME ReaderBounds ==
  /\ DayOrders \subseteq Nat \ {0} /\ Shares \in Nat \ {0}
  /\ PageSize \in Nat \ {0} /\ MaxPages \in Nat \ {0}

VARIABLES
  placed, cancelled, traded,   \* the broker's book: two sets of orders, shares traded of each
  stage,                       \* the list being read, or "idle", "done", "failed"
  pages, cursor, rows,         \* pages of it read, the last order on them, rows collected
  snapshot,                    \* snapshot[list]: the rows kept of it
  atStart                      \* orders placed before the reading began

book == <<placed, cancelled, traded>>
readerVars == <<book, stage, pages, cursor, rows, snapshot, atStart>>

Lists == {"balance", "open", "fills"}
Live == {o \in placed \ cancelled : traded[o] < Shares}
Traded == {o \in placed : traded[o] > 0}

(***************************************************************************)
(* The broker                                                              *)
(***************************************************************************)
Enter(o) ==
  /\ o \notin placed /\ \A p \in placed : p < o
  /\ placed' = placed \cup {o}
  /\ UNCHANGED <<cancelled, traded>>

Trade(o) ==
  /\ o \in Live
  /\ traded' = [traded EXCEPT ![o] = @ + 1]
  /\ UNCHANGED <<placed, cancelled>>

Cancel(o) ==
  /\ o \in Live
  /\ cancelled' = cancelled \cup {o}
  /\ UNCHANGED <<placed, traded>>

(***************************************************************************)
(* One page of the list: its rows, and whether KIS says that more follow.  *)
(* The fills are asked for with CCLD_DVSN 00: all orders of the day.       *)
(***************************************************************************)
Listed == CASE stage = "open" -> Live [] stage = "fills" -> placed [] OTHER -> Traded
From(again) == {o \in Listed : o > cursor \/ (again /\ o = cursor)}
Page(again) == {o \in From(again) : Cardinality({p \in From(again) : p < o}) < PageSize}
Last(page) == IF page = {} THEN cursor ELSE Max(page)
More(page) == \E o \in Listed : o > Last(page)

RowsOf(page) == {[order |-> o, filled |-> traded[o]] : o \in page}
Repeats(page) == \E o \in page : \E r \in rows : r.order = o

LastAllowed == pages + 1 = MaxPages
CompleteOrCapped(page) == ~More(page) \/ LastAllowed
Complete(page) == ~More(page)

(***************************************************************************)
(* The reader                                                              *)
(***************************************************************************)
FillsBeforeOpen(list) ==
  CASE list = "balance" -> "fills" [] list = "fills" -> "open" [] OTHER -> "done"
NextList(list) ==
  CASE list = "balance" -> "open" [] list = "open" -> "fills" [] OTHER -> "done"

FirstPage == pages' = 0 /\ cursor' = 0 /\ rows' = {}

StartReading ==
  /\ stage = "idle"
  /\ stage' = "balance"
  /\ atStart' = placed
  /\ UNCHANGED <<book, pages, cursor, rows, snapshot>>

Continue(page) ==
  /\ ~Complete(page) /\ ~LastAllowed
  /\ pages' = pages + 1
  /\ cursor' = Last(page)
  /\ rows' = rows \cup RowsOf(page)
  /\ UNCHANGED <<stage, snapshot>>

EndList(page) ==
  /\ Complete(page)
  /\ snapshot' = [snapshot EXCEPT ![stage] = rows \cup RowsOf(page)]
  /\ stage' = NextList(stage)
  /\ FirstPage

ReadPage ==
  /\ stage \in Lists
  /\ \E again \in BOOLEAN : LET page == Page(again) IN
       /\ ~Repeats(page)
       /\ Continue(page) \/ EndList(page)
  /\ UNCHANGED <<book, atStart>>

\* A failed request, a row read twice and a list longer than the pages allowed raise:
\* the caller gets no snapshot.
Raise ==
  /\ stage \in Lists
  /\ stage' = "failed"
  /\ snapshot' = [l \in Lists |-> None]
  /\ FirstPage
  /\ UNCHANGED <<book, atStart>>

ReaderInit ==
  /\ placed = {} /\ cancelled = {} /\ traded = [o \in DayOrders |-> 0]
  /\ stage = "idle"
  /\ pages = 0 /\ cursor = 0 /\ rows = {}
  /\ snapshot = [l \in Lists |-> None]
  /\ atStart = {}

ReaderNext ==
  \/ /\ \E o \in DayOrders : Enter(o) \/ Trade(o) \/ Cancel(o)
     /\ UNCHANGED <<stage, pages, cursor, rows, snapshot, atStart>>
  \/ StartReading \/ ReadPage \/ Raise

ReaderSpec == ReaderInit /\ [][ReaderNext]_readerVars

(***************************************************************************)
(* What a snapshot says of an order.                                       *)
(***************************************************************************)
Shown(list, o) == \E r \in snapshot[list] : r.order = o
ShownFilled(o, n) == \E r \in snapshot["fills"] : r.order = o /\ r.filled >= n

\* assess_ambiguous_halt of a reference to o, with o's symbol, side and quantity or with
\* other ones: a reference can be refuted, nothing confirms it.
Assess(o, sameTerms) ==
  IF (Shown("open", o) \/ Shown("fills", o)) /\ ~sameTerms THEN "contradiction" ELSE "unresolved"

(***************************************************************************)
(* Properties                                                              *)
(***************************************************************************)
\* A snapshot misses nothing: a reference with wrong terms to an order placed before the
\* reading is contradicted, whatever traded or was cancelled since, and what the holdings or
\* the open orders show as traded the fills explain, over every page and every trade between
\* (production_reconciliation.py:202-240, 274-286 and 404-420).
NothingLost ==
  stage = "done" =>
    /\ \A o \in atStart : Assess(o, FALSE) = "contradiction"
    /\ \A r \in snapshot["balance"] \cup snapshot["open"] :
         r.filled > 0 => ShownFilled(r.order, r.filled)

\* An order placed before the reading that the open orders no longer show is over: what the
\* fills show of it is what it ends with.  Settlement rests on it
\* (production_reconciliation.py:282-286, pilot_reconcile.py).
FinalWhenNotOpen ==
  stage = "done" =>
    \A o \in atStart : ~Shown("open", o) =>
      \A r \in snapshot["fills"] : r.order = o => r.filled = traded[o]
=============================================================================
