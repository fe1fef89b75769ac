# hermes stock-trading-v2: TLA+ models, checks and proofs

This directory models the parts of `src/stock-trading-v2` whose correctness depends on
order, interruption and repetition: the one-shot processes that send live orders, the
files they share, the one-shot nonce service and the halt review built on the same idea,
the reading of the broker's account, the settlement of realized losses, the durable
paper-trading loop, the backtest, and the forward observation from the collection of bars
to the scores of recorded signals. TLC checks the modules on small instances; TLAPS proves
every safety property of the passing runs, the action properties and the refinements
included, for every instance.

Paths below are relative to `src/stock-trading-v2/src/swing_v2/`. `PROJECT.json` maps
every definition to the lines it stands for.

## 1. Inventory

| Component | State it keeps | Operations | What makes it correct |
|---|---|---|---|
| Production order submitter (`live/production_execution.py`, `audit.py`, `gate.py`, `intent.py`) | per account a `flock` and a halt marker file, per intent a write-once audit file | `submit_cash_limit_order` | one POST per intent; none on a halted account; an outcome nobody knows halts the account; audit before POST |
| Privileged dispatch and nonce authority (`privileged_protocol.py`, `external_nonce_authority.py`) | SQLite table of consumed requests, the wire | `verify_and_consume`, `handle_payload`, `consume_once` | a nonce buys one dispatch, over retries, late receipts and restarts |
| Realized-loss settlement (`realized_settlement.py`, `pilot_reconcile.py`, `daily_loss.py`, `pilot_cli.py settle`) | pending-sells file, daily-loss ledger | capture, settle, record-loss | every SELL is booked once, in full, on its day |
| Pilot command line and gates (`pilot_cli.py`, `pilot.py`, `autonomous.py`, `kill_switch.py`, `account_state.py`, `decision_order.py`) | kill-switch marker, authorization file, order-budget ledger, daily-loss ledger | submit, from-decision, halt, resume, authorize-autonomous | day budgets, kill switch, breaker and positions cap hold over runs |
| Paper trading (`paper/*.py`, `llm/guardrail.py`) | `paper-<date>.json` per date, kill-switch marker | run, halt, resume, report | the ledger's cash is the sum of its fills; write-once dates; capacity |
| Backtest engine (`backtest/*.py`) | in-memory portfolio, reservations, order and fill ledgers | the day loop | no cash spent twice, one position per symbol, IOC orders end the next session |
| Halt release (`authoritative_halt_release.py`) | nothing of its own; the challenge authority's consumed challenges | `evaluate_halt_release` | a challenge makes one evaluation eligible; what is eligible is what was judged, on fresh evidence |
| Production reconciliation reader (`production_reconciliation.py`) | none | `read_snapshot`, `assess_ambiguous_halt` | three paged reads together lose no order |
| KIS snapshot collector and reader (`kis_snapshot_collector.py`, `kis.py`, `kis_market_index.py`, `deploy/forward_prepare.py`) | a directory of immutable per-symbol files and a manifest, a snapshot per signal date | collect, index, the daily routine, rebuild | a published file is the whole window; a reported collection is complete; an interrupted routine can be repeated |
| Forward observation datasets (`forward_observation_dataset.py`, `forward_observation_extension.py`) | one immutable dataset per date | assemble, extend | series end on the dataset's date and extend their base |
| LLM decision layer (`llm/forward_*.py`, `brief.py`, `decision.py`, `guardrail.py`, `signal_audit.py`, `positions.py`) | reply file, write-once signal records | render, record, score | no look-ahead in a record; the records followed stay within the slots; scores settle |
| LLM risk watch (`llm/risk_*.py`) | verdict file | watch, review-prompt, review | timely digests together let no material disclosure fall between them |
| Evidence providers (`llm/naver_news.py`, `dart_disclosures.py`, ...) | none | query, cut to the window | point in time |
| Normalizers, analysis, preflight, integrity helpers | none | parsing, arithmetic | input validation |

How they interact. cron and the operator start `pilot_cli` processes; each reads the
daily-loss ledger, the broker's account, the kill switch and the budget, and then calls
the submitter, which takes the account's lock, claims the intent's audit record and
POSTs. A SELL that is acknowledged leaves its cost basis in the pending-sells file; a
later `settle` process reconciles it with the broker and appends to the daily-loss ledger,
which the next run's breaker reads. Except for the account lock and SQLite, **nothing keeps
two processes apart**: they share plain files, and each can be killed between any two
steps. The paper loop has the same shape with a directory of session files and no lock. The
backtest is one sequential process; its hard part is the order of a session's steps and what
a plan made at one close may assume of the next open.

The hard behaviours are therefore: two processes between a check and its use; a kill
between two durable steps; a request whose fate is unknown; retries of what already
happened; and several reads that together are not one snapshot. They are listed with
their lines under `hazards` in `PROJECT.json`. Two more that no module reaches: the thread
and fork bookkeeping behind the account lock (`audit.py:324`), and a decision fired again
after the equity or the price changed, which sizes to another quantity and so to another
intent id (`decision_order.py:81`).

The forward observation is a chain of commands that cron and the operator start. The
collector fills a directory; the daily routine rebuilds a snapshot from it; `render` builds
a brief from the snapshot and the evidence sources, an agent leaves a reply file, `record`
builds the brief again and writes a record; `score` reads the records. The risk watch reads
the same evidence sources, for the names asked for or held by the records.
Each command trusts files that an earlier one, perhaps of another day or killed, left.

## 2. Modules

### SubmissionContract
The abstract promise of the submitter: `Send` only for an intent never sent and an account
not halted; `Halt` at any time. `OrderSubmission` implements it, and `LivePilot` uses it in
place of the submitter.

### OrderSubmission, OrderSubmissionProofs
`submit_cash_limit_order` as a sequence of actions, one per durable or visible step:
gate, `flock`, halt check, `O_EXCL` create of the record, write and sync, second halt
check, POST, the three kinds of answer, creation, write and sync of the halt marker,
release. A file is `absent`, `partial` or `full`; a present marker counts as a halt even
if it does not parse (`HaltPresent`). `AcquireFault`, `Fault` and `MarkerFault` are the
system calls that fail, `Crash` is a kill at any step (the kernel drops the lock, files stay), and
`BrokerDecides` accepts, rejects or loses a request, also after the client is gone. The
intent and the account are independent: an intent id does not contain the audit root's
account, so two invocations may use one intent on two accounts.

### OneShotNonce, PrivilegedDispatch, OneShotProofs
`OneShotNonce` says that a nonce is taken once and only the taker dispatches.
`PrivilegedDispatch` has verifier invocations and authority handlers with `BEGIN IMMEDIATE`
(one writer), insert with its uniqueness constraint, commit, rollback and reply. The wire
is a growing set of requests and receipts, so it delays, repeats, reorders and loses.
A fresh challenge per invocation names its request and receipt. Signatures are the flag
`genuine`. The authority may restart at any step and loses what was not committed.

### RealizedSettlement, SettlementProofs
Pilot invocations place SELLs and capture their cost basis; settle invocations load the
file, read open orders and then fills for each entry, append to the ledger, truncate and
rewrite the file. The broker fills, expires and changes the day between any two reads. A
settle has the day it asks fills for, the current one or an explicit `--date`.

### LivePilot, MCLivePilot, LivePilotProofs, FiniteSums
`pilot_cli` runs of the three kinds (`submit`, `from-decision --arm`, `--autonomous`) around
the contract of the submitter, with the operator's halt, resume, authorize-autonomous and
record-loss, the session clock, and fills. `intent` has a signal day, a side and a size;
prices, equity arithmetic and sizing are left out. `FiniteSums` is not a model: it holds
the lemmas about the largest element of a finite set and about sums over one that the
proofs about budgets and ledgers share.

### PositionLimit
The maximum number of positions, as `apply_guardrails` enforces it for its two callers:
`FreeSlots` is what is left of `max_positions` once the admitted SELLs are taken out of the
holdings. `PaperTrading` and `ForwardSignals` extend it.

### PaperTrading, MCPaperTrading, PortfolioProofs
`paper.cli run`: `Guardrail` reads the newest account and admits decisions under the
capacity rule, `LoadAccount` reads it again, `Simulate` reads the kill switch and fills,
`Create` claims the date's file, `Write` completes it. A file is `absent`, `partial` or
`full`; a partial newest file makes both loads raise (`LoadRefused`). What an order costs
is a small amount, what it pays is the exit amount less the costs; which orders fill is
the market's choice within the cash check. An element of `Invocations` is one process (a
retry is another), `Dates` the number of execution dates; a session records what it did to
the account it started from (`delta`, `pnl`, the `stuck` exits), and `SumOver` adds these
up over the dates on file.

### Backtest, MCBacktest, BacktestProofs
`BacktestRunner.run` over every market: `OpenSession` draws the bars, `ExitFilled`,
`ExitCanceled`, `EntryFilled` and `EntryCanceled` are the two executors (one try per order,
exits first), `Close` is the close-time half of `run_portfolio_day` with the loss guard,
`PlanEntry` is one turn of the loop in `create_entry_plans`. The market also chooses the
candidates, their order and the trend rule's verdict. Prices are small integers; a
fixed fee stands for all costs and risk fractions are percents. `CloseRaises` is the run that ends
because an eligible symbol has no bar.

### SnapshotCollection, ForwardDataset, MCForwardDataset, ForwardDatasetProofs
`SnapshotCollection` is the state of KIS (which rows exist; a stock's newest row may appear
late), of the collection directories, and of one process at a time, whose steps are
preflight (command line only), `LoadManifest`, `Inspect` of the next symbol, `LoadPage`,
`Publish` of its file, `Record` of the manifest and `Seal` with the verdict; `Index` and
`SaveSnapshot` are what the daily routine adds. A bar is its day; a file's hash is the
file's value. `PageFails` and `Killed` end a request or the process; a kill in a write
leaves a temporary name, or a torn snapshot, which is written in place. `ForwardDataset`
adds a second process that assembles or extends datasets from the same directories: it
takes the manifest first (`Begin`) and compares every later read with it (`Finish`).

### ForwardSignals, RiskWatch, MCForwardSignals, PortfolioProofs
Headlines are positions in `feed`, each with a day, a symbol and whether it is of a risky
kind. `Evidence` is what the providers return of the feed at the moment of asking: DART the
first page (`DartPage`) of the window's filings, Naver the newest `Display` headlines, cut to
the window afterwards; `PitEvidence` is the brief's own cut. `Decide` is `render` for any
session and the agent's reply, `Record` takes the reply for any session, rebuilds the brief,
validates the reply against it (`Valid`), applies the guardrails (`Admissions`) and writes a
record (`Put`), or is killed after the create (`Torn`). `HeldAsOf` is the portfolio the
records imply: a set, since records of one session come in the order of an unordered directory
listing. Scores (`Outcomes`) change nothing and are an operator of the state. `RiskWatch` adds
the digests of `watch` and `review`, as of any day and for any names, and the verdict file of
`review-prompt` (`Judge`), which `review` applies to flags derived later. Its `considered` and
`looks` are history: what the operator was told or the agent dismissed on sight, and how far
the digests of a name have come.

### HaltRelease, MCHaltRelease, OneShotProofs
`evaluate_halt_release` in three steps: the checks with one reading of the clock (`Refuse`,
`Call`), the call to the challenge authority, and what is checked after it (`Answered`,
`Failed`). `Consume` is the authority's, `Mutate` is code that runs during the call and
changes the caller's objects: the request, the scope, the expected marker, and the
attestation, which the code does not look at again. `captured` holds what the code copies
before the call, and as history the attestation it verified (`verified`). It refines `OneShotNonce`, the abstraction of the dispatch
nonce (`OneReview`): the operator's challenge is a nonce, an eligible decision its dispatch.
The receipts the authority signed (`signedReceipts`) stay on the wire and may answer again.
`Nothing` is the input or decision an evaluation does not have yet.

### BrokerReader, SettlementProofs
`read_snapshot`: holdings, open orders, fills, each page by page with its cursor, beside a
broker that places (`Enter`), trades (`Trade`) and cancels the `DayOrders`. A page may begin with the row the last one ended
with; a repeated row, a failed request and the page cap raise. `Assess` is
`assess_ambiguous_halt`. `FinalWhenNotOpen` is the assumption under which `RealizedSettlement`
reads the same lists in the same order, which is why the proofs of the two share a module.

Operators whose name or comment says so ("Mutant", or a variant beside the definition it
misstates, as `CompleteOrCapped` beside `Complete`) are wrong versions of a definition.
The project's mutation runs put them in its place, and each must break the property it
is listed with.

## 3. Runs

| Run | Instance | What it shows |
|---|---|---|
| submission | 2 invocations, 2 accounts, 2 intents | lock exclusion, one POST per intent, audit before POST, every POST accounted for, no POST behind a halt, refinement of the contract, waiters served |
| submission_crash | 2 invocations on 1 account, 2 intents | finding: a kill during the POST leaves no halt |
| dispatch | 2 verifiers, 2 nonces, 2 handlers, 3 clock values | one dispatch per nonce, durability of approvals, admission before consumption, write lock given back, refinement of the one-shot nonce |
| settlement | 2 SELLs of 2 shares, 2 settles, 2 days | what is booked is final and on the right day; double booking needs a kill; no cost basis lost outside the rewrite |
| pilot | 2 runs, 2 days, 2 sizes, 3 operator events | budgets and kill switch, up to runs cut short; ambiguity halts |
| paper | 3 runs, 3 dates, 2 symbols, 1 slot | cash and realized result reconcile, capacity up to unfilled exits |
| backtest | 3 symbols, 2 slots, 2 prices, 4 sessions | entries never spend the session's exit proceeds, slots hold although exits are canceled, canceled exits are renewed, a losing session stops entries |
| collection | 2 symbols and KOSPI, 4 days, a warm-up window and a session, pages of 2, 3 requests a run, 1 fault | published files are whole windows, reported collections complete, datasets sound, the repeated routine gets its snapshot |
| collection_daily | one default directory, 2 dates | finding: the routine prepares one date and then never another |
| signals | 2 symbols, 1 slot, 3 sessions, 2 headlines, 2 records | slots, no look-ahead in records, stable scores, no disclosure missed by timely digests |
| halt_release | 2 evaluations, 2 challenges, 2 markers, 2 ticks | eligible is what was judged, freshness when consumed, refinement of the one-shot nonce |
| broker_reader | 3 orders of 2 shares, 1 row a page, 2 pages | nothing lost between lists and pages; what is not open is final |

**Why the bounds are enough.** A hazard here needs two actors and one interruption, or one
actor and its retry: two invocations (three where a retry must meet an earlier pair, as in
the paper ledger, whose newest/oldest choice needs three dates) reach every pair of
positions, and every run is one-shot, so the number of runs bounds the length. Two
accounts and two intents give same/different in both. Two shares make a partial fill. Two
days make "another day". The clock has three values: before, during and after an
envelope's life. Notional limits and sizes of 1 and 2 meet a limit exactly, and cross it by one.
`MaxEvents = 3` allows halt, resume, halt, or authorize, halt, resume. In the
paper model the cash 6 with amounts 2 and 3 and costs 1 allows one purchase, a loss on it,
and a later purchase that is refused for lack of cash. In the backtest the first session has
nothing pending, so four sessions are one to plan, one to enter, one in which the exit is
canceled and one in which it is renewed; the third symbol competes for two slots, the
price 3 after 2 makes a planned entry unaffordable and 2 after 3 is a stop and a loss
of the limit. A rise of 2 to 3 stays within `GapPct`: the gap guard only
cancels more, which the missing bars already do. In the collection a window of four days
with pages of two rows needs two or three requests, so a budget of three runs out in the
second symbol and the next run must take up the first; one symbol (`Late`) gets its row
late; one fault may be a kill or a failed request anywhere. In the signals a brief window
of 2 and a watch window of 1 put headlines inside one and outside the other, `Display = 1`
lets a second headline displace the first and `DartPage = 1` a second filing, and two records
can be of one session or of two; `MaxEvents = 4` bounds headlines, records, files and names
looked at together: a filing, a digest, a second filing and a verdict file fit in. In the halt
release `ChallengeTTL` and `MaxFreshness` are 1 and `MaxClock = 2` is past both limits of a
request made at 0, and at both of one made at 1.
In the reader three orders with one row a page exceed the cap of two pages.
TLC explores all of these completely.

Deadlock checking is off in every cfg: the invocations are one-shot, so the systems stop.

**What properties leave out.** Properties guarded by `~overlapped` or `~disordered` speak
of runs that do not overlap (and, for the paper ledger, of dates in order). The code makes
no attempt at more: no lock covers these files. `HeldWithinLimit` is claimed while sessions
are recorded in order, with the portfolio the records imply (`orderly`); the routine's
commands do not enforce it. `ScoresSettle` holds while records can be read. Replies are made
for any session and recorded under any, so `NoLookAhead` meets later prices and later evidence
in the reply; the brief of the session it is put under must have neither, and the mutant
builds it as of today. `NoDisclosureMissed` speaks of names with a digest at least every
`WatchWindow` days and at most a page of filings in between: the code asks DART for one page
(finding 3). `EligibleAsJudged` speaks of the attestation that was verified, not of the object
the caller holds after the call.

**Symmetry** is used only in runs without liveness properties (invariants, action properties,
the refinement of a safety specification), on runs, evaluations and symbols that no definition
distinguishes.

## 4. Fairness

`OrderSubmission!FairSpec` assumes weak fairness of `Local(p)`, the steps a live process
takes by itself, and nothing of failing system calls, kills, the broker or the answer to a
POST: `session.post` is called without a timeout (`production_execution.py:248`), so a
holder may wait forever, and `WaiterServed` says so. Weak fairness is enough for `flock`
because each invocation takes the lock once. `PrivilegedDispatch!FairSpec` assumes weak
fairness of a handler's own transaction; SQLite's busy timeout bounds its wait for the
write lock and `Rollback` is its outcome. `ForwardDataset!Spec` assumes weak fairness of the
running process's own steps (`Work`), and strong fairness of starting the daily routine for
a date: `forward_prepare.py:5` asks for it on a trading day and cron repeats it
(docs/10-autonomous-trading.md:17), but another
command may run whenever it is about to start, which weak fairness would allow forever.
KIS owes nothing: rows may never appear, and the page budget and the
faults are bounded. The other specifications are safety only.

## 5. Proofs

There are seven proof modules and one of lemmas:

| Module | About | Inductive invariants |
|---|---|---|
| `OrderSubmissionProofs` | the submitter | `IInv` |
| `OneShotProofs` | the dispatch nonce and the halt release, which both implement `OneShotNonce` | `IInv`, `ReleaseInv` |
| `SettlementProofs` | the settlement, and the reader of the lists it settles from | `IInv`, `Alone`, `ReaderInv` |
| `LivePilotProofs` | the pilot | `IInv` |
| `PortfolioProofs` | the two users of the position limit: paper ledger and forward signals, with the risk watch | `PaperInv`, `SignalsInv`, `WatchInv` |
| `BacktestProofs` | the backtest | `IInv` |
| `ForwardDatasetProofs` | collection and datasets | `IInv` |
| `FiniteSums` | lemmas used by `LivePilotProofs` and `PortfolioProofs` | |

Each invariant has a lemma for the initial states and one for the next-state relation
(one step per action), and theorems that follow from it. It is the conjunction of named
parts, each with its own lemma where the proof is long. Constants are arbitrary sets. The assumptions are
named in the modules that declare the constants, and TLC evaluates them on every run:

| Assumption | Says | Because |
|---|---|---|
| `NoneAssumption` | `None` is not a process | model values |
| `NothingAssumption` | `Nothing` is not a stage of an evaluation | model values |
| `TimeAssumption`, `DaysAssumption`, `DatesAssumption`, `QuantityAssumption`, `CountsAssumption`, `PositionsAssumption` | counts are natural numbers, positive where the code refuses zero | argument checks |
| `SymbolsAssumption`, `SizesAssumption` | finitely many symbols; finitely many runs, of positive size | there are only so many; `autonomous.py:110` |
| `JobsAssumption` | the runs' inputs are of the kinds listed | the three subcommands |
| `PercentsAssumption` | fractions lie between 0 and 1 | argument checks |
| `PricesAssumption` | backtest prices exceed the fee | a sale brings money |
| `CashAssumption` | the initial cash is positive, and a paper fill moves more than it costs | `paper/runner.py:55`; a sale brings money |
| `SignalBounds` | at least one session and a forward window of at least one; windows and the page are natural numbers; headlines and picks are of the kinds and symbols listed | `llm/forward_eval.py:74`, `llm/dart_disclosures.py:51`; the reply's schema |
| `AccountAssumption` | one account | `pilot_cli` sends on one (`LivePilot` only) |
| `LimitsAssumption` | granted limits are positive | checked when the authorization is written (`autonomous.py:54-57`) |
| `ReleaseInputs` | requests, scopes and attestations are of the kinds listed; the freshness limit and the lifetime are durations | argument checks |
| `ReaderBounds` | page size, cap and order quantity are positive | `production_reconciliation.py:318,322` |
| `PagingAssumption`, `RequestAssumption` | a page has a row, a window does not end before it starts, `KOSPI` is not a symbol code | `kis_snapshot_collector.py:106-119` |
| `NamesAssumption` | an error or absent entry is not a file | model values |

The library's induction theorems take an operator and cannot be used. What needs induction
over a finite set (a largest element, the sum of a day's orders, a page that covers what is
between two rows) is proved as the absence of a smallest counterexample, from the
well-foundedness of the strict-subset order on a finite set and of the order of the natural
numbers (`Smallest`, `MaxOfFinite` and the sum lemmas of `FiniteSums`, `MaxOfBounded` and
`PageCovers` of `SettlementProofs`, `LeastNatural` and `LeadsAgree` of `PortfolioProofs`).

* **OrderSubmissionProofs.** `TypeCorrect`, `Exclusion`, `OncePerIntent`,
  `AuditPrecedesPost`, `ResultsAreSound`, `HaltBlocksPost`, `Implements`. Exclusion is not
  inductive alone: `LockHeld` ties each critical position to the lock's owner. One POST
  per intent needs `ClaimExclusive`: between creating a record and sending, the claim is
  its creator's, and `NothingEarly`: nobody who has not claimed has sent. `ClearToPost`
  says that the halt seen absent stays absent while the lock is held. `CauseKept` relates
  the recorded cause with the call's result. Refinement: a step is `Send` when `Post`,
  `Halt` when a marker appears, and a stutter otherwise.
* **OneShotProofs, dispatch.** `TypeCorrect`, `OneDispatch`, `ApprovalBacked`,
  `ConsumedWasAdmitted`, `Implements`. `SingleWriter` (only the holder of SQLite's write lock is between begin
  and commit) and `InsertedFresh` (the inserted, uncommitted row has no committed rival)
  make `NonceUnique` inductive; `ReceiptsDurable` ties a receipt to a committed row.
* **BacktestProofs.** `TypeCorrect`, `OrdersValid`, `EntriesUsePlannedCash`, `SlotsHold`,
  `CanceledExitsAreRenewed`, `LossGuardHolds`. `FundsSplit` (cash is budget plus the session's
  proceeds) carries the cash results: a fill takes from both sides, an exit adds to both.
  `DueIsPending` (a position as old as its canceled exits allow has an exit pending) makes
  `AgeBounded` inductive: such a position either leaves at the next open or has the exit
  canceled by a bar that does not age it. `PlansFollowGoodClose` ties pending plans to the
  guard's verdict. It assumes prices above the fee and counts that are positive
  (`PricesAssumption`, `CountsAssumption`, `SymbolsAssumption`).
* **SettlementProofs, settlement.** `TypeCorrect`, `LedgerIsRight`, `BookedTwiceNeedsKill`, `CostBasisSafe`. What is
  booked is the final fill of the SELL, on its day, for any overlap and any kills: an order
  seen gone never trades again (`GoneIsFinal`), hence fills read after that are final
  (`VerdictIsFinal`), hence so is what is recorded from them. The order of the two reads in
  `reconcile_via_client` is what that proof rests on. The other two results speak of
  invocations that do not overlap and have a second invariant, `Alone`, inductive together
  with `IInv`: one invocation is at work (`OneBusy`), so the file is what the settler
  loaded until it cuts it (`FileIsBatch`), by then all it settled is in the ledger
  (`AllIsBooked`), and what it booked nobody else holds any more (`BookedIsGone`). A kill
  between the append and the rewrite is the one way out of the last part.
* **LivePilotProofs.** `TypeCorrect`, `AmbiguityHalts`, `SwitchHolds`, `BudgetHolds`. The
  budget theorem has two halves: the ledger is exactly the autonomous runs that ended well
  (`BudgetIsDone`), and a run past `Authorize` still has room for its order
  (`ClearedHasRoom`) because no other run is at work (`OneAtATime`) and what it was measured against was
  granted (`LimitsGranted`). Then the orders counted (`KeptWithin`) stay within the largest
  granted limits, and the orders of runs cut short are added. `SwitchSpent` says that the one request an engaged switch
  lets pass was of the run that had passed the last look, and that nobody is left there.
* **SettlementProofs, reader.** `ReadingLosesNothing`, `NotOpenIsFinal`, for any number of orders
  and any page size. An order leaves the open orders for good, rows read are
  lower bounds of what traded (`RowsAreBounds`), and the fills are read last; so past the
  cursor of the open orders an order is among the rows or over (`OpenCovered`), afterwards
  shown or over (`NotOpenIsOver`), and past the cursor of the fills everything the earlier
  lists showed is explained (`FillsCovered`) and final if over (`FillsFinal`). `PageCovers`
  says what one page may leave out: nothing between its first and its last row.
* **ForwardDatasetProofs.** `FilesAreWhole`, `ReportsAreTrue`, `DatasetsAreSound`. A
  walk goes back from the end of the window: its rows are all the rows KIS had between the cursor and the
  end, and the cursor is on a row (`Walk`), so a walk that ended has the whole window
  (`Walked`). Every entry of a manifest is of the manifest's window, on disk and in memory
  (`OwnWindows`), and as long as nothing failed the symbols behind the run are recorded with
  the file that is there (`Progress`): this is what the verdict reports. The assembler keeps the base it read
  unchanged because a dataset is written once (`AsmShape`, `CalendarsHaveDays`). The
  invariant spans both processes: the collector's steps and the assembler's interleave freely.
* **OneShotProofs, halt release.** `EligibleRestsOnJudged`, `ConsumedFresh`,
  `ImplementsReview`, for any freshness limit and time to live (`ReleaseInputs`). None of them is inductive: while the
  authority is called the objects may differ from what was judged, so the invariant speaks
  of the copies, and of the attestation as it was verified. `CopiesJudged` and `CopiesFresh`
  say that they passed the checks,
  `EligibleUnchanged` that the objects equal them once eligible; `RowsOwned` and
  `ReceiptsBacked` that a row or receipt belongs to an evaluation that has called, so one
  that has not called can still choose its copies. Here `Nothing` must differ from the decisions.
* **PortfolioProofs, paper ledger.** `PaperTypeCorrect`, `AccountAlwaysReconciles`,
  `CapacityAlwaysUpToStuckExits`, for any costs, amounts, dates, limit and number of
  invocations. `SessionContinues` is the algebra of one session: cash moves by `delta`, and
  cash, entry amounts still open and costs of the entries move by `pnl` together (sums over
  disjoint sets, from `FiniteSums`); buys that were admitted leave the account within the
  limit, but for the exits that did not fill. What carries it along the ledger is that an
  invocation works on the newest account from its first look to its write, although it reads
  it twice and checks nothing in between: `InTurn` says that one invocation is active
  (`Alone`), that its date is no earlier than any on file and all older files are complete
  (`Ahead`), hence that both loads return the same account (`LoadedIsLast`), that the plan
  was admitted for it (`PlanAdmissible`) and the result continues it (`ResultContinues`).
  A kill in the write leaves a partial file, which is then the newest one forever
  (`CutShortIsNewest`), so nothing is ever built past it. `InTurn` is only claimed while the
  invocations come one at a time in date order; types and the cash that is never negative
  are proved without that condition.
* **PortfolioProofs, forward signals.** `HeldAlwaysWithinLimit`, `NeverLooksAhead`,
  `ScoresAlwaysSettle`, `NoDisclosureEverMissed`. The portfolio is a recursive function over
  the sessions of a fold over each session's files in any order. As long as the records came
  in order a session has at most one file (`OneFileEach`), so its fold is one step
  (`ThroughNone`, `ThroughOne`), and the records lead to one portfolio per session
  (`FollowingHolds`), within the limit (`WithinLimit`): the record added last was admitted
  for the portfolio of the session before, and nothing follows it
  (`AdmittedWithinLimit`, `RecordedInOrder`). What the recursion computes is stated without
  induction: functions that satisfy its equation agree (`LeadsAgree`) and exist
  (`LeadsExist`), both by the least session at which they would not. `NeverLooksAhead` rests on
  the cut of the brief of the session a record is put under, whatever session the reply was
  made for, and on a feed that only grows and keeps its order. `ScoresAlwaysSettle` follows
  from records that never change and windows counted only when passed.
* **PortfolioProofs, risk watch.** `NoDisclosureEverMissed`, for any feed, names, windows and
  page size. `NoDisclosureMissed` becomes inductive with `LooksPast` (no look is ahead of the
  day or the feed, and what was filed after it is not of an earlier day), `FeedPast` (nothing
  is filed ahead of the day) and `VerdictsShown` (the agent dismisses only what it was shown).
  A digest in time flags every material filing since the look before: it lies in the window,
  and no more than a page of filings came after it (`InTimeFlagsAll`); so `considered` covers
  it when the operator is told the flags, or those a review keeps with those it may drop
  (`DigestKeeps`).

**Model-checked only.** `WaiterServed`, `WriterReleases` and `RoutineFinishes` are liveness
under fairness, which the prover does not reach. Beyond the provers, not only unproved, is
what a fold or a recursion over data computes for every input: the theorems use of a sum only how it
changes when an element is added or two are added pointwise, and of the portfolio only its
value after a session from that after the one before.

## 6. Findings

With a run:

1. `submission_crash`: a process killed inside the POST leaves no halt, and the next
   invocation sends on that account (`production_execution.py:248`).
2. `collection_daily`: without `--collection-dir` the routine collects every date into one
   directory, which serves one date only (`forward_prepare.py:93`); docs/10 passes one per date.

Met while modelling:

3. DART is asked for one page of filings; what is beyond it is not screened
   (`llm/dart_disclosures.py:64`). A definite rejection of an order is caught with everything
   else and halts the account (`production_execution.py:252`), against docs/10.
4. `rewrite_pending_sells` erases a SELL captured while settle runs (`realized_settlement.py:103`).
5. The daily-loss breaker reads the ledger of the signal's day (`pilot_cli.py:374`).
6. A paper SELL that does not fill has given its slot to a BUY (`guardrail.py:142`).
7. An eligible symbol without a bar raises (`backtest_engine.py:344`) where docs/04 leaves the
   symbol out of the candidates.
8. The 20-session average counts the current close twice (`exit_evaluation.py:93`); a manual
   SELL is subject to the entry caps (`pilot_cli.py:261`); a paper session's exit proceeds can
   pay for its entries (`session.py:174`); a kill while a paper session is written stops
   later runs (`ledger.py:103`).
9. The collector's command line does not resume what a killed or limited run left
   (`kis_snapshot_collector.py:131`), and a file that no longer matches its entry's hash is
   entered again (`kis_snapshot_collector.py:59`).
10. The brief that is recorded may differ from the one the agent saw (`forward_cli.py:203`),
    and so may the flags a review is applied to (`risk_cli.py:157`); a kill while a record is
    written stops every score (`signal_audit.py:144`); same-day records net in the order
    of a directory listing (`positions.py:31`).
11. The halt review reads its clock once, before the authority's call
    (`authoritative_halt_release.py:398`).

## 7. External assumptions

KIS, the calendar and the operator are modelled from how the code uses them. Two
assumptions matter: an order that is no longer open does not trade again, and the fills
of a day include every trade of an order that the earlier read saw gone (the fills view does not lag behind
the open-orders view). `BrokerReader` checks the second from what it assumes of KIS: a page continues after the last row
of the one before, by the row's key, and may repeat that row; the fills list holds all
orders of the day. The challenge authority consumes a challenge once, whatever request comes
with it, and not after its expiry, and its signature cannot be forged. The first page of a
DART list holds the newest filings. The KIS chart shows a prefix of the trading days
for each security, and never takes a row back. Both evidence providers are configured. `flock`, `O_EXCL`, `fsync` and SQLite transactions do what POSIX and
SQLite promise; only process kills are modelled, not power loss.

## 8. Not modelled

In-process tampering with objects (but for the halt release, whose code guards against it),
rendering and parsing, price and size arithmetic, the `--equity`/`--open-positions`
overrides, `preflight` and `reconcile` (read only), the backtest's analysis and metrics,
HTTP, the token cache, severities and weights, `order_bridge`, and the components listed as `not_modelled` in `PROJECT.json` with
their reasons: they keep no state, and what they compute is arithmetic or text.

## 9. Plan

1. `AccountHaltLock`: threads and forks behind the lock, shown to implement the lock of
   `OrderSubmission`.
2. `PretradeRisk` (limit arithmetic, canonical intent) as operators checked against
   reference definitions.
