------------------------- MODULE SnapshotCollection -------------------------
(***************************************************************************)
(* The collection of daily bars from KIS into a directory of immutable     *)
(* files (kis_snapshot_collector.py, kis_market_index.py, the paging of    *)
(* kis.py) and the daily routine that turns the directory into the         *)
(* snapshot of a signal date (deploy/forward_prepare.py).  One process     *)
(* works at a time; it may be killed at any step and is started again.     *)
(*                                                                         *)
(* A bar is its day: prices play no part here.  The content hash of a file *)
(* is the file's value, since an entry is compared with it for equality.   *)
(***************************************************************************)
EXTENDS Naturals, Sequences, FiniteSetsExt

CONSTANTS Symbols,       \* the stocks
          KOSPI,         \* the market index, a security with a file of its own
          Watchlist,     \* the symbols of the daily routine, as a sequence
          Universes,     \* the symbol lists a collector may be asked for
          Requests,      \* the date windows [start, end] a run may be asked for
          Days,          \* the last day
          FirstDay,      \* the day it is at the start
          PageSize,      \* rows KIS returns per request
          MaxRequests,   \* the page budget of one run
          MaxFaults,     \* bound: kills and failed requests altogether
          Late,          \* bound: the securities whose row may be late on its day
          OwnDirectory,  \* a --collection-dir per request, or the default for all
          None,          \* an absent file
          Error,         \* the manifest entry of a symbol that could not be collected
          Torn           \* a file whose writer was killed

ASSUME PagingAssumption == /\ PageSize \in Nat \ {0} /\ MaxRequests \in Nat \ {0}
                           /\ Days \in Nat /\ FirstDay \in 1 .. Days /\ MaxFaults \in Nat
(* _validate_snapshot_request: a window does not end before it starts, and a *)
(* symbol has six characters.                                                *)
ASSUME RequestAssumption ==
  /\ Requests \subseteq [start : 1 .. Days, end : FirstDay .. Days]
  /\ \A r \in Requests : r.start <= r.end
  /\ Universes \subseteq Seq(Symbols) /\ Watchlist \in Seq(Symbols)
  /\ KOSPI \notin Symbols

Security == Symbols \cup {KOSPI}

(* default="data/kis-live" unless --collection-dir names another. *)
Directory(r) == IF OwnDirectory THEN r ELSE "kis-live"
Directories == {Directory(r) : r \in Requests}

(* A published file: its requested window and the days it has bars for. *)
Payload == [start : 1 .. Days, end : 1 .. Days, days : SUBSET (1 .. Days)]
Manifest == [start : 1 .. Days, end : 1 .. Days, complete : BOOLEAN,
             entry : [Symbols -> Payload \cup {None, Error}]]
ASSUME NamesAssumption == Error \notin Payload \cup {None} /\ None \notin Payload
(* A rebuilt snapshot: its calendar, and the days of every series. *)
Snapshot == [days : SUBSET (1 .. Days), bars : UNION {[S -> SUBSET (1 .. Days)] : S \in SUBSET Symbols}]

VARIABLES today,   \* the current day
          upto,    \* per security, the last day KIS has a row for
          file,    \* per directory and security, the published file
          man,     \* per directory, manifest.json
          tmp,     \* per directory, the names with a leftover temporary file
          snap,    \* per signal date, data/snapshots/forward-D.json
          job,     \* the running process
          faults

provider == <<today, upto>>
disk == <<file, man, tmp, snap>>
vars == <<provider, disk, job, faults>>

Stage == {"idle", "preflight", "load", "inspect", "page", "publish", "record", "seal",
          "index", "rebuild", "told"}
Idle == [at |-> "idle", how |-> "none", dir |-> None, req |-> None, todo |-> <<>>, syms |-> <<>>,
         mem |-> None, now |-> None, cursor |-> 0, got |-> {}, spent |-> 0, failed |-> FALSE]
Job == [at : Stage, how : {"none", "cli", "prepare", "index", "rebuild"},
        dir : Directories \cup {None}, req : Requests \cup {None},
        todo : Seq(Symbols), syms : Seq(Symbols), mem : Manifest \cup {None},
        now : Security \cup {None}, cursor : 0 .. Days, got : SUBSET (1 .. Days),
        spent : 0 .. MaxRequests, failed : BOOLEAN]

TypeOK ==
  /\ today \in FirstDay .. Days
  /\ upto \in [Security -> 0 .. Days]
  /\ file \in [Directories -> [Security -> Payload \cup {None}]]
  /\ man \in [Directories -> Manifest \cup {None}]
  /\ tmp \in [Directories -> SUBSET (Security \cup {"manifest"})]
  /\ snap \in [FirstDay .. Days -> Snapshot \cup {None, Torn}]
  /\ job \in Job
  /\ faults \in 0 .. MaxFaults

Init == /\ today = FirstDay
        /\ upto = [x \in Security |-> IF x \in Late THEN FirstDay - 1 ELSE FirstDay]
        /\ file = [d \in Directories |-> [x \in Security |-> None]]
        /\ man = [d \in Directories |-> None]
        /\ tmp = [d \in Directories |-> {}]
        /\ snap = [d \in FirstDay .. Days |-> None]
        /\ job = Idle
        /\ faults = 0

-----------------------------------------------------------------------------
(* KIS.  The row of the current day appears per security, some time after  *)
(* the close; rows already published stay.                                 *)

RowAppears(x) == /\ upto[x] < today
                 /\ upto' = [upto EXCEPT ![x] = today]
                 /\ UNCHANGED <<today, disk, job, faults>>

NextDay == /\ today < Days
           /\ \A x \in Security : upto[x] = today
           /\ today' = today + 1
           /\ upto' = [x \in Security |-> IF x \in Late THEN today ELSE today + 1]
           /\ UNCHANGED <<disk, job, faults>>

(* The newest PageSize rows of a window: every row with fewer newer ones. *)
Page(x, start, end) ==
  LET rows == start .. Min({end, upto[x]})
  IN  {d \in rows : Cardinality({e \in rows : e > d}) < PageSize}

(* Where the walk backwards ends: a stock's also at a short page. *)
LastPage(x, page, start) ==
  \/ page = {}
  \/ x # KOSPI /\ Cardinality(page) < PageSize
  \/ Min(page) <= start

-----------------------------------------------------------------------------
(* The process.  Steps of a job go from stage to stage. *)

At(stage) == job.at = stage
Goto(stage) == job' = [job EXCEPT !.at = stage]
Over == job' = Idle
Files == file[job.dir]

Fresh(req) == [start |-> req.start, end |-> req.end, complete |-> FALSE,
               entry |-> [s \in Symbols |-> None]]
SameRequest(m, req) == m.start = req.start /\ m.end = req.end
(* What _valid_completed_entry and _recover_orphan_entry accept as finished. *)
Recorded(m, s) == m.entry[s] = file[job.dir][s] /\ m.entry[s] # None
NothingRecoverable(p) == FALSE
Recoverable(p) == p # None /\ SameRequest(p, job.req)

Start(how, req, dir, syms) ==
  /\ At("idle")
  /\ req.end <= today
  /\ job' = [Idle EXCEPT !.how = how, !.req = req, !.dir = dir, !.syms = syms, !.todo = syms,
               !.at = CASE how = "cli" -> "preflight" [] how = "prepare" -> "load"
                        [] how = "index" -> "index" [] how = "rebuild" -> "rebuild"]
  /\ UNCHANGED <<provider, disk, faults>>

(* The four commands: the collector, the index collector, forward_prepare   *)
(* and forward_prepare --skip-collect.                                      *)
Collect(req, syms) == Start("cli", req, Directory(req), syms)
CollectIndex(req) == Start("index", req, Directory(req), <<>>)
Daily == {r \in Requests : r.start < r.end}
Prepare(req) == req \in Daily /\ Start("prepare", req, Directory(req), Watchlist)
Rebuild(req) == req \in Daily /\ Start("rebuild", req, Directory(req), Watchlist)

(* The collector's preflight: an exact finished collection is reported, an  *)
(* empty directory is collected into, and anything else is refused: what a  *)
(* killed run left, an error entry, and a KOSPI file beside the stocks.     *)
Asked == {job.syms[i] : i \in DOMAIN job.syms}
Interrupted == tmp[job.dir] \cap (Asked \cup {"manifest"}) # {}
Untouched == man[job.dir] = None /\ \A x \in Security : Files[x] = None
ExactByFlag == man[job.dir] # None /\ SameRequest(man[job.dir], job.req) /\ man[job.dir].complete
Exact == LET m == man[job.dir] IN
  /\ m # None
  /\ SameRequest(m, job.req)
  /\ m.complete
  /\ {s \in Symbols : m.entry[s] # None} = Asked
  /\ {x \in Security : Files[x] # None} = Asked
  /\ \A s \in Asked : Recorded(m, s)
Preflight == /\ At("preflight")
             /\ \/ ~Interrupted /\ Untouched /\ Goto("load")
                \/ ~Interrupted /\ Exact /\ Goto("told")
                \/ (Interrupted \/ ~(Untouched \/ Exact)) /\ Over
             /\ UNCHANGED <<provider, disk, faults>>

LoadManifest ==
  /\ At("load")
  /\ LET m == man[job.dir] IN
       \/ m = None /\ job' = [job EXCEPT !.at = "inspect", !.mem = Fresh(job.req)]
       \/ m # None /\ SameRequest(m, job.req) /\ job' = [job EXCEPT !.at = "inspect", !.mem = m]
       \/ m # None /\ ~SameRequest(m, job.req) /\ Over
  /\ UNCHANGED <<provider, disk, faults>>

Entered(e) == [job.mem EXCEPT !.entry[job.now] = e]
Fails == job' = [job EXCEPT !.at = "record", !.mem = Entered(Error), !.failed = TRUE]
Fetch(x) == [job EXCEPT !.at = "page", !.now = x, !.cursor = job.req.end, !.got = {}]

(* The head of the symbols still to do: finished before, recovered from an  *)
(* orphan file, refused because of a foreign file, or to be fetched.        *)
Inspect ==
  /\ At("inspect")
  /\ LET s == Head(job.todo)  rest == Tail(job.todo) IN
       \/ job.todo = <<>> /\ Goto("seal")
       \/ /\ job.todo # <<>> /\ Recorded(job.mem, s)
          /\ job' = [job EXCEPT !.todo = rest]
       \/ /\ job.todo # <<>> /\ ~Recorded(job.mem, s)
          /\ \/ /\ Recoverable(Files[s])
                /\ job' = [job EXCEPT !.at = "record", !.todo = rest, !.now = s,
                                      !.mem.entry[s] = Files[s]]
             \/ /\ Files[s] # None /\ ~Recoverable(Files[s])
                /\ job' = [job EXCEPT !.at = "record", !.todo = rest, !.now = s, !.failed = TRUE,
                                      !.mem.entry[s] = Error]
             \/ /\ Files[s] = None
                /\ job' = [Fetch(s) EXCEPT !.todo = rest]
  /\ UNCHANGED <<provider, disk, faults>>

(* One page request: the budget is asked first, and shared by the symbols. *)
CapReached == job.spent >= MaxRequests
AfterIndex == IF job.how = "prepare" THEN Goto("rebuild") ELSE Over
UnfetchedQuietly == Goto("publish")
Unfetched == IF job.now = KOSPI THEN AfterIndex ELSE Fails
LoadPage ==
  /\ At("page")
  /\ \/ CapReached /\ Unfetched
     \/ /\ ~CapReached
        /\ LET page == Page(job.now, job.req.start, job.cursor)
               next == [job EXCEPT !.spent = @ + 1, !.got = @ \cup page]
           IN  job' = IF LastPage(job.now, page, job.req.start)
                      THEN [next EXCEPT !.at = "publish"]
                      ELSE [next EXCEPT !.cursor = Min(page) - 1]
  /\ UNCHANGED <<provider, disk, faults>>

(* The request fails, or its answer is not the JSON it should be. *)
PageFails == /\ At("page") /\ faults < MaxFaults
             /\ Unfetched
             /\ faults' = faults + 1
             /\ UNCHANGED <<provider, disk>>

Fetched == [start |-> job.req.start, end |-> job.req.end, days |-> job.got]
Publish ==
  /\ At("publish")
  /\ Files[job.now] = None
  /\ file' = [file EXCEPT ![job.dir][job.now] = Fetched]
  /\ tmp' = [tmp EXCEPT ![job.dir] = @ \ {job.now}]
  /\ IF job.now = KOSPI
     THEN IF job.how = "prepare" THEN Goto("rebuild") ELSE Goto("told")
     ELSE job' = [job EXCEPT !.at = "record", !.mem = Entered(Fetched)]
  /\ UNCHANGED <<provider, man, snap, faults>>

SaveManifest(m) == /\ man' = [man EXCEPT ![job.dir] = m]
                   /\ tmp' = [tmp EXCEPT ![job.dir] = @ \ {"manifest"}]
Record == /\ At("record")
          /\ SaveManifest(job.mem)
          /\ Goto("inspect")
          /\ UNCHANGED <<provider, file, snap, faults>>

(* The last write of a collection carries the verdict. *)
Sealed == [job.mem EXCEPT !.complete = ~job.failed]
Seal == /\ At("seal")
        /\ SaveManifest(Sealed)
        /\ IF job.how = "prepare" THEN Goto("index")
           ELSE IF job.failed THEN Over ELSE Goto("told")
        /\ UNCHANGED <<provider, file, snap, faults>>

(* KOSPI: an existing file is used if its window is exact (the command) or  *)
(* unseen (the routine); otherwise it is fetched with a budget of its own.  *)
Index ==
  /\ At("index")
  /\ LET k == Files[KOSPI] IN
       \/ k = None /\ job' = [Fetch(KOSPI) EXCEPT !.spent = 0]
       \/ k # None /\ job.how = "prepare" /\ Goto("rebuild")
       \/ k # None /\ job.how = "index" /\ (IF SameRequest(k, job.req) THEN Goto("told") ELSE Over)
  /\ UNCHANGED <<provider, disk, faults>>

(* The rebuild of forward_prepare: KOSPI's days up to the signal date are   *)
(* the calendar, and every series is cut to it.                             *)
Calendar == {d \in Files[KOSPI].days : d <= job.req.end}
CanRebuild == /\ Files[KOSPI] # None /\ \A s \in Asked : Files[s] # None
              /\ Calendar # {}
              /\ \A s \in Asked : Files[s].days \cap Calendar # {}
Rebuilt == [days |-> Calendar, bars |-> [s \in Asked |-> Files[s].days \cap Calendar]]
SaveSnapshot == /\ At("rebuild")
                /\ IF CanRebuild THEN /\ snap' = [snap EXCEPT ![job.req.end] = Rebuilt]
                                      /\ Over
                                 ELSE Over /\ UNCHANGED snap
                /\ UNCHANGED <<provider, file, man, tmp, faults>>

(* The command has printed "complete" and exits with 0. *)
Exit == At("told") /\ Over /\ UNCHANGED <<provider, disk, faults>>

(* A kill.  A write through a temporary name leaves that name behind, or    *)
(* not; the snapshot is written in place.                                   *)
Writing == CASE At("publish") -> {job.now} [] At("record") \/ At("seal") -> {"manifest"} [] OTHER -> {}
Killed ==
  /\ ~At("idle") /\ faults < MaxFaults
  /\ faults' = faults + 1
  /\ \E left \in SUBSET Writing : tmp' = [tmp EXCEPT ![job.dir] = @ \cup left]
  /\ \/ snap' = snap
     \/ At("rebuild") /\ CanRebuild /\ snap' = [snap EXCEPT ![job.req.end] = Torn]
  /\ Over
  /\ UNCHANGED <<provider, file, man>>

Work == \/ Preflight \/ LoadManifest \/ Inspect \/ LoadPage \/ Publish \/ Record
        \/ Seal \/ Index \/ SaveSnapshot \/ Exit
Command == \E req \in Requests : \/ CollectIndex(req) \/ Prepare(req) \/ Rebuild(req)
                               \/ \E syms \in Universes : Collect(req, syms)
Kis == NextDay \/ \E x \in Security : RowAppears(x)
CollectNext == Work \/ Command \/ Kis \/ PageFails \/ Killed

=============================================================================
