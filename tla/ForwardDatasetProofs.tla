------------------------ MODULE ForwardDatasetProofs ------------------------
(* Why a published file is whole, a reported collection complete and a        *)
(* dataset sound, for any windows, page size, page budget, number of kills    *)
(* and order of late rows: the walk over the pages of a window always holds   *)
(* the newest end of what was there, an entry of a manifest names a file that *)
(* nothing replaces, and a dataset is written once.                           *)
EXTENDS ForwardDataset, Integers, FiniteSetTheorems, SequenceTheorems, WellFoundedInduction, TLAPS

(***************************************************************************)
(* The invariant                                                           *)
(***************************************************************************)
Upto(start, end, m) == {e \in start .. end : e <= m}
Elements(seq) == {seq[i] : i \in DOMAIN seq}

\* Which command is at which stage, and on what it works.
JobShape ==
  /\ ~At("idle") => job.dir \in Directories /\ job.req \in Requests
  /\ At("preflight") => job.how = "cli"
  /\ At("preflight") \/ At("load") => job.todo = job.syms
  /\ job.at \in {"load", "inspect", "record", "seal"} => job.how \in {"cli", "prepare"}
  /\ job.at \in {"inspect", "record", "seal"} => job.mem \in Manifest
  /\ At("record") => job.now \in Symbols
  /\ job.at \in {"page", "publish"} =>
       \/ job.now = KOSPI /\ job.how \in {"index", "prepare"}
       \/ job.now \in Symbols /\ job.how \in {"cli", "prepare"} /\ job.mem \in Manifest
  /\ At("index") => job.how \in {"index", "prepare"}
  /\ At("told") => job.how \in {"cli", "index"}

\* The rows after the cursor, as they were when the walk began, and the cursor is on a row.
Walk ==
  At("page") =>
    \/ job.cursor = job.req.end /\ job.got = {}
    \/ /\ job.req.start <= job.cursor /\ job.cursor < job.req.end
       /\ job.cursor <= upto[job.now]
       /\ \E m \in job.cursor .. Days : job.got = Upto(job.cursor + 1, job.req.end, m)

Whole(days, start, end) == \E m \in 0 .. Days : days = Upto(start, end, m)
Walked == At("publish") => Whole(job.got, job.req.start, job.req.end)

\* The entries of a manifest, on disk and in memory, are of its own window.
OwnWindow(m) == \A s \in Symbols : m.entry[s] \in Payload => SameRequest(m.entry[s], m)
Collecting ==
  \/ job.at \in {"inspect", "record", "seal"}
  \/ job.at \in {"page", "publish"} /\ job.now # KOSPI
OwnWindows ==
  /\ \A d \in Directories : man[d] # None => OwnWindow(man[d])
  /\ Collecting => OwnWindow(job.mem) /\ SameRequest(job.mem, job.req)

\* As long as nothing failed, the symbols behind the run are recorded with their file.
Kept(m, s) == /\ m.entry[s] = Files[s] /\ Files[s] # None
              /\ SameRequest(Files[s], job.req)
Behind(s) == /\ s \notin Elements(job.todo)
             /\ At("seal") \/ At("inspect") \/ At("record") \/ s # job.now
Progress ==
  Collecting =>
    /\ At("seal") => job.todo = <<>>
    /\ ~job.failed => \A s \in Asked : Behind(s) => Kept(job.mem, s)

\* The assembling process: what it extends stays as it found it.
AsmShape ==
  /\ asm.at # "idle" => asm.dir \in Directories /\ asm.day \in AsOf /\ asm.man \in Manifest
  /\ asm.at = "assemble" => asm.base = None
  /\ asm.at = "extend" => /\ asm.base \in AsOf /\ asm.base < asm.day
                          /\ data[asm.base] # None
                          /\ asm.syms = DOMAIN data[asm.base].bars

CalendarsHaveDays == \A d \in AsOf : data[d] # None => data[d].calendar # {}

CollectInv ==
  /\ TypeOK
  /\ JobShape
  /\ Walk
  /\ Walked
  /\ OwnWindows
  /\ Progress
  /\ WholeHistory
  /\ ReportedComplete

IInv ==
  /\ CollectInv
  /\ DTypeOK
  /\ AsmShape
  /\ CalendarsHaveDays
  /\ DatasetSound

(***************************************************************************)
(* The walk over the pages of a window                                     *)
(***************************************************************************)
LEMMA SizeOfInterval ==
  ASSUME NEW a \in Int, NEW b \in Int, a <= b + 1
  PROVE  Cardinality(a .. b) = b - a + 1
<1>1. Cardinality(a .. b) = IF a > b THEN 0 ELSE b - a + 1
  BY FS_Interval, Zenon
<1>2. CASE a > b
  <2>1. b - a + 1 = 0
    BY <1>2
  <2> QED BY <1>1, <1>2, <2>1
<1>3. CASE ~(a > b)
  BY <1>1, <1>3
<1> QED BY <1>2, <1>3

\* A page is an interval that ends at the last row asked for, and short only if it begins the window.
LEMMA PageIsInterval ==
  ASSUME NEW x \in Security, upto[x] \in 0 .. Days, NEW start \in 1 .. Days, NEW end \in 0 .. Days,
         NEW top, top = (IF end <= upto[x] THEN end ELSE upto[x])
  PROVE  \/ top < start /\ Page(x, start, end) = {}
         \/ \E lo \in start .. top :
              /\ Page(x, start, end) = lo .. top
              /\ Min(Page(x, start, end)) = lo
              /\ Cardinality(Page(x, start, end)) < PageSize => lo = start
<1> DEFINE rows == start .. top
<1>1. top \in Int /\ start \in Int /\ PageSize \in Nat \ {0}
  BY PagingAssumption
<1>2. Min({end, upto[x]}) = top
  BY PagingAssumption DEF Min
<1>3. ASSUME NEW d \in rows PROVE Cardinality({e \in rows : e > d}) = top - d
  <2>1. {e \in rows : e > d} = d + 1 .. top
    BY <1>1
  <2>2. d + 1 \in Int /\ d + 1 <= top + 1 /\ top - (d + 1) + 1 = top - d
    BY <1>1
  <2>3. Cardinality(d + 1 .. top) = top - (d + 1) + 1
    BY <1>1, <2>2, SizeOfInterval
  <2> QED BY <2>1, <2>2, <2>3
<1>4. Page(x, start, end) = {d \in rows : top - d < PageSize}
  BY <1>2, <1>3 DEF Page
<1>5. CASE top < start
  BY <1>1, <1>4, <1>5
<1>6. CASE ~(top < start)
  <2> DEFINE lo == IF top - PageSize + 1 > start THEN top - PageSize + 1 ELSE start
  <2>1. lo \in start .. top
    BY <1>1, <1>6
  <2>2. Page(x, start, end) = lo .. top
    BY <1>1, <1>4, <1>6
  <2>3. Min(lo .. top) = lo
    <3> HIDE DEF lo
    <3>1. lo \in lo .. top /\ \A y \in lo .. top : lo <= y
      BY <1>1, <2>1
    <3>2. Min(lo .. top) \in lo .. top /\ \A y \in lo .. top : Min(lo .. top) <= y
      BY <3>1 DEF Min
    <3> QED BY <1>1, <2>1, <3>1, <3>2
  <2>4. Cardinality(lo .. top) = top - lo + 1
    <3> HIDE DEF lo
    <3>1. lo \in Int /\ lo <= top + 1
      BY <1>1, <2>1
    <3> QED BY <1>1, <3>1, SizeOfInterval
  <2>5. top - lo + 1 < PageSize => lo = start
    BY <1>1, <1>6
  <2> HIDE DEF lo
  <2>6. Min(Page(x, start, end)) = lo
    BY <2>2, <2>3
  <2>7. Cardinality(Page(x, start, end)) < PageSize => lo = start
    BY <2>2, <2>4, <2>5
  <2> QED BY <2>1, <2>2, <2>6, <2>7
<1> QED BY <1>5, <1>6

\* One page more: the window is whole at the last one, and until then the cursor is on a row.
LEMMA PageWalks ==
  ASSUME CollectInv, At("page"), NEW page, page = Page(job.now, job.req.start, job.cursor)
  PROVE  /\ page \subseteq 1 .. Days
         /\ LastPage(job.now, page, job.req.start) =>
              Whole(job.got \cup page, job.req.start, job.req.end)
         /\ ~LastPage(job.now, page, job.req.start) =>
              \E c \in 0 .. Days :
                /\ c = Min(page) - 1
                /\ job.req.start <= c /\ c < job.req.end /\ c <= upto[job.now]
                /\ \E m \in c .. Days : job.got \cup page = Upto(c + 1, job.req.end, m)
<1> DEFINE x == job.now
           start == job.req.start
           end == job.req.end
           cursor == job.cursor
           got == job.got
           top == IF cursor <= upto[x] THEN cursor ELSE upto[x]
<1>1. x \in Security /\ job.req \in Requests
  BY DEF CollectInv, JobShape, At, Security
<1>2. start \in 1 .. Days /\ end \in FirstDay .. Days /\ start <= end
  BY <1>1, RequestAssumption
<1>3. upto[x] \in 0 .. Days /\ cursor \in 0 .. Days
  BY <1>1 DEF CollectInv, TypeOK, Job
<1>4. Days \in Nat /\ FirstDay \in 1 .. Days
  BY PagingAssumption
<1>5. \/ cursor = end /\ got = {}
      \/ /\ start <= cursor /\ cursor < end /\ cursor <= upto[x]
         /\ \E m \in cursor .. Days : got = Upto(cursor + 1, end, m)
  BY DEF CollectInv, Walk
<1>6. \/ top < start /\ page = {}
      \/ \E lo \in start .. top :
           /\ page = lo .. top /\ Min(page) = lo
           /\ Cardinality(page) < PageSize => lo = start
  BY <1>1, <1>2, <1>3, PageIsInterval
<1>a. LastPage(x, page, start) <=> page = {} \/ (x # KOSPI /\ Cardinality(page) < PageSize) \/ Min(page) <= start
  BY DEF LastPage
<1> HIDE DEF x, start, end, cursor, got
<1>7. top \in 0 .. Days /\ top <= upto[x] /\ top <= cursor
  BY <1>3, <1>4
<1>b. start \in Int /\ end \in Int /\ cursor \in Int /\ upto[x] \in Int /\ cursor <= end /\ end <= Days
  BY <1>2, <1>3, <1>4, <1>5
<1>8. page \subseteq 1 .. Days
  BY <1>2, <1>4, <1>6, <1>7
<1>9. ASSUME NEW lo \in start .. top, page = lo .. top
      PROVE  \E m \in top .. Days : got \cup page = Upto(lo, end, m)
  <2>1. CASE cursor = end /\ got = {}
    <3>1. got \cup page = Upto(lo, end, top)
      BY <1>2, <1>4, <1>7, <1>9, <1>b, <2>1 DEF Upto
    <3> QED BY <1>7, <3>1, <1>4
  <2>2. CASE ~(cursor = end /\ got = {})
    <3>1. cursor < end /\ top = cursor
      BY <1>5, <2>2
    <3>2. PICK m \in cursor .. Days : got = Upto(cursor + 1, end, m)
      BY <1>5, <2>2
    <3>3. got \cup page = Upto(lo, end, m)
      <4> HIDE DEF top
      <4> QED BY <1>2, <1>4, <1>7, <1>9, <1>b, <3>1, <3>2 DEF Upto
    <3> QED BY <3>1, <3>2, <3>3
  <2> QED BY <2>1, <2>2
<1>10. ASSUME LastPage(x, page, start) PROVE Whole(got \cup page, start, end)
  <2>1. CASE page = {}
    <3>1. cursor = end /\ got = {}
      BY <1>2, <1>5, <1>6, <1>b, <2>1
    <3>2. got \cup page = Upto(start, end, 0)
      BY <1>2, <1>4, <2>1, <3>1 DEF Upto
    <3> QED BY <1>4, <3>2 DEF Whole
  <2>2. CASE page # {}
    <3>1. PICK lo \in start .. top : /\ page = lo .. top /\ Min(page) = lo
                                     /\ Cardinality(page) < PageSize => lo = start
      BY <1>6, <2>2
    <3>2. lo = start
      BY <1>10, <1>a, <1>b, <1>7, <2>2, <3>1
    <3>3. PICK m \in top .. Days : got \cup page = Upto(lo, end, m)
      BY <1>9, <3>1
    <3>4. m \in 0 .. Days
      BY <1>4, <1>7, <3>3
    <3> QED BY <3>2, <3>3, <3>4 DEF Whole
  <2> QED BY <2>1, <2>2
<1>11. ASSUME ~LastPage(x, page, start)
       PROVE  \E c \in 0 .. Days :
                /\ c = Min(page) - 1
                /\ start <= c /\ c < end /\ c <= upto[x]
                /\ \E m \in c .. Days : got \cup page = Upto(c + 1, end, m)
  <2>1. PICK lo \in start .. top : page = lo .. top /\ Min(page) = lo
    BY <1>6, <1>11, <1>a
  <2>2. lo > start /\ lo \in Int
    BY <1>11, <1>a, <1>b, <2>1
  <2>3. PICK m \in top .. Days : got \cup page = Upto(lo, end, m)
    BY <1>9, <2>1
  <2> HIDE DEF top
  <2>4. lo - 1 \in 0 .. Days /\ start <= lo - 1 /\ lo - 1 < end /\ lo - 1 <= upto[x]
    BY <1>2, <1>4, <1>7, <1>b, <2>1, <2>2
  <2>5. m \in lo - 1 .. Days /\ lo - 1 + 1 = lo
    BY <1>7, <1>4, <2>1, <2>2, <2>3
  <2>6. got \cup page = Upto(lo - 1 + 1, end, m)
    BY <2>3, <2>5
  <2> QED BY <2>1, <2>4, <2>5, <2>6
<1> QED BY <1>8, <1>10, <1>11 DEF x, start, end, got

(***************************************************************************)
(* The steps of the collection                                             *)
(***************************************************************************)
ManifestsOwn == \A d \in Directories : man[d] # None => OwnWindow(man[d])

LEMMA RequestIsDated ==
  ASSUME NEW r \in Requests
  PROVE  /\ r.start \in 1 .. Days /\ r.end \in 1 .. Days /\ r.end \in 0 .. Days
         /\ Directory(r) \in Directories
<1>1. r.start \in 1 .. Days /\ r.end \in FirstDay .. Days
  BY RequestAssumption
<1> QED BY <1>1, PagingAssumption DEF Directories

LEMMA FilesStay ==
  ASSUME CollectInv, UNCHANGED <<file, man>>
  PROVE  WholeHistory' /\ ManifestsOwn'
<1>1. WholeHistory /\ ManifestsOwn
  BY DEF CollectInv, OwnWindows, ManifestsOwn
<1>2. WholeHistory'
  BY <1>1 DEF WholeHistory
<1>3. ManifestsOwn'
  BY <1>1 DEF ManifestsOwn, OwnWindow, SameRequest
<1> QED BY <1>2, <1>3

\* A process that ends leaves what it published.
LEMMA Ends ==
  ASSUME CollectInv, TypeOK', UNCHANGED <<file, man>>, job' = Idle
  PROVE  CollectInv'
<1>1. job'.at = "idle"
  BY DEF Idle
<1>2. JobShape' /\ Walk' /\ Walked' /\ ~Collecting' /\ ReportedComplete'
  BY <1>1 DEF JobShape, Walk, Walked, Collecting, ReportedComplete, At
<1>3. Progress' /\ OwnWindows'
  BY <1>2, FilesStay DEF Progress, OwnWindows, ManifestsOwn
<1> QED BY <1>2, <1>3, FilesStay, Zenon DEF CollectInv

LEMMA IdleIsJob == Idle \in Job
<1>1. 0 \in 0 .. Days /\ 0 \in 0 .. MaxRequests
  BY PagingAssumption
<1>2. <<>> \in Seq(Symbols)
  OBVIOUS
<1> QED BY <1>1, <1>2 DEF Idle, Job, Stage

LEMMA InitCollect == Init => CollectInv
<1> SUFFICES ASSUME Init PROVE CollectInv
  OBVIOUS
<1>1. TypeOK
  <2>1. job \in Job
    BY IdleIsJob DEF Init
  <2>2. FirstDay \in FirstDay .. Days /\ 0 \in 0 .. MaxFaults
        /\ FirstDay \in 0 .. Days /\ FirstDay - 1 \in 0 .. Days
    BY PagingAssumption
  <2>3. upto \in [Security -> 0 .. Days]
    BY <2>2 DEF Init
  <2> QED BY <2>1, <2>2, <2>3 DEF Init, TypeOK
<1>2. job.at = "idle"
  BY DEF Init, Idle
<1>3. JobShape /\ Walk /\ Walked /\ ~Collecting /\ ReportedComplete
  BY <1>2 DEF JobShape, Walk, Walked, Collecting, ReportedComplete, At
<1>4. WholeHistory
  BY DEF Init, WholeHistory
<1>5. Progress /\ OwnWindows
  BY <1>3 DEF Init, Progress, OwnWindows
<1> QED BY <1>1, <1>3, <1>4, <1>5 DEF CollectInv

\* Days pass and rows appear: the walk looks back from a row that stays.
LEMMA KisStep == ASSUME CollectInv, Kis PROVE CollectInv'
<1>1. TypeOK /\ today \in FirstDay .. Days /\ upto \in [Security -> 0 .. Days]
  BY DEF CollectInv, TypeOK
<1>2. /\ UNCHANGED <<disk, job, faults>> /\ today' \in FirstDay .. Days
      /\ upto' \in [Security -> 0 .. Days] /\ \A x \in Security : upto[x] <= upto'[x]
  <2>1. ASSUME NEW x \in Security, RowAppears(x)
        PROVE  /\ UNCHANGED <<disk, job, faults>> /\ today' \in FirstDay .. Days
               /\ upto' \in [Security -> 0 .. Days] /\ \A y \in Security : upto[y] <= upto'[y]
    BY <1>1, <2>1, PagingAssumption DEF RowAppears
  <2>2. CASE NextDay
    <3>1. today' = today + 1 /\ today' \in FirstDay .. Days
      BY <1>1, <2>2, PagingAssumption DEF NextDay
    <3>2. /\ \A x \in Security : upto[x] = today
          /\ upto' = [x \in Security |-> IF x \in Late THEN today ELSE today + 1]
      BY <2>2 DEF NextDay
    <3>3. today \in 0 .. Days /\ today + 1 \in 0 .. Days
      BY <1>1, <3>1, PagingAssumption
    <3>4. UNCHANGED <<disk, job, faults>>
      BY <2>2 DEF NextDay
    <3>5. upto' \in [Security -> 0 .. Days]
      <4> DEFINE tomorrow == today + 1
                 later == [x \in Security |-> IF x \in Late THEN today ELSE tomorrow]
      <4>1. tomorrow \in 0 .. Days
        BY <3>3
      <4>2. upto' = later
        BY <3>2, Zenon
      <4> HIDE DEF tomorrow
      <4> QED BY <3>3, <4>1, <4>2
    <3>6. \A x \in Security : upto'[x] \in {today, today + 1}
      BY <3>2
    <3>7. \A x \in Security : upto[x] <= upto'[x]
      BY <3>2, <3>3, <3>6
    <3> QED BY <3>1, <3>4, <3>5, <3>7
  <2> QED BY <2>1, <2>2 DEF Kis
<1>3. TypeOK'
  BY <1>1, <1>2 DEF TypeOK, disk
<1>4. JobShape' /\ Walked' /\ OwnWindows' /\ Progress' /\ WholeHistory' /\ ReportedComplete'
  <2> USE <1>2 DEF CollectInv, disk, At
  <2>1. JobShape' /\ Walked'
    BY DEF JobShape, Walked
  <2>2. (Collecting' <=> Collecting) /\ OwnWindows'
    BY DEF OwnWindows, Collecting, OwnWindow, SameRequest
  <2>3. Progress'
    <3>1. Asked' = Asked /\ job'.todo = job.todo /\ job'.failed = job.failed /\ job'.mem = job.mem
          /\ job'.at = job.at
      BY DEF Asked
    <3>2. \A s : Behind(s)' <=> Behind(s)
      BY DEF Behind
    <3>3. \A s : Kept(job.mem, s)' <=> Kept(job.mem, s)
      BY DEF Kept, Files, SameRequest
    <3> QED BY <2>2, <3>1, <3>2, <3>3 DEF Progress
  <2>4. WholeHistory' /\ ReportedComplete'
    BY DEF WholeHistory, ReportedComplete, SameRequest, Recorded, Asked
  <2> QED BY <2>1, <2>2, <2>3, <2>4
<1>5. Walk'
  <2> SUFFICES ASSUME At("page"), job.cursor # job.req.end \/ job.got # {}
               PROVE  job.cursor <= upto'[job.now]
    BY <1>2 DEF CollectInv, Walk, At
  <2>1. job.now \in Security /\ job.cursor \in Nat /\ job.cursor <= upto[job.now]
    BY <1>1, PagingAssumption DEF CollectInv, JobShape, Walk, Security, At, TypeOK, Job
  <2> QED BY <1>1, <1>2, <2>1, PagingAssumption
<1> QED BY <1>3, <1>4, <1>5, Zenon DEF CollectInv

\* A step of the process that neither collects nor reports afterwards.
LEMMA Elsewhere ==
  ASSUME CollectInv, job' \in Job, UNCHANGED <<provider, disk>>, faults' \in 0 .. MaxFaults,
         JobShape', Walk', Walked', ~Collecting', job'.at # "told"
  PROVE  CollectInv'
<1>1. TypeOK'
  BY DEF CollectInv, TypeOK, provider, disk
<1>2. UNCHANGED <<file, man>>
  BY DEF disk
<1>3. Progress' /\ OwnWindows' /\ ReportedComplete'
  BY <1>2, FilesStay DEF Progress, OwnWindows, ManifestsOwn, ReportedComplete, At
<1> QED BY <1>1, <1>2, <1>3, FilesStay, Zenon DEF CollectInv

LEMMA StartStep ==
  ASSUME CollectInv, NEW req \in Requests, NEW how \in {"cli", "prepare", "index", "rebuild"},
         NEW syms \in Seq(Symbols), Start(how, req, Directory(req), syms)
  PROVE  CollectInv'
<1> DEFINE first == CASE how = "cli" -> "preflight" [] how = "prepare" -> "load"
                      [] how = "index" -> "index" [] how = "rebuild" -> "rebuild"
<1>1. job' = [Idle EXCEPT !.how = how, !.req = req, !.dir = Directory(req), !.syms = syms,
                          !.todo = syms, !.at = first]
      /\ UNCHANGED <<provider, disk, faults>>
  BY Zenon DEF Start
<1>a. faults' \in 0 .. MaxFaults
  BY <1>1 DEF CollectInv, TypeOK
<1>2. /\ how = "cli" => first = "preflight"
      /\ how = "prepare" => first = "load"
      /\ how = "index" => first = "index"
      /\ how = "rebuild" => first = "rebuild"
  OBVIOUS
<1> HIDE DEF first
<1>3. first \in {"preflight", "load", "index", "rebuild"}
  BY <1>2
<1>4. /\ job'.at = first /\ job'.how = how /\ job'.req = req /\ job'.dir = Directory(req)
      /\ job'.syms = syms /\ job'.todo = syms
  BY <1>1 DEF Idle
<1>5. job' \in Job
  BY <1>1, <1>3, IdleIsJob, RequestIsDated DEF Idle, Job, Stage
<1>6. JobShape'
  BY <1>2, <1>3, <1>4, RequestIsDated DEF JobShape, At
<1>7. Walk' /\ Walked' /\ ~Collecting' /\ job'.at # "told"
  BY <1>3, <1>4 DEF Walk, Walked, Collecting, At
<1> QED BY <1>1, <1>a, <1>5, <1>6, <1>7, Elsewhere

LEMMA PreflightStep == ASSUME CollectInv, Preflight PROVE CollectInv'
<1>1. /\ UNCHANGED <<provider, disk, faults>> /\ faults' \in 0 .. MaxFaults /\ job.at = "preflight" /\ job.how = "cli"
      /\ job.dir \in Directories /\ job.req \in Requests /\ job.todo = job.syms
      /\ job \in Job /\ TypeOK
  BY DEF CollectInv, JobShape, TypeOK, Preflight, At
<1>2. CASE Over
  <2>1. TypeOK' /\ UNCHANGED <<file, man>>
    BY <1>1, <1>2, IdleIsJob DEF TypeOK, provider, disk, Over
  <2> QED BY <1>2, <2>1, Ends DEF Over
<1>3. CASE Goto("load")
  <2>1. job' = [job EXCEPT !.at = "load"]
    BY <1>3 DEF Goto
  <2>2. job' \in Job /\ job'.at = "load"
    BY <1>1, <2>1 DEF Job, Stage
  <2>3. JobShape'
    BY <1>1, <2>1, <2>2 DEF JobShape, At, Job
  <2>4. Walk' /\ Walked' /\ ~Collecting' /\ job'.at # "told"
    BY <2>2 DEF Walk, Walked, Collecting, At
  <2> QED BY <1>1, <2>2, <2>3, <2>4, Elsewhere
<1>4. CASE Exact /\ Goto("told")
  <2>1. job' = [job EXCEPT !.at = "told"]
    BY <1>4 DEF Goto
  <2>2. /\ job' \in Job /\ job'.at = "told"
        /\ job'.how = job.how /\ job'.dir = job.dir /\ job'.req = job.req /\ job'.syms = job.syms
    BY <1>1, <2>1 DEF Job, Stage
  <2>3. JobShape'
    BY <1>1, <2>2 DEF JobShape, At
  <2>4. Walk' /\ Walked' /\ ~Collecting'
    BY <2>2 DEF Walk, Walked, Collecting, At
  <2>5. TypeOK' /\ UNCHANGED <<file, man>>
    BY <1>1, <2>2 DEF TypeOK, provider, disk
  <2>6. Progress' /\ OwnWindows'
    BY <2>4, <2>5, FilesStay DEF Progress, OwnWindows, ManifestsOwn
  <2>7. /\ man[job.dir].complete /\ SameRequest(man[job.dir], job.req)
        /\ \A s \in Asked : Recorded(man[job.dir], s) /\ s \in Symbols
    <3>1. \A s \in Asked : s \in Symbols
      BY <1>1 DEF Asked, Job
    <3> QED BY <1>4, <3>1 DEF Exact
  <2>8. \A s \in Asked : SameRequest(file[job.dir][s], job.req)
    <3> SUFFICES ASSUME NEW s \in Asked PROVE SameRequest(file[job.dir][s], job.req)
      OBVIOUS
    <3> DEFINE m == man[job.dir]
    <3>1. m # None /\ OwnWindow(m)
      BY <1>1, <1>4 DEF Exact, CollectInv, OwnWindows
    <3>2. m.entry[s] = file[job.dir][s] /\ m.entry[s] # None /\ s \in Security /\ s \in Symbols
      BY <2>7 DEF Recorded, Security
    <3>3. file[job.dir][s] \in Payload
      BY <1>1, <3>2 DEF TypeOK
    <3> QED BY <2>7, <3>1, <3>2, <3>3 DEF OwnWindow, SameRequest
  <2>9. Asked' = Asked
    BY <2>2 DEF Asked
  <2>10. \A s \in Asked : Recorded(man[job.dir], s)' /\ SameRequest(file[job.dir][s], job.req)'
    BY <2>2, <2>5, <2>7, <2>8 DEF Recorded, SameRequest
  <2>11. ReportedComplete'
    BY <1>1, <2>2, <2>5, <2>7, <2>9, <2>10 DEF ReportedComplete
  <2> QED BY <2>3, <2>4, <2>5, <2>6, <2>11, FilesStay, Zenon DEF CollectInv
<1> QED BY <1>2, <1>3, <1>4 DEF Preflight

LEMMA LoadManifestStep == ASSUME CollectInv, LoadManifest PROVE CollectInv'
<1>1. /\ UNCHANGED <<provider, disk, faults>> /\ faults' \in 0 .. MaxFaults /\ job.at = "load" /\ job.how \in {"cli", "prepare"}
      /\ job.dir \in Directories /\ job.req \in Requests /\ job.todo = job.syms
      /\ job \in Job /\ TypeOK
  BY DEF CollectInv, JobShape, TypeOK, LoadManifest, At
<1>2. CASE Over
  <2>1. TypeOK' /\ UNCHANGED <<file, man>>
    BY <1>1, <1>2, IdleIsJob DEF TypeOK, provider, disk, Over
  <2> QED BY <1>2, <2>1, Ends DEF Over
<1>3. ASSUME NEW m, m \in Manifest, OwnWindow(m), SameRequest(m, job.req),
             job' = [job EXCEPT !.at = "inspect", !.mem = m]
      PROVE  CollectInv'
  <2>1. /\ job' \in Job /\ job'.at = "inspect" /\ job'.mem = m
        /\ job'.how = job.how /\ job'.dir = job.dir /\ job'.req = job.req /\ job'.syms = job.syms
        /\ job'.todo = job.todo
    BY <1>1, <1>3 DEF Job, Stage
  <2>2. JobShape'
    BY <1>1, <1>3, <2>1 DEF JobShape, At
  <2>3. Walk' /\ Walked' /\ ReportedComplete'
    BY <2>1 DEF Walk, Walked, ReportedComplete, At
  <2>4. TypeOK' /\ UNCHANGED <<file, man>>
    BY <1>1, <2>1 DEF TypeOK, provider, disk
  <2>5. OwnWindows'
    BY <1>3, <2>1, <2>4, FilesStay DEF OwnWindows, ManifestsOwn, OwnWindow, SameRequest
  <2>6. \A s \in Asked' : ~Behind(s)'
    BY <1>1, <2>1 DEF Asked, Behind, Elements
  <2>7. Progress'
    BY <2>1, <2>6 DEF Progress, At
  <2> QED BY <2>2, <2>3, <2>4, <2>5, <2>7, FilesStay, Zenon DEF CollectInv
<1>4. /\ Fresh(job.req) \in Manifest /\ OwnWindow(Fresh(job.req)) /\ SameRequest(Fresh(job.req), job.req)
  BY <1>1, RequestIsDated, NamesAssumption DEF Fresh, Manifest, OwnWindow, SameRequest
<1>5. CASE man[job.dir] # None /\ SameRequest(man[job.dir], job.req)
  <2>1. man[job.dir] \in Manifest /\ OwnWindow(man[job.dir])
    BY <1>1, <1>5 DEF TypeOK, CollectInv, OwnWindows
  <2> QED BY <1>2, <1>3, <1>5, <2>1 DEF LoadManifest
<1>6. CASE man[job.dir] = None
  BY <1>2, <1>3, <1>4, <1>6 DEF LoadManifest
<1> QED BY <1>2, <1>5, <1>6 DEF LoadManifest

LEMMA HeadAndTail ==
  ASSUME NEW todo \in Seq(Symbols), todo # <<>>
  PROVE  /\ Head(todo) \in Symbols /\ Tail(todo) \in Seq(Symbols)
         /\ \A s : s \in Elements(todo) => s = Head(todo) \/ s \in Elements(Tail(todo))
<1>1. /\ Head(todo) \in Symbols /\ Tail(todo) \in Seq(Symbols)
      /\ Len(Tail(todo)) = Len(todo) - 1 /\ Len(todo) \in Nat
      /\ \A i \in 1 .. Len(Tail(todo)) : Tail(todo)[i] = todo[i + 1]
  BY HeadTailProperties, LenProperties
<1>2. ASSUME NEW i \in DOMAIN todo PROVE todo[i] = Head(todo) \/ todo[i] \in Elements(Tail(todo))
  <2>1. i \in 1 .. Len(todo) /\ DOMAIN Tail(todo) = 1 .. Len(todo) - 1
    BY <1>1, <1>2, LenProperties
  <2>2. CASE i = 1
    BY <2>2
  <2>3. CASE i # 1
    <3>1. i - 1 \in 1 .. Len(Tail(todo)) /\ i - 1 + 1 = i
      BY <1>1, <2>1, <2>3
    <3>2. Tail(todo)[i - 1] = todo[i]
      BY <1>1, <3>1
    <3> QED BY <1>1, <2>1, <3>1, <3>2 DEF Elements
  <2> QED BY <2>2, <2>3
<1> QED BY <1>1, <1>2 DEF Elements

\* One more symbol of a collection dealt with or begun, the files as they are.
LEMMA Collects ==
  ASSUME CollectInv, Collecting, job' \in Job, UNCHANGED <<provider, disk>>, faults' \in 0 .. MaxFaults,
         UNCHANGED <<job.how, job.dir, job.req, job.syms>>,
         job'.mem \in Manifest, OwnWindow(job'.mem), SameRequest(job'.mem, job.req),
         \/ job'.at \in {"inspect", "record", "seal"} /\ (job'.at = "record" => job'.now \in Symbols)
         \/ /\ job'.at = "page" /\ job'.now \in Symbols
            /\ job'.cursor = job'.req.end /\ job'.got = {},
         job'.at = "seal" => job'.todo = <<>>,
         ~job'.failed => \A s \in Asked : Behind(s)' => Kept(job'.mem, s)
  PROVE  CollectInv'
<1>1. TypeOK' /\ UNCHANGED <<file, man>>
  BY DEF CollectInv, TypeOK, provider, disk
<1>2. job.at # "idle" /\ job.how \in {"cli", "prepare"}
  BY DEF Collecting, CollectInv, JobShape, At
<1>3. JobShape'
  BY <1>2 DEF CollectInv, JobShape, At
<1>4. Walk' /\ Walked' /\ ReportedComplete'
  BY DEF Walk, Walked, ReportedComplete, At
<1>5. OwnWindows'
  BY <1>1, FilesStay DEF OwnWindows, ManifestsOwn, OwnWindow, SameRequest
<1>6. Asked' = Asked
  BY DEF Asked
<1>7. \A s : Kept(job'.mem, s) => Kept(job.mem, s)'
  BY <1>1 DEF Kept, Files, SameRequest
<1>8. Progress'
  BY <1>6, <1>7 DEF Progress, At
<1> QED BY <1>1, <1>3, <1>4, <1>5, <1>8, FilesStay, Zenon DEF CollectInv

\* A symbol's entry: its file, or the error.
LEMMA Enters ==
  ASSUME TypeOK, NEW s \in Symbols, NEW e \in Payload \cup {Error},
         job.mem \in Manifest, OwnWindow(job.mem), SameRequest(job.mem, job.req),
         e = Error \/ SameRequest(e, job.req)
  PROVE  LET m == [job.mem EXCEPT !.entry[s] = e] IN
         /\ m \in Manifest /\ OwnWindow(m) /\ SameRequest(m, job.req)
         /\ m.entry[s] = e /\ \A t \in Symbols \ {s} : m.entry[t] = job.mem.entry[t]
<1> DEFINE m == [job.mem EXCEPT !.entry[s] = e]
<1>1. job.mem.entry \in [Symbols -> Payload \cup {None, Error}]
  BY DEF Manifest
<1>2. m = [job.mem EXCEPT !.entry = [job.mem.entry EXCEPT ![s] = e]]
  OBVIOUS
<1>3. /\ m \in Manifest /\ m.start = job.mem.start /\ m.end = job.mem.end
      /\ m.entry = [job.mem.entry EXCEPT ![s] = e]
  BY <1>1, <1>2 DEF Manifest
<1>4. m.entry[s] = e /\ \A t \in Symbols \ {s} : m.entry[t] = job.mem.entry[t]
  BY <1>1, <1>3
<1>5. SameRequest(m, job.req)
  BY <1>3 DEF SameRequest
<1>6. OwnWindow(m)
  BY <1>3, <1>4, NamesAssumption DEF OwnWindow, SameRequest
<1> QED BY <1>3, <1>4, <1>5, <1>6

LEMMA InspectStep == ASSUME CollectInv, Inspect PROVE CollectInv'
<1>1. /\ UNCHANGED <<provider, disk, faults>> /\ faults' \in 0 .. MaxFaults /\ job.at = "inspect" /\ Collecting
      /\ job.dir \in Directories /\ job.req \in Requests /\ job.mem \in Manifest
      /\ job \in Job /\ TypeOK /\ job.todo \in Seq(Symbols)
  BY DEF CollectInv, JobShape, TypeOK, Inspect, At, Collecting, Job
<1>2. OwnWindow(job.mem) /\ SameRequest(job.mem, job.req)
  BY <1>1 DEF CollectInv, OwnWindows
<1>3. ~job.failed => \A s \in Asked : s \notin Elements(job.todo) => Kept(job.mem, s)
  BY <1>1 DEF CollectInv, Progress, Behind, At
<1>4. \A s \in Asked : s \in Symbols
  BY <1>1 DEF Asked, Job
<1>5. CASE job.todo = <<>> /\ Goto("seal")
  <2>1. job' = [job EXCEPT !.at = "seal"]
    BY <1>5 DEF Goto
  <2>2. /\ job' \in Job /\ job'.at = "seal" /\ job'.mem = job.mem /\ job'.todo = <<>>
        /\ job'.failed = job.failed
        /\ UNCHANGED <<job.how, job.dir, job.req, job.syms>>
    BY <1>1, <1>5, <2>1 DEF Job, Stage
  <2>3. \A s : s \notin Elements(job.todo)
    BY <1>5 DEF Elements
  <2> QED BY <1>1, <1>2, <1>3, <2>2, <2>3, Collects
<1>6. ASSUME job.todo # <<>> PROVE CollectInv'
  <2> DEFINE s == Head(job.todo)
             rest == Tail(job.todo)
  <2>1. /\ s \in Symbols /\ rest \in Seq(Symbols)
        /\ \A t : t \in Elements(job.todo) => t = s \/ t \in Elements(rest)
    BY <1>1, <1>6, HeadAndTail
  <2>2. Files[s] \in Payload \cup {None}
    BY <1>1, <2>1 DEF TypeOK, Files, Security
  <2>3. \/ Recorded(job.mem, s) /\ job' = [job EXCEPT !.todo = rest]
        \/ Recoverable(Files[s]) /\ job' = [job EXCEPT !.at = "record", !.todo = rest, !.now = s,
                                                       !.mem.entry[s] = Files[s]]
        \/ job' = [job EXCEPT !.at = "record", !.todo = rest, !.now = s, !.failed = TRUE,
                              !.mem.entry[s] = Error]
        \/ job' = [Fetch(s) EXCEPT !.todo = rest]
    BY <1>6, Zenon DEF Inspect
  <2> HIDE DEF s, rest
  <2>4. CASE Recorded(job.mem, s) /\ job' = [job EXCEPT !.todo = rest]
    <3>1. /\ job' \in Job /\ job'.at = "inspect" /\ job'.mem = job.mem /\ job'.todo = rest
          /\ job'.failed = job.failed
          /\ UNCHANGED <<job.how, job.dir, job.req, job.syms>>
      BY <1>1, <2>1, <2>4 DEF Job
    <3>2. Kept(job.mem, s)
      BY <1>2, <2>1, <2>2, <2>4 DEF Recorded, Kept, Files, OwnWindow, SameRequest
    <3>3. ~job'.failed => \A t \in Asked : Behind(t)' => Kept(job'.mem, t)
      BY <1>3, <2>1, <3>1, <3>2 DEF Behind
    <3> QED BY <1>1, <1>2, <3>1, <3>3, Collects
  <2>5. CASE Recoverable(Files[s]) /\ job' = [job EXCEPT !.at = "record", !.todo = rest, !.now = s,
                                                         !.mem.entry[s] = Files[s]]
    <3> DEFINE m == [job.mem EXCEPT !.entry[s] = Files[s]]
    <3>1. Files[s] \in Payload /\ SameRequest(Files[s], job.req)
      BY <2>2, <2>5 DEF Recoverable
    <3>2. /\ m \in Manifest /\ OwnWindow(m) /\ SameRequest(m, job.req)
          /\ m.entry[s] = Files[s] /\ \A t \in Symbols \ {s} : m.entry[t] = job.mem.entry[t]
      BY <1>1, <1>2, <2>1, <3>1, Enters
    <3>3. job' = [job EXCEPT !.at = "record", !.todo = rest, !.now = s, !.mem = m]
      BY <2>5
    <3> HIDE DEF m
    <3>4. /\ job' \in Job /\ job'.at = "record" /\ job'.mem = m /\ job'.todo = rest /\ job'.now = s
          /\ job'.failed = job.failed
          /\ UNCHANGED <<job.how, job.dir, job.req, job.syms>>
      BY <1>1, <2>1, <3>2, <3>3 DEF Job, Stage, Security
    <3>5. Kept(m, s) /\ \A t \in Symbols \ {s} : Kept(job.mem, t) => Kept(m, t)
      BY <3>1, <3>2, NamesAssumption DEF Kept
    <3>6. ~job'.failed => \A t \in Asked : Behind(t)' => Kept(job'.mem, t)
      BY <1>3, <1>4, <2>1, <3>4, <3>5 DEF Behind
    <3> QED BY <1>1, <2>1, <3>2, <3>4, <3>6, Collects
  <2>6. CASE job' = [job EXCEPT !.at = "record", !.todo = rest, !.now = s, !.failed = TRUE,
                                !.mem.entry[s] = Error]
    <3> DEFINE m == [job.mem EXCEPT !.entry[s] = Error]
    <3>1. m \in Manifest /\ OwnWindow(m) /\ SameRequest(m, job.req)
      BY <1>1, <1>2, <2>1, Enters
    <3>2. job' = [job EXCEPT !.at = "record", !.todo = rest, !.now = s, !.failed = TRUE, !.mem = m]
      BY <2>6
    <3> HIDE DEF m
    <3>3. /\ job' \in Job /\ job'.at = "record" /\ job'.mem = m /\ job'.todo = rest /\ job'.now = s
          /\ job'.failed
          /\ UNCHANGED <<job.how, job.dir, job.req, job.syms>>
      BY <1>1, <2>1, <3>1, <3>2 DEF Job, Stage, Security
    <3> QED BY <1>1, <2>1, <3>1, <3>3, Collects
  <2>7. CASE job' = [Fetch(s) EXCEPT !.todo = rest]
    <3>1. /\ job' \in Job /\ job'.at = "page" /\ job'.mem = job.mem /\ job'.todo = rest /\ job'.now = s
          /\ job'.failed = job.failed /\ job'.cursor = job.req.end /\ job'.got = {}
          /\ UNCHANGED <<job.how, job.dir, job.req, job.syms>>
      BY <1>1, <2>1, <2>7, RequestIsDated DEF Fetch, Job, Stage, Security
    <3>2. \A t \in Asked : Behind(t)' => t \notin Elements(job.todo)
      BY <2>1, <3>1 DEF Behind, At
    <3> QED BY <1>1, <1>2, <1>3, <2>1, <3>1, <3>2, Collects
  <2> QED BY <2>3, <2>4, <2>5, <2>6, <2>7
<1> QED BY <1>5, <1>6 DEF Inspect

\* No page: the symbol's entry is the error, and the index is given up.
LEMMA UnfetchedStep ==
  ASSUME CollectInv, At("page"), Unfetched, UNCHANGED <<provider, disk>>, faults' \in 0 .. MaxFaults
  PROVE  CollectInv'
<1>1. /\ job.at = "page" /\ job.dir \in Directories /\ job.req \in Requests
      /\ job \in Job /\ TypeOK
  BY DEF CollectInv, JobShape, TypeOK, At
<1>2. CASE job.now = KOSPI
  <2>1. CASE Over
    <3>1. TypeOK' /\ UNCHANGED <<file, man>>
      BY <1>1, <2>1, IdleIsJob DEF TypeOK, provider, disk, Over
    <3> QED BY <2>1, <3>1, Ends DEF Over
  <2>2. CASE Goto("rebuild")
    <3>1. job' = [job EXCEPT !.at = "rebuild"]
      BY <2>2 DEF Goto
    <3>2. /\ job' \in Job /\ job'.at = "rebuild" /\ job'.dir = job.dir /\ job'.req = job.req
      BY <1>1, <3>1 DEF Job, Stage
    <3>3. JobShape' /\ Walk' /\ Walked' /\ ~Collecting' /\ job'.at # "told"
      BY <1>1, <3>2 DEF JobShape, Walk, Walked, Collecting, At
    <3> QED BY <3>2, <3>3, Elsewhere
  <2> QED BY <1>2, <2>1, <2>2 DEF Unfetched, AfterIndex
<1>3. CASE job.now # KOSPI
  <2>1. job.now \in Symbols /\ Collecting /\ job.mem \in Manifest
    BY <1>1, <1>3 DEF CollectInv, JobShape, Collecting, At
  <2>2. OwnWindow(job.mem) /\ SameRequest(job.mem, job.req)
    BY <2>1 DEF CollectInv, OwnWindows
  <2> DEFINE m == [job.mem EXCEPT !.entry[job.now] = Error]
  <2>3. m \in Manifest /\ OwnWindow(m) /\ SameRequest(m, job.req)
    BY <1>1, <2>1, <2>2, Enters
  <2>4. job' = [job EXCEPT !.at = "record", !.mem = m, !.failed = TRUE]
    BY <1>3 DEF Unfetched, Fails, Entered
  <2> HIDE DEF m
  <2>5. /\ job' \in Job /\ job'.at = "record" /\ job'.mem = m /\ job'.now = job.now /\ job'.failed
        /\ UNCHANGED <<job.how, job.dir, job.req, job.syms>>
    BY <1>1, <2>3, <2>4 DEF Job, Stage
  <2> QED BY <2>1, <2>3, <2>5, Collects
<1> QED BY <1>2, <1>3

LEMMA PageFailsStep == ASSUME CollectInv, PageFails PROVE CollectInv'
<1>1. faults' \in 0 .. MaxFaults
  BY PagingAssumption DEF CollectInv, TypeOK, PageFails
<1> QED BY <1>1, UnfetchedStep DEF PageFails

LEMMA LoadPageStep == ASSUME CollectInv, LoadPage PROVE CollectInv'
<1>1. /\ UNCHANGED <<provider, disk, faults>> /\ faults' \in 0 .. MaxFaults /\ job.at = "page"
      /\ job.dir \in Directories /\ job.req \in Requests /\ job \in Job /\ TypeOK
      /\ job.got \in SUBSET (1 .. Days) /\ job.spent \in 0 .. MaxRequests
  BY DEF CollectInv, JobShape, TypeOK, LoadPage, At, Job
<1>2. CASE Unfetched
  BY <1>1, <1>2, UnfetchedStep DEF At
<1>3. CASE ~CapReached
  <2> DEFINE page == Page(job.now, job.req.start, job.cursor)
             next == [job EXCEPT !.spent = job.spent + 1, !.got = job.got \cup page]
  <2>1. /\ page \subseteq 1 .. Days
        /\ LastPage(job.now, page, job.req.start) =>
             Whole(job.got \cup page, job.req.start, job.req.end)
        /\ ~LastPage(job.now, page, job.req.start) =>
             \E c \in 0 .. Days :
               /\ c = Min(page) - 1
               /\ job.req.start <= c /\ c < job.req.end /\ c <= upto[job.now]
               /\ \E m \in c .. Days : job.got \cup page = Upto(c + 1, job.req.end, m)
    BY <1>1, PageWalks DEF At
  <2>2. job' = IF LastPage(job.now, page, job.req.start)
               THEN [next EXCEPT !.at = "publish"]
               ELSE [next EXCEPT !.cursor = Min(page) - 1]
    BY <1>3, Zenon DEF LoadPage
  <2> HIDE DEF page
  <2>3. next \in Job
    <3>1. job.spent + 1 \in 0 .. MaxRequests
      BY <1>1, <1>3, PagingAssumption DEF CapReached
    <3>2. job.got \cup page \in SUBSET (1 .. Days)
      BY <1>1, <2>1
    <3> QED BY <1>1, <3>1, <3>2 DEF Job
  <2>4. next.at = "page" /\ next.got = job.got \cup page /\ next.cursor = job.cursor
    BY <1>1 DEF Job
  <2>5. /\ next.how = job.how /\ next.dir = job.dir /\ next.req = job.req /\ next.syms = job.syms
        /\ next.todo = job.todo /\ next.mem = job.mem /\ next.now = job.now /\ next.failed = job.failed
    BY <1>1 DEF Job
  <2> HIDE DEF next
  <2>6. /\ job' \in Job /\ job'.at \in {"page", "publish"} /\ job'.got = job.got \cup page
        /\ job'.how = job.how /\ job'.dir = job.dir /\ job'.req = job.req /\ job'.syms = job.syms
        /\ job'.todo = job.todo /\ job'.mem = job.mem /\ job'.now = job.now /\ job'.failed = job.failed
        /\ job'.at = "publish" => Whole(job'.got, job.req.start, job.req.end)
        /\ job'.at = "page" => /\ job.req.start <= job'.cursor /\ job'.cursor < job.req.end
                               /\ job'.cursor <= upto[job.now]
                               /\ \E m \in job'.cursor .. Days :
                                    job'.got = Upto(job'.cursor + 1, job.req.end, m)
    <3>1. CASE LastPage(job.now, page, job.req.start)
      <4>1. job' = [next EXCEPT !.at = "publish"]
        BY <2>2, <3>1
      <4>2. job' \in Job /\ job'.at = "publish" /\ job'.got = next.got
        BY <2>3, <4>1 DEF Job, Stage
      <4>3. /\ job'.how = next.how /\ job'.dir = next.dir /\ job'.req = next.req /\ job'.syms = next.syms
            /\ job'.todo = next.todo /\ job'.mem = next.mem /\ job'.now = next.now
            /\ job'.failed = next.failed
        BY <2>3, <4>1 DEF Job
      <4> QED BY <2>1, <2>4, <2>5, <3>1, <4>2, <4>3
    <3>2. CASE ~LastPage(job.now, page, job.req.start)
      <4>1. PICK c \in 0 .. Days :
               /\ c = Min(page) - 1
               /\ job.req.start <= c /\ c < job.req.end /\ c <= upto[job.now]
               /\ \E m \in c .. Days : job.got \cup page = Upto(c + 1, job.req.end, m)
        BY <2>1, <3>2
      <4>2. job' = [next EXCEPT !.cursor = c]
        BY <2>2, <3>2, <4>1
      <4>3. job' \in Job /\ job'.at = "page" /\ job'.got = next.got /\ job'.cursor = c
        BY <2>3, <2>4, <4>2 DEF Job
      <4>4. /\ job'.how = next.how /\ job'.dir = next.dir /\ job'.req = next.req /\ job'.syms = next.syms
            /\ job'.todo = next.todo /\ job'.mem = next.mem /\ job'.now = next.now
            /\ job'.failed = next.failed
        BY <2>3, <4>2 DEF Job
      <4> QED BY <2>4, <2>5, <4>1, <4>3, <4>4
    <3> QED BY <3>1, <3>2
  <2>7. TypeOK' /\ UNCHANGED <<file, man>> /\ upto' = upto
    BY <1>1, <2>6 DEF TypeOK, provider, disk
  <2>8. JobShape'
    BY <1>1, <2>6 DEF CollectInv, JobShape, At
  <2>9. Walk'
    BY <2>6, <2>7 DEF Walk, At
  <2>10. Walked' /\ ReportedComplete'
    BY <2>6 DEF Walked, ReportedComplete, At
  <2>11. Collecting' <=> Collecting
    BY <1>1, <2>6 DEF Collecting
  <2>12. OwnWindows'
    BY <2>6, <2>7, <2>11, FilesStay DEF CollectInv, OwnWindows, ManifestsOwn, OwnWindow, SameRequest
  <2>13. Progress'
    <3>1. \A s : Behind(s)' <=> Behind(s)
      BY <1>1, <2>6 DEF Behind, At
    <3>2. \A s : Kept(job.mem, s)' <=> Kept(job.mem, s)
      BY <2>6, <2>7 DEF Kept, Files, SameRequest
    <3>3. Asked' = Asked
      BY <2>6 DEF Asked
    <3> QED BY <2>6, <2>11, <3>1, <3>2, <3>3 DEF CollectInv, Progress, At
  <2> QED BY <2>7, <2>8, <2>9, <2>10, <2>12, <2>13, FilesStay, Zenon DEF CollectInv
<1> QED BY <1>2, <1>3 DEF LoadPage

\* A published file is whole, and takes no name that another file has.
LEMMA PublishStep == ASSUME CollectInv, Publish PROVE CollectInv'
<1>1. /\ UNCHANGED <<provider, man, snap, faults>> /\ job.at = "publish"
      /\ job.dir \in Directories /\ job.req \in Requests /\ job.now \in Security
      /\ job \in Job /\ TypeOK /\ job.got \in SUBSET (1 .. Days)
      /\ file[job.dir][job.now] = None
      /\ file' = [file EXCEPT ![job.dir][job.now] = Fetched]
      /\ tmp' = [tmp EXCEPT ![job.dir] = @ \ {job.now}]
      /\ Whole(job.got, job.req.start, job.req.end)
  BY DEF CollectInv, JobShape, TypeOK, Publish, At, Job, Security, Files, Walked
<1>2. /\ Fetched \in Payload /\ SameRequest(Fetched, job.req) /\ Fetched # None /\ Fetched # Error
      /\ Fetched.days = job.got /\ Fetched.start = job.req.start /\ Fetched.end = job.req.end
  BY <1>1, RequestIsDated, NamesAssumption DEF Fetched, Payload, SameRequest
<1>3. /\ file' \in [Directories -> [Security -> Payload \cup {None}]]
      /\ file'[job.dir][job.now] = Fetched
      /\ \A d \in Directories, x \in Security :
           d # job.dir \/ x # job.now => file'[d][x] = file[d][x]
  BY <1>1, <1>2 DEF TypeOK
<1> HIDE DEF Fetched
<1>4. WholeHistory'
  <2> SUFFICES ASSUME NEW d \in Directories, NEW x \in Security, file'[d][x] # None
               PROVE  \E m \in 0 .. Days : file'[d][x].days = Upto(file'[d][x].start, file'[d][x].end, m)
    BY DEF WholeHistory, Upto
  <2>1. CASE d = job.dir /\ x = job.now
    BY <1>1, <1>2, <1>3, <2>1 DEF Whole
  <2>2. CASE ~(d = job.dir /\ x = job.now)
    BY <1>3, <2>2 DEF CollectInv, WholeHistory, Upto
  <2> QED BY <2>1, <2>2
<1>5. ASSUME job' \in Job PROVE TypeOK'
  <2>1. tmp' \in [Directories -> SUBSET (Security \cup {"manifest"})]
    BY <1>1 DEF TypeOK
  <2> QED BY <1>1, <1>3, <1>5, <2>1 DEF TypeOK, provider
<1>6. ManifestsOwn'
  BY <1>1 DEF CollectInv, OwnWindows, ManifestsOwn, OwnWindow, SameRequest
<1>7. CASE job.now = KOSPI
  <2>1. PICK at \in {"rebuild", "told"} :
          /\ job' = [job EXCEPT !.at = at]
          /\ at = "told" => job.how = "index"
    BY <1>1, <1>7, RequestAssumption DEF Publish, Goto, CollectInv, JobShape, At
  <2>2. /\ job' \in Job /\ job'.at = at
        /\ job'.how = job.how /\ job'.dir = job.dir /\ job'.req = job.req
    BY <1>1, <2>1 DEF Job, Stage
  <2>3. JobShape' /\ Walk' /\ Walked' /\ ~Collecting'
    BY <1>1, <2>1, <2>2 DEF JobShape, Walk, Walked, Collecting, At
  <2>4. ReportedComplete'
    BY <1>2, <1>3, <1>7, <2>1, <2>2 DEF ReportedComplete, At, SameRequest
  <2>5. Progress' /\ OwnWindows'
    BY <2>3, <1>6 DEF Progress, OwnWindows, ManifestsOwn
  <2> QED BY <1>4, <1>5, <2>2, <2>3, <2>4, <2>5, Zenon DEF CollectInv
<1>8. CASE job.now # KOSPI
  <2>1. job.now \in Symbols /\ Collecting /\ job.mem \in Manifest /\ job.how \in {"cli", "prepare"}
    BY <1>1, <1>8 DEF CollectInv, JobShape, Collecting, At
  <2>2. OwnWindow(job.mem) /\ SameRequest(job.mem, job.req)
    BY <2>1 DEF CollectInv, OwnWindows
  <2> DEFINE m == [job.mem EXCEPT !.entry[job.now] = Fetched]
  <2>3. /\ m \in Manifest /\ OwnWindow(m) /\ SameRequest(m, job.req)
        /\ m.entry[job.now] = Fetched
        /\ \A t \in Symbols \ {job.now} : m.entry[t] = job.mem.entry[t]
    BY <1>1, <1>2, <2>1, <2>2, Enters
  <2>4. job' = [job EXCEPT !.at = "record", !.mem = m]
    BY <1>8 DEF Publish, Entered
  <2> HIDE DEF m
  <2>5. /\ job' \in Job /\ job'.at = "record" /\ job'.mem = m
        /\ job'.how = job.how /\ job'.dir = job.dir /\ job'.req = job.req /\ job'.syms = job.syms
        /\ job'.todo = job.todo /\ job'.now = job.now /\ job'.failed = job.failed
    BY <1>1, <2>3, <2>4 DEF Job, Stage
  <2>6. JobShape'
    BY <1>1, <2>1, <2>3, <2>5 DEF JobShape, At
  <2>7. Walk' /\ Walked' /\ ReportedComplete'
    BY <2>5 DEF Walk, Walked, ReportedComplete, At
  <2>8. OwnWindows'
    BY <1>6, <2>3, <2>5 DEF OwnWindows, ManifestsOwn, OwnWindow, SameRequest
  <2>9. Progress'
    <3>1. ~job.failed => \A s \in Asked : s \notin Elements(job.todo) /\ s # job.now => Kept(job.mem, s)
      BY <1>1, <2>1 DEF CollectInv, Progress, Behind, At
    <3>2. \A s \in Symbols \ {job.now} : Kept(job.mem, s) => Kept(job.mem, s)'
      <4> SUFFICES ASSUME NEW s \in Symbols \ {job.now}, Kept(job.mem, s) PROVE Kept(job.mem, s)'
        OBVIOUS
      <4>1. file'[job.dir][s] = file[job.dir][s]
        BY <1>1, <1>3 DEF Security
      <4> QED BY <2>3, <2>5, <4>1 DEF Kept, Files, SameRequest
    <3>3. Kept(job.mem, job.now)'
      BY <1>2, <1>3, <2>3, <2>5 DEF Kept, Files, SameRequest
    <3>4. Asked' = Asked /\ \A s \in Asked : s \in Symbols
      BY <1>1, <2>5 DEF Asked, Job
    <3>5. \A s : Behind(s)' => s \notin Elements(job.todo)
      BY <2>5 DEF Behind
    <3>6. ~job.failed => \A s \in Asked : Behind(s)' => Kept(job.mem, s)'
      BY <2>5, <3>1, <3>2, <3>3, <3>4, <3>5
    <3> QED BY <2>5, <3>4, <3>6 DEF Progress, At
  <2> QED BY <1>4, <1>5, <2>5, <2>6, <2>7, <2>8, <2>9, Zenon DEF CollectInv
<1> QED BY <1>7, <1>8

\* What SaveManifest leaves on disk.
LEMMA Saves ==
  ASSUME CollectInv, job.dir \in Directories, NEW m \in Manifest, OwnWindow(m), SaveManifest(m),
         UNCHANGED <<provider, file, snap, faults>>
  PROVE  /\ man' \in [Directories -> Manifest \cup {None}] /\ man'[job.dir] = m
         /\ job' \in Job => TypeOK'
         /\ ManifestsOwn' /\ WholeHistory'
<1>1. man' = [man EXCEPT ![job.dir] = m] /\ tmp' = [tmp EXCEPT ![job.dir] = @ \ {"manifest"}] /\ TypeOK
  BY DEF SaveManifest, CollectInv
<1>2. man' \in [Directories -> Manifest \cup {None}] /\ man'[job.dir] = m
      /\ \A d \in Directories : d # job.dir => man'[d] = man[d]
  BY <1>1 DEF TypeOK
<1>3. tmp' \in [Directories -> SUBSET (Security \cup {"manifest"})]
  BY <1>1 DEF TypeOK
<1>4. job' \in Job => TypeOK'
  BY <1>1, <1>2, <1>3 DEF TypeOK, provider
<1>5. ManifestsOwn'
  <2>1. \A d \in Directories : man'[d] # None => OwnWindow(man'[d])
    BY <1>2 DEF CollectInv, OwnWindows
  <2> QED BY <2>1 DEF ManifestsOwn, OwnWindow, SameRequest
<1>6. WholeHistory'
  BY DEF CollectInv, WholeHistory
<1> QED BY <1>2, <1>4, <1>5, <1>6

LEMMA RecordStep == ASSUME CollectInv, Record PROVE CollectInv'
<1>1. /\ job.at = "record" /\ Collecting /\ job.dir \in Directories /\ job.req \in Requests
      /\ job \in Job /\ job.mem \in Manifest /\ job.how \in {"cli", "prepare"}
      /\ SaveManifest(job.mem) /\ UNCHANGED <<provider, file, snap, faults>>
      /\ job' = [job EXCEPT !.at = "inspect"]
  BY DEF CollectInv, JobShape, TypeOK, Record, At, Collecting, Goto
<1>2. OwnWindow(job.mem) /\ SameRequest(job.mem, job.req)
  BY <1>1 DEF CollectInv, OwnWindows
<1>3. /\ job' \in Job /\ job'.at = "inspect" /\ job'.mem = job.mem
      /\ job'.how = job.how /\ job'.dir = job.dir /\ job'.req = job.req /\ job'.syms = job.syms
      /\ job'.todo = job.todo /\ job'.failed = job.failed
  BY <1>1 DEF Job, Stage
<1>4. TypeOK' /\ ManifestsOwn' /\ WholeHistory'
  BY <1>1, <1>2, <1>3, Saves
<1>5. JobShape' /\ Walk' /\ Walked' /\ ReportedComplete'
  BY <1>1, <1>3 DEF JobShape, Walk, Walked, ReportedComplete, At
<1>6. OwnWindows'
  BY <1>2, <1>3, <1>4 DEF OwnWindows, ManifestsOwn, OwnWindow, SameRequest
<1>7. Progress'
  <2>1. \A s : Behind(s)' => Behind(s)
    BY <1>1, <1>3 DEF Behind, At
  <2>2. \A s : Kept(job.mem, s) => Kept(job.mem, s)'
    BY <1>1, <1>3 DEF Kept, Files, SameRequest
  <2>3. Asked' = Asked
    BY <1>3 DEF Asked
  <2> QED BY <1>1, <1>3, <2>1, <2>2, <2>3 DEF CollectInv, Progress, At
<1> QED BY <1>4, <1>5, <1>6, <1>7, Zenon DEF CollectInv

\* The verdict: complete if no symbol failed, and then every one is recorded.
LEMMA SealStep == ASSUME CollectInv, Seal PROVE CollectInv'
<1>1. /\ job.at = "seal" /\ Collecting /\ job.dir \in Directories /\ job.req \in Requests
      /\ job \in Job /\ job.mem \in Manifest /\ job.how \in {"cli", "prepare"}
      /\ SaveManifest(Sealed) /\ UNCHANGED <<provider, file, snap, faults>>
      /\ job.todo = <<>>
  BY DEF CollectInv, JobShape, TypeOK, Seal, At, Collecting, Progress
<1>2. OwnWindow(job.mem) /\ SameRequest(job.mem, job.req)
  BY <1>1 DEF CollectInv, OwnWindows
<1>3. /\ Sealed \in Manifest /\ Sealed.entry = job.mem.entry
      /\ Sealed.start = job.mem.start /\ Sealed.end = job.mem.end
      /\ ~job.failed => Sealed.complete
  <2>1. Sealed = [job.mem EXCEPT !.complete = ~job.failed]
    BY DEF Sealed
  <2>2. CASE job.failed
    BY <1>1, <2>1, <2>2 DEF Manifest, Job
  <2>3. CASE ~job.failed
    BY <1>1, <2>1, <2>3 DEF Manifest, Job
  <2> QED BY <2>2, <2>3
<1>4. OwnWindow(Sealed)
  BY <1>2, <1>3 DEF OwnWindow, SameRequest
<1>5. /\ man'[job.dir] = Sealed /\ ManifestsOwn' /\ WholeHistory'
      /\ job' \in Job => TypeOK'
  BY <1>1, <1>3, <1>4, Saves
<1>6. CASE Over
  <2>1. job'.at = "idle" /\ job' \in Job
    BY <1>6, IdleIsJob DEF Over, Idle
  <2>2. JobShape' /\ Walk' /\ Walked' /\ ~Collecting' /\ ReportedComplete'
    BY <2>1 DEF JobShape, Walk, Walked, Collecting, ReportedComplete, At
  <2>3. Progress' /\ OwnWindows'
    BY <2>2, <1>5 DEF Progress, OwnWindows, ManifestsOwn
  <2> QED BY <1>5, <2>1, <2>2, <2>3, Zenon DEF CollectInv
<1>7. ASSUME NEW at \in {"index", "told"}, job' = [job EXCEPT !.at = at],
             at = "told" => job.how = "cli" /\ ~job.failed, at = "index" => job.how = "prepare"
      PROVE  CollectInv'
  <2>1. /\ job' \in Job /\ job'.at = at
        /\ job'.how = job.how /\ job'.dir = job.dir /\ job'.req = job.req /\ job'.syms = job.syms
    BY <1>1, <1>7 DEF Job, Stage
  <2>2. JobShape' /\ Walk' /\ Walked' /\ ~Collecting'
    BY <1>1, <1>7, <2>1 DEF JobShape, Walk, Walked, Collecting, At
  <2>3. Progress' /\ OwnWindows'
    BY <2>2, <1>5 DEF Progress, OwnWindows, ManifestsOwn
  <2>4. Asked' = Asked
    BY <2>1 DEF Asked
  <2>5. at = "told" => \A s \in Asked : Kept(job.mem, s)
    <3>1. \A s : Behind(s)
      BY <1>1 DEF Behind, Elements, At
    <3> QED BY <1>1, <1>7, <3>1 DEF CollectInv, Progress
  <2>6. ReportedComplete'
    <3>1. at = "told" => \A s \in Asked : Recorded(man[job.dir], s)' /\ SameRequest(file[job.dir][s], job.req)'
      BY <1>1, <1>3, <1>5, <2>1, <2>5 DEF Recorded, Kept, Files, SameRequest
    <3>2. at = "told" => job'.how # "index" /\ man'[job'.dir].complete
      BY <1>3, <1>5, <1>7, <2>1
    <3> QED BY <2>1, <2>4, <3>1, <3>2 DEF ReportedComplete, At
  <2> QED BY <1>5, <2>1, <2>2, <2>3, <2>6, Zenon DEF CollectInv
<1> QED BY <1>1, <1>6, <1>7 DEF Seal, Goto

LEMMA IndexStep == ASSUME CollectInv, Index PROVE CollectInv'
<1>1. /\ UNCHANGED <<provider, disk, faults>> /\ faults' \in 0 .. MaxFaults /\ job.at = "index"
      /\ job.dir \in Directories /\ job.req \in Requests /\ job.how \in {"index", "prepare"}
      /\ job \in Job /\ TypeOK
  BY DEF CollectInv, JobShape, TypeOK, Index, At
<1>2. CASE Over
  <2>1. TypeOK' /\ UNCHANGED <<file, man>>
    BY <1>1, <1>2, IdleIsJob DEF TypeOK, provider, disk, Over
  <2> QED BY <1>2, <2>1, Ends DEF Over
<1>3. CASE job' = [Fetch(KOSPI) EXCEPT !.spent = 0]
  <2>1. 0 \in 0 .. MaxRequests
    BY PagingAssumption
  <2>2. /\ job' \in Job /\ job'.at = "page" /\ job'.now = KOSPI
        /\ job'.how = job.how /\ job'.dir = job.dir /\ job'.req = job.req
        /\ job'.cursor = job.req.end /\ job'.got = {}
    BY <1>1, <1>3, <2>1, RequestIsDated DEF Fetch, Job, Stage, Security
  <2>3. JobShape' /\ Walk' /\ Walked' /\ ~Collecting' /\ job'.at # "told"
    BY <1>1, <2>2 DEF JobShape, Walk, Walked, Collecting, At
  <2> QED BY <1>1, <2>2, <2>3, Elsewhere
<1>4. CASE Goto("rebuild")
  <2>1. /\ job' \in Job /\ job'.at = "rebuild" /\ job'.dir = job.dir /\ job'.req = job.req
    BY <1>1, <1>4 DEF Goto, Job, Stage
  <2>2. JobShape' /\ Walk' /\ Walked' /\ ~Collecting' /\ job'.at # "told"
    BY <1>1, <2>1 DEF JobShape, Walk, Walked, Collecting, At
  <2> QED BY <1>1, <2>1, <2>2, Elsewhere
<1>5. CASE /\ Files[KOSPI] # None /\ SameRequest(Files[KOSPI], job.req)
           /\ job.how = "index" /\ Goto("told")
  <2>1. /\ job' \in Job /\ job'.at = "told" /\ job'.how = "index"
        /\ job'.dir = job.dir /\ job'.req = job.req
    BY <1>1, <1>5 DEF Goto, Job, Stage
  <2>2. JobShape' /\ Walk' /\ Walked' /\ ~Collecting'
    BY <1>1, <2>1 DEF JobShape, Walk, Walked, Collecting, At
  <2>3. TypeOK' /\ UNCHANGED <<file, man>>
    BY <1>1, <2>1 DEF TypeOK, provider, disk
  <2>4. ReportedComplete'
    BY <1>5, <2>1, <2>3 DEF ReportedComplete, Files, SameRequest
  <2>5. Progress' /\ OwnWindows'
    BY <2>2, <2>3, FilesStay DEF Progress, OwnWindows, ManifestsOwn
  <2> QED BY <2>2, <2>3, <2>4, <2>5, FilesStay, Zenon DEF CollectInv
<1> QED BY <1>2, <1>3, <1>4, <1>5 DEF Index

LEMMA SaveSnapshotStep == ASSUME CollectInv, SaveSnapshot PROVE CollectInv'
<1>1. /\ UNCHANGED <<provider, file, man, tmp, faults>> /\ job' = Idle
      /\ job.dir \in Directories /\ job.req \in Requests /\ job \in Job /\ TypeOK
  BY DEF CollectInv, JobShape, TypeOK, SaveSnapshot, At, Over
<1>2. snap' \in [FirstDay .. Days -> Snapshot \cup {None, Torn}]
  <2>1. CASE CanRebuild
    <3>1. \A s \in Asked : s \in Symbols /\ Files[s] \in Payload
      BY <1>1, <2>1 DEF CanRebuild, Asked, Job, Files, TypeOK, Security
    <3>2. Files[KOSPI] \in Payload
      BY <1>1, <2>1 DEF CanRebuild, Files, TypeOK, Security
    <3>3. Calendar \subseteq 1 .. Days
      BY <3>2 DEF Calendar, Payload
    <3>4. Rebuilt.days \in SUBSET (1 .. Days)
      BY <3>3 DEF Rebuilt
    <3>5. Rebuilt.bars \in [Asked -> SUBSET (1 .. Days)]
      BY <3>3 DEF Rebuilt
    <3>6. Asked \in SUBSET Symbols
      BY <3>1
    <3>7. Rebuilt \in Snapshot
      BY <3>4, <3>5, <3>6 DEF Rebuilt, Snapshot
    <3>8. snap' = [snap EXCEPT ![job.req.end] = Rebuilt]
      BY <2>1 DEF SaveSnapshot
    <3> QED BY <1>1, <3>7, <3>8 DEF TypeOK
  <2>2. CASE ~CanRebuild
    BY <1>1, <2>2 DEF SaveSnapshot, TypeOK
  <2> QED BY <2>1, <2>2
<1>3. TypeOK'
  BY <1>1, <1>2, IdleIsJob DEF TypeOK, provider
<1> QED BY <1>1, <1>3, Ends

LEMMA ExitStep == ASSUME CollectInv, Exit PROVE CollectInv'
<1>1. TypeOK' /\ UNCHANGED <<file, man>>
  BY IdleIsJob DEF CollectInv, TypeOK, Exit, Over, provider, disk
<1> QED BY <1>1, Ends DEF Exit, Over

LEMMA KilledStep == ASSUME CollectInv, Killed PROVE CollectInv'
<1>1. /\ UNCHANGED <<provider, file, man>> /\ job' = Idle /\ faults' = faults + 1
      /\ job.dir \in Directories /\ TypeOK /\ faults < MaxFaults
  BY DEF CollectInv, JobShape, Killed, At, Over
<1>2. faults' \in 0 .. MaxFaults
  BY <1>1, PagingAssumption DEF TypeOK
<1>3. tmp' \in [Directories -> SUBSET (Security \cup {"manifest"})]
  <2>1. PICK left \in SUBSET Writing : tmp' = [tmp EXCEPT ![job.dir] = @ \cup left]
    BY DEF Killed
  <2>2. Writing \subseteq Security \cup {"manifest"}
    BY DEF Writing, CollectInv, JobShape, At, Security
  <2> QED BY <1>1, <2>1, <2>2 DEF TypeOK
<1>4. snap' \in [FirstDay .. Days -> Snapshot \cup {None, Torn}]
  BY <1>1 DEF Killed, TypeOK
<1>5. TypeOK'
  BY <1>1, <1>2, <1>3, <1>4, IdleIsJob DEF TypeOK, provider
<1> QED BY <1>1, <1>5, Ends

LEMMA CollectStep == ASSUME CollectInv, CollectNext PROVE CollectInv'
<1>1. CASE Work
  BY <1>1, PreflightStep, LoadManifestStep, InspectStep, LoadPageStep, PublishStep, RecordStep,
     SealStep, IndexStep, SaveSnapshotStep, ExitStep DEF Work
<1>2. CASE Command
  <2>1. <<>> \in Seq(Symbols) /\ Watchlist \in Seq(Symbols) /\ Universes \subseteq Seq(Symbols)
    BY RequestAssumption
  <2> QED BY <1>2, <2>1, StartStep DEF Command, Collect, CollectIndex, Prepare, Rebuild
<1> QED BY <1>1, <1>2, KisStep, PageFailsStep, KilledStep DEF CollectNext

(***************************************************************************)
(* The steps of the assembling process                                     *)
(***************************************************************************)
LEMMA LastDay ==
  ASSUME NEW S \in SUBSET (1 .. Days), S # {}
  PROVE  Max(S) \in S /\ \A y \in S : y <= Max(S)
<1> DEFINE D == {Days - x : x \in S}
<1>1. Days \in Nat
  BY PagingAssumption
<1>2. D \in SUBSET Nat /\ D # {}
  <2>1. \A x \in S : x \in Nat /\ Days - x \in Nat
    BY <1>1
  <2> QED BY <2>1
<1> HIDE DEF D
<1>3. PICK d \in D : \A e \in D : d <= e
  <2>1. PICK d \in D : \A e \in D : <<e, d>> \notin OpToRel(<, Nat)
    BY <1>2, NatLessThanWellFounded, WFMin
  <2>2. d \in Nat /\ \A e \in D : e \in Nat /\ <<e, d>> \in Nat \X Nat /\ ~(e < d)
    BY <1>2, <2>1 DEF OpToRel
  <2>3. ASSUME NEW e \in D PROVE d <= e
    <3>1. d \in Nat /\ e \in Nat /\ ~(e < d)
      BY <2>2
    <3> QED BY <3>1
  <2> QED BY <2>3
<1>4. PICK x \in S : d = Days - x
  BY DEF D
<1>5. \A y \in S : y <= x
  <2> SUFFICES ASSUME NEW y \in S PROVE y <= x
    OBVIOUS
  <2>1. d <= Days - y
    BY <1>3 DEF D
  <2> QED BY <1>1, <1>4, <2>1
<1>6. \A y \in S : x >= y
  BY <1>1, <1>5
<1>7. Max(S) \in S /\ \A y \in S : Max(S) >= y
  BY <1>6 DEF Max
<1> QED BY <1>1, <1>7

LEMMA CollectStays == ASSUME CollectInv, UNCHANGED vars PROVE CollectInv'
<1> USE DEF CollectInv, vars, provider, disk, At
<1>1. TypeOK' /\ JobShape' /\ Walk' /\ Walked'
  BY DEF TypeOK, JobShape, Walk, Walked
<1>2. Collecting' <=> Collecting
  BY DEF Collecting
<1>3. OwnWindows'
  BY <1>2 DEF OwnWindows, OwnWindow, SameRequest
<1>4. Progress'
  <2>1. \A s : Behind(s)' <=> Behind(s)
    BY DEF Behind
  <2>2. \A s : Kept(job.mem, s)' <=> Kept(job.mem, s)
    BY DEF Kept, Files, SameRequest
  <2>3. Asked' = Asked
    BY DEF Asked
  <2> QED BY <1>2, <2>1, <2>2, <2>3 DEF Progress
<1>5. WholeHistory' /\ ReportedComplete'
  BY DEF WholeHistory, ReportedComplete, Asked, Recorded, SameRequest
<1> QED BY <1>1, <1>3, <1>4, <1>5, Zenon DEF CollectInv

Datasets == data \in [AsOf -> Dataset \cup {None}]
Assembling == asm \in [at : {"idle", "assemble", "extend"}, dir : Directories \cup {None},
                       from : 0 .. Days, day : 0 .. Days, base : AsOf \cup {None},
                       syms : SUBSET Symbols, man : Manifest \cup {None}]
DataInv == Datasets /\ Assembling /\ AsmShape /\ CalendarsHaveDays /\ DatasetSound

LEMMA Conjoined == IInv <=> CollectInv /\ DataInv
  BY DEF IInv, CollectInv, DataInv, DTypeOK, Datasets, Assembling

LEMMA DatasetsStay ==
  ASSUME DataInv, UNCHANGED <<data, asm>>
  PROVE  DataInv'
  BY DEF DataInv, Datasets, Assembling, AsmShape, CalendarsHaveDays, DatasetSound

LEMMA DaysOfDatasets == AsOf \subseteq 0 .. Days /\ AsOf \subseteq 1 .. Days /\ 0 \in 0 .. Days
  BY PagingAssumption DEF AsOf

LEMMA InitData == DInit => DataInv
<1> SUFFICES ASSUME DInit PROVE DataInv
  OBVIOUS
<1>1. Datasets /\ Assembling /\ asm.at = "idle"
  BY DaysOfDatasets DEF DInit, Datasets, Assembling, Resting
<1>2. \A d \in AsOf : data[d] = None
  BY DEF DInit
<1> QED BY <1>1, <1>2 DEF DataInv, AsmShape, CalendarsHaveDays, DatasetSound

\* The process is begun, or killed: no dataset changes.
LEMMA BeginStep ==
  ASSUME TypeOK, DataInv, UNCHANGED data, NEW kind \in {"assemble", "extend"},
         NEW dir \in Directories, NEW from \in 0 .. Days, NEW day \in AsOf,
         NEW base \in AsOf \cup {None}, NEW syms \in SUBSET Symbols,
         Begin(kind, dir, from, day, base, syms), man[dir] # None,
         kind = "assemble" => base = None,
         kind = "extend" => /\ base \in AsOf /\ base < day /\ data[base] # None
                            /\ syms = DOMAIN data[base].bars
  PROVE  DataInv'
<1>1. man[dir] \in Manifest
  BY DEF TypeOK
<1>2. asm' = [at |-> kind, dir |-> dir, from |-> from, day |-> day, base |-> base,
              syms |-> syms, man |-> man[dir]]
  BY DEF Begin, Resting
<1>3. Assembling' /\ AsmShape'
  BY <1>1, <1>2, DaysOfDatasets DEF Assembling, AsmShape
<1>4. Datasets' /\ CalendarsHaveDays' /\ DatasetSound'
  BY DEF DataInv, Datasets, CalendarsHaveDays, DatasetSound
<1> QED BY <1>3, <1>4, Zenon DEF DataInv

LEMMA Rest ==
  ASSUME asm' = Resting
  PROVE  Assembling' /\ AsmShape'
  BY DaysOfDatasets DEF Resting, Assembling, AsmShape

LEMMA KilledAssembler == ASSUME DataInv, AssemblerKilled PROVE DataInv'
<1>1. Assembling' /\ AsmShape'
  BY Rest DEF AssemblerKilled
<1>2. Datasets' /\ CalendarsHaveDays' /\ DatasetSound'
  BY DEF DataInv, Datasets, CalendarsHaveDays, DatasetSound, AssemblerKilled
<1> QED BY <1>1, <1>2, Zenon DEF DataInv

\* What DatasetSound says of one dataset among the others.
Sound(store, d, v) ==
  /\ v.calendar # {} /\ Max(v.calendar) = d
  /\ \A s \in DOMAIN v.bars : d \in v.bars[s] /\ v.bars[s] \subseteq v.calendar
  /\ v.base # None =>
       /\ store[v.base] # None
       /\ v.calendar = store[v.base].calendar \cup {d}
       /\ v.bars = [s \in DOMAIN store[v.base].bars |-> store[v.base].bars[s] \cup {d}]

AllSound == \A d \in AsOf : data[d] # None => Sound(data, d, data[d])
LEMMA EachIsSound == CalendarsHaveDays /\ DatasetSound <=> AllSound
  BY DEF CalendarsHaveDays, DatasetSound, AllSound, Sound

LEMMA AssembledIsSound ==
  ASSUME TypeOK, DataInv, asm.at = "assemble", Publishable
  PROVE  Assembled \in Dataset /\ Sound(data, asm.day, Assembled)
<1>1. /\ asm.dir \in Directories /\ asm.day \in AsOf /\ asm.syms \in SUBSET Symbols
  BY DEF DataInv, Assembling, AsmShape
<1>2. Index0 \in Payload /\ Index0.days # {} /\ Max(Index0.days) = asm.day
  BY <1>1 DEF TypeOK, Publishable, IndexServes, Aligned, Index0, Within, Security
<1>3. \A s \in asm.syms : /\ file[asm.dir][s].days \in SUBSET (1 .. Days) /\ file[asm.dir][s].days # {}
                          /\ Max(file[asm.dir][s].days) = asm.day
                          /\ file[asm.dir][s].days \subseteq Index0.days
  <2> SUFFICES ASSUME NEW s \in asm.syms
               PROVE  file[asm.dir][s].days \in SUBSET (1 .. Days)
    BY DEF Publishable, Aligned, Matches, Within
  <2>1. file[asm.dir][s].days \subseteq Index0.days
    BY DEF Publishable, Aligned
  <2> QED BY <1>2, <2>1 DEF Payload
<1>4. \A s \in asm.syms : asm.day \in file[asm.dir][s].days
  BY <1>3, LastDay
<1>5. Index0.days \in SUBSET (1 .. Days)
  BY <1>2 DEF Payload
<1>6. [s \in asm.syms |-> file[asm.dir][s].days] \in [asm.syms -> SUBSET (1 .. Days)]
  BY <1>3
<1>7. Assembled \in Dataset
  BY <1>1, <1>5, <1>6 DEF Assembled, Dataset
<1>8. Sound(data, asm.day, Assembled)
  BY <1>2, <1>3, <1>4 DEF Assembled, Sound
<1> QED BY <1>7, <1>8

LEMMA ExtendedIsSound ==
  ASSUME TypeOK, DataInv, asm.at = "extend"
  PROVE  Extended \in Dataset /\ Sound(data, asm.day, Extended)
<1> DEFINE b == data[asm.base]
           day == asm.day
<1>1. /\ asm.base \in AsOf /\ day \in AsOf /\ asm.base < day /\ b # None
      /\ asm.syms = DOMAIN b.bars /\ asm.syms \in SUBSET Symbols
  BY DEF DataInv, Assembling, AsmShape
<1>2. b \in Dataset /\ b.calendar # {} /\ Max(b.calendar) = asm.base
      /\ \A s \in DOMAIN b.bars : b.bars[s] \subseteq b.calendar
  BY <1>1 DEF DataInv, Datasets, CalendarsHaveDays, DatasetSound
<1>3. b.calendar \in SUBSET (1 .. Days) /\ day \in 1 .. Days /\ asm.base \in 1 .. Days
  BY <1>1, <1>2, DaysOfDatasets DEF Dataset
<1>4. \A s \in asm.syms : b.bars[s] \in SUBSET (1 .. Days)
  BY <1>1, <1>2, <1>3
<1> HIDE DEF b, day
<1>5. Max(b.calendar \cup {day}) = day
  <2> DEFINE later == b.calendar \cup {day}
  <2>1. \A y \in later : y <= day
    BY <1>1, <1>2, <1>3, LastDay, PagingAssumption
  <2>2. later \in SUBSET (1 .. Days) /\ day \in later
    BY <1>3
  <2> HIDE DEF later
  <2>3. Max(later) \in later /\ \A y \in later : y <= Max(later)
    BY <2>2, LastDay
  <2>4. Max(later) <= day /\ day <= Max(later) /\ Max(later) \in 1 .. Days
    BY <2>1, <2>2, <2>3
  <2> QED BY <1>3, <2>4, PagingAssumption DEF later
<1>6. Extended = [calendar |-> b.calendar \cup {day}, base |-> asm.base,
                  bars |-> [s \in asm.syms |-> b.bars[s] \cup {day}]]
  BY DEF Extended, b, day
<1>7. [s \in asm.syms |-> b.bars[s] \cup {day}] \in [asm.syms -> SUBSET (1 .. Days)]
  BY <1>3, <1>4
<1>8. Extended \in Dataset
  BY <1>1, <1>3, <1>6, <1>7 DEF Dataset
<1>9. Sound(data, day, Extended)
  BY <1>1, <1>2, <1>5, <1>6 DEF Sound, b
<1> QED BY <1>8, <1>9 DEF day

\* A published dataset is sound, and the others are what they were.
LEMMA PublishDataset ==
  ASSUME DataInv, asm' = Resting, NEW d \in AsOf, NEW v \in Dataset, Sound(data, d, v),
         data[d] = None, data' = [data EXCEPT ![d] = v]
  PROVE  DataInv'
<1>1. /\ data' \in [AsOf -> Dataset \cup {None}] /\ data'[d] = v
      /\ \A e \in AsOf : e # d => data'[e] = data[e]
  BY DEF DataInv, Datasets
<1>2. Assembling' /\ AsmShape'
  BY Rest
<1>3. \A w \in Dataset : w.base \in AsOf \cup {None}
  BY DEF Dataset
<1>4. ASSUME NEW e \in AsOf, NEW w \in Dataset, Sound(data, e, w) PROVE Sound(data', e, w)
  <2>1. w.base # None => data[w.base] # None /\ data'[w.base] = data[w.base]
    BY <1>1, <1>3, <1>4 DEF Sound
  <2> DEFINE b == data[w.base]
             c == data'[w.base]
  <2>2. w.base # None => c # None /\ w.calendar = c.calendar \cup {e}
                         /\ w.bars = [s \in DOMAIN c.bars |-> c.bars[s] \cup {e}]
    <3>1. w.base # None => b # None /\ w.calendar = b.calendar \cup {e}
                           /\ w.bars = [s \in DOMAIN b.bars |-> b.bars[s] \cup {e}]
      BY <1>4 DEF Sound
    <3>2. w.base # None => c = b
      BY <2>1
    <3> HIDE DEF b, c
    <3> QED BY <3>1, <3>2
  <2> QED BY <1>4, <2>2 DEF Sound
<1>5. AllSound'
  <2> SUFFICES ASSUME NEW e \in AsOf, data'[e] # None PROVE Sound(data', e, data'[e])
    BY DEF AllSound
  <2>1. CASE e = d
    BY <1>1, <1>4, <2>1
  <2>2. CASE e # d
    <3>1. data[e] \in Dataset /\ Sound(data, e, data[e]) /\ data'[e] = data[e]
      BY <1>1, <2>2, EachIsSound DEF DataInv, Datasets, AllSound
    <3> QED BY <1>4, <3>1
  <2> QED BY <2>1, <2>2
<1>6. CalendarsHaveDays' /\ DatasetSound'
  BY <1>5, EachIsSound, PTL
<1> QED BY <1>1, <1>2, <1>6, Zenon DEF DataInv, Datasets

LEMMA FinishStep == ASSUME TypeOK, DataInv, Finish PROVE DataInv'
<1>1. asm' = Resting /\ asm.at \in {"assemble", "extend"} /\ asm.day \in AsOf
  BY DEF Finish, DataInv, AsmShape
<1>2. CASE Publishable
  <2> DEFINE v == IF asm.at = "extend" THEN Extended ELSE Assembled
  <2>1. v \in Dataset /\ Sound(data, asm.day, v)
    BY <1>1, <1>2, AssembledIsSound, ExtendedIsSound
  <2>2. data' = [data EXCEPT ![asm.day] = v] /\ data[asm.day] = None
    BY <1>2, Zenon DEF Finish, Publishable
  <2> HIDE DEF v
  <2> QED BY <1>1, <2>1, <2>2, PublishDataset
<1>3. CASE ~Publishable
  <2>1. data' = data
    BY <1>3 DEF Finish
  <2>2. Assembling' /\ AsmShape'
    BY <1>1, Rest
  <2>3. Datasets' /\ CalendarsHaveDays'
    BY <2>1 DEF DataInv, Datasets, CalendarsHaveDays
  <2>4. DatasetSound'
    BY <2>1 DEF DataInv, DatasetSound
  <2> QED BY <2>2, <2>3, <2>4, Zenon DEF DataInv
<1> QED BY <1>2, <1>3

LEMMA AsmStep == ASSUME TypeOK, DataInv, AsmNext PROVE DataInv'
<1>1. ASSUME NEW dir \in Directories, NEW day \in AsOf, NEW r \in Requests, NEW seq \in Universes,
             Assemble(dir, r.start, day, Set(seq))
      PROVE  DataInv'
  <2>1. r.start \in 0 .. Days
    BY RequestIsDated, PagingAssumption
  <2>2. Set(seq) \in SUBSET Symbols
    <3>1. seq \in Seq(Symbols)
      BY RequestAssumption
    <3> QED BY <3>1 DEF Set
  <2> QED BY <1>1, <2>1, <2>2, BeginStep DEF Assemble, ManifestServes
<1>2. ASSUME NEW dir \in Directories, NEW day \in AsOf, NEW base \in AsOf, Extend(dir, day, base)
      PROVE  DataInv'
  <2>1. day \in 0 .. Days /\ base \in AsOf \cup {None}
    BY DaysOfDatasets
  <2>2. base < day
    BY <1>2, DaysOfDatasets, PagingAssumption DEF Extend
  <2>3. DOMAIN data[base].bars \in SUBSET Symbols
    BY <1>2 DEF Extend, DataInv, Datasets, Dataset
  <2> QED BY <1>2, <2>1, <2>2, <2>3, BeginStep DEF Extend, ExactSession
<1> QED BY <1>1, <1>2, FinishStep, KilledAssembler DEF AsmNext

LEMMA NextIInv == IInv /\ [Next]_dvars => IInv'
<1> SUFFICES ASSUME CollectInv, DataInv, [Next]_dvars PROVE CollectInv' /\ DataInv'
  BY Conjoined, PTL
<1>1. CASE CollectNext /\ UNCHANGED <<data, asm>>
  BY <1>1, CollectStep, DatasetsStay
<1>2. CASE AsmNext
  <2>1. UNCHANGED vars
    BY <1>2 DEF AsmNext, Assemble, Extend, Finish, AssemblerKilled
  <2>2. TypeOK
    BY DEF CollectInv
  <2>3. DataInv'
    BY <1>2, <2>2, AsmStep
  <2> QED BY <2>1, <2>3, CollectStays
<1>3. CASE UNCHANGED dvars
  BY <1>3, DatasetsStay, CollectStays DEF dvars
<1> QED BY <1>1, <1>2, <1>3 DEF Next

\* Whatever is read, killed, refused or late, the invariant stands.
THEOREM Inductive == Spec => []IInv
<1>1. DInit => IInv
  BY InitCollect, InitData, Conjoined DEF DInit
<1> QED BY <1>1, NextIInv, PTL DEF Spec

\* A file under its final name holds every row of its window that was there at one moment:
\* the walk over the pages, its budget, kills and failed requests leave no end of it
\* (kis.py:226-271, kis_snapshot_collector.py:79-92).
THEOREM FilesAreWhole == Spec => []WholeHistory
<1>1. IInv => WholeHistory
  BY DEF IInv, CollectInv
<1> QED BY <1>1, Inductive, PTL

\* "complete" is printed only over a collection that has every symbol asked for, each recorded
\* with the file of its window (kis_snapshot_collector.py:93-95, 124-160).
THEOREM ReportsAreTrue == Spec => []ReportedComplete
<1>1. IInv => ReportedComplete
  BY DEF IInv, CollectInv
<1> QED BY <1>1, Inductive, PTL

\* A dataset ends on the day it names, on days the market was open, and extends what its base
\* still is (forward_observation_dataset.py:57-124, forward_observation_extension.py:54-128).
THEOREM DatasetsAreSound == Spec => []DatasetSound
<1>1. IInv => DatasetSound
  BY DEF IInv
<1> QED BY <1>1, Inductive, PTL
=============================================================================
