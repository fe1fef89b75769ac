--------------------------- MODULE ForwardDataset ---------------------------
(***************************************************************************)
(* Forward-observation datasets: one immutable file per data_as_of,         *)
(* assembled from a finished collection (forward_observation_dataset.py)    *)
(* or made by appending one session to an earlier dataset                   *)
(* (forward_observation_extension.py), by a process that reads the          *)
(* directories of SnapshotCollection while a collector may write to them.   *)
(***************************************************************************)
EXTENDS SnapshotCollection

VARIABLES data,  \* forward-observation-v3-D.json, per data_as_of
          asm    \* the assembling process

dvars == <<vars, data, asm>>
AsOf == FirstDay .. Days
Dataset == [calendar : SUBSET (1 .. Days), base : AsOf \cup {None},
            bars : UNION {[S -> SUBSET (1 .. Days)] : S \in SUBSET Symbols}]
Resting == [at |-> "idle", dir |-> None, from |-> 0, day |-> 0, base |-> None, syms |-> {},
            man |-> None]

DTypeOK == /\ TypeOK
           /\ data \in [AsOf -> Dataset \cup {None}]
           /\ asm \in [at : {"idle", "assemble", "extend"}, dir : Directories \cup {None},
                      from : 0 .. Days, day : 0 .. Days, base : AsOf \cup {None},
                      syms : SUBSET Symbols, man : Manifest \cup {None}]

DInit == Init /\ data = [d \in AsOf |-> None] /\ asm = Resting

-----------------------------------------------------------------------------
Covers(w, from, day) == w.start <= from /\ w.end >= day
Within(p, from, day) == p.days # {} /\ p.days \subseteq from .. day
Session(day) == [start |-> day, end |-> day]
Set(seq) == {seq[i] : i \in DOMAIN seq}

(* What _validate_manifest and the exactness of an extension ask of it. *)
ManifestServes(m, syms, from, day) ==
  /\ m # None
  /\ m.complete
  /\ Covers(m, from, day)
  /\ \A s \in syms : m.entry[s] \in Payload /\ Covers(m.entry[s], from, day)
ExactSession(m, syms, day) ==
  /\ m # None
  /\ {s \in Symbols : m.entry[s] # None} = syms
  /\ SameRequest(m, Session(day))
  /\ \A s \in syms : /\ m.entry[s] \in Payload
                     /\ SameRequest(m.entry[s], Session(day)) /\ m.entry[s].days = {day}

Begin(kind, dir, from, day, base, syms) ==
  asm' = [Resting EXCEPT !.at = kind, !.dir = dir, !.from = from, !.day = day, !.base = base,
                         !.syms = syms, !.man = man[dir]]

(* The manifest is read first; every later read is compared with it. *)
Assemble(dir, from, day, syms) ==
  /\ asm.at = "idle" /\ from <= day
  /\ ManifestServes(man[dir], syms, from, day)
  /\ Begin("assemble", dir, from, day, None, syms)
  /\ UNCHANGED <<vars, data>>

Extend(dir, day, base) ==
  /\ asm.at = "idle"
  /\ data[base] # None /\ day > base
  /\ LET syms == DOMAIN data[base].bars IN
       /\ ExactSession(man[dir], syms, day)
       /\ ManifestServes(man[dir], syms, day, day)
       /\ Begin("extend", dir, day, day, base, syms)
  /\ UNCHANGED <<vars, data>>

Matches(s) == file[asm.dir][s] = asm.man.entry[s] /\ Within(file[asm.dir][s], asm.from, asm.day)
Index0 == file[asm.dir][KOSPI]
IndexServes == /\ Index0 # None
               /\ Covers(Index0, asm.from, asm.day) /\ Within(Index0, asm.from, asm.day)
               /\ asm.at = "extend" => SameRequest(Index0, Session(asm.day))
(* Every series ends on data_as_of, and the market was open on its days. *)
Aligned == /\ Max(Index0.days) = asm.day
           /\ \A s \in asm.syms : /\ Max(file[asm.dir][s].days) = asm.day
                                  /\ file[asm.dir][s].days \subseteq Index0.days

Assembled == [calendar |-> Index0.days, base |-> None,
              bars |-> [s \in asm.syms |-> file[asm.dir][s].days]]
Extended == [calendar |-> data[asm.base].calendar \cup {asm.day}, base |-> asm.base,
             bars |-> [s \in asm.syms |-> data[asm.base].bars[s] \cup {asm.day}]]

(* os.link of the written temporary file fails if the name exists. *)
PublishableAgain == (\A s \in asm.syms : Matches(s)) /\ IndexServes /\ Aligned
Publishable == /\ \A s \in asm.syms : Matches(s)
               /\ IndexServes /\ Aligned
               /\ data[asm.day] = None
Finish == /\ asm.at \in {"assemble", "extend"}
          /\ data' = IF Publishable
                     THEN [data EXCEPT ![asm.day] = IF asm.at = "extend" THEN Extended ELSE Assembled]
                     ELSE data
          /\ asm' = Resting
          /\ UNCHANGED vars

AssemblerKilled == asm.at # "idle" /\ asm' = Resting /\ UNCHANGED <<vars, data>>

AsmNext ==
  \/ \E dir \in Directories, day \in AsOf :
       \/ \E from \in {r.start : r \in Requests}, syms \in Universes : Assemble(dir, from, day, Set(syms))
       \/ \E base \in AsOf : Extend(dir, day, base)
  \/ Finish \/ AssemblerKilled

Next == (CollectNext /\ UNCHANGED <<data, asm>>) \/ AsmNext

(* The process runs on, rows appear, and the daily routine is started again *)
(* and again for each of its dates; nobody is obliged to run another command. *)
Fairness == /\ WF_dvars(Work /\ UNCHANGED <<data, asm>>)
            /\ \A r \in Daily : SF_dvars(Prepare(r) /\ UNCHANGED <<data, asm>>)
Spec == DInit /\ [][Next]_dvars /\ Fairness

-----------------------------------------------------------------------------
(* Whatever the page budget, the kills and the failed requests: a published *)
(* file holds every row of its window that KIS had at one moment, never an  *)
(* end of it (kis.py:226-271, kis_snapshot_collector.py:79-92).             *)
WholeHistory == \A d \in Directories, x \in Security :
  file[d][x] # None =>
    \E m \in 0 .. Days : file[d][x].days = {e \in file[d][x].start .. file[d][x].end : e <= m}

(* A run that reports a complete collection leaves every symbol asked for   *)
(* recorded, with the file the entry names, also where the flag on disk is  *)
(* left from a run over other symbols (kis_snapshot_collector.py:93-95 and  *)
(* 124-160).                                                                *)
ReportedComplete ==
  At("told") =>
    IF job.how = "index" THEN file[job.dir][KOSPI] # None /\ SameRequest(file[job.dir][KOSPI], job.req)
    ELSE /\ man[job.dir].complete
         /\ \A s \in Asked : Recorded(man[job.dir], s) /\ SameRequest(file[job.dir][s], job.req)

(* A dataset's series all end on the day it names, on days the market was   *)
(* open, and an extension is the dataset its base still is plus one session: *)
(* nothing is replaced under it (forward_observation_dataset.py:57-124,     *)
(* 356-367, forward_observation_extension.py:54-128).                       *)
DatasetSound == \A d \in AsOf : data[d] # None =>
  /\ Max(data[d].calendar) = d
  /\ \A s \in DOMAIN data[d].bars : d \in data[d].bars[s] /\ data[d].bars[s] \subseteq data[d].calendar
  /\ data[d].base # None =>
       LET b == data[data[d].base] IN
         /\ b # None
         /\ data[d].calendar = b.calendar \cup {d}
         /\ data[d].bars = [s \in DOMAIN b.bars |-> b.bars[s] \cup {d}]

(* The routine, run again after every kill and failed request, gets its     *)
(* snapshot and a collection whose manifest is complete: what an            *)
(* interrupted run published is taken up, not refused                       *)
(* (kis_snapshot_collector.py:54-94, forward_prepare.py:36-81).             *)
RoutineFinishes == \A r \in Daily :
  today >= r.end ~> /\ man[Directory(r)] # None
                    /\ man[Directory(r)].complete
                    /\ \A s \in Set(Watchlist) : /\ man[Directory(r)].entry[s] # None
                                               /\ man[Directory(r)].entry[s] = file[Directory(r)][s]
                    /\ snap[r.end] \in Snapshot

(* What forward_prepare.py:3-8 promises with its default collection         *)
(* directory: run after the close of any trading day, it leaves that day's  *)
(* snapshot, and the analyst "only has to render, decide, and record".      *)
EveryDayPrepared == \A r \in Daily : today >= r.end ~> snap[r.end] \in Snapshot
=============================================================================
