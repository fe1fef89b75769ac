--------------------------- MODULE ForwardSignals ---------------------------
(* The signal loop of the forward observation (llm/forward_cli.py): `render`  *)
(* builds the brief of a session from the snapshot and from what the evidence *)
(* sources return at that moment; the agent leaves a reply file; `record`     *)
(* builds the brief again, refuses a reply that cites anything outside it,    *)
(* applies the guardrails and writes an audit record that is never            *)
(* overwritten; `score` reads every record against the sessions traded since. *)
(* Sessions are numbers, headlines are positions in `feed`, and the price     *)
(* ids of one session are one id, since a brief knows all of them or none.    *)
EXTENDS PositionLimit, SequencesExt

CONSTANTS Headlines, Picks, Gaps, Days, Runs, MaxFeed, MaxRecords, Display,
          DartPage, BriefWindow, WatchWindow, ForwardSessions, None, Torn

ASSUME SignalBounds ==
  /\ Days \in Nat \ {0} /\ ForwardSessions \in Nat \ {0}
  /\ DartPage \in Nat /\ BriefWindow \in Nat /\ WatchWindow \in Nat
  /\ Headlines \subseteq [kind : {"news", "disclosure"}, symbol : Symbols, risky : BOOLEAN]
  /\ Picks \subseteq [buys : SUBSET Symbols, sells : SUBSET Symbols]

VARIABLES
  today,     \* the newest session of the snapshot; also the clock's day
  feed,      \* what DART and Naver have published, oldest first
  missing,   \* <<symbol, session>> pairs the snapshot has no bar for
  reply,     \* the reply file: the picks and citations, for whatever session they were made
  records,   \* records[<<session, run>>]: the audit file at that path
  orderly    \* every record came after all others, with the portfolio derived from them

svars == <<today, feed, missing, reply, records, orderly>>

Sessions == 1..Days
Paths == Sessions \X Runs
Written == {p \in Paths : records[p] # None}

(***************************************************************************)
(* Evidence.  Naver answers with the newest headlines for the name, and    *)
(* only then are they cut to the window.  DART is asked for the window,    *)
(* and answers with its first page, the newest filings: the provider asks  *)
(* for no other page.                                                      *)
(***************************************************************************)
Item(i) == feed[i]
OfKind(kind, s) == {i \in DOMAIN feed : Item(i).kind = kind /\ Item(i).symbol = s}
InWindow(i, d, width) == d - width <= Item(i).day /\ Item(i).day <= d
NewestOf(items, n) == {i \in items : Cardinality({j \in items : j > i}) < n}

News(s, d, width) == {i \in NewestOf(OfKind("news", s), Display) : InWindow(i, d, width)}
Disclosures(s, d, width) ==
  NewestOf({i \in OfKind("disclosure", s) : InWindow(i, d, width)}, DartPage)
Evidence(s, d, width) == Disclosures(s, d, width) \cup News(s, d, width)

(***************************************************************************)
(* The brief of session d exists when every symbol has a bar there; its    *)
(* ids are the price ids of d and the evidence up to d, which the builder  *)
(* cuts once more, whatever a provider returned.                           *)
(***************************************************************************)
HasBar(s, d) == d \in 1..today /\ <<s, d>> \notin missing
Briefable(d) == \A s \in Symbols : HasBar(s, d)

Price(d) == <<"px", d>>
Cited(i) == <<"evidence", i>>
PitEvidence(s, d) == {i \in Evidence(s, d, BriefWindow) : Item(i).day <= d}
BriefIdsOfToday(d) == {Price(d)} \cup {Cited(i) : i \in UNION {PitEvidence(s, today) : s \in Symbols}}
BriefIds(d) == {Price(d)} \cup {Cited(i) : i \in UNION {PitEvidence(s, d) : s \in Symbols}}

(***************************************************************************)
(* What following every record would hold after session d.  The files of   *)
(* one session are sorted by date only: any order of theirs is possible.   *)
(***************************************************************************)
Follow(held, record) == (held \cup record.buys) \ record.sells

Through(d, held) ==
  LET runs == {k \in Runs : records[<<d, k>>] # None}
  IN {FoldLeft(LAMBDA h, k : Follow(h, records[<<d, k>>]), held, order) : order \in SetToSeqs(runs)}

HeldAsOf(d) ==
  LET after[n \in 0..d] == IF n = 0 THEN {{}} ELSE UNION {Through(n, h) : h \in after[n - 1]}
  IN after[d]

Readable == \A p \in Written : records[p] # Torn

(***************************************************************************)
(* The guardrails: sells of held symbols, and buys of symbols not held,    *)
(* not barred (ineligible, entries blocked, weight above the cap), of      *)
(* highest conviction first, as many as there are free slots.              *)
(***************************************************************************)
Admissions(picks, held, barred) ==
  LET sells == picks.sells \cap held
      candidates == (picks.buys \ held) \ barred
      free == FreeSlots(held, sells)
  IN {[buys |-> b, sells |-> sells] :
        b \in {x \in SUBSET candidates :
                 \/ Cardinality(x) = free
                 \/ x = candidates /\ Cardinality(x) < free}}

(***************************************************************************)
(* `score` changes nothing: its outcomes are bought at the open after the  *)
(* session and sold at the close of the forward window, and not counted    *)
(* before the window has passed or when either bar is missing.  A record   *)
(* that cannot be read fails the command.                                  *)
(***************************************************************************)
WindowSoFar(d) ==
  IF d + 1 > today THEN {}
  ELSE {<<d + 1, IF d + ForwardSessions > today THEN today ELSE d + ForwardSessions>>}
Window(d) == IF d + ForwardSessions > today THEN {} ELSE {<<d + 1, d + ForwardSessions>>}

Outcomes ==
  {o \in UNION {[path : {p}, symbol : records[p].buys, window : Window(p[1])] : p \in Written} :
     HasBar(o.symbol, o.window[1]) /\ HasBar(o.symbol, o.window[2])}

(***************************************************************************)
(* The loop                                                                *)
(***************************************************************************)
SInit ==
  /\ today = 1
  /\ feed = <<>>
  /\ missing \in Gaps
  /\ reply = None
  /\ records = [p \in Paths |-> None]
  /\ orderly = TRUE

NextSession ==
  /\ today < Days
  /\ today' = today + 1
  /\ UNCHANGED <<feed, missing, reply, records, orderly>>

Published ==
  /\ Len(feed) < MaxFeed
  /\ \E h \in Headlines :
       feed' = Append(feed, [kind |-> h.kind, symbol |-> h.symbol, risky |-> h.risky, day |-> today])
  /\ UNCHANGED <<today, missing, reply, records, orderly>>

\* `render` for any session, and the agent's answer put in the reply file.
Decide ==
  /\ \E d \in Sessions : Briefable(d) /\
       \E picks \in Picks, cites \in {{}} \cup {{id} : id \in BriefIds(d)} :
         reply' = [picks |-> picks, cites |-> cites]
  /\ UNCHANGED <<today, feed, missing, records, orderly>>

InOrder(d, held) == (\A p \in Written : p[1] < d) /\ Readable /\ held \in HeldAsOf(d)

\* Every decision must be for a symbol of the brief, one per symbol, and cite only its ids.
Valid(d) ==
  /\ reply.picks.buys \cup reply.picks.sells \subseteq Symbols
  /\ reply.picks.buys \cap reply.picks.sells = {}
  /\ reply.cites \subseteq BriefIds(d)

Put(d, run, record) ==
  /\ records[<<d, run>>] = None
  /\ records' = [records EXCEPT ![<<d, run>>] = record]

\* `record` at a path not yet taken, with the portfolio given on the command line: none, or
\* the one derived from the records.  A kill after the create leaves an empty file.
Record(d, run) ==
  /\ Cardinality(Written) < MaxRecords
  /\ Briefable(d)
  /\ Valid(d)
  /\ \/ \E held \in {{}} \cup (IF Readable THEN HeldAsOf(d) ELSE {}), barred \in SUBSET Symbols :
           /\ \E admitted \in Admissions(reply.picks, held, barred) : Put(d, run, admitted)
           /\ orderly' = (orderly /\ InOrder(d, held))
     \/ /\ Put(d, run, Torn)
        /\ orderly' = FALSE
  /\ UNCHANGED <<today, feed, missing, reply>>

\* The reply file is the one the agent wrote last; `record` names the session to put it under,
\* which may be an earlier or a later one than it was made for.
Recorded == reply # None /\ \E d \in Sessions, run \in Runs : Record(d, run)

SNext == NextSession \/ Published \/ Decide \/ Recorded

(***************************************************************************)
(* Properties                                                              *)
(***************************************************************************)
Kept(p) == records[p] = None /\ records'[p] \notin {None, Torn}

\* While sessions are recorded one after the other, each with the portfolio the records
\* imply, following every record never holds more than max_positions symbols
\* (llm/guardrail.py:133-152 with llm/positions.py:31-45).
HeldWithinLimit == orderly => \A held \in HeldAsOf(today) : Cardinality(held) <= MaxPositions

\* A record's decisions cite nothing its session's brief could not contain: a reply made for
\* another session, with that session's prices or with evidence published after the one it is
\* put under, is refused there (llm/decision.py:108-117, llm/brief.py:117-132).
NoLookAhead ==
  [][\A p \in Paths : Kept(p) =>
       \A id \in reply.cites :
         IF id[1] = "px" THEN id[2] = p[1] ELSE feed[id[2]].day <= p[1]]_svars

\* An outcome a score would report now is reported by every later score, with the same exit,
\* as long as the records can be read (llm/forward_cli.py:111-113, llm/forward_eval.py:82-101).
ScoresSettle == [][Readable' => Outcomes \subseteq Outcomes']_svars
=============================================================================
