------------------------------ MODULE RiskWatch ------------------------------
(* The daily risk watch (llm/risk_cli.py) beside the signal loop, over the    *)
(* same evidence: `watch` prints the material headlines of the names asked    *)
(* for; `review-prompt` shows them to the agent, who leaves its verdicts in a *)
(* file, and `review` screens again and drops the flags they dismiss.         *)
EXTENDS ForwardSignals

CONSTANT MaxEvents  \* headlines, records, files and names looked at together

VARIABLES
  verdicts,    \* the verdict file: the flags the agent was shown and those it dismissed
  considered,  \* headlines printed to the operator, or dismissed by the agent after seeing them
  looks        \* looks[s]: the last digest for s, on which day and of how much of the feed,
               \* and whether every digest for s so far came in time

watchVars == <<verdicts, considered, looks>>
rvars == <<svars, watchVars>>

\* --symbols takes any names; the saved universe and the portfolio of the records are such.
Watchable == SUBSET Symbols \ {{}}

Flags(watched, d) ==
  {i \in UNION {Evidence(s, d, WatchWindow) : s \in watched} : Item(i).risky}

RefinedBySymbol(flags) ==
  {i \in flags : \A j \in verdicts.dismissed : Item(i).symbol # Item(j).symbol}

\* Nothing is dropped unless a verdict of that very flag says it is immaterial.
Refined(flags) == flags \ verdicts.dismissed

\* A digest for s comes in time when the one before is no older than the window and, since
\* then, no more was filed for s than DART puts on a page.
Unseen(s) == {i \in OfKind("disclosure", s) : i > looks[s].upto}
InTime(s) ==
  /\ today - looks[s].day <= WatchWindow
  /\ Cardinality(Unseen(s)) <= DartPage

\* The operator has a digest as of d; one of an earlier day stands for no look of today.
Digest(watched, d, told) ==
  /\ considered' = considered \cup told
  /\ looks' = [s \in Symbols |->
       IF s \in watched /\ d = today
       THEN [day |-> today, upto |-> Len(feed), steady |-> looks[s].steady /\ InTime(s)]
       ELSE looks[s]]

\* Nothing was published before the first session.
NoLook == [day |-> 1, upto |-> 0, steady |-> TRUE]

RInit ==
  /\ SInit
  /\ verdicts = None
  /\ considered = {}
  /\ looks = [s \in Symbols |-> NoLook]

Watch ==
  /\ \E watched \in Watchable, d \in 1..today : Digest(watched, d, Flags(watched, d))
  /\ UNCHANGED <<svars, verdicts>>

\* `review-prompt`, and the agent's verdict file: a verdict that a flag is material keeps it
\* as no verdict does, so the file is the set of flags dismissed.
Judge ==
  /\ \E watched \in Watchable, d \in 1..today : LET shown == Flags(watched, d) IN
       /\ shown # {}
       /\ \E dismissed \in SUBSET shown : verdicts' = [shown |-> shown, dismissed |-> dismissed]
  /\ UNCHANGED <<svars, considered, looks>>

\* `review` refuses a verdict of an id that is not among the flags it derives now, and prints
\* the refined flags; of the others it says nothing.
Review ==
  /\ verdicts # None
  /\ \E watched \in Watchable, d \in 1..today : LET flags == Flags(watched, d) IN
       /\ verdicts.dismissed \subseteq flags
       /\ Digest(watched, d, Refined(flags) \cup (verdicts.shown \cap verdicts.dismissed))
  /\ UNCHANGED <<svars, verdicts>>

Has(happened) == IF happened THEN 1 ELSE 0
Events ==
  Len(feed) + Cardinality(Written) + Has(reply # None) + Has(verdicts # None) +
  Cardinality({s \in Symbols : looks[s] # NoLook})

RNext ==
  /\ \/ SNext /\ UNCHANGED watchVars
     \/ Watch \/ Judge \/ Review
  /\ Events' <= MaxEvents

RSpec == RInit /\ [][RNext]_rvars

\* For a name with a digest at least every `--days` days, and no more filings in between than
\* one page of DART, no material disclosure filed before the last digest escapes: the operator
\* was told of it, or the agent was shown it and dismissed it.  Neither a window that ends
\* between two digests, nor other names watched, other days looked back at and stale verdicts
\* applied in between, lets one fall (llm/risk_cli.py:32-49 and 105-160,
\* llm/risk_review.py:85-142, llm/dart_disclosures.py:64-71).
NoDisclosureMissed ==
  \A s \in Symbols : looks[s].steady =>
    \A i \in OfKind("disclosure", s) :
      i <= looks[s].upto /\ Item(i).risky => i \in considered
=============================================================================
