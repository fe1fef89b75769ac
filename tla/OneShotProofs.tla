---------------------------- MODULE OneShotProofs ----------------------------
(***************************************************************************)
(* The two places where a nonce is spent once: the dispatch of an approved *)
(* request by the root daemon, and the release of a halt by an evaluation. *)
(* Both are shown to implement OneShotNonce, one from a database's UNIQUE  *)
(* check under a single writer, the other from the consumption the         *)
(* evaluation asks for before it decides.                                  *)
(***************************************************************************)
EXTENDS PrivilegedDispatch, HaltRelease, TLAPS

----------------------------------------------------------------------------------
(***************************************************************************)
(* One dispatch per nonce for any number of invocations, nonces, handlers  *)
(* and restarts.  The argument: SQLite's single writer makes the UNIQUE    *)
(* check and the commit one step, receipts exist only for committed rows,  *)
(* and an approval needs the receipt of its own request.                   *)
(***************************************************************************)

\* A handler inside a transaction is the writer.
SingleWriter ==
  \A h \in Handlers : hpc[h] \in {"begun", "inserted"} => writer = h

\* What is being served was asked for by a verifier that admitted it.
WorkAdmitted ==
  \A h \in Handlers : hpc[h] # "idle" => work[h] \in requests

RequestsAdmitted == \A v \in requests : envelope[v].genuine

\* The UNIQUE check still holds when the row is committed.
InsertedFresh ==
  \A h \in Handlers : hpc[h] = "inserted" => ~Duplicate(work[h])

NonceUnique ==
  \A v, w \in consumed : nonceOf(v) = nonceOf(w) => v = w

ReceiptsDurable ==
  /\ receipts \subseteq consumed
  /\ \A h \in Handlers : hpc[h] = "committed" => work[h] \in consumed

IInv ==
  /\ TypeOK
  /\ SingleWriter
  /\ WorkAdmitted
  /\ RequestsAdmitted
  /\ InsertedFresh
  /\ NonceUnique
  /\ ReceiptsDurable
  /\ ApprovalIsDurable
  /\ OnlyAdmittedConsumed

LEMMA InitIInv == Init => IInv
  BY TimeAssumption
  DEF Init, IInv, TypeOK, Time, Envelope, SingleWriter, WorkAdmitted,
      RequestsAdmitted, InsertedFresh, NonceUnique, ReceiptsDurable,
      ApprovalIsDurable, OnlyAdmittedConsumed, Approved

\* Every step of a verifier, a handler, a restart or the clock preserves IInv.
LEMMA NextIInv == IInv /\ [Next]_vars => IInv'
<1> SUFFICES ASSUME IInv, [Next]_vars PROVE IInv'
  OBVIOUS
<1> USE NoneAssumption, TimeAssumption
    DEF IInv, TypeOK, Time, Envelope, SingleWriter, WorkAdmitted,
        RequestsAdmitted, InsertedFresh, NonceUnique, ReceiptsDurable,
        ApprovalIsDurable, OnlyAdmittedConsumed, Approved, VerifierAt, HandlerAt,
        verifierVars, authorityVars, nonceOf, Duplicate
<1>1. ASSUME NEW v \in Verifiers, Request(v) PROVE IInv'
  BY <1>1 DEF Request
<1>2. ASSUME NEW v \in Verifiers, RefuseEnvelope(v) PROVE IInv'
  BY <1>2 DEF RefuseEnvelope
<1>3. ASSUME NEW v \in Verifiers, AcceptReceipt(v) PROVE IInv'
  BY <1>3 DEF AcceptReceipt
<1>4. ASSUME NEW v \in Verifiers, RefuseAnswer(v) PROVE IInv'
  BY <1>4 DEF RefuseAnswer
<1>5. ASSUME NEW v \in Verifiers, VerifierKilled(v) PROVE IInv'
  BY <1>5 DEF VerifierKilled
<1>6. ASSUME NEW h \in Handlers, NEW v \in Verifiers, Receive(h, v) PROVE IInv'
  BY <1>6 DEF Receive
<1>7. ASSUME NEW h \in Handlers, Begin(h) PROVE IInv'
  BY <1>7 DEF Begin
<1>8. ASSUME NEW h \in Handlers, Insert(h) PROVE IInv'
  BY <1>8 DEF Insert
<1>9. ASSUME NEW h \in Handlers, InsertRejected(h) PROVE IInv'
  BY <1>9 DEF InsertRejected
<1>10. ASSUME NEW h \in Handlers, Commit(h) PROVE IInv'
  BY <1>10 DEF Commit
<1>11. ASSUME NEW h \in Handlers, Reply(h) PROVE IInv'
  BY <1>11 DEF Reply
<1>12. ASSUME NEW h \in Handlers, Rollback(h) PROVE IInv'
  BY <1>12 DEF Rollback
<1>13. ASSUME AuthorityRestarts PROVE IInv'
  BY <1>13 DEF AuthorityRestarts
<1>14. ASSUME Tick PROVE IInv'
  BY <1>14 DEF Tick
<1>15. CASE UNCHANGED vars
  BY <1>15 DEF vars
<1> QED
  BY <1>1, <1>2, <1>3, <1>4, <1>5, <1>6, <1>7, <1>8, <1>9, <1>10, <1>11, <1>12,
     <1>13, <1>14, <1>15
  DEF Next, Verify, Transaction

LEMMA Inductive == Spec => []IInv
  BY InitIInv, NextIInv, PTL DEF Spec

-----------------------------------------------------------------------------------

\* Clock, positions, wire and database keep their shape.
THEOREM TypeCorrect == Spec => []TypeOK
<1>1. IInv => TypeOK
  BY DEF IInv
<1> QED BY <1>1, Inductive, PTL

\* A nonce leads to at most one ApprovedDispatch, for any number of verifiers,
\* retries, repeated or lost messages and restarts of the authority.
THEOREM OneDispatch == Spec => []OneDispatchPerNonce
<1>1. IInv => OneDispatchPerNonce
  BY DEF IInv, ApprovalIsDurable, NonceUnique, OneDispatchPerNonce
<1> QED BY <1>1, Inductive, PTL

\* An approval is backed by a committed row of its own request.
THEOREM ApprovalBacked == Spec => []ApprovalIsDurable
<1>1. IInv => ApprovalIsDurable
  BY DEF IInv
<1> QED BY <1>1, Inductive, PTL

\* Every committed row, and every approval, goes back to an envelope a verifier had admitted.
THEOREM ConsumedWasAdmitted == Spec => []OnlyAdmittedConsumed
<1>1. IInv => OnlyAdmittedConsumed
  BY DEF IInv
<1> QED BY <1>1, Inductive, PTL

LEMMA StepRefines == IInv /\ [Next]_vars => [OneShot!OneShotNext]_(OneShot!oneShotVars)
<1> SUFFICES ASSUME IInv, [Next]_vars
             PROVE [OneShot!OneShotNext]_(OneShot!oneShotVars)
  OBVIOUS
<1> USE DEF IInv, TypeOK, Envelope, Approved, VerifierAt, HandlerAt, verifierVars,
            authorityVars, nonceOf
<1> DEFINE claim(v) == [by |-> v, nonce |-> nonceOf(v)]
           Taken == {claim(v) : v \in consumed}
           Dispatched == {claim(v) : v \in {w \in Verifiers : Approved(w)}}
<1>1. ASSUME NEW h \in Handlers, Commit(h) PROVE OneShot!OneShotNext
  <2>1. work[h] \in Verifiers /\ claim(work[h]) \in OneShot!Claim
    BY <1>1 DEF Commit, WorkAdmitted, OneShot!Claim
  <2>2. \A d \in Taken : d.nonce # claim(work[h]).nonce
    BY <1>1 DEF Commit, InsertedFresh, Duplicate
  <2>3. Taken' = Taken \union {claim(work[h])}
    BY <1>1 DEF Commit
  <2>4. Dispatched' = Dispatched
    BY <1>1 DEF Commit
  <2> QED BY <2>1, <2>2, <2>3, <2>4 DEF OneShot!OneShotNext, OneShot!Take
<1>2. ASSUME NEW v \in Verifiers, AcceptReceipt(v) PROVE OneShot!OneShotNext
  <2>1. claim(v) \in OneShot!Claim
    BY DEF OneShot!Claim
  <2>2. claim(v) \in Taken
    BY <1>2 DEF AcceptReceipt, ReceiptsDurable
  <2>3. Dispatched' = Dispatched \union {claim(v)}
    BY <1>2 DEF AcceptReceipt
  <2>4. Taken' = Taken
    BY <1>2 DEF AcceptReceipt
  <2> QED BY <2>1, <2>2, <2>3, <2>4 DEF OneShot!OneShotNext, OneShot!Dispatch
<1>3. ASSUME UNCHANGED <<envelope, consumed>>,
             \A w \in Verifiers : Approved(w)' <=> Approved(w)
      PROVE UNCHANGED OneShot!oneShotVars
  <2>1. Taken' = Taken
    BY <1>3
  <2>2. Dispatched' = Dispatched
    BY <1>3
  <2> QED BY <2>1, <2>2 DEF OneShot!oneShotVars
<1>4. ASSUME NEW v \in Verifiers,
             \/ Request(v) \/ RefuseEnvelope(v) \/ RefuseAnswer(v)
             \/ VerifierKilled(v)
      PROVE UNCHANGED OneShot!oneShotVars
  <2>1. /\ UNCHANGED <<envelope, consumed>>
        /\ \A w \in Verifiers : Approved(w)' <=> Approved(w)
    BY <1>4 DEF Request, RefuseEnvelope, RefuseAnswer, VerifierKilled
  <2> QED BY <1>3, <2>1
<1>5. ASSUME UNCHANGED <<envelope, consumed, vpc>>
      PROVE UNCHANGED OneShot!oneShotVars
  BY <1>3, <1>5
<1> QED
  BY <1>1, <1>2, <1>4, <1>5
  DEF Next, Verify, Transaction, Receive, Begin, Insert, InsertRejected, Reply,
      Rollback, AuthorityRestarts, Tick, vars

\* Verifier, wire and authority implement the one-shot nonce: it is taken once,
\* for good, and only its taker dispatches.
THEOREM Implements == Spec => ImplementsOneShot
<1>1. Init => OneShot!OneShotInit
  BY DEF Init, OneShot!OneShotInit, Approved
<1> QED
  BY <1>1, StepRefines, Inductive, PTL
  DEF Spec, ImplementsOneShot, OneShot!OneShotSpec

----------------------------------------------------------------------------------
(***************************************************************************)
(* The release of a halt, for any number of evaluations, challenges,       *)
(* markers, requests and scopes: what an eligible decision rests on, and   *)
(* that evaluator and authority implement the one-shot nonce.              *)
(***************************************************************************)

\* The evaluations that hold copies, and whose copies a decision may rest on.
Holding == {e \in Evaluations : decision[e] \in {"consuming", "eligible"}}

\* What was copied before the call.
Copy == [request : Requests, scope : Scopes, expected : Markers, now : Int, expires : Int,
         verified : Attestations]

Decision == {Nothing, "unresolved", "contradiction", "consuming", "eligible"}

\* The shape of the state; copies and objects are there while they are needed.
Shape ==
  /\ clock \in Nat
  /\ input \in [Evaluations -> Input \cup {Nothing}]
  /\ captured \in [Evaluations -> Copy \cup {Nothing}]
  /\ decision \in [Evaluations -> Decision]
  /\ taken \subseteq [by : Evaluations, nonce : Challenges, at : Nat]
  /\ signedReceipts \subseteq [by : Evaluations, request : Requests]
  /\ \A e \in Holding : input[e] \in Input /\ captured[e] \in Copy

\* The copies passed the checks, and the attestation verified with them is theirs.
CopiesJudged ==
  \A e \in Holding :
    /\ captured[e].request.marker = captured[e].expected
    /\ captured[e].scope.whole
    /\ captured[e].verified.signed /\ ~captured[e].verified.contradicts
    /\ captured[e].verified.request = captured[e].request
    /\ captured[e].verified.scope = captured[e].scope

\* The clock of the checks was within the limits the copies allow.
CopiesFresh ==
  \A e \in Holding :
    /\ captured[e].expires = captured[e].request.requested + ChallengeTTL
    /\ captured[e].request.requested <= captured[e].now
    /\ captured[e].now - captured[e].scope.from <= MaxFreshness

\* An eligible evaluation's objects are the copies.
EligibleUnchanged ==
  \A e \in Eligible :
    /\ input[e].request = captured[e].request
    /\ input[e].scope = captured[e].scope
    /\ input[e].expected = captured[e].expected

\* A row belongs to an evaluation that has called, with its challenge, in time.
RowsOwned ==
  \A t \in taken :
    /\ decision[t.by] # Nothing
    /\ t.by \in Holding =>
         t.nonce = captured[t.by].request.challenge /\ t.at <= captured[t.by].expires

\* A receipt belongs to an evaluation that has called, and has its row.
ReceiptsBacked ==
  \A r \in signedReceipts :
    /\ decision[r.by] # Nothing
    /\ \E t \in taken : t.by = r.by /\ t.nonce = r.request.challenge

\* An eligible evaluation had its receipt.
EligibleTaken ==
  \A e \in Eligible :
    \E t \in taken : t.by = e /\ t.nonce = captured[e].request.challenge

ReleaseInv ==
  /\ Shape /\ CopiesJudged /\ CopiesFresh /\ EligibleUnchanged
  /\ RowsOwned /\ ReceiptsBacked /\ EligibleTaken

----------------------------------------------------------------------------

LEMMA InitRelease == ReleaseInit => ReleaseInv
  BY NothingAssumption
  DEF ReleaseInit, ReleaseInv, Shape, Holding, Eligible, Decision, CopiesJudged, CopiesFresh,
      EligibleUnchanged, RowsOwned, ReceiptsBacked, EligibleTaken

\* The checks before the call leave copies that passed them.
LEMMA ScreenedCopies ==
  ASSUME NEW i \in Input, NEW at \in Nat, Screened(i, at) = "consuming"
  PROVE  LET c == Capture(i, at) IN
         /\ c \in Copy
         /\ c.request = i.request /\ c.scope = i.scope /\ c.expected = i.expected
         /\ c.verified = i.attestation
         /\ i.request.marker = i.expected /\ i.scope.whole /\ Attested(i)
         /\ ~i.attestation.contradicts
         /\ c.expires = i.request.requested + ChallengeTTL
         /\ i.request.requested <= c.now /\ c.now - i.scope.from <= MaxFreshness
<1>1. /\ Current(i.request, at) /\ i.request.marker = i.expected
      /\ ValidScope(i.scope, i.request, at) /\ Attested(i) /\ ~i.attestation.contradicts
  BY DEF Screened
<1>2. i.request \in ReleaseRequest /\ i.scope \in Scope /\ i.request \in Requests /\ i.scope \in Scopes
      /\ i.expected \in Markers /\ i.attestation \in Attestations
  BY ReleaseInputs DEF Input
<1>3. Expiry(i.request, at) = i.request.requested + ChallengeTTL
  BY DEF Expiry
<1>4. Expiry(i.request, at) \in Int
  BY <1>2, <1>3, ReleaseInputs DEF ReleaseRequest
<1>5. Capture(i, at) \in Copy
  BY <1>2, <1>4 DEF Capture, Copy
<1> QED BY <1>1, <1>2, <1>3, <1>5 DEF Current, ValidScope, Capture

\* Steps that leave the copies, the objects and the decisions as they are.
LEMMA QuietStep ==
  ASSUME ReleaseInv, UNCHANGED <<input, captured, decision, signedReceipts, taken>>, clock' \in Nat
  PROVE  ReleaseInv'
  BY DEF ReleaseInv, Shape, Holding, Eligible, CopiesJudged, CopiesFresh, EligibleUnchanged,
         RowsOwned, ReceiptsBacked, EligibleTaken

LEMMA CallStep == ASSUME ReleaseInv, NEW e \in Evaluations, Call(e) PROVE ReleaseInv'
<1> USE DEF ReleaseInv
<1>1. PICK i \in Input : /\ Screened(i, clock) = "consuming"
                         /\ input' = [input EXCEPT ![e] = i]
                         /\ captured' = [captured EXCEPT ![e] = Capture(i, clock)]
  BY DEF Call
<1>2. /\ decision[e] = Nothing /\ decision' = [decision EXCEPT ![e] = "consuming"]
      /\ UNCHANGED <<clock, taken, signedReceipts>>
  BY DEF Call
<1> DEFINE c == Capture(i, clock)
<1>3. /\ c \in Copy
      /\ c.request = i.request /\ c.scope = i.scope /\ c.expected = i.expected
      /\ c.verified = i.attestation
      /\ i.request.marker = i.expected /\ i.scope.whole /\ Attested(i)
      /\ ~i.attestation.contradicts
      /\ c.expires = i.request.requested + ChallengeTTL
      /\ i.request.requested <= c.now /\ c.now - i.scope.from <= MaxFreshness
  BY <1>1, ScreenedCopies DEF Shape
<1> HIDE DEF c
<1>4. /\ decision'[e] = "consuming" /\ input'[e] = i /\ captured'[e] = c
      /\ \A d \in Evaluations \ {e} :
           decision'[d] = decision[d] /\ input'[d] = input[d] /\ captured'[d] = captured[d]
  BY <1>1, <1>2 DEF Shape, c
<1>5. e \notin Holding /\ Holding' = Holding \cup {e} /\ Eligible' = Eligible /\ e \notin Eligible
  BY <1>2, <1>4, NothingAssumption DEF Holding, Eligible
<1>6. Shape'
  <2>1. input' \in [Evaluations -> Input \cup {Nothing}] /\ captured' \in [Evaluations -> Copy \cup {Nothing}]
    BY <1>1, <1>3 DEF Shape, c
  <2>2. decision' \in [Evaluations -> Decision]
    BY <1>2 DEF Shape, Decision
  <2>3. \A d \in Holding' : input'[d] \in Input /\ captured'[d] \in Copy
    BY <1>1, <1>3, <1>4, <1>5 DEF Shape, Holding
  <2> QED BY <1>2, <2>1, <2>2, <2>3 DEF Shape
<1>7. CopiesJudged' /\ CopiesFresh'
  BY <1>3, <1>4, <1>5 DEF CopiesJudged, CopiesFresh, Attested, Holding
<1>8. EligibleUnchanged' /\ EligibleTaken'
  BY <1>2, <1>4, <1>5 DEF EligibleUnchanged, EligibleTaken, Eligible
<1>9. RowsOwned'
  BY <1>2, <1>4, <1>5, NothingAssumption DEF RowsOwned, Shape
<1>10. ReceiptsBacked'
  BY <1>2, <1>4, NothingAssumption DEF ReceiptsBacked, Shape
<1> QED BY <1>6, <1>7, <1>8, <1>9, <1>10

LEMMA ConsumeStep == ASSUME ReleaseInv, NEW e \in Evaluations, Consume(e) PROVE ReleaseInv'
<1> USE DEF ReleaseInv
<1> DEFINE row == [by |-> e, nonce |-> captured[e].request.challenge, at |-> clock]
<1>1. /\ decision[e] = "consuming" /\ clock <= captured[e].expires
      /\ taken' = taken \cup {row} /\ signedReceipts' = signedReceipts \cup {Receipt(e)}
      /\ UNCHANGED <<clock, input, captured, decision>>
  BY DEF Consume
<1>2. e \in Holding /\ captured[e].request \in Requests /\ captured[e].request.challenge \in Challenges
  BY <1>1, ReleaseInputs DEF Holding, Shape, Copy, ReleaseRequest
<1>3. Shape'
  BY <1>1, <1>2 DEF Shape, Receipt, Holding
<1>4. CopiesJudged' /\ CopiesFresh' /\ EligibleUnchanged' /\ EligibleTaken'
  BY <1>1 DEF CopiesJudged, CopiesFresh, EligibleUnchanged, EligibleTaken, Holding, Eligible
<1>5. RowsOwned'
  BY <1>1, <1>2, NothingAssumption DEF RowsOwned, Holding
<1>6. ReceiptsBacked'
  <2>1. \A r \in signedReceipts' : decision'[r.by] # Nothing
    BY <1>1, NothingAssumption DEF ReceiptsBacked, Receipt
  <2>2. \A r \in signedReceipts : \E t \in taken' : t.by = r.by /\ t.nonce = r.request.challenge
    BY <1>1 DEF ReceiptsBacked
  <2>3. row \in taken' /\ row.by = Receipt(e).by /\ row.nonce = Receipt(e).request.challenge
    BY <1>1 DEF Receipt
  <2> QED BY <1>1, <2>1, <2>2, <2>3 DEF ReceiptsBacked
<1> QED BY <1>3, <1>4, <1>5, <1>6

LEMMA MutateStep == ASSUME ReleaseInv, NEW e \in Evaluations, Mutate(e) PROVE ReleaseInv'
<1> USE DEF ReleaseInv
<1>1. /\ decision[e] = "consuming" /\ UNCHANGED <<clock, captured, decision, taken, signedReceipts>>
  BY DEF Mutate
<1>2. PICK j \in Input : /\ input' = [input EXCEPT ![e] = j]
  <2>1. input[e] \in Input
    BY <1>1 DEF Shape, Holding
  <2>2. CASE \E m \in Markers : input' = [input EXCEPT ![e].expected = m]
    <3>1. PICK m \in Markers : input' = [input EXCEPT ![e].expected = m]
      BY <2>2
    <3> DEFINE j == [input[e] EXCEPT !.expected = m]
    <3>2. j \in Input
      BY <2>1 DEF Input
    <3> QED BY <3>1, <3>2
  <2>3. CASE \E r \in Requests : input' = [input EXCEPT ![e].request = r]
    <3>1. PICK r \in Requests : input' = [input EXCEPT ![e].request = r]
      BY <2>3
    <3> DEFINE j == [input[e] EXCEPT !.request = r]
    <3>2. j \in Input
      BY <2>1 DEF Input
    <3> QED BY <3>1, <3>2
  <2>4. CASE \E s \in Scopes : input' = [input EXCEPT ![e].scope = s]
    <3>1. PICK s \in Scopes : input' = [input EXCEPT ![e].scope = s]
      BY <2>4
    <3> DEFINE j == [input[e] EXCEPT !.scope = s]
    <3>2. j \in Input
      BY <2>1 DEF Input
    <3> QED BY <3>1, <3>2
  <2>5. CASE \E a \in Attestations : input' = [input EXCEPT ![e].attestation = a]
    <3>1. PICK a \in Attestations : input' = [input EXCEPT ![e].attestation = a]
      BY <2>5
    <3> DEFINE j == [input[e] EXCEPT !.attestation = a]
    <3>2. j \in Input
      BY <2>1 DEF Input
    <3> QED BY <3>1, <3>2
  <2> QED BY <2>2, <2>3, <2>4, <2>5 DEF Mutate
<1>3. input'[e] = j /\ \A d \in Evaluations \ {e} : input'[d] = input[d]
  BY <1>2 DEF Shape
<1>4. Holding' = Holding /\ Eligible' = Eligible /\ e \notin Eligible
  BY <1>1 DEF Holding, Eligible
<1>5. Shape'
  BY <1>1, <1>2, <1>3, <1>4 DEF Shape, Holding
<1>6. CopiesJudged'
  BY <1>1, <1>4 DEF CopiesJudged
<1>7. EligibleUnchanged'
  BY <1>1, <1>3, <1>4 DEF EligibleUnchanged, Eligible
<1>8. CopiesFresh' /\ RowsOwned' /\ ReceiptsBacked' /\ EligibleTaken'
  BY <1>1, <1>4 DEF CopiesFresh, RowsOwned, ReceiptsBacked, EligibleTaken
<1> QED BY <1>5, <1>6, <1>7, <1>8

\* The end of an evaluation without an eligible decision.
LEMMA EndStep ==
  ASSUME ReleaseInv, NEW e \in Evaluations, Refuse(e) \/ Failed(e)
  PROVE  ReleaseInv'
<1> USE DEF ReleaseInv
<1>1. /\ decision[e] \in {Nothing, "consuming"}
      /\ decision' = [decision EXCEPT ![e] = decision'[e]]
      /\ decision'[e] \in {"unresolved", "contradiction"}
      /\ UNCHANGED <<clock, taken, signedReceipts>>
  BY DEF Refuse, Failed, Screened, Shape
<1>2. \A d \in Evaluations \ {e} :
        decision'[d] = decision[d] /\ input'[d] = input[d] /\ captured'[d] = captured[d]
  BY <1>1 DEF Refuse, Failed, Shape
<1>3. Holding' = Holding \ {e} /\ Eligible' = Eligible /\ e \notin Eligible
  BY <1>1, <1>2, NothingAssumption DEF Holding, Eligible, Shape
<1>4. Shape'
  <2>1. input' \in [Evaluations -> Input \cup {Nothing}] /\ captured' \in [Evaluations -> Copy \cup {Nothing}]
    BY DEF Shape, Refuse, Failed
  <2>2. decision' \in [Evaluations -> Decision]
    BY <1>1 DEF Shape, Decision
  <2> QED BY <1>1, <1>2, <1>3, <2>1, <2>2 DEF Shape, Holding
<1>5. CopiesJudged' /\ CopiesFresh'
  BY <1>2, <1>3 DEF CopiesJudged, CopiesFresh, Holding
<1>6. EligibleUnchanged' /\ EligibleTaken'
  BY <1>1, <1>2, <1>3 DEF EligibleUnchanged, EligibleTaken, Eligible
<1>7. RowsOwned'
  BY <1>1, <1>2, <1>3, NothingAssumption DEF RowsOwned, Shape
<1>8. ReceiptsBacked'
  BY <1>1, <1>2, NothingAssumption DEF ReceiptsBacked, Shape
<1> QED BY <1>4, <1>5, <1>6, <1>7, <1>8

LEMMA AnsweredStep ==
  ASSUME ReleaseInv, NEW e \in Evaluations, NEW r \in signedReceipts, Answered(e, r)
  PROVE  ReleaseInv'
<1> USE DEF ReleaseInv
<1>1. /\ decision[e] = "consuming" /\ r = Receipt(e) /\ Unchanged(e)
      /\ decision' = [decision EXCEPT ![e] = "eligible"]
      /\ UNCHANGED <<clock, input, captured, taken, signedReceipts>>
  BY DEF Answered, ReceiptFor
<1>2. decision'[e] = "eligible" /\ \A d \in Evaluations \ {e} : decision'[d] = decision[d]
  BY <1>1 DEF Shape
<1>3. Holding' = Holding /\ Eligible' = Eligible \cup {e} /\ e \in Holding
  BY <1>1, <1>2 DEF Holding, Eligible
<1>4. Shape'
  <2>1. decision' \in [Evaluations -> Decision]
    BY <1>1 DEF Shape, Decision
  <2> QED BY <1>1, <1>3, <2>1 DEF Shape
<1>5. CopiesJudged' /\ CopiesFresh'
  BY <1>1, <1>3 DEF CopiesJudged, CopiesFresh
<1>6. EligibleUnchanged'
  BY <1>1, <1>3 DEF EligibleUnchanged, Unchanged
<1>7. EligibleTaken'
  <2>1. \E t \in taken : t.by = e /\ t.nonce = captured[e].request.challenge
    BY <1>1 DEF ReceiptsBacked, Receipt
  <2> QED BY <1>1, <1>3, <2>1 DEF EligibleTaken
<1>8. RowsOwned' /\ ReceiptsBacked'
  BY <1>1, <1>2, <1>3, NothingAssumption DEF RowsOwned, ReceiptsBacked, Shape
<1> QED BY <1>4, <1>5, <1>6, <1>7, <1>8

\* Every step of an evaluation, of the authority or of code that runs in between keeps the
\* invariant.
LEMMA NextRelease == ReleaseInv /\ [ReleaseNext]_releaseVars => ReleaseInv'
<1> SUFFICES ASSUME ReleaseInv, [ReleaseNext]_releaseVars PROVE ReleaseInv'
  OBVIOUS
<1>1. CASE ClockTick
  <2>1. clock' \in Nat
    BY <1>1 DEF ClockTick, ReleaseInv, Shape
  <2> QED BY <1>1, <2>1, QuietStep DEF ClockTick
<1>2. CASE UNCHANGED releaseVars
  <2>1. clock' \in Nat
    BY <1>2 DEF releaseVars, ReleaseInv, Shape
  <2> QED BY <1>2, <2>1, QuietStep DEF releaseVars
<1> QED
  BY <1>1, <1>2, CallStep, ConsumeStep, MutateStep, EndStep, AnsweredStep DEF ReleaseNext

LEMMA ReleaseInductive == ReleaseSpec => []ReleaseInv
  BY InitRelease, NextRelease, PTL DEF ReleaseSpec

----------------------------------------------------------------------------
(* What a reader should know of *)

\* The request, the scope and the marker the caller holds when it is told ELIGIBLE are the
\* ones that the attestation verified before the authority's call covers, whatever that call
\* replaced, the attestation object included.
THEOREM EligibleRestsOnJudged == ReleaseSpec => []EligibleAsJudged
<1>1. ReleaseInv => EligibleAsJudged
  BY DEF ReleaseInv, EligibleAsJudged, CopiesJudged, EligibleUnchanged, Holding, Eligible
<1> QED BY <1>1, ReleaseInductive, PTL

\* The challenge behind an eligible decision was consumed in time, on evidence at most the
\* challenge's time to live beyond the freshness limit.
THEOREM ConsumedFresh == ReleaseSpec => []FreshWhenConsumed
<1>1. ReleaseInv => FreshWhenConsumed
  <2> SUFFICES ASSUME ReleaseInv, NEW e \in Eligible
               PROVE  \E t \in taken :
                        /\ t.by = e /\ t.nonce = input[e].request.challenge
                        /\ t.at <= input[e].request.requested + ChallengeTTL
                        /\ t.at - input[e].scope.from <= MaxFreshness + ChallengeTTL
    BY DEF FreshWhenConsumed
  <2>1. e \in Holding /\ captured[e] \in Copy
    BY DEF ReleaseInv, Shape, Holding, Eligible
  <2>2. PICK t \in taken : t.by = e /\ t.nonce = captured[e].request.challenge
    BY DEF ReleaseInv, EligibleTaken
  <2>3. t.at <= captured[e].expires /\ t.at \in Nat
    BY <2>1, <2>2 DEF ReleaseInv, RowsOwned, Shape
  <2>4. input[e].request = captured[e].request /\ input[e].scope = captured[e].scope
    BY DEF ReleaseInv, EligibleUnchanged
  <2>5. /\ captured[e].expires = captured[e].request.requested + ChallengeTTL
        /\ captured[e].request.requested <= captured[e].now
        /\ captured[e].now - captured[e].scope.from <= MaxFreshness
    BY <2>1 DEF ReleaseInv, CopiesFresh
  <2>6. captured[e].request.requested \in Nat /\ captured[e].scope.from \in Nat
        /\ captured[e].now \in Int /\ MaxFreshness \in Nat /\ ChallengeTTL \in Nat
    BY <2>1, ReleaseInputs DEF Copy, ReleaseRequest, Scope
  <2>7. t.at - captured[e].scope.from <= MaxFreshness + ChallengeTTL
    BY <2>3, <2>5, <2>6
  <2> QED BY <2>2, <2>3, <2>4, <2>5, <2>7
<1> QED BY <1>1, ReleaseInductive, PTL

\* A step of the evaluation is a step of the one-shot nonce: Consume takes the challenge,
\* Answered dispatches, everything else changes neither.
LEMMA StepRefinesReview == ReleaseInv /\ [ReleaseNext]_releaseVars => [OneReview!OneShotNext]_(OneReview!oneShotVars)
<1> SUFFICES ASSUME ReleaseInv, [ReleaseNext]_releaseVars
             PROVE  [OneReview!OneShotNext]_(OneReview!oneShotVars)
  OBVIOUS
<1> DEFINE Taken == {[by |-> t.by, nonce |-> t.nonce] : t \in taken}
           claim(e) == [by |-> e, nonce |-> captured[e].request.challenge]
           Dispatched == {claim(e) : e \in Eligible}
<1>1. ASSUME NEW e \in Evaluations, Consume(e) PROVE OneReview!OneShotNext
  <2>1. captured[e].request.challenge \in Challenges
    BY <1>1, ReleaseInputs DEF Consume, ReleaseInv, Shape, Holding, Copy, ReleaseRequest
  <2>2. claim(e) \in OneReview!Claim
    BY <2>1 DEF OneReview!Claim
  <2>3. \A d \in Taken : d.nonce # claim(e).nonce
    BY <1>1 DEF Consume
  <2> DEFINE row == [by |-> e, nonce |-> captured[e].request.challenge, at |-> clock]
  <2>4. taken' = taken \cup {row}
    BY <1>1 DEF Consume
  <2>5. Taken' = {[by |-> t.by, nonce |-> t.nonce] : t \in taken'}
    OBVIOUS
  <2>6. row.by = e /\ row.nonce = captured[e].request.challenge
    OBVIOUS
  <2>7. [by |-> row.by, nonce |-> row.nonce] = claim(e)
    BY <2>6
  <2> HIDE DEF row, claim
  <2>8. Taken' = Taken \cup {claim(e)}
    BY <2>4, <2>5, <2>7, Zenon
  <2> USE DEF claim
  <2>9. Dispatched' = Dispatched
    BY <1>1 DEF Consume, Eligible
  <2> QED BY <2>2, <2>3, <2>8, <2>9 DEF OneReview!OneShotNext, OneReview!Take
<1>2. ASSUME NEW e \in Evaluations, NEW r \in signedReceipts, Answered(e, r)
      PROVE OneReview!OneShotNext
  <2>1. captured[e].request.challenge \in Challenges
    BY <1>2, ReleaseInputs DEF Answered, ReleaseInv, Shape, Holding, Copy, ReleaseRequest
  <2>2. claim(e) \in OneReview!Claim
    BY <2>1 DEF OneReview!Claim
  <2>3. claim(e) \in Taken
    BY <1>2 DEF Answered, ReceiptFor, Receipt, ReleaseInv, ReceiptsBacked
  <2>4. Eligible' = Eligible \cup {e} /\ UNCHANGED <<captured, taken>>
    BY <1>2 DEF Answered, Eligible, ReleaseInv, Shape
  <2>5. Dispatched' = Dispatched \cup {claim(e)} /\ Taken' = Taken
    BY <2>4
  <2> QED BY <2>2, <2>3, <2>5 DEF OneReview!OneShotNext, OneReview!Dispatch
<1>3. ASSUME UNCHANGED taken, Eligible' = Eligible, \A e \in Eligible : captured'[e] = captured[e]
      PROVE  UNCHANGED OneReview!oneShotVars
  <2>1. Taken' = Taken /\ Dispatched' = Dispatched
    BY <1>3
  <2> QED BY <2>1 DEF OneReview!oneShotVars
<1>4. ASSUME NEW e \in Evaluations, Refuse(e) \/ Call(e) \/ Mutate(e) \/ Failed(e)
      PROVE  UNCHANGED OneReview!oneShotVars
  <2>1. /\ UNCHANGED taken
        /\ e \notin Eligible /\ decision'[e] # "eligible"
        /\ \A d \in Evaluations \ {e} : decision'[d] = decision[d] /\ captured'[d] = captured[d]
    BY <1>4, NothingAssumption
    DEF Refuse, Call, Mutate, Failed, Screened, Eligible, ReleaseInv, Shape
  <2>2. Eligible' = Eligible /\ \A d \in Eligible : captured'[d] = captured[d]
    BY <2>1 DEF Eligible
  <2> QED BY <1>3, <2>1, <2>2
<1>5. CASE ClockTick \/ UNCHANGED releaseVars
  <2>1. UNCHANGED taken /\ Eligible' = Eligible /\ \A e \in Eligible : captured'[e] = captured[e]
    BY <1>5 DEF ClockTick, releaseVars, Eligible
  <2> QED BY <1>3, <2>1
<1> QED BY <1>1, <1>2, <1>4, <1>5 DEF ReleaseNext

\* Evaluator and authority implement the one-shot nonce: a challenge makes at most one
\* evaluation eligible, the one whose call consumed it.
THEOREM ImplementsReview == ReleaseSpec => ImplementsOneReview
<1>1. ReleaseInit => OneReview!OneShotInit
  BY NothingAssumption DEF ReleaseInit, OneReview!OneShotInit, Eligible
<1> QED
  BY <1>1, StepRefinesReview, ReleaseInductive, PTL DEF ReleaseSpec, ImplementsOneReview, OneReview!OneShotSpec
==================================================================================
