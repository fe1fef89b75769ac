---------------------------- MODULE HaltRelease ----------------------------
(* evaluate_halt_release (live/authoritative_halt_release.py): whether the   *)
(* evidence about an ambiguous order is good enough for an operator to       *)
(* review its halt.  Everything is checked against one reading of the clock, *)
(* the operator's challenge is consumed at a separate authority, and of the  *)
(* caller's objects, which that call may have changed, all but the           *)
(* attestation are checked again.                                            *)
(* The authority and the wire to it are not this repository's code: they are *)
(* modelled from what the call requires of them.                             *)
EXTENDS Integers

CONSTANTS
  Evaluations,   \* calls of evaluate_halt_release
  Challenges,    \* operator review challenges
  Markers,       \* halt markers, with the account, action and order they belong to
  Requests,      \* the HaltReleaseRequests considered
  Scopes,        \* the ReconciliationEvidenceScopes considered
  Attestations,  \* the ReconciliationAttestations considered
  MaxFreshness, ChallengeTTL, MaxClock, Nothing

\* A request names a marker, with the account, audited action and broker order behind it;
\* a scope is whole when every source is complete and the collection is declared atomic.
ReleaseRequest == [challenge : Challenges, marker : Markers, submitted : Nat, requested : Nat]
Scope == [from : Nat, to : Nat, fillsFrom : Nat, whole : BOOLEAN]

\* An attestation is the authority's signature of one request and scope, or, when signed is
\* FALSE, anything else.
Attestation == [request : Requests, scope : Scopes, signed : BOOLEAN, contradicts : BOOLEAN]

ASSUME ReleaseInputs ==
  /\ Requests \subseteq ReleaseRequest
  /\ Scopes \subseteq Scope
  /\ Attestations \subseteq Attestation
  /\ MaxFreshness \in Nat /\ ChallengeTTL \in Nat /\ MaxClock \in Nat

ASSUME NothingAssumption == Nothing \notin {"unresolved", "contradiction", "consuming", "eligible"}

VARIABLES
  clock,
  input,      \* input[e]: the objects e's caller holds, which others can reach too
  captured,   \* captured[e]: what e copied before it called the authority
  decision,   \* decision[e]
  taken,      \* the authority's durable rows: challenge, evaluation and time
  signedReceipts    \* every receipt the authority signed; the wire may repeat any of them

releaseVars == <<clock, input, captured, decision, taken, signedReceipts>>

Input == [request : Requests, scope : Scopes, expected : Markers, attestation : Attestations]

Current(r, now) ==
  /\ r.submitted <= r.requested  /\ r.requested <= now
  /\ now - r.requested <= MaxFreshness

ValidScope(s, r, now) ==
  /\ s.from <= s.to /\ s.to <= now
  /\ now - s.from <= MaxFreshness
  /\ s.fillsFrom <= r.submitted /\ r.submitted <= s.to
  /\ s.whole

Attested(i) ==
  i.attestation.signed /\ i.attestation.request = i.request /\ i.attestation.scope = i.scope

ExpiryFromNow(r, now) == now + ChallengeTTL
Expiry(r, now) == r.requested + ChallengeTTL

\* The checks before the authority is called, in the code's order.
Screened(i, now) ==
  IF ~Current(i.request, now) THEN "unresolved"
  ELSE IF i.request.marker # i.expected THEN "contradiction"
  ELSE IF ~ValidScope(i.scope, i.request, now) \/ ~Attested(i) THEN "unresolved"
  ELSE IF i.attestation.contradicts THEN "contradiction"
  ELSE IF now > i.request.requested + ChallengeTTL THEN "unresolved"
  ELSE "consuming"

\* What is copied before the call, and what the authority is asked to consume.  The code
\* keeps no copy of the attestation: here it records what was verified.
Capture(i, now) ==
  [request |-> i.request, scope |-> i.scope, expected |-> i.expected, now |-> now,
   expires |-> Expiry(i.request, now), verified |-> i.attestation]
Receipt(e) == [by |-> e, request |-> captured[e].request]

\* A receipt counts for the evaluation whose fresh challenge it names.
ReceiptOfRequest(r, e) == r.request = captured[e].request
ReceiptFor(r, e) == r = Receipt(e)

\* After the call: the copies equal what the objects hold now; freshness is judged by the
\* clock read before the call, and the attestation is not looked at again.
Trusting(e) == TRUE
Unchanged(e) ==
  /\ input[e].expected = captured[e].expected
  /\ ValidScope(input[e].scope, input[e].request, captured[e].now)
  /\ input[e].request = captured[e].request
  /\ input[e].scope = captured[e].scope

ReleaseInit ==
  /\ clock = 0
  /\ input = [e \in Evaluations |-> Nothing]
  /\ captured = [e \in Evaluations |-> Nothing]
  /\ decision = [e \in Evaluations |-> Nothing]
  /\ taken = {}
  /\ signedReceipts = {}

ClockTick ==
  /\ clock < MaxClock
  /\ clock' = clock + 1
  /\ UNCHANGED <<input, captured, decision, taken, signedReceipts>>

\* The objects of an evaluation that is over are not looked at again.
Refuse(e) ==
  /\ decision[e] = Nothing
  /\ \E i \in Input :
       /\ Screened(i, clock) # "consuming"
       /\ decision' = [decision EXCEPT ![e] = Screened(i, clock)]
  /\ UNCHANGED <<clock, input, captured, taken, signedReceipts>>

Call(e) ==
  /\ decision[e] = Nothing
  /\ \E i \in Input :
       /\ Screened(i, clock) = "consuming"
       /\ input' = [input EXCEPT ![e] = i]
       /\ captured' = [captured EXCEPT ![e] = Capture(i, clock)]
  /\ decision' = [decision EXCEPT ![e] = "consuming"]
  /\ UNCHANGED <<clock, taken, signedReceipts>>

\* The authority consumes a challenge once, before it expires, and signs a receipt.
Consume(e) ==
  /\ decision[e] = "consuming"
  /\ clock <= captured[e].expires
  /\ \A t \in taken : t.nonce # captured[e].request.challenge
  /\ taken' = taken \cup {[by |-> e, nonce |-> captured[e].request.challenge, at |-> clock]}
  /\ signedReceipts' = signedReceipts \cup {Receipt(e)}
  /\ UNCHANGED <<clock, input, captured, decision>>

\* Code that runs during the call replaces one of the caller's objects.
Mutate(e) ==
  /\ decision[e] = "consuming"
  /\ \/ \E m \in Markers : input' = [input EXCEPT ![e].expected = m]
     \/ \E r \in Requests : input' = [input EXCEPT ![e].request = r]
     \/ \E s \in Scopes : input' = [input EXCEPT ![e].scope = s]
     \/ \E a \in Attestations : input' = [input EXCEPT ![e].attestation = a]
  /\ UNCHANGED <<clock, captured, decision, taken, signedReceipts>>

\* The call returns a receipt, this one or an earlier one.
Answered(e, r) ==
  /\ decision[e] = "consuming"
  /\ ReceiptFor(r, e) /\ Unchanged(e)
  /\ decision' = [decision EXCEPT ![e] = "eligible"]
  /\ UNCHANGED <<clock, input, captured, taken, signedReceipts>>

\* It raises, or what it returned or left behind does not verify.
Failed(e) ==
  /\ decision[e] = "consuming"
  /\ decision' = [decision EXCEPT ![e] = "unresolved"]
  /\ input' = [input EXCEPT ![e] = Nothing]
  /\ captured' = [captured EXCEPT ![e] = Nothing]
  /\ UNCHANGED <<clock, taken, signedReceipts>>

ReleaseNext ==
  \/ ClockTick
  \/ \E e \in Evaluations :
       \/ Refuse(e) \/ Call(e) \/ Consume(e) \/ Mutate(e) \/ Failed(e)
       \/ \E r \in signedReceipts : Answered(e, r)

ReleaseSpec == ReleaseInit /\ [][ReleaseNext]_releaseVars

(***************************************************************************)
(* Properties                                                              *)
(***************************************************************************)
Eligible == {e \in Evaluations : decision[e] = "eligible"}

\* The request, the scope and the expected marker the caller holds when it is told ELIGIBLE
\* are the ones that were judged: the attestation verified before the authority's call
\* covers that very request and scope, without contradiction, and the request names that
\* marker.  Nothing is claimed of the attestation object the caller holds by then, which
\* the code does not look at again (authoritative_halt_release.py:409-435 and 455-462).
EligibleAsJudged ==
  \A e \in Eligible :
    /\ input[e].request.marker = input[e].expected
    /\ input[e].scope.whole
    /\ LET a == captured[e].verified IN
         /\ a.signed /\ ~a.contradicts
         /\ a.request = input[e].request /\ a.scope = input[e].scope

\* The operator's challenge behind an eligible decision was consumed within its time to live
\* from the request, when the evidence was at most that much older than the freshness limit,
\* however long the answer took (authoritative_halt_release.py:328-341, 436 and 444-447).
FreshWhenConsumed ==
  \A e \in Eligible : \E t \in taken :
    /\ t.by = e /\ t.nonce = input[e].request.challenge
    /\ t.at <= input[e].request.requested + ChallengeTTL
    /\ t.at - input[e].scope.from <= MaxFreshness + ChallengeTTL

\* Evaluator and authority are a one-shot nonce: a challenge makes at most one evaluation
\* eligible, the one whose call consumed it; a receipt for another call of the same request
\* does not count (authoritative_halt_release.py:372-389 and 441-454).
OneReview == INSTANCE OneShotNonce WITH
  Verifiers <- Evaluations,
  Nonces <- Challenges,
  taken <- {[by |-> t.by, nonce |-> t.nonce] : t \in taken},
  dispatched <- {[by |-> e, nonce |-> captured[e].request.challenge] : e \in Eligible}

ImplementsOneReview == OneReview!OneShotSpec
=============================================================================
