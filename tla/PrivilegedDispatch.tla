---------------------------- MODULE PrivilegedDispatch ----------------------------
(***************************************************************************)
(* PrivilegedDispatchVerifier.verify_and_consume through the wire client   *)
(* and adapter to DurableNonceAuthorityCore.consume_once.  An invocation   *)
(* draws a fresh challenge, so its consumption request and the receipt for *)
(* it are named by the invocation.  The wire may lose, repeat, delay and   *)
(* reorder requests and receipts; either side may be killed at any step.   *)
(***************************************************************************)
EXTENDS Naturals

CONSTANTS
  Verifiers,   \* verify_and_consume invocations (a retry is another element)
  Nonces,      \* nonces of signed envelopes
  Handlers,    \* concurrent handle_payload calls of the authority
  None,        \* nobody
  MaxTime      \* bound on the clock

ASSUME NoneAssumption == None \notin Handlers \union Verifiers
ASSUME TimeAssumption == MaxTime \in Nat

VARIABLES
  now,         \* the wall clock both sides read
  envelope,    \* the envelope each invocation was given
  vpc,         \* position of each invocation
  requests,    \* consumption requests put on the wire
  receipts,    \* signed receipts put on the wire
  hpc,         \* position of each authority handler
  work,        \* the request each handler serves
  writer,      \* handler holding SQLite's write lock
  consumed     \* committed rows of consumed_requests

vars == <<now, envelope, vpc, requests, receipts, hpc, work, writer, consumed>>

verifierVars == <<envelope, vpc, requests>>
authorityVars == <<hpc, work, writer, consumed, receipts>>

Time == 0 .. MaxTime

\* "genuine": the signature, account binding and action allowlist agree.
Envelope == [nonce : Nonces, issued : Time, expires : Time, genuine : BOOLEAN]

nonceOf(v) == envelope[v].nonce

Init ==
  /\ now = 0
  /\ envelope \in [Verifiers -> {e \in Envelope : e.issued < e.expires}]
  /\ vpc = [v \in Verifiers |-> "start"]
  /\ requests = {}
  /\ receipts = {}
  /\ hpc = [h \in Handlers |-> "idle"]
  /\ work = [h \in Handlers |-> None]
  /\ writer = None
  /\ consumed = {}

Live(v) == envelope[v].issued <= now /\ now < envelope[v].expires

VerifierAt(v, here, there) ==
  /\ vpc[v] = here
  /\ vpc' = [vpc EXCEPT ![v] = there]

HandlerAt(h, here, there) ==
  /\ hpc[h] = here
  /\ hpc' = [hpc EXCEPT ![h] = there]

-----------------------------------------------------------------------------------
(* The verifier *)

\* Mutant: the signature and allowlist checks are skipped.
RequestUnchecked(v) ==
  /\ Live(v)
  /\ VerifierAt(v, "start", "waiting")
  /\ requests' = requests \union {v}
  /\ UNCHANGED <<now, envelope, authorityVars>>

\* Checks pass: draw the challenge and send the consumption request.
Request(v) ==
  /\ envelope[v].genuine /\ Live(v)
  /\ VerifierAt(v, "start", "waiting")
  /\ requests' = requests \union {v}
  /\ UNCHANGED <<now, envelope, authorityVars>>

RefuseEnvelope(v) ==
  /\ ~(envelope[v].genuine /\ Live(v))
  /\ VerifierAt(v, "start", "refused")
  /\ UNCHANGED <<now, envelope, requests, authorityVars>>

\* Mutant: a receipt for the same nonce is taken for this invocation's.
AcceptReceiptOfNonce(v) ==
  /\ \E r \in receipts : nonceOf(r) = nonceOf(v)
  /\ VerifierAt(v, "waiting", "approved")
  /\ UNCHANGED <<now, envelope, requests, authorityVars>>

\* The adapter recomputes fingerprint and challenge digest of its own request.
AcceptReceipt(v) ==
  /\ v \in receipts
  /\ VerifierAt(v, "waiting", "approved")
  /\ UNCHANGED <<now, envelope, requests, authorityVars>>

\* An error answer, a broken exchange, or a receipt for another invocation.
RefuseAnswer(v) ==
  /\ VerifierAt(v, "waiting", "refused")
  /\ UNCHANGED <<now, envelope, requests, authorityVars>>

VerifierKilled(v) ==
  /\ \E here \in {"start", "waiting"} : VerifierAt(v, here, "dead")
  /\ UNCHANGED <<now, envelope, requests, authorityVars>>

-----------------------------------------------------------------------------------
(* The authority *)

\* Any request on the wire may arrive, again or late; _validate_consumption
\* reads the clock once.
Receive(h, v) ==
  /\ v \in requests
  /\ now < envelope[v].expires
  /\ HandlerAt(h, "idle", "checked")
  /\ work' = [work EXCEPT ![h] = v]
  /\ UNCHANGED <<now, verifierVars, writer, consumed, receipts>>

\* Mutant: a deferred BEGIN takes no write lock.
BeginDeferred(h) ==
  /\ HandlerAt(h, "checked", "begun")
  /\ UNCHANGED <<now, verifierVars, work, writer, consumed, receipts>>

\* BEGIN IMMEDIATE.
Begin(h) ==
  /\ writer = None
  /\ HandlerAt(h, "checked", "begun")
  /\ writer' = h
  /\ UNCHANGED <<now, verifierVars, work, consumed, receipts>>

\* sqlite3.Error while waiting for the lock or inside the transaction: ROLLBACK.
Rollback(h) ==
  /\ \E here \in {"checked", "begun", "inserted"} : HandlerAt(h, here, "idle")
  /\ work' = [work EXCEPT ![h] = None]
  /\ writer' = IF writer = h THEN None ELSE writer
  /\ UNCHANGED <<now, verifierVars, consumed, receipts>>

\* Mutant: only the request fingerprint is unique, not the nonce.
DuplicateRequest(v) == v \in consumed

Duplicate(v) == \E w \in consumed : w = v \/ nonceOf(w) = nonceOf(v)

\* INSERT under PRIMARY KEY (request) and UNIQUE (nonce).
Insert(h) ==
  /\ HandlerAt(h, "begun", "inserted")
  /\ ~Duplicate(work[h])
  /\ UNCHANGED <<now, verifierVars, work, writer, consumed, receipts>>

\* Mutant: the transaction of a rejected row is left open.
InsertRejectedOpen(h) ==
  /\ HandlerAt(h, "begun", "idle")
  /\ Duplicate(work[h])
  /\ work' = [work EXCEPT ![h] = None]
  /\ UNCHANGED <<now, verifierVars, writer, consumed, receipts>>

InsertRejected(h) ==
  /\ HandlerAt(h, "begun", "idle")
  /\ Duplicate(work[h])
  /\ work' = [work EXCEPT ![h] = None]
  /\ writer' = None
  /\ UNCHANGED <<now, verifierVars, consumed, receipts>>

\* Mutant: the request is dropped before it is committed.
CommitNothing(h) ==
  /\ HandlerAt(h, "inserted", "committed")
  /\ consumed' = consumed \union {None}
  /\ writer' = None
  /\ UNCHANGED <<now, verifierVars, work, receipts>>

Commit(h) ==
  /\ HandlerAt(h, "inserted", "committed")
  /\ consumed' = consumed \union {work[h]}
  /\ writer' = None
  /\ UNCHANGED <<now, verifierVars, work, receipts>>

Reply(h) ==
  /\ HandlerAt(h, "committed", "idle")
  /\ receipts' = receipts \union {work[h]}
  /\ work' = [work EXCEPT ![h] = None]
  /\ UNCHANGED <<now, verifierVars, writer, consumed>>

\* Killed and reopened on the same database: open transactions are gone.
AuthorityRestarts ==
  /\ \E h \in Handlers : hpc[h] # "idle"
  /\ hpc' = [h \in Handlers |-> "idle"]
  /\ work' = [h \in Handlers |-> None]
  /\ writer' = None
  /\ UNCHANGED <<now, verifierVars, consumed, receipts>>

Tick ==
  /\ now < MaxTime
  /\ now' = now + 1
  /\ UNCHANGED <<verifierVars, authorityVars>>

Verify(v) ==
  \/ Request(v) \/ RefuseEnvelope(v)
  \/ AcceptReceipt(v) \/ RefuseAnswer(v) \/ VerifierKilled(v)

Transaction(h) ==
  \/ Begin(h) \/ Insert(h) \/ InsertRejected(h) \/ Commit(h) \/ Reply(h)
  \/ Rollback(h)

Next ==
  \/ \E v \in Verifiers : Verify(v)
  \/ \E h \in Handlers : Transaction(h) \/ \E v \in Verifiers : Receive(h, v)
  \/ AuthorityRestarts
  \/ Tick

Spec == Init /\ [][Next]_vars

\* A handler that started keeps running: SQLite's busy timeout bounds its wait.
FairSpec == Spec /\ \A h \in Handlers : WF_vars(Transaction(h))

-----------------------------------------------------------------------------------
(* Properties *)

\* The shape of the state: clock, positions, and the wire and database by
\* invocation.
TypeOK ==
  /\ now \in Time
  /\ envelope \in [Verifiers -> Envelope]
  /\ vpc \in [Verifiers -> {"start", "waiting", "approved", "refused", "dead"}]
  /\ requests \subseteq Verifiers
  /\ receipts \subseteq Verifiers
  /\ hpc \in [Handlers -> {"idle", "checked", "begun", "inserted", "committed"}]
  /\ work \in [Handlers -> Verifiers \union {None}]
  /\ writer \in Handlers \union {None}
  /\ consumed \subseteq Verifiers

Approved(v) == vpc[v] = "approved"

\* verify_and_consume approves a nonce at most once, whatever is retried,
\* repeated, lost or restarted, and by whichever verifier.
OneDispatchPerNonce ==
  \A v, w \in Verifiers :
    Approved(v) /\ Approved(w) /\ nonceOf(v) = nonceOf(w) => v = w

\* An approval rests on a row that is already durable: a restarted authority
\* cannot forget it and hand the nonce out again.
ApprovalIsDurable ==
  \A v \in Verifiers : Approved(v) => v \in consumed

\* Nothing reaches the database, nor is approved, for an envelope the verifier
\* itself had not admitted.
OnlyAdmittedConsumed ==
  \A v \in consumed \union {w \in Verifiers : Approved(w)} :
    envelope[v].genuine /\ v \in requests

\* A handler cannot keep SQLite's write lock: whoever has it gives it back.
WriterReleases == \A h \in Handlers : writer = h ~> writer # h

\* Verifier and authority together implement the one-shot nonce.
OneShot ==
  INSTANCE OneShotNonce WITH
    taken <- {[by |-> v, nonce |-> nonceOf(v)] : v \in consumed},
    dispatched <- {[by |-> v, nonce |-> nonceOf(v)] :
                     v \in {w \in Verifiers : Approved(w)}}

ImplementsOneShot == OneShot!OneShotSpec
===================================================================================
