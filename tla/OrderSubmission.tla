----------------------------- MODULE OrderSubmission -----------------------------
(***************************************************************************)
(* KisProductionTradingClient.submit_cash_limit_order with the             *)
(* IntentAuditWriter it drives: one invocation per element of Procs, all   *)
(* sharing one audit root.  Each step is the code between two accesses to  *)
(* shared state (a file of the audit root, the account lock, the broker).  *)
(* A process may be killed between any two steps, a write to the audit     *)
(* root may fail, and the network may lose a request or its answer.        *)
(***************************************************************************)
CONSTANTS
  Procs,      \* one-shot submitter invocations (a restart is another element)
  Accounts,   \* KIS accounts
  Intents,    \* canonical intent ids (compute_canonical_intent_id)
  None        \* nobody holds the lock

ASSUME NoneAssumption == None \notin Procs

VARIABLES
  pc,         \* position of each invocation
  job,        \* what each invocation was called with
  lock,       \* holder of each account's halt lock
  record,     \* intent-<id>.json of each intent
  marker,     \* ambiguous-halt-<binding>.json of each account
  broker,     \* fate of the one POST an invocation may make
  outcome     \* how the call ended

vars == <<pc, job, lock, record, marker, broker, outcome>>

\* A file written with O_EXCL, then write + fsync: a crash or an I/O error in
\* between leaves a file that exists but does not parse.
File == {"absent", "partial", "full"}

\* What an invocation was started for: a submission that goes through, one the
\* disabled gate stops, one whose capture or pretrade validation fails, or a
\* bare _record_ambiguous_halt.
Plan == {"submit", "disabled", "inadmissible", "halt"}

Job == [acct : Accounts, intent : Intents, plan : Plan]

Critical == {"check", "audit", "auditsync", "recheck", "post", "await",
             "halt", "haltsync", "release"}

Location == {"gate", "lock", "done", "dead"} \union Critical

Fate == {"none", "inflight", "accepted", "rejected", "lost"}

\* "rejected" and "failed" are the causes an AmbiguousBrokerState is raised from;
\* "unrecorded" is the one raised because the halt could not be written.
Outcome == {"none", "refused", "acked", "rejected", "failed", "unrecorded"}

acct(p) == job[p].acct
intent(p) == job[p].intent

\* Mutant: a malformed marker counts as no marker.
ValidHaltPresent(a) == marker[a] = "full"

HaltPresent(a) == marker[a] # "absent"

Init ==
  /\ pc = [p \in Procs |-> "gate"]
  /\ job \in [Procs -> Job]
  /\ lock = [a \in Accounts |-> None]
  /\ record = [i \in Intents |-> "absent"]
  /\ marker = [a \in Accounts |-> "absent"]
  /\ broker = [p \in Procs |-> "none"]
  /\ outcome = [p \in Procs |-> "none"]

Goto(p, here, there) ==
  /\ pc[p] = here
  /\ pc' = [pc EXCEPT ![p] = there]

\* Leave the critical section with an outcome; the lock goes in Release.
Conclude(p, here, result) ==
  /\ Goto(p, here, "release")
  /\ outcome' = [outcome EXCEPT ![p] = result]

---------------------------------------------------------------------------------
(* The submitter *)

\* require_live_execution_enabled comes before anything is opened or locked;
\* _record_ambiguous_halt has no gate.
GateOpen(p) ==
  /\ job[p].plan # "disabled"
  /\ Goto(p, "gate", "lock")
  /\ UNCHANGED <<job, lock, record, marker, broker, outcome>>

GateShut(p) ==
  /\ job[p].plan = "disabled"
  /\ Goto(p, "gate", "done")
  /\ outcome' = [outcome EXCEPT ![p] = "refused"]
  /\ UNCHANGED <<job, lock, record, marker, broker>>

\* Mutant: the descriptor is opened, but flock does not wait for its holder.
AcquireUnlocked(p) ==
  /\ Goto(p, "lock", IF job[p].plan = "halt" THEN "halt" ELSE "check")
  /\ lock' = [lock EXCEPT ![acct(p)] = p]
  /\ UNCHANGED <<job, record, marker, broker, outcome>>

Acquire(p) ==
  /\ lock[acct(p)] = None
  /\ Goto(p, "lock", IF job[p].plan = "halt" THEN "halt" ELSE "check")
  /\ lock' = [lock EXCEPT ![acct(p)] = p]
  /\ UNCHANGED <<job, record, marker, broker, outcome>>

\* The lock file is unsafe or cannot be opened or locked: the call raises.
AcquireFault(p) ==
  /\ Goto(p, "lock", "done")
  /\ outcome' = [outcome EXCEPT ![p] = "refused"]
  /\ UNCHANGED <<job, lock, record, marker, broker>>

\* First halt check, then the capture and pretrade validation of the intent.
CheckPassed(p) ==
  /\ ~HaltPresent(acct(p))
  /\ job[p].plan = "submit"
  /\ Goto(p, "check", "audit")
  /\ UNCHANGED <<job, lock, record, marker, broker, outcome>>

CheckRefused(p) ==
  /\ HaltPresent(acct(p)) \/ job[p].plan = "inadmissible"
  /\ Conclude(p, "check", "refused")
  /\ UNCHANGED <<job, lock, record, marker, broker>>

\* Mutant: O_CREAT without O_EXCL.
CreateRecordShared(p) ==
  /\ Goto(p, "audit", "auditsync")
  /\ record' = [record EXCEPT ![intent(p)] = "partial"]
  /\ UNCHANGED <<job, lock, marker, broker, outcome>>

\* IntentAuditWriter.write: the O_EXCL create is the idempotency boundary.
CreateRecord(p) ==
  /\ record[intent(p)] = "absent"
  /\ Goto(p, "audit", "auditsync")
  /\ record' = [record EXCEPT ![intent(p)] = "partial"]
  /\ UNCHANGED <<job, lock, marker, broker, outcome>>

RecordExists(p) ==
  /\ record[intent(p)] # "absent"
  /\ Conclude(p, "audit", "refused")
  /\ UNCHANGED <<job, lock, record, marker, broker>>

\* Mutant: the record is left in the page cache.
SyncRecordSkipped(p) ==
  /\ Goto(p, "auditsync", "recheck")
  /\ UNCHANGED <<job, lock, record, marker, broker, outcome>>

SyncRecord(p) ==
  /\ Goto(p, "auditsync", "recheck")
  /\ record' = [record EXCEPT ![intent(p)] = "full"]
  /\ UNCHANGED <<job, lock, marker, broker, outcome>>

\* Second halt check, immediately before the transport.
Recheck(p) ==
  /\ IF HaltPresent(acct(p))
       THEN Conclude(p, "recheck", "refused")
       ELSE /\ Goto(p, "recheck", "post")
            /\ UNCHANGED outcome
  /\ UNCHANGED <<job, lock, record, marker, broker>>

\* The audit root changed or I/O failed before the POST: the call raises.  What
\* was created stays, complete if only the directory sync failed.
Fault(p) ==
  /\ \E here \in {"check", "audit", "auditsync", "recheck"} :
       Conclude(p, here, "refused")
  /\ \/ UNCHANGED record
     \/ pc[p] = "auditsync" /\ record' = [record EXCEPT ![intent(p)] = "full"]
  /\ UNCHANGED <<job, lock, marker, broker>>

Post(p) ==
  /\ Goto(p, "post", "await")
  /\ broker' = [broker EXCEPT ![p] = "inflight"]
  /\ UNCHANGED <<job, lock, record, marker, outcome>>

\* A usable acknowledgement: rt_cd is "0" and both broker identifiers are there.
Acknowledged(p) ==
  /\ broker[p] = "accepted"
  /\ Conclude(p, "await", "acked")
  /\ UNCHANGED <<job, lock, record, marker, broker>>

\* KIS answers with rt_cd # "0"; the exception is caught like any other.
Rejected(p) ==
  /\ broker[p] = "rejected"
  /\ Goto(p, "await", "halt")
  /\ outcome' = [outcome EXCEPT ![p] = "rejected"]
  /\ UNCHANGED <<job, lock, record, marker, broker>>

\* Mutant: the exception escapes without a halt.
TransportFailedOpen(p) ==
  /\ Conclude(p, "await", "failed")
  /\ UNCHANGED <<job, lock, record, marker, broker>>

\* Transport exception, HTTP error or unparsable answer, whatever the broker
\* did or will still do with the request.
TransportFailed(p) ==
  /\ Goto(p, "await", "halt")
  /\ outcome' = [outcome EXCEPT ![p] = "failed"]
  /\ UNCHANGED <<job, lock, record, marker, broker>>

\* _record_ambiguous_halt_locked: O_EXCL create, then write and sync.
CreateMarker(p) ==
  /\ marker[acct(p)] = "absent"
  /\ Goto(p, "halt", "haltsync")
  /\ marker' = [marker EXCEPT ![acct(p)] = "partial"]
  /\ UNCHANGED <<job, lock, record, broker, outcome>>

\* Mutant: the content of the marker is returned for the result of the call.
MarkerReturned(p) ==
  /\ marker[acct(p)] # "absent"
  /\ Conclude(p, "halt", marker[acct(p)])
  /\ UNCHANGED <<job, lock, record, marker, broker>>

\* An existing marker is kept; a malformed one makes the call fail.
MarkerExists(p) ==
  /\ marker[acct(p)] # "absent"
  /\ Conclude(p, "halt",
       IF marker[acct(p)] = "full" THEN outcome[p] ELSE "unrecorded")
  /\ UNCHANGED <<job, lock, record, marker, broker>>

SyncMarker(p) ==
  /\ Goto(p, "haltsync", "release")
  /\ marker' = [marker EXCEPT ![acct(p)] = "full"]
  /\ UNCHANGED <<job, lock, record, broker, outcome>>

\* Recording the halt fails: nothing durable, a malformed marker, or a complete
\* one whose directory entry was not synced.
MarkerFault(p) ==
  /\ \E here \in {"halt", "haltsync"} : Conclude(p, here, "unrecorded")
  /\ \/ UNCHANGED marker
     \/ pc[p] = "haltsync" /\ marker' = [marker EXCEPT ![acct(p)] = "full"]
  /\ UNCHANGED <<job, lock, record, broker>>

\* Mutant: the lock is not given back on the way out.
ReleaseSkipped(p) ==
  /\ Goto(p, "release", "done")
  /\ UNCHANGED <<job, lock, record, marker, broker, outcome>>

Release(p) ==
  /\ Goto(p, "release", "done")
  /\ lock' = [lock EXCEPT ![acct(p)] = None]
  /\ UNCHANGED <<job, record, marker, broker, outcome>>

---------------------------------------------------------------------------------
(* The environment *)

\* The process is killed: the kernel drops its flock, files stay as they are.
Crash(p) ==
  /\ pc[p] \notin {"done", "dead"}
  /\ pc' = [pc EXCEPT ![p] = "dead"]
  /\ lock' = [a \in Accounts |-> IF lock[a] = p THEN None ELSE lock[a]]
  /\ UNCHANGED <<job, record, marker, broker, outcome>>

\* KIS decides, or the network drops the request; the client may be long gone.
BrokerDecides(p) ==
  /\ broker[p] = "inflight"
  /\ \E fate \in {"accepted", "rejected", "lost"} :
       broker' = [broker EXCEPT ![p] = fate]
  /\ UNCHANGED <<pc, job, lock, record, marker, outcome>>

\* Steps the invocation takes on its own, whatever the network does.
Local(p) ==
  \/ GateOpen(p) \/ GateShut(p) \/ Acquire(p)
  \/ CheckPassed(p) \/ CheckRefused(p)
  \/ CreateRecord(p) \/ RecordExists(p) \/ SyncRecord(p) \/ Recheck(p) \/ Post(p)
  \/ CreateMarker(p) \/ MarkerExists(p) \/ SyncMarker(p) \/ Release(p)

Faulty(p) == AcquireFault(p) \/ Fault(p) \/ MarkerFault(p)

Answer(p) == Acknowledged(p) \/ Rejected(p) \/ TransportFailed(p)

Next ==
  \E p \in Procs :
    Local(p) \/ Faulty(p) \/ Answer(p) \/ Crash(p) \/ BrokerDecides(p)

Spec == Init /\ [][Next]_vars

\* The interpreter keeps running a live invocation.  No fault is bound to happen,
\* and nothing is assumed of the network: session.post is called without a timeout and may never return.
FairSpec == Spec /\ \A p \in Procs : WF_vars(Local(p))

---------------------------------------------------------------------------------
(* Properties *)

\* The shape of the state: locations, files, broker fates and call results.
TypeOK ==
  /\ pc \in [Procs -> Location]
  /\ job \in [Procs -> Job]
  /\ lock \in [Accounts -> Procs \union {None}]
  /\ record \in [Intents -> File]
  /\ marker \in [Accounts -> File]
  /\ broker \in [Procs -> Fate]
  /\ outcome \in [Procs -> Outcome]

Posted(p) == broker[p] # "none"

\* _account_halt_lock: two invocations are never both between the first halt
\* check and the release for the same account, crashes included.
MutualExclusion ==
  \A p, q \in Procs :
    /\ pc[p] \in Critical /\ pc[q] \in Critical
    /\ acct(p) = acct(q)
    => p = q

\* The write-once audit record is an idempotency boundary: over all processes,
\* accounts, crashes and retries, an intent is POSTed at most once.
AtMostOncePost ==
  \A p, q \in Procs :
    Posted(p) /\ Posted(q) /\ intent(p) = intent(q) => p = q

\* Audit before POST: a request on the wire has a complete, synced record.
WriteAheadAudit ==
  \A p \in Procs : Posted(p) => record[intent(p)] = "full"

\* A call that returned after its POST either got the acknowledgement of an order
\* the broker holds, or left a halt that blocks the account, or reported that it
\* could not leave one.
PostIsAccountedFor ==
  \A p \in Procs :
    Posted(p) /\ pc[p] \in {"release", "done"} =>
      \/ outcome[p] = "acked" /\ broker[p] = "accepted"
      \/ outcome[p] \in {"rejected", "failed"} /\ marker[acct(p)] = "full"
      \/ outcome[p] = "unrecorded"

PostStep(p) == ~Posted(p) /\ Posted(p)'

\* No request leaves on a halted account, even when the marker is malformed
\* and even though the check and the POST are separate steps.
NoPostBehindHalt ==
  [][\A p \in Procs : PostStep(p) => marker[acct(p)] = "absent"]_vars

\* Whoever waits for an account's lock gets past it, unless a holder is stuck
\* in session.post, which has no timeout.
WaiterServed ==
  \A p \in Procs :
    pc[p] = "lock" ~>
      \/ pc[p] # "lock"
      \/ \E q \in Procs : pc[q] = "await" /\ acct(q) = acct(p)

\* Claim of the AmbiguousBrokerState docstring and of submit_cash_limit_order
\* ("halt and reconcile before any further action"): no request goes out on an
\* account while an earlier one of that account is neither acknowledged nor
\* still being handled.
HaltBeforeNextAction ==
  [][\A p \in Procs : PostStep(p) =>
       \A q \in Procs \ {p} :
         Posted(q) /\ acct(q) = acct(p) => outcome[q] = "acked"]_vars

\* The submitter implements the contract: sends and halts are read off the
\* broker's view and the marker files.
Contract ==
  INSTANCE SubmissionContract WITH
    Senders <- Procs,
    sent <- {[sender |-> p, acct |-> acct(p), intent |-> intent(p)] :
               p \in {q \in Procs : Posted(q)}},
    halted <- {a \in Accounts : HaltPresent(a)}

ImplementsContract == Contract!ContractSpec
==================================================================================
