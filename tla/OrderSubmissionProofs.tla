-------------------------- MODULE OrderSubmissionProofs --------------------------
(***************************************************************************)
(* The submitter's guarantees for any number of invocations, accounts and  *)
(* intents.  IInv strengthens the safety invariants of OrderSubmission     *)
(* until every step preserves them; the contract is implemented under it.  *)
(***************************************************************************)
EXTENDS OrderSubmission, TLAPS

\* Up to its POST an invocation has no request and no result.
Early == {"gate", "lock", "check", "audit", "auditsync", "recheck", "post"}

\* The invocation created the record of its intent and went on, or has posted.
Claimed(p) == pc[p] \in {"auditsync", "recheck", "post"} \/ Posted(p)

\* Being in the critical section is holding the account's lock.
LockHeld == \A p \in Procs : pc[p] \in Critical => lock[acct(p)] = p

NothingEarly ==
  \A p \in Procs : pc[p] \in Early => ~Posted(p) /\ outcome[p] = "none"

\* A claimed intent has a record file, and one claimant only.
ClaimExclusive ==
  /\ \A p \in Procs : Claimed(p) => record[intent(p)] # "absent"
  /\ \A p, q \in Procs :
       Claimed(p) /\ Claimed(q) /\ intent(p) = intent(q) => p = q

RecordSynced ==
  \A p \in Procs :
    pc[p] \in {"recheck", "post"} \/ Posted(p) => record[intent(p)] = "full"

\* The second halt check still holds when the POST is made.
ClearToPost ==
  \A p \in Procs : pc[p] = "post" => marker[acct(p)] = "absent"

CauseKept ==
  \A p \in Procs :
    pc[p] \in {"halt", "haltsync"} /\ Posted(p) =>
      outcome[p] \in {"rejected", "failed"}

IInv ==
  /\ TypeOK
  /\ LockHeld
  /\ NothingEarly
  /\ ClaimExclusive
  /\ RecordSynced
  /\ ClearToPost
  /\ CauseKept
  /\ PostIsAccountedFor

---------------------------------------------------------------------------------

\* Locations, files, fates and results stay within their ranges.
LEMMA TypeStep == TypeOK /\ [Next]_vars => TypeOK'
<1> SUFFICES ASSUME TypeOK, [Next]_vars PROVE TypeOK'
  OBVIOUS
<1> USE DEF TypeOK, Location, Critical, File, Fate, Outcome, Goto, Conclude
<1>1. ASSUME NEW p \in Procs, GateOpen(p) \/ GateShut(p) \/ Recheck(p) PROVE TypeOK'
  BY <1>1 DEF GateOpen, GateShut, Recheck
<1>2. ASSUME NEW p \in Procs, Acquire(p) \/ AcquireFault(p) \/ Release(p)
      PROVE TypeOK'
  BY <1>2 DEF Acquire, AcquireFault, Release
<1>3. ASSUME NEW p \in Procs, CheckPassed(p) \/ CheckRefused(p) PROVE TypeOK'
  BY <1>3 DEF CheckPassed, CheckRefused
<1>4. ASSUME NEW p \in Procs, CreateRecord(p) \/ RecordExists(p) PROVE TypeOK'
  BY <1>4 DEF CreateRecord, RecordExists
<1>5. ASSUME NEW p \in Procs, SyncRecord(p) \/ Fault(p) PROVE TypeOK'
  BY <1>5 DEF SyncRecord, Fault
<1>6. ASSUME NEW p \in Procs, Post(p) \/ BrokerDecides(p) PROVE TypeOK'
  BY <1>6 DEF Post, BrokerDecides
<1>7. ASSUME NEW p \in Procs, CreateMarker(p) \/ MarkerExists(p) PROVE TypeOK'
  BY <1>7 DEF CreateMarker, MarkerExists
<1>8. ASSUME NEW p \in Procs, SyncMarker(p) \/ MarkerFault(p) PROVE TypeOK'
  BY <1>8 DEF SyncMarker, MarkerFault
<1>9. ASSUME NEW p \in Procs, Answer(p) PROVE TypeOK'
  BY <1>9 DEF Answer, Acknowledged, Rejected, TransportFailed
<1>10. ASSUME NEW p \in Procs, Crash(p) PROVE TypeOK'
  BY <1>10 DEF Crash
<1>11. CASE UNCHANGED vars
  BY <1>11 DEF vars
<1> QED
  BY <1>1, <1>2, <1>3, <1>4, <1>5, <1>6, <1>7, <1>8, <1>9, <1>10, <1>11
  DEF Next, Local, Faulty

\* The state of the submitter keeps its shape, whatever is killed or fails.
THEOREM TypeCorrect == Spec => []TypeOK
<1>1. Init => TypeOK
  BY DEF Init, TypeOK, Location, File, Fate, Outcome
<1> QED BY <1>1, TypeStep, PTL DEF Spec

LEMMA InitIInv == Init => IInv
  BY NoneAssumption
  DEF Init, IInv, TypeOK, Location, Critical, File, Fate, Outcome, LockHeld,
      NothingEarly, ClaimExclusive, Claimed, RecordSynced, ClearToPost, CauseKept,
      PostIsAccountedFor, Posted, Early

\* Any step of any invocation, a kill or a decision of the broker included,
\* preserves the strengthened invariant.
LEMMA NextIInv == IInv /\ [Next]_vars => IInv'
<1> SUFFICES ASSUME IInv, [Next]_vars PROVE IInv'
  OBVIOUS
<1> USE NoneAssumption
    DEF IInv, TypeOK, Job, LockHeld, NothingEarly, ClaimExclusive, Claimed,
        RecordSynced, ClearToPost, CauseKept, PostIsAccountedFor,
        Posted, Early, Critical, acct, intent, HaltPresent, Goto, Conclude
<1>0. TypeOK'
  BY TypeStep
<1>1. ASSUME NEW p \in Procs, GateOpen(p) PROVE IInv'
  BY <1>0, <1>1 DEF GateOpen
<1>2. ASSUME NEW p \in Procs, GateShut(p) PROVE IInv'
  BY <1>0, <1>2 DEF GateShut
<1>3. ASSUME NEW p \in Procs, Acquire(p) PROVE IInv'
  BY <1>0, <1>3 DEF Acquire
<1>4. ASSUME NEW p \in Procs, CheckPassed(p) PROVE IInv'
  BY <1>0, <1>4 DEF CheckPassed
<1>5. ASSUME NEW p \in Procs, CheckRefused(p) PROVE IInv'
  BY <1>0, <1>5 DEF CheckRefused
<1>6. ASSUME NEW p \in Procs, CreateRecord(p) PROVE IInv'
  BY <1>0, <1>6 DEF CreateRecord
<1>7. ASSUME NEW p \in Procs, RecordExists(p) PROVE IInv'
  BY <1>0, <1>7 DEF RecordExists
<1>8. ASSUME NEW p \in Procs, SyncRecord(p) PROVE IInv'
  BY <1>0, <1>8 DEF SyncRecord
<1>9. ASSUME NEW p \in Procs, Recheck(p) PROVE IInv'
  BY <1>0, <1>9 DEF Recheck
<1>10. ASSUME NEW p \in Procs, Fault(p) PROVE IInv'
  BY <1>0, <1>10 DEF Fault
<1>11. ASSUME NEW p \in Procs, Post(p) PROVE IInv'
  BY <1>0, <1>11 DEF Post
<1>12. ASSUME NEW p \in Procs, Acknowledged(p) PROVE IInv'
  BY <1>0, <1>12 DEF Acknowledged
<1>13. ASSUME NEW p \in Procs, Rejected(p) PROVE IInv'
  BY <1>0, <1>13 DEF Rejected
<1>14. ASSUME NEW p \in Procs, TransportFailed(p) PROVE IInv'
  BY <1>0, <1>14 DEF TransportFailed
<1>15. ASSUME NEW p \in Procs, CreateMarker(p) PROVE IInv'
  BY <1>0, <1>15 DEF CreateMarker
<1>16. ASSUME NEW p \in Procs, MarkerExists(p) PROVE IInv'
  BY <1>0, <1>16 DEF MarkerExists
<1>17. ASSUME NEW p \in Procs, SyncMarker(p) PROVE IInv'
  BY <1>0, <1>17 DEF SyncMarker
<1>18. ASSUME NEW p \in Procs, MarkerFault(p) PROVE IInv'
  BY <1>0, <1>18 DEF MarkerFault
<1>19. ASSUME NEW p \in Procs, Release(p) PROVE IInv'
  BY <1>0, <1>19 DEF Release
<1>20. ASSUME NEW p \in Procs, Crash(p) PROVE IInv'
  BY <1>0, <1>20 DEF Crash
<1>21. ASSUME NEW p \in Procs, BrokerDecides(p) PROVE IInv'
  BY <1>0, <1>21 DEF BrokerDecides
<1>22. ASSUME NEW p \in Procs, AcquireFault(p) PROVE IInv'
  BY <1>0, <1>22 DEF AcquireFault
<1>23. CASE UNCHANGED vars
  BY <1>0, <1>23 DEF vars
<1> QED
  BY <1>1, <1>2, <1>3, <1>4, <1>5, <1>6, <1>7, <1>8, <1>9, <1>10, <1>11, <1>12,
     <1>13, <1>14, <1>15, <1>16, <1>17, <1>18, <1>19, <1>20, <1>21, <1>22, <1>23
  DEF Next, Local, Faulty, Answer

LEMMA Inductive == Spec => []IInv
  BY InitIInv, NextIInv, PTL DEF Spec

---------------------------------------------------------------------------------

\* _account_halt_lock: one invocation at a time between the halt check and the
\* release of an account, for any number of invocations and any kills.
THEOREM Exclusion == Spec => []MutualExclusion
<1>1. IInv => MutualExclusion
  BY DEF IInv, LockHeld, MutualExclusion
<1> QED BY <1>1, Inductive, PTL

\* The O_EXCL audit record makes a POST happen at most once per intent, across
\* accounts, processes, kills and failed writes.
THEOREM OncePerIntent == Spec => []AtMostOncePost
<1>1. IInv => AtMostOncePost
  BY DEF IInv, ClaimExclusive, Claimed, AtMostOncePost
<1> QED BY <1>1, Inductive, PTL

\* No request is on the wire without its complete audit record.
THEOREM AuditPrecedesPost == Spec => []WriteAheadAudit
<1>1. IInv => WriteAheadAudit
  BY DEF IInv, RecordSynced, WriteAheadAudit
<1> QED BY <1>1, Inductive, PTL

\* The submitter returns an acknowledgement only for an order the broker holds,
\* and a call that ended otherwise after its POST left a halt or said it could not.
THEOREM ResultsAreSound == Spec => []PostIsAccountedFor
<1>1. IInv => PostIsAccountedFor
  BY DEF IInv
<1> QED BY <1>1, Inductive, PTL

\* A POST is never made on an account that carries a halt marker, valid or
\* malformed: the halt check stays true until the request is on the wire.
THEOREM HaltBlocksPost == Spec => NoPostBehindHalt
<1> DEFINE Guarded == \A p \in Procs : PostStep(p) => marker[acct(p)] = "absent"
<1>1. IInv /\ [Next]_vars => [Guarded]_vars
  <2> SUFFICES ASSUME IInv, Next, NEW p \in Procs, PostStep(p)
               PROVE marker[acct(p)] = "absent"
    BY DEF Guarded
  <2>1. PICK q \in Procs : Post(q) \/ broker' = broker \/ BrokerDecides(q)
    BY DEF Next, Local, Faulty, Answer, GateOpen, GateShut, Acquire, AcquireFault, CheckPassed,
       CheckRefused, CreateRecord, RecordExists, SyncRecord, Recheck, Fault,
       Acknowledged, Rejected, TransportFailed, CreateMarker, MarkerExists,
       SyncMarker, MarkerFault, Release, Crash
  <2>2. Post(q) /\ q = p
    BY <2>1 DEF PostStep, Posted, Post, BrokerDecides, IInv, TypeOK
  <2> QED BY <2>2 DEF Post, Goto, IInv, ClearToPost
<1> QED BY <1>1, Inductive, PTL DEF Spec, NoPostBehindHalt

---------------------------------------------------------------------------------

\* The invocations that have a request on the wire grow by the sender of a POST,
\* and the halted accounts by the account of a marker.
LEMMA StepRefines ==
  IInv /\ [Next]_vars => [Contract!ContractNext]_(Contract!contractVars)
<1> SUFFICES ASSUME IInv, [Next]_vars
             PROVE [Contract!ContractNext]_(Contract!contractVars)
  OBVIOUS
<1> USE DEF IInv, TypeOK, Job, acct, intent, HaltPresent, Posted, Goto, Conclude,
            Contract!ContractNext, Contract!contractVars
<1> DEFINE Sent == {[sender |-> p, acct |-> acct(p), intent |-> intent(p)] :
                      p \in {q \in Procs : Posted(q)}}
           Halted == {a \in Accounts : HaltPresent(a)}
<1>1. ASSUME NEW p \in Procs, Post(p) PROVE Contract!ContractNext
  <2> DEFINE r == [sender |-> p, acct |-> acct(p), intent |-> intent(p)]
  <2>1. r \in Contract!Request
    BY DEF Contract!Request
  <2>2. \A s \in Sent : s.intent # r.intent
    BY <1>1 DEF Post, NothingEarly, Early, ClaimExclusive, Claimed
  <2>3. r.acct \notin Halted
    BY <1>1 DEF Post, ClearToPost
  <2>4. Sent' = Sent \union {r}
    BY <1>1 DEF Post
  <2>5. Halted' = Halted
    BY <1>1 DEF Post
  <2> QED BY <2>1, <2>2, <2>3, <2>4, <2>5 DEF Contract!Send
<1>2. ASSUME UNCHANGED job, UNCHANGED broker, NEW a \in Accounts,
             Halted' = Halted \/ Halted' = Halted \union {a}
      PROVE [Contract!ContractNext]_(Contract!contractVars)
  <2>1. Sent' = Sent
    BY <1>2
  <2> QED BY <1>2, <2>1 DEF Contract!Halt
<1>3. ASSUME NEW p \in Procs, BrokerDecides(p)
      PROVE UNCHANGED Contract!contractVars
  <2>1. \A q \in Procs : Posted(q)' <=> Posted(q)
    BY <1>3 DEF BrokerDecides
  <2>2. Sent' = Sent
    BY <1>3, <2>1 DEF BrokerDecides
  <2> QED BY <1>3, <2>2 DEF BrokerDecides
<1>4. ASSUME NEW p \in Procs,
             CreateMarker(p) \/ SyncMarker(p) \/ MarkerFault(p)
      PROVE [Contract!ContractNext]_(Contract!contractVars)
  <2>1. acct(p) \in Accounts
    OBVIOUS
  <2>2. Halted' = Halted \/ Halted' = Halted \union {acct(p)}
    BY <1>4 DEF CreateMarker, SyncMarker, MarkerFault
  <2> QED BY <1>2, <1>4, <2>1, <2>2 DEF CreateMarker, SyncMarker, MarkerFault
<1>5. ASSUME UNCHANGED <<job, broker, marker>>
      PROVE UNCHANGED Contract!contractVars
  BY <1>5
<1>6. CASE UNCHANGED vars
  BY <1>5, <1>6 DEF vars
<1> QED
  BY <1>1, <1>3, <1>4, <1>5, <1>6
  DEF Next, Local, Faulty, Answer, GateOpen, GateShut, Acquire, AcquireFault, CheckPassed,
      CheckRefused, CreateRecord, RecordExists, SyncRecord, Recheck, Fault,
      Acknowledged, Rejected, TransportFailed, MarkerExists, Release, Crash

\* The submitter, with its locks, files, kills and failures, implements the
\* contract: an intent goes out once, and never on a halted account.
THEOREM Implements == Spec => ImplementsContract
<1>1. Init => Contract!ContractInit
  BY DEF Init, Contract!ContractInit, Posted, HaltPresent
<1> QED
  BY <1>1, StepRefines, Inductive, PTL
  DEF Spec, ImplementsContract, Contract!ContractSpec
==================================================================================
