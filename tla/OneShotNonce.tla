------------------------------- MODULE OneShotNonce -------------------------------
(***************************************************************************)
(* What the durable nonce authority and the dispatch verifier promise      *)
(* together: a nonce is taken by one invocation, for good, and only the    *)
(* invocation that took it may dispatch.                                   *)
(***************************************************************************)
CONSTANTS
  Verifiers,    \* verify_and_consume invocations
  Nonces        \* nonces of operator envelopes

VARIABLES
  taken,        \* nonces taken, with the invocation each belongs to
  dispatched    \* nonces an ApprovedDispatch was returned for, with the same

oneShotVars == <<taken, dispatched>>

Claim == [by : Verifiers, nonce : Nonces]

OneShotInit == taken = {} /\ dispatched = {}

Take(c) ==
  /\ \A d \in taken : d.nonce # c.nonce
  /\ taken' = taken \union {c}
  /\ UNCHANGED dispatched

Dispatch(c) ==
  /\ c \in taken
  /\ dispatched' = dispatched \union {c}
  /\ UNCHANGED taken

OneShotNext == \E c \in Claim : Take(c) \/ Dispatch(c)

OneShotSpec == OneShotInit /\ [][OneShotNext]_oneShotVars
===================================================================================
