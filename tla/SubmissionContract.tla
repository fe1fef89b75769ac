--------------------------- MODULE SubmissionContract ---------------------------
(***************************************************************************)
(* What the production submitter promises, without its locks and files:    *)
(* a live order request goes out only for an intent that never went out    *)
(* before, and never on an account whose order state is halted.            *)
(***************************************************************************)
CONSTANTS
  Accounts,   \* KIS accounts sharing one audit root
  Intents,    \* canonical intent ids
  Senders     \* identities of the callers, so that a repeated send is visible

VARIABLES
  sent,       \* requests handed to the network, one record per POST
  halted      \* accounts that carry an ambiguous-order halt

contractVars == <<sent, halted>>

Request == [sender : Senders, acct : Accounts, intent : Intents]

ContractInit ==
  /\ sent = {}
  /\ halted = {}

Send(r) ==
  /\ \A s \in sent : s.intent # r.intent
  /\ r.acct \notin halted
  /\ sent' = sent \union {r}
  /\ UNCHANGED halted

Halt(a) ==
  /\ halted' = halted \union {a}
  /\ UNCHANGED sent

ContractNext ==
  \/ \E r \in Request : Send(r)
  \/ \E a \in Accounts : Halt(a)

ContractSpec == ContractInit /\ [][ContractNext]_contractVars
=================================================================================
