--------------------------- MODULE MCHaltRelease ---------------------------
(* Two evaluations, two challenges and two markers over two ticks: a        *)
(* request made at 0 or 1, evidence from 0 or 1, whole or not.              *)
EXTENDS HaltRelease, TLC

CONSTANTS c1, c2, m1, m2

EvaluationSymmetry == Permutations(Evaluations)
MCChallenges == {c1, c2}
MCMarkers == {m1, m2}
MCRequests == {[challenge |-> c1, marker |-> m1, submitted |-> 0, requested |-> 0],
               [challenge |-> c1, marker |-> m1, submitted |-> 0, requested |-> 1],
               [challenge |-> c2, marker |-> m1, submitted |-> 1, requested |-> 1]}
MCScopes == {[from |-> 0, to |-> 0, fillsFrom |-> 0, whole |-> TRUE],
             [from |-> 1, to |-> 1, fillsFrom |-> 0, whole |-> TRUE],
             [from |-> 0, to |-> 1, fillsFrom |-> 0, whole |-> FALSE]}
\* Genuine ones of each request over a whole scope, and one that contradicts.  One nobody
\* signed is left out: it is refused as one of another request is.
MCAttestations ==
  LET early == [from |-> 0, to |-> 0, fillsFrom |-> 0, whole |-> TRUE]
      late == [from |-> 1, to |-> 1, fillsFrom |-> 0, whole |-> TRUE]
      Genuine(r, contradicts) ==
        [request |-> r, scope |-> IF r.submitted = 0 THEN early ELSE late, signed |-> TRUE,
         contradicts |-> contradicts]
  IN {Genuine(r, FALSE) : r \in MCRequests}
     \cup {Genuine(r, TRUE) : r \in {q \in MCRequests : q.requested = 0}}
=============================================================================
