------------------------------ MODULE PositionLimit ------------------------------
(* The maximum number of concurrent positions, as apply_guardrails enforces   *)
(* it for whoever calls it: the paper run with the account it last saved, the *)
(* signal runner with the portfolio given to it.                              *)
EXTENDS Integers, FiniteSets

CONSTANTS
  Symbols,       \* symbols of the brief
  MaxPositions   \* GuardrailConfig.max_positions

ASSUME SymbolsAssumption == IsFiniteSet(Symbols)
ASSUME PositionsAssumption == MaxPositions \in Nat \ {0}

NotNegative(n) == IF n > 0 THEN n ELSE 0

\* Mutant: the slots that are taken already are forgotten.
FreeSlotsOfBook(held, sells) == MaxPositions

\* A SELL frees its slot when it is admitted, whether or not it fills.
FreeSlots(held, sells) == NotNegative(MaxPositions - Cardinality(held \ sells))
==================================================================================
