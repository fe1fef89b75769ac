----------------------------- MODULE MCPaperTrading -----------------------------
EXTENDS PaperTrading, TLC

\* Invocations and symbols are interchangeable; dates and amounts are not.
PaperSymmetry == Permutations(Invocations) \union Permutations(Symbols)
=================================================================================
