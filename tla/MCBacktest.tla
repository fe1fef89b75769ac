------------------------------- MODULE MCBacktest -------------------------------
EXTENDS Backtest, TLC

\* No definition tells one symbol from another.
SymbolSymmetry == Permutations(Symbols)
=================================================================================
