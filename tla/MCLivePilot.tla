------------------------------- MODULE MCLivePilot -------------------------------
EXTENDS LivePilot, TLC

\* One order a day, or two small ones.
MCLimits == {[orders |-> 1, notional |-> 2], [orders |-> 2, notional |-> 2]}

MCIntent(signalDay, action, units) ==
  [signal |-> signalDay, side |-> action, size |-> units]

\* Every way to start a run, both sides, both sizes, an old and a new signal.
MCJobs ==
  {[intent |-> MCIntent(1, "BUY", 1), via |-> "autonomous"],
   [intent |-> MCIntent(1, "BUY", 2), via |-> "autonomous"],
   [intent |-> MCIntent(2, "SELL", 1), via |-> "autonomous"],
   [intent |-> MCIntent(1, "BUY", 1), via |-> "decision"],
   [intent |-> MCIntent(1, "SELL", 1), via |-> "submit"]}

RunSymmetry == Permutations(Runs)
==================================================================================
