-------------------------- MODULE MCForwardSignals --------------------------
(* Two symbols, one slot, three sessions, two headlines and two records. *)
EXTENDS RiskWatch

CONSTANTS sa, sb

MCSymbols == {sa, sb}
MCHeadlines == {[kind |-> "disclosure", symbol |-> sa, risky |-> TRUE],
                [kind |-> "news", symbol |-> sa, risky |-> TRUE]}
\* The names barred at `record` make the first the buy of either symbol alone, too.
MCPicks == {[buys |-> {sa, sb}, sells |-> {}], [buys |-> {sb}, sells |-> {sa}]}
MCGaps == {{}, {<<sb, 2>>}}
=============================================================================
