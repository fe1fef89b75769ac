-------------------------- MODULE MCForwardDataset --------------------------
EXTENDS ForwardDataset
CONSTANTS s1, s2
Window(a, b) == [start |-> a, end |-> b]
(* The warm-up window of day 3 and the single session of day 4. *)
WarmUpAndSession == {Window(1, 3), Window(4, 4)}
(* The warm-up windows of two signal dates. *)
TwoDates == {Window(1, 2), Window(1, 3)}
Growing == {<<s1>>, <<s1, s2>>}
Both == <<s1, s2>>
One == {<<s1>>}
=============================================================================
