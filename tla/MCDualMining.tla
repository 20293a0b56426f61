---------------------------- MODULE MCDualMining ----------------------------
(* Small instances of DualMining: what Pool A and Pool B send.             *)
EXTENDS DualMining

Both(a, b) == [p \in Pools |-> IF p = "A" THEN a ELSE b]
Bound(t, s, e) ==
    [templates |-> t, sessions |-> s, extranonces |-> e]

Turns       == Bound(Both(1, 2), Both(1, 1), Both(1, 1))
FloodB      == Bound(Both(0, 3), Both(0, 1), Both(0, 1))
FloodA      == Bound(Both(3, 0), Both(1, 0), Both(1, 0))
Swaps       == Bound(Both(1, 1), Both(1, 1), Both(2, 2))
Mixed       == {Turns, FloodB, FloodA, Swaps}
Reconnects  == {Bound(Both(1, 1), Both(2, 2), Both(1, 1))}
=============================================================================
