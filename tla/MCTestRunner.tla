---------------------------- MODULE MCTestRunner ----------------------------
(* Small instances of TestRunner for TLC: s1 and l1 are runs whose tab stays *)
(* open; the others run side by side and nobody watches them.               *)
EXTENDS TestRunner

CONSTANTS s1, s2, l1, l2, l3

TwoSuites == {s1, s2}
ThreeLoads == {l1, l2, l3}
ScenarioCounts == s1 :> 2 @@ s2 :> 1
ProgressCounts == l1 :> 1 @@ l2 :> 0 @@ l3 :> 0
SomeCasts == {<<{s1}, {s1}>>, <<{l1}, {l1}>>, <<{s2, l2}, {}>>, <<{l2, l3}, {}>>}
=============================================================================
