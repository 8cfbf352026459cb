----------------------------- MODULE MCSuiteRuns -----------------------------
(* Small instances of SuiteRuns for TLC. *)
EXTENDS SuiteRuns

CONSTANTS r1, r2

TwoRuns == {r1, r2}

(* Three selections that together are the whole catalogue, and one of a *)
(* suite that does not exist.                                           *)
SomePlans ==
    {getScenarios(suiteIds) : suiteIds \in
        {{"assignment", "allocation", "amounts", "status"},
         {"overpayment", "concurrency", "replay", "wrong_order"},
         {"authorization", "editability", "refunds", "validation"},
         {"unknown"}}}

Symmetry == Permutations(TwoRuns)

=============================================================================
