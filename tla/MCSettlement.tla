---------------------------- MODULE MCSettlement ----------------------------
(* Small instances of Settlement for TLC. *)
EXTENDS Settlement, FiniteSets

CONSTANTS o1, o2, r1, r2, r3, k1

TwoOrders == {o1, o2}
ThreeRequests == {r1, r2, r3}
NoOthers == {}

SomeTotals == {1, 2}
UnitAmount == {1}

(* also a header that is there but empty *)
AllHeaders == {k1, EmptyKey, NoKey}

(* Requests are interchangeable, and so are orders: Init and Next treat    *)
(* them alike.  Of all the ways to name them, one is enough: most requests *)
(* are about o1, and they stand in the order of their rank.                *)
Rank(q) ==
    (IF q.kind = "payment" THEN 0 ELSE 6) + (IF q.order = o1 THEN 0 ELSE 3)
    + CASE q.key = k1 -> 0 [] q.key = EmptyKey -> 1 [] q.key = NoKey -> 2

OneNaming ==
    /\ Cardinality({r \in Requests : req[r].order = o1}) >= 2
    /\ Rank(req[r1]) <= Rank(req[r2]) /\ Rank(req[r2]) <= Rank(req[r3])

(* Orders of 2 cents with every header, or of 1 cent and one key for all.  *)
Instance ==
    \/ \A o \in Orders : total[o] = 2
    \/ \A o \in Orders : total[o] = 1 /\ \A r \in Requests : req[r].key = k1

SmallInit == Init /\ OneNaming /\ Instance

SmallSpec == SmallInit /\ [][Next]_vars /\ Fairness

=============================================================================
