--------------------------- MODULE MCOrderEditing ---------------------------
(* Small instances of OrderEditing for TLC. *)
EXTENDS OrderEditing

CONSTANTS o1, r1, e1, e2

OneOrder == {o1}
OneRequest == {r1}
OneEdit == {e1}
TwoEdits == {e1, e2}

SomeTotals == {1, 2}
UnitAmount == {1}
LargeAmount == {2}
NoKeys == {NoKey}

=============================================================================
