-------------------------- MODULE MCConnectionPool --------------------------
(* Small instances of ConnectionPool for TLC. *)
EXTENDS ConnectionPool

CONSTANTS c1, c2, c3

ThreeCallers == {c1, c2, c3}
TwoCallers == {c1, c2}
TwoConnections == 1 .. 2

(* no handler asks for a connection while it holds one *)
PlainScripts ==
    {RecordPaymentScript, CreateOrderScript, ReplaceLinesScript, DeleteOrderScript}
(* a PATCH of customer or due date does *)
RenameScripts == {RenameOrderScript}

=============================================================================
