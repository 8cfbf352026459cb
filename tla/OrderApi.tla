------------------------------- MODULE OrderApi -------------------------------
(***************************************************************************)
(* orders-service and payments-service as their callers see them: every    *)
(* request takes effect in one instant and is answered with an order and   *)
(* a status code.  Settlement.tla shows what stands behind that instant    *)
(* for payments and refunds; here it is the material that the scenarios,   *)
(* the load run and the web client are built from.                         *)
(*                                                                         *)
(* Every operation says what a request q comes to in the current state.    *)
(* Amounts are integers; ~q.valid says that q has a field no schema takes. *)
(*                                                                         *)
(* A due date is a day, and what instant that is depends on who is asked:  *)
(* o.dueIn is the time from now until it is midnight UTC of that day, and  *)
(* in a zone that is z ahead of UTC it is midnight z earlier.              *)
(***************************************************************************)
EXTENDS Integers, FiniteSets, TLC

CONSTANTS
    NoKey,      \* no Idempotency-Key header
    None,       \* a field the answer does not have
    DbZone,     \* the zone of the database's sessions, ...
    NodeZone    \* ... and of the payments-service process, ahead of UTC

ASSUME ZonesAssumption == DbZone \in Int /\ NodeZone \in Int

VARIABLES
    users,      \* the rows of auth.users
    orders,     \* orders.orders: a function from the ids that exist to orders
    rows        \* the rows of payments.payments and payments.refunds

db == <<users, orders, rows>>

-----------------------------------------------------------------------------
Max0(n) == IF n > 0 THEN n ELSE 0

(* now > dueDate, where pg has made a Date of the DATE: midnight of the    *)
(* process's own zone.                                                     *)
PastForNode(o) == o.dueIn - NodeZone < 0

(* The first rule that applies: paid, overdue, partially_paid, pending. *)
deriveOrderStatus(o) ==
    CASE o.paid >= o.total -> "paid"
      [] o.paid < o.total /\ PastForNode(o) -> "overdue"
      [] o.paid < o.total /\ ~PastForNode(o) /\ o.paid > 0 -> "partially_paid"
      [] OTHER -> "pending"

(* due_date::timestamptz < now(): midnight of the session's zone. *)
PastForDb(o) == o.dueIn - DbZone < 0

(* ORDER_STATUS_CASE_SQL, by which lists, filters and the summary go. *)
StatusSql(o) ==
    IF o.paid >= o.total THEN "paid"
    ELSE IF PastForDb(o) THEN "overdue"
    ELSE IF o.paid > 0 THEN "partially_paid" ELSE "pending"

Bare(status) ==
    [status |-> status, code |-> None, remaining |-> None, row |-> None, id |-> None,
     customer |-> None, total |-> None, paid |-> None, due |-> None, state |-> None,
     editable |-> None]

(* orders-service reads the status from the query, ... *)
serializeOrder(status, o) ==
    [Bare(status) EXCEPT !.id = o.id, !.customer = o.customer, !.total = o.total,
        !.paid = o.paid, !.due = Max0(o.total - o.paid), !.state = StatusSql(o),
        !.editable = o.paid = 0]

(* ... payments-service derives it. *)
serializeOrderSnapshot(status, o, row) ==
    [Bare(status) EXCEPT !.row = row, !.id = o.id, !.total = o.total, !.paid = o.paid,
        !.due = Max0(o.total - o.paid), !.state = deriveOrderStatus(o)]

StatusByCode ==
    [VALIDATION_ERROR |-> 400, ORDER_NOT_FOUND |-> 404,
     PAYMENT_EXCEEDS_REMAINING_BALANCE |-> 409, REFUND_EXCEEDS_AMOUNT_PAID |-> 409,
     DUPLICATE_IDEMPOTENCY_KEY |-> 409, ORDER_NOT_EDITABLE |-> 409]

ErrorOf(code, remaining) ==
    [Bare(StatusByCode[code]) EXCEPT !.code = code, !.remaining = remaining]

NotFound == ErrorOf("ORDER_NOT_FOUND", None)

(* findOrderForUser: somebody else's order does not exist for the caller.  *)
Mine(q) == q.order \in DOMAIN orders /\ orders[q.order].owner = q.user

(* The rows of q's kind that bear its key.                                 *)
(* Faulty variant: a key is looked up by order, as if it were scoped so.   *)
Prior_PerOrder(q) ==
    {e \in rows : q.key # NoKey /\ e.key = q.key /\ e.kind = q.op /\ e.order = q.order}

Prior(q) ==
    {e \in rows : q.key # NoKey /\ e.key = q.key /\ e.kind = q.op /\ e.user = q.user}

-----------------------------------------------------------------------------
(* What a request comes to: its answer, and the rows as it leaves them. *)
Outcome(res, os, rs) == [res |-> res, orders |-> os, rows |-> rs]
Only(res) == Outcome(res, orders, rows)

CreateOrder(q) ==
    LET new == [id |-> q.id, owner |-> q.user, total |-> q.amount, paid |-> 0,
                dueIn |-> q.dueIn, customer |-> q.customer]
    IN  CASE ~q.valid -> Only(ErrorOf("VALIDATION_ERROR", None))
          [] q.valid  -> Outcome(serializeOrder(201, new),
                                 [i \in DOMAIN orders \cup {q.id} |->
                                    IF i = q.id THEN new ELSE orders[i]], rows)

GetOrder(q) == Only(IF Mine(q) THEN serializeOrder(200, orders[q.order]) ELSE NotFound)

(* Line items are immutable once something is paid. *)
Frozen(q) == q.op = "lines" /\ orders[q.order].paid > 0

UpdateOrder(q) ==
    LET o == orders[q.order]
        new == IF q.op = "lines" THEN [o EXCEPT !.total = q.amount]
                                 ELSE [o EXCEPT !.customer = q.customer]
    IN  CASE ~Mine(q)  -> Only(NotFound)
          [] Mine(q) /\ Frozen(q)  -> Only(ErrorOf("ORDER_NOT_EDITABLE", None))
          [] Mine(q) /\ ~Frozen(q) ->
                 Outcome(serializeOrder(200, new), [orders EXCEPT ![q.order] = new], rows)

DeleteOrder(q) ==
    IF ~Mine(q) THEN Only(NotFound)
    ELSE IF orders[q.order].paid > 0 THEN Only(ErrorOf("ORDER_NOT_EDITABLE", None))
    ELSE Outcome(Bare(200), [i \in DOMAIN orders \ {q.order} |-> orders[i]], rows)

(* A key that is known: the row it produced, and the order as it is now. *)
Replay(q) ==
    LET e == CHOOSE f \in Prior(q) : TRUE
    IN  CASE e.order # q.order -> ErrorOf("DUPLICATE_IDEMPOTENCY_KEY", None)
          [] e.order = q.order /\ ~Mine(q) -> NotFound
          [] e.order = q.order /\ Mine(q)  ->
                 serializeOrderSnapshot(200, orders[q.order], e.id)

Room(q) ==
    LET o == orders[q.order]
    IN  IF q.op = "payment" THEN Max0(o.total - o.paid) ELSE o.paid

Exceeds(q) ==
    IF q.op = "payment" THEN ErrorOf("PAYMENT_EXCEEDS_REMAINING_BALANCE", Room(q))
                        ELSE ErrorOf("REFUND_EXCEEDS_AMOUNT_PAID", Room(q))

Accept(q) ==
    LET new == [orders[q.order] EXCEPT !.paid =
                   IF q.op = "payment" THEN @ + q.amount ELSE @ - q.amount]
    IN  Outcome(serializeOrderSnapshot(201, new, q.id), [orders EXCEPT ![q.order] = new],
                rows \cup {[kind |-> q.op, id |-> q.id, user |-> q.user,
                            order |-> q.order, amount |-> q.amount, key |-> q.key]})

(* recordPayment (q.op = "payment") and recordRefund (q.op = "refund"):    *)
(* the first check that fails is the answer.                               *)
Settle(q) ==
    IF ~q.valid \/ q.amount < 1 THEN Only(ErrorOf("VALIDATION_ERROR", None))
    ELSE IF Prior(q) # {} THEN Only(Replay(q))
    ELSE IF ~Mine(q) THEN Only(NotFound)
    ELSE IF q.amount > Room(q) THEN Only(Exceeds(q))
    ELSE Accept(q)

Handle(q) ==
    CASE q.op = "create" -> CreateOrder(q)
      [] q.op = "get" -> GetOrder(q)
      [] q.op \in {"lines", "rename"} -> UpdateOrder(q)
      [] q.op = "delete" -> DeleteOrder(q)
      [] q.op \in {"payment", "refund"} -> Settle(q)

(* The request with outcome out takes effect. *)
Apply(out) == orders' = out.orders /\ rows' = out.rows /\ UNCHANGED users

=============================================================================
