---------------------------- MODULE OrderEditing ----------------------------
(***************************************************************************)
(* orders-service creating, editing and deleting orders while              *)
(* payments-service settles them: Settlement composed with the handlers    *)
(* createOrder, updateOrder and deleteOrder on the shared database.        *)
(*                                                                         *)
(* The line items of an order are batches: all the rows one request        *)
(* inserted, with the sum of their line totals.  Postgres locks modelled:  *)
(* the row lock of an order (lock, shared with Settlement), the key-share  *)
(* lock that the foreign key of a line item takes on its order (KeyShared) *)
(* and the locks on deleted line items (doomed).  A DELETE locks all the   *)
(* line items it has seen at once.                                         *)
(***************************************************************************)
EXTENDS Settlement

CONSTANT Edits      \* requests to orders-service: the set OtherTx

ASSUME EditingAssumption == Edits = OtherTx

VARIABLES
    items,      \* items[o]: committed batches of line items
    customer,   \* customer[o]: the PATCH that last wrote customer or due date
    orderAudit, \* committed rows of orders-service's audit_logs
    op,         \* op[e]: what request e asks for
    at,         \* at[e]: the statement the request issues next
    doomed,     \* doomed[e]: line items a DELETE has seen and, later, locked
    answer      \* answer[e]: the status of the response

editing == <<items, customer, orderAudit, op, at, doomed, answer>>
settling == <<paid, ledger, audit, req, pc, newPaid, reply>>
allVars == <<vars, editing>>

-----------------------------------------------------------------------------
(* The fields of PATCH: rename is customer or dueDate, reline is lineItems *)
Op == [does : {{"rename"}, {"reline"}, {"rename", "reline"}, {"create"}, {"delete"}},
       order : Orders, cents : Totals]

(* The transaction has inserted line items of o. *)
KeyShared(o) ==
    \E e \in Edits : /\ op[e].order = o
                     /\ "reline" \in op[e].does
                     /\ at[e] \in {"total", "audit", "commit"}

(* Line items of o that another open transaction has deleted. *)
LinesLockedFor(e) ==
    \E d \in Edits \ {e} : /\ at[d] \in {"insert", "total", "audit", "commit"}
                           /\ doomed[d] \cap items[op[e].order] # {}

Logged(action, o, e) ==
    orderAudit' = orderAudit \cup {[action |-> action, order |-> o, by |-> e]}

-----------------------------------------------------------------------------
EditInit ==
    /\ Init
    /\ items = [o \in Orders |->
                  IF o \in live THEN {[by |-> None, cents |-> total[o]]} ELSE {}]
    /\ customer = [o \in Orders |-> None]
    /\ orderAudit = {[action |-> "ORDER_CREATED", order |-> o, by |-> None] : o \in live}
    /\ op \in [Edits -> Op]
    /\ at = [e \in Edits |-> "idle"]
    /\ doomed = [e \in Edits |-> {}]
    /\ answer = [e \in Edits |-> "none"]

Move(e, place) == at' = [at EXCEPT ![e] = place]

End(e, status) == Move(e, "done") /\ answer' = [answer EXCEPT ![e] = status]

(* Faulty variant: the transaction is left open. *)
Abort_KeepsLocks(e, status) ==
    /\ End(e, status)
    /\ doomed' = [doomed EXCEPT ![e] = {}]
    /\ UNCHANGED <<live, total, lock, items, customer, orderAudit, op>>

(* ROLLBACK *)
Abort(e, status) ==
    /\ End(e, status)
    /\ Release(e)
    /\ doomed' = [doomed EXCEPT ![e] = {}]
    /\ UNCHANGED <<live, total, items, customer, orderAudit, op>>

(* createOrder: the transaction inserts the order, its line items and the  *)
(* audit row under a fresh identifier, so nothing of it can be seen or     *)
(* waited for before COMMIT.                                               *)
CreateOrder(e) ==
    LET o == op[e].order IN
    /\ at[e] = "idle"
    /\ op[e].does = {"create"}
    /\ \A a \in orderAudit : a.action = "ORDER_CREATED" => a.order # o
    /\ live' = live \cup {o}
    /\ total' = [total EXCEPT ![o] = op[e].cents]
    /\ items' = [items EXCEPT ![o] = {[by |-> e, cents |-> op[e].cents]}]
    /\ Logged("ORDER_CREATED", o, e)
    /\ Move(e, "respond")
    /\ UNCHANGED <<lock, customer, op, doomed, answer>>

ReceiveEdit(e) ==
    /\ at[e] = "idle"
    /\ op[e].does # {"create"}
    /\ Move(e, "read")
    /\ UNCHANGED <<live, total, lock, items, customer, orderAudit, op, doomed, answer>>

(* The order is read and its paid amount checked, before any transaction. *)
ReadOrder(e) ==
    LET o == op[e].order IN
    /\ at[e] = "read"
    /\ \/ o \notin live /\ End(e, "not_found")
       \/ o \in live /\ paid[o] > 0 /\ op[e].does = {"delete"} /\ End(e, "not_editable")
       \/ o \in live /\ paid[o] > 0 /\ "reline" \in op[e].does /\ Move(e, "reject")
                     /\ UNCHANGED answer
       \/ /\ o \in live
          /\ paid[o] = 0 \/ op[e].does = {"rename"}
          /\ Move(e, IF op[e].does = {"delete"} THEN "delete_row"
                     ELSE IF "rename" \in op[e].does THEN "rename" ELSE "delete_lines")
          /\ UNCHANGED answer
    /\ UNCHANGED <<live, total, lock, items, customer, orderAudit, op, doomed>>

AuditEditRejection(e) ==
    /\ at[e] = "reject"
    /\ Logged("ORDER_EDIT_REJECTED", op[e].order, e)
    /\ End(e, "not_editable")
    /\ UNCHANGED <<live, total, lock, items, customer, op, doomed>>

(* updateOrderMetadata runs on the pool, not on the client of the          *)
(* transaction: it is committed as soon as it has had the row lock.        *)
UpdateMetadata(e) ==
    LET o == op[e].order IN
    /\ at[e] = "rename"
    /\ o \in live => lock[o] = None
    /\ customer' = IF o \in live THEN [customer EXCEPT ![o] = e] ELSE customer
    /\ Move(e, IF "reline" \in op[e].does THEN "delete_lines" ELSE "audit")
    /\ UNCHANGED <<live, total, lock, items, orderAudit, op, doomed, answer>>

(* replaceLineItems: DELETE sees the line items committed when it starts   *)
DeleteLines(e) ==
    /\ at[e] = "delete_lines"
    /\ doomed' = [doomed EXCEPT ![e] = items[op[e].order]]
    /\ Move(e, "deleting")
    /\ UNCHANGED <<live, total, lock, items, customer, orderAudit, op, answer>>

(* and waits for those that another transaction has deleted: when that one *)
(* commits they are gone, and what it inserted has not been seen.          *)
LockLines(e) ==
    /\ at[e] = "deleting"
    /\ ~LinesLockedFor(e) \/ doomed[e] \cap items[op[e].order] = {}
    /\ doomed' = [doomed EXCEPT ![e] = @ \cap items[op[e].order]]
    /\ Move(e, "insert")
    /\ UNCHANGED <<live, total, lock, items, customer, orderAudit, op, answer>>

(* Faulty variant: no foreign key. *)
InsertLines_NoForeignKey(e) ==
    /\ at[e] = "insert"
    /\ Move(e, "total")
    /\ UNCHANGED <<live, total, lock, items, customer, orderAudit, op, doomed, answer>>

(* INSERT of the new line items: the foreign key waits for a transaction   *)
(* that is deleting the order, and fails when the order is gone.           *)
InsertLines(e) ==
    LET o == op[e].order IN
    /\ at[e] = "insert"
    /\ \/ o \notin live /\ Abort(e, "error")
       \/ /\ o \in live
          /\ ~\E d \in Edits : lock[o] = d /\ at[d] = "cascade"
          /\ Move(e, "total")
          /\ UNCHANGED <<live, total, lock, items, customer, orderAudit, op, doomed, answer>>

(* Faulty variant: no CHECK. *)
SetTotal_NoCheck(e) ==
    LET o == op[e].order IN
    /\ at[e] = "total"
    /\ lock[o] = None
    /\ lock' = [lock EXCEPT ![o] = e]
    /\ Move(e, "audit")
    /\ UNCHANGED <<live, total, items, customer, orderAudit, op, doomed, answer>>

(* UPDATE orders SET total_cents: no guard but CHECK paid_not_over_total. *)
SetTotal(e) ==
    LET o == op[e].order IN
    /\ at[e] = "total"
    /\ lock[o] = None
    /\ \/ paid[o] > op[e].cents /\ Abort(e, "error")
       \/ /\ paid[o] <= op[e].cents
          /\ lock' = [lock EXCEPT ![o] = e]
          /\ Move(e, "audit")
          /\ UNCHANGED <<live, total, items, customer, orderAudit, op, doomed, answer>>

AuditUpdate(e) ==
    /\ at[e] = "audit"
    /\ Move(e, "commit")
    /\ UNCHANGED <<live, total, lock, items, customer, orderAudit, op, doomed, answer>>

(* Faulty variant: the transaction commits without its audit row. *)
CommitEdit_NoAudit(e) ==
    LET o == op[e].order IN
    /\ at[e] = "commit"
    /\ IF "reline" \in op[e].does
       THEN /\ total' = [total EXCEPT ![o] = op[e].cents]
            /\ items' = [items EXCEPT ![o] =
                           (@ \ doomed[e]) \cup {[by |-> e, cents |-> op[e].cents]}]
       ELSE UNCHANGED <<total, items>>
    /\ Release(e)
    /\ doomed' = [doomed EXCEPT ![e] = {}]
    /\ Move(e, "respond")
    /\ UNCHANGED <<live, customer, orderAudit, op, answer>>

CommitEdit(e) ==
    LET o == op[e].order IN
    /\ at[e] = "commit"
    /\ IF "reline" \in op[e].does
       THEN /\ total' = [total EXCEPT ![o] = op[e].cents]
            /\ items' = [items EXCEPT ![o] =
                           (@ \ doomed[e]) \cup {[by |-> e, cents |-> op[e].cents]}]
       ELSE UNCHANGED <<total, items>>
    /\ Logged("ORDER_UPDATED", o, e)
    /\ Release(e)
    /\ doomed' = [doomed EXCEPT ![e] = {}]
    /\ Move(e, "respond")
    /\ UNCHANGED <<live, customer, op, answer>>

(* The order is read again for the response; `updated!` and `fullOrder!`   *)
(* take for granted that it is still there.                                *)
Respond(e) ==
    /\ at[e] = "respond"
    /\ End(e, IF op[e].order \in live THEN "ok" ELSE "error")
    /\ UNCHANGED <<live, total, lock, items, customer, orderAudit, op, doomed>>

(* DELETE FROM orders by id: the paid amount is not looked at again. *)
DeleteRow(e) ==
    LET o == op[e].order IN
    /\ at[e] = "delete_row"
    /\ \/ o \notin live /\ Move(e, "audit_delete") /\ UNCHANGED lock
       \/ /\ o \in live
          /\ lock[o] = None
          /\ ~KeyShared(o)
          /\ lock' = [lock EXCEPT ![o] = e]
          /\ Move(e, "cascade")
    /\ UNCHANGED <<live, total, items, customer, orderAudit, op, doomed, answer>>

(* ON DELETE CASCADE takes the line items; the statement commits. *)
CascadeDelete(e) ==
    LET o == op[e].order IN
    /\ at[e] = "cascade"
    /\ ~LinesLockedFor(e)
    /\ live' = live \ {o}
    /\ items' = [items EXCEPT ![o] = {}]
    /\ Release(e)
    /\ Move(e, "audit_delete")
    /\ UNCHANGED <<total, customer, orderAudit, op, doomed, answer>>

(* rowCount is ignored; the audit row is written after the fact. *)
AuditDelete(e) ==
    /\ at[e] = "audit_delete"
    /\ Logged("ORDER_DELETED", op[e].order, e)
    /\ End(e, "ok")
    /\ UNCHANGED <<live, total, lock, items, customer, op, doomed>>

(* e waits to insert for d, which waits for the line items e has deleted:  *)
(* Postgres aborts one of them.                                            *)
BreakDeadlock(e, d) ==
    /\ at[e] = "insert" /\ at[d] = "cascade"
    /\ lock[op[e].order] = d
    /\ doomed[e] # {}
    /\ Abort(e, "error") \/ Abort(d, "error")

FailEdit(e) ==
    /\ at[e] \notin {"idle", "done"}
    /\ Abort(e, "lost")

UpdateOrder(e) ==
    \/ UpdateMetadata(e) \/ DeleteLines(e) \/ LockLines(e) \/ InsertLines(e)
    \/ SetTotal(e) \/ AuditUpdate(e) \/ CommitEdit(e)

DeleteOrder(e) == DeleteRow(e) \/ CascadeDelete(e) \/ AuditDelete(e)

ProceedEdit(e) ==
    /\ \/ ReadOrder(e) \/ AuditEditRejection(e) \/ Respond(e)
       \/ UpdateOrder(e) \/ DeleteOrder(e)
       \/ \E d \in Edits : BreakDeadlock(e, d)
    /\ UNCHANGED settling

EditStep(e) ==
    \/ (CreateOrder(e) \/ ReceiveEdit(e) \/ FailEdit(e)) /\ UNCHANGED settling
    \/ ProceedEdit(e)

SettlementStep(r) ==
    (RecordPayment(r) \/ RecordRefund(r) \/ Fail(r)) /\ UNCHANGED editing

(* Nothing is under way: what has arrived is answered. *)
AllQuiet ==
    /\ \A r \in Requests : pc[r] = "done"
    /\ \A e \in Edits : at[e] = "done" \/ (at[e] = "idle" /\ op[e].does = {"create"})
    /\ UNCHANGED allVars

EditNext ==
    \/ \E r \in Requests : SettlementStep(r)
    \/ \E e \in Edits : EditStep(e)
    \/ AllQuiet

EditSpec == EditInit /\ [][EditNext]_allVars

(* As in Settlement; Postgres breaks a deadlock after deadlock_timeout. *)
EditFairSpec ==
    /\ EditSpec
    /\ \A r \in Requests : WF_allVars((Proceed(r) \/ AuditRejection(r)) /\ UNCHANGED editing)
    /\ \A e \in Edits : WF_allVars(ProceedEdit(e))

-----------------------------------------------------------------------------
(* Whatever edits race with payments, an order that exists owes no less    *)
(* than nothing (the row lock and paid_not_over_total stop an edit that    *)
(* was decided on an outdated paid amount from going below what is paid),  *)
(* and its aggregate is the running balance of its payments and refunds.   *)
OrderBalance ==
    /\ \A o \in live : 0 <= paid[o] /\ paid[o] <= total[o]
    /\ BalanceChain

(* Line items belong to an order that exists, and an order that exists has *)
(* some: an edit and a deletion that race leave neither orphans nor an     *)
(* order without lines.                                                    *)
LinesHaveOrder == \A o \in Orders : o \in live <=> items[o] # {}

(* An edit that was answered 200 has its ORDER_UPDATED record, one that    *)
(* was turned down has none: the audit shares the transaction.             *)
EditAudited ==
    \A e \in Edits :
        op[e].does \notin {{"create"}, {"delete"}} =>
            LET logged == [action |-> "ORDER_UPDATED", order |-> op[e].order, by |-> e]
                             \in orderAudit
            IN  /\ answer[e] = "ok" => logged
                /\ answer[e] \in {"not_found", "not_editable"} => ~logged

(* Every request to either service is answered: no cycle of waits on order *)
(* rows, line items and keys outlives Postgres' deadlock detection.        *)
EditsAnswered ==
    /\ \A e \in Edits : at[e] # "idle" ~> at[e] = "done"
    /\ \A r \in Requests : pc[r] # "idle" ~> pc[r] = "done"

(* `Once a payment exists, financial fields become immutable`: the line    *)
(* items of an order do not change while its paid amount is above zero.    *)
LinesFrozenOncePaid ==
    [][\A o \in live \cap live' : items'[o] # items[o] => paid[o] = 0]_allVars

=============================================================================
