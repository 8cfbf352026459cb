----------------------------- MODULE Settlement -----------------------------
(***************************************************************************)
(* payments-service: recordPayment and recordRefund against the row of the *)
(* order they settle.                                                      *)
(*                                                                         *)
(* One action per statement sent to Postgres, because every statement is   *)
(* an await at which any other request may run.  The database is READ      *)
(* COMMITTED: a statement sees the rows committed when it starts, an       *)
(* UPDATE of a row that another transaction has updated waits for that     *)
(* transaction and then evaluates its WHERE clause again, and the INSERT   *)
(* of a key that another transaction has inserted waits in the same way.   *)
(* What a transaction has written is published by Commit in one step; what *)
(* it has written so far follows from where it is (pc).                    *)
(*                                                                         *)
(* One user: every query is restricted to the caller's user_id and the     *)
(* unique indexes are per user, so requests of two users never meet.       *)
(***************************************************************************)
EXTENDS Integers, Sequences, Functions

CONSTANTS
    Orders,     \* order identifiers a request may name
    Requests,   \* requests, each sent once (a retry is another request)
    OtherTx,    \* transactions of other services that lock order rows
    Totals,     \* order totals in cents
    Amounts,    \* amounts in cents
    Headers,    \* values of the Idempotency-Key header
    NoKey,      \* the header is absent: idempotencyKey is null
    EmptyKey,   \* the header is present and empty: falsy, but not null
    None        \* no transaction, no row

ASSUME SettlementAssumption ==
    /\ Totals \subseteq Nat
    /\ Amounts \subseteq Nat \ {0}
    /\ None \notin Requests \cup OtherTx
    /\ Requests \cap OtherTx = {}

VARIABLES
    live,       \* the rows of orders.orders
    total,      \* total[o]: total_cents, as committed
    paid,       \* paid[o]: paid_amount_cents, as committed
    lock,       \* lock[o]: the transaction that holds the row lock
    ledger,     \* ledger[o]: committed rows of payments and refunds, in commit order
    audit,      \* committed audit rows
    req,        \* req[r]: the request's kind, order, amount and key
    pc,         \* pc[r]: the statement the request issues next
    newPaid,    \* newPaid[r]: paid_amount_cents RETURNED to an open transaction
    reply       \* reply[r]: the answer, as far as it is decided

orderRow == <<live, total>>
vars == <<live, total, paid, lock, ledger, audit, req, pc, newPaid, reply>>

-----------------------------------------------------------------------------
Request == [kind : {"payment", "refund"}, order : Orders,
            amount : Amounts, key : Headers]

(* PaymentRow, RefundRow and the newPaidAmountCents of their audit record *)
Row == [id : Requests, kind : {"payment", "refund"}, order : Orders,
        amount : Amounts, key : Headers, paid : Int]

AuditRow == [action : {"PAYMENT_RECORDED", "PAYMENT_REFUNDED", "PAYMENT_REJECTED"},
             id : Requests]

Steps == {"idle", "lookup", "begin", "update", "blocked", "reread", "insert",
          "audit", "commit", "answer", "relookup", "replay", "reject", "done"}

Statuses == {"none", "recorded", "replayed", "exceeds", "not_found",
             "duplicate_key", "error", "lost"}

(* row: the row shown to the caller; room: maxAllowedAmount of a 409 *)
Reply == [status : Statuses, row : Requests \cup {None}, room : Nat]

Says(status, row, room) == [status |-> status, row |-> row, room |-> room]

(* `if (idempotencyKey)` is false for null and for the empty string. *)
Truthy(k) == k \notin {NoKey, EmptyKey}

(* The partial unique indexes: WHERE idempotency_key IS NOT NULL. *)
SameKey(q, s) == q.kind = s.kind /\ q.key = s.key /\ q.key # NoKey

Rows == UNION {Range(ledger[o]) : o \in Orders}

(* The committed row that find...ByIdempotencyKey returns for q. *)
RowsOf(q) == {e \in Rows : SameKey(q, e)}

(* paid + amount <= total, or paid - amount >= 0: the predicate of the     *)
(* guarded UPDATE, and what validatePaymentAmount and validateRefundAmount *)
(* ask of the snapshot.                                                    *)
Fits(q, p, t) ==
    IF q.kind = "payment" THEN p + q.amount <= t ELSE q.amount <= p

Effect(q, p) == IF q.kind = "payment" THEN p + q.amount ELSE p - q.amount

(* remainingCents or paidCents of the error, Math.max(..., 0) *)
Room(q, p, t) ==
    LET left == IF q.kind = "payment" THEN t - p ELSE p
    IN  IF left > 0 THEN left ELSE 0

-----------------------------------------------------------------------------
Init ==
    /\ live \in SUBSET Orders
    /\ total \in [Orders -> Totals]
    /\ paid = [o \in Orders |-> 0]
    /\ lock = [o \in Orders |-> None]
    /\ ledger = [o \in Orders |-> <<>>]
    /\ audit = {}
    /\ req \in [Requests -> Request]
    /\ pc = [r \in Requests |-> "idle"]
    /\ newPaid = [r \in Requests |-> 0]
    /\ reply = [r \in Requests |-> Says("none", None, 0)]

GoTo(r, step) == pc' = [pc EXCEPT ![r] = step]

Answer(r, says) == reply' = [reply EXCEPT ![r] = says]

(* COMMIT and ROLLBACK give up the row locks of the transaction. *)
Release(r) == lock' = [o \in Orders |-> IF lock[o] = r THEN None ELSE lock[o]]

(* A 409: a payment has its rejection audited, a refund has not. *)
TurnDown(r, room) ==
    /\ Answer(r, Says("exceeds", None, room))
    /\ GoTo(r, IF req[r].kind = "payment" THEN "reject" ELSE "done")

(* Faulty variant: the guarded UPDATE is sent on the pool, not on the      *)
(* client, and its row lock ends with the statement.                       *)
TakeRow_OnPool(r) ==
    /\ newPaid' = [newPaid EXCEPT ![r] = Effect(req[r], paid[req[r].order])]
    /\ GoTo(r, "insert")
    /\ UNCHANGED lock

(* The order fits the request: the row is locked and updated. *)
TakeRow(r) ==
    LET o == req[r].order IN
    /\ lock' = [lock EXCEPT ![o] = r]
    /\ newPaid' = [newPaid EXCEPT ![r] = Effect(req[r], paid[o])]
    /\ GoTo(r, "insert")

(* Faulty variant: the UPDATE without its balance predicate. *)
Matches_Unguarded(r) == req[r].order \in live

Matches(r) ==
    LET o == req[r].order IN o \in live /\ Fits(req[r], paid[o], total[o])

Receive(r) ==
    /\ pc[r] = "idle"
    /\ GoTo(r, IF Truthy(req[r].key) THEN "lookup" ELSE "begin")
    /\ UNCHANGED <<orderRow, paid, lock, ledger, audit, req, newPaid, reply>>

(* Faulty variant: the row itself is kept, not its identifier. *)
Lookup_WholeRow(r) ==
    /\ pc[r] = "lookup"
    /\ \/ RowsOf(req[r]) = {} /\ GoTo(r, "begin") /\ UNCHANGED reply
       \/ \E e \in RowsOf(req[r]) : Answer(r, Says("none", e, 0)) /\ GoTo(r, "replay")
    /\ UNCHANGED <<orderRow, paid, lock, ledger, audit, req, newPaid>>

(* The lookup before the transaction. *)
Lookup(r) ==
    /\ pc[r] = "lookup"
    /\ \/ /\ RowsOf(req[r]) = {}
          /\ GoTo(r, "begin")
          /\ UNCHANGED reply
       \/ \E e \in RowsOf(req[r]) :
             /\ Answer(r, Says("none", e.id, 0))
             /\ GoTo(r, "replay")
    /\ UNCHANGED <<orderRow, paid, lock, ledger, audit, req, newPaid>>

(* BEGIN, the snapshot of the order and the checks made on it. *)
Snapshot(r) ==
    LET o == req[r].order IN
    /\ pc[r] = "begin"
    /\ \/ /\ o \notin live
          /\ Answer(r, Says("not_found", None, 0))
          /\ GoTo(r, "done")
       \/ /\ o \in live
          /\ ~Fits(req[r], paid[o], total[o])
          /\ TurnDown(r, Room(req[r], paid[o], total[o]))
       \/ /\ Matches(r)
          /\ GoTo(r, "update")
          /\ UNCHANGED reply
    /\ UNCHANGED <<orderRow, paid, lock, ledger, audit, req, newPaid>>

(* The guarded UPDATE on the row as the statement first sees it. *)
Update(r) ==
    LET o == req[r].order IN
    /\ pc[r] = "update"
    /\ \/ Matches(r) /\ lock[o] = None /\ TakeRow(r)
       \/ Matches(r) /\ lock[o] # None /\ GoTo(r, "blocked") /\ UNCHANGED <<lock, newPaid>>
       \/ ~Matches(r) /\ GoTo(r, "reread") /\ UNCHANGED <<lock, newPaid>>
    /\ UNCHANGED <<orderRow, paid, ledger, audit, req, reply>>

(* The holder is gone: the WHERE clause is evaluated on the new version of *)
(* the row, which Postgres locks before it does so and keeps locked.       *)
Unblock(r) ==
    LET o == req[r].order IN
    /\ pc[r] = "blocked"
    /\ lock[o] = None
    /\ \/ Matches(r) /\ TakeRow(r)
       \/ /\ ~Matches(r)
          /\ lock' = IF o \in live THEN [lock EXCEPT ![o] = r] ELSE lock
          /\ GoTo(r, "reread")
          /\ UNCHANGED newPaid
    /\ UNCHANGED <<orderRow, paid, ledger, audit, req, reply>>

(* Faulty variant: the transaction is not rolled back. *)
Reread_KeepsLock(r) ==
    LET o == req[r].order IN
    /\ pc[r] = "reread"
    /\ IF o \in live
       THEN TurnDown(r, Room(req[r], paid[o], total[o]))
       ELSE Answer(r, Says("not_found", None, 0)) /\ GoTo(r, "done")
    /\ UNCHANGED <<orderRow, paid, lock, ledger, audit, req, newPaid>>

(* No row was updated: read the order again for the error, ROLLBACK. *)
Reread(r) ==
    LET o == req[r].order IN
    /\ pc[r] = "reread"
    /\ IF o \in live
       THEN TurnDown(r, Room(req[r], paid[o], total[o]))
       ELSE Answer(r, Says("not_found", None, 0)) /\ GoTo(r, "done")
    /\ Release(r)
    /\ UNCHANGED <<orderRow, paid, ledger, audit, req, newPaid>>

(* A row with the key of r that another open transaction has inserted. *)
KeyInFlight(r) ==
    \E s \in Requests \ {r} : pc[s] \in {"audit", "commit"} /\ SameKey(req[r], req[s])

(* Faulty variants: no unique index; 23505 commits the order row; 23505 is *)
(* not caught.                                                             *)
Insert_NoIndex(r) ==
    /\ pc[r] = "insert"
    /\ GoTo(r, "audit")
    /\ UNCHANGED <<orderRow, paid, lock, ledger, audit, req, newPaid, reply>>

Insert_CommitsOnConflict(r) ==
    /\ pc[r] = "insert"
    /\ ~KeyInFlight(r)
    /\ IF RowsOf(req[r]) = {}
       THEN GoTo(r, "audit") /\ UNCHANGED <<lock, paid>>
       ELSE /\ paid' = [paid EXCEPT ![req[r].order] = newPaid[r]]
            /\ Release(r)
            /\ GoTo(r, "relookup")
    /\ UNCHANGED <<orderRow, ledger, audit, req, newPaid, reply>>

Insert_NotCaught(r) ==
    /\ pc[r] = "insert"
    /\ ~KeyInFlight(r)
    /\ IF RowsOf(req[r]) = {}
       THEN GoTo(r, "audit") /\ UNCHANGED <<lock, reply>>
       ELSE Release(r) /\ GoTo(r, "done") /\ Answer(r, Says("error", None, 0))
    /\ UNCHANGED <<orderRow, paid, ledger, audit, req, newPaid>>

(* The INSERT: it waits while the key is in flight, fails with 23505 and   *)
(* rolls back once it is taken, and succeeds otherwise.                    *)
Insert(r) ==
    /\ pc[r] = "insert"
    /\ ~KeyInFlight(r)
    /\ \/ /\ RowsOf(req[r]) = {}
          /\ GoTo(r, "audit")
          /\ UNCHANGED <<lock, reply>>
       \/ /\ RowsOf(req[r]) # {}
          /\ Release(r)
          /\ IF Truthy(req[r].key)
             THEN GoTo(r, "relookup") /\ UNCHANGED reply
             ELSE GoTo(r, "done") /\ Answer(r, Says("error", None, 0))
    /\ UNCHANGED <<orderRow, paid, ledger, audit, req, newPaid>>

(* Faulty variants: the audit row is written on the pool; the answer is    *)
(* sent before COMMIT.                                                     *)
WriteAudit_OnPool(r) ==
    /\ pc[r] = "audit"
    /\ audit' = audit \cup
         {[action |-> IF req[r].kind = "payment" THEN "PAYMENT_RECORDED"
                      ELSE "PAYMENT_REFUNDED", id |-> r]}
    /\ GoTo(r, "commit")
    /\ UNCHANGED <<orderRow, paid, lock, ledger, req, newPaid, reply>>

WriteAudit_AnswersEarly(r) ==
    /\ pc[r] = "audit"
    /\ Answer(r, Says("recorded", r, 0))
    /\ GoTo(r, "commit")
    /\ UNCHANGED <<orderRow, paid, lock, ledger, audit, req, newPaid>>

(* writeAudit on the client of the transaction *)
WriteAudit(r) ==
    /\ pc[r] = "audit"
    /\ GoTo(r, "commit")
    /\ UNCHANGED <<orderRow, paid, lock, ledger, audit, req, newPaid, reply>>

(* COMMIT publishes the order row, the payment or refund, and its audit. *)
Commit(r) ==
    LET q == req[r] IN
    /\ pc[r] = "commit"
    /\ paid' = [paid EXCEPT ![q.order] = newPaid[r]]
    /\ ledger' = [ledger EXCEPT ![q.order] = Append(@,
                    [id |-> r, kind |-> q.kind, order |-> q.order,
                     amount |-> q.amount, key |-> q.key, paid |-> newPaid[r]])]
    /\ audit' = audit \cup
         {[action |-> IF q.kind = "payment" THEN "PAYMENT_RECORDED" ELSE "PAYMENT_REFUNDED",
           id |-> r]}
    /\ Release(r)
    /\ GoTo(r, "answer")
    /\ UNCHANGED <<orderRow, req, newPaid, reply>>

(* 201 *)
Confirm(r) ==
    /\ pc[r] = "answer"
    /\ Answer(r, Says("recorded", r, 0))
    /\ GoTo(r, "done")
    /\ UNCHANGED <<orderRow, paid, lock, ledger, audit, req, newPaid>>

(* After 23505: fetch the row of the request that won; without one the     *)
(* error is thrown again.                                                  *)
Relookup(r) ==
    /\ pc[r] = "relookup"
    /\ IF RowsOf(req[r]) = {}
       THEN Answer(r, Says("error", None, 0)) /\ GoTo(r, "done")
       ELSE \E e \in RowsOf(req[r]) :
               Answer(r, Says("none", e.id, 0)) /\ GoTo(r, "replay")
    /\ UNCHANGED <<orderRow, paid, lock, ledger, audit, req, newPaid>>

(* Faulty variant: the order of the row that was found is not compared. *)
Replay_AnyOrder(r) ==
    /\ pc[r] = "replay"
    /\ Answer(r, IF req[r].order \notin live THEN Says("not_found", None, 0)
                 ELSE Says("replayed", reply[r].row, 0))
    /\ GoTo(r, "done")
    /\ UNCHANGED <<orderRow, paid, lock, ledger, audit, req, newPaid>>

(* buildIdempotentReplayResult for the row that was found *)
Replay(r) ==
    LET found == reply[r].row
        other == \E e \in Rows : e.id = found /\ e.order # req[r].order
    IN
    /\ pc[r] = "replay"
    /\ Answer(r, IF other THEN Says("duplicate_key", None, 0)
                 ELSE IF req[r].order \notin live THEN Says("not_found", None, 0)
                 ELSE Says("replayed", found, 0))
    /\ GoTo(r, "done")
    /\ UNCHANGED <<orderRow, paid, lock, ledger, audit, req, newPaid>>

(* The audit of a rejected payment, outside the transaction. *)
AuditRejection(r) ==
    /\ pc[r] = "reject"
    /\ audit' = audit \cup {[action |-> "PAYMENT_REJECTED", id |-> r]}
    /\ GoTo(r, "done")
    /\ UNCHANGED <<orderRow, paid, lock, ledger, req, newPaid, reply>>

(* A query rejects or the process dies: the open transaction is rolled     *)
(* back and no answer (or only a 500) reaches the caller.                  *)
Fail(r) ==
    /\ pc[r] \notin {"idle", "done"}
    /\ Release(r)
    /\ Answer(r, Says("lost", None, 0))
    /\ GoTo(r, "done")
    /\ UNCHANGED <<orderRow, paid, ledger, audit, req, newPaid>>

Proceed(r) ==
    \/ Lookup(r) \/ Snapshot(r) \/ Update(r) \/ Unblock(r) \/ Reread(r)
    \/ Insert(r) \/ WriteAudit(r) \/ Commit(r) \/ Confirm(r)
    \/ Relookup(r) \/ Replay(r)

RecordPayment(r) ==
    /\ req[r].kind = "payment"
    /\ Receive(r) \/ Proceed(r) \/ AuditRejection(r)

RecordRefund(r) ==
    /\ req[r].kind = "refund"
    /\ Receive(r) \/ Proceed(r)

(* Every request is answered: the service is idle. *)
Quiescent == (\A r \in Requests : pc[r] = "done") /\ UNCHANGED vars

Next ==
    \/ \E r \in Requests : RecordPayment(r) \/ RecordRefund(r) \/ Fail(r)
    \/ Quiescent

Spec == Init /\ [][Next]_vars

(* A statement that can run does run; arrivals and failures are not fair. *)
Fairness == \A r \in Requests : WF_vars(Proceed(r) \/ AuditRejection(r))

FairSpec == Spec /\ Fairness

-----------------------------------------------------------------------------
TypeOK ==
    /\ live \in SUBSET Orders
    /\ total \in [Orders -> Nat]
    /\ paid \in [Orders -> Int]
    /\ lock \in [Orders -> Requests \cup OtherTx \cup {None}]
    /\ ledger \in [Orders -> Seq(Row)]
    /\ audit \in SUBSET AuditRow
    /\ req \in [Requests -> Request]
    /\ pc \in [Requests -> Steps]
    /\ newPaid \in [Requests -> Int]
    /\ reply \in [Requests -> Reply]

(* Invariant 1 of the services (totalPaid <= orderTotal), and its mirror:  *)
(* whatever payments and refunds race, the net paid amount stays between   *)
(* zero and the order's total.  The guard is in the two UPDATE statements. *)
PaidWithinTotal == \A o \in Orders : 0 <= paid[o] /\ paid[o] <= total[o]

BalanceBefore(o, i) == IF i = 1 THEN 0 ELSE ledger[o][i - 1].paid

(* The paid amount of an order is what its rows come to: the               *)
(* newPaidAmountCents of each row follows from that of the row committed   *)
(* before it, and the last one is what the order row says.                 *)
BalanceChain ==
    \A o \in Orders :
        /\ paid[o] = BalanceBefore(o, Len(ledger[o]) + 1)
        /\ \A i \in 1 .. Len(ledger[o]) :
               ledger[o][i].paid = Effect(ledger[o][i], BalanceBefore(o, i))

(* A key produces at most one payment and at most one refund, even when    *)
(* its retries run at the same time and name different orders.             *)
OneRowPerKey ==
    \A e, f \in Rows : SameKey(e, f) => e = f

(* What a caller is told is so: 201 means its row is committed, 200 shows  *)
(* a committed row of the same key and order, and an error answer means    *)
(* that the request changed nothing.                                       *)
AnswersTrue ==
    \A r \in Requests :
        LET done == \E e \in Rows : e.id = r IN
        CASE reply[r].status = "recorded" -> done
          [] reply[r].status = "replayed" ->
                /\ ~done
                /\ \E e \in RowsOf(req[r]) :
                      e.id = reply[r].row /\ e.order = req[r].order
          [] reply[r].status \in {"exceeds", "not_found", "duplicate_key", "error"} -> ~done
          [] OTHER -> TRUE

(* Every committed row has its audit record and every audit record of a    *)
(* settlement its row (they share the transaction); a request that is      *)
(* audited as rejected has no row.                                         *)
AuditTrail ==
    /\ \A e \in Rows :
          [action |-> IF e.kind = "payment" THEN "PAYMENT_RECORDED" ELSE "PAYMENT_REFUNDED",
           id |-> e.id] \in audit
    /\ \A a \in audit :
          (\E e \in Rows : e.id = a.id) <=> a.action # "PAYMENT_REJECTED"

(* A lost race is never an internal error: whoever runs into the unique    *)
(* index finds the row that won.  The exception is the empty key, which    *)
(* the index enforces and the lookup ignores.                              *)
LostRaceIsReplayed ==
    \A r \in Requests : reply[r].status = "error" => req[r].key = EmptyKey

(* Between its guarded UPDATE and its COMMIT a transaction holds the row   *)
(* lock, and the amount it was RETURNED is still right: nobody else can    *)
(* have moved the balance it is about to publish.                          *)
StagedIsCurrent ==
    \A r \in Requests :
        pc[r] \in {"insert", "audit", "commit"} =>
            LET o == req[r].order IN
            /\ lock[o] = r
            /\ newPaid[r] = Effect(req[r], paid[o])
            /\ Fits(req[r], paid[o], total[o])

(* Payments and refunds are append-only, and the aggregate moves only in   *)
(* the step that appends the row which explains it.                        *)
AppendOnly ==
    [][\A o \in Orders :
          \/ UNCHANGED <<ledger[o], paid[o]>>
          \/ LET n == Len(ledger[o]) + 1 IN
             /\ Len(ledger'[o]) = n
             /\ ledger'[o] = Append(ledger[o], ledger'[o][n])
             /\ paid'[o] = ledger'[o][n].paid]_vars

(* Every request the service has received is answered, whatever locks and  *)
(* keys it has to wait for.                                                *)
AllAnswered == \A r \in Requests : pc[r] # "idle" ~> pc[r] = "done"

-----------------------------------------------------------------------------
(* Refinement: a request takes effect when its COMMIT is applied and is    *)
(* turned down at the statement that finds the amount does not fit.        *)
Outcome(r) ==
    IF \E e \in Rows : e.id = r THEN "accepted"
    ELSE CASE pc[r] = "idle" -> "idle"
           [] pc[r] \in {"reread", "reject"} -> "rejected"
           [] pc[r] = "done" ->
                 CASE reply[r].status = "exceeds" -> "rejected"
                   [] reply[r].status \in {"not_found", "duplicate_key"} -> "refused"
                   [] OTHER -> reply[r].status
           [] OTHER -> "pending"

Promise == INSTANCE Ledger WITH outcome <- [r \in Requests |-> Outcome(r)]

(* However its statements interleave, the service is the atomic ledger. *)
ImplementsLedger == Promise!Spec

=============================================================================
