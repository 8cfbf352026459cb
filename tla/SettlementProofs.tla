-------------------------- MODULE SettlementProofs --------------------------
(***************************************************************************)
(* Theorems of Settlement for every set of orders, requests, totals,       *)
(* amounts and keys: balances and keys are right, what the callers are     *)
(* told is true, the audit is complete, and the handlers implement the     *)
(* atomic Ledger.                                                          *)
(***************************************************************************)
EXTENDS OrderEditing, TLAPS

Open == {"insert", "audit", "commit"}

-----------------------------------------------------------------------------
(* Amounts are whole positive numbers of cents. *)
LEMMA AmountPositive ==
    ASSUME NEW a \in Amounts
    PROVE  a \in Nat /\ a > 0
  BY SettlementAssumption

(* Effect of one request on a balance it fits: the balance stays between   *)
(* zero and the total, and is an integer in any case.                      *)
LEMMA EffectInRange ==
    ASSUME NEW q \in Request, NEW p \in Int, NEW t \in Nat
    PROVE  /\ Effect(q, p) \in Int
           /\ Fits(q, p, t) /\ 0 <= p /\ p <= t =>
                 0 <= Effect(q, p) /\ Effect(q, p) <= t
           /\ Room(q, p, t) \in Nat
  <1>1. q.kind \in {"payment", "refund"} /\ q.amount \in Amounts
    BY DEF Request
  <1>2. q.amount \in Nat /\ q.amount > 0
    BY <1>1, AmountPositive
  <1>3. QED
    BY <1>1, <1>2 DEF Effect, Fits, Room

(* The answers the handlers give are replies. *)
LEMMA RepliesTyped ==
    ASSUME NEW status \in Statuses, NEW row \in Requests \cup {None}, NEW room \in Nat
    PROVE  Says(status, row, room) \in Reply
  BY DEF Says, Reply

(* An answer of the right shape keeps the reply table typed. *)
LEMMA AnswerTyped ==
    ASSUME NEW r \in Requests, reply \in [Requests -> Reply],
           NEW status \in Statuses, NEW row \in Requests \cup {None}, NEW room \in Nat,
           Answer(r, Says(status, row, room))
    PROVE  reply' \in [Requests -> Reply]
  BY RepliesTyped DEF Answer

(* The rows that a lookup can find are typed. *)
LEMMA RowsTyped ==
    ASSUME ledger \in [Orders -> Seq(Row)]
    PROVE  Rows \subseteq Row
  <1> SUFFICES ASSUME NEW o \in Orders, NEW i \in DOMAIN ledger[o]
               PROVE  ledger[o][i] \in Row
    BY DEF Rows, Range
  <1>1. ledger[o] \in Seq(Row)
    OBVIOUS
  <1>2. QED
    BY <1>1

-----------------------------------------------------------------------------
(* Every step keeps the variables typed. *)
LEMMA TypeKept ==
    ASSUME TypeOK, [Next]_vars
    PROVE  TypeOK'
  <1>1. CASE UNCHANGED vars
    BY <1>1 DEF TypeOK, vars
  <1>2. ASSUME NEW r \in Requests, Receive(r)
        PROVE  TypeOK'
    BY <1>2 DEF TypeOK, Receive, GoTo, Steps, orderRow
  <1>3. ASSUME NEW r \in Requests, Lookup(r)
        PROVE  TypeOK'
    <2>1. \A e \in RowsOf(req[r]) : e.id \in Requests
      BY RowsTyped DEF TypeOK, RowsOf, Row
    <2>2. reply' \in [Requests -> Reply]
      <3>1. ASSUME NEW e \in RowsOf(req[r]), Answer(r, Says("none", e.id, 0))
            PROVE  reply' \in [Requests -> Reply]
        BY <2>1, <3>1, AnswerTyped DEF TypeOK, Statuses
      <3>2. QED
        BY <1>3, <3>1 DEF Lookup, TypeOK
    <2>3. QED
      BY <1>3, <2>2 DEF TypeOK, Lookup, GoTo, Steps, orderRow
  <1>4. ASSUME NEW r \in Requests, Snapshot(r)
        PROVE  TypeOK'
    <2>1. /\ req[r] \in Request /\ req[r].order \in Orders
          /\ Room(req[r], paid[req[r].order], total[req[r].order]) \in Nat
      BY EffectInRange DEF TypeOK, Request
    <2>2. reply' \in [Requests -> Reply]
      BY <1>4, <2>1 DEF TypeOK, Snapshot, TurnDown, Answer, Reply, Says, Statuses
    <2>3. QED
      BY <1>4, <2>2 DEF TypeOK, Snapshot, TurnDown, GoTo, Steps, orderRow
  <1>5. ASSUME NEW r \in Requests, Update(r)
        PROVE  TypeOK'
    <2>1. /\ req[r] \in Request /\ req[r].order \in Orders
          /\ Effect(req[r], paid[req[r].order]) \in Int
      BY EffectInRange DEF TypeOK, Request
    <2>2. newPaid' \in [Requests -> Int]
      BY <1>5, <2>1 DEF TypeOK, Update, TakeRow
    <2>3. lock' \in [Orders -> Requests \cup OtherTx \cup {None}]
      BY <1>5, <2>1 DEF TypeOK, Update, TakeRow
    <2>4. pc' \in [Requests -> Steps]
      BY <1>5 DEF TypeOK, Update, TakeRow, GoTo, Steps
    <2>5. QED
      BY <1>5, <2>2, <2>3, <2>4 DEF TypeOK, Update, orderRow
  <1>6. ASSUME NEW r \in Requests, Unblock(r)
        PROVE  TypeOK'
    <2>1. /\ req[r] \in Request /\ req[r].order \in Orders
          /\ Effect(req[r], paid[req[r].order]) \in Int
      BY EffectInRange DEF TypeOK, Request
    <2>2. newPaid' \in [Requests -> Int]
      BY <1>6, <2>1 DEF TypeOK, Unblock, TakeRow
    <2>3. lock' \in [Orders -> Requests \cup OtherTx \cup {None}]
      BY <1>6, <2>1 DEF TypeOK, Unblock, TakeRow
    <2>4. pc' \in [Requests -> Steps]
      BY <1>6 DEF TypeOK, Unblock, TakeRow, GoTo, Steps
    <2>5. QED
      BY <1>6, <2>2, <2>3, <2>4 DEF TypeOK, Unblock, orderRow
  <1>7. ASSUME NEW r \in Requests, Reread(r)
        PROVE  TypeOK'
    <2>1. /\ req[r] \in Request /\ req[r].order \in Orders
          /\ Room(req[r], paid[req[r].order], total[req[r].order]) \in Nat
      BY EffectInRange DEF TypeOK, Request
    <2>2. reply' \in [Requests -> Reply]
      <3> DEFINE o == req[r].order
      <3>1. CASE Answer(r, Says("exceeds", None, Room(req[r], paid[o], total[o])))
        BY <2>1, <3>1, AnswerTyped DEF TypeOK, Statuses
      <3>2. CASE Answer(r, Says("not_found", None, 0))
        BY <3>2, AnswerTyped DEF TypeOK, Statuses
      <3>3. QED
        BY <1>7, <3>1, <3>2 DEF Reread, TurnDown
    <2>3. QED
      BY <1>7, <2>2 DEF TypeOK, Reread, TurnDown, Release, GoTo, Steps, orderRow
  <1>8. ASSUME NEW r \in Requests, Insert(r)
        PROVE  TypeOK'
    <2>1. reply' \in [Requests -> Reply]
      <3>1. CASE Answer(r, Says("error", None, 0))
        BY <3>1, AnswerTyped DEF TypeOK, Statuses
      <3>2. CASE UNCHANGED reply
        BY <3>2 DEF TypeOK
      <3>3. QED
        BY <1>8, <3>1, <3>2 DEF Insert
    <2>2. QED
      BY <1>8, <2>1 DEF TypeOK, Insert, Release, GoTo, Steps, orderRow
  <1>9. ASSUME NEW r \in Requests, WriteAudit(r)
        PROVE  TypeOK'
    BY <1>9 DEF TypeOK, WriteAudit, GoTo, Steps, orderRow
  <1>10. ASSUME NEW r \in Requests, Commit(r)
         PROVE  TypeOK'
    <2>1. req[r] \in Request /\ req[r].order \in Orders
      BY DEF TypeOK, Request
    <2>2. ledger' \in [Orders -> Seq(Row)]
      <3> DEFINE q == req[r]
                 row == [id |-> r, kind |-> q.kind, order |-> q.order,
                         amount |-> q.amount, key |-> q.key, paid |-> newPaid[r]]
      <3>1. row \in Row
        BY <2>1 DEF TypeOK, Row, Request
      <3>2. ledger' = [ledger EXCEPT ![q.order] = Append(@, row)]
        BY <1>10 DEF Commit
      <3> HIDE DEF row
      <3>3. \A o \in Orders : Append(ledger[o], row) \in Seq(Row)
        BY <3>1 DEF TypeOK
      <3>4. QED
        BY <2>1, <3>2, <3>3 DEF TypeOK
    <2>3. audit' \in SUBSET AuditRow
      BY <1>10 DEF TypeOK, Commit, AuditRow
    <2>4. QED
      BY <1>10, <2>1, <2>2, <2>3 DEF TypeOK, Commit, Release, GoTo, Steps, orderRow
  <1>11. ASSUME NEW r \in Requests, Confirm(r)
         PROVE  TypeOK'
    <2>1. reply' \in [Requests -> Reply]
      BY <1>11 DEF TypeOK, Confirm, Answer, Reply, Says, Statuses
    <2>2. QED
      BY <1>11, <2>1 DEF TypeOK, Confirm, GoTo, Steps, orderRow
  <1>12. ASSUME NEW r \in Requests, Relookup(r)
         PROVE  TypeOK'
    <2>1. \A e \in RowsOf(req[r]) : e.id \in Requests
      BY RowsTyped DEF TypeOK, RowsOf, Row
    <2>2. reply' \in [Requests -> Reply]
      <3>1. ASSUME NEW e \in RowsOf(req[r]), Answer(r, Says("none", e.id, 0))
            PROVE  reply' \in [Requests -> Reply]
        BY <2>1, <3>1, AnswerTyped DEF TypeOK, Statuses
      <3>2. CASE Answer(r, Says("error", None, 0))
        BY <3>2, AnswerTyped DEF TypeOK, Statuses
      <3>3. QED
        BY <1>12, <3>1, <3>2 DEF Relookup
    <2>3. QED
      BY <1>12, <2>2 DEF TypeOK, Relookup, GoTo, Steps, orderRow
  <1>13. ASSUME NEW r \in Requests, Replay(r)
         PROVE  TypeOK'
    <2>1. reply[r].row \in Requests \cup {None}
      BY DEF TypeOK, Reply
    <2>2. reply' \in [Requests -> Reply]
      BY <1>13, <2>1, RepliesTyped DEF TypeOK, Replay, Answer, Statuses
    <2>3. QED
      BY <1>13, <2>2 DEF TypeOK, Replay, GoTo, Steps, orderRow
  <1>14. ASSUME NEW r \in Requests, AuditRejection(r)
         PROVE  TypeOK'
    <2>1. audit' \in SUBSET AuditRow
      BY <1>14 DEF TypeOK, AuditRejection, AuditRow
    <2>2. QED
      BY <1>14, <2>1 DEF TypeOK, AuditRejection, GoTo, Steps, orderRow
  <1>15. ASSUME NEW r \in Requests, Fail(r)
         PROVE  TypeOK'
    <2>1. reply' \in [Requests -> Reply]
      BY <1>15 DEF TypeOK, Fail, Answer, Reply, Says, Statuses
    <2>2. QED
      BY <1>15, <2>1 DEF TypeOK, Fail, Release, GoTo, Steps, orderRow
  <1>16. QED
    BY <1>1, <1>2, <1>3, <1>4, <1>5, <1>6, <1>7, <1>8, <1>9, <1>10, <1>11,
       <1>12, <1>13, <1>14, <1>15
    DEF Next, RecordPayment, RecordRefund, Proceed, Quiescent

(* No request has arrived: the variables are typed. *)
LEMMA InitTyped ==
    ASSUME Init
    PROVE  TypeOK
  <1>1. total \in [Orders -> Nat]
    BY SettlementAssumption DEF Init
  <1>2. reply \in [Requests -> Reply]
    BY RepliesTyped DEF Init, Statuses
  <1>3. ledger \in [Orders -> Seq(Row)]
    BY DEF Init
  <1>4. QED
    BY <1>1, <1>2, <1>3 DEF Init, TypeOK, Steps

(* Type correctness. *)
THEOREM TypeCorrect == Spec => []TypeOK
  <1>1. Init => TypeOK
    BY InitTyped
  <1>2. TypeOK /\ [Next]_vars => TypeOK'
    BY TypeKept
  <1>3. QED
    BY <1>1, <1>2, PTL DEF Spec

-----------------------------------------------------------------------------
(* Only a COMMIT moves a balance or appends a row, and no request changes  *)
(* an order's total or what another request asked for.                     *)
LEMMA OnlyCommitMoves ==
    ASSUME [Next]_vars
    PROVE  /\ UNCHANGED <<live, total, req>>
           /\ UNCHANGED <<paid, ledger>> \/ \E r \in Requests : Commit(r)
  <1>1. CASE UNCHANGED vars
    BY <1>1 DEF vars
  <1>2. ASSUME NEW r \in Requests, Receive(r) \/ Proceed(r) \/ AuditRejection(r) \/ Fail(r)
        PROVE  /\ UNCHANGED <<live, total, req>>
               /\ UNCHANGED <<paid, ledger>> \/ Commit(r)
    BY <1>2 DEF Proceed, orderRow, Receive, Lookup, Snapshot, Update, Unblock, Reread,
                Insert, WriteAudit, Commit, Confirm, Relookup, Replay,
                AuditRejection, Fail
  <1>3. QED
    BY <1>1, <1>2 DEF Next, RecordPayment, RecordRefund, Quiescent

(* The step of a request leaves the locks of the others alone. *)
LEMMA LocksOfOthers ==
    ASSUME TypeOK, NEW r \in Requests,
           Receive(r) \/ Proceed(r) \/ AuditRejection(r) \/ Fail(r),
           NEW s \in Requests, s # r
    PROVE  /\ pc'[s] = pc[s] /\ newPaid'[s] = newPaid[s]
           /\ \A o \in Orders : lock[o] = s => lock'[o] = s
  <1>1. None # s
    BY SettlementAssumption
  <1>2. QED
    BY <1>1 DEF TypeOK, Proceed, GoTo, TakeRow, TurnDown, Release,
       Receive, Lookup, Snapshot, Update, Unblock, Reread, Insert, WriteAudit,
       Commit, Confirm, Relookup, Replay, AuditRejection, Fail

(* A transaction between its guarded UPDATE and its COMMIT holds the row   *)
(* lock, and its staged balance is the committed one plus its effect.      *)
LEMMA StagedStays ==
    ASSUME TypeOK, StagedIsCurrent, [Next]_vars
    PROVE  StagedIsCurrent'
  <1> SUFFICES ASSUME NEW s \in Requests, pc'[s] \in Open
               PROVE  LET o == req'[s].order IN
                      /\ lock'[o] = s
                      /\ newPaid'[s] = Effect(req'[s], paid'[o])
                      /\ Fits(req'[s], paid'[o], total'[o])
    BY DEF StagedIsCurrent, Open
  <1> DEFINE o == req[s].order
  <1>1. req' = req /\ total' = total /\ o \in Orders
    BY OnlyCommitMoves DEF TypeOK, Request
  <1>2. CASE UNCHANGED vars
    BY <1>2 DEF vars, StagedIsCurrent, Open
  <1>3. ASSUME NEW r \in Requests, r # s,
               Receive(r) \/ Proceed(r) \/ AuditRejection(r) \/ Fail(r)
        PROVE  /\ lock'[o] = s
               /\ newPaid'[s] = Effect(req[s], paid'[o])
               /\ Fits(req[s], paid'[o], total[o])
    <2>1. pc[s] \in Open /\ lock[o] = s /\ lock'[o] = s /\ newPaid'[s] = newPaid[s]
      BY <1>1, <1>3, LocksOfOthers DEF StagedIsCurrent, Open
    <2>2. paid'[o] = paid[o]
      <3>1. CASE Commit(r)
        <4>1. lock[req[r].order] = r
          BY <3>1 DEF Commit, StagedIsCurrent
        <4>2. req[r].order # o
          BY <4>1, <2>1, <1>3
        <4>3. QED
          BY <3>1, <4>2, <1>1 DEF Commit, TypeOK
      <3>2. CASE ~Commit(r)
        BY <1>3, <3>2 DEF Proceed, Receive, Lookup, Snapshot, Update, Unblock,
           Reread, Insert, WriteAudit, Confirm, Relookup, Replay, AuditRejection, Fail
      <3>3. QED
        BY <3>1, <3>2
    <2>3. QED
      BY <2>1, <2>2 DEF StagedIsCurrent, Open
  <1>4. ASSUME Receive(s) \/ Proceed(s) \/ AuditRejection(s) \/ Fail(s)
        PROVE  /\ lock'[o] = s
               /\ newPaid'[s] = Effect(req[s], paid'[o])
               /\ Fits(req[s], paid'[o], total[o])
    <2>1. CASE Update(s) \/ Unblock(s)
      BY <1>1, <2>1 DEF Update, Unblock, TakeRow, Matches, GoTo, TypeOK, Open
    <2>2. CASE Insert(s) \/ WriteAudit(s)
      BY <1>1, <2>2 DEF Insert, WriteAudit, GoTo, TypeOK, Open, StagedIsCurrent
    <2>3. CASE Receive(s) \/ Lookup(s) \/ Snapshot(s) \/ Reread(s) \/ Commit(s) \/ Confirm(s)
               \/ Relookup(s) \/ Replay(s) \/ AuditRejection(s) \/ Fail(s)
      BY <2>3 DEF Receive, Lookup, Snapshot, Reread, TurnDown, Commit, Confirm,
         Relookup, Replay, AuditRejection, Fail, GoTo, TypeOK, Open
    <2>4. QED
      BY <1>4, <2>1, <2>2, <2>3 DEF Proceed
  <1>5. QED
    BY <1>1, <1>2, <1>3, <1>4 DEF Next, RecordPayment, RecordRefund, Quiescent

(* What the invariance of the balance rests on. *)
BalanceInv == PaidWithinTotal /\ BalanceChain /\ StagedIsCurrent

(* COMMIT keeps the balance in range and the chain of balances unbroken.   *)
LEMMA CommitKeepsBalance ==
    ASSUME TypeOK, BalanceInv, NEW r \in Requests, Commit(r)
    PROVE  PaidWithinTotal' /\ BalanceChain'
  <1> DEFINE q == req[r]
             row == [id |-> r, kind |-> q.kind, order |-> q.order,
                     amount |-> q.amount, key |-> q.key, paid |-> newPaid[r]]
  <1>1. q \in Request /\ q.order \in Orders
    BY DEF TypeOK, Request
  <1>2. newPaid[r] = Effect(q, paid[q.order]) /\ Fits(q, paid[q.order], total[q.order])
    BY DEF BalanceInv, StagedIsCurrent, Commit
  <1>3. /\ paid' = [paid EXCEPT ![q.order] = newPaid[r]]
        /\ ledger' = [ledger EXCEPT ![q.order] = Append(@, row)]
        /\ total' = total
    BY DEF Commit, orderRow
  <1>4. row.paid = newPaid[r] /\ Effect(row, paid[q.order]) = Effect(q, paid[q.order])
    BY DEF Effect
  <1>5. PaidWithinTotal'
    <2>1. 0 <= newPaid[r] /\ newPaid[r] <= total[q.order]
      BY <1>1, <1>2, EffectInRange DEF BalanceInv, PaidWithinTotal, TypeOK
    <2>2. QED
      BY <1>1, <1>3, <2>1 DEF BalanceInv, PaidWithinTotal, TypeOK
  <1> HIDE DEF row
  <1>6. BalanceChain'
    <2> SUFFICES ASSUME NEW o \in Orders
                 PROVE  /\ paid'[o] = BalanceBefore(o, Len(ledger[o]) + 1)'
                        /\ \A i \in 1 .. Len(ledger'[o]) :
                              ledger'[o][i].paid = Effect(ledger'[o][i], BalanceBefore(o, i)')
      BY DEF BalanceChain
    <2>1. CASE o # q.order
      <3>1. ledger'[o] = ledger[o] /\ paid'[o] = paid[o]
        BY <1>1, <1>3, <2>1 DEF TypeOK
      <3>2. QED
        BY <3>1 DEF BalanceInv, BalanceChain, BalanceBefore
    <2>2. CASE o = q.order
      <3> DEFINE L == ledger[o]
                 n == Len(L)
      <3>1. L \in Seq(Row) /\ n \in Nat
        BY DEF TypeOK
      <3>2. ledger'[o] = Append(L, row) /\ paid'[o] = row.paid
        BY <1>1, <1>3, <1>4, <2>2 DEF TypeOK
      <3>3. /\ Len(ledger'[o]) = n + 1
            /\ ledger'[o][n + 1] = row
            /\ \A i \in 1 .. n : ledger'[o][i] = L[i]
        <4>1. PICK M \in Seq(Row), x \in {row} : M = L /\ x = row
          BY <3>1
        <4>2. /\ Len(Append(M, x)) = Len(M) + 1
              /\ Append(M, x)[Len(M) + 1] = x
              /\ \A i \in 1 .. Len(M) : Append(M, x)[i] = M[i]
          OBVIOUS
        <4>3. QED
          BY <3>2, <4>1, <4>2
      <3>4. \A i \in 1 .. n + 1 : BalanceBefore(o, i)' = BalanceBefore(o, i)
        <4>1. TAKE i \in 1 .. n + 1
        <4>2. CASE i = 1
          BY <4>2 DEF BalanceBefore
        <4>3. CASE i # 1
          <5>1. i - 1 \in 1 .. n
            BY <3>1, <4>3
          <5>2. ledger'[o][i - 1] = ledger[o][i - 1]
            BY <3>3, <5>1
          <5>3. QED
            BY <4>3, <5>2 DEF BalanceBefore
        <4>4. QED
          BY <4>2, <4>3
      <3>5. BalanceBefore(o, Len(ledger[o]) + 1)' = row.paid
        BY <3>1, <3>3 DEF BalanceBefore
      <3>6. row.paid = Effect(row, BalanceBefore(o, n + 1))
        BY <1>2, <1>4, <2>2 DEF BalanceInv, BalanceChain
      <3>7. paid'[o] = BalanceBefore(o, Len(ledger[o]) + 1)'
        BY <3>2, <3>5
      <3>8. ASSUME NEW i \in 1 .. Len(ledger'[o])
            PROVE  ledger'[o][i].paid = Effect(ledger'[o][i], BalanceBefore(o, i)')
        <4>1. CASE i \in 1 .. n
          BY <4>1, <3>1, <3>3, <3>4 DEF BalanceInv, BalanceChain
        <4>2. CASE i = n + 1
          BY <4>2, <3>1, <3>3, <3>4, <3>6
        <4>3. QED
          BY <3>1, <3>3, <4>1, <4>2
      <3>9. QED
        BY <3>7, <3>8
    <2>3. QED
      BY <2>1, <2>2
  <1>7. QED
    BY <1>5, <1>6

(* Every step keeps the balances. *)
LEMMA BalanceKept ==
    ASSUME TypeOK, BalanceInv, [Next]_vars
    PROVE  BalanceInv'
  <1>1. StagedIsCurrent'
    BY StagedStays DEF BalanceInv
  <1>2. PaidWithinTotal' /\ BalanceChain'
    <2>1. CASE UNCHANGED <<paid, ledger>>
      BY <2>1, OnlyCommitMoves
      DEF BalanceInv, PaidWithinTotal, BalanceChain, BalanceBefore
    <2>2. CASE \E r \in Requests : Commit(r)
      BY <2>2, CommitKeepsBalance
    <2>3. QED
      BY <2>1, <2>2, OnlyCommitMoves
  <1>3. QED
    BY <1>1, <1>2 DEF BalanceInv

(* Nothing is paid yet: the balances are right. *)
LEMMA InitBalanced ==
    ASSUME Init
    PROVE  BalanceInv
  <1>1. PaidWithinTotal
    <2>1. total \in [Orders -> Nat]
      BY SettlementAssumption DEF Init
    <2>2. QED
      BY <2>1 DEF Init, PaidWithinTotal
  <1>2. BalanceChain
    BY DEF Init, BalanceChain, BalanceBefore
  <1>3. StagedIsCurrent
    BY DEF Init, StagedIsCurrent
  <1>4. QED
    BY <1>1, <1>2, <1>3 DEF BalanceInv

(* However payments and refunds interleave, wait or fail: 0 <= paid <=     *)
(* total, the stored balance is the running balance of the committed rows, *)
(* and a staged balance is never stale.                                    *)
THEOREM BalanceSafe == Spec => []BalanceInv
  <1>1. Init => BalanceInv
    BY InitBalanced
  <1>2. TypeOK /\ BalanceInv /\ [Next]_vars => BalanceInv'
    BY BalanceKept
  <1>3. QED
    BY <1>1, <1>2, TypeCorrect, PTL DEF Spec

(* PaidWithinTotal for every instance: no interleaving of payments and     *)
(* refunds overpays an order or refunds more than was paid.                *)
THEOREM NeverOverpaid == Spec => []PaidWithinTotal
  BY BalanceSafe, PTL DEF BalanceInv

(* BalanceChain for every instance: paid_amount_cents is the running       *)
(* balance of the committed payments and refunds.                          *)
THEOREM BalanceIsLedger == Spec => []BalanceChain
  BY BalanceSafe, PTL DEF BalanceInv

(* StagedIsCurrent for every instance: the row lock protects the staged    *)
(* balance from the guarded UPDATE to the COMMIT.                          *)
THEOREM NoStaleCommit == Spec => []StagedIsCurrent
  BY BalanceSafe, PTL DEF BalanceInv

(* AppendOnly for every instance: rows are only ever appended, each with   *)
(* the move of the balance that it explains.                               *)
THEOREM LedgerAppendOnly == Spec => AppendOnly
  <1> DEFINE Step(o) ==
        \/ UNCHANGED <<ledger[o], paid[o]>>
        \/ LET n == Len(ledger[o]) + 1 IN
           /\ Len(ledger'[o]) = n
           /\ ledger'[o] = Append(ledger[o], ledger'[o][n])
           /\ paid'[o] = ledger'[o][n].paid
  <1>1. TypeOK /\ [Next]_vars => [\A o \in Orders : Step(o)]_vars
    <2> SUFFICES ASSUME TypeOK, [Next]_vars, NEW o \in Orders
                 PROVE  Step(o)
      OBVIOUS
    <2>1. CASE UNCHANGED <<paid, ledger>>
      BY <2>1
    <2>2. ASSUME NEW r \in Requests, Commit(r)
          PROVE  Step(o)
      <3> DEFINE q == req[r]
                 row == [id |-> r, kind |-> q.kind, order |-> q.order,
                         amount |-> q.amount, key |-> q.key, paid |-> newPaid[r]]
      <3>1. /\ q.order \in Orders
            /\ paid' = [paid EXCEPT ![q.order] = newPaid[r]]
            /\ ledger' = [ledger EXCEPT ![q.order] = Append(@, row)]
            /\ row.paid = newPaid[r]
        BY <2>2 DEF Commit, TypeOK, Request
      <3>2. ledger[o] \in Seq(Row)
        BY DEF TypeOK
      <3> HIDE DEF row
      <3>3. CASE o = q.order
        <4>1. ledger'[o] = Append(ledger[o], row) /\ paid'[o] = row.paid
          BY <3>1, <3>3 DEF TypeOK
        <4>2. /\ Append(ledger[o], row)[Len(ledger[o]) + 1] = row
              /\ Len(Append(ledger[o], row)) = Len(ledger[o]) + 1
          BY <3>2
        <4>3. QED
          BY <4>1, <4>2
      <3>4. CASE o # q.order
        BY <3>1, <3>4 DEF TypeOK
      <3>5. QED
        BY <3>3, <3>4
    <2>3. QED
      BY <2>1, <2>2, OnlyCommitMoves
  <1>2. QED
    BY <1>1, TypeCorrect, PTL DEF Spec, AppendOnly

-----------------------------------------------------------------------------
InFlight == {"audit", "commit"}

(* A key whose row is inserted but not committed is used by no committed   *)
(* row and by no other open transaction.                                   *)
KeyReserved ==
    \A r \in Requests :
        pc[r] \in InFlight =>
            /\ \A e \in Rows : ~SameKey(req[r], e)
            /\ \A s \in Requests \ {r} : pc[s] \in InFlight => ~SameKey(req[r], req[s])

(* COMMIT adds one row to the tables. *)
LEMMA CommitAddsRow ==
    ASSUME TypeOK, NEW r \in Requests, Commit(r)
    PROVE  \A e \in Rows' : \/ e \in Rows
                            \/ e = [id |-> r, kind |-> req[r].kind, order |-> req[r].order,
                                    amount |-> req[r].amount, key |-> req[r].key,
                                    paid |-> newPaid[r]]
  <1> DEFINE q == req[r]
             row == [id |-> r, kind |-> q.kind, order |-> q.order,
                     amount |-> q.amount, key |-> q.key, paid |-> newPaid[r]]
  <1>1. q.order \in Orders /\ ledger' = [ledger EXCEPT ![q.order] = Append(@, row)]
    BY DEF Commit, TypeOK, Request
  <1> HIDE DEF row
  <1>2. SUFFICES ASSUME NEW o \in Orders, NEW i \in DOMAIN ledger'[o]
                 PROVE  ledger'[o][i] \in Rows \/ ledger'[o][i] = row
    BY DEF Rows, Range, row
  <1>3. ledger[o] \in Seq(Row)
    BY DEF TypeOK
  <1>4. ledger'[o] = ledger[o] \/ ledger'[o] = Append(ledger[o], row)
    BY <1>1 DEF TypeOK
  <1>5. ledger'[o][i] = row \/ (i \in DOMAIN ledger[o] /\ ledger'[o][i] = ledger[o][i])
    BY <1>3, <1>4
  <1>6. QED
    BY <1>5 DEF Rows, Range

(* The waiting INSERT keeps keys apart until COMMIT, so the rows that are  *)
(* committed have different keys.                                          *)
LEMMA KeysApart == Spec => [](OneRowPerKey /\ KeyReserved)
  <1>1. Init => OneRowPerKey /\ KeyReserved
    BY DEF Init, OneRowPerKey, KeyReserved, Rows, Range, InFlight
  <1>2. TypeOK /\ OneRowPerKey /\ KeyReserved /\ [Next]_vars
          => OneRowPerKey' /\ KeyReserved'
    <2> SUFFICES ASSUME TypeOK, OneRowPerKey, KeyReserved, [Next]_vars
                 PROVE  OneRowPerKey' /\ KeyReserved'
      OBVIOUS
    <2>1. req' = req
      BY OnlyCommitMoves
    <2>2. CASE UNCHANGED vars
      BY <2>2 DEF vars, OneRowPerKey, KeyReserved, Rows
    <2>3. ASSUME NEW r \in Requests, Commit(r)
          PROVE  OneRowPerKey' /\ KeyReserved'
      <3> DEFINE q == req[r]
                 row == [id |-> r, kind |-> q.kind, order |-> q.order,
                         amount |-> q.amount, key |-> q.key, paid |-> newPaid[r]]
      <3>1. /\ pc[r] \in InFlight /\ pc' = [pc EXCEPT ![r] = "answer"]
            /\ row.kind = q.kind /\ row.key = q.key
        BY <2>3 DEF Commit, GoTo, InFlight
      <3>2. \A e \in Rows' : e \in Rows \/ e = row
        BY <2>3, CommitAddsRow
      <3> HIDE DEF row
      <3>3. \A e \in Rows : ~SameKey(q, e)
        BY <3>1 DEF KeyReserved
      <3>4. OneRowPerKey'
        BY <3>1, <3>2, <3>3 DEF OneRowPerKey, SameKey
      <3>5. ASSUME NEW s \in Requests, pc'[s] \in InFlight
            PROVE  s # r /\ pc[s] \in InFlight
        BY <3>1, <3>5 DEF InFlight, TypeOK
      <3>6. \A s \in Requests : pc'[s] \in InFlight => ~SameKey(req[s], q)
        BY <3>1, <3>5 DEF KeyReserved
      <3>7. KeyReserved'
        BY <2>1, <3>1, <3>2, <3>5, <3>6 DEF KeyReserved, SameKey
      <3>8. QED
        BY <3>4, <3>7
    <2>4. ASSUME NEW r \in Requests, UNCHANGED ledger,
                 Receive(r) \/ Proceed(r) \/ AuditRejection(r) \/ Fail(r)
          PROVE  OneRowPerKey' /\ KeyReserved'
      <3>1. Rows' = Rows
        BY <2>4 DEF Rows
      <3>2. \A s \in Requests : s # r => pc'[s] = pc[s]
        BY <2>4, LocksOfOthers
      <3>3. pc'[r] \in InFlight =>
              \/ pc[r] \in InFlight
              \/ /\ \A e \in Rows : ~SameKey(req[r], e)
                 /\ \A s \in Requests \ {r} : pc[s] \in InFlight => ~SameKey(req[r], req[s])
        BY <2>4 DEF TypeOK, Proceed, GoTo, TakeRow, TurnDown, InFlight, KeyInFlight, RowsOf,
           Receive, Lookup, Snapshot, Update, Unblock, Reread, Insert, WriteAudit,
           Commit, Confirm, Relookup, Replay, AuditRejection, Fail
      <3>4. KeyReserved'
        BY <2>1, <3>1, <3>2, <3>3 DEF KeyReserved, SameKey
      <3>5. QED
        BY <3>1, <3>4 DEF OneRowPerKey
    <2>5. ASSUME NEW r \in Requests, Receive(r) \/ Proceed(r) \/ AuditRejection(r) \/ Fail(r)
          PROVE  UNCHANGED ledger \/ Commit(r)
      BY <2>5 DEF Proceed, Receive, Lookup, Snapshot, Update, Unblock, Reread,
         Insert, WriteAudit, Confirm, Relookup, Replay, AuditRejection, Fail
    <2>6. QED
      BY <2>2, <2>3, <2>4, <2>5 DEF Next, RecordPayment, RecordRefund, Quiescent
  <1>3. QED
    BY <1>1, <1>2, TypeCorrect, PTL DEF Spec

(* The unique index and the waiting INSERT, for every instance: retries of *)
(* one key, at the same time or later, for the same order or for another,  *)
(* produce one row.                                                        *)
THEOREM KeysUnique == Spec => []OneRowPerKey
  BY KeysApart, PTL

-----------------------------------------------------------------------------
HasRow(r) == \E e \in Rows : e.id = r

(* The row that a lookup found for r is a committed row of its key. *)
Found(r) == \E e \in RowsOf(req[r]) : e.id = reply[r].row

(* A committed row says what its request asked for. *)
RowsTell ==
    \A e \in Rows :
        e.kind = req[e.id].kind /\ e.order = req[e.id].order /\ e.key = req[e.id].key

(* A row is there from the COMMIT of its request on, and from no other     *)
(* step; an answer is decided only where the request ends.                 *)
RowPlaced(r) ==
    /\ HasRow(r) => pc[r] \in {"answer", "done"}
    /\ pc[r] = "answer" => HasRow(r)
    /\ pc[r] \notin {"reject", "done"} => reply[r].status = "none"
    /\ pc[r] = "reject" => reply[r].status = "exceeds"

(* The statement a request has reached says what it has seen. *)
HasSeen(r) ==
    /\ pc[r] = "replay" => Found(r)
    /\ pc[r] = "relookup" => Truthy(req[r].key) /\ RowsOf(req[r]) # {}
    /\ pc[r] \in {"update", "blocked", "reread"} \cup Open => req[r].order \in live

(* What an answer that has been given says of the tables. *)
Answered(r) ==
    pc[r] = "done" =>
        /\ reply[r].status # "none"
        /\ HasRow(r) => reply[r].status \in {"recorded", "lost"}
        /\ reply[r].status = "recorded" => HasRow(r)
        /\ reply[r].status = "replayed" =>
              \E e \in RowsOf(req[r]) : e.id = reply[r].row /\ e.order = req[r].order
        /\ reply[r].status = "error" => req[r].key = EmptyKey

Tracked(r) == RowPlaced(r) /\ HasSeen(r) /\ Answered(r)

(* What the truth of the answers rests on. *)
AnswerInv == RowsTell /\ \A r \in Requests : Tracked(r)

(* A rejection is audited when its request ends, and it ends without a row. *)
RejectionsFinal ==
    \A a \in audit : a.action = "PAYMENT_REJECTED" => pc[a.id] = "done"

-----------------------------------------------------------------------------
(* One step of request r, whichever handler it belongs to. *)
StepOf(r) == Receive(r) \/ Proceed(r) \/ AuditRejection(r) \/ Fail(r)

RowOf(r) == [id |-> r, kind |-> req[r].kind, order |-> req[r].order,
             amount |-> req[r].amount, key |-> req[r].key, paid |-> newPaid[r]]

(* Every step is that of one request, or changes nothing. *)
LEMMA StepsOfRequests ==
    ASSUME [Next]_vars
    PROVE  UNCHANGED vars \/ \E r \in Requests : StepOf(r)
  BY DEF Next, RecordPayment, RecordRefund, Quiescent, StepOf

(* No step changes which orders exist, what they cost or who asked what. *)
LEMMA RequestsStay ==
    ASSUME NEW r \in Requests, StepOf(r)
    PROVE  UNCHANGED <<live, total, req>>
  BY DEF StepOf, Proceed, orderRow, Receive, Lookup, Snapshot, Update, Unblock, Reread,
     Insert, WriteAudit, Commit, Confirm, Relookup, Replay, AuditRejection, Fail

(* COMMIT adds one row to the tables and no other step touches them. *)
LEMMA RowsAfter ==
    ASSUME TypeOK, NEW r \in Requests, StepOf(r)
    PROVE  /\ ~Commit(r) => Rows' = Rows
           /\ Commit(r) => Rows' = Rows \cup {RowOf(r)}
  <1>1. CASE ~Commit(r)
    <2>1. UNCHANGED ledger
      BY <1>1 DEF StepOf, Proceed, Receive, Lookup, Snapshot, Update, Unblock, Reread,
         Insert, WriteAudit, Confirm, Relookup, Replay, AuditRejection, Fail
    <2>2. QED
      BY <1>1, <2>1 DEF Rows
  <1>2. CASE Commit(r)
    <2>1. Rows' \subseteq Rows \cup {RowOf(r)}
      BY <1>2, CommitAddsRow DEF RowOf
    <2>2. req[r].order \in Orders /\ ledger[req[r].order] \in Seq(Row)
      BY DEF TypeOK, Request
    <2>3. ledger' = [ledger EXCEPT ![req[r].order] = Append(@, RowOf(r))]
      BY <1>2 DEF Commit, RowOf
    <2>4. ASSUME NEW o \in Orders, NEW i \in DOMAIN ledger[o]
          PROVE  ledger[o][i] \in Rows'
      <3>1. ledger[o] \in Seq(Row)
        BY DEF TypeOK
      <3>2. ledger'[o] = ledger[o] \/ ledger'[o] = Append(ledger[o], RowOf(r))
        BY <2>3 DEF TypeOK
      <3>3. i \in DOMAIN ledger'[o] /\ ledger'[o][i] = ledger[o][i]
        BY <3>1, <3>2
      <3>4. QED
        BY <3>3 DEF Rows, Range
    <2>5. RowOf(r) \in Rows'
      <3> DEFINE o == req[r].order
      <3>1. ledger'[o] = Append(ledger[o], RowOf(r))
        BY <2>2, <2>3 DEF TypeOK
      <3>2. Len(ledger[o]) + 1 \in DOMAIN ledger'[o]
            /\ ledger'[o][Len(ledger[o]) + 1] = RowOf(r)
        BY <2>2, <3>1
      <3>3. QED
        BY <2>2, <3>2 DEF Rows, Range
    <2>6. Rows \subseteq Rows'
      BY <2>4 DEF Rows, Range
    <2>7. QED
      BY <1>2, <2>1, <2>5, <2>6
  <1>3. QED
    BY <1>1, <1>2

(* A step of one request leaves the place and the answer of another alone. *)
LEMMA OthersStay ==
    ASSUME TypeOK, NEW r \in Requests, StepOf(r), NEW s \in Requests, s # r
    PROVE  pc'[s] = pc[s] /\ reply'[s] = reply[s] /\ newPaid'[s] = newPaid[s]
  <1>1. reply'[s] = reply[s]
    BY DEF TypeOK, StepOf, Proceed, Answer, TurnDown, Receive, Lookup, Snapshot, Update,
       Unblock, Reread, Insert, WriteAudit, Commit, Confirm, Relookup, Replay,
       AuditRejection, Fail
  <1>2. QED
    BY <1>1, LocksOfOthers DEF StepOf

(* What a request is tracked by survives the steps of the others: rows     *)
(* are added, and only to the request that commits.                        *)
LEMMA OthersTracked ==
    ASSUME TypeOK, NEW r \in Requests, StepOf(r), NEW s \in Requests, s # r, Tracked(s)
    PROVE  Tracked(s)'
  <1>1. /\ pc'[s] = pc[s] /\ reply'[s] = reply[s]
        /\ UNCHANGED <<live, req>>
    BY OthersStay, RequestsStay
  <1>2. Rows' = Rows \/ Rows' = Rows \cup {RowOf(r)}
    BY RowsAfter
  <1>3. HasRow(s)' <=> HasRow(s)
    BY <1>2 DEF HasRow, RowOf
  <1>4. RowsOf(req[s]) \subseteq RowsOf(req[s])'
    BY <1>1, <1>2 DEF RowsOf, SameKey
  <1>5. RowPlaced(s)'
    BY <1>1, <1>3 DEF Tracked, RowPlaced
  <1>6. HasSeen(s)'
    BY <1>1, <1>4 DEF Tracked, HasSeen, Found
  <1>7. Answered(s)'
    BY <1>1, <1>3, <1>4 DEF Tracked, Answered
  <1>8. QED
    BY <1>5, <1>6, <1>7 DEF Tracked

(* A step that is not a COMMIT, seen from its request: where it goes, what *)
(* it answers, and what it has seen when it does so.                       *)
Moves(r, from, to, says) == pc[r] = from /\ pc'[r] = to /\ reply'[r] = says

LookupMoves(r, from, missing) ==
    \/ RowsOf(req[r]) = {} /\ missing
    \/ \E e \in RowsOf(req[r]) : Moves(r, from, "replay", Says("none", e.id, 0))

TurnedDown(r, from) ==
    \E room \in Nat, to \in {"reject", "done"} :
        Moves(r, from, to, Says("exceeds", None, room))

(* The steps before the UPDATE: what each sees, and where it goes on. *)
LEMMA EarlyMoves ==
    ASSUME TypeOK, NEW r \in Requests, Receive(r) \/ Lookup(r) \/ Snapshot(r)
    PROVE  \/ \E to \in {"lookup", "begin"} : Moves(r, "idle", to, reply[r])
           \/ LookupMoves(r, "lookup", Moves(r, "lookup", "begin", reply[r]))
           \/ /\ req[r].order \notin live
              /\ Moves(r, "begin", "done", Says("not_found", None, 0))
           \/ /\ req[r].order \in live
              /\ ~Fits(req[r], paid[req[r].order], total[req[r].order])
              /\ TurnedDown(r, "begin")
           \/ Matches(r) /\ Moves(r, "begin", "update", reply[r])
  <1>1. CASE Receive(r)
    BY <1>1 DEF TypeOK, Receive, Moves, GoTo
  <1>2. CASE Lookup(r)
    BY <1>2 DEF TypeOK, Lookup, LookupMoves, Moves, GoTo, Answer
  <1>3. CASE Snapshot(r)
    <2>1. Room(req[r], paid[req[r].order], total[req[r].order]) \in Nat
      BY EffectInRange DEF TypeOK, Request
    <2>2. QED
      BY <1>3, <2>1 DEF TypeOK, Snapshot, TurnDown, TurnedDown, Moves, GoTo, Answer
  <1>4. QED
    BY <1>1, <1>2, <1>3

(* The guarded UPDATE, its wait, and the re-read after it failed. *)
LEMMA UpdateMoves ==
    ASSUME TypeOK, NEW r \in Requests, Update(r) \/ Unblock(r) \/ Reread(r)
    PROVE  \/ /\ Matches(r)
              /\ \/ \E from \in {"update", "blocked"} : Moves(r, from, "insert", reply[r])
                 \/ Moves(r, "update", "blocked", reply[r])
           \/ /\ ~Matches(r)
              /\ \E from \in {"update", "blocked"} : Moves(r, from, "reread", reply[r])
           \/ req[r].order \in live /\ TurnedDown(r, "reread")
           \/ /\ req[r].order \notin live
              /\ Moves(r, "reread", "done", Says("not_found", None, 0))
  <1>1. CASE Update(r)
    BY <1>1 DEF TypeOK, Update, TakeRow, Moves, GoTo
  <1>2. CASE Unblock(r)
    BY <1>2 DEF TypeOK, Unblock, TakeRow, Moves, GoTo
  <1>3. CASE Reread(r)
    <2>1. Room(req[r], paid[req[r].order], total[req[r].order]) \in Nat
      BY EffectInRange DEF TypeOK, Request
    <2>2. QED
      BY <1>3, <2>1 DEF TypeOK, Reread, TurnDown, TurnedDown, Moves, GoTo, Answer
  <1>4. QED
    BY <1>1, <1>2, <1>3

(* The INSERT, the audit row, the answer of a committed request. *)
LEMMA InsertMoves ==
    ASSUME TypeOK, NEW r \in Requests, Insert(r) \/ WriteAudit(r) \/ Confirm(r)
    PROVE  \/ RowsOf(req[r]) = {} /\ Moves(r, "insert", "audit", reply[r])
           \/ /\ RowsOf(req[r]) # {}
              /\ \/ Truthy(req[r].key) /\ Moves(r, "insert", "relookup", reply[r])
                 \/ /\ ~Truthy(req[r].key)
                    /\ Moves(r, "insert", "done", Says("error", None, 0))
           \/ Moves(r, "audit", "commit", reply[r])
           \/ Moves(r, "answer", "done", Says("recorded", r, 0))
  BY DEF TypeOK, Insert, WriteAudit, Confirm, Moves, GoTo, Answer

(* The answer to a retry. *)
ReplayMoves(r) ==
    LET found == reply[r].row
        other == \E e \in Rows : e.id = found /\ e.order # req[r].order
    IN
    \/ other /\ Moves(r, "replay", "done", Says("duplicate_key", None, 0))
    \/ req[r].order \notin live /\ Moves(r, "replay", "done", Says("not_found", None, 0))
    \/ /\ ~other
       /\ Moves(r, "replay", "done", Says("replayed", found, 0))

(* The steps of a request whose key was taken, up to its answer. *)
LEMMA LateMoves ==
    ASSUME TypeOK, NEW r \in Requests,
           Relookup(r) \/ Replay(r) \/ AuditRejection(r) \/ Fail(r)
    PROVE  \/ LookupMoves(r, "relookup",
                  Moves(r, "relookup", "done", Says("error", None, 0)))
           \/ ReplayMoves(r)
           \/ Moves(r, "reject", "done", reply[r])
           \/ /\ pc[r] \notin {"idle", "done"}
              /\ pc'[r] = "done" /\ reply'[r] = Says("lost", None, 0)
  <1>1. CASE Relookup(r)
    BY <1>1 DEF TypeOK, Relookup, LookupMoves, Moves, GoTo, Answer
  <1>2. CASE Replay(r)
    BY <1>2 DEF TypeOK, Replay, ReplayMoves, Moves, GoTo, Answer
  <1>3. CASE AuditRejection(r)
    BY <1>3 DEF TypeOK, AuditRejection, Moves, GoTo
  <1>4. CASE Fail(r)
    BY <1>4 DEF TypeOK, Fail, GoTo, Answer
  <1>5. QED
    BY <1>1, <1>2, <1>3, <1>4

(* A request's own steps other than COMMIT keep what it is tracked by. *)
LEMMA SelfTracked ==
    ASSUME TypeOK, RowsTell, NEW r \in Requests, StepOf(r), ~Commit(r), Tracked(r)
    PROVE  Tracked(r)'
  <1>1. UNCHANGED <<live, req>> /\ Rows' = Rows
    BY RequestsStay, RowsAfter
  <1>2. /\ HasRow(r)' <=> HasRow(r)
        /\ RowsOf(req[r])' = RowsOf(req[r])
    BY <1>1 DEF HasRow, RowsOf, SameKey
  <1>3. Found(r)' <=> \E e \in RowsOf(req[r]) : e.id = reply'[r].row
    BY <1>2 DEF Found
  <1> USE DEF Tracked, RowPlaced, HasSeen, Answered, Moves, Open, Says
  <1>0. ASSUME NEW e \in RowsOf(req[r]), NEW from \in {"lookup", "relookup"},
               Moves(r, from, "replay", Says("none", e.id, 0))
        PROVE  Tracked(r)'
    <2>1. Found(r)'
      BY <1>3, <1>0
    <2>2. pc[r] \in {"lookup", "relookup"} /\ pc'[r] = "replay" /\ reply'[r].status = "none"
      BY <1>0
    <2>3. QED
      BY <2>1, <2>2, <1>2
  <1>4. CASE Receive(r) \/ Lookup(r) \/ Snapshot(r)
    <2>1. CASE \E to \in {"lookup", "begin"} : Moves(r, "idle", to, reply[r])
      BY <2>1, <1>1, <1>2
    <2>2. CASE LookupMoves(r, "lookup", Moves(r, "lookup", "begin", reply[r]))
      <3>1. CASE Moves(r, "lookup", "begin", reply[r])
        BY <3>1, <1>1, <1>2
      <3>2. QED
        BY <2>2, <3>1, <1>0 DEF LookupMoves
    <2>3. CASE Moves(r, "begin", "done", Says("not_found", None, 0))
      BY <2>3, <1>1, <1>2
    <2>4. CASE TurnedDown(r, "begin")
      BY <2>4, <1>1, <1>2 DEF TurnedDown
    <2>5. CASE Matches(r) /\ Moves(r, "begin", "update", reply[r])
      BY <2>5, <1>1, <1>2 DEF Matches
    <2>6. QED
      BY <1>4, EarlyMoves, <2>1, <2>2, <2>3, <2>4, <2>5
  <1>5. CASE Update(r) \/ Unblock(r) \/ Reread(r)
    <2>1. CASE Moves(r, "update", "blocked", reply[r])
      BY <2>1, <1>1, <1>2
    <2>2. CASE \E from \in {"update", "blocked"}, to \in {"insert", "reread"} :
                  Moves(r, from, to, reply[r])
      BY <2>2, <1>1, <1>2
    <2>3. CASE TurnedDown(r, "reread")
      BY <2>3, <1>1, <1>2 DEF TurnedDown
    <2>4. CASE Moves(r, "reread", "done", Says("not_found", None, 0))
      BY <2>4, <1>1, <1>2
    <2>5. QED
      BY <1>5, UpdateMoves, <2>1, <2>2, <2>3, <2>4
  <1>6. CASE Insert(r) \/ WriteAudit(r) \/ Confirm(r)
    <2>1. CASE \/ Moves(r, "insert", "audit", reply[r])
               \/ Moves(r, "audit", "commit", reply[r])
      BY <2>1, <1>1, <1>2
    <2>2. CASE /\ RowsOf(req[r]) # {} /\ Truthy(req[r].key)
               /\ Moves(r, "insert", "relookup", reply[r])
      BY <2>2, <1>1, <1>2
    <2>3. CASE /\ RowsOf(req[r]) # {} /\ ~Truthy(req[r].key)
               /\ Moves(r, "insert", "done", Says("error", None, 0))
      <3>1. req[r].key = EmptyKey
        BY <2>3 DEF RowsOf, SameKey, Truthy
      <3>2. QED
        BY <2>3, <3>1, <1>1, <1>2
    <2>4. CASE Moves(r, "answer", "done", Says("recorded", r, 0))
      BY <2>4, <1>1, <1>2
    <2>5. QED
      BY <1>6, InsertMoves, <2>1, <2>2, <2>3, <2>4
  <1>7. CASE Relookup(r) \/ Replay(r) \/ AuditRejection(r) \/ Fail(r)
    <2>1. CASE LookupMoves(r, "relookup",
                  Moves(r, "relookup", "done", Says("error", None, 0)))
      <3>1. ~(pc[r] = "relookup" /\ RowsOf(req[r]) = {})
        OBVIOUS
      <3>2. PICK e \in RowsOf(req[r]) : Moves(r, "relookup", "replay", Says("none", e.id, 0))
        BY <2>1, <3>1 DEF LookupMoves
      <3>3. QED
        BY <3>2, <1>0
    <2>2. CASE ReplayMoves(r)
      <3>1. /\ pc[r] = "replay" /\ pc'[r] = "done" /\ ~HasRow(r)
            /\ \/ reply'[r].status \in {"duplicate_key", "not_found"}
               \/ /\ reply'[r].status = "replayed" /\ reply'[r].row = reply[r].row
                  /\ \A e \in Rows : e.id = reply[r].row => e.order = req[r].order
        BY <2>2 DEF ReplayMoves
      <3>2. PICK e \in RowsOf(req[r]) : e.id = reply[r].row
        BY <3>1 DEF Found
      <3>3. e \in Rows
        BY DEF RowsOf
      <3>4. QED
        BY <3>1, <3>2, <3>3, <1>1, <1>2
    <2>3. CASE Moves(r, "reject", "done", reply[r])
      BY <2>3, <1>1, <1>2
    <2>4. CASE /\ pc[r] \notin {"idle", "done"}
               /\ pc'[r] = "done" /\ reply'[r] = Says("lost", None, 0)
      BY <2>4, <1>1, <1>2
    <2>5. QED
      BY <1>7, LateMoves, <2>1, <2>2, <2>3, <2>4
  <1>8. QED
    BY <1>4, <1>5, <1>6, <1>7 DEF StepOf, Proceed

(* COMMIT is the step at which a request gets its row. *)
LEMMA CommitTracked ==
    ASSUME TypeOK, NEW r \in Requests, Commit(r), Tracked(r)
    PROVE  Tracked(r)'
  <1>1. /\ pc[r] = "commit" /\ pc'[r] = "answer" /\ reply' = reply
        /\ Rows' = Rows \cup {RowOf(r)}
    BY RowsAfter DEF Commit, TypeOK, GoTo, StepOf, Proceed
  <1>2. HasRow(r)'
    <2>1. RowOf(r).id = r /\ RowOf(r) \in Rows'
      BY <1>1 DEF RowOf
    <2>2. QED
      BY <2>1 DEF HasRow
  <1>3. QED
    BY <1>1, <1>2 DEF Tracked, RowPlaced, HasSeen, Answered, Open

(* Rows, places and answers agree in every reachable state. *)
LEMMA AnswersTracked == Spec => []AnswerInv
  <1>1. Init => AnswerInv
    BY DEF Init, AnswerInv, RowsTell, Tracked, RowPlaced, HasSeen, Answered, HasRow, Rows,
           Range, Open, Says
  <1>2. TypeOK /\ AnswerInv /\ [Next]_vars => AnswerInv'
    <2> SUFFICES ASSUME TypeOK, AnswerInv, [Next]_vars
                 PROVE  AnswerInv'
      OBVIOUS
    <2>1. CASE UNCHANGED vars
      BY <2>1 DEF vars, AnswerInv, RowsTell, Tracked, RowPlaced, HasSeen, Answered,
         HasRow, Found, Rows, RowsOf
    <2>2. ASSUME NEW r \in Requests, StepOf(r)
          PROVE  AnswerInv'
      <3>1. RowsTell'
        <4>1. UNCHANGED req
          BY <2>2, RequestsStay
        <4>2. \A e \in Rows' : e \in Rows \/ e = RowOf(r)
          BY <2>2, RowsAfter
        <4>3. QED
          BY <4>1, <4>2 DEF AnswerInv, RowsTell, RowOf
      <3>2. ASSUME NEW s \in Requests
            PROVE  Tracked(s)'
        <4>1. CASE s # r
          BY <2>2, <4>1, OthersTracked DEF AnswerInv
        <4>2. CASE s = r /\ Commit(r)
          BY <4>2, CommitTracked DEF AnswerInv
        <4>3. CASE s = r /\ ~Commit(r)
          BY <2>2, <4>3, SelfTracked DEF AnswerInv
        <4>4. QED
          BY <4>1, <4>2, <4>3
      <3>3. QED
        BY <3>1, <3>2 DEF AnswerInv
    <2>3. QED
      BY <2>1, <2>2, StepsOfRequests
  <1>3. QED
    BY <1>1, <1>2, TypeCorrect, PTL DEF Spec

-----------------------------------------------------------------------------
(* AnswersTrue for every instance: a 201 has its row, a 200 shows a        *)
(* committed row of the same key and order, an error changed nothing.      *)
THEOREM AnswersAreTrue == Spec => []AnswersTrue
  <1>1. TypeOK /\ AnswerInv => AnswersTrue
    <2> SUFFICES ASSUME TypeOK, AnswerInv, NEW r \in Requests
                 PROVE  LET done == \E e \in Rows : e.id = r IN
                        CASE reply[r].status = "recorded" -> done
                          [] reply[r].status = "replayed" ->
                                /\ ~done
                                /\ \E e \in RowsOf(req[r]) :
                                      e.id = reply[r].row /\ e.order = req[r].order
                          [] reply[r].status \in
                                {"exceeds", "not_found", "duplicate_key", "error"} -> ~done
                          [] OTHER -> TRUE
      BY DEF AnswersTrue
    <2>1. Tracked(r)
      BY DEF AnswerInv
    <2>2. reply[r].status = "recorded" => HasRow(r)
      BY <2>1 DEF Tracked, RowPlaced, Answered
    <2>3. reply[r].status \notin {"none", "recorded", "lost"} => ~HasRow(r)
      BY <2>1 DEF Tracked, RowPlaced, Answered
    <2>4. reply[r].status = "replayed" =>
            \E e \in RowsOf(req[r]) : e.id = reply[r].row /\ e.order = req[r].order
      BY <2>1 DEF Tracked, RowPlaced, Answered
    <2>5. QED
      BY <2>2, <2>3, <2>4 DEF HasRow
  <1>2. QED
    BY <1>1, TypeCorrect, AnswersTracked, PTL

(* LostRaceIsReplayed for every instance: only the empty key, which the    *)
(* index enforces and the lookup ignores, ends a lost race in an error.    *)
THEOREM LostRacesReplayed == Spec => []LostRaceIsReplayed
  <1>1. TypeOK /\ AnswerInv => LostRaceIsReplayed
    BY DEF AnswerInv, Tracked, RowPlaced, Answered, LostRaceIsReplayed
  <1>2. QED
    BY <1>1, TypeCorrect, AnswersTracked, PTL

(* AuditTrail for every instance: a settlement and its audit record are    *)
(* committed together, and what is audited as rejected never gets a row.   *)
THEOREM AuditComplete == Spec => []AuditTrail
  <1>1. Init => AuditTrail /\ RejectionsFinal
    BY DEF Init, AuditTrail, RejectionsFinal, Rows, Range
  <1>2. TypeOK /\ AnswerInv /\ AuditTrail /\ RejectionsFinal /\ [Next]_vars
          => AuditTrail' /\ RejectionsFinal'
    <2> SUFFICES ASSUME TypeOK, AnswerInv, AuditTrail, RejectionsFinal, [Next]_vars
                 PROVE  AuditTrail' /\ RejectionsFinal'
      OBVIOUS
    <2>1. CASE UNCHANGED vars
      BY <2>1 DEF vars, AuditTrail, RejectionsFinal, Rows
    <2>2. ASSUME NEW r \in Requests, StepOf(r), ~Commit(r), ~AuditRejection(r)
          PROVE  AuditTrail' /\ RejectionsFinal'
      <3>1. Rows' = Rows
        BY <2>2, RowsAfter
      <3>2. audit' = audit
        BY <2>2 DEF StepOf, Proceed, Receive, Lookup, Snapshot, Update, Unblock, Reread,
           Insert, WriteAudit, Confirm, Relookup, Replay, Fail
      <3>3. pc[r] # "done"
        BY <2>2 DEF StepOf, Proceed, Receive, Lookup, Snapshot, Update, Unblock, Reread,
           Insert, WriteAudit, Confirm, Relookup, Replay, Fail
      <3>4. \A s \in Requests : pc[s] = "done" => pc'[s] = "done"
        BY <2>2, <3>3, OthersStay
      <3>5. QED
        BY <3>1, <3>2, <3>4 DEF AuditTrail, RejectionsFinal, TypeOK, AuditRow
    <2>3. ASSUME NEW r \in Requests, AuditRejection(r)
          PROVE  AuditTrail' /\ RejectionsFinal'
      <3>1. /\ Rows' = Rows
            /\ pc[r] = "reject" /\ pc' = [pc EXCEPT ![r] = "done"]
            /\ audit' = audit \cup {[action |-> "PAYMENT_REJECTED", id |-> r]}
        BY <2>3, RowsAfter DEF StepOf, AuditRejection, GoTo, Commit
      <3>2. ~HasRow(r)
        BY <3>1 DEF AnswerInv, Tracked, RowPlaced
      <3>3. QED
        BY <3>1, <3>2 DEF AuditTrail, RejectionsFinal, HasRow, TypeOK, AuditRow
    <2>4. ASSUME NEW r \in Requests, Commit(r)
          PROVE  AuditTrail' /\ RejectionsFinal'
      <3> DEFINE record == [action |-> IF req[r].kind = "payment" THEN "PAYMENT_RECORDED"
                                       ELSE "PAYMENT_REFUNDED", id |-> r]
      <3>1. /\ Rows' = Rows \cup {RowOf(r)}
            /\ pc[r] = "commit" /\ pc' = [pc EXCEPT ![r] = "answer"]
            /\ audit' = audit \cup {record}
            /\ RowOf(r).id = r /\ RowOf(r).kind = req[r].kind
            /\ record.id = r /\ record.action # "PAYMENT_REJECTED"
        BY <2>4, RowsAfter DEF StepOf, Proceed, Commit, GoTo, RowOf
      <3>2. RejectionsFinal'
        BY <3>1 DEF RejectionsFinal, TypeOK, AuditRow
      <3>3. ASSUME NEW e \in Rows'
            PROVE  [action |-> IF e.kind = "payment" THEN "PAYMENT_RECORDED"
                               ELSE "PAYMENT_REFUNDED", id |-> e.id] \in audit'
        <4>1. CASE e \in Rows
          BY <4>1, <3>1 DEF AuditTrail
        <4>2. CASE e = RowOf(r)
          BY <4>2, <3>1
        <4>3. QED
          BY <3>1, <4>1, <4>2
      <3>4. ASSUME NEW a \in audit'
            PROVE  (\E e \in Rows' : e.id = a.id) <=> a.action # "PAYMENT_REJECTED"
        <4> HIDE DEF record
        <4>1. CASE a.id = r
          <5>1. a.action # "PAYMENT_REJECTED"
            BY <3>1, <4>1 DEF RejectionsFinal
          <5>2. QED
            BY <3>1, <4>1, <5>1
        <4>2. CASE a.id # r
          <5>1. a \in audit
            BY <3>1, <4>2
          <5>2. (\E e \in Rows' : e.id = a.id) <=> \E e \in Rows : e.id = a.id
            BY <3>1, <4>2
          <5>3. QED
            BY <5>1, <5>2 DEF AuditTrail
        <4>3. QED
          BY <4>1, <4>2
      <3>5. AuditTrail'
        BY <3>3, <3>4 DEF AuditTrail
      <3>6. QED
        BY <3>2, <3>5
    <2>5. QED
      BY <2>1, <2>2, <2>3, <2>4, StepsOfRequests
  <1>3. QED
    BY <1>1, <1>2, TypeCorrect, AnswersTracked, PTL DEF Spec

-----------------------------------------------------------------------------
(* The refinement mapping, with what it depends on as parameters: whether  *)
(* the request has a row, where it is, and the status of its answer.       *)
OutcomeOf(hasRow, step, status) ==
    IF hasRow THEN "accepted"
    ELSE CASE step = "idle" -> "idle"
           [] step \in {"reread", "reject"} -> "rejected"
           [] step = "done" ->
                 CASE status = "exceeds" -> "rejected"
                   [] status \in {"not_found", "duplicate_key"} -> "refused"
                   [] OTHER -> status
           [] OTHER -> "pending"

(* The outcome of a request, by its place in the code and its answer. *)
LEMMA OutcomeTable ==
    ASSUME NEW hasRow \in BOOLEAN, NEW step \in Steps, NEW status \in Statuses
    PROVE  LET became == OutcomeOf(hasRow, step, status) IN
           /\ hasRow => became = "accepted"
           /\ ~hasRow =>
                /\ step = "idle" => became = "idle"
                /\ step \in {"reread", "reject"} => became = "rejected"
                /\ step \notin {"idle", "reread", "reject", "done"} => became = "pending"
                /\ step = "done" =>
                     /\ status = "exceeds" => became = "rejected"
                     /\ status \in {"not_found", "duplicate_key"} => became = "refused"
                     /\ status \notin {"exceeds", "not_found", "duplicate_key"} =>
                          became = status
  <1>1. CASE hasRow
    BY <1>1 DEF OutcomeOf
  <1>2. CASE ~hasRow
    BY <1>2 DEF OutcomeOf
  <1>3. QED
    BY <1>1, <1>2

(* ... which is what Outcome says. *)
LEMMA OutcomeIs ==
    ASSUME NEW r
    PROVE  /\ Outcome(r) = OutcomeOf(HasRow(r), pc[r], reply[r].status)
           /\ Outcome(r)' = OutcomeOf(HasRow(r)', pc'[r], reply'[r].status)
  <1>1. Outcome(r) = OutcomeOf(HasRow(r), pc[r], reply[r].status)
    BY DEF Outcome, OutcomeOf, HasRow
  <1>2. Outcome(r)' = OutcomeOf(HasRow(r)', pc'[r], reply'[r].status)
    BY DEF Outcome, OutcomeOf, HasRow
  <1>3. QED
    BY <1>1, <1>2

(* The outcome of a request before a step and after it. *)
LEMMA OutcomesTyped ==
    ASSUME TypeOK, TypeOK', NEW r \in Requests
    PROVE  /\ pc[r] \in Steps /\ pc'[r] \in Steps
           /\ reply[r].status \in Statuses /\ reply'[r].status \in Statuses
           /\ HasRow(r) \in BOOLEAN /\ HasRow(r)' \in BOOLEAN
  BY DEF TypeOK, Reply, HasRow

(* A step of one request leaves the outcomes of the others alone.          *)
LEMMA OutcomesOfOthers ==
    ASSUME TypeOK, NEW r \in Requests, StepOf(r), NEW s \in Requests, s # r
    PROVE  Outcome(s)' = Outcome(s)
  <1>1. pc'[s] = pc[s] /\ reply'[s] = reply[s]
    BY OthersStay
  <1>2. HasRow(s)' = HasRow(s)
    <2>1. Rows' = Rows \/ (Rows' = Rows \cup {RowOf(r)} /\ RowOf(r).id = r)
      BY RowsAfter DEF RowOf
    <2>2. QED
      BY <2>1 DEF HasRow
  <1>3. QED
    BY <1>1, <1>2, OutcomeIs

(* What a step does to the outcome of its request is what Ledger's Becomes *)
(* says of all the outcomes.                                               *)
LEMMA StepBecomes ==
    ASSUME TypeOK, NEW r \in Requests, StepOf(r)
    PROVE  Promise!Becomes(r, Outcome(r)')
  BY OutcomesOfOthers DEF Promise!Becomes

(* A step that leaves its request's outcome and the balances alone is a    *)
(* stuttering step of Ledger.                                              *)
LEMMA StepStutters ==
    ASSUME TypeOK, NEW r \in Requests, StepOf(r), Outcome(r)' = Outcome(r), paid' = paid
    PROVE  UNCHANGED Promise!vars
  <1>1. \A s \in Requests : Outcome(s)' = Outcome(s)
    BY OutcomesOfOthers
  <1>2. QED
    BY <1>1, RequestsStay DEF Promise!vars

(* The requests whose key was used already are those with a row of it.     *)
LEMMA OriginalsAre ==
    ASSUME TypeOK, AnswerInv, NEW r \in Requests
    PROVE  /\ RowsOf(req[r]) = {} => Promise!Originals(r) = {}
           /\ \A e \in RowsOf(req[r]) : e.id \in Promise!Originals(r)
  <1>1. \A s \in Requests : Outcome(s) = "accepted" <=> HasRow(s)
    <2> SUFFICES ASSUME NEW s \in Requests
                 PROVE  Outcome(s) = "accepted" <=> HasRow(s)
      OBVIOUS
    <2>1. pc[s] \in Steps /\ reply[s].status \in Statuses /\ HasRow(s) \in BOOLEAN
      BY DEF TypeOK, Reply, HasRow
    <2>2. QED
      BY <2>1, OutcomeIs, OutcomeTable DEF Statuses
  <1>2. \A e \in Rows : e.id \in Requests
    BY RowsTyped DEF TypeOK, Row
  <1>3. \A e \in Rows : e.kind = req[e.id].kind /\ e.key = req[e.id].key
    BY DEF AnswerInv, RowsTell
  <1>4. QED
    BY <1>1, <1>2, <1>3 DEF Promise!Originals, Promise!SameKey, RowsOf, SameKey, HasRow

(* What a request is to the ledger, by where it is and what it was told.   *)
LEMMA OutcomeRead ==
    ASSUME TypeOK, NEW r \in Requests
    PROVE  /\ HasRow(r) => Outcome(r) = "accepted"
           /\ ~HasRow(r) =>
                /\ pc[r] = "idle" => Outcome(r) = "idle"
                /\ pc[r] \in {"reread", "reject"} => Outcome(r) = "rejected"
                /\ pc[r] \notin {"idle", "reread", "reject", "done"} =>
                     Outcome(r) = "pending"
                /\ pc[r] = "done" =>
                     /\ reply[r].status = "exceeds" => Outcome(r) = "rejected"
                     /\ reply[r].status \in {"not_found", "duplicate_key"} =>
                          Outcome(r) = "refused"
                     /\ reply[r].status \notin {"exceeds", "not_found", "duplicate_key"} =>
                          Outcome(r) = reply[r].status
  <1>1. pc[r] \in Steps /\ reply[r].status \in Statuses /\ HasRow(r) \in BOOLEAN
    BY DEF TypeOK, Reply, HasRow
  <1>2. QED
    BY <1>1, OutcomeIs, OutcomeTable

(* The same after a step, whose row may be new. *)
LEMMA OutcomeReadNext ==
    ASSUME TypeOK', NEW r \in Requests
    PROVE  /\ HasRow(r)' => Outcome(r)' = "accepted"
           /\ ~HasRow(r)' =>
                /\ pc'[r] = "idle" => Outcome(r)' = "idle"
                /\ pc'[r] \in {"reread", "reject"} => Outcome(r)' = "rejected"
                /\ pc'[r] \notin {"idle", "reread", "reject", "done"} =>
                     Outcome(r)' = "pending"
                /\ pc'[r] = "done" =>
                     /\ reply'[r].status = "exceeds" => Outcome(r)' = "rejected"
                     /\ reply'[r].status \in {"not_found", "duplicate_key"} =>
                          Outcome(r)' = "refused"
                     /\ reply'[r].status \notin {"exceeds", "not_found", "duplicate_key"} =>
                          Outcome(r)' = reply'[r].status
  <1>1. pc'[r] \in Steps /\ reply'[r].status \in Statuses /\ HasRow(r)' \in BOOLEAN
    BY DEF TypeOK, Reply, HasRow
  <1>2. QED
    BY <1>1, OutcomeIs, OutcomeTable

(* COMMIT is the step at which the ledger accepts. *)
LEMMA CommitAccepts ==
    ASSUME TypeOK, TypeOK', AnswerInv, BalanceInv, KeyReserved, NEW r \in Requests, Commit(r)
    PROVE  Promise!Accept(r)
  <1> DEFINE q == req[r]
  <1>1. StepOf(r) /\ pc[r] = "commit" /\ paid' = [paid EXCEPT ![q.order] = newPaid[r]]
    BY DEF StepOf, Proceed, Commit
  <1>2. Tracked(r)
    BY DEF AnswerInv
  <1>3. Outcome(r) = "pending" /\ q.order \in live
    BY <1>1, <1>2, OutcomeRead DEF Tracked, RowPlaced, HasSeen, Open
  <1>4. Fits(q, paid[q.order], total[q.order]) /\ newPaid[r] = Effect(q, paid[q.order])
    BY <1>1 DEF BalanceInv, StagedIsCurrent
  <1>5. Promise!Originals(r) = {}
    <2>1. RowsOf(q) = {}
      BY <1>1 DEF KeyReserved, InFlight, RowsOf
    <2>2. QED
      BY <2>1, OriginalsAre
  <1>6. Outcome(r)' = "accepted"
    <2>1. RowOf(r) \in Rows' /\ RowOf(r).id = r
      BY <1>1, RowsAfter DEF RowOf
    <2>2. HasRow(r)'
      BY <2>1 DEF HasRow
    <2>3. QED
      BY <2>2, OutcomeReadNext
  <1>7. Promise!Becomes(r, "accepted")
    BY <1>1, <1>6, StepBecomes
  <1>8. q.order \in Orders
    BY DEF TypeOK, Request
  <1>9. QED
    BY <1>1, <1>3, <1>4, <1>5, <1>7, <1>8, RequestsStay
    DEF Promise!Accept, Promise!Fits, Promise!Effect, Fits, Effect, TypeOK

(* The other steps of a request: arrival, rejection, replay, refusal and   *)
(* loss are steps of the ledger, all the statements in between are none.   *)
LEMMA StepMaps ==
    ASSUME TypeOK, TypeOK', AnswerInv, NEW r \in Requests, StepOf(r), ~Commit(r)
    PROVE  \/ UNCHANGED Promise!vars
           \/ Promise!Ask(r) \/ Promise!Reject(r) \/ Promise!Replay(r)
           \/ Promise!Refuse(r) \/ Promise!Break(r) \/ Promise!Lose(r)
  <1> DEFINE q == req[r]
             before == Outcome(r)
             after == Outcome(r)'
  <1>1. UNCHANGED <<live, total, paid, req>> /\ (HasRow(r)' <=> HasRow(r))
    <2>1. UNCHANGED paid
      BY DEF StepOf, Proceed, Receive, Lookup, Snapshot, Update, Unblock, Reread,
         Insert, WriteAudit, Confirm, Relookup, Replay, AuditRejection, Fail
    <2>2. QED
      BY <2>1, RequestsStay, RowsAfter DEF HasRow
  <1>2. Promise!Becomes(r, after)
    BY StepBecomes
  <1>3. before = after => UNCHANGED Promise!vars
    BY <1>1, StepStutters
  <1>4. RowPlaced(r) /\ HasSeen(r)
    BY DEF AnswerInv, Tracked
  <1>5. CASE Receive(r) \/ Lookup(r) \/ Snapshot(r)
    <2>1. CASE \E to \in {"lookup", "begin"} : Moves(r, "idle", to, reply[r])
      <3>1. before = "idle" /\ after = "pending"
        BY <2>1, <1>1, <1>4, OutcomeRead, OutcomeReadNext DEF RowPlaced, Moves
      <3>2. QED
        BY <3>1, <1>1, <1>2 DEF Promise!Ask
    <2>2. CASE LookupMoves(r, "lookup", Moves(r, "lookup", "begin", reply[r]))
      <3>1. before = after
        BY <2>2, <1>1, <1>4, OutcomeRead, OutcomeReadNext DEF RowPlaced, Moves, LookupMoves
      <3>2. QED
        BY <3>1, <1>3
    <2>3. CASE q.order \notin live /\ Moves(r, "begin", "done", Says("not_found", None, 0))
      <3>1. before = "pending" /\ after = "refused"
        BY <2>3, <1>1, <1>4, OutcomeRead, OutcomeReadNext DEF RowPlaced, Moves, Says
      <3>2. QED
        BY <2>3, <3>1, <1>1, <1>2 DEF Promise!Refuse
    <2>4. CASE /\ q.order \in live /\ ~Fits(q, paid[q.order], total[q.order])
               /\ TurnedDown(r, "begin")
      <3>1. before = "pending" /\ after = "rejected"
        BY <2>4, <1>1, <1>4, OutcomeRead, OutcomeReadNext DEF RowPlaced, Moves, TurnedDown, Says
      <3>2. QED
        BY <2>4, <3>1, <1>1, <1>2 DEF Promise!Reject, Promise!Fits, Fits
    <2>5. CASE Moves(r, "begin", "update", reply[r])
      <3>1. before = after
        BY <2>5, <1>1, <1>4, OutcomeRead, OutcomeReadNext DEF RowPlaced, Moves
      <3>2. QED
        BY <3>1, <1>3
    <2>6. QED
      BY <1>5, EarlyMoves, <2>1, <2>2, <2>3, <2>4, <2>5
  <1>6. CASE Update(r) \/ Unblock(r) \/ Reread(r)
    <2>1. CASE \E from \in {"update", "blocked"}, to \in {"insert", "blocked"} :
                  Moves(r, from, to, reply[r])
      <3>1. before = after
        BY <2>1, <1>1, <1>4, OutcomeRead, OutcomeReadNext DEF RowPlaced, Moves
      <3>2. QED
        BY <3>1, <1>3
    <2>2. CASE /\ ~Matches(r)
               /\ \E from \in {"update", "blocked"} : Moves(r, from, "reread", reply[r])
      <3>1. before = "pending" /\ after = "rejected"
        BY <2>2, <1>1, <1>4, OutcomeRead, OutcomeReadNext DEF RowPlaced, Moves
      <3>2. q.order \in live /\ ~Fits(q, paid[q.order], total[q.order])
        BY <2>2, <1>4 DEF HasSeen, Moves, Matches
      <3>3. QED
        BY <3>1, <3>2, <1>1, <1>2 DEF Promise!Reject, Promise!Fits, Fits
    <2>3. CASE TurnedDown(r, "reread")
      <3>1. before = after
        BY <2>3, <1>1, <1>4, OutcomeRead, OutcomeReadNext DEF RowPlaced, Moves, TurnedDown, Says
      <3>2. QED
        BY <3>1, <1>3
    <2>4. CASE q.order \notin live /\ pc[r] = "reread"
      BY <2>4, <1>4 DEF HasSeen
    <2>5. QED
      BY <1>6, UpdateMoves, <2>1, <2>2, <2>3, <2>4 DEF Moves
  <1>7. CASE Insert(r) \/ WriteAudit(r) \/ Confirm(r)
    <2>1. CASE \/ Moves(r, "insert", "audit", reply[r])
               \/ Moves(r, "insert", "relookup", reply[r])
               \/ Moves(r, "audit", "commit", reply[r])
               \/ Moves(r, "answer", "done", Says("recorded", r, 0))
      <3>1. before = after
        BY <2>1, <1>1, <1>4, OutcomeRead, OutcomeReadNext DEF RowPlaced, Moves
      <3>2. QED
        BY <3>1, <1>3
    <2>2. CASE /\ RowsOf(q) # {} /\ ~Truthy(q.key)
               /\ Moves(r, "insert", "done", Says("error", None, 0))
      <3>1. before = "pending" /\ after = "error"
        BY <2>2, <1>1, <1>4, OutcomeRead, OutcomeReadNext DEF RowPlaced, Moves, Says
      <3>2. q.key = EmptyKey
        BY <2>2 DEF RowsOf, SameKey, Truthy
      <3>3. Promise!Originals(r) # {}
        BY <2>2, OriginalsAre
      <3>4. QED
        BY <3>1, <3>2, <3>3, <1>1, <1>2 DEF Promise!Break
    <2>3. QED
      BY <1>7, InsertMoves, <2>1, <2>2
  <1>8. CASE Relookup(r) \/ Replay(r) \/ AuditRejection(r) \/ Fail(r)
    <2>1. CASE LookupMoves(r, "relookup",
                  Moves(r, "relookup", "done", Says("error", None, 0)))
      <3>1. \E e \in RowsOf(q) : Moves(r, "relookup", "replay", Says("none", e.id, 0))
        BY <2>1, <1>4 DEF LookupMoves, HasSeen, Moves
      <3>2. before = after
        BY <3>1, <1>1, <1>4, OutcomeRead, OutcomeReadNext DEF RowPlaced, Moves
      <3>3. QED
        BY <3>2, <1>3
    <2>2. CASE ReplayMoves(r)
      <3>1. /\ pc[r] = "replay" /\ pc'[r] = "done" /\ ~HasRow(r)
            /\ before = "pending"
        BY <2>2, <1>4, OutcomeRead DEF ReplayMoves, RowPlaced, Moves
      <3>2. PICK e \in RowsOf(q) : e.id = reply[r].row
        BY <3>1, <1>4 DEF HasSeen, Found
      <3>3. /\ e \in Rows /\ e.id \in Promise!Originals(r)
            /\ \A f \in Rows : f.order = req[f.id].order
        BY OriginalsAre DEF RowsOf, AnswerInv, RowsTell
      <3>4. CASE /\ \E f \in Rows : f.id = reply[r].row /\ f.order # q.order
                 /\ reply'[r] = Says("duplicate_key", None, 0)
        <4>1. after = "refused"
          BY <3>1, <3>4, <1>1, OutcomeReadNext DEF Says
        <4>2. req[e.id].order # q.order
          BY <3>2, <3>3, <3>4
        <4>3. QED
          BY <3>1, <3>3, <4>1, <4>2, <1>1, <1>2 DEF Promise!Refuse
      <3>5. CASE q.order \notin live /\ reply'[r] = Says("not_found", None, 0)
        <4>1. after = "refused"
          BY <3>1, <3>5, <1>1, OutcomeReadNext DEF Says
        <4>2. QED
          BY <3>1, <3>5, <4>1, <1>1, <1>2 DEF Promise!Refuse
      <3>6. CASE /\ ~\E f \in Rows : f.id = reply[r].row /\ f.order # q.order
                 /\ reply'[r] = Says("replayed", reply[r].row, 0)
        <4>1. after = "replayed"
          BY <3>1, <3>6, <1>1, OutcomeReadNext DEF Says
        <4>2. req[e.id].order = q.order
          BY <3>2, <3>3, <3>6
        <4>3. QED
          BY <3>1, <3>3, <4>1, <4>2, <1>1, <1>2 DEF Promise!Replay
      <3>7. QED
        BY <2>2, <3>4, <3>5, <3>6 DEF ReplayMoves, Moves
    <2>3. CASE Moves(r, "reject", "done", reply[r])
      <3>1. before = after
        BY <2>3, <1>1, <1>4, OutcomeRead, OutcomeReadNext DEF RowPlaced, Moves
      <3>2. QED
        BY <3>1, <1>3
    <2>4. CASE /\ pc[r] \notin {"idle", "done"}
               /\ pc'[r] = "done" /\ reply'[r] = Says("lost", None, 0)
      <3>1. CASE HasRow(r)
        BY <3>1, <1>1, <1>3, OutcomeRead, OutcomeReadNext
      <3>2. CASE ~HasRow(r)
        <4>1. before \in {"pending", "rejected"} /\ after = "lost"
          BY <2>4, <3>2, <1>1, OutcomeRead, OutcomeReadNext DEF Says
        <4>2. QED
          BY <4>1, <1>1, <1>2 DEF Promise!Lose
      <3>3. QED
        BY <3>1, <3>2
    <2>5. QED
      BY <1>8, LateMoves, <2>1, <2>2, <2>3, <2>4
  <1>9. QED
    BY <1>5, <1>6, <1>7, <1>8 DEF StepOf, Proceed

(* ImplementsLedger for every instance: however the statements of its      *)
(* requests interleave, wait, fail or are retried, the service is the      *)
(* ledger in which each request takes effect or is turned down in one step.*)
THEOREM LedgerImplemented == Spec => ImplementsLedger
  <1>1. Init => Promise!Init
    <2> SUFFICES ASSUME Init
                 PROVE  Promise!Init
      OBVIOUS
    <2>1. ASSUME NEW r \in Requests
          PROVE  Outcome(r) = "idle"
      BY DEF Init, Outcome, Rows, Range
    <2>2. QED
      BY <2>1 DEF Init, Promise!Init, Request, Promise!Request
  <1>2. /\ TypeOK /\ TypeOK' /\ AnswerInv /\ BalanceInv /\ OneRowPerKey /\ KeyReserved
        /\ [Next]_vars
        => [Promise!Next]_(Promise!vars)
    <2> SUFFICES ASSUME TypeOK, TypeOK', AnswerInv, BalanceInv, KeyReserved, [Next]_vars
                 PROVE  [Promise!Next]_(Promise!vars)
      OBVIOUS
    <2>1. CASE UNCHANGED vars
      <3>1. \A r \in Requests : Outcome(r)' = Outcome(r)
        BY <2>1 DEF vars, Outcome, Rows
      <3>2. QED
        BY <2>1, <3>1 DEF vars, Promise!vars
    <2>2. ASSUME NEW r \in Requests, Commit(r)
          PROVE  [Promise!Next]_(Promise!vars)
      BY <2>2, CommitAccepts DEF Promise!Next, Promise!Resolve
    <2>3. ASSUME NEW r \in Requests, StepOf(r), ~Commit(r)
          PROVE  [Promise!Next]_(Promise!vars)
      BY <2>3, StepMaps DEF Promise!Next, Promise!Resolve
    <2>4. QED
      BY <2>1, <2>2, <2>3, StepsOfRequests
  <1>3. QED
    BY <1>1, <1>2, TypeCorrect, AnswersTracked, BalanceSafe, KeysApart, PTL
    DEF Spec, ImplementsLedger, Promise!Spec

-----------------------------------------------------------------------------
(* OrderEditing: what the row locks that the two services share protect    *)
(* while edits, deletions and payments of an order interleave.             *)
Batch == [by : Edits \cup {None}, cents : Nat]

Places == {"idle", "read", "reject", "rename", "delete_lines", "deleting", "insert",
           "total", "audit", "commit", "respond", "delete_row", "cascade",
           "audit_delete", "done"}

EditTyped ==
    /\ items \in [Orders -> SUBSET Batch]
    /\ op \in [Edits -> Op]
    /\ at \in [Edits -> Places]
    /\ doomed \in [Edits -> SUBSET Batch]
    /\ answer \in [Edits -> {"none", "ok", "not_found", "not_editable", "error", "lost"}]

Relines(e) == "reline" \in op[e].does

(* The statements of a handler belong to what was asked. *)
OnCourse(e) ==
    /\ at[e] \in {"delete_row", "cascade", "audit_delete"} => op[e].does = {"delete"}
    /\ at[e] \in {"delete_lines", "deleting", "insert", "total"} => Relines(e)
    /\ at[e] \in {"read", "reject", "rename", "delete_lines", "deleting", "insert",
                  "total", "audit", "commit"} => op[e].does # {"create"}
    /\ at[e] \in {"reject", "rename", "delete_lines", "deleting", "insert", "total",
                  "audit", "commit", "respond"} => op[e].does # {"delete"}

(* e has set the total of its order, or is about to delete its row: it     *)
(* holds the row lock, and the new total still covers what is paid.        *)
RowHeld(e) ==
    LET o == op[e].order IN
    /\ at[e] = "cascade" => lock[o] = e
    /\ at[e] \in {"audit", "commit"} /\ Relines(e) =>
          lock[o] = e /\ paid[o] <= op[e].cents

(* e has inserted line items: their order is there and nobody is past the  *)
(* statement that deletes it.                                              *)
ParentKept(e) ==
    LET o == op[e].order IN
    at[e] \in {"total", "audit", "commit"} /\ Relines(e) =>
        o \in live /\ \A d \in Edits : op[d].order = o => at[d] # "cascade"

HasLogged(e) ==
    [action |-> "ORDER_UPDATED", order |-> op[e].order, by |-> e] \in orderAudit

(* What was logged and what was answered follow from how far the request   *)
(* has come.                                                               *)
LogsAndAnswers(e) ==
    /\ answer[e] # "none" => at[e] = "done"
    /\ HasLogged(e) =>
          at[e] \in {"respond", "done"} /\ answer[e] \notin {"not_found", "not_editable"}
    /\ at[e] = "respond" /\ op[e].does # {"create"} => HasLogged(e)
    /\ answer[e] = "ok" /\ op[e].does \notin {{"create"}, {"delete"}} => HasLogged(e)

(* Payments and refunds under way have an order. *)
StagedLive == \A r \in Requests : pc[r] \in Open => req[r].order \in live

Created(o) == \E a \in orderAudit : a.action = "ORDER_CREATED" /\ a.order = o

(* Only an order that was created can have been paid. *)
PaidWasCreated ==
    \A o \in Orders : (o \in live => Created(o)) /\ (~Created(o) => paid[o] = 0)

SharedInv ==
    /\ \A e \in Edits : OnCourse(e) /\ RowHeld(e) /\ ParentKept(e)
    /\ StagedLive
    /\ PaidWasCreated

-----------------------------------------------------------------------------
(* A step of request e to orders-service; a statement that fails, is the   *)
(* victim of a deadlock or meets a dead connection ends in a rollback.     *)
Rollback(e) ==
    /\ at[e] \notin {"idle", "done"}
    /\ \E status \in {"error", "lost"} : Abort(e, status)

EditMove(e) ==
    /\ \/ CreateOrder(e) \/ ReceiveEdit(e) \/ ReadOrder(e) \/ AuditEditRejection(e)
       \/ Respond(e) \/ UpdateMetadata(e) \/ DeleteLines(e) \/ LockLines(e)
       \/ InsertLines(e) \/ SetTotal(e) \/ AuditUpdate(e) \/ CommitEdit(e)
       \/ DeleteOrder(e) \/ Rollback(e)
    /\ UNCHANGED settling

SettlesOne(r) == (RecordPayment(r) \/ RecordRefund(r) \/ Fail(r)) /\ UNCHANGED editing

(* A step is that of a request of payments-service or of orders-service. *)
LEMMA StepsOfBoth ==
    ASSUME [EditNext]_allVars
    PROVE  \/ UNCHANGED allVars
           \/ \E r \in Requests : SettlesOne(r)
           \/ \E e \in Edits : EditMove(e)
  <1>1. ASSUME NEW e \in Edits, EditStep(e)
        PROVE  \E d \in Edits : EditMove(d)
    <2>1. CASE FailEdit(e) /\ UNCHANGED settling
      BY <2>1 DEF FailEdit, EditMove, Rollback
    <2>2. ASSUME NEW d \in Edits, BreakDeadlock(e, d), UNCHANGED settling
          PROVE  EditMove(e) \/ EditMove(d)
      BY <2>2 DEF BreakDeadlock, EditMove, Rollback
    <2>3. QED
      BY <1>1, <2>1, <2>2 DEF EditStep, ProceedEdit, UpdateOrder, EditMove
  <1>2. QED
    BY <1>1 DEF EditNext, SettlementStep, SettlesOne, AllQuiet

(* A step of payments-service is a step of Settlement, and takes or gives  *)
(* up no row lock but its own.                                             *)
LEMMA SettlingLocks ==
    ASSUME TypeOK, NEW r \in Requests, SettlesOne(r)
    PROVE  /\ [Next]_vars
           /\ UNCHANGED <<live, total, editing>>
           /\ \A o \in Orders, e \in Edits : lock[o] = e => lock'[o] = e
  <1>1. [Next]_vars /\ UNCHANGED editing
    BY DEF SettlesOne, Next
  <1>2. UNCHANGED <<live, total>>
    BY <1>1, OnlyCommitMoves
  <1>3. \A e \in Edits : e # r /\ e # None
    BY SettlementAssumption, EditingAssumption
  <1>4. \A o \in Orders, e \in Edits : lock[o] = e => lock'[o] = e
    BY <1>3 DEF SettlesOne, RecordPayment, RecordRefund, TypeOK, Proceed, TakeRow, TurnDown,
       Release, Receive, Lookup, Snapshot, Update, Unblock, Reread, Insert, WriteAudit,
       Commit, Confirm, Relookup, Replay, AuditRejection, Fail
  <1>5. QED
    BY <1>1, <1>2, <1>4

(* A step of orders-service leaves the other requests where they are, and  *)
(* takes or gives up no row lock but its own.                              *)
LEMMA EditingLocks ==
    ASSUME TypeOK, EditTyped, NEW e \in Edits, EditMove(e)
    PROVE  /\ UNCHANGED <<paid, ledger, audit, req, pc, newPaid, reply, op>>
           /\ \A o \in Orders, t \in (Requests \cup Edits) \ {e} : lock[o] = t => lock'[o] = t
           /\ \A d \in Edits \ {e} : at'[d] = at[d] /\ answer'[d] = answer[d]
  <1>1. \A t \in Requests \cup Edits : t # None
    BY SettlementAssumption, EditingAssumption
  <1>2. UNCHANGED <<paid, ledger, audit, req, pc, newPaid, reply>>
    BY DEF EditMove, settling
  <1>3. UNCHANGED op
    BY DEF EditMove, CreateOrder, ReceiveEdit, ReadOrder, AuditEditRejection, Respond,
       UpdateMetadata, DeleteLines, LockLines, InsertLines, SetTotal, AuditUpdate,
       CommitEdit, DeleteOrder, DeleteRow, CascadeDelete, AuditDelete, Rollback, Abort
  <1>4. \A d \in Edits \ {e} : at'[d] = at[d] /\ answer'[d] = answer[d]
    BY DEF EditTyped, EditMove, CreateOrder, ReceiveEdit, ReadOrder, AuditEditRejection,
       Respond, UpdateMetadata, DeleteLines, LockLines, InsertLines, SetTotal, AuditUpdate,
       CommitEdit, DeleteOrder, DeleteRow, CascadeDelete, AuditDelete, Rollback, Abort,
       End, Move
  <1>5. \A o \in Orders, t \in (Requests \cup Edits) \ {e} : lock[o] = t => lock'[o] = t
    BY <1>1 DEF TypeOK, EditMove, CreateOrder, ReceiveEdit, ReadOrder, AuditEditRejection,
       Respond, UpdateMetadata, DeleteLines, LockLines, InsertLines, SetTotal, AuditUpdate,
       CommitEdit, DeleteOrder, DeleteRow, CascadeDelete, AuditDelete, Rollback, Abort,
       Release
  <1>6. QED
    BY <1>2, <1>3, <1>4, <1>5

-----------------------------------------------------------------------------
(* What a request to orders-service can ask for. *)
LEMMA TotalsAreCents ==
    ASSUME EditTyped, NEW e \in Edits
    PROVE  /\ op[e].order \in Orders /\ op[e].cents \in Nat
           /\ op[e].does \in {{"rename"}, {"reline"}, {"rename", "reline"}, {"create"}, {"delete"}}
  BY SettlementAssumption DEF EditTyped, Op

(* Every step of either service keeps the variables of both typed. *)
LEMMA EditTypeKept ==
    ASSUME TypeOK, EditTyped, NEW e \in Edits, EditMove(e)
    PROVE  TypeOK' /\ EditTyped'
  <1> DEFINE o == op[e].order
             batch == [by |-> e, cents |-> op[e].cents]
  <1>1. o \in Orders /\ op[e].cents \in Nat /\ batch \in Batch
    BY TotalsAreCents DEF Batch
  <1>2. UNCHANGED <<paid, ledger, audit, req, pc, newPaid, reply, op>>
    BY EditingLocks
  <1>3. live' \in SUBSET Orders /\ total' \in [Orders -> Nat]
    BY <1>1 DEF TypeOK, EditMove, CreateOrder, ReceiveEdit, ReadOrder, AuditEditRejection,
       Respond, UpdateMetadata, DeleteLines, LockLines, InsertLines, SetTotal, AuditUpdate,
       CommitEdit, DeleteOrder, DeleteRow, CascadeDelete, AuditDelete, Rollback, Abort
  <1>4. lock' \in [Orders -> Requests \cup OtherTx \cup {None}]
    BY <1>1, EditingAssumption DEF TypeOK, EditMove, CreateOrder, ReceiveEdit, ReadOrder,
       AuditEditRejection,
       Respond, UpdateMetadata, DeleteLines, LockLines, InsertLines, SetTotal, AuditUpdate,
       CommitEdit, DeleteOrder, DeleteRow, CascadeDelete, AuditDelete, Rollback, Abort,
       Release
  <1>5. items' \in [Orders -> SUBSET Batch]
    <2>1. \/ UNCHANGED items
          \/ items' = [items EXCEPT ![o] = {batch}]
          \/ items' = [items EXCEPT ![o] = (@ \ doomed[e]) \cup {batch}]
          \/ items' = [items EXCEPT ![o] = {}]
      BY DEF EditMove, CreateOrder, ReceiveEdit, ReadOrder, AuditEditRejection,
         Respond, UpdateMetadata, DeleteLines, LockLines, InsertLines, SetTotal, AuditUpdate,
         CommitEdit, DeleteOrder, DeleteRow, CascadeDelete, AuditDelete, Rollback, Abort
    <2> HIDE DEF batch
    <2>2. QED
      BY <1>1, <2>1 DEF EditTyped
  <1>6. doomed' \in [Edits -> SUBSET Batch]
    <2>1. \/ UNCHANGED doomed
          \/ doomed' = [doomed EXCEPT ![e] = {}]
          \/ doomed' = [doomed EXCEPT ![e] = items[o]]
          \/ doomed' = [doomed EXCEPT ![e] = @ \cap items[o]]
      BY DEF EditMove, CreateOrder, ReceiveEdit, ReadOrder, AuditEditRejection,
         Respond, UpdateMetadata, DeleteLines, LockLines, InsertLines, SetTotal, AuditUpdate,
         CommitEdit, DeleteOrder, DeleteRow, CascadeDelete, AuditDelete, Rollback, Abort
    <2>2. QED
      BY <1>1, <2>1 DEF EditTyped
  <1>7. /\ at' \in [Edits -> Places]
        /\ answer' \in [Edits -> {"none", "ok", "not_found", "not_editable", "error", "lost"}]
    BY DEF EditTyped, Places, EditMove, CreateOrder, ReceiveEdit, ReadOrder, AuditEditRejection,
       Respond, UpdateMetadata, DeleteLines, LockLines, InsertLines, SetTotal, AuditUpdate,
       CommitEdit, DeleteOrder, DeleteRow, CascadeDelete, AuditDelete, Rollback, Abort,
       End, Move
  <1>8. TypeOK'
    BY <1>2, <1>3, <1>4 DEF TypeOK
  <1>9. EditTyped'
    BY <1>2, <1>5, <1>6, <1>7 DEF EditTyped
  <1>10. QED
    BY <1>8, <1>9

(* The statements of one handler follow each other. *)
LEMMA CourseKept ==
    ASSUME TypeOK, EditTyped, NEW e \in Edits, EditMove(e), OnCourse(e)
    PROVE  OnCourse(e)'
  <1>1. UNCHANGED op
    BY EditingLocks
  <1>2. op[e].does \in {{"rename"}, {"reline"}, {"rename", "reline"}, {"create"}, {"delete"}}
    BY TotalsAreCents
  <1>3. "reline" \in op[e].does => op[e].does # {"create"} /\ op[e].does # {"delete"}
    BY <1>2
  <1>4. "rename" \in op[e].does => op[e].does # {"create"} /\ op[e].does # {"delete"}
    BY <1>2
  <1>5. op[e].does \notin {{"create"}, {"delete"}} /\ "rename" \notin op[e].does =>
            "reline" \in op[e].does
    BY <1>2
  <1> HIDE <1>2
  <1> USE <1>1, <1>3, <1>4, <1>5 DEF OnCourse, Relines
  <1>6. CASE CreateOrder(e) \/ ReceiveEdit(e) \/ AuditEditRejection(e) \/ Respond(e)
    BY <1>6 DEF EditTyped, CreateOrder, ReceiveEdit, AuditEditRejection, Respond, End, Move
  <1>7. CASE ReadOrder(e)
    BY <1>7 DEF EditTyped, ReadOrder, End, Move
  <1>8. CASE UpdateMetadata(e) \/ DeleteLines(e) \/ LockLines(e)
    BY <1>8 DEF EditTyped, UpdateMetadata, DeleteLines, LockLines, Move
  <1>9. CASE InsertLines(e) \/ SetTotal(e) \/ AuditUpdate(e) \/ CommitEdit(e)
    BY <1>9 DEF EditTyped, InsertLines, SetTotal, AuditUpdate, CommitEdit, Abort, End, Move
  <1>10. CASE DeleteOrder(e) \/ Rollback(e)
    BY <1>10 DEF EditTyped, DeleteOrder, DeleteRow, CascadeDelete, AuditDelete, Rollback,
       Abort, End, Move
  <1>11. QED
    BY <1>6, <1>7, <1>8, <1>9, <1>10 DEF EditMove

-----------------------------------------------------------------------------
(* What an edit does to the orders: create one, set a total that covers    *)
(* what is paid while it holds the row lock, delete a row it holds.        *)
Touches(e, o) ==
    \/ UNCHANGED <<live, total, items>>
    \/ /\ ~Created(o) /\ Created(o)' /\ at[e] = "idle" /\ at'[e] = "respond"
       /\ live' = live \cup {o}
       /\ total' = [total EXCEPT ![o] = op[e].cents]
       /\ items' = [items EXCEPT ![o] = {[by |-> e, cents |-> op[e].cents]}]
    \/ /\ Relines(e) /\ at[e] = "commit" /\ at'[e] = "respond"
       /\ lock[o] = e /\ paid[o] <= op[e].cents
       /\ UNCHANGED live
       /\ total' = [total EXCEPT ![o] = op[e].cents]
       /\ items' = [items EXCEPT ![o] =
                     (@ \ doomed[e]) \cup {[by |-> e, cents |-> op[e].cents]}]
    \/ /\ at[e] = "cascade" /\ at'[e] = "audit_delete" /\ lock[o] = e
       /\ live' = live \ {o}
       /\ UNCHANGED total
       /\ items' = [items EXCEPT ![o] = {}]

(* Which shared columns each step of orders-service writes, and when. *)
LEMMA EditTouches ==
    ASSUME TypeOK, EditTyped, NEW e \in Edits, OnCourse(e), RowHeld(e), EditMove(e),
           NEW o \in Orders, o = op[e].order
    PROVE  Touches(e, o)
  <1>1. CASE CreateOrder(e)
    <2>1. ~Created(o)
      BY <1>1 DEF CreateOrder, Created
    <2>2. [action |-> "ORDER_CREATED", order |-> o, by |-> e] \in orderAudit'
      BY <1>1 DEF CreateOrder, Logged
    <2>3. Created(o)'
      BY <2>2 DEF Created
    <2>4. QED
      BY <1>1, <2>1, <2>3 DEF CreateOrder, Move, EditTyped, Touches
  <1>2. CASE CommitEdit(e)
    BY <1>2 DEF CommitEdit, RowHeld, Relines, Move, EditTyped, Touches
  <1>3. CASE CascadeDelete(e)
    BY <1>3 DEF CascadeDelete, RowHeld, Move, EditTyped, Touches
  <1>4. CASE \/ ReceiveEdit(e) \/ ReadOrder(e) \/ AuditEditRejection(e)
             \/ Respond(e) \/ UpdateMetadata(e) \/ DeleteLines(e) \/ LockLines(e)
             \/ InsertLines(e) \/ SetTotal(e) \/ AuditUpdate(e)
             \/ DeleteRow(e) \/ AuditDelete(e) \/ Rollback(e)
    BY <1>4 DEF ReceiveEdit, ReadOrder, AuditEditRejection, Respond, UpdateMetadata,
       DeleteLines, LockLines, InsertLines, SetTotal, AuditUpdate, DeleteRow, AuditDelete,
       Rollback, Abort, Touches
  <1>5. QED
    BY <1>1, <1>2, <1>3, <1>4 DEF EditMove, DeleteOrder

(* orders-service only adds to its audit log. *)
LEMMA LogGrows ==
    ASSUME NEW e \in Edits, EditMove(e)
    PROVE  \/ UNCHANGED orderAudit
           \/ \E action : orderAudit' = orderAudit \cup
                 {[action |-> action, order |-> op[e].order, by |-> e]}
  BY DEF EditMove, Logged, CreateOrder, ReceiveEdit, ReadOrder, AuditEditRejection,
     Respond, UpdateMetadata, DeleteLines, LockLines, InsertLines, SetTotal, AuditUpdate,
     CommitEdit, DeleteOrder, DeleteRow, CascadeDelete, AuditDelete, Rollback, Abort

(* An edit keeps the balances: it sets no total below what is paid, and    *)
(* none of an order whose balance a payment has staged.                    *)
LEMMA EditKeepsBalance ==
    ASSUME TypeOK, EditTyped, BalanceInv, SharedInv, NEW e \in Edits, EditMove(e)
    PROVE  BalanceInv' /\ StagedLive'
  <1> DEFINE o == op[e].order
  <1>1. UNCHANGED <<paid, ledger, audit, req, pc, newPaid, reply, op>>
    BY EditingLocks
  <1>2. o \in Orders /\ op[e].cents \in Nat
    BY TotalsAreCents
  <1>3. OnCourse(e) /\ RowHeld(e) /\ StagedLive /\ PaidWasCreated
    BY DEF SharedInv
  <1>4. Touches(e, o)
    BY <1>2, <1>3, EditTouches
  <1>5. ASSUME NEW r \in Requests, pc[r] \in Open
        PROVE  LET p == req[r].order IN
               /\ p \in Orders /\ lock[p] = r /\ lock'[p] = r
               /\ p \in live' /\ total'[p] = total[p]
    <2> DEFINE p == req[r].order
    <2>1. p \in Orders /\ p \in live /\ lock[p] = r /\ r # e
      BY <1>3, <1>5, SettlementAssumption, EditingAssumption
      DEF TypeOK, Request, BalanceInv, StagedIsCurrent, StagedLive, Open
    <2>2. lock'[p] = r
      BY <2>1, EditingLocks
    <2>3. p \in live' /\ total'[p] = total[p]
      BY <1>2, <1>3, <1>4, <2>1 DEF Touches, PaidWasCreated, TypeOK
    <2>4. QED
      BY <2>1, <2>2, <2>3
  <1>6. StagedIsCurrent' /\ StagedLive'
    BY <1>1, <1>5 DEF BalanceInv, StagedIsCurrent, StagedLive, Open
  <1>7. PaidWithinTotal'
    <2> SUFFICES ASSUME NEW p \in Orders
                 PROVE  0 <= paid[p] /\ paid[p] <= total'[p]
      BY <1>1 DEF PaidWithinTotal
    <2>1. 0 <= paid[p] /\ paid[p] <= total[p]
      BY DEF BalanceInv, PaidWithinTotal
    <2>2. \/ total'[p] = total[p]
          \/ p = o /\ total'[p] = op[e].cents /\ ~Created(o)
          \/ p = o /\ total'[p] = op[e].cents /\ paid[o] <= op[e].cents
      BY <1>2, <1>3, <1>4 DEF Touches, TypeOK
    <2>3. QED
      BY <1>2, <1>3, <2>1, <2>2 DEF PaidWasCreated
  <1>8. BalanceChain'
    BY <1>1 DEF BalanceInv, BalanceChain, BalanceBefore
  <1>9. QED
    BY <1>6, <1>7, <1>8 DEF BalanceInv

(* orders-service brings no order to life without its audit row. *)
LEMMA EditKeepsCreated ==
    ASSUME TypeOK, EditTyped, SharedInv, NEW e \in Edits, EditMove(e)
    PROVE  PaidWasCreated'
  <1>1. \A p \in Orders : Created(p) => Created(p)'
    BY LogGrows DEF Created
  <1>2. OnCourse(e) /\ RowHeld(e) /\ PaidWasCreated /\ paid' = paid
    BY EditingLocks DEF SharedInv
  <1>3. \A p \in live' : p \in live \/ Created(p)'
    <2>1. PICK o \in Orders : o = op[e].order
      BY TotalsAreCents
    <2>2. Touches(e, o)
      BY <1>2, <2>1, EditTouches
    <2>3. QED
      BY <2>2 DEF Touches
  <1>4. QED
    BY <1>1, <1>2, <1>3 DEF PaidWasCreated

(* The row lock of an edit and what it protects survive every other step.  *)
LEMMA OthersHold ==
    ASSUME TypeOK, EditTyped, SharedInv, NEW e \in Edits, EditMove(e),
           NEW d \in Edits, d # e
    PROVE  OnCourse(d)' /\ RowHeld(d)'
  <1>1. UNCHANGED <<paid, op>> /\ at'[d] = at[d]
    BY EditingLocks
  <1>2. lock[op[d].order] = d => lock'[op[d].order] = d
    BY TotalsAreCents, EditingLocks
  <1>3. OnCourse(d) /\ RowHeld(d)
    BY DEF SharedInv
  <1>4. QED
    BY <1>1, <1>2, <1>3 DEF OnCourse, RowHeld, Relines

(* An edit or deletion holds the row lock from its UPDATE or DELETE on.    *)
LEMMA SelfHolds ==
    ASSUME TypeOK, EditTyped, NEW e \in Edits, OnCourse(e), RowHeld(e), EditMove(e)
    PROVE  RowHeld(e)'
  <1> DEFINE o == op[e].order
  <1>1. UNCHANGED <<paid, op>> /\ o \in Orders
    BY EditingLocks, TotalsAreCents
  <1>2. CASE \/ CreateOrder(e) \/ ReceiveEdit(e) \/ ReadOrder(e) \/ AuditEditRejection(e)
             \/ Respond(e) \/ DeleteLines(e) \/ LockLines(e) \/ InsertLines(e)
             \/ CommitEdit(e) \/ CascadeDelete(e) \/ AuditDelete(e) \/ Rollback(e)
    <2>1. at'[e] \notin {"audit", "commit", "cascade"}
      BY <1>2 DEF EditTyped, CreateOrder, ReceiveEdit, ReadOrder, AuditEditRejection, Respond,
         DeleteLines, LockLines, InsertLines, CommitEdit, CascadeDelete, AuditDelete,
         Rollback, Abort, End, Move
    <2>2. QED
      BY <2>1 DEF RowHeld
  <1>3. CASE UpdateMetadata(e)
    BY <1>1, <1>3 DEF UpdateMetadata, RowHeld, Relines, Move, EditTyped
  <1>4. CASE SetTotal(e)
    BY <1>1, <1>4 DEF SetTotal, Abort, End, Move, RowHeld, TypeOK, EditTyped
  <1>5. CASE AuditUpdate(e)
    BY <1>1, <1>5 DEF AuditUpdate, RowHeld, Relines, Move, EditTyped
  <1>6. CASE DeleteRow(e)
    BY <1>1, <1>6 DEF DeleteRow, Move, RowHeld, TypeOK, EditTyped
  <1>7. QED
    BY <1>2, <1>3, <1>4, <1>5, <1>6 DEF EditMove, DeleteOrder

(* The foreign key keeps the order of new line items from being deleted:   *)
(* the INSERT waits for a deletion, and the deletion for the INSERT.       *)
LEMMA ParentsKept ==
    ASSUME TypeOK, EditTyped, SharedInv, NEW e \in Edits, EditMove(e), NEW d \in Edits
    PROVE  ParentKept(d)'
  <1> DEFINE o == op[d].order
  <1>1. UNCHANGED op /\ o \in Orders
    BY EditingLocks, TotalsAreCents
  <1>2. OnCourse(e) /\ RowHeld(e) /\ ParentKept(d)
    BY DEF SharedInv
  <1>3. SUFFICES ASSUME at'[d] \in {"total", "audit", "commit"}, Relines(d)
                 PROVE  o \in live' /\ \A f \in Edits : op[f].order = o => at'[f] # "cascade"
    BY <1>1 DEF ParentKept, Relines
  <1>4. CASE d # e
    <2>1. at[d] \in {"total", "audit", "commit"}
      BY <1>3, <1>4, EditingLocks
    <2>2. o \in live /\ \A f \in Edits : op[f].order = o => at[f] # "cascade"
      BY <1>2, <1>3, <2>1 DEF ParentKept
    <2>3. o \in live'
      <3>1. Touches(e, op[e].order)
        BY <1>2, TotalsAreCents, EditTouches
      <3>2. QED
        BY <2>2, <3>1 DEF Touches
    <2>4. KeyShared(o)
      BY <1>3, <2>1 DEF KeyShared, Relines
    <2>5. ASSUME op[e].order = o, at'[e] = "cascade"
          PROVE  FALSE
      <3>1. DeleteRow(e)
        BY <2>5, <2>2 DEF EditTyped, EditMove, CreateOrder, ReceiveEdit, ReadOrder,
           AuditEditRejection, Respond, UpdateMetadata, DeleteLines, LockLines, InsertLines,
           SetTotal, AuditUpdate, CommitEdit, DeleteOrder, CascadeDelete, AuditDelete,
           Rollback, Abort, End, Move
      <3>2. QED
        BY <3>1, <2>2, <2>4, <2>5 DEF DeleteRow, Move, EditTyped
    <2>6. QED
      BY <2>2, <2>3, <2>5, EditingLocks
  <1>5. CASE d = e
    <2>1. CASE InsertLines(e)
      <3>1. o \in live /\ live' = live /\ ~\E f \in Edits : lock[o] = f /\ at[f] = "cascade"
        BY <1>3, <1>5, <2>1 DEF InsertLines, Abort, End, Move, EditTyped
      <3>2. \A f \in Edits : op[f].order = o => at[f] # "cascade"
        BY <3>1 DEF SharedInv, RowHeld
      <3>3. \A f \in Edits : op[f].order = o => at'[f] # "cascade"
        BY <1>3, <1>5, <3>2, EditingLocks
      <3>4. QED
        BY <3>1, <3>3
    <2>2. CASE SetTotal(e) \/ AuditUpdate(e)
      <3>1. at[e] \in {"total", "audit"} /\ live' = live
        BY <1>3, <1>5, <2>2 DEF SetTotal, AuditUpdate, Abort
      <3>2. QED
        BY <1>2, <1>3, <1>5, <3>1, EditingLocks DEF ParentKept
    <2>3. CASE ~(InsertLines(e) \/ SetTotal(e) \/ AuditUpdate(e))
      BY <1>2, <1>3, <1>5, <2>3 DEF Relines, OnCourse, EditTyped, EditMove, CreateOrder,
         ReceiveEdit,
         ReadOrder, AuditEditRejection, Respond, UpdateMetadata, DeleteLines, LockLines,
         CommitEdit, DeleteOrder, DeleteRow, CascadeDelete, AuditDelete,
         Rollback, Abort, End, Move
    <2>4. QED
      BY <2>1, <2>2, <2>3
  <1>6. QED
    BY <1>4, <1>5

(* The steps of payments-service keep what the edits rely on, and what it  *)
(* relies on itself.                                                       *)
LEMMA SettlingKeepsShared ==
    ASSUME TypeOK, EditTyped, BalanceInv, SharedInv, NEW r \in Requests, SettlesOne(r)
    PROVE  SharedInv'
  <1>1. [Next]_vars /\ UNCHANGED <<live, total, editing>> /\ UNCHANGED req
    BY SettlingLocks, OnlyCommitMoves
  <1>2. /\ UNCHANGED <<at, op, orderAudit>>
        /\ \A o \in Orders, e \in Edits : lock[o] = e => lock'[o] = e
    BY <1>1, SettlingLocks DEF editing
  <1>3. ASSUME NEW p \in Orders
        PROVE  paid'[p] = paid[p] \/ (lock[p] \in Requests /\ p \in live)
    <2>1. CASE UNCHANGED paid
      BY <2>1
    <2>2. ASSUME NEW s \in Requests, Commit(s)
          PROVE  paid'[p] = paid[p] \/ (lock[p] \in Requests /\ p \in live)
      <3>1. /\ lock[req[s].order] = s /\ req[s].order \in live
            /\ paid' = [paid EXCEPT ![req[s].order] = newPaid[s]]
        BY <2>2 DEF Commit, BalanceInv, StagedIsCurrent, SharedInv, StagedLive, Open
      <3>2. QED
        BY <3>1 DEF TypeOK
    <2>3. QED
      BY <1>1, <2>1, <2>2, OnlyCommitMoves
  <1>4. ASSUME NEW e \in Edits
        PROVE  OnCourse(e)' /\ RowHeld(e)' /\ ParentKept(e)'
    <2>1. OnCourse(e) /\ RowHeld(e) /\ ParentKept(e)
      BY DEF SharedInv
    <2>2. op[e].order \in Orders /\ e \notin Requests
      BY TotalsAreCents, SettlementAssumption, EditingAssumption
    <2>3. RowHeld(e)'
      BY <1>2, <1>3, <2>1, <2>2 DEF RowHeld, Relines
    <2>4. QED
      BY <1>1, <1>2, <2>1, <2>3 DEF OnCourse, ParentKept, Relines
  <1>5. StagedLive'
    <2> SUFFICES ASSUME NEW s \in Requests, pc'[s] \in Open
                 PROVE  req[s].order \in live
      BY <1>1 DEF StagedLive
    <2>1. CASE pc[s] \in Open
      BY <2>1 DEF SharedInv, StagedLive
    <2>2. CASE pc[s] \notin Open /\ s # r
      BY <2>2, LocksOfOthers DEF SettlesOne, RecordPayment, RecordRefund
    <2>3. CASE pc[s] \notin Open /\ s = r
      BY <2>3 DEF SettlesOne, RecordPayment, RecordRefund, Proceed, GoTo, TurnDown, TakeRow,
         Matches, TypeOK, Open, Receive, Lookup, Snapshot, Update, Unblock, Reread, Insert,
         WriteAudit, Commit, Confirm, Relookup, Replay, AuditRejection, Fail
    <2>4. QED
      BY <2>1, <2>2, <2>3
  <1>6. PaidWasCreated'
    BY <1>1, <1>2, <1>3 DEF SharedInv, PaidWasCreated, Created
  <1>7. QED
    BY <1>4, <1>5, <1>6 DEF SharedInv

EditingInv == TypeOK /\ EditTyped /\ BalanceInv /\ SharedInv

(* At the start no edit is under way, and the balances are empty. *)
LEMMA EditInitShared ==
    ASSUME EditInit
    PROVE  EditingInv
  <1>1. TypeOK /\ BalanceInv
    BY InitTyped, InitBalanced DEF EditInit
  <1>2. EditTyped
    <2>1. items \in [Orders -> SUBSET Batch]
      BY <1>1 DEF EditInit, Batch, TypeOK
    <2>2. QED
      BY <2>1 DEF EditInit, EditTyped, Places
  <1>3. PaidWasCreated
    <2>1. \A o \in Orders : paid[o] = 0
      BY DEF EditInit, Init
    <2>2. ASSUME NEW o \in live
          PROVE  Created(o)
      <3>1. [action |-> "ORDER_CREATED", order |-> o, by |-> None] \in orderAudit
        BY DEF EditInit
      <3>2. QED
        BY <3>1 DEF Created
    <2>3. QED
      BY <2>1, <2>2 DEF PaidWasCreated
  <1>4. StagedLive /\ \A e \in Edits : OnCourse(e) /\ RowHeld(e) /\ ParentKept(e)
    BY DEF EditInit, Init, StagedLive, Open, OnCourse, RowHeld, ParentKept
  <1>5. QED
    BY <1>1, <1>2, <1>3, <1>4 DEF EditingInv, SharedInv

(* Every step of either service keeps the inductive invariant. *)
LEMMA EditingKept ==
    ASSUME EditingInv, [EditNext]_allVars
    PROVE  EditingInv'
  <1> USE DEF EditingInv
  <1>1. CASE UNCHANGED allVars
    BY <1>1 DEF allVars, vars, orderRow, editing, TypeOK, EditTyped, BalanceInv, PaidWithinTotal,
       BalanceChain, BalanceBefore, StagedIsCurrent, SharedInv, OnCourse, RowHeld,
       ParentKept, Relines, StagedLive, PaidWasCreated, Created
  <1>2. ASSUME NEW r \in Requests, SettlesOne(r)
        PROVE  EditingInv'
    <2>1. [Next]_vars /\ UNCHANGED editing
      BY <1>2, SettlingLocks
    <2>2. TypeOK' /\ BalanceInv'
      BY <2>1, TypeKept, BalanceKept
    <2>3. EditTyped'
      BY <2>1 DEF editing, EditTyped
    <2>4. SharedInv'
      BY <1>2, SettlingKeepsShared
    <2>5. QED
      BY <2>2, <2>3, <2>4
  <1>3. ASSUME NEW e \in Edits, EditMove(e)
        PROVE  EditingInv'
    <2>1. TypeOK' /\ EditTyped'
      BY <1>3, EditTypeKept
    <2>2. BalanceInv' /\ StagedLive'
      BY <1>3, EditKeepsBalance
    <2>3. PaidWasCreated'
      BY <1>3, EditKeepsCreated
    <2>4. ASSUME NEW d \in Edits
          PROVE  OnCourse(d)' /\ RowHeld(d)' /\ ParentKept(d)'
      <3>1. ParentKept(d)'
        BY <1>3, ParentsKept
      <3>2. CASE d # e
        BY <1>3, <3>1, <3>2, OthersHold
      <3>3. CASE d = e
        BY <1>3, <3>1, <3>3, CourseKept, SelfHolds DEF SharedInv
      <3>4. QED
        BY <3>2, <3>3
    <2>5. SharedInv'
      BY <2>2, <2>3, <2>4 DEF SharedInv
    <2>6. QED
      BY <2>1, <2>2, <2>5
  <1>4. QED
    BY <1>1, <1>2, <1>3, StepsOfBoth

(* Both services keep what they rely on of each other.                     *)
LEMMA EditingSafe == EditSpec => []EditingInv
  BY EditInitShared, EditingKept, PTL DEF EditSpec

(* OrderBalance for every instance: whatever edits, deletions and payments *)
(* race, no order owes less than nothing, and its paid amount is the       *)
(* running balance of its payments and refunds.                            *)
THEOREM OrdersCovered == EditSpec => []OrderBalance
  <1>1. EditingInv => OrderBalance
    BY DEF EditingInv, BalanceInv, PaidWithinTotal, OrderBalance, TypeOK
  <1>2. QED
    BY <1>1, EditingSafe, PTL

-----------------------------------------------------------------------------
(* LinesHaveOrder for every instance: an edit and a deletion that race     *)
(* leave neither orphaned line items nor an order without any.             *)
THEOREM NoOrphanedLines == EditSpec => []LinesHaveOrder
  <1>1. EditInit => LinesHaveOrder
    BY DEF EditInit, Init, LinesHaveOrder
  <1>2. EditingInv /\ LinesHaveOrder /\ [EditNext]_allVars => LinesHaveOrder'
    <2> SUFFICES ASSUME EditingInv, LinesHaveOrder, [EditNext]_allVars
                 PROVE  LinesHaveOrder'
      OBVIOUS
    <2>1. CASE UNCHANGED allVars
      BY <2>1 DEF allVars, vars, orderRow, editing, LinesHaveOrder
    <2>2. ASSUME NEW r \in Requests, SettlesOne(r)
          PROVE  LinesHaveOrder'
      <3>1. UNCHANGED live /\ UNCHANGED items
        BY <2>2, SettlingLocks DEF editing, EditingInv
      <3>2. QED
        BY <3>1 DEF LinesHaveOrder
    <2>3. ASSUME NEW e \in Edits, EditMove(e)
          PROVE  LinesHaveOrder'
      <3>1. PICK o \in Orders : o = op[e].order
        BY TotalsAreCents DEF EditingInv
      <3>2. OnCourse(e) /\ RowHeld(e) /\ ParentKept(e)
        BY DEF EditingInv, SharedInv
      <3>3. Touches(e, o)
        BY <2>3, <3>1, <3>2, EditTouches DEF EditingInv
      <3>4. Relines(e) /\ at[e] = "commit" => o \in live
        BY <3>1, <3>2 DEF ParentKept
      <3>5. items \in [Orders -> SUBSET Batch]
        BY DEF EditingInv, EditTyped
      <3>6. QED
        BY <3>3, <3>4, <3>5 DEF Touches, LinesHaveOrder
    <2>4. QED
      BY <2>1, <2>2, <2>3, StepsOfBoth
  <1>3. QED
    BY <1>1, <1>2, EditingSafe, PTL DEF EditSpec

(* What a request logs and answers follows the statements of its handler.  *)
LEMMA LogsFollow ==
    ASSUME EditTyped, NEW e \in Edits, OnCourse(e), LogsAndAnswers(e), TypeOK, EditMove(e)
    PROVE  LogsAndAnswers(e)'
  <1> DEFINE o == op[e].order
  <1>1. UNCHANGED op
    BY EditingLocks
  <1>2. HasLogged(e)' <=>
          [action |-> "ORDER_UPDATED", order |-> o, by |-> e] \in orderAudit'
    BY <1>1 DEF HasLogged
  <1>3. ASSUME ~CommitEdit(e)
        PROVE  HasLogged(e)' <=> HasLogged(e)
    <2>1. \/ UNCHANGED orderAudit
          \/ \E action \in {"ORDER_CREATED", "ORDER_EDIT_REJECTED", "ORDER_DELETED"} :
                orderAudit' = orderAudit \cup {[action |-> action, order |-> o, by |-> e]}
      BY <1>3 DEF EditMove, Logged, CreateOrder, ReceiveEdit, ReadOrder, AuditEditRejection,
         Respond, UpdateMetadata, DeleteLines, LockLines, InsertLines, SetTotal, AuditUpdate,
         DeleteOrder, DeleteRow, CascadeDelete, AuditDelete, Rollback, Abort
    <2>2. QED
      BY <1>2, <2>1 DEF HasLogged
  <1>4. CASE CommitEdit(e)
    <2>1. HasLogged(e)'
      BY <1>2, <1>4 DEF CommitEdit, Logged
    <2>2. QED
      BY <1>1, <1>4, <2>1 DEF CommitEdit, Move, EditTyped, LogsAndAnswers
  <1>5. CASE CreateOrder(e) \/ ReceiveEdit(e)
    BY <1>1, <1>3, <1>5 DEF CreateOrder, ReceiveEdit, CommitEdit, Move, EditTyped, LogsAndAnswers
  <1>6. CASE ReadOrder(e) \/ AuditEditRejection(e)
    BY <1>1, <1>3, <1>6 DEF ReadOrder, AuditEditRejection, CommitEdit, End, Move, EditTyped,
       LogsAndAnswers
  <1>7. CASE Respond(e)
    BY <1>1, <1>3, <1>7 DEF Respond, CommitEdit, End, Move, EditTyped, LogsAndAnswers
  <1>8. CASE UpdateMetadata(e) \/ DeleteLines(e) \/ LockLines(e) \/ AuditUpdate(e)
    BY <1>1, <1>3, <1>8 DEF UpdateMetadata, DeleteLines, LockLines, AuditUpdate, CommitEdit,
       Move, EditTyped, LogsAndAnswers
  <1>9. CASE InsertLines(e) \/ SetTotal(e)
    BY <1>1, <1>3, <1>9 DEF InsertLines, SetTotal, CommitEdit, Abort, End, Move, EditTyped,
       LogsAndAnswers
  <1>10. CASE DeleteOrder(e)
    BY <1>1, <1>3, <1>10 DEF DeleteOrder, DeleteRow, CascadeDelete, AuditDelete, CommitEdit,
       End, Move, EditTyped, LogsAndAnswers, OnCourse
  <1>11. CASE Rollback(e)
    BY <1>1, <1>3, <1>11 DEF Rollback, CommitEdit, Abort, End, Move, EditTyped, LogsAndAnswers
  <1>12. QED
    BY <1>4, <1>5, <1>6, <1>7, <1>8, <1>9, <1>10, <1>11 DEF EditMove

(* EditAudited for every instance: an edit that was answered 200 has its   *)
(* audit record, and one that was turned down has none.                    *)
THEOREM EditsAudited == EditSpec => []EditAudited
  <1> DEFINE Logs == \A e \in Edits : LogsAndAnswers(e)
  <1>1. EditInit => Logs
    <2> SUFFICES ASSUME EditInit, NEW e \in Edits
                 PROVE  LogsAndAnswers(e)
      OBVIOUS
    <2>1. ~HasLogged(e)
      BY DEF EditInit, HasLogged
    <2>2. QED
      BY <2>1 DEF EditInit, LogsAndAnswers
  <1>2. EditingInv /\ Logs /\ [EditNext]_allVars => Logs'
    <2> SUFFICES ASSUME EditingInv, Logs, [EditNext]_allVars, NEW d \in Edits
                 PROVE  LogsAndAnswers(d)'
      OBVIOUS
    <2>1. LogsAndAnswers(d)
      OBVIOUS
    <2>2. CASE UNCHANGED <<op, at, answer, orderAudit>>
      BY <2>1, <2>2 DEF LogsAndAnswers, HasLogged
    <2>3. ASSUME NEW e \in Edits, EditMove(e), d # e
          PROVE  LogsAndAnswers(d)'
      <3>1. UNCHANGED op /\ at'[d] = at[d] /\ answer'[d] = answer[d]
        BY <2>3, EditingLocks DEF EditingInv
      <3>2. HasLogged(d)' <=> HasLogged(d)
        BY <2>3, <3>1, LogGrows DEF HasLogged
      <3>3. QED
        BY <2>1, <3>1, <3>2 DEF LogsAndAnswers
    <2>4. ASSUME NEW e \in Edits, EditMove(e), d = e
          PROVE  LogsAndAnswers(d)'
      BY <2>1, <2>4, LogsFollow DEF EditingInv, SharedInv
    <2>5. ASSUME NEW r \in Requests, SettlesOne(r)
          PROVE  UNCHANGED <<op, at, answer, orderAudit>>
      BY <2>5 DEF SettlesOne, editing
    <2>6. QED
      BY <2>2, <2>3, <2>4, <2>5, StepsOfBoth DEF allVars, editing
  <1>3. Logs => EditAudited
    BY DEF EditAudited, LogsAndAnswers, HasLogged
  <1>4. QED
    BY <1>1, <1>2, <1>3, EditingSafe, PTL DEF EditSpec
=============================================================================
