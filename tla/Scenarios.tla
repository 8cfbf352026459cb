------------------------------ MODULE Scenarios ------------------------------
(***************************************************************************)
(* The scenarios of packages/test-scenarios: what the suite runner sends   *)
(* to the services and what it expects of the answers.  An amount is in *)
(* dollars, as there, except in amountEdges, which is about cents.         *)
(***************************************************************************)
EXTENDS OrderApi, Sequences, SequencesExt

-----------------------------------------------------------------------------
(* dueDateOffset: a day so far from the present one of UTC, in hours. *)
Days(n) == 24 * n

(* One request, and one expectation: a status and what some fields of the  *)
(* answer must be.  `capture` names the id that later steps use.           *)
Http(op, order, amount) ==
    [kind |-> "http", op |-> op, order |-> order, amount |-> amount, key |-> NoKey,
     asUser |-> 1, customer |-> "given", dueIn |-> Days(14), valid |-> TRUE,
     status |-> 201, assert |-> <<>>, capture |-> None, same |-> None]

Parallel(steps, successes, failures, after) ==
    [kind |-> "parallel", steps |-> steps, successCount |-> successes,
     failureCount |-> failures, after |-> after]

Order(capture, total) == [Http("create", None, total) EXCEPT !.capture = capture]
Pay(order, amount) == Http("payment", order, amount)
Refund(order, amount) == Http("refund", order, amount)
Look(order) == [Http("get", order, 0) EXCEPT !.status = 200]
Lines(order, total) == [Http("lines", order, total) EXCEPT !.status = 200]

Expect(step, asserts) == [step EXCEPT !.assert = asserts]
Refused(step, status, asserts) == [step EXCEPT !.status = status, !.assert = asserts]
With(step, key) == [step EXCEPT !.key = key]

Paid(p) == "paid" :> p
Due(d) == "due" :> d
State(s) == "state" :> s
Code(c) == "code" :> c
Editable(b) == "editable" :> b

-----------------------------------------------------------------------------
assignmentSample == <<
    Expect(Order("orderId", 1000), ("total" :> 1000) @@ State("pending") @@ Due(1000)),
    Expect(Pay("orderId", 400), Paid(400) @@ Due(600) @@ State("partially_paid")),
    Expect(Pay("orderId", 600), Paid(1000) @@ Due(0) @@ State("paid")),
    Refused(Pay("orderId", 1), 409,
            Code("PAYMENT_EXCEEDS_REMAINING_BALANCE") @@ ("remaining" :> 0)),
    Expect(Look("orderId"), Paid(1000) @@ Due(0) @@ State("paid")) >>

paymentAllocation == <<
    Order("orderId", 300),
    Expect(Pay("orderId", 100), Paid(100) @@ Due(200) @@ State("partially_paid")),
    Expect(Pay("orderId", 50), Paid(150) @@ Due(150)),
    Expect(Pay("orderId", 150), Paid(300) @@ Due(0) @@ State("paid")) >>

amountEdges == <<
    Order("orderId", 1000),
    Refused(Pay("orderId", 0), 400, <<>>),
    Refused(Pay("orderId", -100), 400, <<>>),
    Expect(Pay("orderId", 1), Paid(1) @@ Due(999)) >>

overpaymentRejected == <<
    Order("orderId", 1000),
    Expect(Pay("orderId", 600), Due(400)),
    Refused(Pay("orderId", 401), 409,
            Code("PAYMENT_EXCEEDS_REMAINING_BALANCE") @@ ("remaining" :> 400)),
    Expect(Look("orderId"), Paid(600) @@ Due(400)) >>

concurrencyRace == <<
    Order("orderId", 1000),
    Expect(Pay("orderId", 400), Due(600)),
    Parallel(<<Pay("orderId", 600), Pay("orderId", 600)>>, 1, 1,
             <<Expect(Look("orderId"), Paid(1000) @@ Due(0) @@ State("paid"))>>) >>

idempotencyReplay == <<
    Order("orderId", 500),
    [With(Expect(Pay("orderId", 200), Paid(200)), "idem") EXCEPT !.capture = "paymentId"],
    [With(Refused(Pay("orderId", 200), 200, Paid(200)), "idem") EXCEPT !.same = "paymentId"] >>

idempotencyWrongOrder == <<
    Order("orderA", 100),
    Order("orderB", 100),
    With(Pay("orderA", 50), "cross"),
    With(Refused(Pay("orderB", 50), 409, Code("DUPLICATE_IDEMPOTENCY_KEY")), "cross") >>

refundHappyPath == <<
    Order("orderId", 200),
    Expect(Pay("orderId", 200), State("paid")),
    Expect(Look("orderId"), Editable(FALSE)),
    Expect(Refund("orderId", 80), Paid(120) @@ Due(80) @@ State("partially_paid")),
    Refused(Refund("orderId", 200), 409, Code("REFUND_EXCEEDS_AMOUNT_PAID")),
    Expect(Refund("orderId", 120), Paid(0)),
    Expect(Look("orderId"), Paid(0) @@ Editable(TRUE)) >>

statusTransitions == <<
    Expect(Order("orderId", 100), State("pending")),
    Expect(Pay("orderId", 40), State("partially_paid")),
    Expect(Pay("orderId", 60), State("paid")),
    Expect([Order("overdueId", 50) EXCEPT !.dueIn = Days(-3)], State("overdue")),
    Expect(Pay("overdueId", 50), State("paid")) >>

authorizationIsolation == <<
    Order("orderId", 100),
    [Refused(Look("orderId"), 404, Code("ORDER_NOT_FOUND")) EXCEPT !.asUser = 2],
    [Refused(Pay("orderId", 10), 404, Code("ORDER_NOT_FOUND")) EXCEPT !.asUser = 2] >>

editability == <<
    Expect(Order("orderId", 100), Editable(TRUE)),
    Expect(Lines("orderId", 100), "total" :> 100),
    Pay("orderId", 10),
    Refused(Lines("orderId", 999), 409, Code("ORDER_NOT_EDITABLE")),
    Expect([Look("orderId") EXCEPT !.op = "rename", !.customer = "renamed"],
           "customer" :> "renamed") >>

validationErrors == <<
    [Refused(Order(None, 0), 400, Code("VALIDATION_ERROR")) EXCEPT !.valid = FALSE],
    [Refused(Order(None, 10), 400, Code("VALIDATION_ERROR")) EXCEPT !.valid = FALSE] >>

-----------------------------------------------------------------------------
ALL_SCENARIOS ==
    [assignment |-> assignmentSample, allocation |-> paymentAllocation,
     amounts |-> amountEdges, status |-> statusTransitions,
     overpayment |-> overpaymentRejected, concurrency |-> concurrencyRace,
     replay |-> idempotencyReplay, wrong_order |-> idempotencyWrongOrder,
     authorization |-> authorizationIsolation, editability |-> editability,
     refunds |-> refundHappyPath, validation |-> validationErrors]

(* The order in which they run. *)
ScenarioOrder ==
    <<"assignment", "allocation", "amounts", "status", "overpayment", "concurrency",
      "replay", "wrong_order", "authorization", "editability", "refunds", "validation">>

(* No selection means all of them. *)
getScenarios(suiteIds) ==
    IF suiteIds = {} THEN ScenarioOrder
    ELSE SelectSeq(ScenarioOrder, LAMBDA s : s \in suiteIds)

needsSecondUser == {"authorization"}

=============================================================================
