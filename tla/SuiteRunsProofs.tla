-------------------------- MODULE SuiteRunsProofs --------------------------
(***************************************************************************)
(* Theorems of SuiteRuns for every set of runs, every plan made of the     *)
(* scenarios of the catalogue, and every number of failures: a run that    *)
(* ends leaves nothing behind, and what a failed cleanup leaves is found.  *)
(***************************************************************************)
EXTENDS SuiteRuns, TLAPS

-----------------------------------------------------------------------------
(* What the requests of the scenarios have in common. *)
Operations == {"create", "get", "lines", "rename", "delete", "payment", "refund"}
StepFields ==
    {"kind", "op", "order", "amount", "key", "asUser", "customer", "dueIn", "valid",
     "status", "assert", "capture", "same"}

(* A step is one request, of the run's users numbered us. *)
Request(step, us) ==
    /\ step = [f \in StepFields |-> step[f]]
    /\ step["kind"] = "http" /\ step["op"] \in Operations /\ step["asUser"] \in us

StepFit(step, us) ==
    \/ Request(step, us)
    \/ /\ step.kind = "parallel"
       /\ \A c \in DOMAIN step.steps : Request(step.steps[c], us)
       /\ Len(step.after) \in Nat
       /\ \A n \in 1 .. Len(step.after) : Request(step.after[n], us)

ScenarioFit(scenario, us) ==
    /\ Len(scenario) \in Nat \ {0}
    /\ \A i \in 1 .. Len(scenario) : StepFit(scenario[i], us)

UsersOf(name) == IF name \in needsSecondUser THEN {1, 2} ELSE {1}

(* A request is one whatever is expected of its answer. *)
LEMMA HttpRequest ==
    ASSUME NEW us, 1 \in us, NEW op \in Operations, NEW order, NEW amount
    PROVE  Request(Http(op, order, amount), us)
  BY DEF Request, Http, StepFields

LEMMA StatusChanged ==
    ASSUME NEW us, NEW s, Request(s, us), NEW v
    PROVE  Request([s EXCEPT !.status = v], us)
  BY DEF Request, StepFields

LEMMA Captured ==
    ASSUME NEW us, NEW s, Request(s, us), NEW v
    PROVE  Request([s EXCEPT !.capture = v], us)
  BY DEF Request, StepFields

LEMMA SameExpected ==
    ASSUME NEW us, NEW s, Request(s, us), NEW v
    PROVE  Request([s EXCEPT !.same = v], us)
  BY DEF Request, StepFields

LEMMA DueOn ==
    ASSUME NEW us, NEW s, Request(s, us), NEW v
    PROVE  Request([s EXCEPT !.dueIn = v], us)
  BY DEF Request, StepFields

LEMMA InvalidOrder ==
    ASSUME NEW us, NEW s, Request(s, us), NEW v
    PROVE  Request([s EXCEPT !.valid = v], us)
  BY DEF Request, StepFields

LEMMA Renamed ==
    ASSUME NEW us, NEW s, Request(s, us), NEW v
    PROVE  Request([s EXCEPT !.op = "rename", !.customer = v], us)
  BY DEF Request, StepFields, Operations

LEMMA SecondUser ==
    ASSUME NEW us, NEW s, Request(s, us), 2 \in us
    PROVE  Request([s EXCEPT !.asUser = 2], us)
  BY DEF Request, StepFields

LEMMA Expected ==
    ASSUME NEW us, NEW s, Request(s, us), NEW v
    PROVE  Request(Expect(s, v), us)
  BY DEF Request, StepFields, Expect

LEMMA WithKey ==
    ASSUME NEW us, NEW s, Request(s, us), NEW v
    PROVE  Request(With(s, v), us)
  BY DEF Request, StepFields, With

LEMMA Rejected ==
    ASSUME NEW us, NEW s, Request(s, us), NEW status, NEW v
    PROVE  Request(Refused(s, status, v), us)
  BY DEF Request, StepFields, Refused

LEMMA Made ==
    ASSUME NEW us, 1 \in us, NEW order, NEW amount
    PROVE  /\ Request(Order(order, amount), us) /\ Request(Pay(order, amount), us)
           /\ Request(Refund(order, amount), us) /\ Request(Lines(order, amount), us)
  <1>1. /\ Request(Http("create", None, amount), us) /\ Request(Http("payment", order, amount), us)
        /\ Request(Http("refund", order, amount), us) /\ Request(Http("lines", order, amount), us)
    BY HttpRequest DEF Operations
  <1>2. Request(Order(order, amount), us)
    BY <1>1, Captured DEF Order
  <1>3. Request(Lines(order, amount), us)
    BY <1>1, StatusChanged DEF Lines
  <1>4. QED
    BY <1>1, <1>2, <1>3 DEF Pay, Refund

LEMMA Looked ==
    ASSUME NEW us, 1 \in us, NEW order
    PROVE  Request(Look(order), us)
  <1>1. Request(Http("get", order, 0), us)
    BY HttpRequest DEF Operations
  <1>2. QED
    BY <1>1, StatusChanged DEF Look

(* The catalogue: every scenario has steps, and only those of a suite that *)
(* needs a second user send requests of one.                               *)
LEMMA Catalogue ==
    ASSUME NEW name \in DOMAIN ALL_SCENARIOS
    PROVE  ScenarioFit(ALL_SCENARIOS[name], UsersOf(name))
  <1> DEFINE us == {1}
             vs == {1, 2}
  <1>1. ScenarioFit(assignmentSample, us)
    <2>1. /\ Request(assignmentSample[1], us) /\ Request(assignmentSample[2], us)
          /\ Request(assignmentSample[3], us) /\ Request(assignmentSample[4], us)
          /\ Request(assignmentSample[5], us)
      BY Made, Looked, Expected, Rejected DEF assignmentSample
    <2>2. Len(assignmentSample) = 5
      BY DEF assignmentSample
    <2>3. QED
      BY <2>1, <2>2 DEF ScenarioFit, StepFit
  <1>2. ScenarioFit(paymentAllocation, us)
    <2>1. /\ Request(paymentAllocation[1], us) /\ Request(paymentAllocation[2], us)
          /\ Request(paymentAllocation[3], us) /\ Request(paymentAllocation[4], us)
      BY Made, Looked, Expected, Rejected DEF paymentAllocation
    <2>2. Len(paymentAllocation) = 4
      BY DEF paymentAllocation
    <2>3. QED
      BY <2>1, <2>2 DEF ScenarioFit, StepFit
  <1>3. ScenarioFit(amountEdges, us)
    <2>1. /\ Request(amountEdges[1], us) /\ Request(amountEdges[2], us)
          /\ Request(amountEdges[3], us) /\ Request(amountEdges[4], us)
      BY Made, Looked, Expected, Rejected DEF amountEdges
    <2>2. Len(amountEdges) = 4
      BY DEF amountEdges
    <2>3. QED
      BY <2>1, <2>2 DEF ScenarioFit, StepFit
  <1>4. ScenarioFit(statusTransitions, us)
    <2>1. /\ Request(statusTransitions[1], us) /\ Request(statusTransitions[2], us)
          /\ Request(statusTransitions[3], us) /\ Request(statusTransitions[4], us)
          /\ Request(statusTransitions[5], us)
      BY Made, Looked, Expected, Rejected, DueOn DEF statusTransitions
    <2>2. Len(statusTransitions) = 5
      BY DEF statusTransitions
    <2>3. QED
      BY <2>1, <2>2 DEF ScenarioFit, StepFit
  <1>5. ScenarioFit(overpaymentRejected, us)
    <2>1. /\ Request(overpaymentRejected[1], us) /\ Request(overpaymentRejected[2], us)
          /\ Request(overpaymentRejected[3], us) /\ Request(overpaymentRejected[4], us)
      BY Made, Looked, Expected, Rejected DEF overpaymentRejected
    <2>2. Len(overpaymentRejected) = 4
      BY DEF overpaymentRejected
    <2>3. QED
      BY <2>1, <2>2 DEF ScenarioFit, StepFit
  <1>6. ScenarioFit(idempotencyReplay, us)
    <2>1. /\ Request(idempotencyReplay[1], us) /\ Request(idempotencyReplay[2], us)
          /\ Request(idempotencyReplay[3], us)
      BY Made, Looked, Expected, Rejected, WithKey, Captured, SameExpected DEF idempotencyReplay
    <2>2. Len(idempotencyReplay) = 3
      BY DEF idempotencyReplay
    <2>3. QED
      BY <2>1, <2>2 DEF ScenarioFit, StepFit
  <1>7. ScenarioFit(idempotencyWrongOrder, us)
    <2>1. /\ Request(idempotencyWrongOrder[1], us) /\ Request(idempotencyWrongOrder[2], us)
          /\ Request(idempotencyWrongOrder[3], us) /\ Request(idempotencyWrongOrder[4], us)
      BY Made, Looked, Expected, Rejected, WithKey DEF idempotencyWrongOrder
    <2>2. Len(idempotencyWrongOrder) = 4
      BY DEF idempotencyWrongOrder
    <2>3. QED
      BY <2>1, <2>2 DEF ScenarioFit, StepFit
  <1>8. ScenarioFit(editability, us)
    <2>1. /\ Request(editability[1], us) /\ Request(editability[2], us)
          /\ Request(editability[3], us) /\ Request(editability[4], us)
      <3>1. Request(editability[1], us)
        BY Made, Expected DEF editability
      <3>2. Request(editability[2], us)
        BY Made, Expected DEF editability
      <3>3. Request(editability[3], us)
        BY Made DEF editability
      <3>4. Request(editability[4], us)
        BY Made, Rejected DEF editability
      <3>5. QED
        BY <3>1, <3>2, <3>3, <3>4
    <2>2. Request(editability[5], us)
      <3>1. Request([Look("orderId") EXCEPT !.op = "rename", !.customer = "renamed"], us)
        BY Looked, Renamed
      <3>2. QED
        BY <3>1, Expected DEF editability
    <2>3. Len(editability) = 5
      BY DEF editability
    <2>4. QED
      BY <2>1, <2>2, <2>3 DEF ScenarioFit, StepFit
  <1>9. ScenarioFit(refundHappyPath, us)
    <2>1. /\ Request(refundHappyPath[1], us) /\ Request(refundHappyPath[2], us)
          /\ Request(refundHappyPath[3], us) /\ Request(refundHappyPath[4], us)
          /\ Request(refundHappyPath[5], us) /\ Request(refundHappyPath[6], us)
          /\ Request(refundHappyPath[7], us)
      BY Made, Looked, Expected, Rejected DEF refundHappyPath
    <2>2. Len(refundHappyPath) = 7
      BY DEF refundHappyPath
    <2>3. QED
      BY <2>1, <2>2 DEF ScenarioFit, StepFit
  <1>10. ScenarioFit(validationErrors, us)
    <2>1. /\ Request(validationErrors[1], us) /\ Request(validationErrors[2], us)
      BY Made, Looked, Expected, Rejected, InvalidOrder DEF validationErrors
    <2>2. Len(validationErrors) = 2
      BY DEF validationErrors
    <2>3. QED
      BY <2>1, <2>2 DEF ScenarioFit, StepFit
  <1>11. ScenarioFit(authorizationIsolation, vs)
    <2>1. /\ Request(authorizationIsolation[1], vs) /\ Request(authorizationIsolation[2], vs)
          /\ Request(authorizationIsolation[3], vs)
      BY Made, Looked, Rejected, SecondUser DEF authorizationIsolation
    <2>2. Len(authorizationIsolation) = 3
      BY DEF authorizationIsolation
    <2>3. QED
      BY <2>1, <2>2 DEF ScenarioFit, StepFit
  <1>12. ScenarioFit(concurrencyRace, us)
    <2>1. PICK last : last = concurrencyRace[3]
      OBVIOUS
    <2>2. Request(concurrencyRace[1], us) /\ Request(concurrencyRace[2], us)
      BY Made, Expected DEF concurrencyRace
    <2>3. StepFit(last, us)
      <3>1. PICK steps, after : /\ last.kind = "parallel" /\ last.steps = steps /\ last.after = after
                                /\ steps = <<Pay("orderId", 600), Pay("orderId", 600)>>
                                /\ after = <<Expect(Look("orderId"),
                                                    Paid(1000) @@ Due(0) @@ State("paid"))>>
        BY <2>1 DEF concurrencyRace, Parallel
      <3>2. \A c \in DOMAIN steps : Request(steps[c], us)
        BY <3>1, Made
      <3>3. Len(after) = 1 /\ Request(after[1], us)
        BY <3>1, Looked, Expected
      <3>4. QED
        BY <3>1, <3>2, <3>3 DEF StepFit
    <2>4. Len(concurrencyRace) = 3
      BY DEF concurrencyRace
    <2>5. QED
      BY <2>1, <2>2, <2>3, <2>4 DEF ScenarioFit, StepFit
  <1>13. QED
    <2> HIDE DEF us, vs
    <2>1. UsersOf(name) = IF name = "authorization" THEN vs ELSE us
      BY DEF UsersOf, needsSecondUser, us, vs
    <2>2. QED
      BY <1>1, <1>2, <1>3, <1>4, <1>5, <1>6, <1>7, <1>8, <1>9, <1>10, <1>11, <1>12, <2>1
         DEF ALL_SCENARIOS

-----------------------------------------------------------------------------
(* What a request does to the tables: a new order or row is of the user    *)
(* who asks for it, and no order changes hands.                            *)
Kinds == {"payment", "refund"}

Tables == (\A i \in DOMAIN orders : "owner" \in DOMAIN orders[i]) /\ \A e \in rows : e.kind \in Kinds

(* The tables os and rs, compared with the current ones, after a request   *)
(* id of u.                                                                *)
SameOwners(os, u, id) ==
    \A i \in DOMAIN os :
        /\ "owner" \in DOMAIN os[i]
        /\ \/ i = id /\ os[i].owner = u
           \/ i \in DOMAIN orders /\ os[i].owner = orders[i].owner
OwnRows(rs, u, id) ==
    \A e \in rs : e.kind \in Kinds /\ (e \in rows \/ (e.user = u /\ e.id = id))

LEMMA RequestOwned ==
    ASSUME Tables, NEW q, q.op \in Operations
    PROVE  SameOwners(Handle(q).orders, q.user, q.id) /\ OwnRows(Handle(q).rows, q.user, q.id)
  <1> DEFINE Owned(out) == SameOwners(out.orders, q.user, q.id) /\ OwnRows(out.rows, q.user, q.id)
  <1>1. SameOwners(orders, q.user, q.id) /\ OwnRows(rows, q.user, q.id)
    BY DEF SameOwners, OwnRows, Tables
  <1>2. \A res, os, rs : SameOwners(os, q.user, q.id) /\ OwnRows(rs, q.user, q.id) => Owned(Outcome(res, os, rs))
    BY DEF Outcome
  <1>3. \A res : Owned(Only(res))
    BY <1>1, <1>2 DEF Only
  <1>4. \A res, os : SameOwners(os, q.user, q.id) => Owned(Outcome(res, os, rows))
    BY <1>1, <1>2
  <1> HIDE DEF Owned
  <1>5. ASSUME NEW new, "owner" \in DOMAIN new, new.owner = q.user
        PROVE  /\ SameOwners([i \in DOMAIN orders \cup {q.id} |-> IF i = q.id THEN new ELSE orders[i]],
                             q.user, q.id)
               /\ Mine(q) => SameOwners([orders EXCEPT ![q.order] = new], q.user, q.id)
    BY <1>5 DEF SameOwners, Tables, Mine
  <1>6. SameOwners([i \in DOMAIN orders \ {q.order} |-> orders[i]], q.user, q.id)
    BY DEF SameOwners, Tables
  <1>7. Mine(q) => /\ "owner" \in DOMAIN orders[q.order] /\ orders[q.order].owner = q.user
    BY DEF Mine, Tables
  <1>8. CASE q.op = "create"
    <2>1. Handle(q) = CreateOrder(q)
      BY <1>8 DEF Handle
    <2>2. Owned(CreateOrder(q))
      <3>1. CASE ~q.valid
        BY <1>3, <3>1 DEF CreateOrder
      <3>2. CASE q.valid
        <4> DEFINE new == [id |-> q.id, owner |-> q.user, total |-> q.amount, paid |-> 0,
                           dueIn |-> q.dueIn, customer |-> q.customer]
        <4>1. "owner" \in DOMAIN new /\ new.owner = q.user
          OBVIOUS
        <4>2. CreateOrder(q) =
                Outcome(serializeOrder(201, new),
                        [i \in DOMAIN orders \cup {q.id} |-> IF i = q.id THEN new ELSE orders[i]],
                        rows)
          BY <3>2 DEF CreateOrder
        <4> HIDE DEF new
        <4>3. QED
          BY <1>4, <1>5, <4>1, <4>2
      <3>3. QED
        BY <3>1, <3>2
    <2>3. QED
      BY <2>1, <2>2 DEF Owned
  <1>9. CASE q.op = "get"
    BY <1>3, <1>9 DEF Handle, GetOrder, Owned
  <1>10. CASE q.op \in {"lines", "rename"}
    <2>1. Handle(q) = UpdateOrder(q)
      BY <1>10 DEF Handle
    <2>2. Owned(UpdateOrder(q))
      <3>1. CASE ~Mine(q)
        BY <1>3, <3>1 DEF UpdateOrder
      <3>2. CASE Mine(q) /\ Frozen(q)
        BY <1>3, <3>2 DEF UpdateOrder
      <3>3. CASE Mine(q) /\ ~Frozen(q)
        <4>1. PICK new : new = IF q.op = "lines" THEN [orders[q.order] EXCEPT !.total = q.amount]
                               ELSE [orders[q.order] EXCEPT !.customer = q.customer]
          OBVIOUS
        <4>2. "owner" \in DOMAIN new /\ new.owner = q.user
          BY <1>7, <3>3, <4>1
        <4>3. UpdateOrder(q) =
                Outcome(serializeOrder(200, new), [orders EXCEPT ![q.order] = new], rows)
          BY <3>3, <4>1 DEF UpdateOrder
        <4>4. QED
          BY <1>4, <1>5, <3>3, <4>2, <4>3
      <3>4. QED
        BY <3>1, <3>2, <3>3
    <2>3. QED
      BY <2>1, <2>2 DEF Owned
  <1>11. CASE q.op = "delete"
    <2>1. Handle(q) = DeleteOrder(q)
      BY <1>11 DEF Handle
    <2>2. Owned(DeleteOrder(q))
      BY <1>3, <1>4, <1>6 DEF DeleteOrder
    <2>3. QED
      BY <2>1, <2>2 DEF Owned
  <1>12. CASE q.op \in Kinds
    <2>1. Handle(q) = Settle(q)
      BY <1>12 DEF Handle, Kinds
    <2>2. ASSUME Mine(q) PROVE Owned(Accept(q))
      <3>1. PICK new : new = [orders[q.order] EXCEPT !.paid =
                                IF q.op = "payment" THEN @ + q.amount ELSE @ - q.amount]
        OBVIOUS
      <3>2. "owner" \in DOMAIN new /\ new.owner = q.user
        BY <1>7, <2>2, <3>1
      <3>3. PICK e : e = [kind |-> q.op, id |-> q.id, user |-> q.user,
                          order |-> q.order, amount |-> q.amount, key |-> q.key]
        OBVIOUS
      <3>4. OwnRows(rows \cup {e}, q.user, q.id)
        BY <1>1, <1>12, <3>3 DEF OwnRows
      <3>5. Accept(q) = Outcome(serializeOrderSnapshot(201, new, q.id),
                                [orders EXCEPT ![q.order] = new], rows \cup {e})
        BY <3>1, <3>3 DEF Accept
      <3>6. QED
        BY <1>2, <1>5, <2>2, <3>2, <3>4, <3>5
    <2>3. Owned(Settle(q))
      BY <1>3, <2>2 DEF Settle
    <2>4. QED
      BY <2>1, <2>3 DEF Owned
  <1>13. QED
    BY <1>8, <1>9, <1>10, <1>11, <1>12 DEF Operations, Kinds

-----------------------------------------------------------------------------
Sending == {"step", "parallel", "after"}
Unsent == {"idle", "register", "second"}
Places == Unsent \cup Sending \cup CleanupSteps \cup {"done", "dead"}

Shape ==
    /\ plan \in [Runs -> Plans] /\ pc \in [Runs -> Places]
    /\ at \in [Runs -> [scenario : Nat, step : Nat, after : Nat]]
    /\ DOMAIN inflight = Runs /\ DOMAIN userIds = Runs /\ DOMAIN sweep = Runs
    /\ Tables

(* A run that sends requests is at a step of its plan. *)
AtStep(r) ==
    /\ pc[r] \in Unsent => at[r].scenario = 1 /\ at[r].step = 1
    /\ pc[r] \in Sending =>
          /\ at[r].scenario \in 1 .. Len(plan[r]) /\ at[r].step \in 1 .. Len(Scenario(r))
          /\ pc[r] # "step" => Step(r).kind = "parallel"
          /\ pc[r] = "parallel" => inflight[r] \subseteq DOMAIN Step(r).steps

(* It sends them for users that it knows to be its own. *)
KnownUsers(r) ==
    /\ userIds[r] \subseteq {User(r, 1), User(r, 2)}
    /\ pc[r] \in Unsent => userIds[r] = {}
    /\ pc[r] \in Sending =>
          User(r, 1) \in userIds[r] /\ (NeedsSecond(r) => User(r, 2) \in userIds[r])

(* All data of a run belong to users it knows. *)
Owned(r) ==
    /\ \A i \in DOMAIN orders : RunOf(orders[i].owner) = r => orders[i].owner \in userIds[r]
    /\ \A e \in rows : RunOf(e.user) = r => e.user \in userIds[r]

(* What is left of a run came when its cleanup had looked. *)
NoOrders(r) == \A i \in DOMAIN orders : RunOf(orders[i].owner) = r => i \in strays
NoRows(r, kind) == \A e \in rows : e.kind = kind /\ RunOf(e.user) = r => e.id \in strays
NoUsers(r) == \A u \in users : RunOf(u) = r => u \in strays

(* What a cleanup has found and how far it has come. *)
Deleting == {"refunds", "payments", "orders", "users"}
Swept(r) ==
    /\ pc[r] \in Deleting =>
          /\ userIds[r] \subseteq sweep[r]
          /\ \A u \in users : RunOf(u) = r => u \in sweep[r] \/ u \in strays
    /\ pc[r] \in {"payments", "orders", "users"} => NoRows(r, "refund")
    /\ pc[r] \in {"orders", "users"} => NoRows(r, "payment")
    /\ pc[r] = "users" => NoOrders(r)
    /\ pc[r] = "done" /\ r \notin botched =>
          NoRows(r, "refund") /\ NoRows(r, "payment") /\ NoOrders(r) /\ NoUsers(r)

(* The users of a run that no other run has taken are there until the run  *)
(* ends, and what they own can be found.                                   *)
Findable(r) ==
    r \notin hit =>
        /\ pc[r] = "second" => User(r, 1) \in users
        /\ pc[r] # "done" => userIds[r] \subseteq users
        /\ \A i \in DOMAIN orders :
              RunOf(orders[i].owner) = r => orders[i].owner \in users \/ i \in strays
        /\ \A e \in rows : RunOf(e.user) = r => e.user \in users \/ e.id \in strays

DataOk(r) == Owned(r) /\ Swept(r) /\ Findable(r)

(* A request that is still under way is of a user its run knows, or it     *)
(* registers one.                                                          *)
OfRun(q, r) == q.op \in Operations /\ q.user \in userIds[r]
Registers(q, r) == q.op = "register" /\ q.id \in {User(r, 1), User(r, 2)}
LostOk == \A l \in lost : l.run \in Runs /\ (OfRun(l.q, l.run) \/ Registers(l.q, l.run))

SuiteInv == Shape /\ LostOk /\ \A r \in Runs : AtStep(r) /\ KnownUsers(r) /\ DataOk(r)

-----------------------------------------------------------------------------
(* The scenarios of a plan are in the catalogue. *)
LEMMA PlanFit ==
    ASSUME Shape, NEW r \in Runs, NEW n \in 1 .. Len(plan[r])
    PROVE  /\ plan[r] \in Seq(DOMAIN ALL_SCENARIOS)
           /\ ScenarioFit(ALL_SCENARIOS[plan[r][n]], UsersOf(plan[r][n]))
           /\ plan[r][n] \in needsSecondUser => NeedsSecond(r)
  <1>1. plan[r] \in Seq(DOMAIN ALL_SCENARIOS)
    BY SuiteAssumption DEF Shape
  <1>2. plan[r][n] \in DOMAIN ALL_SCENARIOS /\ n \in DOMAIN plan[r]
    BY <1>1
  <1>3. plan[r][n] \in needsSecondUser => NeedsSecond(r)
    BY <1>2 DEF NeedsSecond, Range
  <1>4. QED
    BY <1>1, <1>2, <1>3, Catalogue

(* The step a run is at is one of the catalogue. *)
LEMMA StepAt ==
    ASSUME Shape, NEW r \in Runs, AtStep(r), pc[r] \in Sending
    PROVE  StepFit(Step(r), UsersOf(plan[r][at[r].scenario]))
  BY PlanFit DEF AtStep, Step, Scenario, ScenarioFit

(* A request is sent for a user of the run. *)
LEMMA RequestAllowed ==
    ASSUME Shape, NEW r \in Runs, AtStep(r), KnownUsers(r), pc[r] \in Sending,
           NEW step, Request(step, UsersOf(plan[r][at[r].scenario])), NEW n
    PROVE  OfRun(RequestOf(r, step, n), r)
  <1>1. RequestOf(r, step, n).op = step.op /\ RequestOf(r, step, n).user = User(r, step.asUser)
    BY DEF RequestOf
  <1>2. step.op \in Operations /\ step.asUser \in UsersOf(plan[r][at[r].scenario])
    BY DEF Request
  <1>3. plan[r][at[r].scenario] \in needsSecondUser => NeedsSecond(r)
    BY PlanFit DEF AtStep
  <1>4. User(r, step.asUser) \in userIds[r]
    BY <1>2, <1>3 DEF UsersOf, KnownUsers
  <1>5. QED
    BY <1>1, <1>2, <1>4 DEF OfRun

(* What one run does to the tables by a request. *)
SentAs(r, u, id) ==
    u \in userIds[r] /\ users' = users /\ SameOwners(orders', u, id) /\ OwnRows(rows', u, id)
Sent(r) == \E u, id : SentAs(r, u, id)

LEMMA ApplySends ==
    ASSUME Shape, NEW r \in Runs, NEW q, OfRun(q, r), Apply(Handle(q))
    PROVE  SentAs(r, q.user, q.id)
  <1>1. SameOwners(Handle(q).orders, q.user, q.id) /\ OwnRows(Handle(q).rows, q.user, q.id)
    BY RequestOwned DEF Shape, OfRun
  <1>2. orders' = Handle(q).orders /\ rows' = Handle(q).rows /\ users' = users
    BY DEF Apply
  <1>3. QED
    BY <1>1, <1>2 DEF SentAs, OfRun

(* A request that is not answered may not have arrived. *)
LEMMA NotSent ==
    ASSUME Shape, NEW r \in Runs, KnownUsers(r), pc[r] \in Sending, UNCHANGED db
    PROVE  Sent(r)
  <1>1. SameOwners(orders, User(r, 1), None) /\ OwnRows(rows, User(r, 1), None)
    BY DEF SameOwners, OwnRows, Shape, Tables
  <1>2. orders' = orders /\ rows' = rows /\ users' = users
    BY DEF db
  <1>3. SentAs(r, User(r, 1), None)
    BY <1>1, <1>2 DEF SentAs, KnownUsers
  <1>4. QED
    BY <1>3 DEF Sent

(* It may be under way when the run goes on. *)
LEMMA LostStill ==
    ASSUME LostOk, lost' \subseteq lost, userIds' = userIds
    PROVE  LostOk'
  BY DEF LostOk, OfRun, Registers

LEMMA LoseSends ==
    ASSUME Shape, LostOk, NEW r \in Runs, KnownUsers(r), pc[r] \in Sending, NEW q, OfRun(q, r),
           Lose(r, q)
    PROVE  Sent(r) /\ LostOk' /\ UNCHANGED <<plan, userIds, sweep, hit, strays, botched>>
  <1>1. UNCHANGED <<plan, userIds, sweep, hit, strays, botched>>
    BY DEF Lose, Fault
  <1>2. CASE UNCHANGED <<db, lost>>
    BY <1>1, <1>2, NotSent, LostStill
  <1>3. CASE Execute(q) /\ UNCHANGED lost
    <2>1. Apply(Handle(q))
      BY <1>3 DEF Execute, OfRun, Operations
    <2>2. Sent(r)
      BY <2>1, ApplySends DEF Sent
    <2>3. QED
      BY <1>1, <1>3, <2>2, LostStill
  <1>4. CASE lost' = lost \cup {[run |-> r, q |-> q]} /\ UNCHANGED db
    <2>1. LostOk'
      BY <1>1, <1>4 DEF LostOk, OfRun, Registers
    <2>2. QED
      BY <1>1, <1>4, <2>1, NotSent
  <1>5. QED
    BY <1>2, <1>3, <1>4 DEF Lose

LEMMA KnownRuns ==
    ASSUME NEW r \in Runs, KnownUsers(r), NEW u \in userIds[r]
    PROVE  RunOf(u) = r
  <1>1. u = User(r, 1) \/ u = User(r, 2)
    BY DEF KnownUsers
  <1>2. \A n : RunOf(User(r, n)) = r
    BY DEF RunOf, User
  <1>3. QED
    BY <1>1, <1>2

(* The run goes on to another place, the others stay. *)
Goes(r, place) == pc' = [pc EXCEPT ![r] = place]

(* A request that arrives when the run has looked for its users is a stray *)
(* one.                                                                    *)
LEMMA ArrivalKeeps ==
    ASSUME SuiteInv, NEW r \in Runs, NEW u, NEW id, SentAs(r, u, id),
           NEW place, Goes(r, place), place = pc[r] \/ place \in Sending \cup {"find"},
           place # pc[r] => pc[r] \in Sending,
           UNCHANGED <<userIds, sweep, hit, botched>>, strays \subseteq strays',
           place \in Deleting \cup {"done"} => id \in strays'
    PROVE  Tables' /\ \A s \in Runs : DataOk(s)'
  <1>1. u \in userIds[r] /\ users' = users /\ SameOwners(orders', u, id) /\ OwnRows(rows', u, id)
    BY DEF SentAs
  <1>2. RunOf(u) = r
    BY <1>1, KnownRuns DEF SuiteInv
  <1>3. Tables'
    BY <1>1 DEF Tables, SameOwners, OwnRows
  <1>4. pc'[r] = place /\ \A s \in Runs \ {r} : pc'[s] = pc[s]
    BY DEF Goes, SuiteInv, Shape
  <1>5. \A i \in DOMAIN orders' :
           \/ i = id /\ orders'[i].owner = u
           \/ i \in DOMAIN orders /\ orders'[i].owner = orders[i].owner
    BY <1>1 DEF SameOwners
  <1>6. \A e \in rows' : e \in rows \/ (e.user = u /\ e.id = id)
    BY <1>1 DEF OwnRows
  <1>7. ASSUME NEW s \in Runs PROVE Owned(s)'
    BY <1>1, <1>2, <1>5, <1>6 DEF SuiteInv, DataOk, Owned
  <1>8. ASSUME NEW s \in Runs PROVE Swept(s)'
    <2>1. Swept(s) /\ UNCHANGED <<userIds, sweep, botched, users>>
      BY <1>1 DEF SuiteInv, DataOk
    <2>2. CASE s = r /\ place \notin Deleting \cup {"done"}
      BY <1>4, <2>2 DEF Swept, Deleting
    <2>3. CASE s # r \/ place \in Deleting \cup {"done"}
      <3>1. pc'[s] = pc[s]
        BY <1>4, <2>3 DEF Deleting, Sending
      <3>2. NoOrders(s) => NoOrders(s)'
        BY <1>2, <1>5, <2>3 DEF NoOrders
      <3>3. \A kind : NoRows(s, kind) => NoRows(s, kind)'
        BY <1>2, <1>6, <2>3 DEF NoRows
      <3>4. NoUsers(s) => NoUsers(s)'
        BY <2>1 DEF NoUsers
      <3>5. QED
        BY <2>1, <3>1, <3>2, <3>3, <3>4 DEF Swept
    <2>4. QED
      BY <2>2, <2>3
  <1>9. ASSUME NEW s \in Runs PROVE Findable(s)'
    <2>1. Findable(s) /\ Findable(r)
      BY DEF SuiteInv, DataOk
    <2>2. (pc'[s] = "second" => pc[s] = "second") /\ (pc'[s] # "done" => pc[s] # "done")
      BY <1>4 DEF Sending
    <2>3. s \notin hit /\ s = r => u \in users \/ id \in strays'
      BY <1>1, <1>4, <2>1 DEF Findable, Sending
    <2>4. QED
      BY <1>1, <1>2, <1>5, <1>6, <2>1, <2>2, <2>3 DEF Findable
  <1>10. QED
    BY <1>3, <1>7, <1>8, <1>9 DEF DataOk

LEMMA SentKeeps ==
    ASSUME SuiteInv, NEW r \in Runs, pc[r] \in Sending, Sent(r),
           NEW place \in Sending \cup {"find"}, Goes(r, place),
           UNCHANGED <<userIds, sweep, hit, botched, strays>>
    PROVE  Tables' /\ \A s \in Runs : DataOk(s)'
  BY ArrivalKeeps DEF Sent, Sending, Deleting

-----------------------------------------------------------------------------
(* A step of r leaves the places of the other runs alone. *)
Typed ==
    /\ plan' = plan /\ pc' \in [Runs -> Places]
    /\ at' \in [Runs -> [scenario : Nat, step : Nat, after : Nat]]
    /\ DOMAIN inflight' = Runs /\ DOMAIN userIds' = Runs /\ DOMAIN sweep' = Runs

Alone(r) ==
    /\ Typed
    /\ \A s \in Runs \ {r} : /\ pc'[s] = pc[s] /\ at'[s] = at[s] /\ inflight'[s] = inflight[s]
                             /\ userIds'[s] = userIds[s] /\ sweep'[s] = sweep[s]

LEMMA PlacesKept ==
    ASSUME SuiteInv, NEW r \in Runs, Alone(r)
    PROVE  \A s \in Runs \ {r} : AtStep(s)' /\ KnownUsers(s)'
  <1> SUFFICES ASSUME NEW s \in Runs \ {r} PROVE AtStep(s)' /\ KnownUsers(s)'
    OBVIOUS
  <1>1. AtStep(s) /\ KnownUsers(s)
    BY DEF SuiteInv
  <1>2. /\ plan' = plan /\ pc'[s] = pc[s] /\ at'[s] = at[s] /\ inflight'[s] = inflight[s]
        /\ userIds'[s] = userIds[s]
    BY DEF Alone, Typed
  <1>3. Scenario(s)' = Scenario(s) /\ Step(s)' = Step(s) /\ NeedsSecond(s)' = NeedsSecond(s)
    BY <1>2 DEF Scenario, Step, NeedsSecond
  <1>4. AtStep(s)'
    BY <1>1, <1>2, <1>3 DEF AtStep
  <1>5. KnownUsers(s)'
    BY <1>1, <1>2, <1>3 DEF KnownUsers
  <1>6. QED
    BY <1>4, <1>5

LEMMA Assembled ==
    ASSUME SuiteInv, NEW r \in Runs, Alone(r), AtStep(r)', KnownUsers(r)', Tables',
           LostOk', \A s \in Runs : DataOk(s)'
    PROVE  SuiteInv'
  <1>1. Shape'
    BY DEF SuiteInv, Shape, Alone, Typed
  <1>2. \A s \in Runs : AtStep(s)' /\ KnownUsers(s)'
    BY PlacesKept
  <1>3. QED
    BY <1>1, <1>2 DEF SuiteInv

(* Where the tables are left alone, so is what is said of other runs. *)
LEMMA DataStill ==
    ASSUME SuiteInv, NEW s \in Runs, UNCHANGED <<db, hit, strays>>, botched \subseteq botched',
           userIds'[s] = userIds[s], sweep'[s] = sweep[s], pc'[s] = pc[s]
    PROVE  DataOk(s)'
  <1>1. Owned(s) /\ Swept(s) /\ Findable(s) /\ users' = users /\ orders' = orders /\ rows' = rows
    BY DEF SuiteInv, DataOk, db
  <1>2. Owned(s)' /\ Findable(s)'
    BY <1>1 DEF Owned, Findable
  <1>3. Swept(s)'
    BY <1>1 DEF Swept, NoRows, NoOrders, NoUsers
  <1>4. QED
    BY <1>2, <1>3 DEF DataOk

(* The next step of the scenario, or the first of the next one, or the     *)
(* cleanup.                                                                *)
LEMMA AdvanceKeeps ==
    ASSUME SuiteInv, NEW r \in Runs, pc[r] \in Sending, NEW ok, Advance(r, ok),
           UNCHANGED <<plan, userIds, sweep, inflight>>
    PROVE  /\ Alone(r) /\ AtStep(r)' /\ KnownUsers(r)'
           /\ \E place \in {"step", "find"} : Goes(r, place)
  <1> USE DEF Advance
  <1>1. /\ at[r] \in [scenario : Nat, step : Nat, after : Nat]
        /\ at[r].scenario \in 1 .. Len(plan[r]) /\ at[r].step \in 1 .. Len(Scenario(r))
        /\ Shape
    BY DEF SuiteInv, Shape, AtStep
  <1>2. Len(plan[r]) \in Nat
    BY <1>1, PlanFit
  <1> DEFINE more == ok /\ at[r].step < Len(Scenario(r))
             next == at[r].scenario + 1
             place == IF more \/ next <= Len(plan[r]) THEN "step" ELSE "find"
             there == IF more THEN [scenario |-> at[r].scenario, step |-> at[r].step + 1, after |-> 0]
                      ELSE [scenario |-> next, step |-> 1, after |-> 0]
  <1>3. Goes(r, place) /\ at' = [at EXCEPT ![r] = there]
    <2>1. Goes(r, place)
      BY DEF Goes, To
    <2>2. CASE more
      BY <2>1, <2>2
    <2>3. CASE ~more
      BY <2>1, <2>3
    <2>4. QED
      BY <2>1, <2>2, <2>3
  <1>4. there \in [scenario : Nat, step : Nat, after : Nat]
    <2>1. CASE more
      BY <1>1, <2>1
    <2>2. CASE ~more
      BY <1>1, <2>2
    <2>3. QED
      BY <2>1, <2>2
  <1>5. /\ pc'[r] = place /\ at'[r] = there
        /\ \A s \in Runs \ {r} : pc'[s] = pc[s] /\ at'[s] = at[s]
    BY <1>1, <1>3 DEF Goes, Shape
  <1>6. Alone(r)
    BY <1>1, <1>3, <1>4, <1>5 DEF Alone, Typed, Shape, Goes, Places, Sending, CleanupSteps
  <1>7. KnownUsers(r)'
    <2>1. NeedsSecond(r)' = NeedsSecond(r) /\ userIds'[r] = userIds[r]
      BY DEF NeedsSecond
    <2>2. pc'[r] \in {"step", "find"}
      BY <1>5
    <2>3. QED
      BY <2>1, <2>2 DEF SuiteInv, KnownUsers, Unsent
  <1>8. AtStep(r)'
    <2>1. CASE more
      <3>1. /\ there.scenario = at[r].scenario /\ there.step = at[r].step + 1
        BY <1>1, <2>1
      <3>2. Scenario(r)' = Scenario(r)
        BY <1>5, <3>1 DEF Scenario
      <3>3. Len(Scenario(r)) \in Nat
        BY <1>1, PlanFit DEF ScenarioFit, Scenario
      <3>4. /\ at'[r].scenario \in 1 .. Len(plan'[r]) /\ at'[r].step \in 1 .. Len(Scenario(r)')
            /\ pc'[r] = "step"
        BY <1>1, <1>5, <2>1, <3>1, <3>2, <3>3
      <3>5. QED
        BY <3>4 DEF AtStep, Unsent, Sending
    <2>2. CASE ~more /\ next <= Len(plan[r])
      <3>1. next \in 1 .. Len(plan[r]) /\ there.scenario = next /\ there.step = 1
        BY <1>1, <1>2, <2>2
      <3>2. Scenario(r)' = ALL_SCENARIOS[plan[r][next]]
        BY <1>5, <3>1 DEF Scenario
      <3>3. Len(ALL_SCENARIOS[plan[r][next]]) \in Nat \ {0}
        BY <1>1, <3>1, PlanFit DEF ScenarioFit
      <3>4. /\ at'[r].scenario \in 1 .. Len(plan'[r]) /\ at'[r].step \in 1 .. Len(Scenario(r)')
            /\ pc'[r] = "step"
        BY <1>5, <2>2, <3>1, <3>2, <3>3
      <3>5. QED
        BY <3>4 DEF AtStep, Unsent, Sending
    <2>3. CASE ~more /\ ~(next <= Len(plan[r]))
      <3>1. pc'[r] = "find"
        BY <1>5, <2>3
      <3>2. QED
        BY <3>1 DEF AtStep, Unsent, Sending
    <2>4. QED
      BY <2>1, <2>2, <2>3
  <1>9. QED
    BY <1>3, <1>6, <1>7, <1>8

(* A request of a scenario is answered, or lost. *)
LEMMA StepKeeps ==
    ASSUME SuiteInv, NEW r \in Runs, ExecuteHttpStep(r) \/ StepFails(r)
    PROVE  SuiteInv'
  <1>1. Shape /\ LostOk /\ AtStep(r) /\ KnownUsers(r) /\ pc[r] = "step" /\ pc[r] \in Sending
    BY DEF SuiteInv, ExecuteHttpStep, StepFails, Sending
  <1>2. PICK q : q = RequestOf(r, Step(r), 0)
    OBVIOUS
  <1>3. OfRun(q, r)
    <2>1. Request(Step(r), UsersOf(plan[r][at[r].scenario]))
      BY <1>1, StepAt DEF StepFit, ExecuteHttpStep, StepFails
    <2>2. QED
      BY <1>1, <1>2, <2>1, RequestAllowed
  <1>4. Sent(r) /\ LostOk' /\ UNCHANGED <<plan, userIds, sweep, hit, strays, botched>>
    <2>1. CASE ExecuteHttpStep(r)
      <3>1. Apply(Handle(q)) /\ UNCHANGED <<plan, userIds, sweep, hit, strays, botched, lost>>
        BY <1>2, <2>1 DEF ExecuteHttpStep, history
      <3>2. QED
        BY <1>1, <1>3, <3>1, ApplySends, LostStill DEF Sent
    <2>2. CASE StepFails(r)
      BY <1>1, <1>2, <1>3, <2>2, LoseSends DEF StepFails
    <2>3. QED
      BY <2>1, <2>2
  <1>5. PICK ok : Advance(r, ok)
    BY DEF ExecuteHttpStep, StepFails, Answered
  <1>6. UNCHANGED inflight
    BY DEF ExecuteHttpStep, StepFails, Answered
  <1>7. Alone(r) /\ AtStep(r)' /\ KnownUsers(r)' /\ \E place \in {"step", "find"} : Goes(r, place)
    BY <1>1, <1>4, <1>5, <1>6, AdvanceKeeps
  <1>8. Tables' /\ \A s \in Runs : DataOk(s)'
    BY <1>1, <1>4, <1>7, SentKeeps DEF Sending
  <1>9. QED
    BY <1>4, <1>7, <1>8, Assembled

(* An event of a step cannot be stored, and the scenario has failed. *)
LEMMA EventKeeps ==
    ASSUME SuiteInv, NEW r \in Runs, EventFails(r)
    PROVE  SuiteInv'
  <1>1. Shape /\ LostOk /\ AtStep(r) /\ KnownUsers(r) /\ pc[r] \in Sending
    BY DEF SuiteInv, EventFails, Sending
  <1>2. Sent(r)
    <2>1. CASE UNCHANGED db
      BY <1>1, <2>1, NotSent
    <2>2. CASE Step(r).kind = "http" /\ Execute(RequestOf(r, Step(r), 0))
      <3>1. PICK q : q = RequestOf(r, Step(r), 0)
        OBVIOUS
      <3>2. Request(Step(r), UsersOf(plan[r][at[r].scenario]))
        BY <1>1, <2>2, StepAt DEF StepFit
      <3>3. OfRun(q, r)
        BY <1>1, <3>1, <3>2, RequestAllowed
      <3>4. Apply(Handle(q))
        BY <2>2, <3>1, <3>3 DEF Execute, OfRun, Operations
      <3>5. QED
        BY <1>1, <3>3, <3>4, ApplySends DEF Sent
    <2>3. QED
      BY <2>1, <2>2 DEF EventFails
  <1>3. /\ Advance(r, FALSE)
        /\ UNCHANGED <<plan, userIds, sweep, inflight, hit, strays, botched, lost>>
    BY DEF EventFails, Fault
  <1>4. Alone(r) /\ AtStep(r)' /\ KnownUsers(r)' /\ \E place \in {"step", "find"} : Goes(r, place)
    BY <1>1, <1>3, AdvanceKeeps
  <1>5. Tables' /\ \A s \in Runs : DataOk(s)'
    BY <1>1, <1>2, <1>3, <1>4, SentKeeps DEF Sending
  <1>6. LostOk'
    BY <1>1, <1>3, LostStill
  <1>7. QED
    BY <1>4, <1>5, <1>6, Assembled

LEMMA ChildKeeps ==
    ASSUME SuiteInv, NEW r \in Runs, NEW c \in inflight[r], ParallelChild(r, c) \/ ChildFails(r, c)
    PROVE  SuiteInv'
  <1>1. Shape /\ LostOk /\ AtStep(r) /\ KnownUsers(r) /\ pc[r] = "parallel" /\ pc[r] \in Sending
    BY DEF SuiteInv, ParallelChild, ChildFails, Sending
  <1>2. Request(Step(r).steps[c], UsersOf(plan[r][at[r].scenario]))
    <2>1. Step(r).kind = "parallel" /\ c \in DOMAIN Step(r).steps
      BY <1>1 DEF AtStep
    <2>2. StepFit(Step(r), UsersOf(plan[r][at[r].scenario]))
      BY <1>1, StepAt
    <2>3. QED
      BY <2>1, <2>2 DEF StepFit, Request
  <1>3. PICK q : q = RequestOf(r, Step(r).steps[c], c)
    OBVIOUS
  <1>4. Sent(r) /\ LostOk' /\ UNCHANGED <<plan, userIds, sweep, hit, strays, botched>>
    <2>1. OfRun(q, r)
      BY <1>1, <1>2, <1>3, RequestAllowed
    <2>2. CASE ParallelChild(r, c)
      <3>1. Apply(Handle(q)) /\ UNCHANGED <<plan, userIds, sweep, hit, strays, botched, lost>>
        BY <1>3, <2>2 DEF ParallelChild, history
      <3>2. QED
        BY <1>1, <2>1, <3>1, ApplySends, LostStill DEF Sent
    <2>3. CASE ChildFails(r, c)
      BY <1>1, <1>3, <2>1, <2>3, LoseSends DEF ChildFails
    <2>4. QED
      BY <2>2, <2>3
  <1>5. PICK ok : ChildAnswered(r, c, ok)
    BY DEF ParallelChild, ChildFails
  <1>6. UNCHANGED <<plan, at, userIds, sweep, hit, strays, botched>>
    BY <1>4, <1>5 DEF ChildAnswered
  <1>7. PICK place \in {"after", "parallel"} : Goes(r, place)
    BY <1>5 DEF ChildAnswered, To, Goes
  <1>8. inflight' = [inflight EXCEPT ![r] = @ \ {c}]
    BY <1>5 DEF ChildAnswered
  <1>9. Alone(r)
    BY <1>1, <1>6, <1>7, <1>8 DEF Alone, Typed, Goes, Shape, Places, Sending
  <1>10. AtStep(r)' /\ KnownUsers(r)'
    <2>1. Scenario(r)' = Scenario(r) /\ Step(r)' = Step(r) /\ NeedsSecond(r)' = NeedsSecond(r)
      BY <1>6 DEF Scenario, Step, NeedsSecond
    <2>2. pc'[r] = place /\ inflight'[r] \subseteq inflight[r]
      BY <1>1, <1>7, <1>8 DEF Goes, Shape
    <2>3. QED
      BY <1>1, <1>6, <2>1, <2>2 DEF AtStep, KnownUsers, Unsent, Sending
  <1>11. Tables' /\ \A s \in Runs : DataOk(s)'
    BY <1>1, <1>4, <1>6, <1>7, SentKeeps DEF Sending
  <1>12. QED
    BY <1>4, <1>9, <1>10, <1>11, Assembled

LEMMA FollowUpKeeps ==
    ASSUME SuiteInv, NEW r \in Runs, FollowUp(r) \/ FollowUpFails(r)
    PROVE  SuiteInv'
  <1>1. Shape /\ LostOk /\ AtStep(r) /\ KnownUsers(r) /\ pc[r] = "after" /\ pc[r] \in Sending
    BY DEF SuiteInv, FollowUp, FollowUpFails, Sending
  <1>2. PICK n : n = at[r].after + 1
    OBVIOUS
  <1>3. n \in Nat \ {0} /\ at[r] \in [scenario : Nat, step : Nat, after : Nat]
    BY <1>1, <1>2 DEF Shape
  <1>4. Request(Step(r).after[n], UsersOf(plan[r][at[r].scenario]))
    <2>1. Step(r).kind = "parallel" /\ n <= Len(Step(r).after)
      BY <1>1, <1>2 DEF AtStep, FollowUp, FollowUpFails
    <2>2. StepFit(Step(r), UsersOf(plan[r][at[r].scenario]))
      BY <1>1, StepAt
    <2>3. QED
      BY <1>3, <2>1, <2>2 DEF StepFit, Request
  <1>5. PICK q : q = RequestOf(r, Step(r).after[n], 2 + n)
    OBVIOUS
  <1>6. Sent(r) /\ LostOk' /\ UNCHANGED <<plan, userIds, sweep, hit, strays, botched>>
    <2>1. OfRun(q, r)
      BY <1>1, <1>4, <1>5, RequestAllowed
    <2>2. CASE FollowUp(r)
      <3>1. Apply(Handle(q)) /\ UNCHANGED <<plan, userIds, sweep, hit, strays, botched, lost>>
        BY <1>2, <1>5, <2>2 DEF FollowUp, history
      <3>2. QED
        BY <1>1, <2>1, <3>1, ApplySends, LostStill DEF Sent
    <2>3. CASE FollowUpFails(r)
      BY <1>1, <1>2, <1>5, <2>1, <2>3, LoseSends DEF FollowUpFails
    <2>4. QED
      BY <2>2, <2>3
  <1>7. /\ UNCHANGED <<plan, pc, inflight, userIds, sweep, hit, strays, botched>>
        /\ at' = [at EXCEPT ![r].after = n]
    BY <1>2, <1>6 DEF FollowUp, FollowUpFails
  <1>8. Goes(r, "after")
    BY <1>1, <1>7 DEF Goes, Shape
  <1>9. Alone(r)
    BY <1>1, <1>3, <1>7 DEF Alone, Typed, Shape
  <1>10. AtStep(r)' /\ KnownUsers(r)'
    <2>1. at'[r].scenario = at[r].scenario /\ at'[r].step = at[r].step
      BY <1>1, <1>3, <1>7 DEF Shape
    <2>2. Scenario(r)' = Scenario(r) /\ Step(r)' = Step(r) /\ NeedsSecond(r)' = NeedsSecond(r)
      BY <1>7, <2>1 DEF Scenario, Step, NeedsSecond
    <2>3. QED
      BY <1>1, <1>7, <2>1, <2>2 DEF AtStep, KnownUsers
  <1>11. Tables' /\ \A s \in Runs : DataOk(s)'
    BY <1>1, <1>6, <1>7, <1>8, SentKeeps DEF Sending
  <1>12. QED
    BY <1>6, <1>9, <1>10, <1>11, Assembled


(* The children of a parallel step are sent, its follow-ups are done. *)
LEMMA ParallelKeeps ==
    ASSUME SuiteInv, NEW r \in Runs, ExecuteParallelStep(r)
    PROVE  SuiteInv'
  <1>1. Shape /\ LostOk /\ AtStep(r) /\ KnownUsers(r) /\ pc[r] = "step" /\ pc[r] \in Sending
    BY DEF SuiteInv, ExecuteParallelStep, Sending
  <1>2. UNCHANGED <<db, plan, at, userIds, sweep, hit, strays, botched, lost>>
    BY DEF ExecuteParallelStep, history
  <1>3. /\ Goes(r, "parallel") /\ Step(r).kind = "parallel"
        /\ inflight' = [inflight EXCEPT ![r] = DOMAIN Step(r).steps]
    BY DEF ExecuteParallelStep, Goes, To
  <1>4. Sent(r)
    BY <1>1, <1>2, NotSent
  <1>5. Alone(r)
    BY <1>1, <1>2, <1>3 DEF Alone, Typed, Goes, Shape, Places, Sending
  <1>6. AtStep(r)' /\ KnownUsers(r)'
    <2>1. Scenario(r)' = Scenario(r) /\ Step(r)' = Step(r) /\ NeedsSecond(r)' = NeedsSecond(r)
      BY <1>2 DEF Scenario, Step, NeedsSecond
    <2>2. pc'[r] = "parallel" /\ inflight'[r] = DOMAIN Step(r).steps
      BY <1>1, <1>3 DEF Goes, Shape
    <2>3. AtStep(r)'
      BY <1>1, <1>2, <1>3, <2>1, <2>2 DEF AtStep, Unsent
    <2>4. KnownUsers(r)'
      BY <1>1, <1>2, <2>1, <2>2 DEF KnownUsers, Unsent
    <2>5. QED
      BY <2>3, <2>4
  <1>7. Tables' /\ \A s \in Runs : DataOk(s)'
    BY <1>1, <1>2, <1>3, <1>4, SentKeeps DEF Sending
  <1>8. QED
    BY <1>1, <1>2, <1>5, <1>6, <1>7, LostStill, Assembled

LEMMA EndKeeps ==
    ASSUME SuiteInv, NEW r \in Runs, EndParallel(r)
    PROVE  SuiteInv'
  <1>1. Shape /\ LostOk /\ KnownUsers(r) /\ pc[r] \in Sending
    BY DEF SuiteInv, EndParallel, Sending
  <1>2. PICK ok : Advance(r, ok)
    BY DEF EndParallel
  <1>3. UNCHANGED <<plan, userIds, sweep, inflight, hit, strays, botched, lost>> /\ UNCHANGED db
    BY DEF EndParallel, history
  <1>4. Alone(r) /\ AtStep(r)' /\ KnownUsers(r)' /\ \E place \in {"step", "find"} : Goes(r, place)
    BY <1>1, <1>2, <1>3, AdvanceKeeps
  <1>5. Sent(r)
    BY <1>1, <1>3, NotSent
  <1>6. Tables' /\ \A s \in Runs : DataOk(s)'
    BY <1>1, <1>3, <1>4, <1>5, SentKeeps DEF Sending
  <1>7. QED
    BY <1>1, <1>3, <1>4, <1>6, LostStill, Assembled

-----------------------------------------------------------------------------
(* Registration adds users of the run, and the run may learn of them. *)
Joins(r, place) ==
    /\ Goes(r, place)
    /\ UNCHANGED <<orders, rows, plan, at, inflight, sweep, hit, strays, botched>>
    /\ \A l \in lost' : l \in lost \/ (l.run = r /\ Registers(l.q, r))
    /\ users \subseteq users' /\ \A u \in users' : u \in users \/ RunOf(u) = r
    /\ DOMAIN userIds' = Runs /\ \A s \in Runs \ {r} : userIds'[s] = userIds[s]
    /\ userIds'[r] \subseteq {User(r, 1), User(r, 2)}
    /\ place = "second" => userIds'[r] = {} /\ User(r, 1) \in users'
    /\ r \notin hit => userIds'[r] \subseteq users'
    /\ place = "step" =>
          /\ plan[r] # <<>>
          /\ User(r, 1) \in userIds'[r] /\ (NeedsSecond(r) => User(r, 2) \in userIds'[r])

LEMMA JoinKeeps ==
    ASSUME SuiteInv, NEW r \in Runs, pc[r] \in {"register", "second"},
           NEW place \in {"second", "step", "find"}, Joins(r, place)
    PROVE  SuiteInv'
  <1>1. /\ Shape /\ LostOk /\ AtStep(r) /\ KnownUsers(r) /\ DataOk(r) /\ userIds[r] = {}
        /\ at[r].scenario = 1 /\ at[r].step = 1
    BY DEF SuiteInv, AtStep, KnownUsers, Unsent
  <1>2. /\ Goes(r, place) /\ UNCHANGED <<orders, rows, plan, at, inflight, sweep, hit, strays, botched>>
        /\ pc'[r] = place /\ \A s \in Runs \ {r} : pc'[s] = pc[s]
    BY <1>1 DEF Joins, Goes, Shape
  <1>3. Alone(r)
    BY <1>1, <1>2 DEF Alone, Typed, Joins, Goes, Shape, Places, Sending, Unsent, CleanupSteps
  <1>4. AtStep(r)'
    <2>1. CASE place = "step"
      <3>1. plan[r] \in Seq(DOMAIN ALL_SCENARIOS) /\ plan[r] # <<>>
        BY <1>1, <2>1, SuiteAssumption DEF Shape, Joins
      <3>2. 1 \in 1 .. Len(plan[r])
        BY <3>1
      <3>3. Len(Scenario(r)) \in Nat \ {0}
        BY <1>1, <3>2, PlanFit DEF ScenarioFit, Scenario
      <3>4. Scenario(r)' = Scenario(r)
        BY <1>2 DEF Scenario
      <3>5. QED
        BY <1>1, <1>2, <2>1, <3>2, <3>3, <3>4 DEF AtStep, Unsent
    <2>2. CASE place # "step"
      BY <1>1, <1>2, <2>2 DEF AtStep, Sending
    <2>3. QED
      BY <2>1, <2>2
  <1>5. KnownUsers(r)'
    <2>1. NeedsSecond(r)' = NeedsSecond(r)
      BY <1>2 DEF NeedsSecond
    <2>2. QED
      BY <1>2, <2>1 DEF KnownUsers, Joins, Sending, Unsent
  <1>6. Tables'
    BY <1>1, <1>2 DEF Shape, Tables
  <1>7. ASSUME NEW s \in Runs PROVE DataOk(s)'
    <2>1. Owned(s) /\ Swept(s) /\ Findable(s) /\ userIds[s] \subseteq userIds'[s]
      BY <1>1 DEF SuiteInv, DataOk, Joins
    <2>2. Owned(s)'
      BY <1>2, <2>1 DEF Owned
    <2>3. Swept(s)'
      <3>1. CASE s = r
        BY <1>2, <3>1 DEF Swept, Deleting
      <3>2. CASE s # r
        <4>1. pc'[s] = pc[s] /\ userIds'[s] = userIds[s]
          BY <1>2, <3>2 DEF Joins
        <4>2. \A u \in users' : RunOf(u) = s => u \in users
          BY <3>2 DEF Joins
        <4>3. NoUsers(s) => NoUsers(s)'
          BY <1>2, <4>2 DEF NoUsers
        <4>4. (NoOrders(s) => NoOrders(s)') /\ \A kind : NoRows(s, kind) => NoRows(s, kind)'
          BY <1>2 DEF NoOrders, NoRows
        <4>5. QED
          BY <1>2, <2>1, <4>1, <4>2, <4>3, <4>4 DEF Swept
      <3>3. QED
        BY <3>1, <3>2
    <2>4. Findable(s)'
      <3>1. users \subseteq users' /\ UNCHANGED <<orders, rows, hit>>
        BY <1>2 DEF Joins
      <3>2. CASE s = r
        BY <1>2, <2>1, <3>1, <3>2 DEF Findable, Joins, Sending
      <3>3. CASE s # r
        <4>1. pc'[s] = pc[s] /\ userIds'[s] = userIds[s]
          BY <1>2, <3>3 DEF Joins
        <4>2. QED
          BY <1>2, <2>1, <3>1, <4>1 DEF Findable
      <3>4. QED
        BY <3>2, <3>3
    <2>5. QED
      BY <2>2, <2>3, <2>4 DEF DataOk
  <1>8. LostOk'
    <2>1. \A s \in Runs : userIds[s] \subseteq userIds'[s]
      BY <1>1 DEF Joins
    <2>2. QED
      BY <1>1, <2>1 DEF LostOk, OfRun, Registers, Joins
  <1>9. QED
    BY <1>3, <1>4, <1>5, <1>6, <1>7, <1>8, Assembled

LEMMA RegisterKeeps ==
    ASSUME SuiteInv, NEW r \in Runs, Register(r) \/ RegisterFails(r)
    PROVE  SuiteInv'
  <1>1. /\ Shape /\ KnownUsers(r) /\ Findable(r) /\ pc[r] \in {"register", "second"}
        /\ userIds[r] = {}
    BY DEF SuiteInv, DataOk, Register, RegisterFails, KnownUsers, Unsent
  <1>2. UNCHANGED <<orders, rows, plan, at, inflight, sweep, hit, strays, botched>>
    <2>1. Register(r) => UNCHANGED <<orders, rows, plan, at, inflight, sweep, hit, strays, botched>>
      BY DEF Register, history
    <2>2. RegisterFails(r) => UNCHANGED <<plan, at, inflight, sweep, hit, strays, botched>>
      BY DEF RegisterFails, Lose, Fault
    <2>3. RegisterFails(r) => UNCHANGED <<orders, rows>>
      BY DEF RegisterFails, Lose, Execute, db
    <2>4. QED
      BY <2>1, <2>2, <2>3
  <1>3. /\ \A n : RunOf(User(r, n)) = r
        /\ Register(r) => lost' = lost
    BY DEF RunOf, User, Register, history
  <1>4. FirstStep(r) \in {"step", "find"} /\ (FirstStep(r) = "step" => plan[r] # <<>>)
    BY DEF FirstStep
  <1>5. CASE Register(r) /\ pc[r] = "register" /\ NeedsSecond(r)
    <2>1. Goes(r, "second") /\ users' = users \cup {User(r, 1)} /\ userIds' = userIds
      BY <1>5 DEF Register, To, Goes
    <2>2. Joins(r, "second")
      BY <1>1, <1>2, <1>3, <1>5, <2>1 DEF Joins, Shape
    <2>3. QED
      BY <1>1, <2>2, JoinKeeps
  <1>6. CASE Register(r) /\ pc[r] = "register" /\ ~NeedsSecond(r)
    <2>1. /\ Goes(r, FirstStep(r)) /\ users' = users \cup {User(r, 1)}
          /\ userIds' = [userIds EXCEPT ![r] = {User(r, 1)}]
      BY <1>6 DEF Register, To, Goes
    <2>2. userIds'[r] = {User(r, 1)} /\ \A s \in Runs \ {r} : userIds'[s] = userIds[s]
      BY <1>1, <2>1 DEF Shape
    <2>3. DOMAIN userIds' = Runs
      BY <1>1, <2>1 DEF Shape
    <2>4. Joins(r, FirstStep(r))
      BY <1>2, <1>3, <1>4, <1>6, <2>1, <2>2, <2>3 DEF Joins
    <2>5. QED
      BY <1>1, <1>4, <2>4, JoinKeeps
  <1>7. CASE Register(r) /\ pc[r] = "second"
    <2>1. /\ Goes(r, FirstStep(r)) /\ users' = users \cup {User(r, 2)}
          /\ userIds' = [userIds EXCEPT ![r] = {User(r, 1), User(r, 2)}]
      BY <1>7 DEF Register, To, Goes
    <2>2. /\ userIds'[r] = {User(r, 1), User(r, 2)}
          /\ \A s \in Runs \ {r} : userIds'[s] = userIds[s]
      BY <1>1, <2>1 DEF Shape
    <2>3. DOMAIN userIds' = Runs
      BY <1>1, <2>1 DEF Shape
    <2>4. r \notin hit => User(r, 1) \in users
      BY <1>1, <1>7 DEF Findable
    <2>5. Joins(r, FirstStep(r))
      BY <1>2, <1>3, <1>4, <1>7, <2>1, <2>2, <2>3, <2>4 DEF Joins
    <2>6. QED
      BY <1>1, <1>4, <2>5, JoinKeeps
  <1>8. CASE RegisterFails(r)
    <2>1. PICK n \in {1, 2} : Lose(r, [op |-> "register", id |-> User(r, n)])
      BY <1>8 DEF RegisterFails
    <2>2. PICK q : q = [op |-> "register", id |-> User(r, n)]
      OBVIOUS
    <2>3. Registers(q, r) /\ q.op = "register" /\ q.id = User(r, n)
      BY <2>2 DEF Registers
    <2>4. /\ users' \in {users, users \cup {User(r, n)}}
          /\ \A l \in lost' : l \in lost \/ (l.run = r /\ Registers(l.q, r))
      BY <2>1, <2>2, <2>3 DEF Lose, Execute, db
    <2>5. Goes(r, "find") /\ userIds' = userIds
      BY <1>8 DEF RegisterFails, Lose, Fault, To, Goes
    <2>6. Joins(r, "find")
      BY <1>1, <1>2, <1>3, <2>4, <2>5 DEF Joins, Shape
    <2>7. QED
      BY <1>1, <2>6, JoinKeeps
  <1>9. QED
    BY <1>1, <1>5, <1>6, <1>7, <1>8


-----------------------------------------------------------------------------
(* The steps that send nothing and delete nothing. *)
LEMMA StillKeeps ==
    ASSUME SuiteInv, NEW r \in Runs, NEW place \in Places \ (Sending \cup {"second"}), Goes(r, place),
           UNCHANGED <<plan, at, inflight, userIds>>, UNCHANGED <<db, hit, strays, lost>>,
           place # "done" => pc[r] # "done", botched \subseteq botched', DOMAIN sweep' = Runs,
           \A s \in Runs \ {r} : sweep'[s] = sweep[s],
           Swept(r)', place \in Unsent => pc[r] \in Unsent
    PROVE  SuiteInv'
  <1>1. Shape /\ LostOk /\ AtStep(r) /\ KnownUsers(r) /\ DataOk(r)
    BY DEF SuiteInv
  <1>2. pc'[r] = place /\ \A s \in Runs \ {r} : pc'[s] = pc[s]
    BY <1>1 DEF Goes, Shape
  <1>3. Alone(r)
    BY <1>1, <1>2 DEF Alone, Typed, Goes, Shape
  <1>4. AtStep(r)' /\ KnownUsers(r)'
    <2>1. pc'[r] \notin Sending /\ (pc'[r] \in Unsent => pc[r] \in Unsent)
      BY <1>2
    <2>2. at'[r] = at[r] /\ userIds'[r] = userIds[r]
      OBVIOUS
    <2>3. AtStep(r)'
      BY <1>1, <2>1, <2>2 DEF AtStep
    <2>4. KnownUsers(r)'
      BY <1>1, <2>1, <2>2 DEF KnownUsers
    <2>5. QED
      BY <2>3, <2>4
  <1>5. pc'[r] \notin Sending \cup {"second"} /\ (pc'[r] # "done" => pc[r] # "done")
    BY <1>2
  <1>6. Tables'
    BY <1>1 DEF Shape, Tables, db
  <1>7. ASSUME NEW s \in Runs PROVE DataOk(s)'
    <2>1. CASE s = r
      <3>1. Owned(r)'
        BY <1>1 DEF DataOk, Owned, db
      <3>2. Findable(r)'
        BY <1>1, <1>5 DEF DataOk, Findable, db
      <3>3. QED
        BY <2>1, <3>1, <3>2 DEF DataOk
    <2>2. CASE s # r
      BY <1>2, <2>2, DataStill
    <2>3. QED
      BY <2>1, <2>2
  <1>8. QED
    BY <1>1, <1>3, <1>4, <1>6, <1>7, LostStill, Assembled

LEMMA StartKeeps ==
    ASSUME SuiteInv, NEW r \in Runs, StartSuiteRun(r)
    PROVE  SuiteInv'
  <1>1. /\ Goes(r, "register") /\ pc[r] = "idle"
        /\ UNCHANGED <<plan, at, inflight, userIds>> /\ UNCHANGED <<db, hit, strays, lost>>
        /\ botched' = botched /\ sweep' = sweep
    BY DEF StartSuiteRun, To, Goes, history
  <1>2. pc'[r] = "register" /\ DOMAIN sweep = Runs
    BY <1>1 DEF Goes, SuiteInv, Shape
  <1>3. Swept(r)'
    BY <1>2 DEF Swept, Deleting
  <1>4. "register" \in Places \ (Sending \cup {"second"}) /\ pc[r] \in Unsent
    BY <1>1 DEF Places, Unsent, Sending
  <1>5. QED
    BY <1>1, <1>2, <1>3, <1>4, StillKeeps

LEMMA FindKeeps ==
    ASSUME SuiteInv, NEW r \in Runs, FindUsers(r)
    PROVE  SuiteInv'
  <1>1. PICK place : place = IF users \cup userIds[r] = {} THEN "done" ELSE "refunds"
    OBVIOUS
  <1>2. /\ Goes(r, place) /\ sweep' = [sweep EXCEPT ![r] = users \cup userIds[r]]
        /\ UNCHANGED <<plan, at, inflight, userIds>> /\ UNCHANGED <<db, hit, strays, lost>>
        /\ botched' = botched
    BY <1>1 DEF FindUsers, To, Goes, history
  <1>3. Shape /\ Owned(r) /\ pc[r] = "find"
    BY DEF SuiteInv, DataOk, FindUsers
  <1>4. /\ pc'[r] = place /\ sweep'[r] = users \cup userIds[r]
        /\ \A s \in Runs \ {r} : sweep'[s] = sweep[s]
    BY <1>2, <1>3 DEF Goes, Shape
  <1>5. DOMAIN sweep' = Runs
    BY <1>2, <1>3 DEF Shape
  <1>6. users' = users /\ orders' = orders /\ rows' = rows
    BY <1>2 DEF db
  <1>7. Swept(r)'
    <2>1. CASE users \cup userIds[r] = {}
      <3>1. users' = {} /\ userIds[r] = {} /\ pc'[r] = "done"
        BY <1>1, <1>4, <1>6, <2>1
      <3>2. NoOrders(r)' /\ NoUsers(r)' /\ \A kind : NoRows(r, kind)'
        BY <1>3, <1>6, <3>1 DEF NoOrders, NoUsers, NoRows, Owned
      <3>3. QED
        BY <3>1, <3>2 DEF Swept, Deleting
    <2>2. CASE users \cup userIds[r] # {}
      <3>1. pc'[r] = "refunds"
        BY <1>1, <1>4, <2>2
      <3>2. userIds'[r] \subseteq sweep'[r] /\ \A u \in users' : u \in sweep'[r]
        BY <1>2, <1>4, <1>6
      <3>3. QED
        BY <3>1, <3>2 DEF Swept, Deleting
    <2>3. QED
      BY <2>1, <2>2
  <1>8. place \in Places \ (Sending \cup {"second"}) /\ place \notin Unsent
    BY <1>1 DEF Places, Unsent, Sending, CleanupSteps
  <1>9. QED
    BY <1>2, <1>3, <1>4, <1>5, <1>7, <1>8, StillKeeps

LEMMA CleanupFailsKeeps ==
    ASSUME SuiteInv, NEW r \in Runs, CleanupFails(r)
    PROVE  SuiteInv'
  <1>1. /\ Goes(r, "done") /\ sweep' = sweep /\ botched' = botched \cup {r}
        /\ UNCHANGED <<plan, at, inflight, userIds>> /\ UNCHANGED <<db, hit, strays, lost>>
    BY DEF CleanupFails, Fault, To, Goes
  <1>2. pc'[r] = "done" /\ DOMAIN sweep = Runs
    BY <1>1 DEF Goes, SuiteInv, Shape
  <1>3. Swept(r)'
    BY <1>1, <1>2 DEF Swept, Deleting
  <1>4. "done" \in Places \ (Sending \cup {"second"}) /\ "done" \notin Unsent
    BY DEF Places, Unsent, Sending
  <1>5. QED
    BY <1>1, <1>2, <1>3, <1>4, StillKeeps

(* A run that loses a command goes to its cleanup, or dies. *)
LEMMA RunFailsKeeps ==
    ASSUME SuiteInv, NEW r \in Runs, RunFails(r)
    PROVE  SuiteInv'
  <1>1. PICK place \in {"dead", "find"} : Goes(r, place)
    BY DEF RunFails, To, Goes
  <1>2. /\ UNCHANGED <<plan, at, inflight, userIds>> /\ UNCHANGED <<db, hit, strays, lost>>
        /\ botched' = botched /\ sweep' = sweep /\ pc[r] # "done"
    BY DEF RunFails, Fault
  <1>3. pc'[r] = place /\ DOMAIN sweep = Runs
    BY <1>1 DEF Goes, SuiteInv, Shape
  <1>4. Swept(r)'
    BY <1>3 DEF Swept, Deleting
  <1>5. place \in Places \ (Sending \cup {"second"}) /\ place \notin Unsent
    BY DEF Places, Unsent, Sending, CleanupSteps
  <1>6. QED
    BY <1>1, <1>2, <1>3, <1>4, <1>5, StillKeeps

(* Where every run is left alone, or dies. *)
LEMMA DeathKeeps ==
    ASSUME SuiteInv, UNCHANGED <<plan, at, inflight, userIds, sweep, botched>>,
           UNCHANGED <<db, hit, strays, lost>>, pc' \in [Runs -> Places],
           \A s \in Runs : pc'[s] = pc[s] \/ (pc[s] # "done" /\ pc'[s] = "dead")
    PROVE  SuiteInv'
  <1>1. Shape'
    BY DEF SuiteInv, Shape, Tables, db
  <1>2. ASSUME NEW s \in Runs PROVE AtStep(s)' /\ KnownUsers(s)' /\ DataOk(s)'
    <2>1. CASE pc'[s] = pc[s]
      <3>1. Scenario(s)' = Scenario(s) /\ Step(s)' = Step(s) /\ NeedsSecond(s)' = NeedsSecond(s)
        BY DEF Scenario, Step, NeedsSecond
      <3>2. AtStep(s)' /\ KnownUsers(s)'
        BY <2>1, <3>1 DEF SuiteInv, AtStep, KnownUsers
      <3>3. QED
        BY <2>1, <3>2, DataStill
    <2>2. CASE pc[s] # "done" /\ pc'[s] = "dead"
      <3>1. AtStep(s)' /\ KnownUsers(s)'
        BY <2>2 DEF SuiteInv, AtStep, KnownUsers, Unsent, Sending
      <3>2. Owned(s)'
        BY DEF SuiteInv, DataOk, Owned, db
      <3>3. Swept(s)'
        BY <2>2 DEF Swept, Deleting
      <3>4. Findable(s)'
        BY <2>2 DEF SuiteInv, DataOk, Findable, Sending, db
      <3>5. QED
        BY <3>1, <3>2, <3>3, <3>4 DEF DataOk
    <2>3. QED
      BY <2>1, <2>2
  <1>3. LostOk'
    BY LostStill DEF SuiteInv
  <1>4. QED
    BY <1>1, <1>2, <1>3 DEF SuiteInv

LEMMA CrashKeeps ==
    ASSUME SuiteInv, Crash
    PROVE  SuiteInv'
  <1>1. UNCHANGED <<plan, at, inflight, userIds, sweep, botched>> /\ UNCHANGED <<db, hit, strays, lost>>
    BY DEF Crash
  <1>2. pc' = [r \in Runs |-> IF pc[r] \in {"idle", "done"} THEN pc[r] ELSE "dead"]
    BY DEF Crash
  <1>3. pc' \in [Runs -> Places] /\ \A s \in Runs : pc'[s] = pc[s] \/ (pc[s] # "done" /\ pc'[s] = "dead")
    BY <1>2 DEF SuiteInv, Shape, Places
  <1>4. QED
    BY <1>1, <1>3, DeathKeeps

LEMMA StutterKeeps ==
    ASSUME SuiteInv, UNCHANGED vars
    PROVE  SuiteInv'
  <1>1. UNCHANGED <<plan, at, inflight, userIds, sweep, botched>> /\ UNCHANGED <<db, hit, strays, lost>>
    BY DEF vars, runVars, history
  <1>2. pc' \in [Runs -> Places] /\ \A s \in Runs : pc'[s] = pc[s]
    BY DEF vars, runVars, SuiteInv, Shape
  <1>3. QED
    BY <1>1, <1>2, DeathKeeps

(* A request that was under way is executed: it is a stray one if the run  *)
(* has looked for its users.                                               *)
LEMMA BelatedKeeps ==
    ASSUME SuiteInv, NEW l \in lost, Belated(l)
    PROVE  SuiteInv'
  <1>1. PICK r \in Runs : l.run = r
    BY DEF SuiteInv, LostOk
  <1>2. PICK q : q = l.q
    OBVIOUS
  <1>3. /\ Execute(q) /\ lost' \subseteq lost /\ strays \subseteq strays'
        /\ pc[r] \in Deleting \cup {"done"} => q.id \in strays'
        /\ UNCHANGED <<plan, pc, at, inflight, userIds, sweep, hit, botched>>
    BY <1>1, <1>2 DEF Belated, runVars, CleanupSteps, Deleting
  <1>4. /\ Shape /\ LostOk /\ AtStep(r) /\ KnownUsers(r) /\ Goes(r, pc[r])
        /\ OfRun(q, r) \/ Registers(q, r)
    BY <1>1, <1>2, <1>3 DEF SuiteInv, LostOk, Goes, Shape
  <1>5. Alone(r) /\ LostOk'
    BY <1>3, <1>4, LostStill DEF Alone, Typed, Shape
  <1>6. AtStep(r)' /\ KnownUsers(r)'
    <2>1. Scenario(r)' = Scenario(r) /\ Step(r)' = Step(r) /\ NeedsSecond(r)' = NeedsSecond(r)
      BY <1>3 DEF Scenario, Step, NeedsSecond
    <2>2. QED
      BY <1>3, <1>4, <2>1 DEF AtStep, KnownUsers
  <1>7. Tables' /\ \A s \in Runs : DataOk(s)'
    <2>1. CASE OfRun(q, r)
      <3>1. Apply(Handle(q))
        BY <1>3, <2>1 DEF Execute, OfRun, Operations
      <3>2. SentAs(r, q.user, q.id)
        BY <1>4, <2>1, <3>1, ApplySends
      <3>3. QED
        BY <1>3, <1>4, <3>2, ArrivalKeeps
    <2>2. CASE Registers(q, r)
      <3>1. /\ users' = users \cup {q.id} /\ orders' = orders /\ rows' = rows
            /\ RunOf(q.id) = r
        BY <1>3, <2>2 DEF Registers, Execute, RunOf, User
      <3>2. ASSUME NEW s \in Runs PROVE Owned(s)' /\ Findable(s)'
        <4>1. Owned(s) /\ Findable(s)
          BY DEF SuiteInv, DataOk
        <4>2. Owned(s)'
          BY <1>3, <3>1, <4>1 DEF Owned
        <4>3. Findable(s)'
          BY <1>3, <3>1, <4>1 DEF Findable
        <4>4. QED
          BY <4>2, <4>3
      <3>3. ASSUME NEW s \in Runs PROVE Swept(s)'
        <4>1. Swept(s)
          BY DEF SuiteInv, DataOk
        <4>2. NoOrders(s) => NoOrders(s)'
          BY <1>3, <3>1 DEF NoOrders
        <4>3. \A kind : NoRows(s, kind) => NoRows(s, kind)'
          BY <1>3, <3>1 DEF NoRows
        <4>4. pc[s] = "done" /\ NoUsers(s) => NoUsers(s)'
          BY <1>3, <3>1 DEF NoUsers
        <4>5. pc[s] \in Deleting /\ (\A u \in users : RunOf(u) = s => u \in sweep[s] \/ u \in strays)
              => \A u \in users' : RunOf(u) = s => u \in sweep'[s] \/ u \in strays'
          BY <1>3, <3>1
        <4>6. QED
          BY <1>3, <4>1, <4>2, <4>3, <4>4, <4>5 DEF Swept
      <3>4. Tables'
        BY <1>4, <3>1 DEF Shape, Tables
      <3>5. QED
        BY <3>2, <3>3, <3>4 DEF DataOk
    <2>3. QED
      BY <1>4, <2>1, <2>2
  <1>8. QED
    BY <1>5, <1>6, <1>7, Assembled

-----------------------------------------------------------------------------
(* A cleanup takes from the tables; what it takes from another run is      *)
(* recorded.                                                               *)
Taken(r, place) ==
    /\ Goes(r, place)
    /\ UNCHANGED <<plan, at, inflight, userIds, sweep, botched, strays, lost>>
    /\ users' \subseteq users /\ rows' \subseteq rows /\ DOMAIN orders' \subseteq DOMAIN orders
    /\ \A i \in DOMAIN orders' : orders'[i] = orders[i]
    /\ hit \subseteq hit'

LEMMA TakenOthers ==
    ASSUME SuiteInv, NEW r \in Runs, NEW place, Taken(r, place), NEW s \in Runs \ {r},
           s \notin hit' => \A u \in users : RunOf(u) = s => u \in users'
    PROVE  DataOk(s)'
  <1>1. Owned(s) /\ Swept(s) /\ Findable(s) /\ KnownUsers(s)
    BY DEF SuiteInv, DataOk
  <1>2. /\ UNCHANGED <<plan, at, inflight, userIds, sweep, botched, strays, lost>> /\ hit \subseteq hit'
        /\ users' \subseteq users /\ rows' \subseteq rows /\ DOMAIN orders' \subseteq DOMAIN orders
        /\ \A i \in DOMAIN orders' : orders'[i] = orders[i]
    BY DEF Taken
  <1>3. pc'[s] = pc[s]
    BY DEF Taken, Goes, SuiteInv, Shape
  <1>4. Owned(s)'
    BY <1>1, <1>2 DEF Owned
  <1>5. Swept(s)'
    <2>1. NoOrders(s) => NoOrders(s)'
      BY <1>2 DEF NoOrders
    <2>2. \A kind : NoRows(s, kind) => NoRows(s, kind)'
      BY <1>2 DEF NoRows
    <2>3. NoUsers(s) => NoUsers(s)'
      BY <1>2 DEF NoUsers
    <2>4. QED
      BY <1>1, <1>2, <1>3, <2>1, <2>2, <2>3 DEF Swept
  <1>6. Findable(s)'
    <2>1. SUFFICES ASSUME s \notin hit' PROVE Findable(s)'
      BY DEF Findable
    <2>2. \A u \in users : RunOf(u) = s => u \in users'
      BY <2>1
    <2>3. RunOf(User(s, 1)) = s /\ \A u \in userIds[s] : RunOf(u) = s
      BY <1>1, KnownRuns DEF RunOf, User
    <2>4. QED
      BY <1>1, <1>2, <1>3, <2>1, <2>2, <2>3 DEF Findable
  <1>7. QED
    BY <1>4, <1>5, <1>6 DEF DataOk

LEMMA TakenKeeps ==
    ASSUME SuiteInv, NEW r \in Runs, pc[r] \in CleanupSteps,
           NEW place \in CleanupSteps \cup {"done"}, Taken(r, place),
           \A s \in Runs \ {r} : s \notin hit' => \A u \in users : RunOf(u) = s => u \in users',
           Swept(r)', Findable(r)'
    PROVE  SuiteInv'
  <1>1. Shape /\ LostOk /\ AtStep(r) /\ KnownUsers(r) /\ Owned(r)
    BY DEF SuiteInv, DataOk
  <1>2. Goes(r, place) /\ UNCHANGED <<plan, at, inflight, userIds, sweep, botched, strays, lost>> /\ pc'[r] = place
    BY <1>1 DEF Taken, Goes, Shape
  <1>3. Alone(r)
    BY <1>1, <1>2 DEF Alone, Typed, Goes, Shape, Places
  <1>4. AtStep(r)' /\ KnownUsers(r)'
    <2>1. pc'[r] \notin Sending \cup Unsent
      BY <1>2 DEF Sending, Unsent, CleanupSteps
    <2>2. AtStep(r)'
      BY <2>1 DEF AtStep
    <2>3. KnownUsers(r)'
      BY <1>1, <1>2, <2>1 DEF KnownUsers
    <2>4. QED
      BY <2>2, <2>3
  <1>5. Tables'
    BY <1>1 DEF Shape, Tables, Taken
  <1>6. DataOk(r)'
    <2>1. Owned(r)'
      BY <1>1 DEF Owned, Taken
    <2>2. QED
      BY <2>1 DEF DataOk
  <1>7. \A s \in Runs : DataOk(s)'
    BY <1>6, TakenOthers
  <1>8. QED
    BY <1>1, <1>2, <1>3, <1>4, <1>5, <1>7, LostStill, Assembled

(* What a statement of a cleanup leaves of the run's own data. *)
LEMMA OwnLeft ==
    ASSUME SuiteInv, NEW r \in Runs, NEW place, Taken(r, place), users' = users
    PROVE  /\ NoOrders(r) => NoOrders(r)'
           /\ \A kind : NoRows(r, kind) => NoRows(r, kind)'
           /\ place \notin Sending \cup {"second"} /\ pc[r] # "done" => Findable(r)'
  <1>1. /\ rows' \subseteq rows /\ DOMAIN orders' \subseteq DOMAIN orders
        /\ \A i \in DOMAIN orders' : orders'[i] = orders[i]
        /\ hit \subseteq hit' /\ pc'[r] = place /\ UNCHANGED <<strays, userIds>>
    BY DEF Taken, Goes, SuiteInv, Shape
  <1>2. NoOrders(r) => NoOrders(r)'
    BY <1>1 DEF NoOrders
  <1>3. \A kind : NoRows(r, kind) => NoRows(r, kind)'
    BY <1>1 DEF NoRows
  <1>4. place \notin Sending \cup {"second"} /\ pc[r] # "done" => Findable(r)'
    BY <1>1 DEF SuiteInv, DataOk, Findable
  <1>5. QED
    BY <1>2, <1>3, <1>4

LEMMA DeleteRowsKeeps ==
    ASSUME SuiteInv, NEW r \in Runs, DeleteRows(r)
    PROVE  SuiteInv'
  <1>1. PICK kind, place : /\ kind = (IF pc[r] = "refunds" THEN "refund" ELSE "payment")
                           /\ place = (IF pc[r] = "refunds" THEN "payments" ELSE "orders")
    OBVIOUS
  <1>2. /\ pc[r] \in {"refunds", "payments"} /\ Goes(r, place)
        /\ rows' = rows \ {e \in rows : e.kind = kind /\ e.user \in sweep[r]}
        /\ UNCHANGED <<plan, at, inflight, userIds, sweep, hit, botched, strays, lost>>
        /\ UNCHANGED <<users, orders>>
    BY <1>1 DEF DeleteRows, To, Goes
  <1>3. Taken(r, place)
    BY <1>2 DEF Taken
  <1>4. /\ Owned(r) /\ Swept(r) /\ pc'[r] = place
    BY <1>2 DEF SuiteInv, DataOk, Goes, Shape
  <1>5. place \in CleanupSteps /\ place \notin Sending \cup {"second"} /\ pc[r] \in CleanupSteps
    BY <1>1, <1>2 DEF CleanupSteps, Sending
  <1>6. NoRows(r, kind)'
    <2>1. userIds[r] \subseteq sweep[r]
      BY <1>2, <1>4 DEF Swept, Deleting
    <2>2. QED
      BY <1>2, <1>4, <2>1 DEF NoRows, Owned
  <1>7. Swept(r)'
    <2>1. NoRows(r, "refund") => NoRows(r, "refund")'
      BY <1>2, <1>3, OwnLeft
    <2>2. /\ userIds'[r] \subseteq sweep'[r]
          /\ \A u \in users' : RunOf(u) = r => u \in sweep'[r] \/ u \in strays'
      BY <1>2, <1>4 DEF Swept, Deleting
    <2>3. CASE pc[r] = "refunds"
      BY <1>1, <1>4, <1>6, <2>2, <2>3 DEF Swept, Deleting
    <2>4. CASE pc[r] = "payments"
      BY <1>1, <1>4, <1>6, <2>1, <2>2, <2>4 DEF Swept, Deleting
    <2>5. QED
      BY <1>2, <2>3, <2>4
  <1>8. Findable(r)'
    BY <1>2, <1>3, <1>5, OwnLeft
  <1>9. QED
    BY <1>2, <1>3, <1>5, <1>7, <1>8, TakenKeeps

LEMMA DeleteOrdersKeeps ==
    ASSUME SuiteInv, NEW r \in Runs, DeleteOrders(r)
    PROVE  SuiteInv'
  <1>1. /\ pc[r] = "orders" /\ Goes(r, "users")
        /\ orders' = [i \in DOMAIN orders \ Of(sweep[r]) |-> orders[i]]
        /\ UNCHANGED <<plan, at, inflight, userIds, sweep, hit, botched, strays, lost>>
        /\ UNCHANGED <<users, rows>>
    BY DEF DeleteOrders, To, Goes
  <1>2. Taken(r, "users")
    BY <1>1 DEF Taken
  <1>3. Owned(r) /\ Swept(r) /\ pc'[r] = "users"
    BY <1>1 DEF SuiteInv, DataOk, Goes, Shape
  <1>4. "users" \in CleanupSteps /\ "users" \notin Sending \cup {"second"} /\ pc[r] \in CleanupSteps
    BY <1>1 DEF CleanupSteps, Sending
  <1>5. NoOrders(r)'
    <2>1. userIds[r] \subseteq sweep[r]
      BY <1>1, <1>3 DEF Swept, Deleting
    <2>2. QED
      BY <1>1, <1>3, <2>1 DEF NoOrders, Owned, Of
  <1>6. Swept(r)'
    <2>1. NoRows(r, "refund")' /\ NoRows(r, "payment")'
      BY <1>1, <1>2, <1>3, OwnLeft DEF Swept
    <2>2. QED
      BY <1>1, <1>3, <1>5, <2>1 DEF Swept, Deleting
  <1>7. Findable(r)'
    BY <1>1, <1>2, <1>4, OwnLeft
  <1>8. QED
    BY <1>1, <1>2, <1>4, <1>6, <1>7, TakenKeeps

LEMMA DeleteUsersKeeps ==
    ASSUME SuiteInv, NEW r \in Runs, DeleteUsers(r)
    PROVE  SuiteInv'
  <1>1. /\ pc[r] = "users" /\ Goes(r, "done") /\ users' = users \ sweep[r]
        /\ hit' = hit \cup Victims(r, users \cap sweep[r])
        /\ UNCHANGED <<plan, at, inflight, userIds, sweep, botched, strays, lost>>
        /\ UNCHANGED <<orders, rows>>
    BY DEF DeleteUsers, To, Goes
  <1>2. Taken(r, "done")
    BY <1>1 DEF Taken
  <1>3. Swept(r) /\ pc'[r] = "done"
    BY <1>1 DEF SuiteInv, DataOk, Goes, Shape
  <1>4. NoOrders(r) /\ NoRows(r, "refund") /\ NoRows(r, "payment")
    BY <1>1, <1>3 DEF Swept
  <1>5. NoUsers(r)'
    BY <1>1, <1>3 DEF Swept, NoUsers, Deleting
  <1>6. Swept(r)'
    <2>1. NoOrders(r)' /\ NoRows(r, "refund")' /\ NoRows(r, "payment")'
      BY <1>1, <1>4 DEF NoOrders, NoRows
    <2>2. QED
      BY <1>3, <1>5, <2>1 DEF Swept, Deleting
  <1>7. Findable(r)'
    <2>1. \A e \in rows : RunOf(e.user) = r => e.id \in strays
      BY <1>4 DEF NoRows, SuiteInv, Shape, Tables, Kinds
    <2>2. QED
      BY <1>1, <1>3, <1>4, <2>1 DEF Findable, NoOrders, Sending
  <1>8. ASSUME NEW s \in Runs \ {r}, s \notin hit', NEW u \in users, RunOf(u) = s
        PROVE  u \in users'
    BY <1>1, <1>8 DEF Victims
  <1>9. QED
    BY <1>1, <1>2, <1>6, <1>7, <1>8, TakenKeeps DEF CleanupSteps

-----------------------------------------------------------------------------
LEMMA SuiteStarts ==
    ASSUME Init
    PROVE  SuiteInv
  <1>1. DOMAIN orders = {} /\ rows = {}
    BY DEF Init
  <1>2. Shape
    BY <1>1 DEF Init, Shape, Tables, Places, Unsent
  <1>3. ASSUME NEW r \in Runs PROVE AtStep(r) /\ KnownUsers(r) /\ DataOk(r)
    <2>1. /\ pc[r] = "idle" /\ at[r].scenario = 1 /\ at[r].step = 1 /\ userIds[r] = {}
      BY DEF Init
    <2>2. AtStep(r)
      BY <2>1 DEF AtStep, Sending
    <2>3. KnownUsers(r)
      BY <2>1 DEF KnownUsers, Sending
    <2>4. Owned(r) /\ Findable(r)
      BY <1>1, <2>1 DEF Owned, Findable
    <2>5. Swept(r)
      BY <2>1 DEF Swept, Deleting
    <2>6. QED
      BY <2>2, <2>3, <2>4, <2>5 DEF DataOk
  <1>4. LostOk
    BY DEF Init, LostOk
  <1>5. QED
    BY <1>2, <1>3, <1>4 DEF SuiteInv

LEMMA SuiteStays ==
    ASSUME SuiteInv, [Next]_vars
    PROVE  SuiteInv'
  <1>1. CASE UNCHANGED vars
    BY <1>1, StutterKeeps
  <1>2. CASE Crash
    BY <1>2, CrashKeeps
  <1>3. CASE AllOver
    BY <1>3, StutterKeeps DEF AllOver
  <1>4. ASSUME NEW r \in Runs, StartSuiteRun(r) \/ Proceed(r) \/ Faulty(r)
        PROVE  SuiteInv'
    <2>1. CASE StartSuiteRun(r)
      BY <2>1, StartKeeps
    <2>2. CASE Register(r) \/ RegisterFails(r)
      BY <2>2, RegisterKeeps
    <2>3. CASE ExecuteHttpStep(r) \/ StepFails(r)
      BY <2>3, StepKeeps
    <2>4. CASE ExecuteParallelStep(r)
      BY <2>4, ParallelKeeps
    <2>5. ASSUME NEW c \in inflight[r], ParallelChild(r, c) \/ ChildFails(r, c)
          PROVE  SuiteInv'
      BY <2>5, ChildKeeps
    <2>6. CASE FollowUp(r) \/ FollowUpFails(r)
      BY <2>6, FollowUpKeeps
    <2>7. CASE EndParallel(r)
      BY <2>7, EndKeeps
    <2>8. CASE FindUsers(r)
      BY <2>8, FindKeeps
    <2>9. CASE CleanupFails(r)
      BY <2>9, CleanupFailsKeeps
    <2>10. CASE DeleteRows(r)
      BY <2>10, DeleteRowsKeeps
    <2>11. CASE DeleteOrders(r)
      BY <2>11, DeleteOrdersKeeps
    <2>12. CASE DeleteUsers(r)
      BY <2>12, DeleteUsersKeeps
    <2>13. CASE EventFails(r)
      BY <2>13, EventKeeps
    <2>14. CASE RunFails(r)
      BY <2>14, RunFailsKeeps
    <2>15. QED
      BY <1>4, <2>1, <2>2, <2>3, <2>4, <2>5, <2>6, <2>7, <2>8, <2>9, <2>10, <2>11, <2>12,
         <2>13, <2>14
         DEF Proceed, Faulty
  <1>5. ASSUME NEW l \in lost, Belated(l) PROVE SuiteInv'
    BY <1>5, BelatedKeeps
  <1>6. QED
    BY <1>1, <1>2, <1>3, <1>4, <1>5 DEF Next

(* A run that ends, and whose cleanup did not fail, leaves no user, order, *)
(* payment or refund behind but what a service executed after the cleanup  *)
(* had looked for users, whatever the cleanups of other runs took from it  *)
(* (cleanupUsers sweeps what the prefix finds and what executeSuiteRun     *)
(* remembers).                                                             *)
THEOREM RunsCleanUpAfterThemselves == Spec => []NothingLeftBehind
  <1>1. ASSUME SuiteInv PROVE NothingLeftBehind
    <2> SUFFICES ASSUME NEW r \in Runs, pc[r] = "done", r \notin botched
                 PROVE  /\ NoOrders(r) /\ NoUsers(r)
                        /\ \A e \in rows : RunOf(e.user) = r => e.id \in strays
      BY DEF NothingLeftBehind, NoOrders, NoUsers
    <2>1. NoRows(r, "refund") /\ NoRows(r, "payment") /\ NoOrders(r) /\ NoUsers(r)
      BY <1>1 DEF SuiteInv, DataOk, Swept
    <2>2. \A e \in rows : RunOf(e.user) = r => e.id \in strays
      BY <1>1, <2>1 DEF NoRows, SuiteInv, Shape, Tables, Kinds
    <2>3. QED
      BY <2>1, <2>2
  <1>2. QED
    BY <1>1, SuiteStarts, SuiteStays, PTL DEF Spec

(* What a failed cleanup or a crash of the test runner leaves behind still *)
(* has its user, whom the next cleanup finds by the prefix, unless another *)
(* run's cleanup deleted that user, or its own did before a late request   *)
(* was executed (cleanupUsers deletes users last).                         *)
THEOREM LeftoversAreFound == Spec => []LeftoversFindable
  <1>1. ASSUME SuiteInv PROVE LeftoversFindable
    BY <1>1 DEF LeftoversFindable, SuiteInv, DataOk, Findable
  <1>2. QED
    BY <1>1, SuiteStarts, SuiteStays, PTL DEF Spec
=============================================================================
