------------------------------- MODULE LoadRun -------------------------------
(***************************************************************************)
(* test-runner-service: executeLoadRun.  Users are registered one by one;  *)
(* then orders are created, paid in part, paid in full and paid by a burst *)
(* through a pool of workers, one phase after the other, and at the end    *)
(* everything is deleted.  The requests go to OrderApi.                    *)
(*                                                                         *)
(* A job that throws ends the run, but not the other jobs: those in flight *)
(* and those that queue go on while the run cleans up and after it.        *)
(*                                                                         *)
(* The requests to OrderApi pass the rate limiter of the gateway (see      *)
(* Sessions), with Redis in order.  502 stands for every 5xx.              *)
(***************************************************************************)
EXTENDS OrderApi, Sequences, SequencesExt

CONSTANTS
    Profiles,   \* the profiles entered in LoadTab; amounts are in tenths of a cent
    Limits,     \* LOAD_LIMITS
    RATE_LIMIT_MAX,
    MaxFaults   \* bound on failed requests, and on deadlines and windows that pass

ASSUME LoadAssumption ==
    /\ MaxFaults \in Nat /\ RATE_LIMIT_MAX \in Nat
    /\ Limits \in [maxUsers : Nat \ {0}, maxConcurrency : Nat \ {0}, maxOrders : Nat \ {0},
                   maxTotal : Nat \ {0}, maxBurstParallel : Nat \ {0}, maxPayments : Nat,
                   maxTotalOps : Nat]
    /\ Profiles \subseteq [users : Int, concurrency : Int, orders : Int, total : Int,
                           percent : Int, amount : Int, parallel : Int,
                           payRemaining : BOOLEAN, burst : BOOLEAN]

VARIABLES
    profile,
    phase,      \* where executeLoadRun is
    tokens,     \* users registered
    orderIds,   \* created orders, in the order of their answers
    queue,      \* WorkerPool: callers that wait for a slot,
    woken,      \* ... whose promise is resolved and who have not gone on,
    active,     \* ... and its counter
    sent,       \* jobs whose request is under way
    thrown,     \* jobs that found the deadline passed
    settled,    \* jobs that have ended
    stats,      \* opStats: successes and failures by operation
    groups,     \* errorGroups: failures by status and operation
    completed,  \* completedOps
    late,       \* the deadline has passed
    threw,      \* a job or the registration has thrown
    window,     \* the limiter's counter of every user
    lost,       \* requests that nothing was heard of, and a service may yet execute
    sweep,      \* the users that the cleanup found
    botched,    \* the cleanup has failed (history)
    strays,     \* what came into being after the cleanup had looked (history)
    faults

pool == <<queue, woken, active, sent, thrown, settled>>
counts == <<stats, groups, completed>>
ending == <<sweep, botched>>
vars == <<db, profile, phase, tokens, orderIds, pool, counts, late, threw, window, lost,
          ending, strays, faults>>

-----------------------------------------------------------------------------
CeilDiv(a, b) == (a + b - 1) \div b
Least(a, b) == IF a < b THEN a ELSE b
Clamp(n, lo, hi) == IF n < lo THEN lo ELSE Least(n, hi)

Cent == 10

clampLoadProfile(p) ==
    [p EXCEPT !.users = Clamp(@, 1, Limits.maxUsers),
              !.concurrency = Clamp(@, 1, Limits.maxConcurrency),
              !.orders = Clamp(@, 1, Limits.maxOrders),
              !.total = IF @ < Cent THEN Cent ELSE @,
              !.percent = Clamp(@, 0, 100),
              !.amount = IF @ < Cent THEN Cent ELSE @,
              !.parallel = Clamp(@, 1, Limits.maxBurstParallel)]

partialCount(p) == CeilDiv(p.orders * p.percent, 100)

estimatePaymentOps(p) ==
    partialCount(p) + IF p.payRemaining THEN partialCount(p) \div 2 ELSE 0

(* Faulty variant: the payments of the remainder are not estimated. *)
estimateTotalOps_NoRemaining(p) ==
    p.users + p.orders + partialCount(p) + IF p.burst THEN p.parallel ELSE 0

estimateTotalOps(p) ==
    p.users + p.orders + estimatePaymentOps(p) + IF p.burst THEN p.parallel ELSE 0

validateLoadProfile(p) ==
    /\ p.users \in 1 .. Limits.maxUsers /\ p.concurrency \in 1 .. Limits.maxConcurrency
    /\ p.orders \in 1 .. Limits.maxOrders /\ p.total \in 1 .. Limits.maxTotal
    /\ p.percent \in 0 .. 100 /\ p.amount >= 1 /\ p.parallel \in 1 .. Limits.maxBurstParallel
    /\ estimatePaymentOps(p) <= Limits.maxPayments
    /\ estimateTotalOps(p) <= Limits.maxTotalOps

(* Those of them that pass the limiter, and the order of the burst. *)
Requests(p) == estimateTotalOps(p) - p.users + IF p.burst THEN 1 ELSE 0

(* Math.round(total * 0.4 * 100) / 100, and what is left: whole cents. *)
partialAmount == Cent * ((4 * profile.total + 50) \div 100)
remainingAmount == Cent * ((profile.total - partialAmount + 5) \div 10)

-----------------------------------------------------------------------------
Ops == {"register", "create_order", "partial_payment", "pay_remaining", "burst_order",
        "burst_payment"}

User(n) == <<"user", n>>

Init ==
    /\ users = {} /\ orders = <<>> /\ rows = {}
    /\ profile \in {p \in {clampLoadProfile(q) : q \in Profiles} : validateLoadProfile(p)}
    /\ phase = "register" /\ tokens = 0 /\ orderIds = <<>>
    /\ queue = <<>> /\ woken = {} /\ active = 0
    /\ sent = {} /\ thrown = {} /\ settled = {}
    /\ stats = [op \in Ops |-> [success |-> 0, fail |-> 0]]
    /\ groups = [g \in {} |-> 0]
    /\ completed = 0
    /\ late = FALSE /\ threw = FALSE /\ faults = 0
    /\ window = [u \in {User(n) : n \in 1 .. Limits.maxUsers} |-> 0]
    /\ lost = {} /\ sweep = {} /\ botched = FALSE /\ strays = {}

Fault == faults < MaxFaults /\ faults' = faults + 1

Grouped(gs, status, op, n) ==
    [g \in DOMAIN gs \cup {<<status, op>>} |->
        (IF g \in DOMAIN gs THEN gs[g] ELSE 0) + (IF g = <<status, op>> THEN n ELSE 0)]

(* `record`, n times *)
Record(op, status, ok, n) ==
    /\ completed' = completed + n
    /\ stats' = IF ok THEN [stats EXCEPT ![op].success = @ + n]
                ELSE [stats EXCEPT ![op].fail = @ + n]
    /\ groups' = IF ok THEN groups ELSE Grouped(groups, status, op, n)

-----------------------------------------------------------------------------
(* WorkerPool.run *)
Enter(js) ==
    /\ active' = active + Cardinality(js)
    /\ IF late THEN thrown' = thrown \cup js /\ UNCHANGED sent
               ELSE sent' = sent \cup js /\ UNCHANGED thrown

(* Callers that arrive together: as many as there is room for go on. *)
RunAll(js) ==
    LET room == Least(Max0(profile.concurrency - active), Len(js))
    IN  /\ Enter(ToSet(SubSeq(js, 1, room)))
        /\ queue' = queue \o SubSeq(js, room + 1, Len(js))

Resume(j) ==
    /\ j \in woken /\ woken' = woken \ {j}
    /\ Enter({j})
    /\ UNCHANGED <<db, profile, phase, tokens, orderIds, queue, settled, counts, late, threw,
                   window, lost, ending, strays, faults>>

(* The finally block: the slot is given up, and one caller woken.          *)
(* Faulty variant: nobody is woken when the job has thrown.                *)
Leave_WakesOnSuccess(j) ==
    /\ active' = active - 1
    /\ sent' = sent \ {j} /\ thrown' = thrown \ {j}
    /\ settled' = settled \cup {j}
    /\ IF queue = <<>> \/ threw' THEN UNCHANGED <<queue, woken>>
       ELSE queue' = Tail(queue) /\ woken' = woken \cup {Head(queue)}

Leave(j) ==
    /\ active' = active - 1
    /\ sent' = sent \ {j} /\ thrown' = thrown \ {j}
    /\ settled' = settled \cup {j}
    /\ IF queue = <<>> THEN UNCHANGED <<queue, woken>>
       ELSE queue' = Tail(queue) /\ woken' = woken \cup {Head(queue)}

-----------------------------------------------------------------------------
TokenOf(i) == User(((i - 1) % tokens) + 1)

BurstOrder == <<"burst_order", 1>>

(* The cleanup has selected the users that it is about. *)
Swept == {"delete payments", "delete orders", "delete users", "over"}

(* What a job asks for.                                                    *)
(* Faulty variant: the remainder is the whole.                             *)
Amount_WholeRemainder(op) ==
    CASE op \in {"create_order", "pay_remaining"} -> profile.total
      [] op = "partial_payment" -> partialAmount
      [] op = "burst_order" -> profile.amount * profile.parallel
      [] op = "burst_payment" -> profile.amount

Amount(op) ==
    CASE op = "create_order" -> profile.total
      [] op = "partial_payment" -> partialAmount
      [] op = "pay_remaining" -> remainingAmount
      [] op = "burst_order" -> profile.amount * profile.parallel
      [] op = "burst_payment" -> profile.amount

(* The request of a job <<operation, index>>: payments go by the index of  *)
(* an order in orderIds, and take the token by the same index.  toCents    *)
(* takes whole cents only.                                                 *)
RequestOf(j) ==
    [id |-> j, amount |-> Amount(j[1]) \div Cent, key |-> NoKey,
     op |-> IF j[1] \in {"create_order", "burst_order"} THEN "create" ELSE "payment",
     user |-> IF j[1] \in {"burst_order", "burst_payment"} THEN User(1) ELSE TokenOf(j[2]),
     order |-> CASE j[1] = "burst_payment" -> BurstOrder
                 [] j[1] \in {"partial_payment", "pay_remaining"} -> orderIds[j[2]]
                 [] OTHER -> None,
     customer |-> "load", dueIn |-> 24 * 14, valid |-> Amount(j[1]) % Cent = 0]

(* A burst expects to be turned down. *)
Ok(op, status) == status = 201 \/ (op = "burst_payment" /\ status = 409)

(* The answer of a job's request, and the end of the job. *)
Answered(j, status, id) ==
    /\ Record(j[1], status, Ok(j[1], status), 1)
    /\ orderIds' = IF j[1] = "create_order" /\ status = 201 THEN Append(orderIds, id)
                   ELSE orderIds
    /\ UNCHANGED threw
    /\ Leave(j)

Counting(q) == [window EXCEPT ![q.user] = @ + 1]

(* The gateway counts the request, and turns it down or lets it through.   *)
Through(q) ==
    IF window[q.user] >= RATE_LIMIT_MAX THEN Only(Bare(429)) ELSE Handle(q)

JobAnswered(j) ==
    LET q == RequestOf(j)
        out == Through(q)
    IN  /\ j \in sent
        /\ window' = Counting(q)
        /\ Apply(out) /\ Answered(j, out.res.status, out.res.id)
        /\ UNCHANGED <<profile, phase, tokens, late, lost, ending, strays, faults>>

Execute(q) ==
    IF q.op = "register" THEN users' = users \cup {q.id} /\ UNCHANGED <<orders, rows>>
    ELSE Apply(Handle(q))

(* A request comes to nothing, or is executed although nothing is heard of *)
(* it: at once, or at any time later.                                      *)
Unheard(q) ==
    \/ UNCHANGED <<db, lost>>
    \/ Execute(q) /\ UNCHANGED lost
    \/ lost' = lost \cup {q} /\ UNCHANGED db

(* The gateway is not reached, or turns the request down, or lets it pass. *)
LoseRequest(q) ==
    /\ Fault
    /\ \/ window' \in {window, Counting(q)} /\ UNCHANGED <<db, lost>>
       \/ window[q.user] < RATE_LIMIT_MAX /\ window' = Counting(q) /\ Unheard(q)

(* The gateway answers 502, or no answer comes and fetch throws. *)
JobFails(j) ==
    /\ j \in sent
    /\ LoseRequest(RequestOf(j))
    /\ \/ Answered(j, 502, None)
       \/ threw' = TRUE /\ Leave(j) /\ UNCHANGED <<counts, orderIds>>
    /\ UNCHANGED <<profile, phase, tokens, late, ending, strays>>

(* A lost request is executed, whatever has become of the run. *)
Belated(q) ==
    /\ Execute(q)
    /\ lost' = lost \ {q}
    /\ strays' = strays \cup IF phase \in Swept THEN {q.id} ELSE {}
    /\ UNCHANGED <<profile, phase, tokens, orderIds, pool, counts, late, threw, window, ending,
                   faults>>

JobThrows(j) ==
    /\ j \in thrown
    /\ threw' = TRUE
    /\ Leave(j)
    /\ UNCHANGED <<db, profile, phase, tokens, orderIds, counts, late, window, lost, ending,
                   strays, faults>>

DeadlinePasses ==
    /\ ~late /\ Fault /\ late' = TRUE
    /\ UNCHANGED <<db, profile, phase, tokens, orderIds, pool, counts, threw, window, lost,
                   ending, strays>>

WindowEnds(u) ==
    /\ window[u] > 0 /\ Fault
    /\ window' = [window EXCEPT ![u] = 0]
    /\ UNCHANGED <<db, profile, phase, tokens, orderIds, pool, counts, late, threw, lost,
                   ending, strays>>

-----------------------------------------------------------------------------
(* The register loop: checkTimeout, a request (/api/auth is not limited),  *)
(* its answer                                                              *)
Register ==
    LET q == [op |-> "register", id |-> User(tokens + 1)]
    IN  /\ phase = "register" /\ tokens < profile.users
        /\ \/ /\ ~late
              /\ Execute(q)
              /\ tokens' = tokens + 1
              /\ Record("register", 201, TRUE, 1)
              /\ UNCHANGED <<phase, threw, lost, faults>>
           \/ /\ ~late /\ Fault
              /\ Unheard(q)
              /\ Record("register", 502, FALSE, 1) \/ UNCHANGED counts
              /\ threw' = TRUE /\ phase' = "find" /\ UNCHANGED tokens
           \/ /\ late
              /\ threw' = TRUE /\ phase' = "find"
              /\ UNCHANGED <<db, tokens, counts, lost, faults>>
        /\ UNCHANGED <<profile, orderIds, pool, late, window, ending, strays>>

Jobs(op, n) == [i \in 1 .. n |-> <<op, i>>]

(* Promise.all over the jobs of a phase: all have settled, or one threw.   *)
Awaited(op, n) == ~threw /\ ToSet(Jobs(op, n)) \subseteq settled

StartPhase(next, op, n) ==
    /\ phase' = next
    /\ RunAll(Jobs(op, n))
    /\ UNCHANGED <<db, profile, tokens, orderIds, woken, settled, counts, late, threw, window,
                   lost, ending, strays, faults>>

PartialJobs == Least(partialCount(profile), Len(orderIds))
RemainingJobs == IF profile.payRemaining THEN PartialJobs \div 2 ELSE 0
Bursts == profile.burst /\ orderIds # <<>>

CreateOrders ==
    /\ phase = "register" /\ tokens = profile.users
    /\ StartPhase("orders", "create_order", profile.orders)

PayPartially ==
    /\ phase = "orders" /\ Awaited("create_order", profile.orders)
    /\ StartPhase("payments", "partial_payment", PartialJobs)

PayRemaining ==
    /\ phase = "payments" /\ Awaited("partial_payment", PartialJobs)
    /\ StartPhase("remaining", "pay_remaining", RemainingJobs)

(* The burst order is created outside of the pool, and not counted; what   *)
(* fails is counted in place of the payments that are not sent.            *)
BurstAnswered(status) ==
    IF status = 201
    THEN /\ phase' = "burst"
         /\ RunAll(Jobs("burst_payment", profile.parallel))
         /\ UNCHANGED <<woken, settled, counts>>
    ELSE /\ phase' = "find"
         /\ completed' = completed + profile.parallel
         /\ stats' = [stats EXCEPT !["burst_order"].fail = @ + 1,
                                   !["burst_payment"].fail = @ + profile.parallel]
         /\ groups' = Grouped(Grouped(groups, status, "burst_order", 1), status,
                              "burst_payment", profile.parallel)
         /\ UNCHANGED pool

CreateBurstOrder ==
    /\ phase = "remaining" /\ Awaited("pay_remaining", RemainingJobs) /\ Bursts
    /\ \/ LET q == RequestOf(BurstOrder)
              out == Through(q)
          IN  /\ window' = Counting(q) /\ Apply(out) /\ BurstAnswered(out.res.status)
              /\ UNCHANGED <<threw, lost, faults>>
       \/ /\ LoseRequest(RequestOf(BurstOrder))
          /\ \/ BurstAnswered(502) /\ UNCHANGED threw
             \/ threw' = TRUE /\ phase' = "find" /\ UNCHANGED <<pool, counts>>
    /\ UNCHANGED <<profile, tokens, orderIds, late, ending, strays>>

EndPhases ==
    /\ \/ phase = "remaining" /\ Awaited("pay_remaining", RemainingJobs) /\ ~Bursts
       \/ phase = "burst" /\ Awaited("burst_payment", profile.parallel)
    /\ phase' = "find"
    /\ UNCHANGED <<db, profile, tokens, orderIds, pool, counts, late, threw, window, lost,
                   ending, strays, faults>>

(* The catch block *)
GiveUp ==
    /\ phase \in {"orders", "payments", "remaining", "burst"} /\ threw
    /\ phase' = "find"
    /\ UNCHANGED <<db, profile, tokens, orderIds, pool, counts, late, threw, window, lost,
                   ending, strays, faults>>

-----------------------------------------------------------------------------
(* cleanupUsers, as far as it is about rows: the users with the prefix of  *)
(* load users, and those that the run knows of.                            *)
Found == users \cup {User(n) : n \in 1 .. tokens}

Select(next) == phase = "find" /\ phase' = next /\ sweep' = Found /\ UNCHANGED db

DeletePayments ==
    rows' = {e \in rows : e.user \notin sweep} /\ UNCHANGED <<users, orders, sweep>>

DeleteOrders ==
    /\ orders' = [i \in {i \in DOMAIN orders : orders[i].owner \notin sweep} |-> orders[i]]
    /\ UNCHANGED <<users, rows, sweep>>

DeleteUsers == users' = users \ sweep /\ UNCHANGED <<orders, rows, sweep>>

(* Faulty variant: the payments are those of the users that still exist,   *)
(* and the users go first.                                                 *)
Cleanup_UsersFirst ==
    /\ \/ Select(IF Found = {} THEN "over" ELSE "delete users")
       \/ phase = "delete users" /\ DeleteUsers /\ phase' = "delete orders"
       \/ phase = "delete orders" /\ DeleteOrders /\ phase' = "delete payments"
       \/ phase = "delete payments" /\ rows' = {e \in rows : e.user \notin sweep \cap users}
             /\ UNCHANGED <<users, orders, sweep>> /\ phase' = "over"
    /\ UNCHANGED <<profile, tokens, orderIds, pool, counts, late, threw, window, lost, botched,
                   strays, faults>>

Cleanup ==
    /\ \/ Select(IF Found = {} THEN "over" ELSE "delete payments")
       \/ phase = "delete payments" /\ DeletePayments /\ phase' = "delete orders"
       \/ phase = "delete orders" /\ DeleteOrders /\ phase' = "delete users"
       \/ phase = "delete users" /\ DeleteUsers /\ phase' = "over"
    /\ UNCHANGED <<profile, tokens, orderIds, pool, counts, late, threw, window, lost, botched,
                   strays, faults>>

(* A statement of it fails: that is logged and forgotten. *)
CleanupFails ==
    /\ phase \in {"find"} \cup (Swept \ {"over"}) /\ Fault
    /\ phase' = "over" /\ botched' = TRUE
    /\ UNCHANGED <<db, profile, tokens, orderIds, pool, counts, late, threw, window, lost, sweep,
                   strays>>

Proceed ==
    \/ Register \/ CreateOrders \/ PayPartially \/ PayRemaining \/ CreateBurstOrder \/ EndPhases
    \/ GiveUp \/ Cleanup
    \/ \E j \in woken : Resume(j)
    \/ \E j \in sent : JobAnswered(j)
    \/ \E j \in thrown : JobThrows(j)

Over == phase = "over" /\ sent \cup thrown \cup woken = {} /\ UNCHANGED vars

Next ==
    \/ Proceed
    \/ \E j \in sent : JobFails(j)
    \/ \E q \in lost : Belated(q)
    \/ DeadlinePasses \/ \E u \in DOMAIN window : WindowEnds(u)
    \/ CleanupFails
    \/ Over

Spec == Init /\ [][Next]_vars

-----------------------------------------------------------------------------
(* No more requests are under way than `concurrency`, and the counter says *)
(* how many: a caller that was woken and one that arrives before it has    *)
(* gone on do not both take the slot.  Who waits for a slot has somebody   *)
(* to be woken by.                                                         *)
PoolMoves ==
    /\ active = Cardinality(sent \cup thrown)
    /\ active + Cardinality(woken) <= profile.concurrency
    /\ queue # <<>> => sent \cup thrown \cup woken # {}

(* The progress bar does not go beyond its end, and a run that comes to    *)
(* its end with all its orders has filled it (`Keep ops accounting aligned *)
(* with estimate`).                                                        *)
EstimateMet ==
    /\ completed <= estimateTotalOps(profile)
    /\ phase = "find" /\ ~threw /\ Len(orderIds) = profile.orders =>
          completed = estimateTotalOps(profile)

(* The load does not get in its own way, but for a rate limit that it is   *)
(* larger than: what is turned down is an amount with a fraction of a cent *)
(* or a partial payment that is rounded to nothing, a payment by a user    *)
(* who does not own the order, or a job that has outlived the run.         *)
FailuresExplained ==
    \A g \in DOMAIN groups :
        \/ g[1] = 502 /\ faults > 0
        \/ g[1] = 429 /\ Requests(profile) > RATE_LIMIT_MAX
        \/ g = <<400, "partial_payment">> /\ partialAmount = 0
        \/ g = <<400, "create_order">> /\ profile.total % Cent # 0
        \/ g[1] = 400 /\ g[2] \in {"burst_order", "burst_payment"} /\ profile.amount % Cent # 0
        \/ g[1] = 404 /\ g[2] \in {"partial_payment", "pay_remaining"} /\ profile.users > 1
        \/ g[1] = 404 /\ threw

(* A run whose jobs have all come to their end leaves nothing behind, and  *)
(* no run leaves a user, unless the cleanup fails; but what a service      *)
(* executes after the cleanup has looked is left.                          *)
CleansUp ==
    phase = "over" /\ ~botched =>
        /\ users \subseteq strays
        /\ ~threw => DOMAIN orders \subseteq strays /\ {e.id : e \in rows} \subseteq strays

=============================================================================
