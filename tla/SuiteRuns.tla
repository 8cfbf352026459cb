------------------------------ MODULE SuiteRuns ------------------------------
(***************************************************************************)
(* test-runner-service: suite runs.  A run registers users of its own,     *)
(* sends the steps of its scenarios to the live services, compares the     *)
(* answers with what the scenarios expect, and cleans up.  Several runs    *)
(* may be under way: they share the services' tables, and the cleanup of   *)
(* each takes every user whose e-mail has the prefix of suite users.       *)
(*                                                                         *)
(* One action per request (which the services handle in one instant, see   *)
(* OrderApi) and one per statement of a cleanup.                           *)
(***************************************************************************)
EXTENDS Scenarios

CONSTANTS
    Runs,           \* suite runs
    Plans,          \* what getScenarios makes of the selections a run is started with
    MaxFaults       \* bound on requests and statements that fail, and on crashes

ASSUME SuiteAssumption == MaxFaults \in Nat /\ Plans \subseteq Seq(DOMAIN ALL_SCENARIOS)

VARIABLES
    plan,       \* plan[r]: the scenarios the run is to execute
    pc,         \* pc[r]: where executeSuiteRun is
    at,         \* at[r]: indices of the scenario, its step and its follow-up
    inflight,   \* inflight[r]: children of a parallel step not answered yet
    won,        \* won[r]: how many of its children passed
    sound,      \* sound[r]: the follow-ups so far passed
    captures,   \* captures[r]: ids captured in the scenario
    userIds,    \* userIds[r]: the users the run knows to be its own
    sweep,      \* sweep[r]: the users its cleanup found
    score,      \* score[r]: scenarios passed and failed
    lost,       \* requests that the run has given up and a service may yet execute
    faults,     \* failures and crashes so far
    disturbed,  \* history: runs that lost a request or an event, or data to another run
    hit,        \* history: runs that lost a user to another run's cleanup
    botched,    \* history: runs whose cleanup failed
    strays      \* history: what came into being after its run's cleanup had looked

runVars == <<plan, pc, at, inflight, won, sound, captures, userIds, sweep, score>>
history == <<lost, faults, disturbed, hit, botched, strays>>
vars == <<db, runVars, history>>

-----------------------------------------------------------------------------
CleanupSteps == {"find", "refunds", "payments", "orders", "users"}
NeedsSecond(r) == \E s \in Range(plan[r]) : s \in needsSecondUser
Scenario(r) == ALL_SCENARIOS[plan[r][at[r].scenario]]
Step(r) == Scenario(r)[at[r].step]

User(r, n) == <<r, n>>
RunOf(u) == u[1]

Init ==
    /\ users = {} /\ orders = <<>> /\ rows = {}
    /\ plan \in [Runs -> Plans]
    /\ pc = [r \in Runs |-> "idle"]
    /\ at = [r \in Runs |-> [scenario |-> 1, step |-> 1, after |-> 0]]
    /\ inflight = [r \in Runs |-> {}]
    /\ won = [r \in Runs |-> 0]
    /\ sound = [r \in Runs |-> TRUE]
    /\ captures = [r \in Runs |-> <<>>]
    /\ userIds = [r \in Runs |-> {}]
    /\ sweep = [r \in Runs |-> {}]
    /\ score = [r \in Runs |-> [passed |-> 0, failed |-> 0]]
    /\ faults = 0
    /\ lost = {} /\ disturbed = {} /\ hit = {} /\ botched = {} /\ strays = {}

To(r, place) == pc' = [pc EXCEPT ![r] = place]

StartSuiteRun(r) ==
    /\ pc[r] = "idle"
    /\ To(r, "register")
    /\ UNCHANGED <<db, plan, at, inflight, won, sound, captures, userIds, sweep,
                   score, history>>

(* The loop over the scenarios: there may be none. *)
FirstStep(r) == IF plan[r] = <<>> THEN "find" ELSE "step"

(* createRunUsers: the run learns of its users when both are registered. *)
Register(r) ==
    /\ \/ /\ pc[r] = "register"
          /\ users' = users \cup {User(r, 1)}
          /\ To(r, IF NeedsSecond(r) THEN "second" ELSE FirstStep(r))
          /\ userIds' = IF NeedsSecond(r) THEN userIds
                        ELSE [userIds EXCEPT ![r] = {User(r, 1)}]
       \/ /\ pc[r] = "second"
          /\ users' = users \cup {User(r, 2)}
          /\ To(r, FirstStep(r))
          /\ userIds' = [userIds EXCEPT ![r] = {User(r, 1), User(r, 2)}]
    /\ UNCHANGED <<orders, rows, plan, at, inflight, won, sound, captures, sweep,
                   score, history>>

-----------------------------------------------------------------------------
(* The request of a step: `n` tells the requests of a run apart. *)
RequestOf(r, step, n) ==
    [op |-> step.op, id |-> <<r, at[r], n>>, user |-> User(r, step.asUser),
     order |-> IF step.order = None THEN None ELSE captures[r][step.order],
     amount |-> step.amount, key |-> step.key, customer |-> step.customer,
     dueIn |-> step.dueIn, valid |-> step.valid]

(* What capture.data.id or data.payment.id is in an answer. *)
CapturedIn(step, res) == IF step.op = "create" THEN res.id ELSE res.row

Passes(r, step, res) ==
    /\ res.status = step.status
    /\ \A f \in DOMAIN step.assert : res[f] = step.assert[f]
    /\ step.same # None => res.row = captures[r][step.same]
    /\ step.capture # None => CapturedIn(step, res) # None

(* The scenario goes on, or ends: a step that failed is its last one. *)
Advance(r, ok) ==
    LET more == ok /\ at[r].step < Len(Scenario(r))
        next == at[r].scenario + 1
    IN  /\ at' = [at EXCEPT ![r] =
                     IF more THEN [scenario |-> @.scenario, step |-> @.step + 1, after |-> 0]
                     ELSE [scenario |-> next, step |-> 1, after |-> 0]]
        /\ score' = IF more THEN score
                    ELSE IF ok THEN [score EXCEPT ![r].passed = @ + 1]
                    ELSE [score EXCEPT ![r].failed = @ + 1]
        /\ To(r, IF more \/ next <= Len(plan[r]) THEN "step" ELSE "find")

(* executeHttpStep has its answer, in a step of its own. *)
Answered(r, res) ==
    LET step == Step(r)
        ok == Passes(r, step, res)
        ends == ~ok \/ at[r].step = Len(Scenario(r))
        keep == IF step.capture = None THEN captures[r]
                ELSE [c \in DOMAIN captures[r] \cup {step.capture} |->
                        IF c = step.capture THEN CapturedIn(step, res) ELSE captures[r][c]]
    IN  /\ captures' = [captures EXCEPT ![r] = IF ends THEN <<>> ELSE keep]
        /\ Advance(r, ok)
        /\ UNCHANGED <<inflight, won, sound>>

ExecuteHttpStep(r) ==
    /\ pc[r] = "step"
    /\ Step(r).kind = "http"
    /\ LET out == Handle(RequestOf(r, Step(r), 0)) IN Apply(out) /\ Answered(r, out.res)
    /\ UNCHANGED <<plan, userIds, sweep, history>>

(* executeParallelStep: all children are sent at once ... *)
ExecuteParallelStep(r) ==
    /\ pc[r] = "step"
    /\ Step(r).kind = "parallel"
    /\ inflight' = [inflight EXCEPT ![r] = DOMAIN Step(r).steps]
    /\ won' = [won EXCEPT ![r] = 0]
    /\ sound' = [sound EXCEPT ![r] = TRUE]
    /\ To(r, "parallel")
    /\ UNCHANGED <<db, plan, at, captures, userIds, sweep, score, history>>

(* ... and answered in any order; ... *)
ChildAnswered(r, c, ok) ==
    /\ inflight' = [inflight EXCEPT ![r] = @ \ {c}]
    /\ won' = [won EXCEPT ![r] = IF ok THEN @ + 1 ELSE @]
    /\ To(r, IF inflight[r] = {c} THEN "after" ELSE "parallel")
    /\ UNCHANGED <<at, sound, captures, score>>

ParallelChild(r, c) ==
    LET step == Step(r).steps[c]
        out == Handle(RequestOf(r, step, c))
    IN  /\ pc[r] = "parallel" /\ c \in inflight[r]
        /\ Apply(out) /\ ChildAnswered(r, c, Passes(r, step, out.res))
        /\ UNCHANGED <<plan, userIds, sweep, history>>

(* ... the follow-ups are sent whatever came of them, one by one. *)
FollowUp(r) ==
    LET n == at[r].after + 1
        step == Step(r).after[n]
        out == Handle(RequestOf(r, step, 2 + n))
    IN  /\ pc[r] = "after" /\ n <= Len(Step(r).after)
        /\ Apply(out)
        /\ sound' = [sound EXCEPT ![r] = @ /\ Passes(r, step, out.res)]
        /\ at' = [at EXCEPT ![r].after = n]
        /\ UNCHANGED <<plan, pc, inflight, won, captures, userIds, sweep, score, history>>

CountsOk(r) ==
    /\ won[r] = Step(r).successCount
    /\ Len(Step(r).steps) - won[r] = Step(r).failureCount

EndParallel(r) ==
    LET ok == CountsOk(r) /\ sound[r]
    IN  /\ pc[r] = "after" /\ at[r].after = Len(Step(r).after)
        /\ Advance(r, ok)
        /\ captures' = [captures EXCEPT ![r] =
                           IF ok /\ at[r].step < Len(Scenario(r)) THEN @ ELSE <<>>]
        /\ UNCHANGED <<db, plan, inflight, won, sound, userIds, sweep, history>>

-----------------------------------------------------------------------------
(* cleanupUsers({ userIds, emailPrefixes: ['testrun+'] }) *)
Of(us) == {i \in DOMAIN orders : orders[i].owner \in us}

(* Faulty variants: only what the prefix finds is swept; the users are     *)
(* deleted as they are found (DELETE ... RETURNING id).                    *)
FindUsers_DeletesThem(r) ==
    /\ pc[r] = "find"
    /\ sweep' = [sweep EXCEPT ![r] = users \cup userIds[r]]
    /\ users' = {}
    /\ To(r, "refunds")
    /\ UNCHANGED <<orders, rows, plan, at, inflight, won, sound, captures, userIds, score,
                   history>>

FindUsers_PrefixOnly(r) ==
    /\ pc[r] = "find"
    /\ sweep' = [sweep EXCEPT ![r] = users]
    /\ To(r, "refunds")
    /\ UNCHANGED <<db, plan, at, inflight, won, sound, captures, userIds, score, history>>

FindUsers(r) ==
    /\ pc[r] = "find"
    /\ sweep' = [sweep EXCEPT ![r] = users \cup userIds[r]]
    /\ To(r, IF users \cup userIds[r] = {} THEN "done" ELSE "refunds")
    /\ UNCHANGED <<db, plan, at, inflight, won, sound, captures, userIds, score, history>>

(* Runs other than r that lose something to its cleanup. *)
Victims(r, us) == {RunOf(u) : u \in us} \ {r}

DeleteRows(r) ==
    LET kind == IF pc[r] = "refunds" THEN "refund" ELSE "payment"
        gone == {e \in rows : e.kind = kind /\ e.user \in sweep[r]}
    IN  /\ pc[r] \in {"refunds", "payments"}
        /\ rows' = rows \ gone
        /\ To(r, IF pc[r] = "refunds" THEN "payments" ELSE "orders")
        /\ disturbed' = disturbed \cup Victims(r, {e.user : e \in gone})
        /\ UNCHANGED <<users, orders, plan, at, inflight, won, sound, captures, userIds,
                       sweep, score, lost, faults, hit, botched, strays>>

DeleteOrders(r) ==
    LET gone == Of(sweep[r])
    IN  /\ pc[r] = "orders"
        /\ orders' = [i \in DOMAIN orders \ gone |-> orders[i]]
        /\ To(r, "users")
        /\ disturbed' = disturbed \cup Victims(r, {orders[i].owner : i \in gone})
        /\ UNCHANGED <<users, rows, plan, at, inflight, won, sound, captures, userIds,
                       sweep, score, lost, faults, hit, botched, strays>>

DeleteUsers(r) ==
    /\ pc[r] = "users"
    /\ users' = users \ sweep[r]
    /\ hit' = hit \cup Victims(r, users \cap sweep[r])
    /\ To(r, "done")
    /\ UNCHANGED <<orders, rows, plan, at, inflight, won, sound, captures, userIds,
                   sweep, score, lost, faults, disturbed, botched,
                   strays>>

-----------------------------------------------------------------------------
Fault(r) ==
    /\ faults < MaxFaults
    /\ faults' = faults + 1
    /\ UNCHANGED <<plan, userIds, sweep, hit, strays>>

(* The service that executes a request q. *)
Execute(q) ==
    IF q.op = "register" THEN users' = users \cup {q.id} /\ UNCHANGED <<orders, rows>>
    ELSE Apply(Handle(q))

(* Nothing is heard of q, or a 502: it has been executed, it never will    *)
(* be, or it is still under way.                                           *)
Lose(r, q) ==
    /\ Fault(r)
    /\ disturbed' = disturbed \cup {r} /\ UNCHANGED botched
    /\ \/ UNCHANGED <<db, lost>>
       \/ Execute(q) /\ UNCHANGED lost
       \/ lost' = lost \cup {[run |-> r, q |-> q]} /\ UNCHANGED db

(* Registration: run.error and cleanup. *)
RegisterFails(r) ==
    /\ pc[r] \in {"register", "second"}
    /\ Lose(r, [op |-> "register", id |-> User(r, IF pc[r] = "register" THEN 1 ELSE 2)])
    /\ To(r, "find")
    /\ UNCHANGED <<at, inflight, won, sound, captures, score>>

(* fetch throws, and the step has failed. *)
StepFails(r) ==
    /\ pc[r] = "step" /\ Step(r).kind = "http"
    /\ Lose(r, RequestOf(r, Step(r), 0))
    /\ Advance(r, FALSE)
    /\ captures' = [captures EXCEPT ![r] = <<>>]
    /\ UNCHANGED <<inflight, won, sound>>

ChildFails(r, c) ==
    /\ pc[r] = "parallel" /\ c \in inflight[r]
    /\ Lose(r, RequestOf(r, Step(r).steps[c], c))
    /\ ChildAnswered(r, c, FALSE)

FollowUpFails(r) ==
    LET n == at[r].after + 1
    IN  /\ pc[r] = "after" /\ n <= Len(Step(r).after)
        /\ Lose(r, RequestOf(r, Step(r).after[n], 2 + n))
        /\ sound' = [sound EXCEPT ![r] = FALSE]
        /\ at' = [at EXCEPT ![r].after = n]
        /\ UNCHANGED <<pc, inflight, won, captures, score>>

(* A request that is still under way is executed, whatever has become of   *)
(* its run.                                                                *)
Belated(l) ==
    /\ Execute(l.q)
    /\ lost' = lost \ {l}
    /\ strays' = strays \cup IF pc[l.run] \in (CleanupSteps \ {"find"}) \cup {"done"}
                             THEN {l.q.id} ELSE {}
    /\ UNCHANGED <<runVars, faults, disturbed, hit, botched>>

(* step.started or step.finished cannot be stored: the hook throws, and    *)
(* executeScenario takes it for a failure of the scenario.                 *)
EventFails(r) ==
    /\ \/ pc[r] = "step" /\ UNCHANGED db
       \/ pc[r] = "step" /\ Step(r).kind = "http" /\ Execute(RequestOf(r, Step(r), 0))
       \/ pc[r] = "after" /\ at[r].after = Len(Step(r).after) /\ UNCHANGED db
    /\ Fault(r) /\ disturbed' = disturbed \cup {r}
    /\ Advance(r, FALSE)
    /\ captures' = [captures EXCEPT ![r] = <<>>]
    /\ UNCHANGED <<inflight, won, sound, lost, botched>>

(* A command between two scenarios fails: run.error and cleanup.  Before   *)
(* run.started is stored there is no handler, and no cleanup.              *)
RunFails(r) ==
    /\ \/ pc[r] = "register" /\ To(r, "dead")
       \/ pc[r] = "step" /\ at[r].step = 1 /\ To(r, "find")
    /\ Fault(r) /\ disturbed' = disturbed \cup {r}
    /\ UNCHANGED <<db, at, inflight, won, sound, captures, score, lost, botched>>

(* A statement of the cleanup fails: that is logged and forgotten. *)
CleanupFails(r) ==
    /\ pc[r] \in CleanupSteps
    /\ Fault(r)
    /\ To(r, "done")
    /\ botched' = botched \cup {r}
    /\ UNCHANGED <<db, at, inflight, won, sound, captures, score, lost, disturbed>>

(* The test runner stops: its runs are not taken up again. *)
Crash ==
    /\ faults < MaxFaults
    /\ faults' = faults + 1
    /\ pc' = [r \in Runs |-> IF pc[r] \in {"idle", "done"} THEN pc[r] ELSE "dead"]
    /\ UNCHANGED <<db, plan, at, inflight, won, sound, captures, userIds, sweep, score,
                   lost, disturbed, hit, botched, strays>>

-----------------------------------------------------------------------------
Proceed(r) ==
    \/ Register(r)
    \/ ExecuteHttpStep(r) \/ ExecuteParallelStep(r)
    \/ \E c \in inflight[r] : ParallelChild(r, c)
    \/ FollowUp(r) \/ EndParallel(r)
    \/ FindUsers(r) \/ DeleteRows(r) \/ DeleteOrders(r) \/ DeleteUsers(r)

Faulty(r) ==
    \/ RegisterFails(r) \/ StepFails(r) \/ FollowUpFails(r) \/ EventFails(r)
    \/ RunFails(r) \/ CleanupFails(r)
    \/ \E c \in inflight[r] : ChildFails(r, c)

AllOver == (\A r \in Runs : pc[r] \in {"done", "dead"}) /\ UNCHANGED vars

Next ==
    \/ \E r \in Runs : StartSuiteRun(r) \/ Proceed(r) \/ Faulty(r)
    \/ \E l \in lost : Belated(l)
    \/ Crash
    \/ AllOver

Spec == Init /\ [][Next]_vars

-----------------------------------------------------------------------------
(* A scenario fails only for a reason outside of it: a request or an event *)
(* of its run was lost, or another run's cleanup took its data.  So what   *)
(* the scenarios expect is what the services do, in every order of the     *)
(* concurrent payments.                                                    *)
VerdictsTrue == \A r \in Runs : score[r].failed > 0 => r \in disturbed

(* A run that ends has removed all its data, even if another run's cleanup *)
(* took its user in the middle and it went on to create orders; but what a *)
(* service executes after the cleanup has looked is left.                  *)
NothingLeftBehind ==
    \A r \in Runs :
        pc[r] = "done" /\ r \notin botched =>
            /\ \A i \in DOMAIN orders : RunOf(orders[i].owner) = r => i \in strays
            /\ \A e \in rows : RunOf(e.user) = r => e.id \in strays
            /\ \A u \in users : RunOf(u) = r => u \in strays

(* What a failed cleanup or a crash leaves can be found by the next        *)
(* cleanup: its owner is still there to be matched by the prefix, unless   *)
(* the run's own cleanup had removed it when a late request was executed.  *)
LeftoversFindable ==
    \A r \in Runs :
        pc[r] \in {"done", "dead"} /\ r \notin hit =>
            /\ \A i \in DOMAIN orders :
                  RunOf(orders[i].owner) = r => orders[i].owner \in users \/ i \in strays
            /\ \A e \in rows : RunOf(e.user) = r => e.user \in users \/ e.id \in strays

=============================================================================
