----------------------------- MODULE TestRunner -----------------------------
(***************************************************************************)
(* test-runner-service and the dashboard of test-web: runs are started,    *)
(* recorded in Redis, kept apart by a lock and a presence set, and watched *)
(* over an event stream.                                                   *)
(*                                                                         *)
(* The service is one process with one Redis connection, so its commands   *)
(* take effect in the order in which they were sent: `pipe` holds who sent *)
(* them.  To execute a command is also to run its sender up to its next    *)
(* one.  What runs does between commands (requests, the work of the load   *)
(* executor) takes any time.                                               *)
(***************************************************************************)
EXTENDS Integers, Sequences, SequencesExt, FiniteSets

CONSTANTS
    Suites, Loads,  \* suite runs and load runs
    Casts,          \* the pairs <<runs that are started, runs that are watched>>
    Scenarios,      \* Scenarios[s]: number of scenarios of a suite run
    MaxProgress,    \* MaxProgress[l]: bound on progress callbacks of a load run
    MaxFaults,      \* bound on lost connections, failed commands, crashes, overruns
    None

ASSUME RunnerAssumption ==
    /\ Suites \cap Loads = {} /\ None \notin Suites \cup Loads
    /\ \A c \in Casts : c[2] \subseteq c[1] /\ c[1] \subseteq Suites \cup Loads
    /\ Scenarios \in [Suites -> Nat] /\ MaxProgress \in [Loads -> Nat]
    /\ MaxFaults \in Nat

VARIABLES
    cast,       \* the runs of this behaviour, and those whose tab stays open
    record,     \* record[r]: the run's record in Redis
    lock,       \* the active-run lock
    presence,   \* the set of active suites
    ttl,        \* the presence set has a time to live
    pipe,       \* senders of the commands under way
    pc,         \* pc[r]: where startLoadRun/executeLoad or their twins are
    mem,        \* mem[r]: the record they have read last
    at,         \* at[r]: scenario and event a suite run has come to
    outcome,    \* outcome[r]: verdicts of scenarios, or of the load executor
    callbacks,  \* callbacks[r]: progress callbacks of a load run
    died,       \* died[r]: where the executor of a run was lost (between SADD and EXPIRE?)
    overrun,    \* load runs that outlived their lock
    tab,        \* tab[r]: runStatus of the tab that started r
    shown,      \* shown[r]: what the tab shows of each scenario
    conn,       \* conn[r]: the tab's stream
    net,        \* net[r]: frames written and not yet received
    timer,      \* timer[r]: the tab's error timer is running
    faults

store == <<record, lock, presence, ttl>>
engine == <<pc, mem, at, outcome, callbacks, died, overrun>>
browser == <<tab, shown, conn, net, timer>>
vars == <<cast, store, pipe, engine, browser, faults>>

-----------------------------------------------------------------------------
Runs == Suites \cup Loads
Main(r) == <<"main", r>>
Stream(r) == <<"stream", r>>
Callback(r, n) == <<"callback", r, n>>

Busy == {"connecting", "running"}
Terminal == {"finished", "failed"}
Verdict(ok) == IF ok THEN "passed" ELSE "failed"

(* A SuiteRunRecord or LoadRunRecord as startSuiteRun, startLoadRun save it. *)
Queued == [status |-> "queued", error |-> FALSE, summary |-> None, scenarios |-> <<>>]

(* What appendEvent is called with between run.started and the end. *)
ScenarioEvents == <<"scenario.started", "step.started", "step.finished", "scenario.finished">>

Event(type) == [type |-> type, n |-> 0, ok |-> TRUE, run |-> None]

Init ==
    /\ cast \in Casts
    /\ record = [r \in Runs |-> None]
    /\ lock = None /\ presence = {} /\ ttl = FALSE
    /\ pipe = <<>>
    /\ pc = [r \in Runs |-> "idle"]
    /\ mem = [r \in Runs |-> None]
    /\ at = [r \in Runs |-> <<1, 1>>]
    /\ outcome = [r \in Runs |-> <<>>]
    /\ callbacks = [r \in Runs |-> <<>>]
    /\ died = [r \in Runs |-> None]
    /\ overrun = {}
    /\ tab = [r \in Runs |-> "idle"]
    /\ shown = [s \in Suites |-> [n \in 1 .. Scenarios[s] |-> "pending"]]
    /\ conn = [r \in Runs |-> "none"]
    /\ net = [r \in Runs |-> <<>>]
    /\ timer = [r \in Runs |-> FALSE]
    /\ faults = 0

-----------------------------------------------------------------------------
(* Commands *)
Turn(p) == pipe # <<>> /\ Head(pipe) = p
At(r, place) == Turn(Main(r)) /\ pc[r] = place

Send(p) == pipe' = Append(pipe, p)
SendNext(p) == pipe' = Append(Tail(pipe), p)
Stop == pipe' = Tail(pipe)

Goto(r, place) == pc' = [pc EXCEPT ![r] = place]
Then(r, place) == Goto(r, place) /\ SendNext(Main(r))

(* emitRunEvent: who listens has a frame written, and after the last one   *)
(* the response is ended.                                                  *)
Frames(e) ==
    IF e.type \in {"run.finished", "load.finished"} THEN <<e, Event("end")>> ELSE <<e>>

Emit(r, e) == net' = IF conn[r] = "open" THEN [net EXCEPT ![r] = @ \o Frames(e)] ELSE net

-----------------------------------------------------------------------------
(* The tab asks for a run: startRun of SuitesTab, startLoad of LoadTab. *)
Click(r) ==
    /\ r \in cast[1] /\ tab[r] = "idle"
    /\ tab' = [tab EXCEPT ![r] = "connecting"]
    /\ Goto(r, IF r \in Loads THEN "gate" ELSE "create")
    /\ Send(Main(r))
    /\ UNCHANGED <<cast, store, mem, at, outcome, callbacks, died, overrun, shown, conn, net,
                   timer, faults>>

(* The answer to the POST: 202 and the stream is opened, or an error. *)
Accepted(r) == conn' = [conn EXCEPT ![r] = "opening"] /\ UNCHANGED <<tab, shown, net, timer>>
Refused(r) == tab' = [tab EXCEPT ![r] = "error"] /\ UNCHANGED <<shown, conn, net, timer>>

(* anyRunActive: GET of the lock, then SCARD of the presence set. *)
Gate(l) ==
    /\ \/ /\ At(l, "gate") /\ lock = None
          /\ Then(l, "gate2") /\ UNCHANGED browser
       \/ /\ At(l, "gate2") /\ presence = {}
          /\ Then(l, "acquire") /\ UNCHANGED browser
       \/ /\ (At(l, "gate") /\ lock # None) \/ (At(l, "gate2") /\ presence # {})
          /\ Goto(l, "ended") /\ Stop /\ Refused(l)
    /\ UNCHANGED <<cast, store, mem, at, outcome, callbacks, died, overrun, faults>>

(* tryAcquireActiveLock                                                    *)
(* Faulty variant: SET without NX.                                         *)
Acquire_Always(l) ==
    /\ At(l, "acquire")
    /\ lock' = l
    /\ Then(l, "create")
    /\ UNCHANGED <<cast, record, presence, ttl, mem, at, outcome, callbacks, died, overrun,
                   browser, faults>>

Acquire(l) ==
    /\ At(l, "acquire")
    /\ \/ lock = None /\ lock' = l /\ Then(l, "create") /\ UNCHANGED browser
       \/ lock # None /\ UNCHANGED lock /\ Goto(l, "ended") /\ Stop /\ Refused(l)
    /\ UNCHANGED <<cast, record, presence, ttl, mem, at, outcome, callbacks, died, overrun,
                   faults>>

Save(r, rec) == record' = [record EXCEPT ![r] = rec]

(* saveRun; a load run is answered now, a suite run after markSuiteActive. *)
Create(r) ==
    /\ At(r, "create")
    /\ Save(r, Queued)
    /\ \/ r \in Loads /\ Then(r, "begin") /\ Accepted(r)
       \/ r \in Suites /\ Then(r, "sadd") /\ UNCHANGED browser
    /\ UNCHANGED <<cast, lock, presence, ttl, mem, at, outcome, callbacks, died, overrun,
                   faults>>

(* Faulty variant: the set is given no time to live. *)
MarkSuiteActive_NoExpire(s) ==
    /\ At(s, "sadd")
    /\ presence' = presence \cup {s} /\ UNCHANGED ttl
    /\ Then(s, "begin") /\ Accepted(s)
    /\ UNCHANGED <<cast, record, lock, mem, at, outcome, callbacks, died, overrun, faults>>

MarkSuiteActive(s) ==
    /\ \/ /\ At(s, "sadd")
          /\ presence' = presence \cup {s} /\ UNCHANGED ttl
          /\ Then(s, "expire") /\ UNCHANGED browser
       \/ /\ At(s, "expire")
          /\ ttl' = (presence # {}) /\ UNCHANGED presence
          /\ Then(s, "begin") /\ Accepted(s)
    /\ UNCHANGED <<cast, record, lock, mem, at, outcome, callbacks, died, overrun, faults>>

(* getRun, into the variable the caller keeps. *)
Read(r, place, next) ==
    /\ At(r, place)
    /\ mem' = [mem EXCEPT ![r] = record[r]]
    /\ Then(r, next)
    /\ UNCHANGED <<cast, store, at, outcome, callbacks, died, overrun, browser, faults>>

(* saveRun of what was read, with some fields changed. *)
Write(r, place, next, rec) ==
    /\ At(r, place)
    /\ Save(r, rec)
    /\ Then(r, next)
    /\ mem' = [mem EXCEPT ![r] = None]
    /\ UNCHANGED <<cast, lock, presence, ttl, at, outcome, callbacks, died, overrun,
                   browser, faults>>

(* The second half of appendEvent: saveRun, then the event goes out.       *)
Publish(r, place, e) ==
    /\ At(r, place)
    /\ Save(r, mem[r])
    /\ Emit(r, e)
    /\ mem' = [mem EXCEPT ![r] = None]
    /\ UNCHANGED <<lock, presence, ttl, cast, callbacks, died, overrun, tab, shown, conn,
                   timer, faults>>

(* executeSuiteRun and executeLoad up to run.started *)
Begin(r) ==
    \/ Read(r, "begin", "running")
    \/ Write(r, "running", "startedR", [mem[r] EXCEPT !.status = "running"])
    \/ Read(r, "startedR", "startedW")
    \/ /\ Publish(r, "startedW", Event("run.started"))
       /\ Goto(r, "working") /\ Stop
       /\ UNCHANGED <<at, outcome>>

-----------------------------------------------------------------------------
(* A suite run: the events of its scenarios *)
LastEvent(s) == at[s][2] = Len(ScenarioEvents)

(* A request was answered, or createRunUsers returned: the next event.     *)
Work(s) ==
    /\ s \in Suites /\ pc[s] = "working"
    /\ \/ /\ at[s][1] <= Scenarios[s]
          /\ Goto(s, "eventR")
          /\ \E ok \in BOOLEAN :
                outcome' = IF LastEvent(s) THEN [outcome EXCEPT ![s] = Append(@, ok)] ELSE outcome
       \/ /\ at[s][1] > Scenarios[s]
          /\ Goto(s, "finalR") /\ UNCHANGED outcome
    /\ Send(Main(s))
    /\ UNCHANGED <<cast, store, mem, at, callbacks, died, overrun, browser, faults>>

(* createRunUsers throws; executeScenario catches what fails. *)
WorkFails(s) ==
    /\ s \in Suites /\ pc[s] = "working" /\ at[s] = <<1, 1>>
    /\ faults < MaxFaults /\ faults' = faults + 1
    /\ Goto(s, "catchR") /\ Send(Main(s))
    /\ UNCHANGED <<cast, store, mem, at, outcome, callbacks, died, overrun, browser>>

ScenarioEvent(s) ==
    [Event(ScenarioEvents[at[s][2]]) EXCEPT
        !.n = at[s][1], !.ok = IF LastEvent(s) THEN Last(outcome[s]) ELSE TRUE]

AppendScenarioEvent(s) ==
    \/ Read(s, "eventR", "eventW")
    \/ /\ Publish(s, "eventW", ScenarioEvent(s))
       /\ \/ LastEvent(s) /\ Then(s, "pushR") /\ UNCHANGED at
          \/ ~LastEvent(s) /\ Goto(s, "working") /\ Stop /\ at' = [at EXCEPT ![s][2] = @ + 1]
       /\ UNCHANGED outcome

(* current.scenarios.push(...), after scenario.finished has gone out *)
PushScenario(s) ==
    \/ Read(s, "pushR", "pushW")
    \/ /\ At(s, "pushW")
       /\ Save(s, [mem[s] EXCEPT !.scenarios = Append(@, Last(outcome[s]))])
       /\ mem' = [mem EXCEPT ![s] = None]
       /\ at' = [at EXCEPT ![s] = <<@[1] + 1, 1>>]
       /\ Goto(s, "working") /\ Stop
       /\ UNCHANGED <<cast, lock, presence, ttl, outcome, callbacks, died, overrun,
                      browser, faults>>

AllPassed(seq) == \A i \in DOMAIN seq : seq[i]

(* Faulty variant: the verdict is taken from the first scenario. *)
FinishSuite_FirstOnly(s) ==
    LET ok == \A i \in {1} \cap DOMAIN mem[s].scenarios : mem[s].scenarios[i]
    IN  \/ Read(s, "finalR", "finalW")
        \/ Write(s, "finalW", "endR",
                 [mem[s] EXCEPT !.status = "finished", !.summary = Verdict(ok)])
        \/ Read(s, "endR", "endW")
        \/ /\ Publish(s, "endW", [Event("run.finished") EXCEPT !.ok = mem[s].summary = "passed"])
           /\ Goto(s, "cleanup") /\ Stop
           /\ UNCHANGED <<at, outcome>>

FinishSuite(s) ==
    \/ Read(s, "finalR", "finalW")
    \/ Write(s, "finalW", "endR", [mem[s] EXCEPT !.status = "finished",
                                      !.summary = Verdict(AllPassed(mem[s].scenarios))])
    \/ Read(s, "endR", "endW")
    \/ /\ Publish(s, "endW", [Event("run.finished") EXCEPT !.ok = mem[s].summary = "passed"])
       /\ Goto(s, "cleanup") /\ Stop
       /\ UNCHANGED <<at, outcome>>

(* The catch block: run.error for a suite, run.finished for a load run.    *)
(* Faulty variant: the record is marked and no event is sent.              *)
Catch_Silently(r) ==
    \/ Read(r, "catchR", "catchW")
    \/ /\ At(r, "catchW")
       /\ Save(r, [mem[r] EXCEPT !.status = "failed", !.error = TRUE])
       /\ Goto(r, IF r \in Suites THEN "cleanup" ELSE "releaseR")
       /\ IF r \in Suites THEN Stop ELSE SendNext(Main(r))
       /\ UNCHANGED <<cast, lock, presence, ttl, mem, at, outcome, callbacks, died, overrun,
                      browser, faults>>

Catch(r) ==
    \/ Read(r, "catchR", "catchW")
    \/ Write(r, "catchW", "errorR", [mem[r] EXCEPT !.status = "failed", !.error = TRUE])
    \/ Read(r, "errorR", "errorW")
    \/ /\ Publish(r, "errorW", [Event(IF r \in Suites THEN "run.error" ELSE "run.finished")
                                   EXCEPT !.ok = FALSE])
       /\ \/ r \in Suites /\ Goto(r, "cleanup") /\ Stop
          \/ r \in Loads /\ Then(r, "releaseR")
       /\ UNCHANGED <<at, outcome>>

(* cleanupUsers returns (it catches what fails). *)
CleanUp(s) ==
    /\ pc[s] = "cleanup"
    /\ Goto(s, "srem") /\ Send(Main(s))
    /\ UNCHANGED <<cast, store, mem, at, outcome, callbacks, died, overrun, browser, faults>>

(* Redis removes a set that has become empty, its time to live included.   *)
MarkSuiteInactive(s) ==
    /\ At(s, "srem")
    /\ presence' = presence \ {s}
    /\ ttl' = (ttl /\ presence' # {})
    /\ Goto(s, "ended") /\ Stop
    /\ UNCHANGED <<cast, record, lock, mem, at, outcome, callbacks, died, overrun, browser,
                   faults>>

-----------------------------------------------------------------------------
(* A load run: its executor calls back and does not wait *)
Pending(l) == {n \in DOMAIN callbacks[l] : callbacks[l][n].place # "over"}

AddCallback(l, type, ok) ==
    callbacks' = [callbacks EXCEPT ![l] =
                     Append(@, [type |-> type, ok |-> ok, place |-> "progressR", mem |-> None])]

NextCallback(l) == Callback(l, Len(callbacks[l]) + 1)

(* Jobs in flight when the executor gives up go on and report, too.        *)
Progress(l) ==
    /\ l \in Loads
    /\ pc[l] = "working" \/ (outcome[l] = <<"error">> /\ died[l] = None)
    /\ Len(callbacks[l]) < MaxProgress[l]
    /\ AddCallback(l, "load.progress", TRUE)
    /\ Send(NextCallback(l))
    /\ UNCHANGED <<cast, store, pc, mem, at, outcome, died, overrun, browser, faults>>

(* executeLoadRun returns its summary: passed, failed or timed out.        *)
ExecutorEnds(l) ==
    /\ l \in Loads /\ pc[l] = "working"
    /\ \E end \in {"passed", "failed", "error"} :
          /\ outcome' = [outcome EXCEPT ![l] = <<end>>]
          /\ AddCallback(l, IF end = "error" THEN "load.error" ELSE "load.finished", end = "passed")
    /\ Goto(l, "finalR")
    /\ pipe' = pipe \o <<NextCallback(l), Main(l)>>
    /\ UNCHANGED <<cast, store, mem, at, died, overrun, browser, faults>>

CallbackAt(l, n, place) ==
    /\ Turn(Callback(l, n)) /\ n \in DOMAIN callbacks[l] /\ callbacks[l][n].place = place
    /\ UNCHANGED <<cast, lock, presence, ttl, pc, mem, at, outcome, died, overrun, tab, shown,
                   conn, timer, faults>>

(* The summary and the error of the last callback go into the record.      *)
Reported(c) ==
    IF c.type = "load.progress" THEN c.mem
    ELSE [c.mem EXCEPT !.summary = Verdict(c.ok), !.error = @ \/ c.type = "load.error"]

(* GET and SET of the callback, then GET and SET of appendEvent *)
OnProgress(l, n) ==
    LET c == callbacks[l][n]
        move(place, m) == callbacks' = [callbacks EXCEPT ![l][n].place = place, ![l][n].mem = m]
    IN  \/ /\ CallbackAt(l, n, "progressR") \/ CallbackAt(l, n, "appendR")
           /\ move(IF c.place = "progressR" THEN "progressW" ELSE "appendW", record[l])
           /\ SendNext(Callback(l, n)) /\ UNCHANGED <<record, net>>
        \/ /\ CallbackAt(l, n, "progressW")
           /\ Save(l, Reported(c)) /\ move("appendR", None)
           /\ SendNext(Callback(l, n)) /\ UNCHANGED net
        \/ /\ CallbackAt(l, n, "appendW")
           /\ Save(l, c.mem) /\ move("over", None)
           /\ Emit(l, [Event(c.type) EXCEPT !.ok = c.ok])
           /\ Stop

FinishLoad(l) ==
    LET end == Last(outcome[l])
    IN  \/ Read(l, "finalR", "finalW")
        \/ Write(l, "finalW", "endR",
                 [mem[l] EXCEPT !.status = IF end = "passed" THEN "finished" ELSE "failed",
                                !.summary = Verdict(end = "passed")])
        \/ Read(l, "endR", "endW")
        \/ /\ Publish(l, "endW", Event("run.finished"))
           /\ Then(l, "releaseR")
           /\ UNCHANGED <<at, outcome>>

(* releaseActiveLock                                                       *)
(* Faulty variant: the lock is deleted whoever holds it.                   *)
Release_Any(l) ==
    /\ At(l, "releaseR")
    /\ lock' = None
    /\ Goto(l, "ended") /\ Stop
    /\ UNCHANGED <<cast, record, presence, ttl, mem, at, outcome, callbacks, died, overrun,
                   browser, faults>>

Release(l) ==
    /\ \/ At(l, "releaseR") /\ lock = l /\ Then(l, "releaseD") /\ UNCHANGED lock
       \/ At(l, "releaseR") /\ lock # l /\ Goto(l, "ended") /\ Stop /\ UNCHANGED lock
       \/ At(l, "releaseD") /\ lock' = None /\ Goto(l, "ended") /\ Stop
    /\ UNCHANGED <<cast, record, presence, ttl, mem, at, outcome, callbacks, died, overrun,
                   browser, faults>>

-----------------------------------------------------------------------------
(* Times to live, and what may go wrong *)
Fault == faults < MaxFaults /\ faults' = faults + 1

(* The lock lives 11 minutes: a run outlives it only by hanging, in its    *)
(* work or on its way to a command.                                        *)
LockExpires ==
    /\ lock # None
    /\ \/ pc[lock] \in {"ended", "dead"} /\ UNCHANGED <<overrun, faults>>
       \/ pc[lock] \notin {"ended", "dead"} /\ Fault /\ overrun' = overrun \cup {lock}
    /\ lock' = None
    /\ UNCHANGED <<cast, record, presence, ttl, pipe, pc, mem, at, outcome, callbacks, died,
                   browser>>

(* The presence set lives an hour after the last suite run has started. *)
PresenceExpires ==
    /\ ttl /\ \A s \in presence : pc[s] \in {"ended", "dead"}
    /\ presence' = {} /\ ttl' = FALSE
    /\ UNCHANGED <<cast, record, lock, pipe, engine, browser, faults>>

Starting == {"gate", "gate2", "acquire", "create", "sadd", "expire"}
Idle == {"idle", "ended", "dead"}
Lose(r) == IF pc[r] \in Idle THEN pc[r] ELSE "dead"
LostAt(r) ==
    IF pc[r] \in Idle THEN died[r] ELSE IF pc[r] = "expire" THEN "expire" ELSE "elsewhere"

(* The process stops and is started again: nobody resumes its runs. *)
Crash ==
    /\ Fault
    /\ \E r \in cast[1] : pc[r] \notin Idle
    /\ pc' = [r \in Runs |-> Lose(r)]
    /\ died' = [r \in Runs |-> LostAt(r)]
    /\ pipe' = <<>>
    /\ callbacks' = [l \in Runs |-> [n \in DOMAIN callbacks[l] |->
                        [callbacks[l][n] EXCEPT !.place = "over", !.mem = None]]]
    /\ tab' = [r \in Runs |-> IF pc[r] \in Starting THEN "error" ELSE tab[r]]
    /\ conn' = [r \in Runs |-> IF conn[r] \in {"asking", "found", "open"} THEN "dropped" ELSE conn[r]]
    /\ timer' = [r \in Runs |-> timer[r] \/ conn[r] \in {"asking", "found", "open"}]
    /\ net' = [r \in Runs |-> <<>>]
    /\ mem' = [r \in Runs |-> None]
    /\ UNCHANGED <<cast, store, at, outcome, overrun, shown>>

(* The events of a step are sent by executeScenario, which catches what    *)
(* fails: the scenario has failed, and its last event is next.             *)
InStep(s) == pc[s] \in {"eventR", "eventW"} /\ at[s][2] \in {2, 3}

StepEventFails(s) ==
    /\ Turn(Main(s)) /\ InStep(s) /\ Fault
    /\ outcome' = [outcome EXCEPT ![s] = Append(@, FALSE)]
    /\ at' = [at EXCEPT ![s][2] = Len(ScenarioEvents)]
    /\ Then(s, "eventR")
    /\ UNCHANGED <<cast, store, mem, callbacks, died, overrun, browser>>

(* A command of a run fails.  A start is answered 500; before the try      *)
(* block the executor is gone, inside it the catch block runs, and from    *)
(* there the finally block.                                                *)
CommandFails(r) ==
    LET onto == CASE pc[r] \in Starting \cup {"begin", "running", "startedR", "startedW", "srem",
                                              "releaseR", "releaseD"} -> "dead"
                  [] pc[r] \in {"catchR", "catchW", "errorR", "errorW"} ->
                        IF r \in Suites THEN "cleanup" ELSE "releaseR"
                  [] OTHER -> "catchR"
    IN  /\ Turn(Main(r)) /\ ~InStep(r) /\ Fault
        /\ Goto(r, onto)
        /\ died' = [died EXCEPT ![r] = IF onto = "dead" THEN LostAt(r) ELSE @]
        /\ IF onto \in {"dead", "cleanup"} THEN Stop ELSE SendNext(Main(r))
        /\ IF pc[r] \in Starting THEN Refused(r) ELSE UNCHANGED browser
        /\ UNCHANGED <<cast, store, mem, at, outcome, callbacks, overrun>>

-----------------------------------------------------------------------------
(* The stream: streamRunById, then streamRun, each with a GET of its own *)
OpenStream(r) ==
    /\ r \in cast[2] /\ conn[r] \in {"opening", "dropped"}
    /\ conn' = [conn EXCEPT ![r] = "asking"]
    /\ Send(Stream(r))
    /\ UNCHANGED <<cast, store, engine, tab, shown, net, timer, faults>>

(* res.flushHeaders, the snapshot, and the listener, in one go.            *)
StreamRun(r) ==
    /\ Turn(Stream(r))
    /\ \/ conn[r] = "asking" /\ conn' = [conn EXCEPT ![r] = "found"]
          /\ SendNext(Stream(r)) /\ UNCHANGED net
       \/ /\ conn[r] = "found" /\ conn' = [conn EXCEPT ![r] = "open"]
          /\ net' = [net EXCEPT ![r] =
                        <<Event("open"), [Event("run.snapshot") EXCEPT !.run = record[r]]>>
                            \o IF record[r].status \in Terminal THEN <<Event("end")>> ELSE <<>>]
          /\ Stop
       \/ conn[r] \notin {"asking", "found"} /\ Stop /\ UNCHANGED <<conn, net>>
    /\ UNCHANGED <<cast, store, engine, tab, shown, timer, faults>>

(* The stream breaks, and what was on its way is lost. *)
Drop(r) ==
    /\ conn[r] \in {"asking", "found", "open"} /\ Fault
    /\ conn' = [conn EXCEPT ![r] = "dropped"]
    /\ net' = [net EXCEPT ![r] = <<>>]
    /\ timer' = [timer EXCEPT ![r] = TRUE]
    /\ UNCHANGED <<cast, store, pipe, engine, tab, shown>>

(* 2.5 seconds without a frame after an error *)
TimerFires(r) ==
    /\ timer[r] /\ conn[r] # "closed"
    /\ timer' = [timer EXCEPT ![r] = FALSE]
    /\ tab' = [tab EXCEPT ![r] = "error"]
    /\ conn' = [conn EXCEPT ![r] = "closed"]
    /\ net' = [net EXCEPT ![r] = <<>>]
    /\ UNCHANGED <<cast, store, pipe, engine, shown, faults>>

-----------------------------------------------------------------------------
(* What the tab does with a frame *)
Frame(r, type) == conn[r] = "open" /\ net[r] # <<>> /\ Head(net[r]).type = type

Shows(r, status) == tab' = [tab EXCEPT ![r] = status]

Stay(r) == conn' = conn /\ net' = [net EXCEPT ![r] = Tail(@)]
Close(r) == conn' = [conn EXCEPT ![r] = "closed"] /\ net' = [net EXCEPT ![r] = <<>>]

Seen(r) ==
    /\ timer' = [timer EXCEPT ![r] = FALSE]
    /\ UNCHANGED <<cast, store, pipe, engine, faults>>

OnOpen(r) == Frame(r, "open") /\ Shows(r, "running") /\ Stay(r) /\ Seen(r) /\ UNCHANGED shown

(* suitesFromSnapshot: only scenarios that are recorded, if there are any. *)
suitesFromSnapshot(s, run) ==
    [n \in 1 .. Scenarios[s] |->
        IF run.scenarios = <<>> THEN "pending"
        ELSE IF n <= Len(run.scenarios) THEN Verdict(run.scenarios[n]) ELSE "absent"]

(* What a snapshot says of the run as a whole. *)
SnapshotStatus(r, run) ==
    IF run.error /\ (run.status = "failed" \/ run.summary = None) THEN "error"
    ELSE IF run.status \notin Terminal THEN "running"
    ELSE IF r \in Loads THEN IF run.status = "failed" THEN "error" ELSE "finished"
    ELSE IF run.status = "failed" \/ run.summary = "failed" THEN "failed" ELSE "passed"

OnSnapshot(r) ==
    LET run == Head(net[r]).run
    IN  /\ Frame(r, "run.snapshot")
        /\ shown' = IF r \in Suites THEN [shown EXCEPT ![r] = suitesFromSnapshot(r, run)] ELSE shown
        /\ Shows(r, SnapshotStatus(r, run))
        /\ IF SnapshotStatus(r, run) = "running" THEN Stay(r) ELSE Close(r)
        /\ Seen(r)

(* applyEvent of SuitesTab *)
OnScenarioEvent(s) ==
    LET e == Head(net[s])
        status == CASE e.type \in {"scenario.started", "step.started"} -> "running"
                    [] e.type = "scenario.finished" -> Verdict(e.ok)
                    [] OTHER -> IF shown[s][e.n] = "absent" THEN "pending" ELSE shown[s][e.n]
    IN  /\ \E type \in ToSet(ScenarioEvents) : Frame(s, type)
        /\ shown' = [shown EXCEPT ![s][e.n] = status]
        /\ Stay(s) /\ Seen(s) /\ UNCHANGED tab

(* Frames after which SuitesTab and LoadTab change nothing. *)
OnIgnored(r) ==
    /\ \/ Frame(r, "run.started")
       \/ r \in Loads /\ Frame(r, "run.finished")
    /\ Stay(r) /\ Seen(r) /\ UNCHANGED <<tab, shown>>

OnRunFinished(s) ==
    /\ s \in Suites /\ Frame(s, "run.finished")
    /\ Shows(s, Verdict(Head(net[s]).ok))
    /\ Close(s) /\ Seen(s) /\ UNCHANGED shown

OnLoadProgress(l) ==
    /\ Frame(l, "load.progress")
    /\ Shows(l, "running") /\ Stay(l) /\ Seen(l) /\ UNCHANGED shown

OnLoadFinished(l) ==
    /\ Frame(l, "load.finished")
    /\ Shows(l, "finished") /\ Close(l) /\ Seen(l) /\ UNCHANGED shown

OnError(r) ==
    /\ Frame(r, "run.error") \/ Frame(r, "load.error")
    /\ Shows(r, "error") /\ Close(r) /\ Seen(r) /\ UNCHANGED shown

(* The server has ended the stream; a tab that has not closed it by itself *)
(* takes that for an error, and the browser connects again.                *)
OnEnd(r) ==
    /\ Frame(r, "end")
    /\ conn' = [conn EXCEPT ![r] = "dropped"]
    /\ net' = [net EXCEPT ![r] = <<>>]
    /\ timer' = [timer EXCEPT ![r] = TRUE]
    /\ UNCHANGED <<cast, store, pipe, engine, tab, shown, faults>>

-----------------------------------------------------------------------------
StartRun(r) ==
    \/ r \in Loads /\ (Gate(r) \/ Acquire(r))
    \/ Create(r)
    \/ r \in Suites /\ MarkSuiteActive(r)
    \/ Begin(r)

SuiteStep(s) ==
    /\ s \in Suites
    /\ \/ Work(s) \/ AppendScenarioEvent(s) \/ PushScenario(s)
       \/ FinishSuite(s) \/ CleanUp(s) \/ MarkSuiteInactive(s)

LoadStep(l) ==
    /\ l \in Loads
    /\ \/ ExecutorEnds(l) \/ FinishLoad(l) \/ Release(l)
       \/ \E n \in Pending(l) : OnProgress(l, n)

TabStep(r) ==
    \/ OnOpen(r) \/ OnSnapshot(r) \/ OnIgnored(r) \/ OnError(r) \/ OnEnd(r) \/ TimerFires(r)
    \/ OnScenarioEvent(r) \/ OnRunFinished(r)
    \/ OnLoadProgress(r) \/ OnLoadFinished(r)

(* All that the process, Redis, the network and the browser owe. *)
Proceed(r) ==
    \/ StartRun(r) \/ SuiteStep(r) \/ LoadStep(r) \/ Catch(r)
    \/ OpenStream(r) \/ StreamRun(r) \/ TabStep(r)

Quiet ==
    /\ pipe = <<>> /\ \A r \in cast[1] : pc[r] \in {"ended", "dead"}
    /\ UNCHANGED vars

Next ==
    \/ \E r \in cast[1] :
          \/ Click(r) \/ Proceed(r)
          \/ WorkFails(r) \/ Progress(r) \/ StepEventFails(r) \/ CommandFails(r) \/ Drop(r)
    \/ LockExpires \/ PresenceExpires \/ Crash \/ Quiet

Spec == Init /\ [][Next]_vars

FairSpec ==
    /\ Spec
    /\ WF_vars((\E r \in cast[1] : Proceed(r)) \/ LockExpires \/ PresenceExpires)

-----------------------------------------------------------------------------
(* One load run at a time: of two that are under way one has outlived the  *)
(* time to live of its lock (tryAcquireActiveLock, "single-flight lock").  *)
Holding(l) == l \in Loads /\ pc[l] \notin Starting \cup Idle
OneLoad ==
    \A l1, l2 \in Loads : l1 # l2 /\ Holding(l1) /\ Holding(l2) => {l1, l2} \cap overrun # {}

(* A lock goes away when its own run releases it or by its time to live,   *)
(* never because another run releases it, even one whose lock expires      *)
(* between the GET and the DEL of releaseActiveLock.                       *)
OnlyOwnerReleases ==
    [][lock # None /\ lock' = None
          => LockExpires \/ (pc[lock] = "releaseD" /\ pc'[lock] = "ended")]_vars

(* Whatever is lost on the way, loads can be started again: the lock and   *)
(* the presence of suites go away.  The exception is a suite run lost      *)
(* between SADD and EXPIRE, whose presence nothing removes.                *)
GateReopens ==
    []<>((lock = None /\ presence = {}) \/ \E s \in Suites : died[s] = "expire")

(* A run whose executor was lost is running for ever as far as its record  *)
(* goes, and so is one over whose final status a late callback has written.*)
Reopened(r) == pc[r] = "ended" /\ record[r] # None /\ record[r].status \notin Terminal
Abandoned(r) == pc[r] = "dead" \/ died[r] # None \/ Reopened(r)

(* A tab that waits for a run is told the end, or that the stream is lost, *)
(* however the stream broke and whenever it was opened again.              *)
ViewsSettle ==
    \A r \in Runs :
        r \in cast[2] /\ tab[r] \in Busy ~> (tab[r] \notin Busy \/ Abandoned(r))

(* What a tab says at the end is so: all scenarios have passed, or one has *)
(* not, or the load executor has come to its end.                          *)
FinalViewTrue ==
    \A r \in Runs :
        /\ tab[r] = "passed" => Len(outcome[r]) = Scenarios[r] /\ AllPassed(outcome[r])
        /\ tab[r] = "failed" => ~AllPassed(outcome[r])
        /\ tab[r] = "finished" => outcome[r] # <<"error">>

=============================================================================
