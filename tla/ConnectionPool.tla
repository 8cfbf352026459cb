--------------------------- MODULE ConnectionPool ---------------------------
(***************************************************************************)
(* The handlers of one service and the connections of its pg Pool.         *)
(*                                                                         *)
(* A handler is the script of what it asks of the pool: "query" is         *)
(* pool.query (a connection for one statement), "connect" and "release"    *)
(* are the two ends of withTransaction.  What it sends on a connection it  *)
(* already holds needs nothing from the pool and is not in the script.     *)
(* The Pool (node-postgres, without a connection timeout) has a fixed      *)
(* number of connections and queues the callers that find none free.       *)
(***************************************************************************)
EXTENDS Integers, Sequences, SequencesExt

CONSTANTS
    Callers,        \* requests under way in one process
    Connections,    \* of the pool (10 unless configured)
    Scripts         \* the scripts that the callers may run

ASSUME PoolAssumption ==
    /\ Connections # {}
    /\ Scripts \subseteq Seq({"query", "connect", "release"})

VARIABLES
    script,     \* script[c]: what the handler of c asks of the pool
    step,       \* step[c]: index of its current request
    phase,      \* phase[c]: "idle", "ready", "waiting", "using" or "done"
    held,       \* held[c]: connections c has in its hands, the latest last
    queue       \* callers the pool has queued, first come first served

vars == <<script, step, phase, held, queue>>

-----------------------------------------------------------------------------
(* recordPayment and recordRefund with a key: lookup, transaction, and at  *)
(* worst the lookup and the order of a replay.                             *)
RecordPaymentScript == <<"query", "connect", "release", "query", "query">>

(* createOrder: transaction, order and line items of the response *)
CreateOrderScript == <<"connect", "release", "query", "query">>

(* Faulty variant: a statement of the transaction is sent on the pool. *)
ReplaceLinesScript_OnPool ==
    <<"query", "connect", "query", "release", "query", "query">>

(* updateOrder with line items only *)
ReplaceLinesScript == <<"query", "connect", "release", "query", "query">>

(* updateOrder with customer or dueDate: updateOrderMetadata asks the pool *)
(* for a second connection while the transaction holds the first.          *)
RenameOrderScript == <<"query", "connect", "query", "release", "query", "query">>

(* deleteOrder: read, DELETE, audit *)
DeleteOrderScript == <<"query", "query", "query">>

-----------------------------------------------------------------------------
InUse == UNION {Range(held[c]) : c \in Callers}

Init ==
    /\ script \in [Callers -> Scripts]
    /\ step = [c \in Callers |-> 1]
    /\ phase = [c \in Callers |-> "idle"]
    /\ held = [c \in Callers |-> <<>>]
    /\ queue = <<>>

To(c, p) == phase' = [phase EXCEPT ![c] = p]

Start(c) ==
    /\ phase[c] = "idle"
    /\ To(c, "ready")
    /\ UNCHANGED <<script, step, held, queue>>

Wanted(c) == script[c][step[c]]

(* pool.connect, also inside pool.query *)
Ask(c) ==
    /\ phase[c] = "ready"
    /\ step[c] <= Len(script[c])
    /\ Wanted(c) \in {"query", "connect"}
    /\ queue' = Append(queue, c)
    /\ To(c, "waiting")
    /\ UNCHANGED <<script, step, held>>

(* The pool serves its queue. *)
Grant ==
    /\ queue # <<>>
    /\ \E k \in Connections \ InUse :
          held' = [held EXCEPT ![Head(queue)] = Append(@, k)]
    /\ To(Head(queue), "using")
    /\ queue' = Tail(queue)
    /\ UNCHANGED <<script, step>>

(* A statement is done, or BEGIN is: the first gives its connection back.  *)
Complete(c) ==
    /\ phase[c] = "using"
    /\ held' = [held EXCEPT ![c] = IF Wanted(c) = "query" THEN Front(@) ELSE @]
    /\ step' = [step EXCEPT ![c] = @ + 1]
    /\ To(c, "ready")
    /\ UNCHANGED <<script, queue>>

(* Faulty variant: no finally around the transaction. *)
Release_Forgotten(c) ==
    /\ phase[c] = "ready"
    /\ step[c] <= Len(script[c])
    /\ Wanted(c) = "release"
    /\ step' = [step EXCEPT ![c] = @ + 1]
    /\ UNCHANGED <<script, phase, held, queue>>

(* client.release() in the finally of withTransaction *)
Release(c) ==
    /\ phase[c] = "ready"
    /\ step[c] <= Len(script[c])
    /\ Wanted(c) = "release"
    /\ held' = [held EXCEPT ![c] = Front(@)]
    /\ step' = [step EXCEPT ![c] = @ + 1]
    /\ UNCHANGED <<script, phase, queue>>

(* A statement fails: pool.query and the finally of withTransaction give   *)
(* back whatever the handler holds, and the handler ends.                  *)
StatementFails(c) ==
    /\ phase[c] = "using"
    /\ held' = [held EXCEPT ![c] = <<>>]
    /\ To(c, "done")
    /\ UNCHANGED <<script, step, queue>>

Return(c) ==
    /\ phase[c] = "ready"
    /\ step[c] > Len(script[c])
    /\ To(c, "done")
    /\ UNCHANGED <<script, step, held, queue>>

Handle(c) == Ask(c) \/ Complete(c) \/ Release(c) \/ Return(c)

Served == (\A c \in Callers : phase[c] = "done") /\ UNCHANGED vars

Next ==
    \/ \E c \in Callers : Start(c) \/ Handle(c) \/ StatementFails(c)
    \/ Grant
    \/ Served

(* Handlers run on, and the pool serves its queue; statements finish.      *)
Spec ==
    /\ Init /\ [][Next]_vars
    /\ WF_vars(Grant)
    /\ \A c \in Callers : WF_vars(Handle(c))

-----------------------------------------------------------------------------
(* Whoever waits for the pool has someone to wait for: a caller that holds *)
(* a connection and is not itself in the queue.                            *)
SomeoneCanRelease ==
    InUse = Connections =>
        \E c \in Callers : held[c] # <<>> /\ phase[c] # "waiting"

(* Every request that was started ends: `customer/dueDate are always       *)
(* editable metadata`, and so is everything else, however many requests    *)
(* come at once.                                                           *)
EveryoneServed == \A c \in Callers : phase[c] = "ready" ~> phase[c] = "done"

=============================================================================
