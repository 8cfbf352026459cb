------------------------------- MODULE Ledger -------------------------------
(***************************************************************************)
(* What the payments service promises its callers, without its database:   *)
(* every request to pay or to refund takes effect, or is turned down, in   *)
(* one instant between its arrival and its answer.  Settlement.tla (row    *)
(* locks, read-committed statements, the unique index, retries, crashes)   *)
(* implements this specification.                                          *)
(***************************************************************************)
EXTENDS Integers

CONSTANTS
    Orders,     \* order identifiers a request may name
    Requests,   \* requests, each sent once (a retry is another request)
    Totals,     \* order totals in cents
    Amounts,    \* amounts in cents
    Headers,    \* values of the Idempotency-Key header
    NoKey,      \* the header is absent
    EmptyKey    \* the header is the empty string

VARIABLES
    live,       \* the orders that exist
    total,      \* total[o]: the order's total
    paid,       \* paid[o]: net amount paid
    req,        \* req[r]: what request r asks for
    outcome     \* outcome[r]: what became of request r

vars == <<live, total, paid, req, outcome>>

Request == [kind : {"payment", "refund"}, order : Orders,
            amount : Amounts, key : Headers]

(* A payment fits under the order's total, a refund under what is paid. *)
Fits(q, p, t) ==
    IF q.kind = "payment" THEN p + q.amount <= t ELSE q.amount <= p

Effect(q, p) == IF q.kind = "payment" THEN p + q.amount ELSE p - q.amount

SameKey(q, s) == q.kind = s.kind /\ q.key = s.key /\ q.key # NoKey

(* The accepted requests that used the key of r already. *)
Originals(r) == {s \in Requests : outcome[s] = "accepted" /\ SameKey(req[r], req[s])}

Becomes(r, result) == outcome' = [outcome EXCEPT ![r] = result]

Init ==
    /\ live \in SUBSET Orders
    /\ total \in [Orders -> Totals]
    /\ paid = [o \in Orders |-> 0]
    /\ req \in [Requests -> Request]
    /\ outcome = [r \in Requests |-> "idle"]

Ask(r) ==
    /\ outcome[r] = "idle"
    /\ Becomes(r, "pending")
    /\ UNCHANGED <<live, total, paid, req>>

(* The amount moves, once per key. *)
Accept(r) ==
    LET q == req[r] IN
    /\ outcome[r] = "pending"
    /\ q.order \in live
    /\ Fits(q, paid[q.order], total[q.order])
    /\ Originals(r) = {}
    /\ Becomes(r, "accepted")
    /\ paid' = [paid EXCEPT ![q.order] = Effect(q, @)]
    /\ UNCHANGED <<live, total, req>>

(* Turned down because at this instant the amount does not fit. *)
Reject(r) ==
    LET q == req[r] IN
    /\ outcome[r] = "pending"
    /\ q.order \in live
    /\ ~Fits(q, paid[q.order], total[q.order])
    /\ Becomes(r, "rejected")
    /\ UNCHANGED <<live, total, paid, req>>

(* A retry is answered with the row its key produced. *)
Replay(r) ==
    /\ outcome[r] = "pending"
    /\ \E s \in Originals(r) : req[s].order = req[r].order
    /\ Becomes(r, "replayed")
    /\ UNCHANGED <<live, total, paid, req>>

(* No such order, or a key that was used for another order. *)
Refuse(r) ==
    /\ outcome[r] = "pending"
    /\ \/ req[r].order \notin live
       \/ \E s \in Originals(r) : req[s].order # req[r].order
    /\ Becomes(r, "refused")
    /\ UNCHANGED <<live, total, paid, req>>

(* The empty key is stored and indexed but never looked up. *)
Break(r) ==
    /\ outcome[r] = "pending"
    /\ req[r].key = EmptyKey
    /\ Originals(r) # {}
    /\ Becomes(r, "error")
    /\ UNCHANGED <<live, total, paid, req>>

(* A crash: the request had no effect and its caller has no answer. *)
Lose(r) ==
    /\ outcome[r] \in {"pending", "rejected"}
    /\ Becomes(r, "lost")
    /\ UNCHANGED <<live, total, paid, req>>

Resolve(r) == Accept(r) \/ Reject(r) \/ Replay(r) \/ Refuse(r) \/ Break(r)

Next == \E r \in Requests : Ask(r) \/ Resolve(r) \/ Lose(r)

Spec == Init /\ [][Next]_vars

=============================================================================
