------------------------------ MODULE OrderDesk ------------------------------
(***************************************************************************)
(* web: the page of one order, open in several tabs of its owner.  A page  *)
(* loads the order and its payments and refunds with three requests, and   *)
(* records payments and refunds in modals that hold an idempotency key,    *)
(* edits the order in a form and deletes it.  The requests go to OrderApi. *)
(*                                                                         *)
(* A page that starts to load takes its modals and its form down; their    *)
(* requests go on, and call back when they are answered.                   *)
(***************************************************************************)
EXTENDS OrderApi, FiniteSetsExt

CONSTANTS
    Pages,
    Total, Paid,    \* of the order at the start: its total, and what may be paid
    Amounts,        \* what is entered in a modal
    NewTotals,      \* ... and what the line items are edited to come to
    MaxOpenings,    \* bound on the modals that are opened
    MaxSends,       \* bound on the forms that are submitted
    MaxLoads,       \* bound on the loads of a page that overlap because of `Try again`
    MaxFaults       \* bound on requests and answers that are lost

ASSUME DeskAssumption ==
    /\ Total \in Nat \ {0} /\ Paid \subseteq 0 .. Total /\ Amounts \subseteq Nat \ {0}
    /\ NoKey \notin Nat

VARIABLES
    page,       \* what the React components of each page hold
    loads,      \* calls of `load` under way
    calls,      \* submitted forms under way
    told,       \* of every page, the submissions whose modal reported success
    unsure,     \* the submissions that nothing was heard of
    openings, sends, faults

vars == <<db, page, loads, calls, told, unsure, openings, sends, faults>>
bounds == <<openings, sends, faults>>

-----------------------------------------------------------------------------
Order == "order"
Owner == "owner"
Kinds == {"payment", "refund"}

Closed == [kind |-> None, key |-> 0]

(* begun and shown number the loads of a page that overlap: the last one   *)
(* that was started and the last one that ended.                           *)
Fresh == [view |-> "off", loading |-> FALSE, error |-> FALSE, order |-> None, rows |-> {},
          editing |-> FALSE, modal |-> Closed, begun |-> 0, shown |-> 0]

(* The order has been paid in part, by somebody else's means, or not. *)
Init ==
    /\ users = {Owner}
    /\ \E paid \in Paid :
          /\ orders = [i \in {Order} |->
                          [id |-> Order, owner |-> Owner, total |-> Total, paid |-> paid,
                           dueIn |-> 0, customer |-> "customer"]]
          /\ rows = IF paid = 0 THEN {}
                    ELSE {[kind |-> "payment", id |-> <<0, 0>>, user |-> Owner, order |-> Order,
                           amount |-> paid, key |-> NoKey]}
    /\ page = [p \in Pages |-> Fresh]
    /\ loads = {} /\ calls = {}
    /\ told = [p \in Pages |-> {}] /\ unsure = {}
    /\ openings = 0 /\ sends = 0 /\ faults = 0

Fault == faults < MaxFaults /\ faults' = faults + 1

(* Neither LoadingState nor ErrorState nor the form takes its place. *)
Detail(p) ==
    page[p].view = "on" /\ ~page[p].loading /\ ~page[p].error /\ ~page[p].editing

Busy(p, kind) == \E c \in calls : c.by = p /\ c.kind = kind /\ c.attached

Detached(cs, p) == {IF c.by = p THEN [c EXCEPT !.attached = FALSE] ELSE c : c \in cs}

-----------------------------------------------------------------------------
(* load: what it sets before its first await. *)
Number(p) == IF \E l \in loads : l.by = p THEN page[p].begun + 1 ELSE 1

Loading(p) ==
    [page[p] EXCEPT !.view = "on", !.loading = TRUE, !.error = FALSE, !.modal = Closed,
                    !.begun = Number(p)]

NewLoad(p) == [by |-> p, n |-> Number(p), got |-> [part \in Kinds \cup {"order"} |-> None]]

(* The page mounts, or `Try again` *)
Load(p) ==
    /\ page[p].view = "off" \/ (page[p].view = "on" /\ ~page[p].loading /\ page[p].error)
    /\ Number(p) <= MaxLoads
    /\ page' = [page EXCEPT ![p] = Loading(p)]
    /\ loads' = loads \cup {NewLoad(p)}
    /\ UNCHANGED <<db, calls, told, unsure, bounds>>

Got(l, part, value) == loads' = (loads \ {l}) \cup {[l EXCEPT !.got[part] = value]}

(* Promise.all rejects with the first request that fails. *)
Rejected(l) ==
    /\ loads' = loads \ {l}
    /\ page' = [page EXCEPT ![l.by].error = TRUE, ![l.by].loading = FALSE, ![l.by].shown = l.n]

Request(l) == [op |-> "get", user |-> Owner, order |-> Order]

ReadOrder(l) ==
    /\ l.got["order"] = None
    /\ LET res == Handle(Request(l)).res
       IN  IF res.status = 200 THEN Got(l, "order", res) /\ UNCHANGED page
                               ELSE Rejected(l)
    /\ UNCHANGED <<db, calls, told, unsure, bounds>>

(* listPayments and listRefunds *)
ReadRows(l, kind) ==
    /\ l.got[kind] = None
    /\ IF Mine(Request(l))
       THEN /\ Got(l, kind, {e.id : e \in {e \in rows : e.kind = kind /\ e.order = Order}})
            /\ UNCHANGED page
       ELSE Rejected(l)
    /\ UNCHANGED <<db, calls, told, unsure, bounds>>

LoadFails(l) ==
    /\ Fault /\ Rejected(l)
    /\ UNCHANGED <<db, calls, told, unsure, openings, sends>>

EndLoad(l) ==
    /\ \A part \in DOMAIN l.got : l.got[part] # None
    /\ page' = [page EXCEPT ![l.by].order = l.got["order"], ![l.by].loading = FALSE,
                            ![l.by].rows = l.got["payment"] \cup l.got["refund"],
                            ![l.by].shown = l.n]
    /\ loads' = loads \ {l}
    /\ UNCHANGED <<db, calls, told, unsure, bounds>>

-----------------------------------------------------------------------------
(* handleOpenChange: a fresh key for every opening. *)
CanOpen(p, kind) ==
    IF kind = "payment" THEN page[p].order.due > 0 ELSE page[p].order.paid > 0

OpenModal(p, kind) ==
    /\ Detail(p) /\ page[p].modal = Closed /\ CanOpen(p, kind)
    /\ openings < MaxOpenings /\ openings' = openings + 1
    /\ page' = [page EXCEPT ![p].modal = [kind |-> kind, key |-> openings + 1]]
    /\ UNCHANGED <<db, loads, calls, told, unsure, sends, faults>>

CloseModal(p) ==
    /\ page[p].modal # Closed
    /\ page' = [page EXCEPT ![p].modal = Closed]
    /\ UNCHANGED <<db, loads, calls, told, unsure, bounds>>

Sent(p, kind, key, q) ==
    /\ sends < MaxSends /\ sends' = sends + 1
    /\ calls' = calls \cup {[by |-> p, kind |-> kind, key |-> key, q |-> q,
                             step |-> "sent", status |-> 0, attached |-> TRUE]}

Ask(op, amount, key) ==
    [op |-> op, id |-> <<key, sends + 1>>, user |-> Owner, order |-> Order, amount |-> amount,
     key |-> IF key = 0 THEN NoKey ELSE key, customer |-> "renamed", valid |-> TRUE]

(* handleSubmit: the amount is checked against what the page shows.        *)
(* Faulty variant: a fresh key for every attempt.                          *)
Submit_FreshKey(p, amount) ==
    LET m == page[p].modal
        most == IF m.kind = "payment" THEN page[p].order.due ELSE page[p].order.paid
    IN  /\ m # Closed /\ ~Busy(p, m.kind) /\ amount <= most
        /\ Sent(p, m.kind, m.key, [Ask(m.kind, amount, m.key) EXCEPT !.key = <<m.key, sends>>])
        /\ UNCHANGED <<db, page, loads, told, unsure, openings, faults>>

Submit(p, amount) ==
    LET m == page[p].modal
        most == IF m.kind = "payment" THEN page[p].order.due ELSE page[p].order.paid
    IN  /\ m # Closed /\ ~Busy(p, m.kind) /\ amount <= most
        /\ Sent(p, m.kind, m.key, Ask(m.kind, amount, m.key))
        /\ UNCHANGED <<db, page, loads, told, unsure, openings, faults>>

(* OrderEditForm takes the place of the details, and of the modals.        *)
Edit(p) ==
    /\ Detail(p) /\ page[p].modal = Closed
    /\ page' = [page EXCEPT ![p].editing = TRUE]
    /\ calls' = Detached(calls, p)
    /\ UNCHANGED <<db, loads, told, unsure, bounds>>

CancelEdit(p) ==
    /\ page[p].editing /\ ~page[p].loading /\ ~page[p].error
    /\ page' = [page EXCEPT ![p].editing = FALSE]
    /\ calls' = Detached(calls, p)
    /\ UNCHANGED <<db, loads, told, unsure, bounds>>

(* The line items go along if the page shows an order that is editable. *)
SaveEdit(p, total) ==
    /\ page[p].editing /\ ~page[p].loading /\ ~page[p].error /\ ~Busy(p, "edit")
    /\ Sent(p, "edit", 0,
            Ask(IF page[p].order.editable THEN "lines" ELSE "rename", total, 0))
    /\ UNCHANGED <<db, page, loads, told, unsure, openings, faults>>

Delete(p) ==
    /\ Detail(p) /\ page[p].modal = Closed /\ page[p].order.editable /\ ~Busy(p, "delete")
    /\ Sent(p, "delete", 0, Ask("delete", 0, 0))
    /\ UNCHANGED <<db, page, loads, told, unsure, openings, faults>>

-----------------------------------------------------------------------------
Serve(c) ==
    /\ c.step \in {"sent", "unheard"}
    /\ LET out == Handle(c.q)
           heard == {[c EXCEPT !.step = "answered", !.status = out.res.status]}
       IN  /\ Apply(out)
           /\ calls' = (calls \ {c}) \cup IF c.step = "sent" THEN heard ELSE {}
    /\ UNCHANGED <<page, loads, told, unsure, bounds>>

Good(c) == c.step = "answered" /\ c.status < 300

(* onRecorded and onSaved load the page again, wherever it is by then.     *)
LoadingAfter(c) ==
    [Loading(c.by) EXCEPT !.editing = page[c.by].editing /\ c.kind # "edit"]

(* Faulty variant: only if the modal is still there.                       *)
Reload_IfAttached(c) ==
    IF c.attached
    THEN /\ page' = [page EXCEPT ![c.by] = LoadingAfter(c)]
         /\ calls' = Detached(calls \ {c}, c.by)
         /\ loads' = loads \cup {NewLoad(c.by)}
    ELSE calls' = calls \ {c} /\ UNCHANGED <<page, loads>>

Reload(c) ==
    /\ page' = [page EXCEPT ![c.by] = LoadingAfter(c)]
    /\ calls' = Detached(calls \ {c}, c.by)
    /\ loads' = loads \cup {NewLoad(c.by)}

Receipt(c) == IF c.key = 0 THEN {} ELSE {c.q}

(* Success: the modal or the form goes away. *)
Succeed(c) ==
    /\ Good(c) /\ c.kind # "delete"
    /\ page[c.by].view = "on"
    /\ Reload(c)
    /\ told' = [told EXCEPT ![c.by] = @ \cup Receipt(c)]
    /\ UNCHANGED <<db, unsure, bounds>>

(* router.push("/dashboard"); what is still under way is for nobody. *)
LeavePage(c) ==
    /\ Good(c) /\ c.kind = "delete"
    /\ page' = [page EXCEPT ![c.by] = [Fresh EXCEPT !.view = "away"]]
    /\ calls' = Detached(calls \ {c}, c.by)
    /\ loads' = {l \in loads : l.by # c.by}
    /\ UNCHANGED <<db, told, unsure, bounds>>

Ignore(c) ==
    /\ c.step = "answered" /\ page[c.by].view = "away"
    /\ calls' = calls \ {c}
    /\ UNCHANGED <<db, page, loads, told, unsure, bounds>>

(* An error is shown, and the form can be submitted again.                 *)
(* Faulty variant: whatever the service answers, the modal closes.         *)
ShowError_Closes(c) ==
    /\ c.step = "answered" /\ ~Good(c)
    /\ calls' = calls \ {c}
    /\ told' = [told EXCEPT ![c.by] = @ \cup Receipt(c)]
    /\ UNCHANGED <<db, page, loads, unsure, bounds>>

ShowError(c) ==
    /\ c.step = "answered" /\ ~Good(c)
    /\ calls' = calls \ {c}
    /\ UNCHANGED <<db, page, loads, told, unsure, bounds>>

(* fetch throws: the request has not arrived, has not arrived yet, or its  *)
(* answer is lost.                                                         *)
Lose(c) ==
    /\ c.step \in {"sent", "answered"} /\ Fault
    /\ \/ calls' = calls \ {c}
       \/ /\ c.step = "sent"
          /\ calls' = (calls \ {c}) \cup {[c EXCEPT !.step = "unheard", !.attached = FALSE]}
    /\ unsure' = unsure \cup {c.q.id}
    /\ UNCHANGED <<db, page, loads, told, openings, sends>>

-----------------------------------------------------------------------------
Use(p) ==
    \/ Load(p) \/ CloseModal(p) \/ Edit(p) \/ CancelEdit(p) \/ Delete(p)
    \/ \E kind \in Kinds : OpenModal(p, kind)
    \/ \E amount \in Amounts : Submit(p, amount)
    \/ \E total \in NewTotals : SaveEdit(p, total)

GoOn(l) == ReadOrder(l) \/ EndLoad(l) \/ LoadFails(l) \/ \E kind \in Kinds : ReadRows(l, kind)

Answer(c) == Serve(c) \/ Succeed(c) \/ LeavePage(c) \/ Ignore(c) \/ ShowError(c) \/ Lose(c)

Next ==
    \/ \E p \in Pages : Use(p)
    \/ \E l \in loads : GoOn(l)
    \/ \E c \in calls : Answer(c)

Spec == Init /\ [][Next]_vars

-----------------------------------------------------------------------------
(* An opening of a modal records one payment or refund at most, however    *)
(* often it is submitted and whatever is lost or late (`a retry can't      *)
(* double-charge`).                                                        *)
NoDoubleCharge == \A e, f \in rows : e.id[1] = f.id[1] => e = f

(* When a modal has closed with success, what it asked for last is         *)
(* recorded, with its amount: a payment is not lost, and not taken for     *)
(* another one.  (Unless an earlier submission of that opening had asked   *)
(* for another amount, and its answer was lost: the key is the same, and   *)
(* if that one was recorded the modal closes just the same.)               *)
ReceiptIsTrue ==
    \A p \in Pages : \A q \in told[p] :
        \E e \in rows :
            /\ e.kind = q.op /\ e.key = q.key /\ e.id[1] = q.id[1]
            /\ e.amount = q.amount \/ (e.id \in unsure /\ e.id[2] < q.id[2])

(* A page that has come to rest, and has not been overtaken by a load of   *)
(* its own that began earlier, shows every payment and refund that it has  *)
(* reported.                                                               *)
OwnRowsShown ==
    \A p \in Pages :
        LET pg == page[p]
        IN  pg.view = "on" /\ ~pg.loading /\ ~pg.error /\ pg.shown = pg.begun =>
                \A q \in told[p] : \A e \in rows : e.id[1] = q.id[1] => e.id \in pg.rows

=============================================================================
