--------------------------- MODULE OrderDeskProofs ---------------------------
(***************************************************************************)
(* Theorems of OrderDesk for any number of pages, modals, requests and     *)
(* failures, any amounts and any order; and one about the order that its   *)
(* pages are answered with.                                                *)
(***************************************************************************)
EXTENDS OrderDesk, TLAPS

(* An order as the rules for its status see it. *)
StatusInput == [total : Nat, paid : Nat, dueIn : Int]

(* ORDER_STATUS_CASE_SQL, by which orders-service filters, sums and serves *)
(* orders, and deriveOrderStatus, which payments-service answers with, are *)
(* the same function (statusSql.ts: `must stay logically identical`) of    *)
(* all orders but those that are not paid and whose due day has begun for  *)
(* only one of the two: midnight is that of the database's session for the *)
(* one, and that of the process for the other.                             *)
THEOREM StatusesAgree ==
    ASSUME NEW o \in StatusInput
    PROVE  StatusSql(o) = deriveOrderStatus(o)
               <=> o.paid >= o.total \/ (o.dueIn < DbZone <=> o.dueIn < NodeZone)
  <1>1. o.total \in Nat /\ o.paid \in Nat /\ o.dueIn \in Int
    BY DEF StatusInput
  <1>2. /\ PastForDb(o) <=> o.dueIn < DbZone
        /\ PastForNode(o) <=> o.dueIn < NodeZone
    BY <1>1, ZonesAssumption DEF PastForDb, PastForNode
  <1>3. CASE o.paid >= o.total
    BY <1>1, <1>3 DEF StatusSql, deriveOrderStatus
  <1>4. CASE o.paid < o.total /\ PastForNode(o)
    <2>1. deriveOrderStatus(o) = "overdue"
      BY <1>1, <1>4 DEF deriveOrderStatus
    <2>2. StatusSql(o) = "overdue" <=> PastForDb(o)
      BY <1>1, <1>4 DEF StatusSql
    <2>3. QED
      BY <1>1, <1>2, <1>4, <2>1, <2>2
  <1>5. CASE o.paid < o.total /\ ~PastForNode(o)
    <2>1. deriveOrderStatus(o) = IF o.paid > 0 THEN "partially_paid" ELSE "pending"
      BY <1>1, <1>5 DEF deriveOrderStatus
    <2>2. StatusSql(o) = IF PastForDb(o) THEN "overdue"
                         ELSE IF o.paid > 0 THEN "partially_paid" ELSE "pending"
      BY <1>1, <1>5 DEF StatusSql
    <2>3. QED
      BY <1>1, <1>2, <1>5, <2>1, <2>2
  <1>6. QED
    BY <1>1, <1>3, <1>4, <1>5

-----------------------------------------------------------------------------
(* What a page, a load and a call are made of. *)
PageFields ==
    {"view", "loading", "error", "order", "rows", "editing", "modal", "begun", "shown"}

IsPage(pg) ==
    /\ DOMAIN pg = PageFields
    /\ pg.view \in {"off", "on", "away"} /\ pg.loading \in BOOLEAN /\ pg.error \in BOOLEAN
    /\ pg.begun \in Nat /\ pg.shown \in Nat

IsLoad(l) ==
    /\ DOMAIN l = {"by", "n", "got"}
    /\ l.by \in Pages /\ l.n \in Nat
    /\ DOMAIN l.got = Kinds \cup {"order"}

IsCall(c) ==
    /\ DOMAIN c = {"by", "kind", "key", "q", "step", "status", "attached"}
    /\ c.by \in Pages /\ c.step \in {"sent", "unheard", "answered"}

(* A modal's request bears the key of its opening; the others bear none.   *)
Asks(c) ==
    /\ c.q.user = Owner /\ c.q.order = Order
    /\ \/ /\ c.kind \in Kinds /\ c.key \in 1 .. openings
          /\ c.q.op = c.kind /\ c.q.key = c.key /\ c.q.id[1] = c.key
       \/ /\ c.kind \in {"edit", "delete"} /\ c.key = 0
          /\ c.q.op \in {"lines", "rename", "delete"}

ModalOf(p) ==
    \/ page[p].modal = Closed
    \/ \E kind \in Kinds, key \in 1 .. openings : page[p].modal = [kind |-> kind, key |-> key]

RowOf(e) ==
    /\ e.kind \in Kinds /\ e.user = Owner /\ e.order = Order
    /\ \/ e.key \in 1 .. openings /\ e.id[1] = e.key
       \/ e.key = NoKey /\ e.id[1] = 0

PagesTyped == DOMAIN page = Pages /\ \A p \in Pages : IsPage(page[p])
LoadsTyped == \A l \in loads : IsLoad(l)
CallsTyped == \A c \in calls : IsCall(c) /\ Asks(c)
ModalsTyped == \A p \in Pages : ModalOf(p)
RowsTyped == \A e \in rows : RowOf(e)
ToldTyped == DOMAIN told = Pages /\ openings \in Nat

DeskTyped ==
    PagesTyped /\ LoadsTyped /\ CallsTyped /\ ModalsTyped /\ RowsTyped /\ ToldTyped

-----------------------------------------------------------------------------
(* A key is that of a payment or of a refund, wherever it has come to. *)
Bears(key, kind) ==
    \/ \E p \in Pages : page[p].modal = [kind |-> kind, key |-> key]
    \/ \E c \in calls : c.key = key /\ c.kind = kind
    \/ \E e \in rows : e.key = key /\ e.kind = kind

OneKind ==
    \A key \in 1 .. openings : ~(Bears(key, "payment") /\ Bears(key, "refund"))

(* ReceiptIsTrue, of one request. *)
Recorded(q) ==
    \E e \in rows :
        /\ e.kind = q.op /\ e.key = q.key /\ e.id[1] = q.id[1]
        /\ e.amount = q.amount \/ (e.id \in unsure /\ e.id[2] < q.id[2])

(* What was answered with success, and is not an edit, is recorded. *)
AnswersInv == \A c \in calls : Good(c) /\ c.kind \in Kinds => Recorded(c.q)

-----------------------------------------------------------------------------
(* The submissions of an opening come one after the other.  A form that is *)
(* live will be heard of; its modal cannot be submitted again before.      *)
Live(c) == c.kind \in Kinds /\ c.step # "unheard"

Shut(p) == page[p].modal = Closed

Alone == \A c, d \in calls : Live(c) /\ Live(d) /\ c.key = d.key => c = d

Latest ==
    \A c, d \in calls : Live(c) /\ d.step = "unheard" /\ c.key = d.key => d.q.id[2] < c.q.id[2]

Awaited ==
    \A p \in Pages : \A c \in calls :
        ~Shut(p) /\ Live(c) /\ page[p].modal.key = c.key => c.by = p /\ c.attached

ModalsApart ==
    \A p, q \in Pages : ~Shut(p) /\ ~Shut(q) /\ page[p].modal.key = page[q].modal.key => p = q

NoModal == \A p \in Pages : page[p].view = "away" \/ page[p].editing => Shut(p)

Counted ==
    /\ sends \in Nat
    /\ \A c \in calls : c.q.id[2] \in 0 .. sends
    /\ \A e \in rows : e.id[2] \in 0 .. sends

(* What was recorded under the key of a submission that is still to be     *)
(* answered, or of a modal that may be submitted again, is due to an       *)
(* earlier submission that nothing was heard of; or the modal will close.  *)
Doubted ==
    /\ \A c \in calls : c.step = "unheard" => c.q.id \in unsure
    /\ \A c \in calls : Live(c) /\ c.step = "sent" =>
          \A e \in rows : e.key = c.key => e.id \in unsure /\ e.id[2] < c.q.id[2]
    /\ \A p \in Pages : ~Shut(p) =>
          \A e \in rows : e.key = page[p].modal.key =>
             e.id \in unsure \/ \E c \in calls : Live(c) /\ Good(c) /\ c.q.id = e.id

Turns == Alone /\ Latest /\ Awaited /\ ModalsApart /\ NoModal /\ Counted /\ Doubted

ChargeInv == DeskTyped /\ OneKind /\ NoDoubleCharge /\ AnswersInv /\ ReceiptIsTrue /\ Turns

-----------------------------------------------------------------------------
(* The last load that a page has begun has seen what the page reported     *)
(* before, and the loads are told apart by their numbers.                  *)
Reported(p, e) == \E q \in told[p] : e.id[1] = q.id[1]

HasSeen(l) ==
    l.n = page[l.by].begun =>
        \A kind \in Kinds : l.got[kind] # None =>
            \A e \in rows : e.kind = kind /\ Reported(l.by, e) => e.id \in l.got[kind]

Sound(l) == page[l.by].view = "on" /\ l.n <= page[l.by].begun /\ HasSeen(l)

Numbered == \A l, m \in loads : l.by = m.by /\ l.n = m.n => l = m

(* A page at rest is not still waiting for the load that it shows. *)
Rests(p) ==
    page[p].view = "on" /\ ~page[p].loading /\ page[p].shown = page[p].begun =>
        \A l \in loads : l.by = p => l.n # page[p].begun

(* OwnRowsShown, of one page. *)
ShowsOwn(p) ==
    page[p].view = "on" /\ ~page[p].loading /\ ~page[p].error /\ page[p].shown = page[p].begun =>
        \A e \in rows : Reported(p, e) => e.id \in page[p].rows

ShownInv ==
    /\ \A l \in loads : Sound(l)
    /\ Numbered
    /\ \A p \in Pages : Rests(p) /\ ShowsOwn(p)

-----------------------------------------------------------------------------
(* The answers of the services, as far as a page tells them apart. *)
LEMMA StatusOfErrors ==
    ASSUME NEW remaining
    PROVE  /\ ErrorOf("VALIDATION_ERROR", remaining).status = 400
           /\ ErrorOf("ORDER_NOT_FOUND", remaining).status = 404
           /\ ErrorOf("PAYMENT_EXCEEDS_REMAINING_BALANCE", remaining).status = 409
           /\ ErrorOf("REFUND_EXCEEDS_AMOUNT_PAID", remaining).status = 409
           /\ ErrorOf("DUPLICATE_IDEMPOTENCY_KEY", remaining).status = 409
           /\ ErrorOf("ORDER_NOT_EDITABLE", remaining).status = 409
  BY DEF ErrorOf, Bare, StatusByCode

(* An answer with an order has the status it is given. *)
LEMMA StatusOfSnapshots ==
    ASSUME NEW status, NEW o, NEW row
    PROVE  serializeOrderSnapshot(status, o, row).status = status
  BY DEF serializeOrderSnapshot, Bare

RowFrom(q) == [kind |-> q.op, id |-> q.id, user |-> q.user, order |-> q.order,
               amount |-> q.amount, key |-> q.key]

(* A payment or refund is answered with success only if its row is new, or *)
(* there was one that bears its key.                                       *)
LEMMA SettleAnswers ==
    ASSUME NEW q, q.op \in Kinds
    PROVE  \/ Handle(q).rows = rows /\ Handle(q).res.status \in {400, 404, 409}
           \/ Handle(q).rows = rows /\ Prior(q) # {}
           \/ /\ Handle(q).rows = rows \cup {RowFrom(q)} /\ Prior(q) = {}
              /\ Handle(q).res.status = 201
  <1>1. Handle(q) = Settle(q)
    BY DEF Handle, Kinds
  <1>2. CASE ~q.valid \/ q.amount < 1
    <2>1. Settle(q) = Only(ErrorOf("VALIDATION_ERROR", None))
      BY <1>2 DEF Settle
    <2>2. QED
      BY <1>1, <2>1, StatusOfErrors DEF Only, Outcome
  <1>3. CASE ~(~q.valid \/ q.amount < 1) /\ Prior(q) # {}
    <2>1. Settle(q) = Only(Replay(q))
      BY <1>3 DEF Settle
    <2>2. QED
      BY <1>1, <1>3, <2>1 DEF Only, Outcome
  <1>4. CASE ~(~q.valid \/ q.amount < 1) /\ Prior(q) = {} /\ ~Mine(q)
    <2>1. Settle(q) = Only(NotFound)
      BY <1>4 DEF Settle
    <2>2. QED
      BY <1>1, <2>1, StatusOfErrors DEF Only, Outcome, NotFound
  <1>5. CASE ~(~q.valid \/ q.amount < 1) /\ Prior(q) = {} /\ Mine(q) /\ q.amount > Room(q)
    <2>1. Settle(q) = Only(Exceeds(q))
      BY <1>5 DEF Settle
    <2>2. Exceeds(q).status = 409
      BY StatusOfErrors DEF Exceeds
    <2>3. QED
      BY <1>1, <2>1, <2>2 DEF Only, Outcome
  <1>6. CASE ~(~q.valid \/ q.amount < 1) /\ Prior(q) = {} /\ Mine(q) /\ ~(q.amount > Room(q))
    <2>1. Settle(q) = Accept(q)
      BY <1>6 DEF Settle
    <2>2. QED
      BY <1>1, <1>6, <2>1, StatusOfSnapshots DEF Accept, Outcome, RowFrom
  <1>7. QED
    BY <1>2, <1>3, <1>4, <1>5, <1>6

(* No other request touches payments or refunds. *)
LEMMA RowsOnlySettled ==
    ASSUME NEW q, q.op \in {"lines", "rename", "delete"}
    PROVE  Handle(q).rows = rows
  <1>1. CASE q.op = "delete"
    <2>1. Handle(q) = DeleteOrder(q)
      BY <1>1 DEF Handle
    <2>2. QED
      BY <2>1 DEF DeleteOrder, Only, Outcome
  <1>2. CASE q.op \in {"lines", "rename"}
    <2>1. Handle(q) = UpdateOrder(q)
      BY <1>2 DEF Handle
    <2>2. QED
      BY <2>1 DEF UpdateOrder, Only, Outcome
  <1>3. QED
    BY <1>1, <1>2

-----------------------------------------------------------------------------
(* What a step makes of page p, as far as the invariants look at it; it    *)
(* leaves the other pages alone.                                           *)
Shows(p, view, loading, error, entries, modal, begun, shown) ==
    /\ DOMAIN page' = Pages /\ \A other \in Pages \ {p} : page'[other] = page[other]
    /\ DOMAIN page'[p] = PageFields
    /\ page'[p].view = view /\ page'[p].loading = loading /\ page'[p].error = error
    /\ page'[p].rows = entries /\ page'[p].modal = modal
    /\ page'[p].begun = begun /\ page'[p].shown = shown

StartsToLoad(p) ==
    /\ Shows(p, "on", TRUE, FALSE, page[p].rows, Closed, Number(p), page[p].shown)
    /\ loads' = loads \cup {NewLoad(p)}

EndsLoad(l, error, entries) ==
    /\ Shows(l.by, page[l.by].view, FALSE, error, entries, page[l.by].modal,
             page[l.by].begun, l.n)
    /\ loads' = loads \ {l}

KeepsRest(p, modal) ==
    /\ Shows(p, page[p].view, page[p].loading, page[p].error, page[p].rows, modal,
             page[p].begun, page[p].shown)
    /\ UNCHANGED loads

Leaves(p) ==
    /\ Shows(p, "away", FALSE, FALSE, {}, Closed, 0, 0)
    /\ loads' = {l \in loads : l.by # p}

(* A load begins. *)
LEMMA LoadingShown ==
    ASSUME DeskTyped, NEW p \in Pages
    PROVE  LET pg == Loading(p)
           IN  /\ DOMAIN pg = PageFields /\ pg.view = "on" /\ pg.loading = TRUE
               /\ pg.error = FALSE /\ pg.rows = page[p].rows /\ pg.modal = Closed
               /\ pg.begun = Number(p) /\ pg.shown = page[p].shown
  <1>1. DOMAIN page[p] = PageFields
    BY DEF DeskTyped, PagesTyped, IsPage
  <1>2. QED
    BY <1>1 DEF Loading, PageFields

(* What the owner does at a page. *)
LEMMA UseShows ==
    ASSUME DeskTyped, NEW p \in Pages
    PROVE  /\ Load(p) => StartsToLoad(p)
           /\ CloseModal(p) => KeepsRest(p, Closed)
           /\ \A kind \in Kinds :
                OpenModal(p, kind) => KeepsRest(p, [kind |-> kind, key |-> openings + 1])
           /\ Edit(p) \/ CancelEdit(p) => KeepsRest(p, page[p].modal)
           /\ Delete(p) \/ (\E amount \in Amounts : Submit(p, amount))
                  \/ (\E total \in NewTotals : SaveEdit(p, total))
                => UNCHANGED <<page, loads>>
  <1>1. DOMAIN page = Pages /\ DOMAIN page[p] = PageFields
    BY DEF DeskTyped, PagesTyped, IsPage
  <1>2. ASSUME Load(p) PROVE StartsToLoad(p)
    <2>1. page' = [page EXCEPT ![p] = Loading(p)] /\ loads' = loads \cup {NewLoad(p)}
      BY <1>2 DEF Load
    <2>2. page'[p] = Loading(p)
      BY <1>1, <2>1
    <2>3. QED
      BY <1>1, <2>1, <2>2, LoadingShown DEF Shows, StartsToLoad
  <1>3. ASSUME NEW modal, page' = [page EXCEPT ![p].modal = modal], UNCHANGED loads
        PROVE  KeepsRest(p, modal)
    BY <1>1, <1>3 DEF KeepsRest, Shows, PageFields
  <1>4. ASSUME NEW editing, page' = [page EXCEPT ![p].editing = editing], UNCHANGED loads
        PROVE  KeepsRest(p, page[p].modal)
    BY <1>1, <1>4 DEF KeepsRest, Shows, PageFields
  <1>5. CloseModal(p) => KeepsRest(p, Closed)
    BY <1>3 DEF CloseModal
  <1>6. \A kind \in Kinds :
            OpenModal(p, kind) => KeepsRest(p, [kind |-> kind, key |-> openings + 1])
    BY <1>3 DEF OpenModal
  <1>7. Edit(p) \/ CancelEdit(p) => KeepsRest(p, page[p].modal)
    BY <1>4 DEF Edit, CancelEdit
  <1>8. QED
    BY <1>2, <1>5, <1>6, <1>7 DEF Delete, Submit, SaveEdit, Sent

(* What its requests do to it. *)
LEMMA LoadShows ==
    ASSUME DeskTyped, NEW l \in loads
    PROVE  /\ Rejected(l) => EndsLoad(l, TRUE, page[l.by].rows)
           /\ EndLoad(l) => EndsLoad(l, page[l.by].error, l.got["payment"] \cup l.got["refund"])
  <1>1. l.by \in Pages /\ DOMAIN page = Pages /\ DOMAIN page[l.by] = PageFields
    BY DEF DeskTyped, PagesTyped, LoadsTyped, IsLoad, IsPage
  <1>2. ASSUME Rejected(l) PROVE EndsLoad(l, TRUE, page[l.by].rows)
    BY <1>1, <1>2 DEF Rejected, EndsLoad, Shows, PageFields
  <1>3. ASSUME EndLoad(l)
        PROVE  EndsLoad(l, page[l.by].error, l.got["payment"] \cup l.got["refund"])
    BY <1>1, <1>3 DEF EndLoad, EndsLoad, Shows, PageFields
  <1>4. QED
    BY <1>2, <1>3

(* What the answers to its forms do to it. *)
LEMMA AnswerShows ==
    ASSUME DeskTyped, NEW c \in calls
    PROVE  /\ Succeed(c) => StartsToLoad(c.by)
           /\ LeavePage(c) => Leaves(c.by)
           /\ Serve(c) \/ Ignore(c) \/ ShowError(c) \/ Lose(c) => UNCHANGED <<page, loads>>
  <1>1. c.by \in Pages /\ DOMAIN page = Pages
    BY DEF DeskTyped, PagesTyped, CallsTyped, IsCall
  <1>2. ASSUME Succeed(c) PROVE StartsToLoad(c.by)
    <2> DEFINE pg == Loading(c.by)
    <2>1. PICK editing : page' = [page EXCEPT ![c.by] = [pg EXCEPT !.editing = editing]]
      BY <1>2 DEF Succeed, Reload, LoadingAfter
    <2>2. page'[c.by] = [pg EXCEPT !.editing = editing]
      BY <1>1, <2>1
    <2>3. loads' = loads \cup {NewLoad(c.by)}
      BY <1>2 DEF Succeed, Reload, LoadingAfter
    <2>4. /\ DOMAIN pg = PageFields /\ pg.view = "on" /\ pg.loading = TRUE
          /\ pg.error = FALSE /\ pg.rows = page[c.by].rows /\ pg.modal = Closed
          /\ pg.begun = Number(c.by) /\ pg.shown = page[c.by].shown
      BY <1>1, LoadingShown
    <2> HIDE DEF pg
    <2>5. QED
      BY <1>1, <2>1, <2>2, <2>3, <2>4 DEF Shows, StartsToLoad, PageFields
  <1>3. ASSUME LeavePage(c) PROVE Leaves(c.by)
    BY <1>1, <1>3 DEF LeavePage, Leaves, Shows, PageFields, Fresh
  <1>4. QED
    BY <1>2, <1>3 DEF Serve, Ignore, ShowError, Lose

-----------------------------------------------------------------------------
(* Pages and loads stay what they are. *)
PagesWellTyped == PagesTyped /\ LoadsTyped

(* A page that begins to load is still a page. *)
LEMMA StartTyped ==
    ASSUME DeskTyped, NEW p \in Pages, StartsToLoad(p)
    PROVE  PagesWellTyped'
  <1>1. PagesTyped /\ LoadsTyped
    BY DEF DeskTyped
  <1>2. Number(p) \in Nat
    BY <1>1 DEF Number, PagesTyped, IsPage
  <1>3. IsLoad(NewLoad(p))
    BY <1>2 DEF IsLoad, NewLoad
  <1>4. PagesTyped'
    BY <1>1, <1>2 DEF PagesTyped, IsPage, StartsToLoad, Shows
  <1>5. LoadsTyped'
    BY <1>1, <1>3 DEF LoadsTyped, IsLoad, StartsToLoad
  <1>6. QED
    BY <1>4, <1>5 DEF PagesWellTyped

(* So is one whose load has ended, for better or worse. *)
LEMMA EndTyped ==
    ASSUME DeskTyped, NEW l \in loads, NEW error \in BOOLEAN, NEW entries,
           EndsLoad(l, error, entries)
    PROVE  PagesWellTyped'
  <1>1. PagesTyped /\ LoadsTyped /\ l.by \in Pages /\ l.n \in Nat
    BY DEF DeskTyped, LoadsTyped, IsLoad
  <1>2. PagesTyped'
    BY <1>1 DEF PagesTyped, IsPage, EndsLoad, Shows
  <1>3. LoadsTyped'
    BY <1>1 DEF LoadsTyped, IsLoad, EndsLoad
  <1>4. QED
    BY <1>2, <1>3 DEF PagesWellTyped

(* So is one whose modal has changed. *)
LEMMA RestTyped ==
    ASSUME DeskTyped, NEW p \in Pages, NEW modal, KeepsRest(p, modal)
    PROVE  PagesWellTyped'
  <1>1. PagesTyped /\ LoadsTyped
    BY DEF DeskTyped
  <1>2. PagesTyped'
    BY <1>1 DEF PagesTyped, IsPage, KeepsRest, Shows
  <1>3. QED
    BY <1>1, <1>2 DEF PagesWellTyped, LoadsTyped, IsLoad, KeepsRest

(* So is one that has been left. *)
LEMMA LeaveTyped ==
    ASSUME DeskTyped, NEW p \in Pages, Leaves(p)
    PROVE  PagesWellTyped'
  <1>1. PagesTyped /\ LoadsTyped
    BY DEF DeskTyped
  <1>2. PagesTyped'
    <2>1. IsPage(page'[p])
      <3>1. DOMAIN page'[p] = PageFields /\ page'[p].view = "away"
        BY DEF Leaves, Shows
      <3>2. page'[p].loading \in BOOLEAN /\ page'[p].error \in BOOLEAN
        BY DEF Leaves, Shows
      <3>3. page'[p].begun \in Nat /\ page'[p].shown \in Nat
        BY DEF Leaves, Shows
      <3>4. QED
        BY <3>1, <3>2, <3>3 DEF IsPage
    <2>2. DOMAIN page' = Pages /\ \A other \in Pages \ {p} : page'[other] = page[other]
      BY DEF Leaves, Shows
    <2>3. QED
      BY <1>1, <2>1, <2>2 DEF PagesTyped, IsPage
  <1>3. QED
    BY <1>1, <1>2 DEF PagesWellTyped, LoadsTyped, IsLoad, Leaves

(* A load is answered in part: one of its three requests has come back.    *)
LEMMA GotTyped ==
    ASSUME DeskTyped, NEW l \in loads, NEW part \in Kinds \cup {"order"}, NEW value,
           Got(l, part, value), UNCHANGED page
    PROVE  PagesWellTyped'
  <1>1. PagesTyped /\ LoadsTyped /\ IsLoad(l)
    BY DEF DeskTyped, LoadsTyped
  <1>2. IsLoad([l EXCEPT !.got[part] = value])
    BY <1>1 DEF IsLoad
  <1>3. QED
    BY <1>1, <1>2 DEF PagesWellTyped, PagesTyped, IsPage, LoadsTyped, IsLoad, Got

(* The steps of a load are one of three. *)
LEMMA GoOnIs ==
    ASSUME DeskTyped, NEW l \in loads, GoOn(l)
    PROVE  \/ EndsLoad(l, TRUE, page[l.by].rows)
           \/ /\ EndsLoad(l, page[l.by].error, l.got["payment"] \cup l.got["refund"])
              /\ \A part \in DOMAIN l.got : l.got[part] # None
           \/ UNCHANGED page /\ \E value : Got(l, "order", value)
           \/ /\ UNCHANGED page
              /\ \E kind \in Kinds :
                    Got(l, kind, {e.id : e \in {e \in rows : e.kind = kind /\ e.order = Order}})
  <1>1. /\ Rejected(l) => EndsLoad(l, TRUE, page[l.by].rows)
        /\ EndLoad(l) => EndsLoad(l, page[l.by].error, l.got["payment"] \cup l.got["refund"])
    BY LoadShows
  <1>2. CASE ReadOrder(l)
    BY <1>1, <1>2 DEF ReadOrder
  <1>3. CASE EndLoad(l)
    BY <1>1, <1>3 DEF EndLoad
  <1>4. CASE LoadFails(l)
    BY <1>1, <1>4 DEF LoadFails
  <1>5. CASE \E kind \in Kinds : ReadRows(l, kind)
    BY <1>1, <1>5 DEF ReadRows
  <1>6. QED
    BY <1>2, <1>3, <1>4, <1>5 DEF GoOn

-----------------------------------------------------------------------------
(* The forms that are under way after a step are those from before, and no *)
(* other is answered with success.                                         *)
Same(c, d) == c.by = d.by /\ c.kind = d.kind /\ c.key = d.key /\ c.q = d.q

CallsStay ==
    \A c \in calls' : IsCall(c) /\ \E d \in calls : Same(c, d) /\ (Good(c) => Good(d))

(* The components of a page that is left detach its forms. *)
LEMMA DetachedStay ==
    ASSUME DeskTyped, NEW cs, cs \subseteq calls, NEW p, calls' = Detached(cs, p)
    PROVE  CallsStay
  <1> SUFFICES ASSUME NEW c \in calls'
               PROVE  IsCall(c) /\ \E d \in calls : Same(c, d) /\ (Good(c) => Good(d))
    BY DEF CallsStay
  <1>1. PICK d \in cs : c = IF d.by = p THEN [d EXCEPT !.attached = FALSE] ELSE d
    BY DEF Detached
  <1>2. d \in calls /\ IsCall(d)
    BY DEF DeskTyped, CallsTyped
  <1>3. IsCall(c) /\ Same(c, d) /\ c.step = d.step /\ c.status = d.status
    BY <1>1, <1>2 DEF IsCall, Same
  <1>4. QED
    BY <1>2, <1>3 DEF Good

(* Forms that come to an end leave the others as they are. *)
LEMMA FewerStay ==
    ASSUME DeskTyped, calls' \subseteq calls
    PROVE  CallsStay
  BY DEF CallsStay, Same, DeskTyped, CallsTyped

(* The steps that neither submit a form nor answer one. *)
LEMMA CallsOfUse ==
    ASSUME DeskTyped, NEW p \in Pages,
           \/ Load(p) \/ CloseModal(p) \/ Edit(p) \/ CancelEdit(p)
           \/ \E kind \in Kinds : OpenModal(p, kind)
    PROVE  CallsStay /\ UNCHANGED <<rows, told, unsure>>
  BY DetachedStay, FewerStay DEF Load, CloseModal, Edit, CancelEdit, OpenModal, db

(* The steps of a load touch no form. *)
LEMMA CallsOfLoads ==
    ASSUME DeskTyped, NEW l \in loads, GoOn(l)
    PROVE  CallsStay /\ UNCHANGED <<rows, told, unsure, openings>>
  BY FewerStay DEF GoOn, ReadOrder, ReadRows, EndLoad, LoadFails, db, bounds

(* An answer that comes in ends its form, and changes no other. *)
LEMMA CallsOfAnswers ==
    ASSUME DeskTyped, NEW c \in calls, Answer(c), ~Serve(c)
    PROVE  CallsStay /\ UNCHANGED <<rows, openings>> /\ unsure \subseteq unsure'
  <1>1. CASE Succeed(c) \/ LeavePage(c)
    <2>1. calls' = Detached(calls \ {c}, c.by)
      BY <1>1 DEF Succeed, Reload, LeavePage
    <2>2. CallsStay
      BY <2>1, DetachedStay
    <2>3. QED
      BY <1>1, <2>2 DEF Succeed, LeavePage, db, bounds
  <1>2. CASE Ignore(c) \/ ShowError(c)
    BY <1>2, FewerStay DEF Ignore, ShowError, db, bounds
  <1>3. CASE Lose(c)
    <2>1. UNCHANGED <<rows, openings>> /\ unsure \subseteq unsure'
      BY <1>3 DEF Lose, db
    <2>2. CASE calls' = calls \ {c}
      BY <2>1, <2>2, FewerStay
    <2>3. CASE calls' = (calls \ {c}) \cup {[c EXCEPT !.step = "unheard", !.attached = FALSE]}
      <3> DEFINE lost == [c EXCEPT !.step = "unheard", !.attached = FALSE]
      <3>1. IsCall(c)
        BY DEF DeskTyped, CallsTyped
      <3>2. IsCall(lost) /\ Same(lost, c) /\ ~Good(lost)
        BY <3>1 DEF IsCall, Same, Good
      <3>3. \A d \in calls : IsCall(d) /\ Same(d, d)
        BY DEF DeskTyped, CallsTyped, Same
      <3>4. QED
        BY <2>1, <2>3, <3>2, <3>3 DEF CallsStay
    <2>4. QED
      BY <1>3, <2>2, <2>3 DEF Lose
  <1>4. QED
    BY <1>1, <1>2, <1>3 DEF Answer

-----------------------------------------------------------------------------
(* What keeps the keys and the charges, whatever the pages load. *)
Charges == CallsTyped /\ ModalsTyped /\ RowsTyped /\ OneKind /\ NoDoubleCharge /\ AnswersInv

ModalsStay == \A p \in Pages : page'[p].modal \in {page[p].modal, Closed}

(* A step that brings up no key, form, answer or row of its own.           *)
LEMMA StillKeepsCharges ==
    ASSUME ChargeInv, CallsStay, ModalsStay, UNCHANGED <<rows, openings>>,
           unsure \subseteq unsure'
    PROVE  Charges'
  <1>1. /\ CallsTyped /\ ModalsTyped /\ RowsTyped /\ OneKind /\ NoDoubleCharge
        /\ AnswersInv /\ openings \in Nat
    BY DEF ChargeInv, DeskTyped, ToldTyped
  <1>2. CallsTyped'
    BY <1>1 DEF CallsStay, Same, CallsTyped, Asks
  <1>3. ModalsTyped'
    BY <1>1 DEF ModalsStay, ModalsTyped, ModalOf
  <1>4. RowsTyped' /\ NoDoubleCharge'
    BY <1>1 DEF RowsTyped, RowOf, NoDoubleCharge
  <1>5. ASSUME NEW key \in 1 .. openings, NEW kind \in Kinds, Bears(key, kind)'
        PROVE  Bears(key, kind)
    <2>1. Closed # [kind |-> kind, key |-> key]
      BY <1>1 DEF Closed
    <2>2. CASE \E p \in Pages : page'[p].modal = [kind |-> kind, key |-> key]
      BY <2>1, <2>2 DEF ModalsStay, Bears
    <2>3. CASE \E c \in calls' : c.key = key /\ c.kind = kind
      BY <2>3 DEF CallsStay, Same, Bears
    <2>4. CASE \E e \in rows' : e.key = key /\ e.kind = kind
      BY <2>4 DEF Bears
    <2>5. QED
      BY <1>5, <2>2, <2>3, <2>4 DEF Bears
  <1>6. OneKind'
    BY <1>1, <1>5 DEF OneKind, Kinds
  <1>7. AnswersInv'
    BY <1>1 DEF AnswersInv, CallsStay, Same, Recorded
  <1>8. QED
    BY <1>2, <1>3, <1>4, <1>6, <1>7 DEF Charges

(* A modal that opens bears a key that nothing bears yet.                  *)
LEMMA OpenKeepsCharges ==
    ASSUME ChargeInv, NEW p \in Pages, NEW kind \in Kinds, OpenModal(p, kind)
    PROVE  Charges' /\ UNCHANGED <<rows, told, unsure>> /\ openings' = openings + 1
  <1>1. /\ CallsTyped /\ ModalsTyped /\ RowsTyped /\ OneKind /\ NoDoubleCharge
        /\ AnswersInv /\ openings \in Nat /\ DeskTyped
    BY DEF ChargeInv, DeskTyped, ToldTyped
  <1>0. PICK k \in Nat : k = openings + 1
    BY <1>1
  <1>2. UNCHANGED <<rows, calls, told, unsure>> /\ openings' = k
    BY <1>0 DEF OpenModal, db
  <1>3. /\ page'[p].modal = [kind |-> kind, key |-> k]
        /\ \A other \in Pages \ {p} : page'[other] = page[other]
    BY <1>0, <1>1, UseShows DEF KeepsRest, Shows
  <1>4. 1 .. openings \subseteq 1 .. openings' /\ k \in 1 .. openings' /\ k \notin 1 .. openings
    BY <1>0, <1>1, <1>2
  <1>5. CallsTyped'
    BY <1>1, <1>2, <1>4 DEF CallsTyped, Asks
  <1>6. ModalsTyped'
    BY <1>1, <1>3, <1>4 DEF ModalsTyped, ModalOf
  <1>7. RowsTyped' /\ NoDoubleCharge' /\ AnswersInv'
    BY <1>1, <1>2, <1>4 DEF RowsTyped, RowOf, NoDoubleCharge, AnswersInv, Recorded
  <1>8. ASSUME NEW key \in 1 .. openings, NEW other \in Kinds, Bears(key, other)'
        PROVE  Bears(key, other)
    <2>1. [kind |-> kind, key |-> k] # [kind |-> other, key |-> key]
      BY <1>4
    <2>2. QED
      BY <1>2, <1>3, <1>8, <2>1 DEF Bears
  <1>9. ASSUME NEW other \in Kinds, Bears(k, other)'
        PROVE  other = kind
    <2>1. ~Bears(k, other)
      <3>1. \A q \in Pages : page[q].modal # [kind |-> other, key |-> k]
        <4> SUFFICES ASSUME NEW q \in Pages, page[q].modal = [kind |-> other, key |-> k]
                     PROVE  FALSE
          OBVIOUS
        <4>1. page[q].modal.key = 0 \/ page[q].modal.key \in 1 .. openings
          <5>1. CASE page[q].modal = Closed
            BY <5>1 DEF Closed
          <5>2. ASSUME NEW x \in Kinds, NEW y \in 1 .. openings,
                       page[q].modal = [kind |-> x, key |-> y]
                PROVE  page[q].modal.key \in 1 .. openings
            BY <5>2
          <5>3. QED
            BY <1>1, <5>1, <5>2 DEF ModalsTyped, ModalOf
        <4>2. page[q].modal.key = k
          OBVIOUS
        <4>3. QED
          BY <1>0, <1>1, <1>4, <4>1, <4>2
      <3>2. \A c \in calls : c.key # k
        BY <1>1, <1>4 DEF CallsTyped, Asks
      <3>3. \A e \in rows : e.key # k
        BY <1>1, <1>4, DeskAssumption DEF RowsTyped, RowOf
      <3>4. QED
        BY <3>1, <3>2, <3>3 DEF Bears
    <2>2. page'[p].modal = [kind |-> other, key |-> k]
      BY <1>2, <1>3, <1>9, <2>1 DEF Bears
    <2>3. QED
      BY <1>3, <2>2
  <1>10. OneKind'
    <2> SUFFICES ASSUME NEW key \in 1 .. openings', Bears(key, "payment")', Bears(key, "refund")'
                 PROVE  FALSE
      BY DEF OneKind
    <2>1. CASE key \in 1 .. openings
      BY <1>1, <1>8, <2>1 DEF OneKind, Kinds
    <2>2. CASE key = k
      BY <1>9, <2>2 DEF Kinds
    <2>3. QED
      BY <1>0, <1>1, <1>2, <2>1, <2>2
  <1>11. QED
    BY <1>0, <1>2, <1>5, <1>6, <1>7, <1>10 DEF Charges

(* A form that is submitted bears the key of its modal. *)
LEMMA SendKeepsCharges ==
    ASSUME ChargeInv, NEW p \in Pages,
           \/ Delete(p) \/ (\E amount \in Amounts : Submit(p, amount))
           \/ \E total \in NewTotals : SaveEdit(p, total)
    PROVE  Charges' /\ UNCHANGED <<rows, told, unsure, openings>>
  <1>1. /\ CallsTyped /\ ModalsTyped /\ RowsTyped /\ OneKind /\ NoDoubleCharge
        /\ AnswersInv /\ openings \in Nat /\ DeskTyped
    BY DEF ChargeInv, DeskTyped, ToldTyped
  <1>2. UNCHANGED <<page, rows, told, unsure, openings>>
    BY DEF Delete, Submit, SaveEdit, db
  <1>3. PICK c : /\ calls' = calls \cup {c} /\ IsCall(c) /\ Asks(c) /\ ~Good(c)
                 /\ c.kind \in Kinds => Bears(c.key, c.kind)
    <2>1. ASSUME NEW kind, NEW key, NEW q, Sent(p, kind, key, q)
          PROVE  \E c : /\ calls' = calls \cup {c} /\ IsCall(c) /\ ~Good(c)
                        /\ c.kind = kind /\ c.key = key /\ c.q = q
      <3> DEFINE c == [by |-> p, kind |-> kind, key |-> key, q |-> q,
                       step |-> "sent", status |-> 0, attached |-> TRUE]
      <3>1. calls' = calls \cup {c}
        BY <2>1 DEF Sent
      <3>2. /\ DOMAIN c = {"by", "kind", "key", "q", "step", "status", "attached"}
            /\ c.by = p /\ c.kind = kind /\ c.key = key /\ c.q = q /\ c.step = "sent"
        OBVIOUS
      <3> HIDE DEF c
      <3>4. IsCall(c) /\ ~Good(c)
        BY <3>2 DEF IsCall, Good
      <3>3. QED
        BY <3>1, <3>2, <3>4
    <2>2. ASSUME NEW amount \in Amounts, Submit(p, amount)
          PROVE  \E c : /\ calls' = calls \cup {c} /\ IsCall(c) /\ Asks(c) /\ ~Good(c)
                        /\ Bears(c.key, c.kind)
      <3>1. PICK kind \in Kinds, key \in 1 .. openings :
                page[p].modal = [kind |-> kind, key |-> key]
        BY <1>1, <2>2 DEF Submit, ModalsTyped, ModalOf
      <3>2. Sent(p, kind, key, Ask(kind, amount, key))
        BY <2>2, <3>1 DEF Submit
      <3>3. PICK c : /\ calls' = calls \cup {c} /\ IsCall(c) /\ ~Good(c)
                     /\ c.kind = kind /\ c.key = key /\ c.q = Ask(kind, amount, key)
        BY <2>1, <3>2
      <3>4. Asks(c)
        BY <1>1, <3>3 DEF Asks, Ask
      <3>5. Bears(key, kind)
        BY <3>1 DEF Bears
      <3>6. QED
        BY <3>3, <3>4, <3>5
    <2>3. ASSUME NEW kind \in {"edit", "delete"}, NEW op \in {"lines", "rename", "delete"},
                 NEW amount, Sent(p, kind, 0, Ask(op, amount, 0))
          PROVE  \E c : /\ calls' = calls \cup {c} /\ IsCall(c) /\ Asks(c) /\ ~Good(c)
                        /\ c.kind \notin Kinds
      <3>1. PICK c : /\ calls' = calls \cup {c} /\ IsCall(c) /\ ~Good(c)
                     /\ c.kind = kind /\ c.key = 0 /\ c.q = Ask(op, amount, 0)
        BY <2>1, <2>3
      <3>2. Asks(c) /\ c.kind \notin Kinds
        BY <3>1 DEF Asks, Ask, Kinds
      <3>3. QED
        BY <3>1, <3>2
    <2>4. Delete(p) => Sent(p, "delete", 0, Ask("delete", 0, 0))
      BY DEF Delete
    <2>5. ASSUME NEW total \in NewTotals, SaveEdit(p, total)
          PROVE  \E op \in {"lines", "rename"} : Sent(p, "edit", 0, Ask(op, total, 0))
      BY <2>5 DEF SaveEdit
    <2>6. QED
      BY <2>2, <2>3, <2>4, <2>5
  <1>4. CallsTyped'
    BY <1>1, <1>2, <1>3 DEF CallsTyped, Asks
  <1>5. ModalsTyped' /\ RowsTyped' /\ NoDoubleCharge'
    BY <1>1, <1>2 DEF ModalsTyped, ModalOf, RowsTyped, RowOf, NoDoubleCharge
  <1>6. AnswersInv'
    BY <1>1, <1>2, <1>3 DEF AnswersInv, Recorded
  <1>7. \A key \in 1 .. openings, kind \in Kinds : Bears(key, kind)' => Bears(key, kind)
    BY <1>2, <1>3 DEF Bears
  <1>8. OneKind'
    BY <1>1, <1>2, <1>7 DEF OneKind, Kinds
  <1>9. QED
    BY <1>2, <1>4, <1>5, <1>6, <1>8 DEF Charges

(* A request of a modal takes effect, or finds that it has.                *)
LEMMA ServeKeepsCharges ==
    ASSUME ChargeInv, NEW c \in calls, Serve(c)
    PROVE  /\ Charges' /\ UNCHANGED <<page, loads, told, unsure, openings>>
           /\ rows \subseteq rows'
  <1> DEFINE q == c.q
             heard == [c EXCEPT !.step = "answered", !.status = Handle(q).res.status]
  <1>1. /\ CallsTyped /\ ModalsTyped /\ RowsTyped /\ OneKind /\ NoDoubleCharge
        /\ AnswersInv /\ openings \in Nat /\ IsCall(c) /\ Asks(c) /\ Doubted
    BY DEF ChargeInv, DeskTyped, ToldTyped, CallsTyped, Turns
  <1>2. /\ UNCHANGED <<page, loads, told, unsure, openings>>
        /\ rows' = Handle(q).rows
        /\ calls' \subseteq calls \cup {heard}
        /\ c.step # "sent" => calls' \subseteq calls
    BY DEF Serve, Apply, bounds
  <1>3. /\ IsCall(heard) /\ Asks(heard)
        /\ heard.kind = c.kind /\ heard.key = c.key /\ heard.q = q
        /\ heard.status = Handle(q).res.status
    BY <1>1 DEF IsCall, Asks
  <1>4. /\ q.user = Owner /\ q.order = Order
        /\ c.kind \in Kinds => /\ c.key \in 1 .. openings /\ q.op = c.kind
                               /\ q.key = c.key /\ q.id[1] = c.key
        /\ c.kind \notin Kinds => q.op \in {"lines", "rename", "delete"}
    BY <1>1 DEF Asks, Kinds
  <1>5. \/ rows' = rows /\ (c.kind \in Kinds => heard.status \in {400, 404, 409} \/ Prior(q) # {})
        \/ c.kind \in Kinds /\ rows' = rows \cup {RowFrom(q)} /\ Prior(q) = {}
    <2>1. CASE c.kind \in Kinds
      BY <1>2, <1>3, <1>4, <2>1, SettleAnswers
    <2>2. CASE c.kind \notin Kinds
      BY <1>2, <1>4, <2>2, RowsOnlySettled
    <2>3. QED
      BY <2>1, <2>2
  <1>6. CallsTyped' /\ ModalsTyped'
    BY <1>1, <1>2, <1>3 DEF CallsTyped, Asks, ModalsTyped, ModalOf
  <1>7. /\ RowFrom(q).kind = q.op /\ RowFrom(q).id = q.id /\ RowFrom(q).key = q.key
        /\ RowFrom(q).user = q.user /\ RowFrom(q).order = q.order
    BY DEF RowFrom
  <1>8. RowsTyped'
    BY <1>1, <1>2, <1>4, <1>5, <1>7 DEF RowsTyped, RowOf
  <1>9. ASSUME c.kind \in Kinds, c.step = "sent", Prior(q) # {}
        PROVE  Recorded(q)
    <2>1. PICK e \in rows : e.key = c.key /\ e.kind = q.op
      BY <1>4, <1>9 DEF Prior
    <2>2. e.id[1] = e.key
      BY <1>1, <1>4, <1>9, <2>1, DeskAssumption DEF RowsTyped, RowOf
    <2>3. e.id \in unsure /\ e.id[2] < q.id[2]
      BY <1>1, <1>9, <2>1 DEF Doubted, Live
    <2>4. QED
      BY <1>4, <1>9, <2>1, <2>2, <2>3 DEF Recorded
  <1>10. ASSUME c.kind \in Kinds, c.step = "sent", heard.status \notin {400, 404, 409}
         PROVE  Recorded(q)'
    <2>1. CASE rows' = rows /\ (heard.status \in {400, 404, 409} \/ Prior(q) # {})
      <3>1. Recorded(q)
        BY <1>9, <1>10, <2>1
      <3>2. QED
        BY <1>2, <2>1, <3>1 DEF Recorded
    <2>2. CASE rows' = rows \cup {RowFrom(q)}
      <3>1. RowFrom(q) \in rows' /\ RowFrom(q).amount = q.amount
        BY <2>2 DEF RowFrom
      <3>2. QED
        BY <1>7, <3>1 DEF Recorded
    <2>3. QED
      BY <1>5, <1>10, <2>1, <2>2
  <1>11. ASSUME c.kind \in Kinds, Prior(q) = {}, NEW e \in rows
         PROVE  e.id[1] # c.key
    <2> SUFFICES ASSUME e.id[1] = c.key
                 PROVE  FALSE
      OBVIOUS
    <2>1. RowOf(e) /\ c.key \in 1 .. openings
      BY <1>1, <1>4, <1>11 DEF RowsTyped
    <2>2. e.key = c.key /\ e.kind \in Kinds /\ e.user = Owner
      BY <2>1 DEF RowOf
    <2>3. Bears(c.key, e.kind) /\ Bears(c.key, c.kind)
      BY <2>2 DEF Bears
    <2>4. e.kind = c.kind
      BY <1>1, <1>11, <2>1, <2>2, <2>3 DEF OneKind, Kinds
    <2>5. q.key # NoKey
      BY <1>4, <1>11, DeskAssumption
    <2>6. e \in Prior(q)
      BY <1>4, <1>11, <2>2, <2>4, <2>5 DEF Prior
    <2>7. QED
      BY <1>11, <2>6
  <1>12. NoDoubleCharge'
    <2>1. CASE rows' = rows
      BY <1>1, <2>1 DEF NoDoubleCharge
    <2>2. CASE c.kind \in Kinds /\ rows' = rows \cup {RowFrom(q)} /\ Prior(q) = {}
      BY <1>1, <1>4, <1>7, <1>11, <2>2 DEF NoDoubleCharge
    <2>3. QED
      BY <1>5, <2>1, <2>2
  <1>13. ASSUME NEW key \in 1 .. openings, NEW kind \in Kinds, Bears(key, kind)'
         PROVE  Bears(key, kind)
    <2>1. CASE \E p \in Pages : page'[p].modal = [kind |-> kind, key |-> key]
      BY <1>2, <2>1 DEF Bears
    <2>2. CASE \E d \in calls' : d.key = key /\ d.kind = kind
      BY <1>2, <1>3, <2>2 DEF Bears
    <2>3. CASE \E e \in rows' : e.key = key /\ e.kind = kind
      BY <1>4, <1>5, <1>7, <2>3 DEF Bears
    <2>4. QED
      BY <1>13, <2>1, <2>2, <2>3 DEF Bears
  <1>14. OneKind'
    BY <1>1, <1>2, <1>13 DEF OneKind, Kinds
  <1>15. rows \subseteq rows'
    BY <1>5
  <1>16. AnswersInv'
    <2> SUFFICES ASSUME NEW d \in calls', Good(d), d.kind \in Kinds
                 PROVE  Recorded(d.q)'
      BY DEF AnswersInv
    <2>1. CASE d \in calls
      BY <1>1, <1>2, <1>15, <2>1 DEF AnswersInv, Recorded
    <2>2. CASE d = heard /\ c.step = "sent"
      BY <1>3, <1>10, <2>2 DEF Good
    <2>3. QED
      BY <1>2, <2>1, <2>2
  <1>17. QED
    BY <1>2, <1>6, <1>8, <1>12, <1>14, <1>15, <1>16 DEF Charges

-----------------------------------------------------------------------------
(* How the submissions of an opening take turns.  f says what becomes of   *)
(* the forms that go on, and of those that come to their end.              *)
Ages(f) ==
    /\ \A c \in calls' : \E d \in calls : c = f[d]
    /\ \A d \in calls :
          /\ f[d].by = d.by /\ f[d].kind = d.kind /\ f[d].key = d.key /\ f[d].q = d.q
          /\ \/ /\ f[d].step = d.step /\ f[d].status = d.status
                /\ f[d].attached = d.attached \/ Shut(d.by)'
             \/ f[d].step = "unheard" /\ d.q.id \in unsure'
    /\ \A d \in calls : Live(d) /\ Good(d) =>
          \/ f[d] \in calls' \/ d.q.id \in unsure'
          \/ \A p \in Pages : ~Shut(p)' => page[p].modal.key # d.key

(* The key of a modal's form is that of no other. *)
LEMMA KeysOfKinds ==
    ASSUME DeskTyped, NEW c \in calls, NEW d \in calls, c.kind \in Kinds, c.key = d.key
    PROVE  d.kind \in Kinds
  <1>1. Asks(c) /\ Asks(d) /\ openings \in Nat
    BY DEF DeskTyped, CallsTyped, ToldTyped
  <1>2. c.key # 0
    BY <1>1 DEF Asks, Kinds
  <1>3. QED
    BY <1>1, <1>2 DEF Asks

LEMMA AgeKeepsTurns ==
    ASSUME ChargeInv, ModalsStay, NoModal', UNCHANGED <<rows, sends>>,
           unsure \subseteq unsure', NEW f, Ages(f)
    PROVE  Turns'
  <1>1. /\ Alone /\ Latest /\ Awaited /\ ModalsApart /\ Counted /\ Doubted /\ DeskTyped
    BY DEF ChargeInv, Turns
  <1>2. ASSUME NEW d \in calls, Live(f[d])
        PROVE  Live(d) /\ f[d].step = d.step /\ f[d].status = d.status
    BY <1>2 DEF Ages, Live
  <1>3. ASSUME NEW p \in Pages, ~Shut(p)'
        PROVE  ~Shut(p) /\ page'[p].modal = page[p].modal
    BY <1>3 DEF ModalsStay, Shut
  <1>4. Alone'
    <2> SUFFICES ASSUME NEW c \in calls', NEW d \in calls', Live(c), Live(d), c.key = d.key
                 PROVE  c = d
      BY DEF Alone, Live
    <2>1. PICK x \in calls, y \in calls : c = f[x] /\ d = f[y]
      BY DEF Ages
    <2>2. x = y
      BY <1>1, <1>2, <2>1 DEF Alone, Ages
    <2>3. QED
      BY <2>1, <2>2
  <1>5. Latest'
    <2> SUFFICES ASSUME NEW c \in calls', NEW d \in calls', Live(c), d.step = "unheard",
                        c.key = d.key
                 PROVE  d.q.id[2] < c.q.id[2]
      BY DEF Latest, Live
    <2>1. PICK x \in calls, y \in calls : c = f[x] /\ d = f[y]
      BY DEF Ages
    <2>2. Live(x) /\ x.key = y.key /\ x.q = c.q /\ y.q = d.q
      BY <1>2, <2>1 DEF Ages
    <2>3. CASE y.step = "unheard"
      BY <1>1, <2>2, <2>3 DEF Latest
    <2>4. CASE y.step # "unheard"
      <3>1. Live(y)
        BY <1>1, <2>2, <2>4, KeysOfKinds DEF Live
      <3>2. x = y
        BY <1>1, <2>2, <3>1 DEF Alone
      <3>3. QED
        BY <2>1, <3>2 DEF Live
    <2>5. QED
      BY <2>3, <2>4
  <1>6. Awaited'
    <2> SUFFICES ASSUME NEW p \in Pages, NEW c \in calls', ~Shut(p)', Live(c),
                        page'[p].modal.key = c.key
                 PROVE  c.by = p /\ c.attached
      BY DEF Awaited, Live
    <2>1. PICK x \in calls : c = f[x]
      BY DEF Ages
    <2>2. Live(x) /\ c.key = x.key /\ c.by = x.by
      BY <1>2, <2>1 DEF Ages
    <2>3. x.by = p /\ x.attached
      BY <1>1, <1>3, <2>2 DEF Awaited
    <2>4. c.attached = x.attached
      BY <1>2, <2>1, <2>3 DEF Ages, Live
    <2>5. QED
      BY <2>2, <2>3, <2>4
  <1>7. ModalsApart'
    BY <1>1, <1>3 DEF ModalsApart
  <1>8. Counted'
    BY <1>1 DEF Counted, Ages
  <1>9. \A c \in calls' : c.step = "unheard" => c.q.id \in unsure'
    BY <1>1 DEF Doubted, Ages
  <1>10. ASSUME NEW c \in calls', Live(c), c.step = "sent", NEW e \in rows, e.key = c.key
         PROVE  e.id \in unsure' /\ e.id[2] < c.q.id[2]
    <2>1. PICK x \in calls : c = f[x]
      BY DEF Ages
    <2>2. Live(x) /\ x.step = "sent" /\ x.key = c.key /\ x.q = c.q
      BY <1>2, <1>10, <2>1 DEF Ages
    <2>3. QED
      BY <1>1, <1>10, <2>2 DEF Doubted
  <1>11. ASSUME NEW p \in Pages, ~Shut(p)', NEW e \in rows, e.key = page'[p].modal.key
         PROVE  e.id \in unsure' \/ \E c \in calls' : Live(c) /\ Good(c) /\ c.q.id = e.id
    <2>1. ~Shut(p) /\ e.key = page[p].modal.key
      BY <1>3, <1>11
    <2>2. CASE e.id \in unsure
      BY <2>2
    <2>3. CASE \E d \in calls : Live(d) /\ Good(d) /\ d.q.id = e.id
      <3>1. PICK d \in calls : Live(d) /\ Good(d) /\ d.q.id = e.id
        BY <2>3
      <3>2. d.key = e.key
        <4>1. RowOf(e) /\ Asks(d) /\ ModalOf(p)
          BY <1>1 DEF DeskTyped, RowsTyped, CallsTyped, ModalsTyped
        <4>2. d.q.id[1] = d.key /\ d.key \in 1 .. openings
          BY <3>1, <4>1 DEF Asks, Live, Kinds
        <4>3. openings \in Nat
          BY <1>1 DEF DeskTyped, ToldTyped
        <4>4. QED
          BY <3>1, <4>1, <4>2, <4>3 DEF RowOf
      <3>3. f[d] \in calls' \/ d.q.id \in unsure'
        BY <1>11, <2>1, <3>1, <3>2 DEF Ages
      <3>4. (Live(f[d]) /\ Good(f[d]) /\ f[d].q.id = e.id) \/ e.id \in unsure'
        BY <3>1 DEF Ages, Live, Good
      <3>5. QED
        BY <3>1, <3>3, <3>4
    <2>4. QED
      BY <1>1, <2>1, <2>2, <2>3 DEF Doubted
  <1>12. Doubted'
    BY <1>9, <1>10, <1>11 DEF Doubted, Live, Good
  <1>13. QED
    BY <1>4, <1>5, <1>6, <1>7, <1>8, <1>12 DEF Turns

(* The forms that go on are as they were. *)
LEMMA FewerKeepTurns ==
    ASSUME ChargeInv, ModalsStay, NoModal', UNCHANGED <<rows, sends>>, unsure \subseteq unsure',
           calls' \subseteq calls,
           \A d \in calls \ calls' : Live(d) /\ Good(d) =>
               d.q.id \in unsure' \/ \A p \in Pages : ~Shut(p)' => page[p].modal.key # d.key
    PROVE  Turns'
  <1> DEFINE f == [d \in calls |-> d]
  <1>1. Ages(f)
    BY DEF Ages
  <1> HIDE DEF f
  <1>2. QED
    BY <1>1, AgeKeepsTurns

(* Those of one page are detached, and its modal is gone.                  *)
LEMMA DetachKeepsTurns ==
    ASSUME ChargeInv, ModalsStay, NoModal', UNCHANGED <<rows, sends, unsure>>,
           NEW p, Shut(p)', NEW cs, cs \subseteq calls, calls' = Detached(cs, p),
           \A d \in calls \ cs : Live(d) => d.by = p \/ ~Good(d)
    PROVE  Turns'
  <1> DEFINE det(d) == IF d.by = p THEN [d EXCEPT !.attached = FALSE] ELSE d
             f == [d \in calls |-> det(d)]
  <1>1. \A d \in calls : IsCall(d)
    BY DEF ChargeInv, DeskTyped, CallsTyped
  <1>2. ASSUME NEW d \in calls
        PROVE  /\ f[d] = det(d)
               /\ f[d].by = d.by /\ f[d].kind = d.kind /\ f[d].key = d.key /\ f[d].q = d.q
               /\ f[d].step = d.step /\ f[d].status = d.status
               /\ f[d].attached = d.attached \/ d.by = p
    BY <1>1 DEF IsCall
  <1>3. \A c \in calls' : \E d \in calls : c = f[d]
    BY DEF Detached
  <1>4. \A d \in cs : f[d] \in calls'
    BY DEF Detached
  <1> HIDE DEF f, det
  <1>5. ASSUME NEW d \in calls \ cs, Live(d), Good(d), NEW r \in Pages, ~Shut(r)'
        PROVE  page[r].modal.key # d.key
    <2>1. ~Shut(r) /\ r # p
      BY <1>5 DEF ModalsStay, Shut
    <2>2. QED
      BY <1>5, <2>1 DEF ChargeInv, Turns, Awaited
  <1>6. Ages(f)
    BY <1>2, <1>3, <1>4, <1>5 DEF Ages
  <1>7. QED
    BY <1>6, AgeKeepsTurns

(* A form of a modal is submitted when no other of its opening is live.    *)
LEMMA SendKeepsTurns ==
    ASSUME ChargeInv, UNCHANGED <<page, rows, unsure>>, sends' = sends + 1,
           NEW c, calls' = calls \cup {c}, IsCall(c), Asks(c), c.step = "sent",
           c.q.id[2] = sends + 1,
           c.kind \in Kinds =>
               /\ c.by \in Pages /\ ~Shut(c.by) /\ page[c.by].modal.key = c.key /\ c.attached
               /\ \A d \in calls : Live(d) => d.key # c.key
    PROVE  Turns'
  <1>1. /\ Alone /\ Latest /\ Awaited /\ ModalsApart /\ NoModal /\ Counted /\ Doubted
        /\ DeskTyped /\ openings \in Nat
    BY DEF ChargeInv, Turns, DeskTyped, ToldTyped
  <1>2. PICK k \in Nat : k = sends + 1 /\ \A n \in 0 .. sends : n < k /\ n \in 0 .. k
    BY <1>1 DEF Counted
  <1>3. \A d \in calls : d.q.id[2] \in 0 .. sends
    BY <1>1 DEF Counted
  <1>4. Alone'
    BY <1>1 DEF Alone, Live
  <1>5. Latest'
    BY <1>1, <1>2, <1>3 DEF Latest, Live
  <1>6. Awaited'
    BY <1>1 DEF Awaited, ModalsApart, Live, Shut
  <1>7. ModalsApart' /\ NoModal'
    BY <1>1 DEF ModalsApart, NoModal, Shut
  <1>8. Counted'
    BY <1>1, <1>2, <1>3 DEF Counted
  <1>9. ASSUME c.kind \in Kinds, NEW e \in rows, e.key = c.key
        PROVE  e.id \in unsure /\ e.id[2] < c.q.id[2]
    <2>1. e.id[2] < c.q.id[2]
      BY <1>1, <1>2 DEF Counted
    <2>2. \A d \in calls : Live(d) => d.q.id # e.id
      <3> SUFFICES ASSUME NEW d \in calls, Live(d), d.q.id = e.id
                   PROVE  FALSE
        OBVIOUS
      <3>1. RowOf(e) /\ Asks(d)
        BY <1>1 DEF DeskTyped, RowsTyped, CallsTyped
      <3>2. e.id[1] = e.key
        BY <1>1, <1>9, <3>1, DeskAssumption DEF RowOf, Asks, Kinds
      <3>3. d.q.id[1] = d.key
        BY <3>1 DEF Asks, Live, Kinds
      <3>4. QED
        BY <1>9, <3>2, <3>3
    <2>3. QED
      BY <1>1, <1>9, <2>1, <2>2 DEF Doubted
  <1>10. Doubted'
    BY <1>1, <1>9 DEF Doubted, Live, Shut, Good
  <1>11. QED
    BY <1>4, <1>5, <1>6, <1>7, <1>8, <1>10 DEF Turns

(* A modal that opens has a key that nothing bears yet. *)
LEMMA OpenKeepsTurns ==
    ASSUME ChargeInv, NoModal', NEW p \in Pages, NEW kind \in Kinds, OpenModal(p, kind)
    PROVE  Turns'
  <1>1. /\ Alone /\ Latest /\ Awaited /\ ModalsApart /\ Counted /\ Doubted
        /\ DeskTyped /\ openings \in Nat
    BY DEF ChargeInv, Turns, DeskTyped, ToldTyped
  <1>2. PICK k \in Nat : k = openings + 1 /\ k \notin 0 .. openings
    BY <1>1
  <1>3. UNCHANGED <<rows, calls, unsure, sends>>
    BY DEF OpenModal, db
  <1>4. /\ page'[p].modal = [kind |-> kind, key |-> k]
        /\ \A other \in Pages \ {p} : page'[other] = page[other]
    BY <1>1, <1>2, UseShows DEF KeepsRest, Shows
  <1>5. \A q \in Pages : ~Shut(q) => page[q].modal.key # k
    <2> SUFFICES ASSUME NEW q \in Pages, ~Shut(q)
                 PROVE  page[q].modal.key # k
      OBVIOUS
    <2>1. PICK x \in Kinds, y \in 1 .. openings : page[q].modal = [kind |-> x, key |-> y]
      BY <1>1 DEF DeskTyped, ModalsTyped, ModalOf, Shut
    <2>2. page[q].modal.key = y
      BY <2>1
    <2>3. QED
      BY <1>1, <1>2, <2>2
  <1>6. (\A c \in calls : c.key # k) /\ (\A e \in rows : e.key # k)
    <2>1. \A c \in calls : c.key # k
      BY <1>1, <1>2 DEF DeskTyped, CallsTyped, Asks
    <2>2. \A e \in rows : e.key # k
      BY <1>1, <1>2, DeskAssumption DEF DeskTyped, RowsTyped, RowOf
    <2>3. QED
      BY <2>1, <2>2
  <1>7. page'[p].modal.key = k /\ \A q \in Pages \ {p} : Shut(q)' = Shut(q)
    BY <1>4 DEF Shut
  <1>8. Alone' /\ Latest' /\ Counted'
    BY <1>1, <1>3 DEF Alone, Latest, Counted, Live
  <1>9. Awaited'
    BY <1>1, <1>3, <1>4, <1>6, <1>7 DEF Awaited, Live
  <1>10. ModalsApart'
    BY <1>1, <1>4, <1>5, <1>7 DEF ModalsApart
  <1>11. Doubted'
    BY <1>1, <1>3, <1>4, <1>6, <1>7 DEF Doubted, Live, Good
  <1>12. QED
    BY <1>8, <1>9, <1>10, <1>11 DEF Turns

(* A request that is executed leaves a row under its key, or finds one.    *)
LEMMA ServeKeepsTurns ==
    ASSUME ChargeInv, NEW c \in calls, Serve(c)
    PROVE  Turns'
  <1> DEFINE q == c.q
             heard == [c EXCEPT !.step = "answered", !.status = Handle(q).res.status]
  <1>1. /\ Alone /\ Latest /\ Awaited /\ ModalsApart /\ NoModal /\ Counted /\ Doubted
        /\ DeskTyped /\ openings \in Nat /\ IsCall(c) /\ Asks(c)
    BY DEF ChargeInv, Turns, DeskTyped, ToldTyped, CallsTyped
  <1>2. /\ UNCHANGED <<page, unsure, sends>> /\ rows' = Handle(q).rows
        /\ c.step \in {"sent", "unheard"}
        /\ calls' = (calls \ {c}) \cup IF c.step = "sent" THEN {heard} ELSE {}
    BY DEF Serve, Apply, bounds
  <1>3. /\ heard.by = c.by /\ heard.kind = c.kind /\ heard.key = c.key /\ heard.q = q
        /\ heard.step = "answered" /\ heard.status = Handle(q).res.status
        /\ heard.attached = c.attached
    BY <1>1 DEF IsCall
  <1>4. \/ rows' = rows
        \/ /\ c.kind \in Kinds /\ rows' = rows \cup {RowFrom(q)} /\ heard.status = 201
    <2>1. CASE c.kind \in Kinds
      BY <1>1, <1>2, <1>3, <2>1, SettleAnswers DEF Asks, Kinds
    <2>2. CASE c.kind \notin Kinds
      BY <1>1, <1>2, <2>2, RowsOnlySettled DEF Asks, Kinds
    <2>3. QED
      BY <2>1, <2>2
  <1>5. RowFrom(q).id = q.id /\ RowFrom(q).key = q.key
    BY DEF RowFrom
  <1> HIDE DEF heard
  <1>6. c.step = "sent" => (Live(heard) <=> Live(c))
    BY <1>3 DEF Live
  <1>7. Alone'
    BY <1>1, <1>2, <1>3, <1>6 DEF Alone, Live
  <1>8. Latest'
    BY <1>1, <1>2, <1>3, <1>6 DEF Latest, Live
  <1>9. Awaited'
    BY <1>1, <1>2, <1>3, <1>6 DEF Awaited, Live, Shut
  <1>10. ModalsApart' /\ NoModal'
    BY <1>1, <1>2 DEF ModalsApart, NoModal, Shut
  <1>11. Counted'
    BY <1>1, <1>2, <1>3, <1>4, <1>5 DEF Counted
  <1>12. \A d \in calls' : d.step = "unheard" => d.q.id \in unsure'
    BY <1>1, <1>2, <1>3 DEF Doubted
  <1>13. ASSUME NEW d \in calls', Live(d), d.step = "sent", NEW e \in rows', e.key = d.key
         PROVE  e.id \in unsure' /\ e.id[2] < d.q.id[2]
    <2>1. d \in calls \ {c}
      BY <1>2, <1>3, <1>13
    <2>2. CASE e \in rows
      BY <1>1, <1>2, <1>13, <2>1, <2>2 DEF Doubted
    <2>3. CASE e \notin rows
      <3>1. e.id = q.id /\ c.kind \in Kinds /\ c.key = d.key
        BY <1>1, <1>4, <1>5, <1>13, <2>3 DEF Asks, Kinds
      <3>2. c.step = "unheard"
        BY <1>1, <1>2, <1>13, <2>1, <3>1 DEF Alone, Live
      <3>3. QED
        BY <1>1, <1>2, <1>13, <2>1, <3>1, <3>2 DEF Doubted, Latest
    <2>4. QED
      BY <2>2, <2>3
  <1>14. ASSUME NEW p \in Pages, ~Shut(p)', NEW e \in rows', e.key = page'[p].modal.key
         PROVE  e.id \in unsure' \/ \E d \in calls' : Live(d) /\ Good(d) /\ d.q.id = e.id
    <2>1. CASE e \in rows
      <3>1. e.id \in unsure \/ \E d \in calls : Live(d) /\ Good(d) /\ d.q.id = e.id
        BY <1>1, <1>2, <1>14, <2>1 DEF Doubted, Shut
      <3>2. \A d \in calls : Good(d) => d \in calls'
        BY <1>2 DEF Good
      <3>3. QED
        BY <1>2, <3>1, <3>2
    <2>2. CASE e \notin rows
      <3>1. e.id = q.id /\ c.kind \in Kinds /\ heard.status = 201
        BY <1>4, <1>5, <2>2
      <3>2. CASE c.step = "unheard"
        BY <1>1, <1>2, <3>1, <3>2 DEF Doubted
      <3>3. CASE c.step = "sent"
        BY <1>2, <1>3, <3>1, <3>3 DEF Live, Good
      <3>4. QED
        BY <1>2, <3>2, <3>3
    <2>3. QED
      BY <2>1, <2>2
  <1>15. Doubted'
    BY <1>12, <1>13, <1>14 DEF Doubted, Live, Good
  <1>16. QED
    BY <1>7, <1>8, <1>9, <1>10, <1>11, <1>15 DEF Turns

-----------------------------------------------------------------------------
(* The shapes of a step: what it makes of one page, of its loads, and of   *)
(* what everybody has charged and reported.                                *)
Loaded ==
    \/ UNCHANGED <<page, loads>>
    \/ \E p \in Pages : StartsToLoad(p) \/ Leaves(p) \/ \E m : KeepsRest(p, m)
    \/ \E l \in loads : GoOn(l)

(* Whatever happens to pages and loads, they stay what they are. *)
LEMMA PagesKept ==
    ASSUME DeskTyped, Loaded
    PROVE  PagesWellTyped'
  <1>1. CASE UNCHANGED <<page, loads>>
    BY <1>1 DEF DeskTyped, PagesWellTyped, PagesTyped, IsPage, LoadsTyped, IsLoad
  <1>2. ASSUME NEW p \in Pages, StartsToLoad(p) \/ Leaves(p) \/ \E m : KeepsRest(p, m)
        PROVE  PagesWellTyped'
    BY <1>2, StartTyped, LeaveTyped, RestTyped
  <1>3. ASSUME NEW l \in loads, GoOn(l)
        PROVE  PagesWellTyped'
    <2>1. page[l.by].error \in BOOLEAN
      BY DEF DeskTyped, LoadsTyped, IsLoad, PagesTyped, IsPage
    <2>2. ASSUME EndsLoad(l, TRUE, page[l.by].rows) PROVE PagesWellTyped'
      BY <2>2, EndTyped
    <2>3. ASSUME EndsLoad(l, page[l.by].error, l.got["payment"] \cup l.got["refund"])
          PROVE  PagesWellTyped'
      BY <2>1, <2>3, EndTyped
    <2>4. ASSUME NEW part \in Kinds \cup {"order"}, NEW value, Got(l, part, value),
                 UNCHANGED page
          PROVE  PagesWellTyped'
      BY <2>4, GotTyped
    <2>5. QED
      BY <1>3, <2>2, <2>3, <2>4, GoOnIs
  <1>4. QED
    BY <1>1, <1>2, <1>3 DEF Loaded

(* A load changes no modal, and no form. *)
LEMMA LoadsStay ==
    ASSUME DeskTyped, NEW l \in loads, GoOn(l)
    PROVE  ModalsStay /\ CallsStay /\ UNCHANGED <<rows, told, unsure, openings>>
  <1>1. ASSUME NEW error, NEW entries, EndsLoad(l, error, entries)
        PROVE  ModalsStay
    BY <1>1 DEF EndsLoad, Shows, ModalsStay
  <1>2. UNCHANGED page => ModalsStay
    BY DEF ModalsStay
  <1>3. ModalsStay
    BY <1>1, <1>2, GoOnIs
  <1>4. QED
    BY <1>3, CallsOfLoads

(* Every step keeps keys and charges apart, and rows that are reported.    *)
LEMMA NextCharges ==
    ASSUME ChargeInv, [Next]_vars
    PROVE  /\ Charges' /\ Loaded /\ rows \subseteq rows' /\ unsure \subseteq unsure'
           /\ openings' \in {openings, openings + 1}
           /\ \/ UNCHANGED told
              \/ \E c \in calls : Succeed(c) /\ UNCHANGED rows
           /\ (UNCHANGED <<page, loads>> \/ UNCHANGED rows)
  <1> DEFINE Goal == /\ Charges' /\ Loaded /\ rows \subseteq rows' /\ unsure \subseteq unsure'
                     /\ openings' \in {openings, openings + 1}
                     /\ \/ UNCHANGED told
                        \/ \E c \in calls : Succeed(c) /\ UNCHANGED rows
                     /\ (UNCHANGED <<page, loads>> \/ UNCHANGED rows)
  <1>1. DeskTyped
    BY DEF ChargeInv
  <1>2. CASE UNCHANGED vars
    <2>1. CallsStay /\ ModalsStay /\ UNCHANGED <<rows, openings, told, unsure, page, loads>>
      BY <1>1, <1>2, FewerStay DEF vars, db, ModalsStay
    <2>2. QED
      BY <2>1, StillKeepsCharges DEF Loaded
  <1>3. ASSUME NEW p \in Pages, Use(p)
        PROVE  Goal
    <2>1. CASE \E kind \in Kinds : OpenModal(p, kind)
      <3>1. PICK kind \in Kinds : OpenModal(p, kind)
        BY <2>1
      <3>2. Loaded
        BY <1>1, <3>1, UseShows DEF Loaded
      <3>3. QED
        BY <3>1, <3>2, OpenKeepsCharges
    <2>2. CASE Load(p) \/ CloseModal(p) \/ Edit(p) \/ CancelEdit(p)
      <3>1. Loaded /\ ModalsStay
        BY <1>1, <2>2, UseShows DEF Loaded, StartsToLoad, KeepsRest, Shows, ModalsStay
      <3>2. CallsStay /\ UNCHANGED <<rows, told, unsure>>
        BY <1>1, <2>2, CallsOfUse
      <3>3. UNCHANGED openings
        BY <2>2 DEF Load, CloseModal, Edit, CancelEdit, bounds
      <3>4. QED
        BY <3>1, <3>2, <3>3, StillKeepsCharges
    <2>3. CASE \/ Delete(p) \/ (\E amount \in Amounts : Submit(p, amount))
               \/ \E total \in NewTotals : SaveEdit(p, total)
      <3>1. Loaded
        BY <1>1, <2>3, UseShows DEF Loaded
      <3>2. QED
        BY <2>3, <3>1, SendKeepsCharges
    <2>4. QED
      BY <1>3, <2>1, <2>2, <2>3 DEF Use
  <1>4. ASSUME NEW l \in loads, GoOn(l)
        PROVE  Goal
    <2>1. ModalsStay /\ CallsStay /\ UNCHANGED <<rows, told, unsure, openings>>
      BY <1>1, <1>4, LoadsStay
    <2>2. QED
      BY <1>4, <2>1, StillKeepsCharges DEF Loaded
  <1>5. ASSUME NEW c \in calls, Answer(c)
        PROVE  Goal
    <2>1. CASE Serve(c)
      BY <2>1, ServeKeepsCharges DEF Loaded
    <2>2. CASE ~Serve(c)
      <3>1. c.by \in Pages
        BY <1>1 DEF DeskTyped, CallsTyped, IsCall
      <3>2. Loaded /\ ModalsStay
        BY <1>1, <1>5, <2>2, <3>1, AnswerShows
           DEF Answer, Loaded, StartsToLoad, Leaves, Shows, ModalsStay
      <3>3. CallsStay /\ UNCHANGED <<rows, openings>> /\ unsure \subseteq unsure'
        BY <1>1, <1>5, <2>2, CallsOfAnswers
      <3>4. UNCHANGED told \/ Succeed(c)
        BY <1>5, <2>2 DEF Answer, LeavePage, Ignore, ShowError, Lose
      <3>5. QED
        BY <3>2, <3>3, <3>4, StillKeepsCharges
    <2>3. QED
      BY <2>1, <2>2
  <1>6. QED
    BY <1>2, <1>3, <1>4, <1>5 DEF Next

(* A page that is left, or whose form is open, has no modal. *)
LEMMA NoModalStays ==
    ASSUME DeskTyped, NoModal, [Next]_vars
    PROVE  NoModal'
  <1> USE DEF NoModal, Shut
  <1>1. DOMAIN page = Pages /\ \A p \in Pages : DOMAIN page[p] = PageFields
    BY DEF DeskTyped, PagesTyped, IsPage
  <1>2. UNCHANGED page => NoModal'
    OBVIOUS
  <1>3. ASSUME NEW p \in Pages, Use(p)
        PROVE  NoModal'
    <2>1. CASE Load(p)
      <3>1. page'[p].modal = Closed /\ \A q \in Pages \ {p} : page'[q] = page[q]
        BY <1>1, <2>1, LoadingShown DEF Load
      <3>2. QED
        BY <3>1
    <2>2. CASE CloseModal(p) \/ Edit(p) \/ CancelEdit(p)
      BY <1>1, <2>2 DEF CloseModal, Edit, CancelEdit, PageFields
    <2>3. CASE \E kind \in Kinds : OpenModal(p, kind)
      BY <1>1, <2>3 DEF OpenModal, Detail, PageFields
    <2>4. CASE UNCHANGED page
      BY <1>2, <2>4
    <2>5. QED
      BY <1>3, <2>1, <2>2, <2>3, <2>4 DEF Use, Delete, Submit, SaveEdit
  <1>4. ASSUME NEW l \in loads, GoOn(l)
        PROVE  NoModal'
    <2>1. l.by \in Pages
      BY DEF DeskTyped, LoadsTyped, IsLoad
    <2>2. CASE UNCHANGED page
      BY <1>2, <2>2
    <2>3. CASE Rejected(l)
      BY <1>1, <2>1, <2>3 DEF Rejected, PageFields
    <2>4. CASE EndLoad(l)
      BY <1>1, <2>1, <2>4 DEF EndLoad, PageFields
    <2>5. QED
      BY <1>4, <2>2, <2>3, <2>4 DEF GoOn, ReadOrder, ReadRows, LoadFails
  <1>5. ASSUME NEW c \in calls, Answer(c)
        PROVE  NoModal'
    <2>1. c.by \in Pages
      BY DEF DeskTyped, CallsTyped, IsCall
    <2>2. CASE Succeed(c) \/ LeavePage(c)
      <3>1. page'[c.by].modal = Closed /\ \A q \in Pages \ {c.by} : page'[q] = page[q]
        BY <2>1, <2>2, AnswerShows DEF StartsToLoad, Leaves, Shows
      <3>2. QED
        BY <3>1
    <2>3. CASE UNCHANGED page
      BY <1>2, <2>3
    <2>4. QED
      BY <1>5, <2>2, <2>3 DEF Answer, Serve, Ignore, ShowError, Lose
  <1>6. QED
    BY <1>2, <1>3, <1>4, <1>5 DEF Next, vars

(* A form that is submitted is the last one. *)
LEMMA SentForms ==
    ASSUME NEW p \in Pages, NEW kind, NEW key, NEW op, NEW amount,
           Sent(p, kind, key, Ask(op, amount, key))
    PROVE  \E c : /\ calls' = calls \cup {c} /\ sends' = sends + 1 /\ IsCall(c)
                  /\ c.step = "sent" /\ c.q.id[2] = sends + 1
                  /\ c.by = p /\ c.kind = kind /\ c.key = key
                  /\ c.q = Ask(op, amount, key) /\ c.attached
  <1> DEFINE q == Ask(op, amount, key)
             c == [by |-> p, kind |-> kind, key |-> key, q |-> q,
                   step |-> "sent", status |-> 0, attached |-> TRUE]
  <1>1. calls' = calls \cup {c} /\ sends' = sends + 1
    BY DEF Sent
  <1>2. q.id[2] = sends + 1
    BY DEF Ask
  <1> HIDE DEF q
  <1>3. /\ DOMAIN c = {"by", "kind", "key", "q", "step", "status", "attached"}
        /\ c.by = p /\ c.kind = kind /\ c.key = key /\ c.q = q /\ c.step = "sent"
        /\ c.attached
    OBVIOUS
  <1> HIDE DEF c
  <1>4. IsCall(c)
    BY <1>3 DEF IsCall
  <1>5. QED
    BY <1>1, <1>2, <1>3, <1>4 DEF q

(* Every step leaves the submissions of an opening in turn.                *)
LEMMA NextTurns ==
    ASSUME ChargeInv, [Next]_vars
    PROVE  Turns'
  <1>1. DeskTyped /\ Turns /\ NoModal /\ Awaited /\ OneKind
    BY DEF ChargeInv, Turns
  <1>2. NoModal'
    BY <1>1, NoModalStays
  <1>3. \A d \in calls : IsCall(d) /\ Asks(d)
    BY <1>1 DEF DeskTyped, CallsTyped
  <1>4. ASSUME ModalsStay, UNCHANGED <<rows, sends, unsure, calls>>
        PROVE  Turns'
    BY <1>2, <1>4, FewerKeepTurns
  <1>5. CASE UNCHANGED vars
    BY <1>4, <1>5 DEF vars, db, ModalsStay
  <1>6. ASSUME NEW p \in Pages, Use(p)
        PROVE  Turns'
    <2>1. CASE Load(p) \/ CloseModal(p)
      <3>1. ModalsStay
        BY <1>1, <2>1, UseShows DEF StartsToLoad, KeepsRest, Shows, ModalsStay
      <3>2. QED
        BY <1>4, <2>1, <3>1 DEF Load, CloseModal, db, bounds
    <2>2. CASE Edit(p) \/ CancelEdit(p)
      <3>1. ModalsStay /\ page'[p].modal = page[p].modal
        BY <1>1, <2>2, UseShows DEF KeepsRest, Shows, ModalsStay
      <3>2. Shut(p)'
        BY <1>1, <2>2, <3>1 DEF Edit, CancelEdit, NoModal, Shut
      <3>3. calls' = Detached(calls, p) /\ UNCHANGED <<rows, sends, unsure>>
        BY <2>2 DEF Edit, CancelEdit, db, bounds
      <3>4. QED
        BY <1>2, <3>1, <3>2, <3>3, DetachKeepsTurns
    <2>3. CASE \E kind \in Kinds : OpenModal(p, kind)
      BY <1>2, <2>3, OpenKeepsTurns
    <2>5. ASSUME NEW amount \in Amounts, Submit(p, amount)
          PROVE  Turns'
      <3>1. PICK kind \in Kinds, key \in 1 .. openings :
                page[p].modal = [kind |-> kind, key |-> key]
        BY <1>1, <2>5 DEF Submit, DeskTyped, ModalsTyped, ModalOf
      <3>2. Sent(p, kind, key, Ask(kind, amount, key)) /\ ~Busy(p, kind)
        BY <2>5, <3>1 DEF Submit
      <3>3. PICK c : /\ calls' = calls \cup {c} /\ sends' = sends + 1 /\ IsCall(c)
                     /\ c.step = "sent" /\ c.q.id[2] = sends + 1
                     /\ c.by = p /\ c.kind = kind /\ c.key = key
                     /\ c.q = Ask(kind, amount, key) /\ c.attached
        BY <3>2, SentForms
      <3>4. Asks(c)
        BY <1>1, <3>3 DEF Asks, Ask, DeskTyped, ToldTyped
      <3>5. ~Shut(p) /\ page[p].modal.key = key
        BY <2>5, <3>1 DEF Submit, Shut
      <3>6. ASSUME NEW d \in calls, Live(d), d.key = key
            PROVE  FALSE
        <4>1. d.by = p /\ d.attached
          BY <1>1, <3>5, <3>6 DEF Awaited
        <4>2. Bears(key, d.kind) /\ Bears(key, kind) /\ d.kind \in Kinds
          BY <3>1, <3>6 DEF Bears, Live
        <4>3. d.kind = kind
          BY <1>1, <4>2 DEF OneKind, Kinds
        <4>4. QED
          BY <3>2, <4>1, <4>3 DEF Busy
      <3>7. UNCHANGED <<page, rows, unsure>>
        BY <2>5 DEF Submit, db
      <3>8. QED
        BY <3>3, <3>4, <3>5, <3>6, <3>7, SendKeepsTurns
    <2>6. ASSUME NEW kind \in {"edit", "delete"}, NEW op \in {"lines", "rename", "delete"},
                 NEW amount, Sent(p, kind, 0, Ask(op, amount, 0)), UNCHANGED <<page, rows, unsure>>
          PROVE  Turns'
      <3>1. PICK c : /\ calls' = calls \cup {c} /\ sends' = sends + 1 /\ IsCall(c)
                     /\ c.step = "sent" /\ c.q.id[2] = sends + 1
                     /\ c.kind = kind /\ c.key = 0 /\ c.q = Ask(op, amount, 0)
        BY <2>6, SentForms
      <3>2. Asks(c) /\ c.kind \notin Kinds
        BY <3>1 DEF Asks, Ask, Kinds
      <3>3. QED
        BY <2>6, <3>1, <3>2, SendKeepsTurns
    <2>7. CASE Delete(p)
      BY <2>6, <2>7 DEF Delete, db
    <2>8. ASSUME NEW total \in NewTotals, SaveEdit(p, total)
          PROVE  Turns'
      <3>1. UNCHANGED <<page, rows, unsure>>
        BY <2>8 DEF SaveEdit, db
      <3>2. \E op \in {"lines", "rename"} : Sent(p, "edit", 0, Ask(op, total, 0))
        BY <2>8 DEF SaveEdit
      <3>3. QED
        BY <2>6, <3>1, <3>2
    <2>9. QED
      BY <1>6, <2>1, <2>2, <2>3, <2>5, <2>7, <2>8 DEF Use
  <1>7. ASSUME NEW l \in loads, GoOn(l)
        PROVE  Turns'
    <2>1. ModalsStay /\ UNCHANGED <<rows, unsure>>
      BY <1>1, <1>7, LoadsStay
    <2>2. UNCHANGED <<calls, sends>>
      BY <1>7 DEF GoOn, ReadOrder, ReadRows, EndLoad, LoadFails, bounds
    <2>3. QED
      BY <1>4, <2>1, <2>2
  <1>8. ASSUME NEW c \in calls, Answer(c)
        PROVE  Turns'
    <2>1. c.by \in Pages
      BY <1>3 DEF IsCall
    <2>2. CASE Serve(c)
      BY <2>2, ServeKeepsTurns
    <2>3. CASE Succeed(c) \/ LeavePage(c)
      <3>1. ModalsStay /\ Shut(c.by)'
        BY <1>1, <2>1, <2>3, AnswerShows
           DEF StartsToLoad, Leaves, Shows, ModalsStay, Shut
      <3>2. calls' = Detached(calls \ {c}, c.by)
        BY <2>3 DEF Succeed, Reload, LeavePage
      <3>3. UNCHANGED <<rows, sends, unsure>>
        BY <2>3 DEF Succeed, LeavePage, db, bounds
      <3>4. QED
        BY <1>2, <3>1, <3>2, <3>3, DetachKeepsTurns
    <2>4. CASE Ignore(c) \/ ShowError(c)
      <3>1. ModalsStay /\ calls' = calls \ {c} /\ UNCHANGED <<page, rows, sends, unsure>>
        BY <2>4 DEF Ignore, ShowError, ModalsStay, db, bounds
      <3>2. CASE ShowError(c)
        <4>1. Asks(c) /\ ~Good(c)
          BY <1>3, <3>2 DEF ShowError
        <4>2. QED
          BY <1>2, <3>1, <4>1, FewerKeepTurns
      <3>3. CASE Ignore(c)
        <4>1. Shut(c.by)
          BY <1>1, <2>1, <3>3 DEF Ignore, NoModal
        <4>2. \A p \in Pages : ~Shut(p)' /\ Live(c) => page[p].modal.key # c.key
          BY <1>1, <3>1, <4>1 DEF Awaited, Shut
        <4>3. QED
          BY <1>2, <3>1, <4>2, FewerKeepTurns
      <3>4. QED
        BY <2>4, <3>2, <3>3
    <2>5. CASE Lose(c)
      <3>1. /\ ModalsStay /\ UNCHANGED <<page, rows, sends>>
            /\ unsure' = unsure \cup {c.q.id}
        BY <2>5 DEF Lose, ModalsStay, db
      <3>2. CASE calls' = calls \ {c}
        BY <1>2, <3>1, <3>2, FewerKeepTurns
      <3>3. CASE calls' = (calls \ {c}) \cup {[c EXCEPT !.step = "unheard", !.attached = FALSE]}
        <4> DEFINE lost == [c EXCEPT !.step = "unheard", !.attached = FALSE]
                   f == [d \in calls |-> IF d = c THEN lost ELSE d]
        <4>1. /\ lost.by = c.by /\ lost.kind = c.kind /\ lost.key = c.key /\ lost.q = c.q
              /\ lost.step = "unheard"
          BY <1>3 DEF IsCall
        <4> HIDE DEF lost
        <4>2. \A d \in calls : f[d] = IF d = c THEN lost ELSE d
          OBVIOUS
        <4>3. \A d \in calls' : \E x \in calls : d = f[x]
          BY <3>3 DEF lost
        <4> HIDE DEF f
        <4>4. \A d \in calls : d # c => d \in calls'
          BY <3>3
        <4>5. Ages(f)
          BY <3>1, <4>1, <4>2, <4>3, <4>4 DEF Ages
        <4>6. QED
          BY <1>2, <3>1, <4>5, AgeKeepsTurns
      <3>4. QED
        BY <2>5, <3>2, <3>3 DEF Lose
    <2>6. QED
      BY <1>8, <2>2, <2>3, <2>4, <2>5 DEF Answer
  <1>9. QED
    BY <1>5, <1>6, <1>7, <1>8 DEF Next

(* What is reported is recorded, and stays so. *)
LEMMA NextReceipts ==
    ASSUME ChargeInv, [Next]_vars
    PROVE  ChargeInv'
  <1>1. /\ DeskTyped /\ CallsTyped /\ AnswersInv /\ ReceiptIsTrue
        /\ DOMAIN told = Pages /\ openings \in Nat
    BY DEF ChargeInv, DeskTyped, ToldTyped
  <1>2. /\ Charges' /\ Loaded /\ rows \subseteq rows' /\ unsure \subseteq unsure'
        /\ openings' \in {openings, openings + 1}
        /\ UNCHANGED told \/ \E c \in calls : Succeed(c) /\ UNCHANGED rows
    BY NextCharges
  <1>3. openings' \in Nat
    BY <1>1, <1>2
  <1>4. \A q : Recorded(q) => Recorded(q)'
    BY <1>2 DEF Recorded
  <1>5. ToldTyped' /\ \A p \in Pages : \A q \in told'[p] : Recorded(q)
    <2>1. \A p \in Pages : \A q \in told[p] : Recorded(q)
      BY <1>1 DEF ReceiptIsTrue, Recorded
    <2>2. CASE UNCHANGED told
      BY <1>1, <1>3, <2>1, <2>2 DEF ToldTyped
    <2>3. ASSUME NEW c \in calls, Succeed(c)
          PROVE  ToldTyped' /\ \A p \in Pages : \A q \in told'[p] : Recorded(q)
      <3>1. told' = [told EXCEPT ![c.by] = @ \cup Receipt(c)] /\ Good(c)
        BY <2>3 DEF Succeed
      <3>2. Asks(c)
        BY <1>1 DEF CallsTyped
      <3>3. \A q \in Receipt(c) : Recorded(q)
        BY <1>1, <3>1, <3>2 DEF Receipt, Asks, AnswersInv
      <3>4. \A p \in Pages : \A q \in told'[p] : q \in told[p] \/ q \in Receipt(c)
        BY <1>1, <3>1
      <3>5. QED
        BY <1>1, <1>3, <2>1, <3>1, <3>3, <3>4 DEF ToldTyped
    <2>4. QED
      BY <1>2, <2>2, <2>3
  <1>6. ReceiptIsTrue'
    BY <1>4, <1>5 DEF ReceiptIsTrue, Recorded
  <1>7. PagesWellTyped'
    BY <1>1, <1>2, PagesKept
  <1>8. Turns'
    BY NextTurns
  <1>9. QED
    BY <1>2, <1>5, <1>6, <1>7, <1>8 DEF ChargeInv, DeskTyped, Charges, PagesWellTyped

(* At the start there is at most the row of what was paid before. *)
LEMMA InitCharges ==
    ASSUME Init
    PROVE  ChargeInv
  <1>1. page = [p \in Pages |-> Fresh] /\ loads = {} /\ calls = {} /\ openings = 0
        /\ told = [p \in Pages |-> {}]
    BY DEF Init
  <1>2. /\ Fresh.view = "off" /\ Fresh.begun = 0 /\ Fresh.shown = 0 /\ Fresh.modal = Closed
        /\ DOMAIN Fresh = PageFields
    BY DEF Fresh, PageFields
  <1>3. Fresh.loading \in BOOLEAN /\ Fresh.error \in BOOLEAN
    BY DEF Fresh
  <1>4. IsPage(Fresh)
    BY <1>2, <1>3 DEF IsPage
  <1>5. \E paid \in Paid :
            rows = IF paid = 0 THEN {}
                   ELSE {[kind |-> "payment", id |-> <<0, 0>>, user |-> Owner, order |-> Order,
                          amount |-> paid, key |-> NoKey]}
    BY DEF Init
  <1>6. /\ \A e \in rows : e.kind = "payment" /\ e.user = Owner /\ e.order = Order
        /\ \A e \in rows : e.key = NoKey /\ e.id[1] = 0 /\ e.id[2] = 0
        /\ \A e, f \in rows : e = f
    BY <1>5
  <1>7. RowsTyped /\ NoDoubleCharge
    BY <1>6 DEF RowsTyped, RowOf, Kinds, NoDoubleCharge
  <1>8. PagesTyped /\ ModalsTyped
    BY <1>1, <1>2, <1>4 DEF PagesTyped, ModalsTyped, ModalOf
  <1>9. LoadsTyped /\ CallsTyped /\ ToldTyped /\ AnswersInv /\ ReceiptIsTrue /\ OneKind
    BY <1>1 DEF LoadsTyped, CallsTyped, ToldTyped, AnswersInv, ReceiptIsTrue, OneKind
  <1>10. Turns
    <2>1. \A p \in Pages : Shut(p)
      BY <1>1, <1>2 DEF Shut
    <2>2. Counted
      BY <1>1, <1>6 DEF Counted, Init
    <2>3. QED
      BY <1>1, <2>1, <2>2 DEF Turns, Alone, Latest, Awaited, ModalsApart, NoModal, Doubted
  <1>11. QED
    BY <1>7, <1>8, <1>9, <1>10 DEF ChargeInv, DeskTyped

(* The invariant of charges and receipts holds throughout. *)
LEMMA Charged == Spec => []ChargeInv
  <1>1. Init => ChargeInv
    BY InitCharges
  <1>2. ChargeInv /\ [Next]_vars => ChargeInv'
    BY NextReceipts
  <1>3. QED
    BY <1>1, <1>2, PTL DEF Spec

(* An opening of a modal records one payment or refund at most, however    *)
(* often it is submitted, whatever is lost or late, and on however many    *)
(* pages.                                                                  *)
THEOREM RetriesDoNotCharge == Spec => []NoDoubleCharge
  BY Charged, PTL DEF ChargeInv

(* What a page has reported as recorded is recorded, with the amount that  *)
(* was asked for: the submissions of an opening come one after the other,  *)
(* and what an earlier one of them has recorded by the time of a later one *)
(* is due to a loss, which is when the amounts may differ.                 *)
THEOREM ReceiptsAreTrue == Spec => []ReceiptIsTrue
  BY Charged, PTL DEF ChargeInv

-----------------------------------------------------------------------------
(* No row that a page has reported is new: it was recorded before that.    *)
LEMMA ReportedIsOld ==
    ASSUME ChargeInv, ChargeInv', rows \subseteq rows',
           NEW p \in Pages, NEW e \in rows', Reported(p, e)
    PROVE  e \in rows
  <1>1. PICK f \in rows : f.id[1] = e.id[1]
    BY DEF ChargeInv, ReceiptIsTrue, Reported
  <1>2. QED
    BY <1>1 DEF ChargeInv, NoDoubleCharge

(* Pages and loads see nothing of what is recorded meanwhile.              *)
LEMMA AsideShown ==
    ASSUME ChargeInv, ChargeInv', ShownInv, rows \subseteq rows', UNCHANGED <<page, loads, told>>
    PROVE  ShownInv'
  <1>1. \A p \in Pages : \A e \in rows' : Reported(p, e) => e \in rows
    BY ReportedIsOld
  <1>2. \A l \in loads : l.by \in Pages
    BY DEF ChargeInv, DeskTyped, LoadsTyped, IsLoad
  <1>3. \A l \in loads' : Sound(l)'
    BY <1>1, <1>2 DEF ShownInv, Sound, HasSeen, Reported
  <1>4. Numbered' /\ \A p \in Pages : Rests(p)' /\ ShowsOwn(p)'
    BY <1>1 DEF ShownInv, Numbered, Rests, ShowsOwn, Reported
  <1>5. QED
    BY <1>3, <1>4 DEF ShownInv

(* A load that begins is the last one, and has seen nothing yet. *)
LEMMA StartShown ==
    ASSUME ChargeInv, ShownInv, NEW p \in Pages, StartsToLoad(p), UNCHANGED rows,
           \A other \in Pages \ {p} : told'[other] = told[other]
    PROVE  ShownInv'
  <1>1. /\ page[p].begun \in Nat
        /\ \A l \in loads : IsLoad(l)
    BY DEF ChargeInv, DeskTyped, LoadsTyped, PagesTyped, IsPage
  <1>2. PICK k \in Nat : k = Number(p) /\ \A l \in loads : l.by = p => l.n < k
    <2>1. Number(p) \in Nat
      BY <1>1 DEF Number
    <2>2. \A l \in loads : l.by = p => l.n < Number(p)
      BY <1>1 DEF Number, ShownInv, Sound, IsLoad
    <2>3. QED
      BY <2>1, <2>2
  <1>3. PICK new : /\ loads' = loads \cup {new} /\ new.by = p /\ new.n = k
                   /\ \A kind \in Kinds : new.got[kind] = None
    <2>1. /\ NewLoad(p).by = p /\ NewLoad(p).n = k
          /\ \A kind \in Kinds : NewLoad(p).got[kind] = None
      BY <1>2 DEF NewLoad
    <2>2. loads' = loads \cup {NewLoad(p)}
      BY DEF StartsToLoad
    <2>3. QED
      BY <2>1, <2>2
  <1>4. /\ page'[p].view = "on" /\ page'[p].loading /\ page'[p].begun = k
        /\ \A other \in Pages \ {p} : page'[other] = page[other]
    BY <1>2 DEF StartsToLoad, Shows
  <1>5. \A l \in loads' : Sound(l)'
    <2>1. ASSUME NEW l \in loads, l.by # p
          PROVE  Sound(l)'
      BY <1>1, <1>4, <2>1 DEF ShownInv, Sound, HasSeen, Reported, IsLoad
    <2>2. ASSUME NEW l \in loads, l.by = p
          PROVE  Sound(l)'
      BY <1>1, <1>2, <1>4, <2>2 DEF Sound, HasSeen, Reported, IsLoad
    <2>3. Sound(new)'
      BY <1>3, <1>4 DEF Sound, HasSeen, Reported
    <2>4. QED
      BY <1>3, <2>1, <2>2, <2>3
  <1>6. Numbered'
    BY <1>1, <1>2, <1>3 DEF ShownInv, Numbered
  <1>7. ASSUME NEW q \in Pages
        PROVE  Rests(q)' /\ ShowsOwn(q)'
    <2>1. CASE q = p
      BY <1>4, <2>1 DEF Rests, ShowsOwn, Reported
    <2>2. CASE q # p
      BY <1>3, <1>4, <2>2 DEF ShownInv, Rests, ShowsOwn, Reported
    <2>3. QED
      BY <2>1, <2>2
  <1>8. QED
    BY <1>5, <1>6, <1>7 DEF ShownInv

(* A load that ends well and is the last one shows all that was reported.  *)
LEMMA EndShown ==
    ASSUME ChargeInv, ShownInv, NEW l \in loads, UNCHANGED <<rows, told>>,
           NEW error, NEW entries, EndsLoad(l, error, entries),
           ~error => /\ entries = l.got["payment"] \cup l.got["refund"]
                     /\ \A part \in DOMAIN l.got : l.got[part] # None
    PROVE  ShownInv'
  <1>1. /\ \A m \in loads : IsLoad(m)
        /\ l.by \in Pages /\ DOMAIN l.got = Kinds \cup {"order"}
        /\ \A e \in rows : e.kind \in Kinds
    BY DEF ChargeInv, DeskTyped, LoadsTyped, IsLoad, RowsTyped, RowOf
  <1>2. PICK p \in Pages : p = l.by
    BY <1>1
  <1>3. /\ loads' = loads \ {l}
        /\ page'[p].view = page[p].view /\ page'[p].begun = page[p].begun
        /\ page'[p].error = error /\ page'[p].rows = entries /\ page'[p].shown = l.n
        /\ \A other \in Pages \ {p} : page'[other] = page[other]
    BY <1>2 DEF EndsLoad, Shows
  <1>4. \A m \in loads' : Sound(m)'
    <2> SUFFICES ASSUME NEW m \in loads, m \in loads' PROVE Sound(m)'
      BY <1>3
    <2>1. Sound(m) /\ m.by \in Pages
      BY <1>1 DEF ShownInv, IsLoad
    <2>2. page'[m.by].view = page[m.by].view /\ page'[m.by].begun = page[m.by].begun
      BY <1>3, <2>1
    <2>3. QED
      BY <2>1, <2>2 DEF Sound, HasSeen, Reported
  <1>5. Numbered'
    BY <1>3 DEF ShownInv, Numbered
  <1>6. ASSUME NEW q \in Pages, q # p
        PROVE  Rests(q)' /\ ShowsOwn(q)'
    BY <1>3, <1>6 DEF ShownInv, Rests, ShowsOwn, Reported
  <1>7. Rests(p)'
    BY <1>2, <1>3 DEF ShownInv, Numbered, Rests
  <1>8. ShowsOwn(p)'
    <2> SUFFICES ASSUME ~error, l.n = page[p].begun, NEW e \in rows, Reported(p, e)
                 PROVE  e.id \in entries
      BY <1>3 DEF ShowsOwn, Reported
    <2>1. HasSeen(l) /\ e.kind \in Kinds
      BY <1>1 DEF ShownInv, Sound
    <2>2. e.id \in l.got[e.kind]
      BY <1>1, <1>2, <2>1 DEF HasSeen, Reported
    <2>3. QED
      BY <2>1, <2>2 DEF Kinds
  <1>9. QED
    BY <1>4, <1>5, <1>6, <1>7, <1>8 DEF ShownInv

(* A load that is answered in part has seen what is recorded by then.      *)
LEMMA GotShown ==
    ASSUME ChargeInv, ShownInv, NEW l \in loads, UNCHANGED <<page, rows, told>>,
           NEW part \in Kinds \cup {"order"}, NEW value, Got(l, part, value),
           part \in Kinds =>
               value = {e.id : e \in {e \in rows : e.kind = part /\ e.order = Order}}
    PROVE  ShownInv'
  <1>1. /\ \A m \in loads : IsLoad(m)
        /\ \A e \in rows : e.kind \in Kinds /\ e.order = Order
        /\ DOMAIN l = {"by", "n", "got"} /\ DOMAIN l.got = Kinds \cup {"order"}
    BY DEF ChargeInv, DeskTyped, LoadsTyped, IsLoad, RowsTyped, RowOf
  <1>2. PICK new : /\ loads' = (loads \ {l}) \cup {new}
                   /\ new.by = l.by /\ new.n = l.n
                   /\ \A kind \in Kinds :
                          new.got[kind] = IF kind = part THEN value ELSE l.got[kind]
    <2> DEFINE new == [l EXCEPT !.got[part] = value]
    <2>1. /\ new.by = l.by /\ new.n = l.n
          /\ \A kind \in Kinds : new.got[kind] = IF kind = part THEN value ELSE l.got[kind]
      BY <1>1
    <2>2. loads' = (loads \ {l}) \cup {new}
      BY DEF Got
    <2>3. QED
      BY <2>1, <2>2
  <1>3. Sound(new)'
    <2>1. Sound(l)
      BY DEF ShownInv
    <2>2. \A e \in rows : part \in Kinds /\ e.kind = part => e.id \in value
      BY <1>1
    <2>3. QED
      BY <1>2, <2>1, <2>2 DEF Sound, HasSeen, Reported
  <1>4. \A m \in loads : Sound(m)'
    BY DEF ShownInv, Sound, HasSeen, Reported
  <1>5. Numbered'
    BY <1>2 DEF ShownInv, Numbered
  <1>6. \A p \in Pages : Rests(p)' /\ ShowsOwn(p)'
    BY <1>2 DEF ShownInv, Rests, ShowsOwn, Reported
  <1>7. QED
    BY <1>2, <1>3, <1>4, <1>5, <1>6 DEF ShownInv

(* Modals and the form open and close over what is shown. *)
LEMMA RestShown ==
    ASSUME ChargeInv, ShownInv, NEW p \in Pages, NEW modal, KeepsRest(p, modal),
           UNCHANGED <<rows, told>>
    PROVE  ShownInv'
  <1>1. \A l \in loads : l.by \in Pages
    BY DEF ChargeInv, DeskTyped, LoadsTyped, IsLoad
  <1>2. \A q \in Pages : /\ page'[q].view = page[q].view /\ page'[q].begun = page[q].begun
                         /\ page'[q].loading = page[q].loading
                         /\ page'[q].error = page[q].error
                         /\ page'[q].rows = page[q].rows
                         /\ page'[q].shown = page[q].shown
    BY DEF KeepsRest, Shows
  <1>3. UNCHANGED loads
    BY DEF KeepsRest
  <1>4. \A l \in loads' : Sound(l)'
    BY <1>1, <1>2, <1>3 DEF ShownInv, Sound, HasSeen, Reported
  <1>5. Numbered' /\ \A q \in Pages : Rests(q)' /\ ShowsOwn(q)'
    BY <1>2, <1>3 DEF ShownInv, Numbered, Rests, ShowsOwn, Reported
  <1>6. QED
    BY <1>4, <1>5 DEF ShownInv

(* Nothing is shown at a page that was left. *)
LEMMA LeaveShown ==
    ASSUME ChargeInv, ShownInv, NEW p \in Pages, Leaves(p), UNCHANGED <<rows, told>>
    PROVE  ShownInv'
  <1>1. \A l \in loads : l.by \in Pages
    BY DEF ChargeInv, DeskTyped, LoadsTyped, IsLoad
  <1>2. /\ page'[p].view = "away" /\ loads' = {l \in loads : l.by # p}
        /\ \A other \in Pages \ {p} : page'[other] = page[other]
    BY DEF Leaves, Shows
  <1>3. \A l \in loads' : Sound(l)'
    BY <1>1, <1>2 DEF ShownInv, Sound, HasSeen, Reported
  <1>4. Numbered'
    BY <1>2 DEF ShownInv, Numbered
  <1>5. ASSUME NEW q \in Pages
        PROVE  Rests(q)' /\ ShowsOwn(q)'
    <2>1. CASE q = p
      BY <1>2, <2>1 DEF Rests, ShowsOwn, Reported
    <2>2. CASE q # p
      BY <1>2, <2>2 DEF ShownInv, Rests, ShowsOwn, Reported
    <2>3. QED
      BY <2>1, <2>2
  <1>6. QED
    BY <1>3, <1>4, <1>5 DEF ShownInv

(* Every step keeps what pages and loads have seen. *)
LEMMA NextShown ==
    ASSUME ChargeInv, ShownInv, [Next]_vars
    PROVE  ShownInv'
  <1>1. /\ ChargeInv' /\ Loaded /\ rows \subseteq rows'
        /\ UNCHANGED told \/ \E c \in calls : Succeed(c) /\ UNCHANGED rows
        /\ UNCHANGED <<page, loads>> \/ UNCHANGED rows
        /\ DeskTyped
    BY NextCharges, NextReceipts DEF ChargeInv
  <1>2. ASSUME NEW c \in calls, Succeed(c), UNCHANGED rows
        PROVE  ShownInv'
    <2>1. c.by \in Pages
      BY <1>1 DEF DeskTyped, CallsTyped, IsCall
    <2>2. StartsToLoad(c.by)
      BY <1>1, <1>2, AnswerShows
    <2>3. \A other \in Pages \ {c.by} : told'[other] = told[other]
      BY <1>1, <1>2, <2>1 DEF Succeed, DeskTyped, ToldTyped
    <2>4. QED
      BY <1>2, <2>1, <2>2, <2>3, StartShown
  <1>3. CASE UNCHANGED told /\ UNCHANGED <<page, loads>>
    BY <1>1, <1>3, AsideShown
  <1>4. CASE UNCHANGED told /\ UNCHANGED rows
    <2>1. ASSUME NEW p \in Pages, StartsToLoad(p)
          PROVE  ShownInv'
      BY <1>4, <2>1, StartShown
    <2>2. ASSUME NEW p \in Pages, Leaves(p) \/ \E m : KeepsRest(p, m)
          PROVE  ShownInv'
      BY <1>4, <2>2, LeaveShown, RestShown
    <2>3. ASSUME NEW l \in loads, GoOn(l)
          PROVE  ShownInv'
      <3>1. ASSUME EndsLoad(l, TRUE, page[l.by].rows) PROVE ShownInv'
        BY <1>4, <3>1, EndShown
      <3>2. ASSUME EndsLoad(l, page[l.by].error, l.got["payment"] \cup l.got["refund"]),
                   \A part \in DOMAIN l.got : l.got[part] # None
            PROVE  ShownInv'
        BY <1>4, <3>2, EndShown
      <3>3. ASSUME UNCHANGED page, NEW value, Got(l, "order", value)
            PROVE  ShownInv'
        <4>1. "order" \notin Kinds
          BY DEF Kinds
        <4>2. QED
          BY <1>4, <3>3, <4>1, GotShown
      <3>4. ASSUME UNCHANGED page, NEW kind \in Kinds,
                   Got(l, kind, {e.id : e \in {e \in rows : e.kind = kind /\ e.order = Order}})
            PROVE  ShownInv'
        BY <1>4, <3>4, GotShown
      <3>5. QED
        BY <1>1, <2>3, <3>1, <3>2, <3>3, <3>4, GoOnIs
    <2>4. CASE UNCHANGED <<page, loads>>
      BY <1>3, <1>4, <2>4
    <2>5. QED
      BY <1>1, <2>1, <2>2, <2>3, <2>4 DEF Loaded
  <1>5. QED
    BY <1>1, <1>2, <1>3, <1>4

(* A page that has come to rest shows every payment and refund that it has *)
(* reported, however its loads overlap and whatever is recorded meanwhile, *)
(* unless an earlier load of its own was the last to end.                  *)
THEOREM PagesShowTheirOwn == Spec => []OwnRowsShown
  <1>1. Init => ShownInv
    <2> SUFFICES ASSUME Init PROVE ShownInv
      OBVIOUS
    <2>1. loads = {} /\ \A p \in Pages : page[p].view = "off"
      BY DEF Init, Fresh
    <2>2. QED
      BY <2>1 DEF ShownInv, Numbered, Rests, ShowsOwn, Reported
  <1>2. ChargeInv /\ ShownInv /\ [Next]_vars => ShownInv'
    BY NextShown
  <1>3. ShownInv => OwnRowsShown
    BY DEF ShownInv, ShowsOwn, Reported, OwnRowsShown
  <1>4. QED
    BY <1>1, <1>2, <1>3, Charged, PTL DEF Spec

=============================================================================
