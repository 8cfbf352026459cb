----------------------------- MODULE OrderViews -----------------------------
(***************************************************************************)
(* orders-service: list, summary and export; web: the dashboard that shows *)
(* a page of the list, and the download that stitches an export together.  *)
(* A list or a chunk is two queries, one for the rows and one for their    *)
(* number, and between any two of them the orders may change.              *)
(*                                                                         *)
(* An order's id says when it was created.                                 *)
(***************************************************************************)
EXTENDS OrderApi, Sequences, SequencesExt

CONSTANTS
    Filters,        \* values of the status filter, All among them
    Sorts,          \* the sort orders in use
    Limits,         \* page sizes
    CHUNK, ROWS_MAX,    \* EXPORT_CHUNK_LIMIT and EXPORT_ABSOLUTE_MAX_ROWS
    Hours,          \* the time that passes between two queries
    MaxOrders, MaxChanges, MaxUses, MaxFaults   \* bounds

All == "all"

ASSUME ViewsAssumption ==
    /\ All \in Filters /\ Limits # {} /\ Limits \subseteq Nat \ {0}
    /\ CHUNK \in Nat \ {0} /\ ROWS_MAX \in Nat /\ Hours \subseteq Nat

VARIABLES
    dash,       \* what DashboardContent holds
    loads,      \* its calls of `load` under way
    export,     \* the export under way
    moved,      \* has an order changed since the latest load began; has one left
                \* the export, or come into the midst of it
    changes, uses, faults

vars == <<db, dash, loads, export, moved, changes, uses, faults>>

Owner == "owner"
Least(a, b) == IF a < b THEN a ELSE b

-----------------------------------------------------------------------------
(* SORT_COLUMNS, some of them. *)
Rank(sort, o) ==
    CASE sort = "createdAt_asc" -> o.id
      [] sort = "createdAt_desc" -> -o.id
      [] sort = "due_desc" -> o.paid - o.total

(* buildOrderListFilter *)
Matching(filter) ==
    {i \in DOMAIN orders :
        orders[i].owner = Owner /\ (filter = All \/ StatusSql(orders[i]) = filter)}

(* ORDER BY has no tiebreaker: every query breaks ties as it likes. *)
Sorted(q) ==
    {s \in SetToSeqs(Matching(q.filter)) :
        \A i, j \in DOMAIN s : i < j => Rank(q.sort, orders[s[i]]) <= Rank(q.sort, orders[s[j]])}

(* queryOrdersPage, its first query. *)
Pages(q, limit, offset) ==
    {SubSeq(s, offset + 1, Least(offset + limit, Len(s))) : s \in Sorted(q)}

Sum(f) == SumFunctionOnSet(f, Matching(All))

(* getSummaryForUser: one query. *)
Summary ==
    [outstanding |-> Sum([i \in DOMAIN orders |-> orders[i].total - orders[i].paid]),
     collected |-> Sum([i \in DOMAIN orders |-> orders[i].paid]),
     overdue |-> Cardinality(Matching("overdue")), pending |-> Cardinality(Matching("pending"))]

Rendered(s) == [i \in DOMAIN s |-> serializeOrder(200, orders[s[i]])]

-----------------------------------------------------------------------------
NoExport == [step |-> "none"]

First ==
    [filter |-> All, sort |-> "createdAt_desc", page |-> 1,
     limit |-> CHOOSE n \in Limits : TRUE]

Loading(n, params) ==
    [n |-> n, params |-> params, list |-> None, total |-> None, cards |-> None]

(* The dashboard has just been mounted; one order is paid in part. *)
Init ==
    /\ users = {Owner, "other"}
    /\ rows = {[kind |-> "payment", id |-> 0, user |-> Owner, order |-> 1, amount |-> 1,
                key |-> NoKey]}
    /\ orders = [i \in {1, 2, 3} |->
                    [id |-> i, owner |-> IF i = 2 THEN "other" ELSE Owner, total |-> 2,
                     paid |-> IF i = 1 THEN 1 ELSE 0, dueIn |-> 24 * i, customer |-> "customer"]]
    /\ dash = [params |-> First, loading |-> TRUE, error |-> FALSE, list |-> None,
               of |-> None, total |-> 0, cards |-> None, begun |-> 1, shown |-> 0]
    /\ loads = {Loading(1, First)} /\ export = NoExport
    /\ moved = [dash |-> FALSE, export |-> FALSE]
    /\ changes = 0 /\ uses = 0 /\ faults = 0

Fault == faults < MaxFaults /\ faults' = faults + 1
Used == uses < MaxUses /\ uses' = uses + 1

-----------------------------------------------------------------------------
(* The dashboard: every change of a parameter is a new call of load; those *)
(* under way go on, and each of them that ends is shown.                   *)
Number == IF loads = {} THEN 1 ELSE dash.begun + 1

(* Faulty variant: load closes over the parameters of the last render. *)
Begin_Closure(params) ==
    /\ dash' = [dash EXCEPT !.params = params, !.loading = TRUE, !.error = FALSE,
                            !.begun = Number]
    /\ loads' = loads \cup {Loading(Number, dash.params)}
    /\ moved' = [moved EXCEPT !.dash = FALSE]
    /\ UNCHANGED <<db, export, changes, faults>>

Begin(params) ==
    /\ dash' = [dash EXCEPT !.params = params, !.loading = TRUE, !.error = FALSE,
                            !.begun = Number]
    /\ loads' = loads \cup {Loading(Number, params)}
    /\ moved' = [moved EXCEPT !.dash = FALSE]
    /\ UNCHANGED <<db, export, changes, faults>>

Table == ~dash.loading /\ ~dash.error /\ dash.list # None /\ dash.total > 0

(* What handleStatusChange, handleSortChange and handleLimitChange set,    *)
(* back on the first page; only the status can be set without a table.     *)
Chosen ==
    LET p == [dash.params EXCEPT !.page = 1]
    IN  {[p EXCEPT !.filter = f] : f \in Filters}
        \cup IF ~Table THEN {}
             ELSE {[p EXCEPT !.sort = s] : s \in Sorts} \cup {[p EXCEPT !.limit = n] : n \in Limits}

(* OrdersPagination: Previous and Next, by the page that is shown. *)
Turned ==
    {[dash.params EXCEPT !.page = n] : n \in {m \in {dash.of.page - 1, dash.of.page + 1} :
        m >= 1 /\ (m > dash.of.page => dash.of.page * dash.of.limit < dash.total)}}

UseDashboard ==
    /\ Used
    /\ \/ \E new \in Chosen : new # dash.params /\ Begin(new)
       \/ Table /\ \E new \in Turned : new # dash.params /\ Begin(new)
       \/ ~dash.loading /\ dash.error /\ Begin(dash.params)

Got(l, new) ==
    /\ loads' = (loads \ {l}) \cup {new}
    /\ UNCHANGED <<db, dash, export, moved, changes, uses, faults>>

ReadPage(l) ==
    /\ l.list = None
    /\ \E s \in Pages(l.params, l.params.limit, (l.params.page - 1) * l.params.limit) :
          Got(l, [l EXCEPT !.list = Rendered(s)])

ReadCount(l) ==
    /\ l.list # None /\ l.total = None
    /\ Got(l, [l EXCEPT !.total = Cardinality(Matching(l.params.filter))])

ReadSummary(l) ==
    /\ l.cards = None
    /\ Got(l, [l EXCEPT !.cards = Summary])

EndLoad(l) ==
    /\ l.total # None /\ l.cards # None
    /\ dash' = [dash EXCEPT !.list = l.list, !.of = l.params, !.total = l.total,
                            !.cards = l.cards, !.loading = FALSE, !.shown = l.n]
    /\ loads' = loads \ {l}
    /\ UNCHANGED <<db, export, moved, changes, uses, faults>>

LoadFails(l) ==
    /\ Fault
    /\ dash' = [dash EXCEPT !.error = TRUE, !.loading = FALSE, !.shown = l.n]
    /\ loads' = loads \ {l}
    /\ UNCHANGED <<db, export, moved, changes, uses>>

-----------------------------------------------------------------------------
(* downloadOrdersCsv, with the dashboard's status and sort order: chunk    *)
(* after chunk, and the file at the end.  export.goal are the orders that  *)
(* matched when it began.                                                  *)
StartExport ==
    /\ Used /\ export.step = "none"
    /\ export' = [step |-> "rows", filter |-> dash.params.filter, sort |-> dash.params.sort,
                  offset |-> 0, chunk |-> <<>>, file |-> <<>>,
                  goal |-> Matching(dash.params.filter)]
    /\ moved' = [moved EXCEPT !.export = FALSE]
    /\ UNCHANGED <<db, dash, loads, changes, faults>>

ReadChunk ==
    /\ export.step = "rows"
    /\ \E s \in Pages(export, CHUNK, export.offset) :
          export' = [export EXCEPT !.step = "count", !.chunk = s]
    /\ UNCHANGED <<db, dash, loads, moved, changes, uses, faults>>

(* hasMore: there are more than the rows up to the end of this chunk.      *)
(* Faulty variant: rows are taken to be counted from zero.                 *)
HasMore_FromZero(end, total) == end + 1 < total

HasMore(end, total) == end < total

CountChunk ==
    LET total == Cardinality(Matching(export.filter))
        end == export.offset + Len(export.chunk)
    IN  /\ export.step = "count"
        /\ \/ /\ export.offset = 0 /\ total > ROWS_MAX
              /\ export' = NoExport
           \/ /\ export.offset > 0 \/ total <= ROWS_MAX
              /\ export' = [export EXCEPT !.step = IF HasMore(end, total) THEN "rows" ELSE "file",
                                          !.offset = end, !.chunk = <<>>,
                                          !.file = @ \o export.chunk]
        /\ UNCHANGED <<db, dash, loads, moved, changes, uses, faults>>

(* The file is downloaded, or a chunk has failed and nothing is. *)
EndExport ==
    /\ \/ export.step = "file" /\ UNCHANGED faults
       \/ export.step \in {"rows", "count"} /\ Fault
    /\ export' = NoExport
    /\ UNCHANGED <<db, dash, loads, moved, changes, uses>>

-----------------------------------------------------------------------------
(* Meanwhile, elsewhere, orders come, are paid and go, and time passes. *)
Request(op, id, order) ==
    [op |-> op, id |-> id, user |-> Owner, order |-> order, amount |-> 1, key |-> NoKey,
     customer |-> "customer", dueIn |-> 24, valid |-> TRUE]

Altered ==
    \/ LET id == Max(DOMAIN orders \cup {0}) + 1
       IN  id <= MaxOrders
           /\ Apply(Handle([Request("create", id, None) EXCEPT !.amount = 2]))
    \/ \E op \in {"payment", "refund", "delete"}, i \in DOMAIN orders :
          LET out == Handle(Request(op, Cardinality(rows), i))
          IN  out.res.status < 300 /\ Apply(out)
    \/ \E h \in Hours :
          /\ orders' = [i \in DOMAIN orders |-> [orders[i] EXCEPT !.dueIn = @ - h]]
          /\ UNCHANGED <<users, rows>>

Change ==
    /\ changes < MaxChanges /\ changes' = changes + 1
    /\ Altered
    /\ UNCHANGED <<dash, loads, export, uses, faults>>
    /\ moved' = [dash |-> TRUE,
                 export |-> \/ moved.export
                            \/ /\ export # NoExport
                               /\ ~ \E s \in Sorted(export), t \in Sorted(export)' : IsPrefix(s, t)]

Next ==
    \/ UseDashboard \/ StartExport \/ ReadChunk \/ CountChunk \/ EndExport
    \/ \E l \in loads : ReadPage(l) \/ ReadCount(l) \/ ReadSummary(l) \/ EndLoad(l) \/ LoadFails(l)
    \/ Change

Spec == Init /\ [][Next]_vars

-----------------------------------------------------------------------------
(* The README's four statuses, an order's due date being over when it is   *)
(* in the zone of the database, and whose it is.                           *)
StatusIs(o, status) ==
    \/ status = "paid" /\ o.paid >= o.total
    \/ status = "overdue" /\ o.paid < o.total /\ o.dueIn < DbZone
    \/ status = "partially_paid" /\ 0 < o.paid /\ o.paid < o.total /\ o.dueIn >= DbZone
    \/ status = "pending" /\ o.paid = 0 /\ o.paid < o.total /\ o.dueIn >= DbZone

Wanted(filter) ==
    {i \in DOMAIN orders :
        orders[i].owner = Owner /\ (filter = All \/ StatusIs(orders[i], filter))}

(* A file sorted by creation has each order once, in that order: all that  *)
(* were to be exported when the export began, and only such orders as are  *)
(* to be at its end, however many chunks it took, and although orders were *)
(* paid and new ones came at the end meanwhile.  (One that goes, or comes  *)
(* anywhere else, moves the rows under the offset; by a column with ties   *)
(* rows may be missing and doubled even so.)                               *)
ExportExact ==
    export.step = "file" /\ ~moved.export /\ export.sort \in {"createdAt_asc", "createdAt_desc"} =>
        /\ export.goal \subseteq Range(export.file)
        /\ Range(export.file) \subseteq Wanted(export.filter)
        /\ \A i, j \in DOMAIN export.file : i < j =>
              IF export.sort = "createdAt_asc" THEN export.file[i] < export.file[j]
                                               ELSE export.file[i] > export.file[j]

(* A dashboard at rest, unless an older load has overtaken the latest one, *)
(* shows rows that bear the status it filters by, of one instant with      *)
(* their total and of one with the cards if no order changed meanwhile;    *)
(* then it has as many rows as the page that is asked for.                 *)
DashboardTrue ==
    ~dash.loading /\ ~dash.error /\ dash.shown = dash.begun =>
        /\ \A i \in DOMAIN dash.list : dash.params.filter \in {All, dash.list[i].state}
        /\ ~moved.dash =>
              LET before == (dash.params.page - 1) * dash.params.limit
              IN  /\ dash.total = Cardinality(Wanted(dash.params.filter))
                  /\ Len(dash.list) = Max0(Least(dash.params.limit, dash.total - before))
                  /\ dash.cards.outstanding + dash.cards.collected =
                         Sum([i \in DOMAIN orders |-> orders[i].total])
                  /\ dash.cards.pending = Cardinality(Wanted("pending"))

=============================================================================
