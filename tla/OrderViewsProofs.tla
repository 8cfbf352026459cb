-------------------------- MODULE OrderViewsProofs --------------------------
(***************************************************************************)
(* Theorems of OrderViews for every filter, sort order, page size, chunk   *)
(* and number of changes: what the dashboard shows and what an exported    *)
(* file contains.                                                          *)
(***************************************************************************)
EXTENDS OrderViews, FiniteSetTheorems, SequenceTheorems, WellFoundedInduction, TLAPS

(* Orders, numbered as they come. *)
IsOrder(o) ==
    /\ DOMAIN o = {"id", "owner", "total", "paid", "dueIn", "customer"}
    /\ o.total \in Nat /\ o.paid \in Nat /\ o.dueIn \in Int

Numbered(os) ==
    /\ IsFiniteSet(DOMAIN os) /\ DOMAIN os \subseteq Nat \ {0}
    /\ \A i \in DOMAIN os : IsOrder(os[i]) /\ os[i].id = i

OrdersOk == Numbered(orders)

IsParams(p) ==
    /\ DOMAIN p = {"filter", "sort", "page", "limit"}
    /\ p.page \in Nat \ {0} /\ p.limit \in Nat \ {0}

(* A list for the parameters p: of rows that bear their status; and, while *)
(* no order changes, as long as the page that they name.                   *)
Bears(list, p) == \A i \in DOMAIN list : p.filter \in {All, list[i].state}

Fills(list, p) ==
    Len(list) = Max0(Least(p.limit, Cardinality(Matching(p.filter)) - (p.page - 1) * p.limit))

MovedTyped == DOMAIN moved = {"dash", "export"}

DashTyped ==
    /\ DOMAIN dash = {"params", "loading", "error", "list", "of", "total", "cards",
                      "begun", "shown"}
    /\ IsParams(dash.params) /\ dash.begun \in Nat
    /\ dash.list # None => IsParams(dash.of)

LoadTyped(l) ==
    /\ DOMAIN l = {"n", "params", "list", "total", "cards"}
    /\ IsParams(l.params) /\ l.n \in Nat /\ l.n <= dash.begun
    /\ l.total # None => l.list # None
    /\ l.list # None => Bears(l.list, l.params)

(* The latest load has the parameters that are set; what it has read is    *)
(* true until an order changes.                                            *)
LoadTrue(l) ==
    l.n = dash.begun =>
        /\ l.params = dash.params
        /\ ~moved.dash =>
              /\ l.list # None => Fills(l.list, l.params)
              /\ l.total # None => l.total = Cardinality(Matching(l.params.filter))
              /\ l.cards # None => l.cards = Summary

DashTrue ==
    ~dash.loading /\ ~dash.error /\ dash.shown = dash.begun =>
        /\ Bears(dash.list, dash.params)
        /\ ~moved.dash =>
              /\ Fills(dash.list, dash.params)
              /\ dash.total = Cardinality(Matching(dash.params.filter))
              /\ dash.cards = Summary

DashInv ==
    /\ OrdersOk /\ MovedTyped /\ DashTyped /\ DashTrue
    /\ \A l \in loads : LoadTyped(l) /\ LoadTrue(l)

(* An export by creation has been read in the one order there is, from its *)
(* beginning; what was to be exported still is.                            *)
ByCreation(q) == q.sort \in {"createdAt_asc", "createdAt_desc"}

ExportTyped ==
    \/ export = NoExport
    \/ /\ DOMAIN export = {"step", "filter", "sort", "offset", "chunk", "file", "goal"}
       /\ export.step \in {"rows", "count", "file"}
       /\ export.file \in Seq(Nat) /\ export.chunk \in Seq(Nat)
       /\ export.offset = Len(export.file)
       /\ export.step # "count" => export.chunk = <<>>

Follows(e) ==
    /\ \A s \in Sorted(e) : IsPrefix(e.file \o e.chunk, s)
    /\ e.step # "rows" => Sorted(e) # {}
    /\ e.goal \subseteq Matching(e.filter)
    /\ e.step = "file" => e.goal \subseteq Range(e.file)

ExportTrue == export # NoExport /\ ~moved.export /\ ByCreation(export) => Follows(export)

ExportInv == OrdersOk /\ MovedTyped /\ ExportTyped /\ ExportTrue

-----------------------------------------------------------------------------

(* Induction over the subsets of a finite set, and over the naturals: a    *)
(* set of counterexamples would have a least one.                          *)
LEMMA LeastSubset ==
    ASSUME NEW S, IsFiniteSet(S), NEW T, T \subseteq SUBSET S, T # {}
    PROVE  \E x \in T : \A y \in T : ~(y \subseteq x /\ y # x)
  <1>1. IsWellFoundedOn(StrictSubsetOrdering(S), FiniteSubsetsOf(S))
    BY FS_StrictSubsetOrderingWellFounded
  <1>2. FiniteSubsetsOf(S) = SUBSET S
    BY FS_FiniteSubsetsOfFinite
  <1>3. PICK x \in T : \A y \in T : <<y, x>> \notin StrictSubsetOrdering(S)
    BY <1>1, <1>2, WFMin
  <1>4. QED
    BY <1>3 DEF StrictSubsetOrdering

LEMMA LeastNumber ==
    ASSUME NEW T, T \subseteq Nat, T # {}
    PROVE  \E x \in T : \A y \in T : ~(y < x)
  <1>1. PICK x \in T : \A y \in T : ~(<<y, x>> \in OpToRel(<, Nat))
    BY NatLessThanWellFounded, WFMin
  <1>2. QED
    BY <1>1 DEF OpToRel

-----------------------------------------------------------------------------
(* Sums over finite sets: the fold's recursion is well defined. *)
Pick(s) == CHOOSE x \in s : TRUE

IsSum(g, f, S) ==
    g = [s \in SUBSET S |-> IF s = {} THEN 0 ELSE f[Pick(s)] + g[s \ {Pick(s)}]]

LEMMA Picked ==
    ASSUME NEW s, s # {}
    PROVE  Pick(s) \in s
  BY DEF Pick

LEMMA SumIs ==
    ASSUME NEW f, NEW S
    PROVE  SumFunctionOnSet(f, S) = (CHOOSE g : IsSum(g, f, S))[S]
  BY DEF SumFunctionOnSet, FoldFunctionOnSet, MapThenFoldSet, IsSum, Pick

LEMMA SumAt ==
    ASSUME NEW f, NEW S, NEW g, IsSum(g, f, S), NEW s \in SUBSET S
    PROVE  g[s] = IF s = {} THEN 0 ELSE f[Pick(s)] + g[s \ {Pick(s)}]
  BY DEF IsSum

LEMMA SumsAgree ==
    ASSUME NEW f, NEW S, NEW R, IsFiniteSet(R), R \subseteq S,
           NEW g, NEW h, IsSum(g, f, S), IsSum(h, f, R)
    PROVE  \A s \in SUBSET R : g[s] = h[s]
  <1> DEFINE bad == {s \in SUBSET R : g[s] # h[s]}
  <1> SUFFICES ASSUME bad # {} PROVE FALSE
    OBVIOUS
  <1>0. PICK B : B = bad
    OBVIOUS
  <1>1. PICK x \in B : \A y \in B : ~(y \subseteq x /\ y # x)
    <2>1. B \subseteq SUBSET R /\ B # {}
      BY <1>0
    <2> HIDE DEF bad
    <2>2. QED
      BY <2>1, LeastSubset
  <1>2. x \in SUBSET R /\ x \in SUBSET S /\ g[x] # h[x]
    BY <1>0
  <1>3. \A z \in SUBSET R : z \notin B => g[z] = h[z]
    BY <1>0
  <1> HIDE DEF bad
  <1>4. CASE x = {}
    BY <1>2, <1>4, SumAt
  <1>5. CASE x # {}
    <2>1. PICK y : y = x \ {Pick(x)}
      OBVIOUS
    <2>2. Pick(x) \in x
      BY <1>5, Picked
    <2>3. y \subseteq x /\ y # x /\ y \in SUBSET R
      BY <1>2, <2>1, <2>2
    <2>4. g[y] = h[y]
      <3>1. y \notin B
        BY <1>1, <2>3
      <3>2. QED
        BY <1>3, <2>3, <3>1
    <2>5. g[x] = f[Pick(x)] + g[y]
      <3>1. g[x] = IF x = {} THEN 0 ELSE f[Pick(x)] + g[x \ {Pick(x)}]
        BY <1>2, SumAt
      <3>2. QED
        BY <1>5, <2>1, <3>1
    <2>6. h[x] = f[Pick(x)] + h[y]
      <3>1. h[x] = IF x = {} THEN 0 ELSE f[Pick(x)] + h[x \ {Pick(x)}]
        BY <1>2, SumAt
      <3>2. QED
        BY <1>5, <2>1, <3>1
    <2>7. QED
      BY <1>2, <2>4, <2>5, <2>6
  <1>6. QED
    BY <1>4, <1>5

LEMMA SumDefined ==
    ASSUME NEW f, NEW S, IsFiniteSet(S)
    PROVE  \E g : IsSum(g, f, S)
  <1> DEFINE bad == {s \in SUBSET S : ~ \E g : IsSum(g, f, s)}
  <1> SUFFICES ASSUME bad # {} PROVE FALSE
    OBVIOUS
  <1>0. PICK B : B = bad
    OBVIOUS
  <1>1. PICK T \in B : \A y \in B : ~(y \subseteq T /\ y # T)
    <2>1. B \subseteq SUBSET S /\ B # {}
      BY <1>0
    <2> HIDE DEF bad
    <2>2. QED
      BY <2>1, LeastSubset
  <1>2. T \in SUBSET S /\ \A U \in SUBSET T : U # T => \E g : IsSum(g, f, U)
    BY <1>0, <1>1
  <1>3. IsFiniteSet(T) /\ \A U \in SUBSET T : IsFiniteSet(U)
    BY <1>2, FS_Subset
  <1> DEFINE part(U) == CHOOSE g : IsSum(g, f, U)
             below(U) == IF U = {} THEN 0 ELSE f[Pick(U)] + part(U \ {Pick(U)})[U \ {Pick(U)}]
             whole == [U \in SUBSET T |-> below(U)]
  <1>4. \A U \in SUBSET T : U # T => IsSum(part(U), f, U)
    BY <1>2
  <1>5. ASSUME NEW U \in SUBSET T, U # T
        PROVE  part(U)[U] = below(U)
    <2>1. IsSum(part(U), f, U)
      BY <1>4, <1>5
    <2> HIDE DEF part
    <2>2. CASE U = {}
      BY <2>1, <2>2, SumAt
    <2>3. CASE U # {}
      <3>1. PICK V : V = U \ {Pick(U)}
        OBVIOUS
      <3>2. Pick(U) \in U /\ V \in SUBSET U /\ V \in SUBSET T /\ V # T
        BY <1>5, <2>3, <3>1, Picked
      <3>3. IsSum(part(V), f, V) /\ IsFiniteSet(V)
        BY <1>3, <1>4, <3>2
      <3>4. part(U)[V] = part(V)[V]
        BY <2>1, <3>2, <3>3, SumsAgree
      <3>5. part(U)[U] = f[Pick(U)] + part(U)[V]
        BY <2>1, <2>3, <3>1, SumAt
      <3>6. QED
        BY <2>3, <3>1, <3>4, <3>5
    <2>4. QED
      BY <2>2, <2>3
  <1>6. IsSum(whole, f, T)
    <2> HIDE DEF part
    <2>1. ASSUME NEW U \in SUBSET T
          PROVE  whole[U] = IF U = {} THEN 0 ELSE f[Pick(U)] + whole[U \ {Pick(U)}]
      <3>1. CASE U = {}
        BY <3>1
      <3>2. CASE U # {}
        <4>1. PICK V : V = U \ {Pick(U)}
          OBVIOUS
        <4>2. V \in SUBSET T /\ V # T
          BY <3>2, <4>1, Picked
        <4>3. whole[V] = part(V)[V]
          BY <1>5, <4>2
        <4>4. whole[U] = f[Pick(U)] + part(V)[V]
          BY <3>2, <4>1
        <4>5. QED
          BY <3>2, <4>1, <4>3, <4>4
      <3>3. QED
        BY <3>1, <3>2
    <2>2. whole = [U \in SUBSET T |-> whole[U]]
      OBVIOUS
    <2> HIDE DEF whole
    <2>3. QED
      BY <2>1, <2>2 DEF IsSum
  <1>7. QED
    BY <1>0, <1>1, <1>6

(* What a sum over a finite set is. *)
LEMMA SumOfNone ==
    ASSUME NEW f
    PROVE  SumFunctionOnSet(f, {}) = 0
  <1>1. IsFiniteSet({})
    BY FS_EmptySet
  <1>2. PICK g : g = (CHOOSE h : IsSum(h, f, {})) /\ IsSum(g, f, {})
    BY <1>1, SumDefined
  <1>3. g[{}] = 0
    BY <1>2, SumAt
  <1>4. QED
    BY <1>2, <1>3, SumIs

LEMMA SumOfMore ==
    ASSUME NEW f, NEW S, IsFiniteSet(S), S # {}
    PROVE  SumFunctionOnSet(f, S) = f[Pick(S)] + SumFunctionOnSet(f, S \ {Pick(S)})
  <1>1. PICK R : R = S \ {Pick(S)}
    OBVIOUS
  <1>2. R \in SUBSET S /\ IsFiniteSet(R)
    BY <1>1, FS_Subset
  <1>3. PICK g : g = (CHOOSE h : IsSum(h, f, S)) /\ IsSum(g, f, S)
    BY SumDefined
  <1>4. PICK h : h = (CHOOSE k : IsSum(k, f, R)) /\ IsSum(h, f, R)
    BY <1>2, SumDefined
  <1>5. g[R] = h[R]
    BY <1>2, <1>3, <1>4, SumsAgree
  <1>6. g[S] = f[Pick(S)] + g[R]
    BY <1>1, <1>3, SumAt
  <1>7. QED
    BY <1>1, <1>3, <1>4, <1>5, <1>6, SumIs

(* The sum of sums. *)
Adds(f, g, h, S) == \A x \in S : f[x] \in Int /\ g[x] \in Int /\ h[x] = f[x] + g[x]

LEMMA SumsAdd ==
    ASSUME NEW S, IsFiniteSet(S), NEW f, NEW g, NEW h, Adds(f, g, h, S)
    PROVE  /\ SumFunctionOnSet(f, S) \in Int /\ SumFunctionOnSet(g, S) \in Int
           /\ SumFunctionOnSet(f, S) + SumFunctionOnSet(g, S) = SumFunctionOnSet(h, S)
  <1> DEFINE good(s) == /\ SumFunctionOnSet(f, s) \in Int /\ SumFunctionOnSet(g, s) \in Int
                        /\ SumFunctionOnSet(f, s) + SumFunctionOnSet(g, s) = SumFunctionOnSet(h, s)
             bad == {s \in SUBSET S : ~good(s)}
  <1> SUFFICES ASSUME bad # {} PROVE FALSE
    OBVIOUS
  <1>0. PICK B : B = bad
    OBVIOUS
  <1>1. PICK T \in B : \A y \in B : ~(y \subseteq T /\ y # T)
    <2>1. B \subseteq SUBSET S /\ B # {}
      BY <1>0
    <2> HIDE DEF bad
    <2>2. QED
      BY <2>1, LeastSubset
  <1>2. T \in SUBSET S /\ ~good(T) /\ \A U \in SUBSET T : U # T => good(U)
    <2> HIDE DEF good
    <2>1. QED
      BY <1>0, <1>1
  <1>3. T # {}
    <2>1. good({})
      <3>1. SumFunctionOnSet(f, {}) = 0 /\ SumFunctionOnSet(g, {}) = 0
        BY SumOfNone
      <3>2. SumFunctionOnSet(h, {}) = 0
        BY SumOfNone
      <3>3. QED
        BY <3>1, <3>2
    <2> HIDE DEF good
    <2>2. QED
      BY <1>2, <2>1
  <1>4. PICK R : R = T \ {Pick(T)}
    OBVIOUS
  <1>5. Pick(T) \in T /\ R \in SUBSET T /\ R # T /\ IsFiniteSet(T)
    BY <1>2, <1>3, <1>4, Picked, FS_Subset
  <1>6. good(R)
    BY <1>2, <1>5
  <1>7. /\ SumFunctionOnSet(f, T) = f[Pick(T)] + SumFunctionOnSet(f, R)
        /\ SumFunctionOnSet(g, T) = g[Pick(T)] + SumFunctionOnSet(g, R)
        /\ SumFunctionOnSet(h, T) = h[Pick(T)] + SumFunctionOnSet(h, R)
    BY <1>3, <1>4, <1>5, SumOfMore
  <1>8. /\ f[Pick(T)] \in Int /\ g[Pick(T)] \in Int
        /\ h[Pick(T)] = f[Pick(T)] + g[Pick(T)]
    BY <1>2, <1>5 DEF Adds
  <1>9. good(T)
    BY <1>6, <1>7, <1>8
  <1>10. QED
    BY <1>2, <1>9

(* A finite set of integers has a greatest one. *)
LEMMA Greatest ==
    ASSUME NEW S, IsFiniteSet(S), S \subseteq Int, S # {}
    PROVE  Max(S) \in S /\ \A x \in S : Max(S) >= x
  <1> DEFINE good(s) == \E m \in s : \A x \in s : m >= x
             bad == {s \in SUBSET S : s # {} /\ ~good(s)}
  <1>1. bad = {}
    <2> SUFFICES ASSUME bad # {} PROVE FALSE
      OBVIOUS
    <2>0. PICK B : B = bad
      OBVIOUS
    <2>1. PICK T \in B : \A y \in B : ~(y \subseteq T /\ y # T)
      <3>1. B \subseteq SUBSET S /\ B # {}
        BY <2>0
      <3>2. IsFiniteSet(S)
        OBVIOUS
      <3> HIDE DEF bad, good
      <3>3. QED
        BY ONLY <3>1, <3>2, LeastSubset
    <2>2. T \in SUBSET S /\ T # {} /\ ~good(T)
      BY <2>0
    <2>3. PICK t : t \in T
      BY <2>2
    <2>4. \E m \in T : \A x \in T : m >= x
      <3>1. CASE T \ {t} = {}
        <4>1. T = {t} /\ t \in Int
          BY <2>2, <2>3, <3>1
        <4>2. QED
          BY <4>1
      <3>2. CASE T \ {t} # {}
        <4>1. good(T \ {t})
          <5>1. T \ {t} \notin B
            BY <2>1, <2>3
          <5>2. QED
            BY <2>0, <2>2, <3>2, <5>1
        <4>2. PICK m \in T \ {t} : \A x \in T \ {t} : m >= x
          BY <4>1
        <4>3. PICK k : k = IF m >= t THEN m ELSE t
          OBVIOUS
        <4>4. k \in T /\ \A x \in T : k >= x
          BY <2>2, <2>3, <4>2, <4>3
        <4>5. QED
          BY <4>4
      <3>3. QED
        BY <3>1, <3>2
    <2>5. QED
      BY <2>2, <2>4
  <1>2. good(S)
    BY <1>1
  <1>3. QED
    BY <1>2 DEF Max

-----------------------------------------------------------------------------
(* The orders stay what they are, whatever is done to them. *)
LEMMA PaidStays ==
    ASSUME OrdersOk, NEW i \in DOMAIN orders, NEW n \in Nat
    PROVE  Numbered([orders EXCEPT ![i] = [orders[i] EXCEPT !.paid = n]])
  <1> DEFINE os == [orders EXCEPT ![i] = [orders[i] EXCEPT !.paid = n]]
  <1>1. DOMAIN os = DOMAIN orders
    OBVIOUS
  <1>2. IsOrder(orders[i]) /\ orders[i].id = i
    BY DEF OrdersOk, Numbered
  <1>3. IsOrder([orders[i] EXCEPT !.paid = n]) /\ [orders[i] EXCEPT !.paid = n].id = i
    BY <1>2 DEF IsOrder
  <1>4. \A j \in DOMAIN os : IsOrder(os[j]) /\ os[j].id = j
    BY <1>1, <1>3 DEF OrdersOk, Numbered
  <1>5. QED
    BY <1>1, <1>4 DEF OrdersOk, Numbered

LEMMA ServedStay ==
    ASSUME OrdersOk, NEW i \in DOMAIN orders, NEW k,
           NEW op \in {"payment", "refund", "delete"}
    PROVE  Numbered(Handle(Request(op, k, i)).orders)
  <1>1. PICK q : q = Request(op, k, i)
    OBVIOUS
  <1>2. q.op = op /\ q.order = i /\ q.amount = 1 /\ q.key = NoKey
    BY <1>1 DEF Request
  <1>3. \A res : Only(res).orders = orders
    BY DEF Only, Outcome
  <1>4. orders[i].total \in Nat /\ orders[i].paid \in Nat
    BY DEF OrdersOk, Numbered, IsOrder
  <1>5. CASE op = "delete"
    <2>1. Handle(q) = DeleteOrder(q)
      BY <1>2, <1>5 DEF Handle
    <2>2. CASE DeleteOrder(q).orders = orders
      BY <1>1, <2>1, <2>2 DEF OrdersOk
    <2>3. CASE DeleteOrder(q).orders = [j \in DOMAIN orders \ {i} |-> orders[j]]
      <3>1. IsFiniteSet(DOMAIN orders \ {i})
        BY FS_RemoveElement DEF OrdersOk, Numbered
      <3>2. QED
        BY <1>1, <2>1, <2>3, <3>1 DEF OrdersOk, Numbered
    <2>4. QED
      BY <1>2, <1>3, <2>2, <2>3 DEF DeleteOrder, Outcome
  <1>6. CASE op # "delete"
    <2>1. Handle(q) = Settle(q)
      BY <1>2, <1>6 DEF Handle
    <2>2. CASE Settle(q).orders = orders
      BY <1>1, <2>1, <2>2 DEF OrdersOk
    <2>3. CASE Settle(q) = Accept(q) /\ ~(q.amount > Room(q))
      <3>1. PICK n : n = IF op = "payment" THEN orders[i].paid + 1 ELSE orders[i].paid - 1
        OBVIOUS
      <3>2. n \in Nat
        BY <1>2, <1>4, <2>3, <3>1 DEF Room
      <3>3. Accept(q).orders = [orders EXCEPT ![i] = [orders[i] EXCEPT !.paid = n]]
        BY <1>2, <3>1 DEF Accept, Outcome
      <3>4. QED
        BY <1>1, <2>1, <2>3, <3>2, <3>3, PaidStays
    <2>4. QED
      BY <1>3, <2>2, <2>3 DEF Settle
  <1>7. QED
    BY <1>5, <1>6

LEMMA CreatedStay ==
    ASSUME OrdersOk,
           NEW id, id = Max(DOMAIN orders \cup {0}) + 1
    PROVE  Numbered(Handle([Request("create", id, None) EXCEPT !.amount = 2]).orders)
  <1>1. PICK q : q = [Request("create", id, None) EXCEPT !.amount = 2]
    OBVIOUS
  <1>2. q.op = "create" /\ q.id = id /\ q.amount = 2 /\ q.dueIn = 24 /\ q.valid
    BY <1>1 DEF Request
  <1>3. IsFiniteSet(DOMAIN orders) /\ DOMAIN orders \subseteq Nat
    BY DEF OrdersOk, Numbered
  <1>4. IsFiniteSet(DOMAIN orders \cup {0})
    BY <1>3, FS_AddElement
  <1>5. PICK S : S = DOMAIN orders \cup {0}
    OBVIOUS
  <1>6. Max(S) \in S /\ \A x \in S : Max(S) >= x
    BY <1>3, <1>4, <1>5, Greatest
  <1>7. id \in Nat \ {0}
    BY <1>3, <1>5, <1>6
  <1>8. PICK new : new = [id |-> id, owner |-> q.user, total |-> 2, paid |-> 0,
                          dueIn |-> 24, customer |-> q.customer]
    OBVIOUS
  <1>9. IsOrder(new) /\ new.id = id
    BY <1>8 DEF IsOrder
  <1>10. PICK os : os = [i \in DOMAIN orders \cup {id} |-> IF i = id THEN new ELSE orders[i]]
    OBVIOUS
  <1>11. Handle(q).orders = os
    BY <1>2, <1>8, <1>10 DEF Handle, CreateOrder, Outcome
  <1>12. IsFiniteSet(DOMAIN os) /\ DOMAIN os \subseteq Nat \ {0}
    BY <1>3, <1>7, <1>10, FS_AddElement DEF OrdersOk, Numbered
  <1>13. \A i \in DOMAIN os : IsOrder(os[i]) /\ os[i].id = i
    BY <1>9, <1>10 DEF OrdersOk, Numbered
  <1>14. QED
    BY <1>1, <1>11, <1>12, <1>13 DEF Numbered

LEMMA AlteredStay ==
    ASSUME OrdersOk, Altered
    PROVE  OrdersOk'
  <1>1. ASSUME NEW id, id = Max(DOMAIN orders \cup {0}) + 1,
               Apply(Handle([Request("create", id, None) EXCEPT !.amount = 2]))
        PROVE  OrdersOk'
    BY <1>1, CreatedStay DEF Apply, OrdersOk
  <1>2. ASSUME NEW op \in {"payment", "refund", "delete"}, NEW i \in DOMAIN orders,
               Apply(Handle(Request(op, Cardinality(rows), i)))
        PROVE  OrdersOk'
    BY <1>2, ServedStay DEF Apply, OrdersOk
  <1>3. ASSUME NEW h \in Hours,
               orders' = [i \in DOMAIN orders |-> [orders[i] EXCEPT !.dueIn = @ - h]]
        PROVE  OrdersOk'
    <2>1. h \in Int
      BY ViewsAssumption
    <2>2. DOMAIN orders' = DOMAIN orders
      BY <1>3
    <2>3. ASSUME NEW i \in DOMAIN orders
          PROVE  IsOrder(orders'[i]) /\ orders'[i].id = i
      <3>1. orders'[i] = [orders[i] EXCEPT !.dueIn = orders[i].dueIn - h]
        BY <1>3
      <3>2. IsOrder(orders[i]) /\ orders[i].id = i
        BY DEF OrdersOk, Numbered
      <3>3. QED
        BY <2>1, <3>1, <3>2 DEF IsOrder
    <2>4. QED
      BY <2>2, <2>3 DEF OrdersOk, Numbered
  <1>4. QED
    BY <1>1, <1>2, <1>3 DEF Altered

-----------------------------------------------------------------------------
(* What is listed, counted and summed. *)
LEMMA SqlIs ==
    ASSUME NEW o, IsOrder(o), NEW status
    PROVE  StatusSql(o) = status <=> StatusIs(o, status)
  <1>1. o.total \in Nat /\ o.paid \in Nat /\ o.dueIn \in Int
    BY DEF IsOrder
  <1>2. PastForDb(o) <=> o.dueIn < DbZone
    BY <1>1, ZonesAssumption DEF PastForDb
  <1>3. CASE o.paid >= o.total
    BY <1>1, <1>3 DEF StatusSql, StatusIs
  <1>4. CASE o.paid < o.total /\ o.dueIn < DbZone
    BY <1>1, <1>2, <1>4, ZonesAssumption DEF StatusSql, StatusIs
  <1>5. CASE o.paid < o.total /\ ~(o.dueIn < DbZone) /\ o.paid > 0
    BY <1>1, <1>2, <1>5, ZonesAssumption DEF StatusSql, StatusIs
  <1>6. CASE o.paid < o.total /\ ~(o.dueIn < DbZone) /\ ~(o.paid > 0)
    BY <1>1, <1>2, <1>6, ZonesAssumption DEF StatusSql, StatusIs
  <1>7. QED
    BY <1>1, <1>3, <1>4, <1>5, <1>6

LEMMA MatchingIsWanted ==
    ASSUME OrdersOk, NEW filter
    PROVE  Matching(filter) = Wanted(filter)
  <1>1. \A i \in DOMAIN orders : StatusSql(orders[i]) = filter <=> StatusIs(orders[i], filter)
    BY SqlIs DEF OrdersOk, Numbered
  <1>2. QED
    BY <1>1 DEF Matching, Wanted

LEMMA MatchingFinite ==
    ASSUME OrdersOk, NEW filter
    PROVE  /\ IsFiniteSet(Matching(filter)) /\ Matching(filter) \subseteq DOMAIN orders
           /\ Matching(filter) \subseteq Nat /\ Cardinality(Matching(filter)) \in Nat
  <1>1. Matching(filter) \subseteq DOMAIN orders
    BY DEF Matching
  <1>2. IsFiniteSet(Matching(filter))
    BY <1>1, FS_Subset DEF OrdersOk, Numbered
  <1>3. QED
    BY <1>1, <1>2, FS_CardinalityType DEF OrdersOk, Numbered

LEMMA SortedIs ==
    ASSUME OrdersOk, NEW q, NEW s \in Sorted(q)
    PROVE  /\ s \in [1 .. Cardinality(Matching(q.filter)) -> Matching(q.filter)]
           /\ Len(s) = Cardinality(Matching(q.filter))
           /\ \A i, j \in DOMAIN s : i # j => s[i] # s[j]
           /\ s \in Seq(Nat)
  <1>1. PICK M : M = Matching(q.filter)
    OBVIOUS
  <1>2. Cardinality(M) \in Nat /\ M \subseteq Nat
    BY <1>1, MatchingFinite
  <1>3. s \in SetToSeqs(M)
    BY <1>1 DEF Sorted
  <1>4. s \in [1 .. Cardinality(M) -> M] /\ \A i, j \in 1 .. Cardinality(M) : i # j => s[i] # s[j]
    BY <1>3 DEF SetToSeqs
  <1>5. s \in Seq(M) /\ Len(s) = Cardinality(M) /\ DOMAIN s = 1 .. Cardinality(M)
    BY <1>2, <1>4
  <1>6. s \in Seq(Nat)
    <2>1. s \in [1 .. Cardinality(M) -> Nat]
      BY <1>2, <1>4
    <2>2. QED
      BY <1>2, <2>1
  <1>7. QED
    BY <1>1, <1>4, <1>5, <1>6

(* A page of a sequence. *)
LEMMA PageOfSeq ==
    ASSUME NEW S, NEW s \in Seq(S), NEW limit \in Nat, NEW offset \in Nat
    PROVE  /\ SubSeq(s, offset + 1, Least(offset + limit, Len(s))) \in Seq(S)
           /\ Len(SubSeq(s, offset + 1, Least(offset + limit, Len(s)))) =
                  Max0(Least(limit, Len(s) - offset))
  <1>1. PICK n : n = Least(offset + limit, Len(s))
    OBVIOUS
  <1>2. n \in Nat /\ n <= Len(s) /\ Len(s) \in Nat
    BY <1>1 DEF Least
  <1>3. \A i \in offset + 1 .. n : s[i] \in S
    BY <1>2
  <1>4. PICK p : p = SubSeq(s, offset + 1, n)
    OBVIOUS
  <1>5. p \in Seq(S) /\ Len(p) = IF offset + 1 <= n THEN n - (offset + 1) + 1 ELSE 0
    <2>1. offset + 1 \in Int /\ n \in Int
      BY <1>1, <1>2
    <2>2. /\ SubSeq(s, offset + 1, n) \in Seq(S)
          /\ Len(SubSeq(s, offset + 1, n)) = IF offset + 1 <= n THEN n - (offset + 1) + 1 ELSE 0
      BY ONLY <1>3, <2>1, SubSeqProperties
    <2>3. QED
      BY <1>4, <2>2
  <1>6. Len(p) = Max0(Least(limit, Len(s) - offset))
    BY <1>1, <1>2, <1>5 DEF Max0, Least
  <1>7. QED
    BY <1>1, <1>4, <1>5, <1>6

LEMMA PageTrue ==
    ASSUME OrdersOk, NEW p, IsParams(p),
           NEW s \in Pages(p, p.limit, (p.page - 1) * p.limit)
    PROVE  Bears(Rendered(s), p) /\ Fills(Rendered(s), p)
  <1>1. PICK M : M = Matching(p.filter)
    OBVIOUS
  <1>2. PICK offset : offset = (p.page - 1) * p.limit
    OBVIOUS
  <1>3. offset \in Nat /\ p.limit \in Nat
    BY <1>2 DEF IsParams
  <1>4. PICK t \in Sorted(p) : s = SubSeq(t, offset + 1, Least(offset + p.limit, Len(t)))
    BY <1>2 DEF Pages
  <1>5. t \in [1 .. Cardinality(M) -> M] /\ Len(t) = Cardinality(M) /\ Cardinality(M) \in Nat
    BY <1>1, SortedIs, MatchingFinite
  <1>6. t \in Seq(M)
    BY <1>5
  <1>7. s \in Seq(M) /\ Len(s) = Max0(Least(p.limit, Len(t) - offset))
    <2>1. PICK limit : limit = p.limit
      OBVIOUS
    <2>2. limit \in Nat /\ s = SubSeq(t, offset + 1, Least(offset + limit, Len(t)))
      BY <1>3, <1>4, <2>1
    <2>3. /\ SubSeq(t, offset + 1, Least(offset + limit, Len(t))) \in Seq(M)
          /\ Len(SubSeq(t, offset + 1, Least(offset + limit, Len(t)))) =
                 Max0(Least(limit, Len(t) - offset))
      BY ONLY <1>3, <1>6, <2>2, PageOfSeq
    <2>4. QED
      BY <2>1, <2>2, <2>3
  <1>8. PICK n \in Nat : n = Len(s)
    BY <1>7
  <1>9. PICK r : r = Rendered(s)
    OBVIOUS
  <1>10. DOMAIN r = 1 .. n /\ \A i \in 1 .. n : r[i] = serializeOrder(200, orders[s[i]])
    BY <1>7, <1>8, <1>9 DEF Rendered
  <1>11. Len(r) = n
    <2>1. r = [i \in 1 .. n |-> serializeOrder(200, orders[s[i]])]
      BY <1>7, <1>8, <1>9 DEF Rendered
    <2>2. QED
      BY <1>8, <2>1
  <1>12. Fills(r, p)
    BY <1>1, <1>2, <1>5, <1>7, <1>8, <1>11 DEF Fills
  <1>13. \A i \in 1 .. n : p.filter \in {All, r[i].state}
    <2>1. TAKE i \in 1 .. n
    <2>2. s[i] \in M
      BY <1>7, <1>8
    <2>3. r[i].state = StatusSql(orders[s[i]])
      <3>1. \A o : serializeOrder(200, o).state = StatusSql(o)
        BY DEF serializeOrder, Bare
      <3>2. QED
        BY <1>10, <3>1
    <2>4. QED
      BY <1>1, <2>2, <2>3 DEF Matching
  <1>14. QED
    BY <1>9, <1>10, <1>12, <1>13 DEF Bears

-----------------------------------------------------------------------------
(* The dashboard. *)
LEMMA SameOrders ==
    ASSUME orders' = orders
    PROVE  /\ OrdersOk' = OrdersOk
           /\ Summary' = Summary
           /\ \A f : Matching(f)' = Matching(f)
           /\ \A list, p : Fills(list, p)' = Fills(list, p)
  <1>1. \A f : Matching(f)' = Matching(f)
    BY DEF Matching
  <1>2. Summary' = Summary
    BY <1>1 DEF Summary, Sum
  <1>3. QED
    BY <1>1, <1>2 DEF OrdersOk, Fills

LEMMA InitOrders ==
    ASSUME Init
    PROVE  OrdersOk
  <1>1. orders = [i \in {1, 2, 3} |->
                    [id |-> i, owner |-> IF i = 2 THEN "other" ELSE Owner, total |-> 2,
                     paid |-> IF i = 1 THEN 1 ELSE 0, dueIn |-> 24 * i, customer |-> "customer"]]
    BY DEF Init
  <1>2. IsFiniteSet({1, 2, 3})
    <2>1. \A S, x : IsFiniteSet(S) => IsFiniteSet(S \cup {x})
      BY FS_AddElement
    <2>2. IsFiniteSet(({} \cup {1}) \cup {2}) /\ IsFiniteSet((({} \cup {1}) \cup {2}) \cup {3})
      BY ONLY <2>1, FS_EmptySet, Zenon
    <2>3. (({} \cup {1}) \cup {2}) \cup {3} = {1, 2, 3}
      OBVIOUS
    <2>4. QED
      BY ONLY <2>2, <2>3, Zenon
  <1>3. ASSUME NEW i \in {1, 2, 3}
        PROVE  IsOrder(orders[i]) /\ orders[i].id = i
    <2>1. PICK owner, paid : owner = (IF i = 2 THEN "other" ELSE Owner)
                             /\ paid = IF i = 1 THEN 1 ELSE 0
      OBVIOUS
    <2>2. orders[i] = [id |-> i, owner |-> owner, total |-> 2, paid |-> paid, dueIn |-> 24 * i,
                       customer |-> "customer"]
      BY <1>1, <2>1
    <2>3. paid \in Nat
      BY <2>1
    <2>4. 24 * i \in Int
      OBVIOUS
    <2>5. QED
      BY <2>2, <2>3, <2>4 DEF IsOrder
  <1>4. DOMAIN orders = {1, 2, 3}
    BY <1>1
  <1>5. QED
    BY <1>2, <1>3, <1>4 DEF OrdersOk, Numbered

LEMMA InitDash ==
    ASSUME Init
    PROVE  DashInv
  <1>1. First.limit \in Nat \ {0}
    BY ViewsAssumption DEF First
  <1>2. IsParams(First)
    BY <1>1 DEF First, IsParams
  <1>3. dash = [params |-> First, loading |-> TRUE, error |-> FALSE, list |-> None,
                of |-> None, total |-> 0, cards |-> None, begun |-> 1, shown |-> 0]
    BY DEF Init
  <1>4. DashTyped /\ DashTrue
    BY <1>2, <1>3 DEF DashTyped, DashTrue
  <1>5. PICK l : l = Loading(1, First)
    OBVIOUS
  <1>6. LoadTyped(l)
    BY <1>2, <1>3, <1>5 DEF Loading, LoadTyped
  <1>7. LoadTrue(l)
    BY <1>3, <1>5 DEF Loading, LoadTrue
  <1>8. loads = {l} /\ MovedTyped
    BY <1>5 DEF Init, MovedTyped
  <1>9. QED
    BY <1>4, <1>6, <1>7, <1>8, InitOrders DEF DashInv

LEMMA BeginDash ==
    ASSUME DashInv, NEW params, IsParams(params), Begin(params)
    PROVE  DashInv'
  <1>1. PICK n : n = Number
    OBVIOUS
  <1>2. DashTyped /\ MovedTyped /\ OrdersOk
    BY DEF DashInv
  <1>3. dash.begun \in Nat /\ n \in Nat
    BY <1>1, <1>2 DEF Number, DashTyped
  <1>4. \A l \in loads : LoadTyped(l) /\ l.n \in Nat /\ l.n < n
    BY <1>1, <1>3 DEF Number, DashInv, LoadTyped
  <1>5. dash' = [dash EXCEPT !.params = params, !.loading = TRUE, !.error = FALSE, !.begun = n]
    BY <1>1 DEF Begin
  <1>6. /\ dash'.params = params /\ dash'.loading = TRUE /\ dash'.begun = n
        /\ dash'.list = dash.list /\ dash'.of = dash.of /\ DOMAIN dash' = DOMAIN dash
    BY <1>2, <1>5 DEF DashTyped
  <1>7. DashTyped' /\ DashTrue'
    BY <1>2, <1>3, <1>6 DEF DashTyped, DashTrue
  <1>8. OrdersOk' /\ MovedTyped'
    BY <1>2, SameOrders DEF Begin, db, MovedTyped
  <1>9. PICK new : new = Loading(n, params)
    OBVIOUS
  <1>10. loads' = loads \cup {new}
    BY <1>1, <1>9 DEF Begin
  <1>11. \A l \in loads : LoadTyped(l)' /\ LoadTrue(l)'
    BY <1>3, <1>4, <1>6 DEF LoadTyped, LoadTrue
  <1>12. \A l : l = new => LoadTyped(l)' /\ LoadTrue(l)'
    BY <1>3, <1>6, <1>9 DEF LoadTyped, LoadTrue, Loading
  <1>13. QED
    BY <1>7, <1>8, <1>10, <1>11, <1>12 DEF DashInv

LEMMA ChosenTyped ==
    ASSUME DashTyped, NEW params \in Chosen
    PROVE  IsParams(params)
  <1>1. PICK p : p = [dash.params EXCEPT !.page = 1]
    OBVIOUS
  <1>2. IsParams(p)
    BY <1>1 DEF DashTyped, IsParams
  <1>3. \/ \E f \in Filters : params = [p EXCEPT !.filter = f]
        \/ \E s \in Sorts : params = [p EXCEPT !.sort = s]
        \/ \E n \in Limits : params = [p EXCEPT !.limit = n]
    BY <1>1 DEF Chosen
  <1>4. QED
    BY <1>2, <1>3, ViewsAssumption DEF IsParams

LEMMA TurnedTyped ==
    ASSUME DashTyped, Table, NEW params \in Turned
    PROVE  IsParams(params)
  <1>1. PICK n : n \in {dash.of.page - 1, dash.of.page + 1} /\ n >= 1
                 /\ params = [dash.params EXCEPT !.page = n]
    BY DEF Turned
  <1>2. n \in Nat \ {0}
    BY <1>1 DEF DashTyped, Table, IsParams
  <1>3. QED
    BY <1>1, <1>2 DEF DashTyped, IsParams

LEMMA UseDash ==
    ASSUME DashInv, UseDashboard
    PROVE  DashInv'
  <1>1. DashTyped /\ IsParams(dash.params)
    BY DEF DashInv, DashTyped
  <1>2. CASE \E new \in Chosen : new # dash.params /\ Begin(new)
    BY <1>1, <1>2, ChosenTyped, BeginDash
  <1>3. CASE Table /\ \E new \in Turned : new # dash.params /\ Begin(new)
    BY <1>1, <1>3, TurnedTyped, BeginDash
  <1>4. CASE Begin(dash.params)
    <2>1. PICK p : p = dash.params
      OBVIOUS
    <2>2. QED
      BY <1>1, <1>4, <2>1, BeginDash
  <1>5. QED
    BY <1>2, <1>3, <1>4 DEF UseDashboard

LEMMA GotDash ==
    ASSUME DashInv, NEW l \in loads, NEW new, Got(l, new), LoadTyped(new), LoadTrue(new)
    PROVE  DashInv'
  <1>1. loads' \subseteq loads \cup {new} /\ orders' = orders /\ dash' = dash /\ moved' = moved
    BY DEF Got, db
  <1>2. OrdersOk' /\ MovedTyped' /\ DashTyped' /\ DashTrue'
    BY <1>1, SameOrders DEF DashInv, MovedTyped, DashTyped, DashTrue
  <1>3. \A k : LoadTyped(k) /\ LoadTrue(k) => LoadTyped(k)' /\ LoadTrue(k)'
    BY <1>1, SameOrders DEF LoadTyped, LoadTrue
  <1>4. QED
    BY <1>1, <1>2, <1>3 DEF DashInv

LEMMA PageDash ==
    ASSUME DashInv, NEW l \in loads, ReadPage(l)
    PROVE  DashInv'
  <1>1. OrdersOk /\ LoadTyped(l) /\ LoadTrue(l)
    BY DEF DashInv
  <1>2. PICK s \in Pages(l.params, l.params.limit, (l.params.page - 1) * l.params.limit) :
            Got(l, [l EXCEPT !.list = Rendered(s)])
    BY DEF ReadPage
  <1>3. PICK p : p = l.params
    OBVIOUS
  <1>4. IsParams(p) /\ s \in Pages(p, p.limit, (p.page - 1) * p.limit)
    BY <1>1, <1>3 DEF LoadTyped
  <1>5. PICK list : list = Rendered(s)
    OBVIOUS
  <1>6. Bears(list, p) /\ Fills(list, p)
    BY <1>1, <1>4, <1>5, PageTrue
  <1>7. PICK new : new = [l EXCEPT !.list = list]
    OBVIOUS
  <1>8. LoadTyped(new)
    <2>1. l.total = None
      BY <1>1 DEF LoadTyped, ReadPage
    <2>2. QED
      BY <1>1, <1>3, <1>6, <1>7, <2>1 DEF LoadTyped
  <1>9. LoadTrue(new)
    <2>1. /\ new.n = l.n /\ new.params = l.params /\ new.total = l.total
          /\ new.cards = l.cards /\ new.list = list
      BY <1>1, <1>7 DEF LoadTyped
    <2>2. QED
      BY <1>1, <1>3, <1>6, <2>1 DEF LoadTrue
  <1>10. QED
    BY <1>2, <1>5, <1>7, <1>8, <1>9, GotDash

LEMMA CountDash ==
    ASSUME DashInv, NEW l \in loads, ReadCount(l)
    PROVE  DashInv'
  <1>1. LoadTyped(l) /\ LoadTrue(l)
    BY DEF DashInv
  <1>2. PICK total : total = Cardinality(Matching(l.params.filter))
    OBVIOUS
  <1>3. PICK new : new = [l EXCEPT !.total = total]
    OBVIOUS
  <1>4. Got(l, new) /\ l.list # None
    BY <1>2, <1>3 DEF ReadCount
  <1>5. /\ new.n = l.n /\ new.params = l.params /\ new.list = l.list
        /\ new.cards = l.cards /\ new.total = total /\ DOMAIN new = DOMAIN l
    BY <1>1, <1>3 DEF LoadTyped
  <1>6. LoadTyped(new)
    BY <1>1, <1>4, <1>5 DEF LoadTyped
  <1>7. LoadTrue(new)
    BY <1>1, <1>2, <1>5 DEF LoadTrue
  <1>8. QED
    BY <1>4, <1>6, <1>7, GotDash

LEMMA SummaryDash ==
    ASSUME DashInv, NEW l \in loads, ReadSummary(l)
    PROVE  DashInv'
  <1>1. LoadTyped(l) /\ LoadTrue(l)
    BY DEF DashInv
  <1>2. PICK cards : cards = Summary
    OBVIOUS
  <1>3. PICK new : new = [l EXCEPT !.cards = cards]
    OBVIOUS
  <1>4. Got(l, new)
    BY <1>2, <1>3 DEF ReadSummary
  <1>5. /\ new.n = l.n /\ new.params = l.params /\ new.list = l.list
        /\ new.total = l.total /\ new.cards = cards /\ DOMAIN new = DOMAIN l
    BY <1>1, <1>3 DEF LoadTyped
  <1>6. LoadTyped(new)
    BY <1>1, <1>4, <1>5 DEF LoadTyped
  <1>7. LoadTrue(new)
    BY <1>1, <1>2, <1>5 DEF LoadTrue
  <1>8. QED
    BY <1>4, <1>6, <1>7, GotDash

LEMMA FewerLoads ==
    ASSUME DashInv, loads' \subseteq loads, UNCHANGED <<db, moved>>,
           dash'.params = dash.params, dash'.begun = dash.begun
    PROVE  OrdersOk' /\ MovedTyped' /\ \A l \in loads' : LoadTyped(l)' /\ LoadTrue(l)'
  <1>1. orders' = orders /\ moved' = moved
    BY DEF db
  <1>2. \A l : LoadTyped(l) /\ LoadTrue(l) => LoadTyped(l)' /\ LoadTrue(l)'
    BY <1>1, SameOrders DEF LoadTyped, LoadTrue
  <1>3. QED
    BY <1>1, <1>2, SameOrders DEF DashInv, MovedTyped

LEMMA EndDash ==
    ASSUME DashInv, NEW l \in loads, EndLoad(l)
    PROVE  DashInv'
  <1>1. DashTyped /\ DashTrue /\ LoadTyped(l) /\ LoadTrue(l)
    BY DEF DashInv
  <1>2. l.total # None /\ l.cards # None /\ l.list # None /\ IsParams(l.params)
    BY <1>1 DEF EndLoad, LoadTyped
  <1>3. /\ DOMAIN dash' = DOMAIN dash /\ dash'.params = dash.params /\ dash'.begun = dash.begun
        /\ dash'.list = l.list /\ dash'.of = l.params /\ dash'.total = l.total
        /\ dash'.cards = l.cards /\ dash'.shown = l.n
    BY <1>1 DEF EndLoad, DashTyped
  <1>4. orders' = orders /\ moved' = moved /\ loads' \subseteq loads
    BY DEF EndLoad, db
  <1>5. DashTyped'
    BY <1>1, <1>2, <1>3 DEF DashTyped
  <1>6. DashTrue'
    <2>1. ASSUME l.n = dash.begun
          PROVE  l.params = dash.params /\ Bears(l.list, l.params)
      BY <1>1, <1>2, <2>1 DEF LoadTrue, LoadTyped
    <2>2. ASSUME l.n = dash.begun, ~moved.dash
          PROVE  /\ Fills(l.list, l.params)
                 /\ l.total = Cardinality(Matching(l.params.filter)) /\ l.cards = Summary
      BY <1>1, <1>2, <2>2 DEF LoadTrue
    <2>3. QED
      BY <1>3, <1>4, <2>1, <2>2, SameOrders DEF DashTrue, Bears
  <1>7. QED
    BY <1>3, <1>4, <1>5, <1>6, FewerLoads DEF DashInv, EndLoad

LEMMA FailDash ==
    ASSUME DashInv, NEW l \in loads, LoadFails(l)
    PROVE  DashInv'
  <1>1. DashTyped
    BY DEF DashInv
  <1>2. /\ DOMAIN dash' = DOMAIN dash /\ dash'.params = dash.params /\ dash'.begun = dash.begun
        /\ dash'.list = dash.list /\ dash'.of = dash.of /\ dash'.error = TRUE
    BY <1>1 DEF LoadFails, DashTyped
  <1>3. DashTyped' /\ DashTrue'
    BY <1>1, <1>2 DEF DashTyped, DashTrue
  <1>4. QED
    BY <1>2, <1>3, FewerLoads DEF DashInv, LoadFails

LEMMA ChangeDash ==
    ASSUME DashInv, Change
    PROVE  DashInv'
  <1>1. OrdersOk'
    BY AlteredStay DEF DashInv, Change
  <1>2. moved'.dash = TRUE /\ MovedTyped' /\ dash' = dash /\ loads' = loads
    BY DEF Change, MovedTyped
  <1>3. DashTyped' /\ DashTrue'
    BY <1>2 DEF DashInv, DashTyped, DashTrue
  <1>4. \A l : LoadTyped(l) /\ LoadTrue(l) => LoadTyped(l)' /\ LoadTrue(l)'
    BY <1>2 DEF LoadTyped, LoadTrue
  <1>5. QED
    BY <1>1, <1>2, <1>3, <1>4 DEF DashInv

LEMMA ElsewhereDash ==
    ASSUME DashInv, UNCHANGED <<db, dash, loads>>, MovedTyped', moved'.dash = moved.dash
    PROVE  DashInv'
  <1>1. orders' = orders /\ dash' = dash /\ loads' = loads
    BY DEF db
  <1>2. OrdersOk' /\ DashTyped' /\ DashTrue'
    BY <1>1, SameOrders DEF DashInv, DashTyped, DashTrue
  <1>3. \A l : LoadTyped(l) /\ LoadTrue(l) => LoadTyped(l)' /\ LoadTrue(l)'
    BY <1>1, SameOrders DEF LoadTyped, LoadTrue
  <1>4. QED
    BY <1>1, <1>2, <1>3 DEF DashInv

LEMMA NextDash ==
    ASSUME DashInv, [Next]_vars
    PROVE  DashInv'
  <1>1. ASSUME UNCHANGED <<db, dash, loads, moved>>
        PROVE  DashInv'
    BY <1>1, ElsewhereDash DEF DashInv, MovedTyped
  <1>2. CASE UNCHANGED vars
    BY <1>1, <1>2 DEF vars
  <1>3. CASE UseDashboard
    BY <1>3, UseDash
  <1>4. CASE StartExport
    <2>1. moved' = [moved EXCEPT !.export = FALSE] /\ UNCHANGED <<db, dash, loads>>
      BY <1>4 DEF StartExport
    <2>2. MovedTyped' /\ moved'.dash = moved.dash
      BY <2>1 DEF DashInv, MovedTyped
    <2>3. QED
      BY <2>1, <2>2, ElsewhereDash
  <1>5. CASE ReadChunk \/ CountChunk \/ EndExport
    BY <1>1, <1>5 DEF ReadChunk, CountChunk, EndExport
  <1>6. CASE \E l \in loads : ReadPage(l) \/ ReadCount(l) \/ ReadSummary(l) \/ EndLoad(l)
                                \/ LoadFails(l)
    BY <1>6, PageDash, CountDash, SummaryDash, EndDash, FailDash
  <1>7. CASE Change
    BY <1>7, ChangeDash
  <1>8. QED
    BY <1>2, <1>3, <1>4, <1>5, <1>6, <1>7 DEF Next

LEMMA SummaryAddsUp ==
    ASSUME OrdersOk
    PROVE  Summary.outstanding + Summary.collected = Sum([i \in DOMAIN orders |-> orders[i].total])
  <1>1. PICK S : S = Matching(All)
    OBVIOUS
  <1>2. PICK f : f = [i \in DOMAIN orders |-> orders[i].total - orders[i].paid]
    OBVIOUS
  <1>3. PICK g : g = [i \in DOMAIN orders |-> orders[i].paid]
    OBVIOUS
  <1>4. PICK h : h = [i \in DOMAIN orders |-> orders[i].total]
    OBVIOUS
  <1>5. IsFiniteSet(S) /\ S \subseteq DOMAIN orders
    BY <1>1, MatchingFinite
  <1>6. Adds(f, g, h, S)
    <2> SUFFICES ASSUME NEW x \in S
                 PROVE  f[x] \in Int /\ g[x] \in Int /\ h[x] = f[x] + g[x]
      BY DEF Adds
    <2>1. x \in DOMAIN orders /\ orders[x].total \in Nat /\ orders[x].paid \in Nat
      BY <1>5 DEF OrdersOk, Numbered, IsOrder
    <2>2. /\ f[x] = orders[x].total - orders[x].paid /\ g[x] = orders[x].paid
          /\ h[x] = orders[x].total
      BY <1>2, <1>3, <1>4, <2>1
    <2>3. QED
      BY <2>1, <2>2
  <1>7. SumFunctionOnSet(f, S) + SumFunctionOnSet(g, S) = SumFunctionOnSet(h, S)
    <2>1. /\ SumFunctionOnSet(f, S) \in Int /\ SumFunctionOnSet(g, S) \in Int
          /\ SumFunctionOnSet(f, S) + SumFunctionOnSet(g, S) = SumFunctionOnSet(h, S)
      BY ONLY <1>5, <1>6, SumsAdd
    <2>2. QED
      BY <2>1
  <1>8. /\ Summary.outstanding = SumFunctionOnSet(f, S)
        /\ Summary.collected = SumFunctionOnSet(g, S)
    BY <1>1, <1>2, <1>3 DEF Summary, Sum
  <1>9. Sum([i \in DOMAIN orders |-> orders[i].total]) = SumFunctionOnSet(h, S)
    BY <1>1, <1>4 DEF Sum
  <1>10. QED
    BY <1>7, <1>8, <1>9

LEMMA DashShown ==
    ASSUME DashInv
    PROVE  DashboardTrue
  <1>1. OrdersOk /\ DashTrue
    BY DEF DashInv
  <1>2. SUFFICES ASSUME ~dash.loading, ~dash.error, dash.shown = dash.begun
                 PROVE  /\ \A i \in DOMAIN dash.list :
                               dash.params.filter \in {All, dash.list[i].state}
                        /\ ~moved.dash =>
                              LET before == (dash.params.page - 1) * dash.params.limit
                              IN  /\ dash.total = Cardinality(Wanted(dash.params.filter))
                                  /\ Len(dash.list) =
                                         Max0(Least(dash.params.limit, dash.total - before))
                                  /\ dash.cards.outstanding + dash.cards.collected =
                                         Sum([i \in DOMAIN orders |-> orders[i].total])
                                  /\ dash.cards.pending = Cardinality(Wanted("pending"))
    BY DEF DashboardTrue
  <1>3. \A i \in DOMAIN dash.list : dash.params.filter \in {All, dash.list[i].state}
    BY <1>1, <1>2 DEF DashTrue, Bears
  <1>4. ASSUME ~moved.dash
        PROVE  /\ dash.total = Cardinality(Wanted(dash.params.filter))
               /\ Len(dash.list) = Max0(Least(dash.params.limit,
                      dash.total - (dash.params.page - 1) * dash.params.limit))
               /\ dash.cards = Summary
    <2>1. /\ Fills(dash.list, dash.params) /\ dash.cards = Summary
          /\ dash.total = Cardinality(Matching(dash.params.filter))
      BY <1>1, <1>2, <1>4 DEF DashTrue
    <2>2. Matching(dash.params.filter) = Wanted(dash.params.filter)
      BY <1>1, MatchingIsWanted
    <2>3. QED
      BY <2>1, <2>2 DEF Fills
  <1>5. Summary.pending = Cardinality(Wanted("pending"))
    BY <1>1, MatchingIsWanted DEF Summary
  <1>6. QED
    BY <1>1, <1>3, <1>4, <1>5, SummaryAddsUp

(* A dashboard at rest, whatever loads have overlapped, failed or been     *)
(* overtaken, shows rows that bear the status it filters by, and, if no    *)
(* order changed since the load began, just the page, the total and the    *)
(* cards of the orders there are; what is outstanding and what has been    *)
(* collected come to the totals of all orders (load of DashboardContent;   *)
(* queryOrdersPage, getSummaryForUser).                                    *)
THEOREM DashboardsAreTrue == Spec => []DashboardTrue
  <1>1. Init => DashInv
    BY InitDash
  <1>2. DashInv /\ [Next]_vars => DashInv'
    BY NextDash
  <1>3. DashInv => DashboardTrue
    BY DashShown
  <1>4. QED
    BY <1>1, <1>2, <1>3, PTL DEF Spec

-----------------------------------------------------------------------------
(* By creation there is one order. *)
LEMMA PrefixIs ==
    ASSUME NEW f \in Seq(Nat), NEW s \in Seq(Nat)
    PROVE  IsPrefix(f, s) <=> Len(f) <= Len(s) /\ \A i \in 1 .. Len(f) : f[i] = s[i]
  <1>1. PICK m \in Nat : m = Len(f)
    OBVIOUS
  <1>2. PICK n \in Nat : n = Len(s)
    OBVIOUS
  <1>3. SubSeq(f, 1, m) = f
    BY <1>1
  <1>4. ASSUME m <= n
        PROVE  SubSeq(f, 1, m) = SubSeq(s, 1, m) <=> \A i \in 1 .. m : f[i] = s[i]
    <2>1. PICK p : p = SubSeq(s, 1, m)
      OBVIOUS
    <2>2. p \in Seq(Nat) /\ Len(p) = m /\ \A i \in 1 .. m : p[i] = s[i]
      BY <1>2, <1>4, <2>1
    <2>3. ASSUME \A i \in 1 .. m : f[i] = s[i]
          PROVE  f = p
      <3>1. f \in [1 .. m -> Nat] /\ p \in [1 .. m -> Nat]
        BY <1>1, <2>2
      <3>2. \A i \in 1 .. m : f[i] = p[i]
        BY <2>2, <2>3
      <3>3. QED
        BY ONLY <3>1, <3>2
    <2>4. QED
      BY <1>1, <1>3, <2>1, <2>2, <2>3
  <1>5. QED
    BY <1>1, <1>2, <1>4 DEF IsPrefix

LEMMA Enumerates ==
    ASSUME NEW M, IsFiniteSet(M), NEW s \in [1 .. Cardinality(M) -> M],
           \A i, j \in DOMAIN s : i # j => s[i] # s[j]
    PROVE  \A x \in M : \E i \in 1 .. Cardinality(M) : s[i] = x
  <1>1. PICK n : n = Cardinality(M)
    OBVIOUS
  <1>2. n \in Nat
    BY <1>1, FS_CardinalityType
  <1>3. IsFiniteSet(1 .. n) /\ Cardinality(1 .. n) = IF 1 > n THEN 0 ELSE n - 1 + 1
    BY <1>2, FS_Interval
  <1>4. Cardinality(1 .. n) = n
    BY <1>2, <1>3
  <1>5. s \in Injection(1 .. n, M)
    BY <1>1 DEF Injection, IsInjective
  <1>6. s \in Surjection(1 .. n, M)
    BY <1>1, <1>4, <1>5, FS_Injection
  <1>7. QED
    BY <1>1, <1>6 DEF Surjection

(* Two enumerations in the same strict order: where they first differ, one *)
(* has what the other has only later.                                      *)
Ascends(s, n, r) == \A i, j \in 1 .. n : i < j => r[s[i]] < r[s[j]]
Covers(s, n, M) == \A x \in M : \E i \in 1 .. n : s[i] = x

LEMMA AscendingDiffer ==
    ASSUME NEW M, NEW n \in Nat, NEW r \in [M -> Int],
           NEW s \in [1 .. n -> M], Ascends(s, n, r),
           NEW i \in 1 .. n, NEW j \in 1 .. n, i # j
    PROVE  s[i] # s[j]
  <1>1. s[i] \in M /\ s[j] \in M
    OBVIOUS
  <1>2. r[s[i]] \in Int /\ r[s[j]] \in Int
    BY <1>1
  <1>3. i \in Nat /\ j \in Nat
    OBVIOUS
  <1>4. CASE i < j
    <2>1. r[s[i]] < r[s[j]]
      BY <1>4 DEF Ascends
    <2>2. QED
      BY <1>2, <2>1
  <1>5. CASE j < i
    <2>1. r[s[j]] < r[s[i]]
      BY <1>5 DEF Ascends
    <2>2. QED
      BY <1>2, <2>1
  <1>6. QED
    BY <1>3, <1>4, <1>5

LEMMA EarlierIs ==
    ASSUME NEW M, NEW n \in Nat, NEW r \in [M -> Int],
           NEW s \in [1 .. n -> M], NEW t \in [1 .. n -> M],
           Ascends(s, n, r), Ascends(t, n, r), Covers(s, n, M),
           NEW k \in 1 .. n, \A j \in 1 .. n : j < k => s[j] = t[j], s[k] # t[k]
    PROVE  r[s[k]] < r[t[k]]
  <1>1. PICK j \in 1 .. n : s[j] = t[k]
    BY DEF Covers
  <1>2. CASE j < k
    <2>1. t[j] = t[k] /\ j # k
      BY <1>1, <1>2
    <2>2. QED
      BY <2>1, AscendingDiffer
  <1>3. CASE k < j
    BY <1>1, <1>3 DEF Ascends
  <1>4. j # k
    BY <1>1
  <1>5. QED
    BY <1>2, <1>3, <1>4

LEMMA OneOrder ==
    ASSUME NEW M, NEW n \in Nat, NEW r \in [M -> Int],
           NEW s \in [1 .. n -> M], NEW t \in [1 .. n -> M],
           Ascends(s, n, r), Ascends(t, n, r), Covers(s, n, M), Covers(t, n, M)
    PROVE  s = t
  <1> SUFFICES ASSUME s # t PROVE FALSE
    OBVIOUS
  <1>1. PICK D : D = {i \in 1 .. n : s[i] # t[i]}
    OBVIOUS
  <1>2. D # {} /\ D \subseteq Nat
    <2>1. (\A i \in 1 .. n : s[i] = t[i]) => s = t
      OBVIOUS
    <2>2. QED
      BY <1>1, <2>1
  <1>3. PICK k \in D : \A j \in D : ~(j < k)
    BY <1>2, LeastNumber
  <1>4. k \in 1 .. n /\ s[k] # t[k] /\ t[k] # s[k]
    BY <1>1
  <1>5. \A j \in 1 .. n : j < k => s[j] = t[j] /\ t[j] = s[j]
    BY <1>1, <1>3
  <1>6. r[s[k]] < r[t[k]]
    <2>1. \A j \in 1 .. n : j < k => s[j] = t[j]
      BY <1>5
    <2>2. QED
      BY <1>4, <2>1, EarlierIs
  <1>7. r[t[k]] < r[s[k]]
    <2>1. \A j \in 1 .. n : j < k => t[j] = s[j]
      BY <1>5
    <2>2. QED
      BY <1>4, <2>1, EarlierIs
  <1>8. s[k] \in M /\ t[k] \in M
    BY <1>4
  <1>9. r[s[k]] \in Int /\ r[t[k]] \in Int
    BY <1>8
  <1>10. QED
    BY <1>6, <1>7, <1>9

LEMMA SortedStrictly ==
    ASSUME OrdersOk, NEW q, ByCreation(q), NEW s \in Sorted(q),
           NEW i \in DOMAIN s, NEW j \in DOMAIN s, i < j
    PROVE  IF q.sort = "createdAt_asc" THEN s[i] < s[j] ELSE s[i] > s[j]
  <1>1. PICK M : M = Matching(q.filter)
    OBVIOUS
  <1>2. s \in [1 .. Cardinality(M) -> M] /\ \A a, b \in DOMAIN s : a # b => s[a] # s[b]
    BY <1>1, SortedIs
  <1>3. s[i] \in M /\ s[j] \in M /\ s[i] # s[j]
    <2>1. i # j
      BY <1>2
    <2>2. QED
      BY <1>2, <2>1
  <1>4. /\ s[i] \in DOMAIN orders /\ s[j] \in DOMAIN orders
        /\ s[i] \in Nat /\ s[j] \in Nat
    BY <1>1, <1>3, MatchingFinite
  <1>5. orders[s[i]].id = s[i] /\ orders[s[j]].id = s[j]
    BY <1>4 DEF OrdersOk, Numbered
  <1>6. Rank(q.sort, orders[s[i]]) <= Rank(q.sort, orders[s[j]])
    BY DEF Sorted
  <1>7. CASE q.sort = "createdAt_asc"
    <2>1. \A o : Rank(q.sort, o) = o.id
      BY <1>7 DEF Rank
    <2>2. QED
      BY <1>3, <1>4, <1>5, <1>6, <1>7, <2>1
  <1>8. CASE q.sort = "createdAt_desc"
    <2>1. \A o : Rank(q.sort, o) = -o.id
      BY <1>8 DEF Rank
    <2>2. QED
      BY <1>3, <1>4, <1>5, <1>6, <1>8, <2>1
  <1>9. QED
    BY <1>7, <1>8 DEF ByCreation

LEMMA SortedCovers ==
    ASSUME OrdersOk, NEW q, NEW s \in Sorted(q)
    PROVE  Covers(s, Cardinality(Matching(q.filter)), Matching(q.filter))
  <1>1. PICK M : M = Matching(q.filter)
    OBVIOUS
  <1>2. IsFiniteSet(M) /\ s \in [1 .. Cardinality(M) -> M]
    BY <1>1, SortedIs, MatchingFinite
  <1>3. \A i, j \in DOMAIN s : i # j => s[i] # s[j]
    BY SortedIs
  <1>4. \A x \in M : \E i \in 1 .. Cardinality(M) : s[i] = x
    BY ONLY <1>2, <1>3, Enumerates
  <1>5. QED
    BY <1>1, <1>4 DEF Covers

LEMMA SortedRange ==
    ASSUME OrdersOk, NEW q, NEW s \in Sorted(q)
    PROVE  Range(s) = Matching(q.filter)
  <1>1. PICK M : M = Matching(q.filter)
    OBVIOUS
  <1>2. s \in [1 .. Cardinality(M) -> M]
    BY <1>1, SortedIs
  <1>3. Covers(s, Cardinality(M), M)
    BY <1>1, SortedCovers
  <1>4. QED
    BY <1>1, <1>2, <1>3 DEF Covers, Range

LEMMA OneByCreation ==
    ASSUME OrdersOk, NEW q, ByCreation(q), NEW s \in Sorted(q), NEW t \in Sorted(q)
    PROVE  s = t
  <1>1. PICK M : M = Matching(q.filter)
    OBVIOUS
  <1>2. PICK n : n = Cardinality(M)
    OBVIOUS
  <1>3. n \in Nat /\ M \subseteq Nat
    BY <1>1, <1>2, MatchingFinite
  <1>4. s \in [1 .. n -> M] /\ t \in [1 .. n -> M]
    BY <1>1, <1>2, SortedIs
  <1>5. Covers(s, n, M) /\ Covers(t, n, M)
    BY <1>1, <1>2, SortedCovers
  <1>6. PICK r : r = [x \in M |-> IF q.sort = "createdAt_asc" THEN x ELSE -x]
    OBVIOUS
  <1>7. r \in [M -> Int]
    BY <1>3, <1>6
  <1>8. ASSUME NEW u \in Sorted(q), u \in [1 .. n -> M]
        PROVE  Ascends(u, n, r)
    <2> SUFFICES ASSUME NEW i \in 1 .. n, NEW j \in 1 .. n, i < j
                 PROVE  r[u[i]] < r[u[j]]
      BY DEF Ascends
    <2>1. i \in DOMAIN u /\ j \in DOMAIN u /\ u[i] \in M /\ u[j] \in M
      BY <1>8
    <2>2. IF q.sort = "createdAt_asc" THEN u[i] < u[j] ELSE u[i] > u[j]
      BY <2>1, SortedStrictly
    <2>3. u[i] \in Nat /\ u[j] \in Nat
      BY <1>3, <2>1
    <2>4. QED
      BY <1>6, <2>1, <2>2, <2>3
  <1>9. Ascends(s, n, r) /\ Ascends(t, n, r)
    BY <1>4, <1>8
  <1>10. QED
    BY ONLY <1>3, <1>4, <1>5, <1>7, <1>9, OneOrder

(* A chunk goes on where the file ends. *)
LEMMA ChunkGoesOn ==
    ASSUME NEW f \in Seq(Nat), NEW s \in Seq(Nat), IsPrefix(f, s), NEW limit \in Nat
    PROVE  /\ SubSeq(s, Len(f) + 1, Least(Len(f) + limit, Len(s))) \in Seq(Nat)
           /\ IsPrefix(f \o SubSeq(s, Len(f) + 1, Least(Len(f) + limit, Len(s))), s)
  <1>1. PICK m \in Nat : m = Len(f)
    OBVIOUS
  <1>2. PICK n : n = Least(m + limit, Len(s))
    OBVIOUS
  <1>3. m <= Len(s) /\ \A i \in 1 .. m : f[i] = s[i]
    BY <1>1, PrefixIs
  <1>4. n \in Nat /\ n <= Len(s) /\ m <= n /\ Len(s) \in Nat
    BY <1>2, <1>3 DEF Least
  <1>5. PICK c : c = SubSeq(s, m + 1, n)
    OBVIOUS
  <1>6. c \in Seq(Nat) /\ Len(c) = n - m /\ \A i \in 1 .. n - m : c[i] = s[m + i]
    <2>1. \A i \in m + 1 .. n : s[i] \in Nat
      BY <1>4
    <2>2. m + 1 \in Int /\ n \in Int
      BY <1>4
    <2>3. /\ SubSeq(s, m + 1, n) \in Seq(Nat)
          /\ Len(SubSeq(s, m + 1, n)) = IF m + 1 <= n THEN n - (m + 1) + 1 ELSE 0
          /\ \A i \in 1 .. n - (m + 1) + 1 : SubSeq(s, m + 1, n)[i] = s[m + 1 + i - 1]
      BY ONLY <2>1, <2>2, SubSeqProperties
    <2>4. \A i \in 1 .. n - (m + 1) + 1 : c[i] = s[m + 1 + i - 1]
      BY <1>5, <2>3
    <2>5. ASSUME NEW i \in 1 .. n - m
          PROVE  c[i] = s[m + i]
      <3>1. i \in 1 .. n - (m + 1) + 1 /\ m + 1 + i - 1 = m + i
        BY <1>4
      <3>2. QED
        BY <2>4, <3>1
    <2>6. Len(c) = n - m
      BY <1>4, <1>5, <2>3
    <2>7. QED
      BY <1>5, <2>3, <2>5, <2>6
  <1>7. PICK g : g = f \o c
    OBVIOUS
  <1>8. g \in Seq(Nat) /\ Len(g) = n
    <2>1. c \in Seq(Nat) /\ Len(c) = n - m
      BY <1>6
    <2>2. f \o c \in Seq(Nat) /\ Len(f \o c) = Len(f) + Len(c)
      BY ONLY <2>1, f \in Seq(Nat), ConcatProperties
    <2>3. QED
      BY <1>1, <1>4, <1>7, <2>1, <2>2
  <1>9. \A i \in 1 .. n : g[i] = s[i]
    <2>1. TAKE i \in 1 .. n
    <2>2. CASE i <= m
      <3>1. g[i] = f[i]
        BY <1>1, <1>4, <1>6, <1>7, <2>2
      <3>2. QED
        BY <1>3, <2>2, <3>1
    <2>3. CASE i > m
      <3>1. g[i] = c[i - m]
        BY <1>1, <1>4, <1>6, <1>7, <2>3
      <3>2. i - m \in 1 .. n - m /\ m + (i - m) = i
        BY <1>4, <2>3
      <3>3. QED
        BY <1>6, <3>1, <3>2
    <2>4. QED
      BY <2>2, <2>3
  <1>10. IsPrefix(g, s)
    BY <1>4, <1>8, <1>9, PrefixIs
  <1>11. QED
    BY <1>1, <1>2, <1>5, <1>6, <1>7, <1>10

-----------------------------------------------------------------------------
(* The export. *)
SortedFacts ==
    \A q : \A s \in Sorted(q) :
        /\ s \in Seq(Nat) /\ Range(s) = Matching(q.filter)
        /\ ByCreation(q) => \A t \in Sorted(q) : t = s

LEMMA SortedAll == OrdersOk => SortedFacts
  BY SortedIs, SortedRange, OneByCreation DEF SortedFacts

LEMMA SortedAllThen == OrdersOk' => SortedFacts'
  BY SortedAll, PTL

LEMMA PrefixOfPrefix ==
    ASSUME NEW f \in Seq(Nat), NEW s \in Seq(Nat), NEW t \in Seq(Nat),
           IsPrefix(f, s), IsPrefix(s, t)
    PROVE  IsPrefix(f, t) /\ Range(s) \subseteq Range(t)
  <1>1. Len(f) <= Len(s) /\ \A i \in 1 .. Len(f) : f[i] = s[i]
    BY PrefixIs
  <1>2. Len(s) <= Len(t) /\ \A i \in 1 .. Len(s) : s[i] = t[i]
    BY PrefixIs
  <1>3. Len(f) \in Nat /\ Len(s) \in Nat /\ Len(t) \in Nat
    OBVIOUS
  <1>4. Len(f) <= Len(t) /\ \A i \in 1 .. Len(f) : f[i] = t[i]
    BY <1>1, <1>2, <1>3
  <1>5. IsPrefix(f, t)
    BY <1>4, PrefixIs
  <1>6. DOMAIN s = 1 .. Len(s) /\ DOMAIN t = 1 .. Len(t)
    OBVIOUS
  <1>7. Range(s) \subseteq Range(t)
    BY <1>2, <1>3, <1>6 DEF Range
  <1>8. QED
    BY <1>5, <1>7

(* A prefix of what there is that is as long is all of it. *)
LEMMA WholePrefix ==
    ASSUME NEW f \in Seq(Nat), NEW s \in Seq(Nat), IsPrefix(f, s), Len(f) >= Len(s)
    PROVE  f = s
  <1>1. PICK n \in Nat : n = Len(s)
    OBVIOUS
  <1>2. Len(f) <= Len(s) /\ \A i \in 1 .. Len(f) : f[i] = s[i]
    BY PrefixIs
  <1>3. Len(f) = n
    BY <1>1, <1>2
  <1>4. f \in [1 .. n -> Nat] /\ s \in [1 .. n -> Nat]
    BY <1>1, <1>3
  <1>5. \A i \in 1 .. n : f[i] = s[i]
    BY <1>2, <1>3
  <1>6. QED
    BY ONLY <1>4, <1>5

LEMMA SameFollows ==
    ASSUME orders' = orders
    PROVE  \A e : Follows(e)' = Follows(e)
  <1>1. \A f : Matching(f)' = Matching(f)
    BY SameOrders
  <1>2. \A q : Sorted(q)' = Sorted(q)
    BY <1>1 DEF Sorted
  <1>3. QED
    BY <1>1, <1>2 DEF Follows

(* What an export has to be after a step that leaves the orders alone. *)
LEMMA StepExport ==
    ASSUME ExportInv, orders' = orders, MovedTyped', ExportTyped',
           \A e : e = export' /\ e # NoExport /\ ~moved'.export /\ ByCreation(e) => Follows(e)
    PROVE  ExportInv'
  <1>1. OrdersOk'
    BY SameOrders DEF ExportInv
  <1>2. ExportTrue'
    <2>1. SUFFICES ASSUME export' # NoExport, ~moved'.export, ByCreation(export')
                   PROVE  Follows(export)'
      BY DEF ExportTrue, NoExport, ByCreation
    <2>2. PICK e : e = export'
      OBVIOUS
    <2>3. Follows(e)
      BY <2>1, <2>2
    <2>4. Follows(e)'
      BY <2>3, SameFollows
    <2>5. QED
      BY <2>2, <2>4 DEF Follows
  <1>3. QED
    BY <1>1, <1>2 DEF ExportInv

LEMMA StillExport ==
    ASSUME ExportInv, orders' = orders, export' = export, MovedTyped',
           moved'.export = moved.export
    PROVE  ExportInv'
  <1>1. ExportTyped'
    BY DEF ExportInv, ExportTyped, NoExport
  <1>2. \A e : e = export' /\ e # NoExport /\ ~moved'.export /\ ByCreation(e) => Follows(e)
    BY DEF ExportInv, ExportTrue
  <1>3. QED
    BY <1>1, <1>2, StepExport

LEMMA BeginsExport ==
    ASSUME ExportInv, StartExport
    PROVE  ExportInv'
  <1>1. PICK e : e = [step |-> "rows", filter |-> dash.params.filter, sort |-> dash.params.sort,
                      offset |-> 0, chunk |-> <<>>, file |-> <<>>,
                      goal |-> Matching(dash.params.filter)]
    OBVIOUS
  <1>2. export' = e /\ orders' = orders /\ MovedTyped'
    BY <1>1 DEF StartExport, db, ExportInv, MovedTyped
  <1>3. e.file = <<>> /\ e.chunk = <<>> /\ e.step = "rows" /\ e.goal = Matching(e.filter)
    BY <1>1
  <1>4. ExportTyped'
    <2>1. e.file \in Seq(Nat) /\ e.chunk \in Seq(Nat) /\ e.offset = Len(e.file)
      BY <1>1
    <2>2. DOMAIN e = {"step", "filter", "sort", "offset", "chunk", "file", "goal"}
      BY <1>1
    <2>3. QED
      BY <1>2, <1>3, <2>1, <2>2 DEF ExportTyped
  <1>5. Follows(e)
    <2>1. ASSUME NEW s \in Sorted(e)
          PROVE  IsPrefix(e.file \o e.chunk, s)
      <3>1. e.file \o e.chunk = <<>> /\ <<>> \in Seq(Nat) /\ Len(<<>>) = 0
        BY <1>3
      <3>2. s \in Seq(Nat) /\ Len(s) \in Nat
        BY SortedAll DEF ExportInv, SortedFacts
      <3>3. IsPrefix(<<>>, s)
        <4>1. PICK f \in Seq(Nat) : f = <<>>
          BY <3>1
        <4>2. Len(f) <= Len(s) /\ \A i \in 1 .. Len(f) : f[i] = s[i]
          BY <3>1, <3>2, <4>1
        <4>3. QED
          BY <3>2, <4>1, <4>2, PrefixIs
      <3>4. QED
        BY <3>1, <3>3
    <2>2. QED
      BY <1>3, <2>1 DEF Follows
  <1>6. QED
    BY <1>2, <1>4, <1>5, StepExport

LEMMA SortedAs ==
    ASSUME NEW p, NEW q, p.filter = q.filter, p.sort = q.sort
    PROVE  Sorted(p) = Sorted(q) /\ (ByCreation(p) <=> ByCreation(q))
  BY DEF Sorted, ByCreation

LEMMA ChunkExport ==
    ASSUME ExportInv, ReadChunk
    PROVE  ExportInv'
  <1>1. PICK e : e = export
    OBVIOUS
  <1>2. /\ DOMAIN e = {"step", "filter", "sort", "offset", "chunk", "file", "goal"}
        /\ e.step = "rows" /\ e.file \in Seq(Nat) /\ e.chunk = <<>> /\ e.offset = Len(e.file)
    BY <1>1 DEF ReadChunk, ExportInv, ExportTyped, NoExport
  <1>3. PICK c \in Pages(e, CHUNK, e.offset) :
            export' = [e EXCEPT !.step = "count", !.chunk = c]
    BY <1>1 DEF ReadChunk
  <1>4. PICK t \in Sorted(e) : c = SubSeq(t, e.offset + 1, Least(e.offset + CHUNK, Len(t)))
    BY DEF Pages
  <1>5. t \in Seq(Nat)
    BY SortedAll DEF ExportInv, SortedFacts
  <1>6. PICK m \in Nat : m = Len(e.file) /\ m = e.offset
    BY <1>2
  <1>7. c \in Seq(Nat)
    <2>1. /\ SubSeq(t, m + 1, Least(m + CHUNK, Len(t))) \in Seq(Nat)
          /\ Len(SubSeq(t, m + 1, Least(m + CHUNK, Len(t)))) = Max0(Least(CHUNK, Len(t) - m))
      BY <1>5, ViewsAssumption, PageOfSeq
    <2>2. QED
      BY <1>4, <1>6, <2>1
  <1>8. PICK new : new = [e EXCEPT !.step = "count", !.chunk = c]
    OBVIOUS
  <1>9. /\ new.step = "count" /\ new.chunk = c /\ new.file = e.file /\ new.filter = e.filter
        /\ new.sort = e.sort /\ new.goal = e.goal /\ new.offset = e.offset
        /\ DOMAIN new = DOMAIN e
    BY <1>2, <1>8
  <1>10. export' = new /\ orders' = orders /\ moved' = moved
    BY <1>3, <1>8 DEF ReadChunk, db
  <1>11. ExportTyped' /\ MovedTyped'
    BY <1>2, <1>7, <1>9, <1>10 DEF ExportTyped, MovedTyped, ExportInv
  <1>12. ASSUME ~moved.export, ByCreation(new)
         PROVE  Follows(new)
    <2>1. Sorted(new) = Sorted(e) /\ ByCreation(e)
      BY <1>9, <1>12, SortedAs
    <2>2. Follows(e)
      BY <1>1, <1>2, <1>12, <2>1 DEF ExportInv, ExportTrue, NoExport
    <2>3. IsPrefix(e.file, t)
      <3>1. e.file \o e.chunk = e.file
        BY <1>2
      <3>2. QED
        BY <2>2, <3>1 DEF Follows
    <2>4. IsPrefix(e.file \o c, t)
      <3>1. PICK f \in Seq(Nat) : f = e.file
        BY <1>2
      <3>2. /\ SubSeq(t, Len(f) + 1, Least(Len(f) + CHUNK, Len(t))) \in Seq(Nat)
            /\ IsPrefix(f \o SubSeq(t, Len(f) + 1, Least(Len(f) + CHUNK, Len(t))), t)
        BY <1>5, <2>3, <3>1, ViewsAssumption, ChunkGoesOn
      <3>3. QED
        BY <1>2, <1>4, <3>1, <3>2
    <2>5. \A s \in Sorted(e) : s = t
      BY <2>1, SortedAll DEF ExportInv, SortedFacts
    <2>6. QED
      BY <1>2, <1>9, <2>1, <2>2, <2>4, <2>5 DEF Follows
  <1>13. QED
    BY <1>10, <1>11, <1>12, StepExport

LEMMA CountExport ==
    ASSUME ExportInv, CountChunk
    PROVE  ExportInv'
  <1>1. PICK e : e = export
    OBVIOUS
  <1>2. /\ DOMAIN e = {"step", "filter", "sort", "offset", "chunk", "file", "goal"}
        /\ e.step = "count" /\ e.file \in Seq(Nat) /\ e.chunk \in Seq(Nat)
        /\ e.offset = Len(e.file)
    BY <1>1 DEF CountChunk, ExportInv, ExportTyped, NoExport
  <1>3. orders' = orders /\ moved' = moved /\ MovedTyped'
    BY DEF CountChunk, db, ExportInv, MovedTyped
  <1>4. PICK total : total = Cardinality(Matching(e.filter))
    OBVIOUS
  <1>5. PICK end : end = e.offset + Len(e.chunk)
    OBVIOUS
  <1>6. CASE export' = NoExport
    <2>1. ExportTyped'
      BY <1>6 DEF ExportTyped
    <2>2. QED
      BY <1>3, <1>6, <2>1, StepExport
  <1>7. CASE export' = [e EXCEPT !.step = IF HasMore(end, total) THEN "rows" ELSE "file",
                                 !.offset = end, !.chunk = <<>>,
                                 !.file = e.file \o e.chunk]
    <2>1. PICK file : file = e.file \o e.chunk
      OBVIOUS
    <2>2. file \in Seq(Nat) /\ Len(file) = end
      <3>1. e.file \o e.chunk \in Seq(Nat) /\ Len(e.file \o e.chunk) = Len(e.file) + Len(e.chunk)
        BY <1>2, ConcatProperties
      <3>2. QED
        BY <1>2, <1>5, <2>1, <3>1
    <2>3. PICK new : new = [e EXCEPT !.step = IF HasMore(end, total) THEN "rows" ELSE "file",
                                     !.offset = end, !.chunk = <<>>, !.file = file]
      OBVIOUS
    <2>4. /\ new.step = IF HasMore(end, total) THEN "rows" ELSE "file"
          /\ new.chunk = <<>> /\ new.file = file /\ new.filter = e.filter
          /\ new.sort = e.sort /\ new.goal = e.goal /\ new.offset = end /\ DOMAIN new = DOMAIN e
      BY <1>2, <2>3
    <2>5. export' = new
      BY <1>7, <2>1, <2>3
    <2>6. ExportTyped'
      <3>1. new.chunk \in Seq(Nat)
        BY <2>4
      <3>2. QED
        BY <1>2, <2>2, <2>4, <2>5, <3>1 DEF ExportTyped
    <2>7. ASSUME ~moved.export, ByCreation(new)
          PROVE  Follows(new)
      <3>1. Sorted(new) = Sorted(e) /\ ByCreation(e)
        BY <2>4, <2>7, SortedAs
      <3>2. Follows(e)
        BY <1>1, <1>2, <2>7, <3>1 DEF ExportInv, ExportTrue, NoExport
      <3>3. new.file \o new.chunk = file
        BY <2>2, <2>4
      <3>4. \A s \in Sorted(e) : IsPrefix(file, s)
        BY <2>1, <3>2 DEF Follows
      <3>5. PICK s : s \in Sorted(e)
        BY <1>2, <3>2 DEF Follows
      <3>6. ASSUME ~HasMore(end, total)
            PROVE  e.goal \subseteq Range(file)
        <4>1. s \in Seq(Nat) /\ Range(s) = Matching(e.filter) /\ Len(s) = total
          BY <1>4, <3>5, SortedAll, SortedIs DEF ExportInv, SortedFacts
        <4>2. Len(file) >= Len(s)
          <5>1. end \in Nat /\ total \in Nat
            BY <1>4, <2>2, MatchingFinite DEF ExportInv
          <5>2. QED
            BY <2>2, <3>6, <4>1, <5>1 DEF HasMore
        <4>3. file = s
          BY <2>2, <3>4, <3>5, <4>1, <4>2, WholePrefix
        <4>4. QED
          BY <3>2, <4>1, <4>3 DEF Follows
      <3>7. QED
        BY <2>4, <3>1, <3>2, <3>3, <3>4, <3>5, <3>6 DEF Follows
    <2>8. QED
      BY <1>3, <2>5, <2>6, <2>7, StepExport
  <1>8. QED
    BY <1>1, <1>4, <1>5, <1>6, <1>7 DEF CountChunk

LEMMA ChangeExport ==
    ASSUME ExportInv, Change
    PROVE  ExportInv'
  <1>1. OrdersOk'
    BY AlteredStay DEF ExportInv, Change
  <1>2. export' = export /\ MovedTyped'
    BY DEF Change, MovedTyped
  <1>3. ExportTyped'
    BY <1>2 DEF ExportInv, ExportTyped
  <1>4. ASSUME export # NoExport, ~moved'.export, ByCreation(export)
        PROVE  Follows(export)'
    <2>1. /\ ~moved.export
          /\ \E s \in Sorted(export), t \in Sorted(export)' : IsPrefix(s, t)
      BY <1>4 DEF Change
    <2>2. PICK s \in Sorted(export), t \in Sorted(export)' : IsPrefix(s, t)
      BY <2>1
    <2>3. Follows(export)
      BY <1>4, <2>1 DEF ExportInv, ExportTrue
    <2>4. s \in Seq(Nat) /\ Range(s) = Matching(export.filter)
      BY <2>2, SortedAll DEF ExportInv, SortedFacts
    <2>5. SortedFacts'
      BY <1>1, SortedAllThen
    <2>6. PICK e : e = export
      OBVIOUS
    <2>7. Sorted(export)' = Sorted(e)' /\ Matching(export.filter)' = Matching(e.filter)'
      BY <1>2, <2>6 DEF Sorted, Matching
    <2>8. t \in Seq(Nat) /\ Range(t) = Matching(e.filter)' /\ \A u \in Sorted(e)' : u = t
      BY <1>4, <2>2, <2>5, <2>6, <2>7 DEF SortedFacts, ByCreation
    <2>9. PICK f : f = e.file \o e.chunk
      OBVIOUS
    <2>10. f \in Seq(Nat)
      BY <1>4, <2>6, <2>9 DEF ExportInv, ExportTyped
    <2>11. IsPrefix(f, s)
      BY <2>2, <2>3, <2>6, <2>9 DEF Follows
    <2>12. IsPrefix(f, t) /\ Range(s) \subseteq Range(t)
      BY <2>2, <2>4, <2>8, <2>10, <2>11, PrefixOfPrefix
    <2>13. /\ e.goal \subseteq Matching(e.filter)
           /\ e.step = "file" => e.goal \subseteq Range(e.file)
      BY <2>3, <2>6 DEF Follows
    <2>14. Follows(e)'
      BY <2>2, <2>4, <2>6, <2>7, <2>8, <2>9, <2>12, <2>13 DEF Follows
    <2>15. QED
      BY <1>2, <2>6, <2>7, <2>14 DEF Follows
  <1>5. QED
    BY <1>1, <1>2, <1>3, <1>4 DEF ExportInv, ExportTrue, NoExport, ByCreation

LEMMA NextExport ==
    ASSUME ExportInv, [Next]_vars
    PROVE  ExportInv'
  <1>1. ASSUME UNCHANGED <<db, export>>, MovedTyped', moved'.export = moved.export
        PROVE  ExportInv'
    BY <1>1, StillExport DEF db
  <1>2. ASSUME UNCHANGED <<db, export, moved>>
        PROVE  ExportInv'
    BY <1>1, <1>2 DEF ExportInv, MovedTyped
  <1>3. CASE UNCHANGED vars
    BY <1>2, <1>3 DEF vars
  <1>4. CASE UseDashboard
    <2>1. moved' = [moved EXCEPT !.dash = FALSE] /\ UNCHANGED <<db, export>>
      BY <1>4 DEF UseDashboard, Begin
    <2>2. MovedTyped' /\ moved'.export = moved.export
      BY <2>1 DEF ExportInv, MovedTyped
    <2>3. QED
      BY <1>1, <2>1, <2>2
  <1>5. CASE StartExport
    BY <1>5, BeginsExport
  <1>6. CASE ReadChunk
    BY <1>6, ChunkExport
  <1>7. CASE CountChunk
    BY <1>7, CountExport
  <1>8. CASE EndExport
    <2>1. export' = NoExport /\ UNCHANGED <<db, moved>>
      BY <1>8 DEF EndExport
    <2>2. orders' = orders /\ MovedTyped' /\ ExportTyped'
      BY <2>1 DEF db, ExportInv, MovedTyped, ExportTyped
    <2>3. QED
      BY <2>1, <2>2, StepExport
  <1>9. CASE \E l \in loads : ReadPage(l) \/ ReadCount(l) \/ ReadSummary(l) \/ EndLoad(l)
                                \/ LoadFails(l)
    BY <1>2, <1>9 DEF ReadPage, ReadCount, ReadSummary, Got, EndLoad, LoadFails
  <1>10. CASE Change
    BY <1>10, ChangeExport
  <1>11. QED
    BY <1>3, <1>4, <1>5, <1>6, <1>7, <1>8, <1>9, <1>10 DEF Next

LEMMA FileExact ==
    ASSUME ExportInv
    PROVE  ExportExact
  <1> SUFFICES ASSUME export.step = "file", ~moved.export,
                      export.sort \in {"createdAt_asc", "createdAt_desc"}
               PROVE  /\ export.goal \subseteq Range(export.file)
                      /\ Range(export.file) \subseteq Wanted(export.filter)
                      /\ \A i, j \in DOMAIN export.file : i < j =>
                            IF export.sort = "createdAt_asc" THEN export.file[i] < export.file[j]
                                                             ELSE export.file[i] > export.file[j]
    BY DEF ExportExact
  <1>1. PICK e : e = export
    OBVIOUS
  <1>2. e # NoExport /\ ByCreation(e)
    BY <1>1 DEF NoExport, ByCreation
  <1>3. /\ e.file \in Seq(Nat) /\ e.chunk = <<>>
    BY <1>1, <1>2 DEF ExportInv, ExportTyped
  <1>4. Follows(e)
    BY <1>1, <1>2 DEF ExportInv, ExportTrue
  <1>5. PICK s : s \in Sorted(e)
    BY <1>1, <1>4 DEF Follows
  <1>6. e.file \o e.chunk = e.file
    BY <1>3
  <1>7. IsPrefix(e.file, s)
    BY <1>4, <1>5, <1>6 DEF Follows
  <1>8. s \in Seq(Nat) /\ Range(s) = Matching(e.filter)
    BY <1>5, SortedAll DEF ExportInv, SortedFacts
  <1>9. Len(e.file) <= Len(s) /\ \A i \in 1 .. Len(e.file) : e.file[i] = s[i]
    BY <1>3, <1>7, <1>8, PrefixIs
  <1>10. DOMAIN e.file = 1 .. Len(e.file) /\ Len(e.file) \in Nat /\ DOMAIN s = 1 .. Len(s)
         /\ Len(s) \in Nat
    BY <1>3, <1>8
  <1>11. Range(e.file) \subseteq Wanted(e.filter)
    <2>1. Range(e.file) \subseteq Range(s)
      BY <1>9, <1>10 DEF Range
    <2>2. QED
      BY <1>8, <2>1, MatchingIsWanted DEF ExportInv
  <1>12. ASSUME NEW i \in DOMAIN e.file, NEW j \in DOMAIN e.file, i < j
         PROVE  IF e.sort = "createdAt_asc" THEN e.file[i] < e.file[j]
                                            ELSE e.file[i] > e.file[j]
    <2>1. i \in DOMAIN s /\ j \in DOMAIN s /\ e.file[i] = s[i] /\ e.file[j] = s[j]
      BY <1>9, <1>10
    <2>2. IF e.sort = "createdAt_asc" THEN s[i] < s[j] ELSE s[i] > s[j]
      BY <1>2, <1>5, <1>12, <2>1, SortedStrictly DEF ExportInv
    <2>3. QED
      BY <2>1, <2>2
  <1>13. e.goal \subseteq Range(e.file)
    BY <1>1, <1>4 DEF Follows
  <1>14. QED
    BY <1>1, <1>11, <1>12, <1>13

(* A file sorted by creation, put together from however many chunks, while *)
(* orders are paid and new ones come behind them, holds every order that   *)
(* was to be exported when the export began, only such as are to be, each  *)
(* once and in order (downloadOrdersCsv, getOrdersForCsvExport, hasMore).  *)
THEOREM ExportsAreExact == Spec => []ExportExact
  <1>1. Init => ExportInv
    BY InitOrders DEF Init, ExportInv, MovedTyped, ExportTyped, ExportTrue
  <1>2. ExportInv /\ [Next]_vars => ExportInv'
    BY NextExport
  <1>3. ExportInv => ExportExact
    BY FileExact
  <1>4. QED
    BY <1>1, <1>2, <1>3, PTL DEF Spec

=============================================================================
