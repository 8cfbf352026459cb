------------------------ MODULE ConnectionPoolProofs ------------------------
(***************************************************************************)
(* Theorems of ConnectionPool for any number of callers and connections:   *)
(* what the pool promises as long as no handler asks it for a connection   *)
(* while it holds one.                                                     *)
(***************************************************************************)
EXTENDS ConnectionPool, TLAPS

(* A handler that connects asks for nothing until it releases. *)
EmptyHanded(s) ==
    \A i \in 1 .. Len(s) :
        /\ s[i] = "connect" => i < Len(s) /\ s[i + 1] = "release"
        /\ s[i] = "release" => i > 1 /\ s[i - 1] = "connect"

TypeOK ==
    /\ script \in [Callers -> Scripts]
    /\ step \in [Callers -> Nat \ {0}]
    /\ phase \in [Callers -> {"idle", "ready", "waiting", "using", "done"}]
    /\ held \in [Callers -> Seq(Connections)]
    /\ queue \in Seq(Callers)

Requesting(c, wants) == step[c] <= Len(script[c]) /\ Wanted(c) \in wants

(* What a caller holds follows from where its handler is: a connection in  *)
(* use, or the one that it is about to release.                            *)
HoldsOne(c) ==
    \/ phase[c] = "using" /\ Requesting(c, {"query", "connect"})
    \/ phase[c] = "ready" /\ Requesting(c, {"release"})

InHand(c) ==
    /\ HoldsOne(c) => Len(held[c]) = 1
    /\ ~HoldsOne(c) => held[c] = <<>>
    /\ phase[c] \in {"waiting", "using"} => Requesting(c, {"query", "connect"})
    /\ phase[c] = "idle" => step[c] = 1

(* The pool's queue holds the callers that wait, each of them once. *)
QueueInv ==
    /\ \A i \in 1 .. Len(queue) : phase[queue[i]] = "waiting"
    /\ \A i, j \in 1 .. Len(queue) : queue[i] = queue[j] => i = j

(* A connection is in the hands of one caller at a time. *)
OneHolder ==
    \A c, d \in Callers : c # d => Range(held[c]) \cap Range(held[d]) = {}

PoolInv == TypeOK /\ (\A c \in Callers : InHand(c)) /\ QueueInv /\ OneHolder

-----------------------------------------------------------------------------
(* The handlers of the code ask with empty hands, except for the PATCH of  *)
(* customer or due date.                                                   *)
LEMMA ScriptsOfTheCode ==
    /\ EmptyHanded(RecordPaymentScript) /\ EmptyHanded(CreateOrderScript)
    /\ EmptyHanded(ReplaceLinesScript) /\ EmptyHanded(DeleteOrderScript)
    /\ ~EmptyHanded(RenameOrderScript)
  <1>1. EmptyHanded(RecordPaymentScript)
    BY DEF EmptyHanded, RecordPaymentScript
  <1>2. EmptyHanded(CreateOrderScript)
    BY DEF EmptyHanded, CreateOrderScript
  <1>3. EmptyHanded(ReplaceLinesScript)
    BY DEF EmptyHanded, ReplaceLinesScript
  <1>4. EmptyHanded(DeleteOrderScript)
    BY DEF EmptyHanded, DeleteOrderScript
  <1>5. ~EmptyHanded(RenameOrderScript)
    BY DEF EmptyHanded, RenameOrderScript
  <1>6. QED
    BY <1>1, <1>2, <1>3, <1>4, <1>5

(* One of the hands is emptied, or takes up a connection that is free. *)
LEMMA HandsOf ==
    ASSUME NEW s \in Seq(Connections)
    PROVE  /\ Len(s) = 1 => Front(s) = <<>>
           /\ s = <<>> => \A k \in Connections :
                 /\ Append(s, k) \in Seq(Connections) /\ Len(Append(s, k)) = 1
                 /\ Range(Append(s, k)) = {k}
  <1>1. Len(s) = 1 => Front(s) = <<>>
    BY DEF Front
  <1>2. ASSUME s = <<>>, NEW k \in Connections
        PROVE  /\ Append(s, k) \in Seq(Connections) /\ Len(Append(s, k)) = 1
               /\ Range(Append(s, k)) = {k}
    <2>1. Append(s, k) = <<k>>
      BY <1>2
    <2>2. Range(<<k>>) = {k}
      BY DEF Range
    <2>3. QED
      BY <2>1, <2>2
  <1>3. QED
    BY <1>1, <1>2

(* Who has empty hands holds nothing. *)
LEMMA HoldsNothing == Range(<<>>) = {}
  BY DEF Range

-----------------------------------------------------------------------------
(* One step of the handler of c, apart from what it asks of the queue. *)
CallerStep(c) ==
    Start(c) \/ Ask(c) \/ Complete(c) \/ Release(c) \/ Return(c) \/ StatementFails(c)

(* The steps of a caller, and what the pool grants it, move nobody else.   *)
MovesOnly(c) ==
    /\ script' = script
    /\ step' = [step EXCEPT ![c] = step'[c]]
    /\ phase' = [phase EXCEPT ![c] = phase'[c]]
    /\ held' = [held EXCEPT ![c] = held'[c]]

(* Who makes a step. *)
LEMMA StepsOfCallers ==
    ASSUME [Next]_vars
    PROVE  UNCHANGED vars \/ Grant \/ \E c \in Callers : CallerStep(c)
  BY DEF Next, Handle, Served, CallerStep

(* What each step of a caller does to it, and that it moves nobody else.   *)
LEMMA CallerMoves ==
    ASSUME PoolInv, NEW c \in Callers, CallerStep(c)
    PROVE  /\ MovesOnly(c)
           /\ step'[c] \in {step[c], step[c] + 1}
           /\ phase'[c] \in {"ready", "waiting", "done"}
           /\ held'[c] \in {held[c], <<>>}
  <1>1. InHand(c) /\ held[c] \in Seq(Connections) /\ step[c] \in Nat
    BY DEF PoolInv, TypeOK
  <1>2. Len(held[c]) = 1 => Front(held[c]) = <<>>
    BY <1>1, HandsOf
  <1>3. CASE Start(c) \/ Ask(c) \/ Return(c) \/ StatementFails(c)
    BY <1>3 DEF Start, Ask, Return, StatementFails, To, MovesOnly, PoolInv, TypeOK
  <1>4. CASE Complete(c)
    <2>1. Front(held[c]) = <<>>
      BY <1>1, <1>2, <1>4 DEF Complete, InHand, HoldsOne
    <2>2. QED
      BY <1>4, <2>1 DEF Complete, To, MovesOnly, PoolInv, TypeOK
  <1>5. CASE Release(c)
    <2>1. Front(held[c]) = <<>>
      BY <1>1, <1>2, <1>5 DEF Release, InHand, HoldsOne, Requesting
    <2>2. QED
      BY <1>5, <2>1 DEF Release, MovesOnly, PoolInv, TypeOK
  <1>6. QED
    BY <1>3, <1>4, <1>5 DEF CallerStep

(* Callers that are not moved keep their hands. *)
LEMMA OthersKeepHands ==
    ASSUME TypeOK, NEW c \in Callers, MovesOnly(c), NEW d \in Callers, d # c, InHand(d)
    PROVE  InHand(d)'
  BY DEF MovesOnly, TypeOK, InHand, HoldsOne, Requesting, Wanted

(* The caller that moves has in its hands what its handler has come to.    *)
LEMMA CallerInHand ==
    ASSUME \A s \in Scripts : EmptyHanded(s),
           PoolInv, NEW c \in Callers, CallerStep(c)
    PROVE  InHand(c)'
  <1> DEFINE s == script[c]
             i == step[c]
  <1>1. /\ InHand(c) /\ i \in Nat \ {0} /\ phase[c] \in {"idle", "ready", "waiting", "using", "done"}
        /\ held[c] \in Seq(Connections)
    BY DEF PoolInv, TypeOK
  <1>2. s \in Seq({"query", "connect", "release"}) /\ EmptyHanded(s)
    BY PoolAssumption DEF PoolInv, TypeOK
  <1>3. MovesOnly(c) /\ script'[c] = s
    BY CallerMoves DEF MovesOnly
  <1>4. i <= Len(s) => s[i] \in {"query", "connect", "release"}
    BY <1>1, <1>2
  <1>5. CASE Start(c)
    <2>1. phase'[c] = "ready" /\ step'[c] = 1 /\ held'[c] = <<>> /\ phase[c] = "idle"
      BY <1>1, <1>5 DEF Start, To, PoolInv, TypeOK, InHand, HoldsOne
    <2>2. ~(1 <= Len(s) /\ s[1] = "release")
      BY <1>2 DEF EmptyHanded
    <2>3. QED
      BY <1>3, <2>1, <2>2 DEF InHand, HoldsOne, Requesting, Wanted
  <1>6. CASE Ask(c)
    <2>1. /\ phase'[c] = "waiting" /\ step'[c] = i /\ held'[c] = held[c]
          /\ i <= Len(s) /\ s[i] \in {"query", "connect"} /\ phase[c] = "ready"
      BY <1>1, <1>6 DEF Ask, Wanted, To, PoolInv, TypeOK
    <2>2. held[c] = <<>>
      BY <1>1, <2>1 DEF InHand, HoldsOne, Requesting, Wanted
    <2>3. QED
      BY <1>3, <2>1, <2>2 DEF InHand, HoldsOne, Requesting, Wanted
  <1>7. CASE Complete(c)
    <2>1. /\ phase'[c] = "ready" /\ step'[c] = i + 1 /\ phase[c] = "using"
          /\ held'[c] = IF s[i] = "query" THEN Front(held[c]) ELSE held[c]
      BY <1>1, <1>7 DEF Complete, Wanted, To, PoolInv, TypeOK
    <2>2. Len(held[c]) = 1 /\ i <= Len(s) /\ s[i] \in {"query", "connect"}
      BY <1>1, <2>1 DEF InHand, HoldsOne, Requesting, Wanted
    <2>3. Front(held[c]) = <<>>
      BY <1>1, <2>2, HandsOf
    <2>4. CASE s[i] = "query"
      <3>1. ~(i + 1 <= Len(s) /\ s[i + 1] = "release")
        BY <1>1, <1>2, <2>4 DEF EmptyHanded
      <3>2. QED
        BY <1>3, <2>1, <2>3, <2>4, <3>1 DEF InHand, HoldsOne, Requesting, Wanted
    <2>5. CASE s[i] = "connect"
      <3>1. i + 1 <= Len(s) /\ s[i + 1] = "release"
        BY <1>1, <1>2, <2>2, <2>5 DEF EmptyHanded
      <3>2. QED
        BY <1>3, <2>1, <2>2, <2>5, <3>1 DEF InHand, HoldsOne, Requesting, Wanted
    <2>6. QED
      BY <2>2, <2>4, <2>5
  <1>8. CASE Release(c)
    <2>1. /\ phase'[c] = "ready" /\ step'[c] = i + 1 /\ phase[c] = "ready"
          /\ held'[c] = Front(held[c]) /\ i <= Len(s) /\ s[i] = "release"
      BY <1>1, <1>8 DEF Release, Wanted, PoolInv, TypeOK
    <2>2. Len(held[c]) = 1
      BY <1>1, <2>1 DEF InHand, HoldsOne, Requesting, Wanted
    <2>3. Front(held[c]) = <<>>
      BY <1>1, <2>2, HandsOf
    <2>4. ~(i + 1 <= Len(s) /\ s[i + 1] = "release")
      BY <1>1, <1>2, <2>1 DEF EmptyHanded
    <2>5. QED
      BY <1>3, <2>1, <2>3, <2>4 DEF InHand, HoldsOne, Requesting, Wanted
  <1>9. CASE Return(c)
    <2>1. phase'[c] = "done" /\ step'[c] = i /\ held'[c] = held[c] /\ phase[c] = "ready"
      BY <1>1, <1>9 DEF Return, To, PoolInv, TypeOK
    <2>2. held[c] = <<>>
      BY <1>1, <1>9, <2>1 DEF Return, InHand, HoldsOne, Requesting
    <2>3. QED
      BY <1>3, <2>1, <2>2 DEF InHand, HoldsOne, Requesting
  <1>10. CASE StatementFails(c)
    BY <1>10 DEF StatementFails, To, PoolInv, TypeOK, InHand, HoldsOne
  <1>11. QED
    BY <1>5, <1>6, <1>7, <1>8, <1>9, <1>10 DEF CallerStep

-----------------------------------------------------------------------------
(* A step of a caller keeps the types of the state.                        *)
LEMMA CallerTyped ==
    ASSUME PoolInv, NEW c \in Callers, CallerStep(c)
    PROVE  TypeOK'
  <1>1. MovesOnly(c) /\ TypeOK
    BY CallerMoves DEF PoolInv
  <1>2. /\ step'[c] \in {step[c], step[c] + 1} /\ held'[c] \in {held[c], <<>>}
        /\ phase'[c] \in {"ready", "waiting", "done"}
    BY CallerMoves
  <1>3. queue' \in Seq(Callers)
    <2>1. queue' = queue \/ queue' = Append(queue, c)
      BY DEF CallerStep, Start, Ask, Complete, Release, Return, StatementFails
    <2>2. queue \in Seq(Callers)
      BY <1>1 DEF TypeOK
    <2>3. Append(queue, c) \in Seq(Callers)
      BY <2>2
    <2>4. QED
      BY <2>1, <2>2, <2>3
  <1>4. step'[c] \in Nat \ {0} /\ held'[c] \in Seq(Connections)
    <2>1. step[c] \in Nat \ {0} /\ held[c] \in Seq(Connections)
      BY <1>1 DEF TypeOK
    <2>2. <<>> \in Seq(Connections)
      OBVIOUS
    <2>3. held'[c] \in Seq(Connections)
      BY <1>2, <2>1, <2>2
    <2>4. step[c] + 1 \in Nat \ {0}
      BY <2>1
    <2>5. QED
      BY <1>2, <2>1, <2>3, <2>4
  <1>5. QED
    BY <1>1, <1>2, <1>3, <1>4 DEF TypeOK, MovesOnly

(* A caller joins the queue when it begins to wait, and is not in it when  *)
(* it does anything else.                                                  *)
LEMMA CallerQueues ==
    ASSUME PoolInv, NEW c \in Callers, CallerStep(c)
    PROVE  QueueInv'
  <1>1. MovesOnly(c) /\ TypeOK /\ QueueInv
    BY CallerMoves DEF PoolInv
  <1>2. phase[c] # "waiting"
    BY DEF CallerStep, Start, Ask, Complete, Release, Return, StatementFails
  <1>3. \A j \in 1 .. Len(queue) : queue[j] # c /\ queue[j] \in Callers
    BY <1>1, <1>2 DEF QueueInv, TypeOK
  <1>4. \A j \in 1 .. Len(queue) : phase'[queue[j]] = "waiting"
    BY <1>1, <1>3 DEF QueueInv, MovesOnly, TypeOK
  <1>5. CASE Ask(c)
    <2>1. queue' = Append(queue, c) /\ phase'[c] = "waiting"
      BY <1>1, <1>5 DEF Ask, To, TypeOK
    <2>2. /\ Len(queue') = Len(queue) + 1 /\ queue'[Len(queue) + 1] = c
          /\ \A j \in 1 .. Len(queue) : queue'[j] = queue[j]
          /\ Len(queue) \in Nat
      BY <1>1, <2>1 DEF TypeOK
    <2>3. QED
      BY <1>1, <1>3, <1>4, <2>1, <2>2 DEF QueueInv
  <1>6. CASE ~Ask(c)
    <2>1. queue' = queue
      BY <1>6 DEF CallerStep, Start, Complete, Release, Return, StatementFails
    <2>2. QED
      BY <1>1, <1>4, <2>1 DEF QueueInv
  <1>7. QED
    BY <1>5, <1>6

(* The steps of a caller bring no connection into a second pair of hands.  *)
LEMMA CallerHolds ==
    ASSUME PoolInv, NEW c \in Callers, CallerStep(c)
    PROVE  OneHolder'
  <1>1. MovesOnly(c) /\ TypeOK /\ OneHolder /\ held'[c] \in {held[c], <<>>}
    BY CallerMoves DEF PoolInv
  <1>2. \A d \in Callers : held'[d] = held[d] \/ held'[d] = <<>>
    BY <1>1 DEF MovesOnly, TypeOK
  <1>3. \A d \in Callers : Range(held'[d]) = Range(held[d]) \/ Range(held'[d]) = {}
    BY <1>2, HoldsNothing
  <1>4. QED
    <2> SUFFICES ASSUME NEW d \in Callers, NEW e \in Callers, d # e
                 PROVE  Range(held'[d]) \cap Range(held'[e]) = {}
      BY DEF OneHolder
    <2>1. Range(held[d]) \cap Range(held[e]) = {}
      BY <1>1 DEF OneHolder
    <2>2. QED
      BY <1>3, <2>1

(* The first of the queue is given a connection that nobody holds.         *)
LEMMA GrantKeeps ==
    ASSUME PoolInv, Grant
    PROVE  PoolInv'
  <1>1. TypeOK /\ QueueInv /\ OneHolder /\ queue # <<>>
    BY DEF PoolInv, Grant
  <1>0. PICK c \in Callers : c = Head(queue)
    BY <1>1 DEF TypeOK
  <1>2. /\ queue[1] = c /\ Len(queue) \in Nat \ {0}
        /\ phase[c] = "waiting"
    BY <1>0, <1>1 DEF TypeOK, QueueInv
  <1>3. /\ InHand(c) /\ held[c] \in Seq(Connections) /\ step[c] \in Nat
        /\ held[c] = <<>> /\ Requesting(c, {"query", "connect"})
    BY <1>1, <1>2 DEF PoolInv, TypeOK, InHand, HoldsOne
  <1>4. PICK k \in Connections \ InUse : held' = [held EXCEPT ![c] = Append(@, k)]
    BY <1>0 DEF Grant
  <1>5. /\ held'[c] \in Seq(Connections) /\ Len(held'[c]) = 1 /\ Range(held'[c]) = {k}
        /\ phase'[c] = "using" /\ step'[c] = step[c] /\ script' = script /\ step' = step
        /\ phase' = [phase EXCEPT ![c] = "using"]
        /\ queue' = Tail(queue)
    <2>1. held'[c] = Append(held[c], k)
      BY <1>1, <1>4 DEF TypeOK
    <2>2. held'[c] \in Seq(Connections) /\ Len(held'[c]) = 1 /\ Range(held'[c]) = {k}
      BY <1>3, <1>4, <2>1, HandsOf
    <2>3. QED
      BY <1>0, <1>1, <2>2 DEF Grant, To, TypeOK
  <1>6. MovesOnly(c)
    BY <1>1, <1>4, <1>5 DEF MovesOnly, TypeOK
  <1>7. TypeOK'
    <2>1. queue' \in Seq(Callers)
      BY <1>1, <1>5 DEF TypeOK
    <2>2. QED
      BY <1>1, <1>5, <1>6, <2>1 DEF TypeOK, MovesOnly
  <1>8. InHand(c)'
    BY <1>3, <1>5, <1>6 DEF InHand, HoldsOne, Requesting, Wanted, MovesOnly
  <1>9. \A d \in Callers : InHand(d)'
    BY <1>1, <1>2, <1>6, <1>8, OthersKeepHands DEF PoolInv
  <1>10. QueueInv'
    <2>1. /\ Len(queue') = Len(queue) - 1
          /\ \A j \in 1 .. Len(queue') :
                /\ queue'[j] = queue[j + 1] /\ j + 1 \in 1 .. Len(queue)
                /\ queue[j + 1] \in Callers /\ queue[j + 1] # c
      BY <1>1, <1>2, <1>5 DEF TypeOK, QueueInv
    <2>2. \A j \in 1 .. Len(queue') : phase'[queue'[j]] = "waiting"
      BY <1>1, <1>5, <2>1 DEF QueueInv, TypeOK
    <2>3. \A i, j \in 1 .. Len(queue') : queue'[i] = queue'[j] => i = j
      BY <1>1, <1>2, <2>1 DEF QueueInv
    <2>4. QED
      BY <2>2, <2>3 DEF QueueInv
  <1>11. OneHolder'
    <2>1. \A d \in Callers : d # c => held'[d] = held[d] /\ k \notin Range(held[d])
      BY <1>4, <1>6 DEF InUse, MovesOnly, TypeOK, PoolInv
    <2>2. QED
      BY <1>1, <1>5, <2>1 DEF OneHolder
  <1>12. QED
    BY <1>7, <1>9, <1>10, <1>11 DEF PoolInv

(* The invariant of the pool, as long as handlers ask with empty hands.    *)
LEMMA PoolKept ==
    ASSUME \A s \in Scripts : EmptyHanded(s)
    PROVE  Spec => []PoolInv
  <1>1. Init => PoolInv
    <2> SUFFICES ASSUME Init PROVE PoolInv
      OBVIOUS
    <2>1. TypeOK /\ QueueInv
      BY DEF Init, TypeOK, QueueInv
    <2>2. OneHolder
      BY HoldsNothing DEF Init, OneHolder
    <2>3. \A c \in Callers : InHand(c)
      BY DEF Init, InHand, HoldsOne
    <2>4. QED
      BY <2>1, <2>2, <2>3 DEF PoolInv
  <1>2. PoolInv /\ [Next]_vars => PoolInv'
    <2> SUFFICES ASSUME PoolInv, [Next]_vars PROVE PoolInv'
      OBVIOUS
    <2>1. CASE UNCHANGED vars
      BY <2>1 DEF vars, PoolInv, TypeOK, InHand, HoldsOne, Requesting, Wanted, QueueInv,
         OneHolder
    <2>2. ASSUME NEW c \in Callers, CallerStep(c)
          PROVE  PoolInv'
      <3>1. MovesOnly(c) /\ InHand(c)' /\ TypeOK
        BY <2>2, CallerMoves, CallerInHand DEF PoolInv
      <3>2. \A d \in Callers : InHand(d)'
        BY <3>1, OthersKeepHands DEF PoolInv
      <3>3. QED
        BY <2>2, <3>2, CallerTyped, CallerQueues, CallerHolds DEF PoolInv
    <2>3. QED
      BY <2>1, <2>2, GrantKeeps, StepsOfCallers
  <1>3. QED
    BY <1>1, <1>2, PTL DEF Spec

(* With handlers that ask the pool with empty hands, a pool of any size    *)
(* that has no connection left has lent one to a caller that is not itself *)
(* waiting for the pool.                                                   *)
THEOREM PoolNeverStuck ==
    ASSUME \A s \in Scripts : EmptyHanded(s)
    PROVE  Spec => []SomeoneCanRelease
  <1>1. ASSUME PoolInv
        PROVE  SomeoneCanRelease
    <2>1. SUFFICES ASSUME InUse = Connections
                   PROVE  \E c \in Callers : held[c] # <<>> /\ phase[c] # "waiting"
      BY DEF SomeoneCanRelease
    <2>2. PICK k : k \in InUse
      BY <2>1, PoolAssumption
    <2>3. PICK c \in Callers : k \in Range(held[c])
      BY <2>2 DEF InUse
    <2>4. held[c] # <<>>
      BY <2>3, HoldsNothing
    <2>5. phase[c] # "waiting"
      BY <1>1, <2>4 DEF PoolInv, InHand, HoldsOne
    <2>6. QED
      BY <2>4, <2>5
  <1>2. QED
    BY <1>1, PoolKept, PTL

(* A connection is never lent to two callers, and a handler that has ended *)
(* has given back what it was lent, however its statements fail.           *)
THEOREM NothingLeaks ==
    ASSUME \A s \in Scripts : EmptyHanded(s)
    PROVE  Spec => [](OneHolder /\ \A c \in Callers : phase[c] = "done" => held[c] = <<>>)
  <1>1. PoolInv => OneHolder /\ \A c \in Callers : phase[c] = "done" => held[c] = <<>>
    BY DEF PoolInv, InHand, HoldsOne
  <1>2. QED
    BY <1>1, PoolKept, PTL

=============================================================================
