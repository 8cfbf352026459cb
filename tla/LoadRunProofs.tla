--------------------------- MODULE LoadRunProofs ---------------------------
(***************************************************************************)
(* Theorems of LoadRun for any profile within any limits, any rate limit,  *)
(* any number of failures, and a deadline, windows and lost requests that  *)
(* may end, or be executed, at any time.                                   *)
(***************************************************************************)
EXTENDS LoadRun, SequenceTheorems, FiniteSetTheorems, TLAPS

Profile ==
    [users : Nat \ {0}, concurrency : Nat \ {0}, orders : Nat \ {0}, total : Nat \ {0},
     percent : 0 .. 100, amount : Nat \ {0}, parallel : Nat \ {0},
     payRemaining : BOOLEAN, burst : BOOLEAN]

Job == Ops \X Nat

JobsOf(op, n) == {<<op, i>> : i \in 1 .. n}

-----------------------------------------------------------------------------
(* The pool: a job is at one place, as many are under way as the counter   *)
(* says, and a slot is only free if nobody waits for one.                  *)
Taken == sent \cup thrown
Once(q) == \A i, j \in 1 .. Len(q) : q[i] = q[j] => i = j
InPool == Taken \cup woken \cup ToSet(queue)

JobsApart ==
    /\ sent \cap thrown = {} /\ woken \cap Taken = {}
    /\ ToSet(queue) \cap (Taken \cup woken) = {}
    /\ settled \cap InPool = {}

PoolTyped ==
    /\ queue \in Seq(Job) /\ Once(queue)
    /\ woken \subseteq Job /\ sent \subseteq Job /\ thrown \subseteq Job
    /\ settled \subseteq Job
    /\ IsFiniteSet(InPool)

SlotsKept ==
    /\ active = Cardinality(Taken)
    /\ active + Cardinality(woken) <= profile.concurrency
    /\ queue # <<>> => active + Cardinality(woken) = profile.concurrency

PoolInv == profile \in Profile /\ PoolTyped /\ JobsApart /\ SlotsKept

-----------------------------------------------------------------------------
(* The jobs of a phase are as many as it says. *)
LEMMA JobsCounted ==
    ASSUME NEW op, NEW n \in Nat
    PROVE  /\ IsFiniteSet(JobsOf(op, n)) /\ Cardinality(JobsOf(op, n)) = n
           /\ (JobsOf(op, n) = {} <=> n = 0)
  <1> DEFINE f == [i \in 1 .. n |-> <<op, i>>]
  <1>1. f \in Bijection(1 .. n, JobsOf(op, n))
    BY DEF Bijection, Injection, Surjection, IsInjective, JobsOf
  <1>2. IsFiniteSet(1 .. n) /\ Cardinality(1 .. n) = n
    BY FS_Interval
  <1>3. ExistsBijection(1 .. n, JobsOf(op, n))
    BY <1>1 DEF ExistsBijection
  <1>4. IsFiniteSet(JobsOf(op, n)) /\ Cardinality(JobsOf(op, n)) = n
    BY <1>2, <1>3, FS_Bijection
  <1>5. QED
    BY <1>4, FS_EmptySet

(* Taking the first of a queue. *)
LEMMA HeadTaken ==
    ASSUME NEW S, NEW q \in Seq(S), q # <<>>, Once(q)
    PROVE  /\ Tail(q) \in Seq(S) /\ Once(Tail(q))
           /\ Head(q) \in ToSet(q) /\ Head(q) \in S
           /\ ToSet(Tail(q)) = ToSet(q) \ {Head(q)}
  <1>1. /\ Tail(q) \in Seq(S) /\ Len(q) \in Nat /\ Len(q) >= 1 /\ Len(Tail(q)) = Len(q) - 1
        /\ \A i \in 1 .. Len(q) - 1 : Tail(q)[i] = q[i + 1]
        /\ Head(q) = q[1] /\ Head(q) \in S
        /\ DOMAIN q = 1 .. Len(q) /\ DOMAIN Tail(q) = 1 .. Len(Tail(q))
    OBVIOUS
  <1>2. Once(Tail(q))
    <2> SUFFICES ASSUME NEW i \in 1 .. Len(Tail(q)), NEW j \in 1 .. Len(Tail(q)),
                        Tail(q)[i] = Tail(q)[j]
                 PROVE  i = j
      BY DEF Once
    <2>1. q[i + 1] = q[j + 1] /\ i + 1 \in 1 .. Len(q) /\ j + 1 \in 1 .. Len(q)
      BY <1>1
    <2>2. i + 1 = j + 1
      BY <2>1 DEF Once
    <2>3. QED
      BY <2>2, <1>1
  <1>3. 1 \in DOMAIN q
    BY <1>1
  <1>4. Head(q) \in ToSet(q)
    BY <1>1, <1>3 DEF ToSet
  <1>5. ASSUME NEW x \in ToSet(Tail(q)) PROVE x \in ToSet(q) /\ x # Head(q)
    <2>1. PICK i \in 1 .. Len(q) - 1 : x = q[i + 1]
      BY <1>1, <1>5 DEF ToSet
    <2>2. i + 1 \in DOMAIN q /\ i + 1 # 1 /\ i + 1 \in 1 .. Len(q) /\ 1 \in 1 .. Len(q)
      BY <1>1
    <2>3. q[i + 1] # q[1]
      BY <2>2 DEF Once
    <2>4. QED
      BY <1>1, <2>1, <2>2, <2>3 DEF ToSet
  <1>6. ASSUME NEW x \in ToSet(q), x # Head(q) PROVE x \in ToSet(Tail(q))
    <2>1. PICK i \in 1 .. Len(q) : x = q[i]
      BY <1>1, <1>6 DEF ToSet
    <2>2. i # 1 /\ i - 1 \in 1 .. Len(q) - 1 /\ (i - 1) + 1 = i
      BY <1>1, <1>6, <2>1
    <2>3. i - 1 \in DOMAIN Tail(q) /\ Tail(q)[i - 1] = x
      BY <1>1, <2>1, <2>2
    <2>4. QED
      BY <2>3 DEF ToSet
  <1>7. QED
    BY <1>1, <1>2, <1>4, <1>5, <1>6

(* The first of the jobs of a phase, and the others. *)
LEMMA JobsSplit ==
    ASSUME NEW op \in Ops, NEW n \in Nat, NEW room \in 0 .. n
    PROVE  /\ Len(Jobs(op, n)) = n /\ ToSet(Jobs(op, n)) = JobsOf(op, n)
           /\ ToSet(SubSeq(Jobs(op, n), 1, room)) = JobsOf(op, room)
           /\ SubSeq(Jobs(op, n), room + 1, n) \in Seq(Job)
           /\ Once(SubSeq(Jobs(op, n), room + 1, n))
           /\ ToSet(SubSeq(Jobs(op, n), room + 1, n)) = JobsOf(op, n) \ JobsOf(op, room)
           /\ Len(SubSeq(Jobs(op, n), room + 1, n)) = n - room
  <1> DEFINE js == Jobs(op, n)
             rest == SubSeq(js, room + 1, n)
             first == SubSeq(js, 1, room)
  <1>1. /\ js \in Seq(Job) /\ Len(js) = n /\ DOMAIN js = 1 .. n
        /\ \A i \in 1 .. n : js[i] = <<op, i>> /\ js[i] \in Job
    BY DEF Jobs, Job
  <1>2. ToSet(js) = JobsOf(op, n)
    BY <1>1 DEF ToSet, JobsOf
  <1>3. /\ first \in Seq(Job) /\ Len(first) = room
        /\ \A i \in 1 .. room : first[i] = <<op, i>>
    BY <1>1
  <1>4. /\ rest \in Seq(Job) /\ Len(rest) = n - room
        /\ \A i \in 1 .. n - room : rest[i] = <<op, room + i>>
    BY <1>1
  <1> HIDE DEF js, rest, first
  <1>5. ToSet(first) = JobsOf(op, room)
    <2>1. DOMAIN first = 1 .. room
      BY <1>3
    <2>2. QED
      BY <1>3, <2>1 DEF ToSet, JobsOf
  <1>6. Once(rest)
    BY <1>4 DEF Once
  <1>7. ToSet(rest) = JobsOf(op, n) \ JobsOf(op, room)
    <2>1. DOMAIN rest = 1 .. n - room
      BY <1>4
    <2>2. ASSUME NEW x \in ToSet(rest) PROVE x \in JobsOf(op, n) /\ x \notin JobsOf(op, room)
      <3>1. PICK i \in 1 .. n - room : x = <<op, room + i>>
        BY <1>4, <2>1, <2>2 DEF ToSet
      <3>2. room + i \in 1 .. n /\ room + i \notin 1 .. room
        OBVIOUS
      <3>3. QED
        BY <3>1, <3>2 DEF JobsOf
    <2>3. ASSUME NEW x \in JobsOf(op, n), x \notin JobsOf(op, room) PROVE x \in ToSet(rest)
      <3>1. PICK i \in 1 .. n : x = <<op, i>>
        BY <2>3 DEF JobsOf
      <3>2. i \notin 1 .. room
        BY <2>3, <3>1 DEF JobsOf
      <3>3. i - room \in 1 .. n - room /\ room + (i - room) = i
        BY <3>2
      <3>4. rest[i - room] = x
        BY <1>4, <3>1, <3>3
      <3>5. QED
        BY <2>1, <3>3, <3>4 DEF ToSet
    <2>4. QED
      BY <2>2, <2>3
  <1>8. QED
    BY <1>1, <1>2, <1>4, <1>5, <1>6, <1>7 DEF js, rest, first

-----------------------------------------------------------------------------
(* What a step of the pool makes of it. *)
Enters(js) ==
    /\ Taken' = Taken \cup js
    /\ sent' \subseteq sent \cup js /\ thrown' \subseteq thrown \cup js
    /\ sent' \cap thrown' = {}

LEMMA EnterTakes ==
    ASSUME JobsApart, NEW js, js \cap Taken = {}, Enter(js)
    PROVE  Enters(js) /\ active' = active + Cardinality(js)
  BY DEF Enter, Enters, JobsApart, Taken

(* A caller that was woken goes on. *)
LEMMA ResumeMoves ==
    ASSUME PoolInv, UNCHANGED profile, NEW j, Resume(j)
    PROVE  PoolInv' /\ InPool' = InPool /\ settled' = settled
  <1>1. /\ j \in woken /\ woken' = woken \ {j} /\ Enter({j})
        /\ queue' = queue /\ settled' = settled
    BY DEF Resume
  <1>2. Enters({j}) /\ active' = active + Cardinality({j})
    BY <1>1, EnterTakes DEF PoolInv, JobsApart
  <1>3. InPool' = InPool
    BY <1>1, <1>2 DEF InPool, Enters
  <1>4. PoolTyped'
    BY <1>1, <1>2, <1>3 DEF PoolInv, PoolTyped, Enters
  <1>5. JobsApart'
    BY <1>1, <1>2, <1>3 DEF PoolInv, JobsApart, Enters
  <1>6. SlotsKept'
    <2>1. IsFiniteSet(Taken) /\ IsFiniteSet(woken)
      BY FS_Subset DEF PoolInv, PoolTyped, InPool
    <2>2. j \notin Taken
      BY <1>1 DEF PoolInv, JobsApart
    <2>3. Cardinality(Taken') = Cardinality(Taken) + 1
      BY <1>2, <2>1, <2>2, FS_AddElement DEF Enters
    <2>4. Cardinality(woken') = Cardinality(woken) - 1
      BY <1>1, <2>1, FS_RemoveElement
    <2>5. Cardinality({j}) = 1
      BY FS_Singleton
    <2>6. Cardinality(Taken) \in Nat /\ Cardinality(woken) \in Nat
      BY <2>1, FS_CardinalityType
    <2>7. profile' = profile /\ queue' = queue
      BY <1>1
    <2>8. QED
      BY <1>2, <2>3, <2>4, <2>5, <2>6, <2>7 DEF PoolInv, SlotsKept
  <1>7. QED
    BY <1>1, <1>3, <1>4, <1>5, <1>6 DEF PoolInv

(* A job comes to its end. *)
LEMMA LeaveMoves ==
    ASSUME PoolInv, UNCHANGED profile, NEW j \in Taken, Leave(j)
    PROVE  /\ PoolInv' /\ InPool' = InPool \ {j} /\ settled' = settled \cup {j}
           /\ Cardinality(InPool') = Cardinality(InPool) - 1
  <1>1. /\ active' = active - 1 /\ sent' = sent \ {j} /\ thrown' = thrown \ {j}
        /\ settled' = settled \cup {j} /\ Taken' = Taken \ {j}
        /\ j \in InPool
    BY DEF Leave, Taken, InPool
  <1>2. IsFiniteSet(Taken) /\ IsFiniteSet(woken) /\ IsFiniteSet(InPool)
    BY FS_Subset DEF PoolInv, PoolTyped, InPool
  <1>3. Cardinality(Taken') = Cardinality(Taken) - 1
    BY <1>1, <1>2, FS_RemoveElement
  <1>4. Cardinality(Taken) \in Nat /\ Cardinality(woken) \in Nat
    BY <1>2, FS_CardinalityType
  <1>5. ASSUME InPool' = InPool \ {j}
        PROVE  IsFiniteSet(InPool') /\ Cardinality(InPool') = Cardinality(InPool) - 1
    BY <1>1, <1>2, <1>5, FS_RemoveElement
  <1>6. CASE queue = <<>>
    <2>1. queue' = queue /\ woken' = woken
      BY <1>6 DEF Leave
    <2>2. InPool' = InPool \ {j}
      BY <1>1, <2>1 DEF InPool, PoolInv, JobsApart
    <2>3. PoolTyped'
      BY <1>1, <1>5, <2>1, <2>2 DEF PoolInv, PoolTyped, Taken
    <2>4. JobsApart'
      BY <1>1, <2>1, <2>2 DEF PoolInv, JobsApart
    <2>5. SlotsKept'
      BY <1>1, <1>3, <1>4, <1>6, <2>1 DEF PoolInv, Profile, SlotsKept
    <2>6. QED
      BY <1>1, <1>5, <2>2, <2>3, <2>4, <2>5 DEF PoolInv
  <1>7. CASE queue # <<>>
    <2> DEFINE h == Head(queue)
    <2>1. queue' = Tail(queue) /\ woken' = woken \cup {h}
      BY <1>7 DEF Leave
    <2>2. /\ Tail(queue) \in Seq(Job) /\ Once(Tail(queue))
          /\ h \in ToSet(queue) /\ h \in Job /\ ToSet(Tail(queue)) = ToSet(queue) \ {h}
      BY <1>7, HeadTaken DEF PoolInv, PoolTyped
    <2> HIDE DEF h
    <2>3. h \notin Taken /\ h \notin woken /\ j \notin ToSet(queue) /\ j \notin woken
      BY <2>2 DEF PoolInv, JobsApart
    <2>4. InPool' = InPool \ {j}
      BY <1>1, <2>1, <2>2, <2>3 DEF InPool
    <2>5. PoolTyped'
      BY <1>1, <1>5, <2>1, <2>2, <2>4 DEF PoolInv, PoolTyped, Taken
    <2>6. JobsApart'
      BY <1>1, <2>1, <2>2, <2>3, <2>4 DEF PoolInv, JobsApart
    <2>7. Cardinality(woken') = Cardinality(woken) + 1
      BY <1>2, <2>1, <2>3, FS_AddElement
    <2>8. SlotsKept'
      <3>1. /\ active = Cardinality(Taken) /\ profile' = profile
            /\ active + Cardinality(woken) = profile.concurrency
        BY <1>7 DEF PoolInv, SlotsKept
      <3>2. active' + Cardinality(woken') = active + Cardinality(woken)
        BY <1>1, <1>4, <2>7, <3>1
      <3>3. profile.concurrency \in Nat
        BY DEF PoolInv, Profile
      <3>4. QED
        BY <1>1, <1>3, <3>1, <3>2, <3>3 DEF SlotsKept
    <2>9. QED
      BY <1>1, <1>5, <2>4, <2>5, <2>6, <2>8 DEF PoolInv
  <1>8. QED
    BY <1>6, <1>7

(* The jobs of a phase come to a pool that is empty. *)
LEMMA StartMoves ==
    ASSUME PoolInv, UNCHANGED <<profile, woken, settled>>, InPool = {},
           NEW op \in Ops, NEW n \in Nat, RunAll(Jobs(op, n)),
           settled \cap JobsOf(op, n) = {}
    PROVE  /\ PoolInv' /\ InPool' = JobsOf(op, n)
           /\ Cardinality(InPool') = Cardinality(InPool) + n
  <1>1. /\ Taken = {} /\ sent = {} /\ thrown = {} /\ woken = {} /\ ToSet(queue) = {}
    BY DEF InPool, Taken
  <1>2. queue = <<>>
    BY <1>1, HeadTaken DEF PoolInv, PoolTyped
  <1>3. active = 0
    BY <1>1, FS_EmptySet DEF PoolInv, SlotsKept
  <1>4. profile.concurrency \in Nat \ {0}
    BY DEF PoolInv, Profile
  <1>5. PICK room \in 0 .. n : /\ room = Least(profile.concurrency, n)
                               /\ room = n \/ room = profile.concurrency
                               /\ room <= profile.concurrency
    BY <1>4 DEF Least
  <1> DEFINE js == Jobs(op, n)
             first == SubSeq(js, 1, room)
             others == SubSeq(js, room + 1, n)
  <1>6. /\ Len(js) = n /\ ToSet(js) = JobsOf(op, n)
        /\ ToSet(first) = JobsOf(op, room) /\ others \in Seq(Job) /\ Once(others)
        /\ ToSet(others) = JobsOf(op, n) \ JobsOf(op, room)
        /\ Len(others) = n - room
    <2>1. Len(js) = n
      BY JobsSplit
    <2>2. ToSet(js) = JobsOf(op, n)
      BY JobsSplit
    <2>3. ToSet(first) = JobsOf(op, room)
      BY JobsSplit
    <2>4. others \in Seq(Job)
      BY JobsSplit
    <2>5. Once(others)
      BY JobsSplit
    <2>6. ToSet(others) = JobsOf(op, n) \ JobsOf(op, room)
      BY JobsSplit
    <2>7. Len(others) = n - room
      BY JobsSplit
    <2>8. QED
      BY <2>1, <2>2, <2>3, <2>4, <2>5, <2>6, <2>7
  <1>7. Max0(profile.concurrency - active) = profile.concurrency
    BY <1>3, <1>4 DEF Max0
  <1>8. Enter(ToSet(first)) /\ queue' = queue \o others
    BY <1>5, <1>6, <1>7 DEF RunAll
  <1> HIDE DEF first, others, js
  <1>9. queue' = others
    BY <1>2, <1>6, <1>8
  <1>10. Enters(JobsOf(op, room)) /\ active' = active + Cardinality(JobsOf(op, room))
    BY <1>1, <1>6, <1>8, EnterTakes DEF PoolInv
  <1>11. JobsOf(op, room) \subseteq JobsOf(op, n) /\ JobsOf(op, n) \subseteq Job
    BY <1>5 DEF JobsOf, Job
  <1>12. /\ IsFiniteSet(JobsOf(op, n)) /\ Cardinality(JobsOf(op, n)) = n
         /\ Cardinality(JobsOf(op, room)) = room
    BY <1>5, JobsCounted
  <1>13. Taken' = JobsOf(op, room) /\ InPool' = JobsOf(op, n)
    BY <1>1, <1>6, <1>9, <1>10, <1>11 DEF InPool, Enters
  <1>14. PoolTyped'
    BY <1>1, <1>6, <1>9, <1>10, <1>11, <1>12, <1>13 DEF PoolInv, PoolTyped, Enters
  <1>15. JobsApart'
    BY <1>1, <1>6, <1>9, <1>10, <1>13 DEF JobsApart, Enters
  <1>16. others = <<>> => room = n
    BY <1>6
  <1>17. SlotsKept'
    BY <1>1, <1>3, <1>5, <1>6, <1>9, <1>10, <1>12, <1>13, <1>16, FS_EmptySet DEF SlotsKept
  <1>18. QED
    BY <1>12, <1>13, <1>14, <1>15, <1>17, FS_EmptySet DEF PoolInv

-----------------------------------------------------------------------------
(* The phases: while nothing has thrown, the pool has the jobs of the      *)
(* present phase, and those of later ones have not begun.                  *)
Working == {"orders", "payments", "remaining", "burst"}
Phases ==
    Working \cup {"register", "find", "delete payments", "delete orders", "delete users", "over"}

CurrentJobs ==
    IF phase = "orders" THEN JobsOf("create_order", profile.orders)
    ELSE IF phase = "payments" THEN JobsOf("partial_payment", PartialJobs)
    ELSE IF phase = "remaining" THEN JobsOf("pay_remaining", RemainingJobs)
    ELSE IF phase = "burst" THEN JobsOf("burst_payment", profile.parallel)
    ELSE {}

OpsBegun ==
    IF phase = "register" THEN {}
    ELSE IF phase = "orders" THEN {"create_order"}
    ELSE IF phase = "payments" THEN {"create_order", "partial_payment"}
    ELSE IF phase = "remaining" THEN {"create_order", "partial_payment", "pay_remaining"}
    ELSE Ops

RunTyped ==
    /\ phase \in Phases
    /\ tokens \in Nat /\ tokens <= profile.users
    /\ orderIds \in Seq(Job)
    /\ completed \in Nat /\ faults \in Nat
    /\ late \in BOOLEAN /\ threw \in BOOLEAN

PhaseInv ==
    /\ phase = "register" => ~threw
    /\ phase \in Working => tokens = profile.users
    /\ InPool # {} => tokens = profile.users
    /\ ~threw => InPool \subseteq CurrentJobs /\ \A j \in settled : j[1] \in OpsBegun

LoadInv == PoolInv /\ RunTyped /\ PhaseInv

(* How many payments there are. *)
LEMMA PaymentsCounted ==
    ASSUME profile \in Profile
    PROVE  /\ partialCount(profile) \in Nat /\ partialCount(profile) <= profile.orders
           /\ partialCount(profile) \div 2 \in Nat
  <1>1. profile.orders \in Nat /\ profile.percent \in 0 .. 100
    BY DEF Profile
  <1> DEFINE m == profile.orders * profile.percent
  <1>2. m \in Nat /\ m <= profile.orders * 100
    BY <1>1
  <1> HIDE DEF m
  <1>3. (m + 100 - 1) \div 100 \in Nat /\ (m + 100 - 1) \div 100 <= profile.orders
    BY <1>1, <1>2
  <1>4. partialCount(profile) = (m + 100 - 1) \div 100
    BY DEF partialCount, CeilDiv, m
  <1>5. \A k \in Nat : k \div 2 \in Nat
    OBVIOUS
  <1>6. QED
    BY <1>3, <1>4, <1>5

LEMMA PaymentsStarted ==
    ASSUME profile \in Profile, orderIds \in Seq(Job)
    PROVE  /\ PartialJobs \in Nat /\ PartialJobs <= partialCount(profile)
           /\ PartialJobs <= Len(orderIds) /\ Len(orderIds) \in Nat
           /\ Len(orderIds) = profile.orders => PartialJobs = partialCount(profile)
           /\ RemainingJobs \in Nat /\ RemainingJobs <= PartialJobs
           /\ RemainingJobs <= IF profile.payRemaining THEN partialCount(profile) \div 2 ELSE 0
  <1>1. /\ partialCount(profile) \in Nat /\ partialCount(profile) <= profile.orders
        /\ profile.orders \in Nat /\ Len(orderIds) \in Nat
    BY PaymentsCounted DEF Profile
  <1>2. /\ PartialJobs \in Nat /\ PartialJobs <= partialCount(profile)
        /\ PartialJobs <= Len(orderIds)
        /\ Len(orderIds) = profile.orders => PartialJobs = partialCount(profile)
    BY <1>1 DEF PartialJobs, Least
  <1>3. \A k, m \in Nat : k <= m => k \div 2 \in Nat /\ k \div 2 <= k /\ k \div 2 <= m \div 2
    OBVIOUS
  <1>4. QED
    BY <1>1, <1>2, <1>3 DEF RemainingJobs

(* All jobs of a phase have settled: the pool is empty. *)
LEMMA AwaitedEmpties ==
    ASSUME PoolInv, NEW op \in Ops, NEW n \in Nat, InPool \subseteq JobsOf(op, n),
           Awaited(op, n)
    PROVE  InPool = {}
  <1>1. ToSet(Jobs(op, n)) = JobsOf(op, n)
    BY JobsSplit
  <1>2. QED
    BY <1>1 DEF Awaited, PoolInv, JobsApart

-----------------------------------------------------------------------------
(* The steps of a run, by what they do to the pool.                        *)
Rests == PoolInv' /\ InPool' = InPool /\ settled' = settled /\ profile' = profile

Starts(next, op, n) ==
    /\ PoolInv' /\ profile' = profile
    /\ InPool = {} /\ InPool' = JobsOf(op, n) /\ settled' = settled
    /\ n \in Nat /\ Cardinality(InPool') = Cardinality(InPool) + n
    /\ phase' = next /\ ~threw
    /\ UNCHANGED <<tokens, orderIds, completed, groups, late, threw, faults>>

Ends(j) ==
    /\ PoolInv' /\ profile' = profile
    /\ j \in Taken /\ InPool' = InPool \ {j} /\ settled' = settled \cup {j}
    /\ Cardinality(InPool') = Cardinality(InPool) - 1
    /\ UNCHANGED <<phase, tokens, late>>
    /\ orderIds' \in {orderIds, Append(orderIds, j)}
    /\ j[1] # "create_order" => orderIds' = orderIds
    /\ completed' \in {completed, completed + 1}
    /\ threw' \in BOOLEAN /\ (threw => threw') /\ (~threw' => completed' = completed + 1)
    /\ faults' \in Nat

(* The pool and what it is for stay as they are. *)
LEMMA PoolRests ==
    ASSUME PoolInv, UNCHANGED <<profile, pool>>
    PROVE  Rests
  BY DEF Rests, pool, PoolInv, PoolTyped, JobsApart, SlotsKept, InPool, Taken

(* A created order is known by its job, if its amount is whole cents. *)
NewOrder(j) ==
    [id |-> j, owner |-> RequestOf(j).user, total |-> Amount(j[1]) \div Cent, paid |-> 0,
     dueIn |-> 24 * 14, customer |-> "load"]

WithNew(j) == [i \in DOMAIN orders \cup {j} |-> IF i = j THEN NewOrder(j) ELSE orders[i]]

LEMMA CreatedIs ==
    ASSUME NEW j \in Job, j[1] \in {"create_order", "burst_order"}
    PROVE  LET out == Handle(RequestOf(j))
           IN  /\ out.rows = rows
               /\ \/ /\ Amount(j[1]) % Cent = 0 /\ out.res.status = 201 /\ out.res.id = j
                     /\ out.orders = WithNew(j)
                  \/ /\ Amount(j[1]) % Cent # 0 /\ out.res.status = 400
                     /\ out.orders = orders
  <1> DEFINE q == RequestOf(j)
             new == [id |-> q.id, owner |-> q.user, total |-> q.amount, paid |-> 0,
                     dueIn |-> q.dueIn, customer |-> q.customer]
  <1>1. /\ q.id = j /\ q.op = "create" /\ q.amount = Amount(j[1]) \div Cent
        /\ q.dueIn = 24 * 14 /\ q.customer = "load"
    BY DEF RequestOf
  <1>2. q.valid <=> Amount(j[1]) % Cent = 0
    BY DEF RequestOf
  <1>3. Handle(q) = CreateOrder(q)
    BY <1>1 DEF Handle
  <1>4. serializeOrder(201, new).status = 201 /\ serializeOrder(201, new).id = new.id
    BY DEF serializeOrder, Bare
  <1>5. new.id = j
    BY <1>1
  <1>6. new = NewOrder(j)
    BY <1>1 DEF NewOrder
  <1>7. CASE q.valid
    <2>1. CreateOrder(q) = Outcome(serializeOrder(201, new),
                                   [i \in DOMAIN orders \cup {q.id} |->
                                       IF i = q.id THEN new ELSE orders[i]], rows)
      BY <1>7 DEF CreateOrder
    <2> HIDE DEF q, new
    <2>2. /\ Handle(q).res.status = 201 /\ Handle(q).res.id = j /\ Handle(q).rows = rows
          /\ Handle(q).orders = WithNew(j)
      BY <1>1, <1>3, <1>4, <1>5, <1>6, <2>1 DEF Outcome, WithNew
    <2>3. QED
      BY <1>2, <1>7, <2>2 DEF q
  <1>8. CASE ~q.valid
    <2>1. CreateOrder(q) = Only(ErrorOf("VALIDATION_ERROR", None))
      BY <1>8 DEF CreateOrder
    <2>2. ErrorOf("VALIDATION_ERROR", None).status = 400
      BY DEF ErrorOf, Bare, StatusByCode
    <2>3. Handle(q).res.status = 400 /\ Handle(q).rows = rows /\ Handle(q).orders = orders
      BY <1>3, <2>1, <2>2 DEF Only, Outcome
    <2>4. QED
      BY <1>2, <1>8, <2>3
  <1>9. QED
    BY <1>7, <1>8

(* The gateway turns a request down and nothing changes, or passes it on. *)
LEMMA ThroughIs ==
    ASSUME NEW q, Apply(Through(q))
    PROVE  \/ /\ UNCHANGED db /\ window[q.user] >= RATE_LIMIT_MAX
              /\ Through(q).res.status = 429 /\ Through(q).res.id = None
           \/ Apply(Handle(q)) /\ Through(q) = Handle(q)
  <1>1. CASE window[q.user] >= RATE_LIMIT_MAX
    <2>1. Through(q) = Only(Bare(429))
      BY <1>1 DEF Through
    <2>2. UNCHANGED db
      BY <2>1 DEF Apply, Only, Outcome, db
    <2>3. Through(q).res.status = 429 /\ Through(q).res.id = None
      BY <2>1 DEF Only, Outcome, Bare
    <2>4. QED
      BY <1>1, <2>2, <2>3
  <1>2. CASE ~(window[q.user] >= RATE_LIMIT_MAX)
    BY <1>2 DEF Through
  <1>3. QED
    BY <1>1, <1>2

(* The answer to a job: the gateway's, or the service's. *)
LEMMA AnswersAre ==
    ASSUME NEW j, JobAnswered(j)
    PROVE  LET out == Handle(RequestOf(j))
               user == RequestOf(j).user
           IN  /\ window' = [window EXCEPT ![user] = window[user] + 1]
               /\ UNCHANGED <<profile, phase, tokens, late, lost, ending, strays, faults>>
               /\ \/ UNCHANGED db /\ window[user] >= RATE_LIMIT_MAX /\ Answered(j, 429, None)
                  \/ Apply(out) /\ Answered(j, out.res.status, out.res.id)
  <1> DEFINE q == RequestOf(j)
             out == Through(q)
  <1>1. /\ window' = Counting(q)
        /\ Apply(out) /\ Answered(j, out.res.status, out.res.id)
        /\ UNCHANGED <<profile, phase, tokens, late, lost, ending, strays, faults>>
    BY DEF JobAnswered
  <1> HIDE DEF q, out
  <1>2. \/ /\ UNCHANGED db /\ window[q.user] >= RATE_LIMIT_MAX
           /\ out.res.status = 429 /\ out.res.id = None
        \/ Apply(Handle(q)) /\ out = Handle(q)
    BY <1>1, ThroughIs DEF out
  <1>3. QED
    BY <1>1, <1>2 DEF Counting, q

(* A request that nothing is heard of. *)
LEMMA LostIs ==
    ASSUME NEW q, LoseRequest(q)
    PROVE  /\ Fault
           /\ window' \in {window, [window EXCEPT ![q.user] = window[q.user] + 1]}
           /\ \/ UNCHANGED <<db, lost>>
              \/ Execute(q) /\ UNCHANGED lost
              \/ lost' = lost \cup {q} /\ UNCHANGED db
  BY DEF LoseRequest, Counting, Unheard

(* A job ends: it was answered, or something was thrown. *)
LEMMA JobsEnd ==
    ASSUME LoadInv, NEW j, (j \in sent /\ (JobAnswered(j) \/ JobFails(j)))
                              \/ (j \in thrown /\ JobThrows(j))
    PROVE  Ends(j)
  <1>1. j \in Taken /\ j \in Job
    BY DEF Taken, LoadInv, PoolInv, PoolTyped
  <1>2. Leave(j) /\ UNCHANGED <<profile, phase, tokens, late>>
    BY AnswersAre DEF JobFails, JobThrows, Answered
  <1>3. /\ PoolInv' /\ InPool' = InPool \ {j} /\ settled' = settled \cup {j}
        /\ Cardinality(InPool') = Cardinality(InPool) - 1
    BY <1>1, <1>2, LeaveMoves DEF LoadInv
  <1>4. completed \in Nat /\ faults \in Nat /\ threw \in BOOLEAN
    BY DEF LoadInv, RunTyped
  <1>5. ASSUME NEW status, NEW id, Answered(j, status, id),
               j[1] = "create_order" /\ status = 201 => id = j
        PROVE  /\ orderIds' \in {orderIds, Append(orderIds, j)}
               /\ j[1] # "create_order" => orderIds' = orderIds
               /\ completed' = completed + 1 /\ threw' = threw
    BY <1>5 DEF Answered, Record
  <1>6. CASE JobAnswered(j)
    <2> DEFINE out == Handle(RequestOf(j))
    <2>1. /\ faults' = faults
          /\ Answered(j, 429, None) \/ Answered(j, out.res.status, out.res.id)
      BY <1>6, AnswersAre
    <2>2. j[1] = "create_order" /\ out.res.status = 201 => out.res.id = j
      BY <1>1, CreatedIs
    <2> HIDE DEF out
    <2>3. /\ orderIds' \in {orderIds, Append(orderIds, j)}
          /\ j[1] # "create_order" => orderIds' = orderIds
          /\ completed' = completed + 1 /\ threw' = threw
      BY <2>1, <2>2, <1>5
    <2>4. QED
      BY <1>1, <1>2, <1>3, <1>4, <2>1, <2>3 DEF Ends
  <1>7. CASE JobFails(j)
    <2>1. faults' \in Nat
      BY <1>4, <1>7 DEF JobFails, LoseRequest, Fault
    <2>2. CASE Answered(j, 502, None)
      <3>1. /\ orderIds' \in {orderIds, Append(orderIds, j)}
            /\ j[1] # "create_order" => orderIds' = orderIds
            /\ completed' = completed + 1 /\ threw' = threw
        BY <2>2, <1>5
      <3>2. QED
        BY <1>1, <1>2, <1>3, <1>4, <2>1, <3>1 DEF Ends
    <2>3. CASE threw' = TRUE /\ UNCHANGED <<counts, orderIds>>
      BY <1>1, <1>2, <1>3, <1>4, <2>1, <2>3 DEF Ends, counts
    <2>4. QED
      BY <1>7, <2>2, <2>3 DEF JobFails
  <1>8. CASE JobThrows(j)
    BY <1>1, <1>2, <1>3, <1>4, <1>8 DEF Ends, JobThrows, counts
  <1>9. QED
    BY <1>6, <1>7, <1>8

(* A phase begins when all jobs of the one before have settled.            *)
LEMMA PhaseStarts ==
    ASSUME PoolInv, NEW next, NEW op \in Ops, NEW n \in Nat, InPool = {}, ~threw,
           \A j \in settled : j[1] # op, phase' = next, RunAll(Jobs(op, n)),
           UNCHANGED <<profile, tokens, orderIds, woken, settled, counts, late, threw, faults>>
    PROVE  Starts(next, op, n)
  <1>1. settled \cap JobsOf(op, n) = {}
    BY DEF JobsOf
  <1>2. PoolInv' /\ InPool' = JobsOf(op, n) /\ Cardinality(InPool') = Cardinality(InPool) + n
    BY <1>1, StartMoves
  <1>3. QED
    BY <1>2 DEF Starts, counts

LEMMA PhasesStart ==
    ASSUME LoadInv
    PROVE  /\ CreateOrders =>
                 phase = "register" /\ tokens = profile.users
                    /\ Starts("orders", "create_order", profile.orders)
           /\ PayPartially =>
                 phase = "orders" /\ Starts("payments", "partial_payment", PartialJobs)
           /\ PayRemaining =>
                 phase = "payments" /\ Starts("remaining", "pay_remaining", RemainingJobs)
           /\ phase = "remaining" /\ Awaited("pay_remaining", RemainingJobs)
                 => InPool = {} /\ ~threw
           /\ phase = "burst" /\ Awaited("burst_payment", profile.parallel)
                 => InPool = {} /\ ~threw
  <1>1. /\ profile \in Profile /\ profile.orders \in Nat /\ profile.parallel \in Nat
        /\ PartialJobs \in Nat /\ RemainingJobs \in Nat /\ PoolInv
    BY PaymentsStarted DEF LoadInv, PoolInv, RunTyped, Profile
  <1>2. CASE CreateOrders
    <2>1. /\ phase = "register" /\ tokens = profile.users /\ ~threw
          /\ StartPhase("orders", "create_order", profile.orders)
      BY <1>2 DEF CreateOrders, LoadInv, PhaseInv
    <2>2. InPool = {} /\ \A j \in settled : j[1] # "create_order"
      BY <2>1 DEF LoadInv, PhaseInv, CurrentJobs, OpsBegun
    <2>3. Starts("orders", "create_order", profile.orders)
      BY <1>1, <2>1, <2>2, PhaseStarts DEF StartPhase, Ops
    <2>4. QED
      BY <2>1, <2>3 DEF PayPartially, PayRemaining
  <1>3. CASE PayPartially
    <2>1. /\ phase = "orders" /\ ~threw /\ Awaited("create_order", profile.orders)
          /\ StartPhase("payments", "partial_payment", PartialJobs)
      BY <1>3 DEF PayPartially, Awaited
    <2>2. /\ InPool \subseteq JobsOf("create_order", profile.orders)
          /\ \A j \in settled : j[1] # "partial_payment"
      BY <2>1 DEF LoadInv, PhaseInv, CurrentJobs, OpsBegun
    <2>3. InPool = {}
      BY <1>1, <2>1, <2>2, AwaitedEmpties DEF Ops
    <2>4. Starts("payments", "partial_payment", PartialJobs)
      BY <1>1, <2>1, <2>2, <2>3, PhaseStarts DEF StartPhase, Ops
    <2>5. QED
      BY <2>1, <2>4 DEF CreateOrders, PayRemaining
  <1>4. CASE PayRemaining
    <2>1. /\ phase = "payments" /\ ~threw /\ Awaited("partial_payment", PartialJobs)
          /\ StartPhase("remaining", "pay_remaining", RemainingJobs)
      BY <1>4 DEF PayRemaining, Awaited
    <2>2. /\ InPool \subseteq JobsOf("partial_payment", PartialJobs)
          /\ \A j \in settled : j[1] # "pay_remaining"
      BY <2>1 DEF LoadInv, PhaseInv, CurrentJobs, OpsBegun
    <2>3. InPool = {}
      BY <1>1, <2>1, <2>2, AwaitedEmpties DEF Ops
    <2>4. Starts("remaining", "pay_remaining", RemainingJobs)
      BY <1>1, <2>1, <2>2, <2>3, PhaseStarts DEF StartPhase, Ops
    <2>5. QED
      BY <2>1, <2>4 DEF CreateOrders, PayPartially
  <1>5. ASSUME phase = "remaining", Awaited("pay_remaining", RemainingJobs)
        PROVE  InPool = {} /\ ~threw
    <2>1. ~threw /\ InPool \subseteq JobsOf("pay_remaining", RemainingJobs)
      BY <1>5 DEF LoadInv, PhaseInv, CurrentJobs, Awaited
    <2>2. QED
      BY <1>1, <1>5, <2>1, AwaitedEmpties DEF Ops
  <1>6. ASSUME phase = "burst", Awaited("burst_payment", profile.parallel)
        PROVE  InPool = {} /\ ~threw
    <2>1. ~threw /\ InPool \subseteq JobsOf("burst_payment", profile.parallel)
      BY <1>6 DEF LoadInv, PhaseInv, CurrentJobs, Awaited
    <2>2. QED
      BY <1>1, <1>6, <2>1, AwaitedEmpties DEF Ops
  <1>7. QED
    BY <1>2, <1>3, <1>4, <1>5, <1>6

(* The burst: its order, and then its payments; or it is given up, with    *)
(* its order or without.                                                   *)
BurstSkipped ==
    /\ Rests /\ UNCHANGED <<tokens, orderIds, late, ending, strays>> /\ phase' = "find"
    /\ faults' \in {faults, faults + 1}
    /\ \/ UNCHANGED <<db, lost>>
       \/ Apply(Handle(RequestOf(BurstOrder))) /\ UNCHANGED lost
       \/ lost' = lost \cup {RequestOf(BurstOrder)} /\ UNCHANGED db
    /\ \/ threw' = TRUE /\ completed' = completed /\ groups' = groups
       \/ /\ completed' = completed + profile.parallel /\ threw' = threw
          /\ \E status \in {400, 429, 502} :
                /\ groups' = Grouped(Grouped(groups, status, "burst_order", 1), status,
                                     "burst_payment", profile.parallel)
                /\ status = 400 => Amount("burst_order") % Cent # 0
                /\ status = 429 => window[User(1)] >= RATE_LIMIT_MAX
                /\ status = 502 => faults' = faults + 1

LEMMA BurstMoves ==
    ASSUME LoadInv, CreateBurstOrder
    PROVE  /\ phase = "remaining" /\ InPool = {} /\ ~threw /\ Bursts
           /\ UNCHANGED <<profile, tokens, orderIds, late, ending, strays>>
           /\ window' \in {window, [window EXCEPT ![User(1)] = window[User(1)] + 1]}
           /\ \/ /\ Starts("burst", "burst_payment", profile.parallel)
                 /\ Apply(Handle(RequestOf(BurstOrder))) /\ lost' = lost
                 /\ Handle(RequestOf(BurstOrder)).res.status = 201
              \/ BurstSkipped
  <1> DEFINE q == RequestOf(BurstOrder)
             out == Handle(q)
  <1>1. phase = "remaining" /\ InPool = {} /\ ~threw /\ Bursts
    BY PhasesStart DEF CreateBurstOrder
  <1>2. UNCHANGED <<profile, tokens, orderIds, late, ending, strays>>
    BY DEF CreateBurstOrder
  <1>3. /\ BurstOrder \in Job /\ BurstOrder[1] = "burst_order" /\ q.user = User(1)
        /\ q.op = "create"
    BY DEF BurstOrder, Job, Ops, RequestOf
  <1>4. \/ out.res.status = 201
        \/ out.res.status = 400 /\ Amount("burst_order") % Cent # 0
    BY <1>3, CreatedIs
  <1>5. \/ /\ UNCHANGED <<threw, lost, faults>>
           /\ window' = [window EXCEPT ![q.user] = window[q.user] + 1]
           /\ \/ UNCHANGED db /\ window[q.user] >= RATE_LIMIT_MAX /\ BurstAnswered(429)
              \/ Apply(out) /\ BurstAnswered(out.res.status)
        \/ /\ LoseRequest(q)
           /\ \/ BurstAnswered(502) /\ UNCHANGED threw
              \/ threw' = TRUE /\ phase' = "find" /\ UNCHANGED <<pool, counts>>
    <2> DEFINE through == Through(q)
    <2>1. \/ /\ UNCHANGED <<threw, lost, faults>> /\ window' = Counting(q)
             /\ Apply(through) /\ BurstAnswered(through.res.status)
          \/ /\ LoseRequest(q)
             /\ \/ BurstAnswered(502) /\ UNCHANGED threw
                \/ threw' = TRUE /\ phase' = "find" /\ UNCHANGED <<pool, counts>>
      BY DEF CreateBurstOrder
    <2> HIDE DEF q
    <2>2. CASE Apply(through)
      <3>1. \/ /\ UNCHANGED db /\ window[q.user] >= RATE_LIMIT_MAX
               /\ through.res.status = 429
            \/ Apply(out) /\ through = out
        BY <2>2, ThroughIs DEF q
      <3>2. QED
        BY <2>1, <3>1 DEF Counting
    <2>3. QED
      BY <2>1, <2>2 DEF Counting
  <1> HIDE DEF q, out
  <1>6. window' \in {window, [window EXCEPT ![User(1)] = window[User(1)] + 1]}
    BY <1>3, <1>5, LostIs
  <1>7. ASSUME Apply(out), phase' = "burst",
               RunAll(Jobs("burst_payment", profile.parallel)),
               UNCHANGED <<woken, settled, counts, threw, faults>>
        PROVE  Starts("burst", "burst_payment", profile.parallel)
    <2>1. \A j \in settled : j[1] # "burst_payment"
      BY <1>1 DEF LoadInv, PhaseInv, OpsBegun
    <2>2. PoolInv /\ profile.parallel \in Nat
      BY DEF LoadInv, PoolInv, Profile
    <2>3. QED
      BY <1>1, <1>2, <1>7, <2>1, <2>2, PhaseStarts DEF Ops
  <1>8. ASSUME UNCHANGED pool
        PROVE  Rests
    BY <1>2, <1>8, PoolRests DEF LoadInv
  <1>9. ASSUME NEW status \in {400, 429, 502}, BurstAnswered(status)
        PROVE  /\ phase' = "find" /\ completed' = completed + profile.parallel
               /\ groups' = Grouped(Grouped(groups, status, "burst_order", 1), status,
                                    "burst_payment", profile.parallel)
               /\ UNCHANGED pool
    BY <1>9 DEF BurstAnswered
  <1>10. CASE UNCHANGED <<threw, lost, faults>> /\ UNCHANGED db
                 /\ window[q.user] >= RATE_LIMIT_MAX /\ BurstAnswered(429)
    <2>1. /\ phase' = "find" /\ completed' = completed + profile.parallel
          /\ groups' = Grouped(Grouped(groups, 429, "burst_order", 1), 429,
                               "burst_payment", profile.parallel)
          /\ Rests
      BY <1>8, <1>9, <1>10
    <2>2. BurstSkipped
      BY <1>2, <1>3, <1>10, <2>1 DEF BurstSkipped
    <2>3. QED
      BY <1>1, <1>2, <1>6, <2>2
  <1>11. CASE UNCHANGED <<threw, lost, faults>> /\ Apply(out) /\ BurstAnswered(out.res.status)
    <2>1. CASE out.res.status = 201
      <3>1. /\ phase' = "burst" /\ RunAll(Jobs("burst_payment", profile.parallel))
            /\ UNCHANGED <<woken, settled, counts>>
        BY <1>11, <2>1 DEF BurstAnswered
      <3>2. Starts("burst", "burst_payment", profile.parallel)
        BY <1>7, <1>11, <3>1
      <3>3. QED
        BY <1>1, <1>2, <1>6, <1>11, <2>1, <3>2 DEF out, q
    <2>2. CASE out.res.status = 400 /\ Amount("burst_order") % Cent # 0
      <3>1. /\ phase' = "find" /\ completed' = completed + profile.parallel
            /\ groups' = Grouped(Grouped(groups, 400, "burst_order", 1), 400,
                                 "burst_payment", profile.parallel)
            /\ Rests
        BY <1>8, <1>9, <1>11, <2>2
      <3>2. BurstSkipped
        BY <1>2, <1>11, <2>2, <3>1 DEF BurstSkipped, out, q
      <3>3. QED
        BY <1>1, <1>2, <1>6, <3>2
    <2>3. QED
      BY <1>4, <2>1, <2>2
  <1>12. CASE /\ LoseRequest(q)
              /\ \/ BurstAnswered(502) /\ UNCHANGED threw
                 \/ threw' = TRUE /\ phase' = "find" /\ UNCHANGED <<pool, counts>>
    <2>1. /\ faults' = faults + 1
          /\ \/ UNCHANGED <<db, lost>>
             \/ Apply(out) /\ UNCHANGED lost
             \/ lost' = lost \cup {q} /\ UNCHANGED db
      BY <1>3, <1>12, LostIs DEF Fault, Execute, out
    <2>2. CASE BurstAnswered(502) /\ UNCHANGED threw
      <3>1. /\ phase' = "find" /\ completed' = completed + profile.parallel
            /\ groups' = Grouped(Grouped(groups, 502, "burst_order", 1), 502,
                                 "burst_payment", profile.parallel)
            /\ Rests
        BY <1>8, <1>9, <2>2
      <3>2. BurstSkipped
        BY <1>2, <2>1, <2>2, <3>1 DEF BurstSkipped, out, q
      <3>3. QED
        BY <1>1, <1>2, <1>6, <3>2
    <2>3. CASE threw' = TRUE /\ phase' = "find" /\ UNCHANGED <<pool, counts>>
      <3>1. Rests
        BY <1>8, <2>3
      <3>2. BurstSkipped
        BY <1>2, <2>1, <2>3, <3>1 DEF BurstSkipped, counts, out, q
      <3>3. QED
        BY <1>1, <1>2, <1>6, <3>2
    <2>4. QED
      BY <1>12, <2>2, <2>3
  <1>13. QED
    BY <1>5, <1>10, <1>11, <1>12

(* What a phase knows of its jobs survives the steps that leave the pool   *)
(* alone, ...                                                              *)
LEMMA RestKeepsPhase ==
    ASSUME LoadInv, Rests, RunTyped', phase' = phase, tokens' = tokens, orderIds' = orderIds,
           threw' = threw
    PROVE  LoadInv'
  <1>1. CurrentJobs' = CurrentJobs /\ OpsBegun' = OpsBegun
    BY DEF CurrentJobs, OpsBegun, Rests, PartialJobs, RemainingJobs, Least, partialCount
  <1>2. PhaseInv'
    BY <1>1 DEF LoadInv, PhaseInv, Rests
  <1>3. QED
    BY <1>2 DEF LoadInv, Rests

(* ... the end of the phases, by whatever way, ...                         *)
LEMMA EndKeepsPhase ==
    ASSUME LoadInv, Rests, RunTyped', phase' \notin Working \cup {"register"},
           tokens' = tokens, ~threw' => InPool = {}
    PROVE  LoadInv'
  <1>1. OpsBegun' = Ops
    BY DEF OpsBegun, Working
  <1>2. \A j \in settled : j[1] \in Ops
    BY DEF LoadInv, PoolInv, PoolTyped, Job
  <1>3. PhaseInv'
    BY <1>1, <1>2 DEF LoadInv, PhaseInv, Rests, Working
  <1>4. QED
    BY <1>3 DEF LoadInv, Rests

(* ... the start of the next one, ...                                      *)
LEMMA StartKeepsPhase ==
    ASSUME LoadInv, NEW next, NEW op, NEW n, Starts(next, op, n),
           \/ phase = "register" /\ tokens = profile.users /\ next = "orders"
                 /\ op = "create_order" /\ n = profile.orders
           \/ phase = "orders" /\ next = "payments" /\ op = "partial_payment"
                 /\ n = PartialJobs
           \/ phase = "payments" /\ next = "remaining" /\ op = "pay_remaining"
                 /\ n = RemainingJobs
           \/ phase = "remaining" /\ next = "burst" /\ op = "burst_payment"
                 /\ n = profile.parallel
    PROVE  LoadInv'
  <1>1. /\ phase' = next /\ profile' = profile /\ InPool' = JobsOf(op, n)
        /\ settled' = settled /\ ~threw
        /\ UNCHANGED <<tokens, orderIds, completed, late, threw, faults>>
    BY DEF Starts
  <1>2. PartialJobs' = PartialJobs /\ RemainingJobs' = RemainingJobs
    BY <1>1 DEF PartialJobs, RemainingJobs, Least, partialCount
  <1>3. RunTyped'
    BY <1>1 DEF LoadInv, RunTyped, Phases, Working
  <1>4. InPool' \subseteq CurrentJobs'
    BY <1>1, <1>2 DEF CurrentJobs
  <1>5. \A j \in settled : j[1] \in OpsBegun'
    BY <1>1 DEF LoadInv, PhaseInv, OpsBegun, PoolInv, PoolTyped, Job
  <1>6. PhaseInv'
    BY <1>1, <1>4, <1>5 DEF LoadInv, PhaseInv, Working, Rests
  <1>7. QED
    BY <1>3, <1>6 DEF LoadInv, Starts

(* ... and the end of a job.                                               *)
LEMMA JobKeepsPhase ==
    ASSUME LoadInv, NEW j, Ends(j)
    PROVE  LoadInv'
  <1>1. j \in Job /\ j \in InPool
    BY DEF Ends, Taken, InPool, LoadInv, PoolInv, PoolTyped
  <1>2. RunTyped'
    <2>1. orderIds' \in Seq(Job)
      BY <1>1 DEF Ends, LoadInv, RunTyped
    <2>2. QED
      BY <2>1 DEF Ends, LoadInv, RunTyped
  <1>3. ASSUME ~threw
        PROVE  j[1] \in OpsBegun /\ CurrentJobs' = CurrentJobs /\ OpsBegun' = OpsBegun
    <2>1. j \in CurrentJobs
      BY <1>1, <1>3 DEF LoadInv, PhaseInv
    <2>2. j[1] \in OpsBegun
      BY <2>1 DEF CurrentJobs, OpsBegun, JobsOf, Ops
    <2>3. OpsBegun' = OpsBegun
      BY DEF OpsBegun, Ends
    <2>4. CASE phase \in {"payments", "remaining"}
      <3>1. j[1] # "create_order"
        BY <2>1, <2>4 DEF CurrentJobs, JobsOf
      <3>2. orderIds' = orderIds /\ profile' = profile /\ phase' = phase
        BY <3>1 DEF Ends
      <3>3. CurrentJobs' = CurrentJobs
        BY <3>2 DEF CurrentJobs, PartialJobs, RemainingJobs, Least, partialCount
      <3>4. QED
        BY <2>2, <2>3, <3>3
    <2>5. CASE phase \notin {"payments", "remaining"}
      <3>1. CurrentJobs' = CurrentJobs
        BY <2>5 DEF CurrentJobs, Ends
      <3>2. QED
        BY <2>2, <2>3, <3>1
    <2>6. QED
      BY <2>4, <2>5
  <1>4. PhaseInv'
    <2>1. phase' = "register" => ~threw'
      <3>1. phase = "register" => CurrentJobs = {}
        BY DEF CurrentJobs
      <3>2. phase # "register"
        BY <1>1, <3>1 DEF LoadInv, PhaseInv
      <3>3. QED
        BY <3>2 DEF Ends
    <2>2. QED
      BY <1>1, <1>3, <2>1 DEF LoadInv, PhaseInv, Ends, RunTyped
  <1>5. QED
    BY <1>2, <1>4 DEF LoadInv, Ends

(* The steps of a run. *)
LooksOn ==
    /\ Rests
    /\ UNCHANGED <<db, phase, tokens, orderIds, completed, groups, threw, lost, ending, strays>>
    /\ window' = window \/ \E u \in DOMAIN window : window' = [window EXCEPT ![u] = 0]
    /\ faults' \in Nat /\ faults' >= faults /\ late' \in BOOLEAN

PhasesOver ==
    /\ Rests /\ phase \in Working /\ phase' = "find"
    /\ ~threw => InPool = {} /\ (phase = "burst" \/ (phase = "remaining" /\ ~Bursts))
    /\ UNCHANGED <<db, tokens, orderIds, completed, groups, late, threw, window, lost, ending,
                   strays, faults>>

JobStep(j) == (j \in sent /\ (JobAnswered(j) \/ JobFails(j))) \/ (j \in thrown /\ JobThrows(j))

LEMMA StepsOfRuns ==
    ASSUME LoadInv, [Next]_vars
    PROVE  \/ LooksOn \/ PhasesOver
           \/ Register /\ Rests
           \/ Cleanup /\ Rests
           \/ CleanupFails /\ Rests
           \/ \E q \in lost : Belated(q) /\ Rests
           \/ CreateOrders \/ PayPartially \/ PayRemaining \/ CreateBurstOrder
           \/ \E j : JobStep(j) /\ Ends(j)
  <1>1. faults \in Nat /\ late \in BOOLEAN /\ PoolInv
    BY DEF LoadInv, RunTyped
  <1>2. CASE Register \/ Cleanup \/ CleanupFails
    BY <1>1, <1>2, PoolRests DEF Register, Cleanup, CleanupFails
  <1>3. CASE EndPhases \/ GiveUp
    <2>1. Rests
      BY <1>1, <1>3, PoolRests DEF EndPhases, GiveUp
    <2>2. ~threw => InPool = {} /\ (phase = "burst" \/ (phase = "remaining" /\ ~Bursts))
      BY <1>3, PhasesStart DEF EndPhases, GiveUp
    <2>3. QED
      BY <1>3, <2>1, <2>2 DEF EndPhases, GiveUp, PhasesOver, counts, Working
  <1>4. CASE DeadlinePasses \/ (\E u \in DOMAIN window : WindowEnds(u)) \/ UNCHANGED vars
    <2>1. Rests
      BY <1>1, <1>4, PoolRests DEF DeadlinePasses, WindowEnds, vars
    <2>2. UNCHANGED <<db, phase, tokens, orderIds, completed, groups, threw, lost, ending,
                      strays>>
      BY <1>4 DEF DeadlinePasses, WindowEnds, vars, counts
    <2>3. faults' = faults \/ faults' = faults + 1
      BY <1>4 DEF DeadlinePasses, WindowEnds, Fault, vars
    <2>4. faults' \in Nat /\ faults' >= faults
      BY <1>1, <2>3
    <2>5. late' \in BOOLEAN
      <3>1. late' = late \/ late' = TRUE
        BY <1>4, Zenon DEF DeadlinePasses, WindowEnds, vars
      <3>2. QED
        BY <1>1, <3>1, Zenon
    <2>6. window' = window \/ \E u \in DOMAIN window : window' = [window EXCEPT ![u] = 0]
      BY <1>4, Zenon DEF DeadlinePasses, WindowEnds, vars
    <2>7. QED
      BY <2>1, <2>2, <2>4, <2>5, <2>6 DEF LooksOn
  <1>5. ASSUME NEW j \in woken, Resume(j)
        PROVE  LooksOn
    <2>1. Rests
      BY <1>1, <1>5, ResumeMoves DEF Resume, Rests
    <2>2. QED
      BY <1>1, <1>5, <2>1 DEF Resume, LooksOn, counts
  <1>6. ASSUME NEW j, JobStep(j)
        PROVE  Ends(j)
    BY <1>6, JobsEnd DEF JobStep
  <1>7. ASSUME NEW q \in lost, Belated(q)
        PROVE  Rests
    BY <1>1, <1>7, PoolRests DEF Belated
  <1>8. QED
    BY <1>2, <1>3, <1>4, <1>5, <1>6, <1>7 DEF Next, Proceed, Over, JobStep

(* Pool and phases fit in every reachable state. *)
LEMMA LoadKept ==
    ASSUME LoadInv, [Next]_vars
    PROVE  LoadInv'
  <1>1. RunTyped
    BY DEF LoadInv
  <1>10. completed \in Nat /\ faults \in Nat
    BY <1>1 DEF RunTyped
  <1>2. CASE LooksOn
    <2>1. RunTyped'
      BY <1>1, <1>2 DEF LooksOn, RunTyped, Rests
    <2>2. QED
      BY <1>2, <2>1, RestKeepsPhase DEF LooksOn
  <1>3. CASE PhasesOver
    <2>1. RunTyped'
      BY <1>1, <1>3 DEF PhasesOver, RunTyped, Rests, Phases
    <2>2. QED
      BY <1>3, <2>1, EndKeepsPhase DEF PhasesOver, Working
  <1>4. CASE Register /\ Rests
    <2>1. phase = "register" /\ InPool = {} /\ profile.users \in Nat /\ tokens < profile.users
      BY <1>4 DEF Register, LoadInv, PhaseInv, CurrentJobs, PoolInv, Profile
    <2>2. CASE phase' = "find"
      <3>1. RunTyped'
        <4>1. phase' # phase
          BY <2>1, <2>2
        <4>2. threw' = TRUE /\ UNCHANGED <<tokens, orderIds, late, profile>>
          BY <1>4, <4>1 DEF Register, Record
        <4>3. completed' \in {completed, completed + 1} /\ faults' \in {faults, faults + 1}
          BY <1>4, <4>1 DEF Register, Record, counts, Fault
        <4>4. threw' \in BOOLEAN /\ late' \in BOOLEAN
          BY <1>1, <4>2, Zenon DEF RunTyped
        <4>5. completed' \in Nat /\ faults' \in Nat /\ phase' \in Phases
          BY <1>10, <2>2, <4>3 DEF Phases
        <4>6. tokens' \in Nat /\ tokens' <= profile'.users /\ orderIds' \in Seq(Job)
          BY <1>1, <4>2 DEF RunTyped
        <4>7. QED
          BY <4>4, <4>5, <4>6, Zenon DEF RunTyped
      <3>2. tokens' = tokens
        BY <1>4, <2>1, <2>2 DEF Register
      <3>3. QED
        BY <1>4, <2>1, <2>2, <3>1, <3>2, EndKeepsPhase DEF Working
    <2>3. CASE phase' # "find"
      <3>1. /\ phase' = phase /\ threw' = threw /\ tokens' = tokens + 1
            /\ completed' = completed + 1 /\ faults' = faults /\ late' = late
            /\ orderIds' = orderIds
        BY <1>4, <2>3 DEF Register, Record
      <3>2. RunTyped'
        BY <1>1, <1>4, <2>1, <3>1 DEF RunTyped, Rests
      <3>3. CurrentJobs' = {} /\ OpsBegun' = {}
        BY <2>1, <3>1 DEF CurrentJobs, OpsBegun
      <3>4. PhaseInv'
        BY <1>4, <2>1, <3>1, <3>3 DEF LoadInv, PhaseInv, Rests, Working, OpsBegun
      <3>5. QED
        BY <1>4, <3>2, <3>4 DEF LoadInv, Rests
    <2>4. QED
      BY <2>2, <2>3
  <1>5. CASE (Cleanup \/ CleanupFails) /\ Rests
    <2>1. phase \notin Working \cup {"register"} /\ phase' \notin Working \cup {"register"}
      BY <1>5 DEF Cleanup, Select, CleanupFails, Swept, Working
    <2>2. phase' \in Phases /\ UNCHANGED <<tokens, orderIds, completed, late, threw>>
      <3>1. CASE Cleanup
        BY <3>1 DEF Cleanup, Select, Phases, counts
      <3>2. CASE CleanupFails
        BY <3>2 DEF CleanupFails, Phases, counts
      <3>3. QED
        BY <1>5, <3>1, <3>2
    <2>3. faults' \in Nat
      <3>1. faults' = faults \/ faults' = faults + 1
        BY <1>5, Zenon DEF Cleanup, CleanupFails, Fault
      <3>2. QED
        BY <1>10, <3>1
    <2>4. RunTyped'
      BY <1>1, <1>5, <2>2, <2>3 DEF RunTyped, Rests
    <2>5. ~threw => InPool = {}
      BY <2>1 DEF LoadInv, PhaseInv, CurrentJobs, Working
    <2>6. QED
      BY <1>5, <2>1, <2>2, <2>4, <2>5, EndKeepsPhase
  <1>11. ASSUME NEW q \in lost, Belated(q), Rests
         PROVE  LoadInv'
    <2>1. RunTyped'
      BY <1>1, <1>11 DEF Belated, RunTyped, Rests, counts
    <2>2. QED
      BY <1>11, <2>1, RestKeepsPhase DEF Belated
  <1>6. CASE CreateOrders \/ PayPartially \/ PayRemaining
    BY <1>6, PhasesStart, StartKeepsPhase
  <1>7. CASE CreateBurstOrder
    <2>1. CASE Starts("burst", "burst_payment", profile.parallel)
      BY <1>7, <2>1, BurstMoves, StartKeepsPhase
    <2>2. CASE BurstSkipped
      <3>1. profile.parallel \in Nat /\ InPool = {}
        BY <1>7, BurstMoves DEF LoadInv, PoolInv, Profile
      <3>2. RunTyped'
        <4>1. threw' \in BOOLEAN
          BY <1>1, <2>2, Zenon DEF BurstSkipped, RunTyped
        <4>2. /\ completed' \in {completed, completed + profile.parallel}
              /\ faults' \in {faults, faults + 1}
          BY <2>2 DEF BurstSkipped
        <4>3. UNCHANGED <<tokens, orderIds, late, profile>> /\ phase' = "find"
          BY <2>2 DEF BurstSkipped, Rests
        <4>4. late' \in BOOLEAN
          BY <1>1, <4>3, Zenon DEF RunTyped
        <4>5. completed' \in Nat /\ faults' \in Nat /\ phase' \in Phases
          BY <1>10, <3>1, <4>2, <4>3 DEF Phases
        <4>6. tokens' \in Nat /\ tokens' <= profile'.users /\ orderIds' \in Seq(Job)
          BY <1>1, <4>3 DEF RunTyped
        <4>7. QED
          BY <4>1, <4>4, <4>5, <4>6, Zenon DEF RunTyped
      <3>3. QED
        BY <2>2, <3>1, <3>2, EndKeepsPhase DEF BurstSkipped, Working
    <2>3. QED
      BY <1>7, <2>1, <2>2, BurstMoves
  <1>8. ASSUME NEW j, Ends(j)
        PROVE  LoadInv'
    BY <1>8, JobKeepsPhase
  <1>9. QED
    BY <1>2, <1>3, <1>4, <1>5, <1>6, <1>7, <1>8, <1>11, StepsOfRuns

(* What the service accepts is a profile of numbers that are positive. *)
LEMMA ProfilesTyped ==
    ASSUME NEW q \in Profiles, validateLoadProfile(clampLoadProfile(q))
    PROVE  clampLoadProfile(q) \in Profile
  <1> DEFINE Entered == [users : Int, concurrency : Int, orders : Int, total : Int,
                         percent : Int, amount : Int, parallel : Int,
                         payRemaining : BOOLEAN, burst : BOOLEAN]
             p == clampLoadProfile(q)
  <1>1. q \in Entered
    BY LoadAssumption
  <1>2. \A n, lo, hi \in Int : Clamp(n, lo, hi) \in Int
    BY DEF Clamp, Least
  <1>3. /\ Limits.maxUsers \in Int /\ Limits.maxConcurrency \in Int
        /\ Limits.maxOrders \in Int /\ Limits.maxBurstParallel \in Int
    BY LoadAssumption
  <1>4. p \in Entered
    <2> DEFINE a == Clamp(q.users, 1, Limits.maxUsers)
               b == Clamp(q.concurrency, 1, Limits.maxConcurrency)
               c == Clamp(q.orders, 1, Limits.maxOrders)
               d == IF q.total < Cent THEN Cent ELSE q.total
               e == Clamp(q.percent, 0, 100)
               f == IF q.amount < Cent THEN Cent ELSE q.amount
               g == Clamp(q.parallel, 1, Limits.maxBurstParallel)
    <2>1. /\ a \in Int /\ b \in Int /\ c \in Int /\ d \in Int /\ e \in Int /\ f \in Int
          /\ g \in Int
      <3>1. /\ q.users \in Int /\ q.concurrency \in Int /\ q.orders \in Int /\ q.total \in Int
            /\ q.percent \in Int /\ q.amount \in Int /\ q.parallel \in Int
        BY <1>1
      <3>2. \A n, hi \in Int : Clamp(n, 1, hi) \in Int /\ Clamp(n, 0, 100) \in Int
        BY <1>2
      <3>3. a \in Int /\ b \in Int /\ c \in Int /\ e \in Int /\ g \in Int
        BY <1>3, <3>1, <3>2
      <3>4. d \in Int /\ f \in Int
        BY <3>1 DEF Cent
      <3>5. QED
        BY <3>3, <3>4
    <2>2. p = [q EXCEPT !.users = a, !.concurrency = b, !.orders = c, !.total = d,
                        !.percent = e, !.amount = f, !.parallel = g]
      BY DEF clampLoadProfile
    <2> HIDE DEF a, b, c, d, e, f, g, p
    <2>3. QED
      BY <1>1, <2>1, <2>2
  <1> HIDE DEF p
  <1>5. /\ p.users \in Nat \ {0} /\ p.concurrency \in Nat \ {0} /\ p.orders \in Nat \ {0}
        /\ p.total \in Nat \ {0} /\ p.percent \in 0 .. 100 /\ p.amount \in Nat \ {0}
        /\ p.parallel \in Nat \ {0}
    BY <1>4 DEF validateLoadProfile, p
  <1>6. p \in Profile
    BY <1>4, <1>5 DEF Profile
  <1>7. QED
    BY <1>6 DEF p

LEMMA LoadBegins ==
    ASSUME Init
    PROVE  LoadInv /\ InPool = {} /\ Cardinality(InPool) = 0
  <1>1. profile \in Profile
    BY ProfilesTyped DEF Init
  <1>2. InPool = {} /\ Taken = {} /\ ToSet(queue) = {}
    BY DEF Init, InPool, Taken, ToSet
  <1>3. IsFiniteSet({}) /\ Cardinality({}) = 0
    BY FS_EmptySet
  <1>4. PoolTyped
    BY <1>2, <1>3 DEF Init, PoolTyped, Once
  <1>5. JobsApart
    BY <1>2 DEF Init, JobsApart
  <1>6. SlotsKept
    BY <1>1, <1>2, <1>3 DEF Init, SlotsKept, Profile
  <1>7. RunTyped
    <2>1. profile.users \in Nat
      BY <1>1 DEF Profile
    <2>2. orderIds \in Seq(Job)
      BY DEF Init
    <2>3. phase \in Phases
      BY DEF Init, Phases
    <2>4. tokens = 0 /\ completed = 0 /\ faults = 0 /\ late = FALSE /\ threw = FALSE
      BY DEF Init
    <2>5. late \in BOOLEAN /\ threw \in BOOLEAN
      BY <2>4, Zenon
    <2>6. tokens \in Nat /\ tokens <= profile.users /\ completed \in Nat /\ faults \in Nat
      BY <2>1, <2>4
    <2>7. QED
      BY <2>2, <2>3, <2>5, <2>6, Zenon DEF RunTyped
  <1>8. PhaseInv
    BY <1>2 DEF Init, PhaseInv, Working
  <1>9. QED
    BY <1>1, <1>2, <1>3, <1>4, <1>5, <1>6, <1>7, <1>8 DEF LoadInv, PoolInv

LEMMA LoadSafe == Spec => []LoadInv
  BY LoadBegins, LoadKept, PTL DEF Spec

(* PoolMoves for every profile: the pool keeps its bound, its counter is   *)
(* right, and who waits is woken by a job that is under way.               *)
THEOREM PoolKeepsItsBound == Spec => []PoolMoves
  <1>1. ASSUME LoadInv PROVE PoolMoves
    <2>1. PoolInv
      BY <1>1 DEF LoadInv
    <2>2. ASSUME queue # <<>> PROVE Taken \cup woken # {}
      <3>1. SUFFICES ASSUME Taken = {}, woken = {} PROVE FALSE
        OBVIOUS
      <3>2. active + Cardinality(woken) = 0
        BY <2>1, <3>1, FS_EmptySet DEF PoolInv, SlotsKept
      <3>3. QED
        BY <2>1, <2>2, <3>2 DEF PoolInv, SlotsKept, Profile
    <2>3. QED
      BY <2>1, <2>2 DEF PoolInv, SlotsKept, PoolMoves, Taken
  <1>2. QED
    BY <1>1, LoadSafe, PTL

-----------------------------------------------------------------------------
(* The estimate: what is counted, what is under way, and what the phases   *)
(* ahead will bring, are together what was estimated.                      *)
RemainingAhead == IF profile.payRemaining THEN partialCount(profile) \div 2 ELSE 0
BurstAhead == IF profile.burst THEN profile.parallel ELSE 0

Ahead ==
    IF phase = "register" THEN
        (profile.users - tokens) + profile.orders + partialCount(profile) + RemainingAhead
            + BurstAhead
    ELSE IF phase = "orders" THEN partialCount(profile) + RemainingAhead + BurstAhead
    ELSE IF phase = "payments" THEN RemainingAhead + BurstAhead
    ELSE IF phase = "remaining" THEN BurstAhead
    ELSE 0

Counted == completed + Cardinality(InPool) + Ahead

AllCreated == phase \in {"register", "orders"} \/ Len(orderIds) = profile.orders

CountInv ==
    /\ Counted <= estimateTotalOps(profile)
    /\ ~threw /\ AllCreated => Counted = estimateTotalOps(profile)

LEMMA EstimateTyped ==
    ASSUME LoadInv
    PROVE  /\ profile.users \in Nat /\ profile.orders \in Nat /\ profile.orders > 0
           /\ profile.parallel \in Nat /\ tokens \in Nat /\ tokens <= profile.users
           /\ partialCount(profile) \in Nat /\ RemainingAhead \in Nat /\ BurstAhead \in Nat
           /\ completed \in Nat /\ Cardinality(InPool) \in Nat
           /\ Ahead \in Nat /\ estimateTotalOps(profile) \in Nat
           /\ estimateTotalOps(profile) =
                 profile.users + profile.orders + partialCount(profile) + RemainingAhead
                     + BurstAhead
  <1>1. /\ profile.users \in Nat /\ profile.orders \in Nat /\ profile.orders > 0
        /\ profile.parallel \in Nat /\ tokens \in Nat /\ tokens <= profile.users
        /\ completed \in Nat /\ profile \in Profile
    BY DEF LoadInv, PoolInv, RunTyped, Profile
  <1>2. Cardinality(InPool) \in Nat
    BY FS_CardinalityType DEF LoadInv, PoolInv, PoolTyped
  <1>3. partialCount(profile) \in Nat /\ RemainingAhead \in Nat /\ BurstAhead \in Nat
    BY <1>1, PaymentsCounted DEF RemainingAhead, BurstAhead
  <1>4. Ahead \in Nat
    BY <1>1, <1>3 DEF Ahead
  <1>5. estimateTotalOps(profile) =
            profile.users + profile.orders + (partialCount(profile) + RemainingAhead)
                + BurstAhead
    BY DEF estimateTotalOps, estimatePaymentOps, RemainingAhead, BurstAhead
  <1>6. QED
    BY <1>1, <1>2, <1>3, <1>4, <1>5

(* The estimate is of the profile alone, ... *)
LEMMA EstimateStays ==
    ASSUME profile' = profile
    PROVE  /\ partialCount(profile)' = partialCount(profile)
           /\ RemainingAhead' = RemainingAhead /\ BurstAhead' = BurstAhead
           /\ estimateTotalOps(profile)' = estimateTotalOps(profile)
  BY DEF RemainingAhead, BurstAhead, estimateTotalOps, estimatePaymentOps, partialCount

(* ... and every step keeps to it. *)
LEMMA CountKept ==
    ASSUME LoadInv, CountInv, [Next]_vars
    PROVE  CountInv'
  <1> DEFINE est == estimateTotalOps(profile)
             n == Cardinality(InPool)
             pc == partialCount(profile)
  <1>1. /\ profile.users \in Nat /\ profile.orders \in Nat /\ profile.orders > 0
        /\ profile.parallel \in Nat /\ tokens \in Nat /\ tokens <= profile.users
        /\ pc \in Nat /\ RemainingAhead \in Nat /\ BurstAhead \in Nat
        /\ completed \in Nat /\ n \in Nat /\ Ahead \in Nat /\ est \in Nat
    BY EstimateTyped
  <1>2. Counted = completed + n + Ahead
    BY DEF Counted
  <1>3. Counted' = completed' + n' + Ahead'
    BY DEF Counted
  <1>4. Counted <= est /\ (~threw /\ AllCreated => Counted = est)
    BY DEF CountInv
  <1>5. ASSUME profile' = profile
        PROVE  est' = est /\ pc' = pc /\ RemainingAhead' = RemainingAhead
                  /\ BurstAhead' = BurstAhead
    BY <1>5, EstimateStays
  <1>6. ASSUME profile' = profile, Counted' \in Int, Counted' <= Counted,
               ~threw' /\ AllCreated' => ~threw /\ AllCreated /\ Counted' = Counted
        PROVE  CountInv'
    <2>1. Counted' <= est'
      BY <1>1, <1>2, <1>4, <1>5, <1>6
    <2>2. ~threw' /\ AllCreated' => Counted' = est'
      BY <1>4, <1>5, <1>6
    <2>3. QED
      BY <2>1, <2>2 DEF CountInv
  <1>7. /\ PartialJobs \in Nat /\ PartialJobs <= pc /\ RemainingJobs \in Nat
        /\ RemainingJobs <= RemainingAhead
        /\ Len(orderIds) = profile.orders =>
              PartialJobs = pc /\ RemainingJobs = RemainingAhead /\ orderIds # <<>>
    <2>1. profile \in Profile /\ orderIds \in Seq(Job)
      BY DEF LoadInv, PoolInv, RunTyped
    <2>2. Len(orderIds) = profile.orders => orderIds # <<>>
      BY <1>1, <2>1
    <2>3. QED
      BY <2>1, <2>2, PaymentsStarted DEF RemainingAhead, RemainingJobs
  <1>8. CASE LooksOn
    <2>1. n' = n /\ Ahead' = Ahead /\ completed' = completed /\ profile' = profile
      BY <1>5, <1>8 DEF LooksOn, Rests, Ahead
    <2>2. threw' = threw /\ AllCreated' = AllCreated
      BY <1>8 DEF LooksOn, Rests, AllCreated
    <2>3. QED
      BY <1>1, <1>2, <1>3, <1>6, <2>1, <2>2
  <1>9. CASE PhasesOver
    <2>1. n' = n /\ Ahead' = 0 /\ completed' = completed /\ profile' = profile /\ threw' = threw
      BY <1>9 DEF PhasesOver, Rests, Ahead
    <2>2. AllCreated' => Len(orderIds) = profile.orders /\ AllCreated
      BY <1>9 DEF PhasesOver, Rests, AllCreated
    <2>3. ~threw /\ Len(orderIds) = profile.orders => Ahead = 0
      BY <1>7, <1>9 DEF PhasesOver, Ahead, Bursts, BurstAhead
    <2>4. QED
      BY <1>1, <1>2, <1>3, <1>6, <2>1, <2>2, <2>3
  <1>10. CASE Register /\ Rests
    <2>1. /\ phase = "register" /\ tokens < profile.users /\ ~threw /\ profile' = profile
          /\ n' = n
      BY <1>10 DEF Register, Rests, LoadInv, PhaseInv
    <2>2. CASE phase' = "find"
      <3>1. threw' = TRUE /\ completed' \in {completed, completed + 1}
        BY <1>10, <2>1, <2>2 DEF Register, Record, counts
      <3>2. Ahead' = 0 /\ Ahead >= 1
        BY <1>1, <2>1, <2>2 DEF Ahead
      <3>3. QED
        BY <1>1, <1>2, <1>3, <1>6, <2>1, <3>1, <3>2
    <2>3. CASE phase' # "find"
      <3>1. /\ phase' = phase /\ threw' = threw /\ tokens' = tokens + 1
            /\ completed' = completed + 1
        BY <1>10, <2>3 DEF Register, Record
      <3>2. Ahead' = Ahead - 1
        BY <1>1, <1>5, <2>1, <3>1 DEF Ahead
      <3>3. AllCreated
        BY <2>1 DEF AllCreated
      <3>4. QED
        BY <1>1, <1>2, <1>3, <1>6, <2>1, <3>1, <3>2, <3>3
    <2>4. QED
      BY <2>2, <2>3
  <1>11. CASE (Cleanup \/ CleanupFails) /\ Rests
    <2>1. /\ phase \notin Working \cup {"register"} /\ phase' \notin Working \cup {"register"}
          /\ UNCHANGED <<completed, orderIds, threw>>
      <3>1. CASE Cleanup
        BY <3>1 DEF Cleanup, Select, Working, counts
      <3>2. CASE CleanupFails
        BY <3>2 DEF CleanupFails, Swept, Working, counts
      <3>3. QED
        BY <1>11, <3>1, <3>2
    <2>2. n' = n /\ Ahead' = 0 /\ Ahead = 0 /\ profile' = profile /\ AllCreated' = AllCreated
      BY <1>11, <2>1 DEF Rests, Ahead, AllCreated, Working
    <2>3. QED
      BY <1>1, <1>2, <1>3, <1>6, <2>1, <2>2
  <1>18. ASSUME NEW q \in lost, Belated(q), Rests
         PROVE  CountInv'
    <2>1. n' = n /\ Ahead' = Ahead /\ completed' = completed /\ profile' = profile
      BY <1>5, <1>18 DEF Belated, Rests, Ahead, counts
    <2>2. threw' = threw /\ AllCreated' = AllCreated
      BY <1>18 DEF Belated, Rests, AllCreated
    <2>3. QED
      BY <1>1, <1>2, <1>3, <1>6, <2>1, <2>2
  <1>12. ASSUME NEW next, NEW op, NEW k, Starts(next, op, k),
                Ahead' \in Int, Ahead' <= Ahead - k,
                ~threw /\ AllCreated' => AllCreated /\ Ahead' = Ahead - k
         PROVE  CountInv'
    <2>1. /\ n' = n + k /\ k \in Nat /\ completed' = completed /\ profile' = profile
          /\ threw' = threw
      BY <1>12 DEF Starts
    <2>2. Counted' = completed + (n + k) + Ahead'
      BY <1>3, <2>1
    <2>3. Ahead' \in Int /\ Ahead' <= Ahead - k /\ k \in Nat
      BY <1>12, <2>1
    <2>4. /\ Counted' \in Int /\ Counted' <= Counted
          /\ Ahead' = Ahead - k => Counted' = Counted
      <3>1. completed \in Nat /\ n \in Nat /\ Ahead \in Nat
        BY <1>1
      <3> DEFINE a == Ahead
                 b == Ahead'
                 m == Counted'
      <3>2. /\ a \in Nat /\ b \in Int /\ b <= a - k /\ m = completed + (n + k) + b
            /\ Counted = completed + n + a
        BY <1>2, <2>2, <2>3, <3>1
      <3> HIDE DEF a, b, m, n
      <3>3. m \in Int /\ m <= Counted /\ (b = a - k => m = Counted)
        BY <2>3, <3>1, <3>2
      <3>4. QED
        BY <3>3 DEF a, b, m
    <2>5. QED
      BY <1>6, <1>12, <2>1, <2>4
  <1>13. CASE CreateOrders
    <2>1. phase = "register" /\ Starts("orders", "create_order", profile.orders)
          /\ tokens = profile.users
      BY <1>13, PhasesStart
    <2>2. phase' = "orders" /\ profile' = profile
      BY <2>1 DEF Starts
    <2>3. Ahead' = Ahead - profile.orders /\ AllCreated
      BY <1>1, <1>5, <2>1, <2>2 DEF Ahead, AllCreated
    <2>4. Ahead' \in Int
      BY <1>1, <1>5, <2>2 DEF Ahead
    <2>5. QED
      BY <1>1, <1>12, <2>1, <2>3, <2>4
  <1>14. CASE PayPartially
    <2>1. phase = "orders" /\ Starts("payments", "partial_payment", PartialJobs)
      BY <1>14, PhasesStart
    <2>2. phase' = "payments" /\ profile' = profile /\ orderIds' = orderIds
      BY <2>1 DEF Starts
    <2>3. Ahead' = Ahead - pc /\ AllCreated
      BY <1>1, <1>5, <2>1, <2>2 DEF Ahead, AllCreated
    <2>4. AllCreated' => Len(orderIds) = profile.orders
      BY <2>2 DEF AllCreated
    <2>5. Ahead' \in Int
      BY <1>1, <1>5, <2>2 DEF Ahead
    <2>6. /\ Ahead' <= Ahead - PartialJobs
          /\ Len(orderIds) = profile.orders => Ahead' = Ahead - PartialJobs
      <3>1. Ahead \in Nat /\ pc \in Nat /\ RemainingAhead \in Nat
        BY <1>1
      <3>2. QED
        BY <1>7, <2>3, <3>1
    <2>7. QED
      BY <1>12, <2>1, <2>3, <2>4, <2>5, <2>6
  <1>15. CASE PayRemaining
    <2>1. phase = "payments" /\ Starts("remaining", "pay_remaining", RemainingJobs)
      BY <1>15, PhasesStart
    <2>2. phase' = "remaining" /\ profile' = profile /\ orderIds' = orderIds
      BY <2>1 DEF Starts
    <2>3. Ahead' = Ahead - RemainingAhead
      BY <1>1, <1>5, <2>1, <2>2 DEF Ahead
    <2>4. AllCreated' => Len(orderIds) = profile.orders /\ AllCreated
      BY <2>2 DEF AllCreated
    <2>5. Ahead' \in Int
      BY <1>1, <1>5, <2>2 DEF Ahead
    <2>6. /\ Ahead' <= Ahead - RemainingJobs
          /\ Len(orderIds) = profile.orders => Ahead' = Ahead - RemainingJobs
      <3>1. Ahead \in Nat /\ pc \in Nat /\ RemainingAhead \in Nat
        BY <1>1
      <3>2. QED
        BY <1>7, <2>3, <3>1
    <2>7. QED
      BY <1>12, <2>1, <2>3, <2>4, <2>5, <2>6
  <1>16. CASE CreateBurstOrder
    <2>1. phase = "remaining" /\ ~threw /\ profile.burst
      BY <1>16, BurstMoves DEF Bursts
    <2>2. Ahead = profile.parallel
      BY <2>1 DEF Ahead, BurstAhead
    <2>3. CASE Starts("burst", "burst_payment", profile.parallel)
      <3>1. phase' = "burst" /\ profile' = profile /\ orderIds' = orderIds
        BY <2>3 DEF Starts
      <3>2. Ahead' = 0 /\ (AllCreated' => AllCreated)
        BY <3>1 DEF Ahead, AllCreated
      <3>3. QED
        BY <1>1, <1>12, <2>2, <2>3, <3>2
    <2>4. CASE BurstSkipped
      <3>1. phase' = "find" /\ profile' = profile /\ orderIds' = orderIds /\ n' = n
        BY <2>4 DEF BurstSkipped, Rests
      <3>2. Ahead' = 0 /\ (AllCreated' => AllCreated)
        BY <3>1 DEF Ahead, AllCreated
      <3>3. \/ threw' = TRUE /\ completed' = completed
            \/ threw' = threw /\ completed' = completed + profile.parallel
        BY <2>4 DEF BurstSkipped
      <3>4. QED
        BY <1>1, <1>2, <1>3, <1>6, <2>1, <2>2, <3>1, <3>2, <3>3
    <2>5. QED
      BY <1>16, <2>3, <2>4, BurstMoves
  <1>17. ASSUME NEW j, Ends(j)
         PROVE  CountInv'
    <2>1. /\ n' = n - 1 /\ completed' \in {completed, completed + 1} /\ profile' = profile
          /\ UNCHANGED <<phase, tokens>> /\ (~threw' => ~threw /\ completed' = completed + 1)
      BY <1>17 DEF Ends
    <2>2. Ahead' = Ahead
      BY <1>5, <2>1 DEF Ahead
    <2>3. ASSUME ~threw, AllCreated'
          PROVE  AllCreated
      <3>1. j \in CurrentJobs
        BY <1>17, <2>3 DEF Ends, InPool, LoadInv, PhaseInv
      <3>2. phase = "orders" \/ j[1] # "create_order"
        BY <3>1 DEF CurrentJobs, JobsOf
      <3>3. phase = "orders" \/ orderIds' = orderIds
        BY <1>17, <3>2 DEF Ends
      <3>4. QED
        BY <2>1, <2>3, <3>3 DEF AllCreated
    <2>4. QED
      BY <1>1, <1>2, <1>3, <1>6, <2>1, <2>2, <2>3
  <1>19. QED
    BY <1>8, <1>9, <1>10, <1>11, <1>13, <1>14, <1>15, <1>16, <1>17, <1>18, StepsOfRuns

(* EstimateMet for every profile: progress never exceeds the estimate, and *)
(* a run with all its orders that nothing ended early reaches it.          *)
THEOREM EstimatesHold == Spec => []EstimateMet
  <1>1. ASSUME Init PROVE CountInv
    <2>1. LoadInv /\ Cardinality(InPool) = 0
      BY <1>1, LoadBegins
    <2>2. Counted = estimateTotalOps(profile)
      BY <1>1, <2>1, EstimateTyped DEF Init, Counted, Ahead
    <2>3. QED
      BY <2>1, <2>2, EstimateTyped DEF CountInv
  <1>2. Spec => []CountInv
    BY <1>1, LoadSafe, CountKept, PTL DEF Spec
  <1>3. ASSUME LoadInv, CountInv PROVE EstimateMet
    <2>1. /\ completed \in Nat /\ Cardinality(InPool) \in Nat /\ Ahead \in Nat
          /\ estimateTotalOps(profile) \in Nat
      BY <1>3, EstimateTyped
    <2>2. ASSUME phase = "find", ~threw PROVE Cardinality(InPool) = 0 /\ Ahead = 0
      <3>1. InPool = {}
        BY <1>3, <2>2 DEF LoadInv, PhaseInv, CurrentJobs
      <3>2. QED
        BY <2>2, <3>1, FS_EmptySet DEF Ahead
    <2>3. QED
      BY <1>3, <2>1, <2>2 DEF CountInv, Counted, AllCreated, EstimateMet
  <1>4. QED
    BY <1>2, <1>3, LoadSafe, PTL

-----------------------------------------------------------------------------
(* The limiter: what a user's counter has, what is under way, and what the *)
(* phases ahead will send through the gateway, are no more than the        *)
(* requests of the profile.                                                *)
BurstRequest == IF profile.burst THEN 1 ELSE 0

AheadOfLimit ==
    IF phase = "register" THEN
        profile.orders + partialCount(profile) + RemainingAhead + BurstAhead + BurstRequest
    ELSE IF phase = "orders" THEN
        partialCount(profile) + RemainingAhead + BurstAhead + BurstRequest
    ELSE IF phase = "payments" THEN RemainingAhead + BurstAhead + BurstRequest
    ELSE IF phase = "remaining" THEN BurstAhead + BurstRequest
    ELSE 0

WindowInv ==
    /\ DOMAIN window = {User(n) : n \in 1 .. Limits.maxUsers}
    /\ profile.users <= Limits.maxUsers
    /\ \A u \in DOMAIN window :
          /\ window[u] \in Nat
          /\ window[u] + Cardinality(InPool) + AheadOfLimit <= Requests(profile)

LEMMA LimitTyped ==
    ASSUME LoadInv
    PROVE  /\ AheadOfLimit \in Nat /\ BurstRequest \in {0, 1} /\ Requests(profile) \in Int
           /\ Requests(profile) = profile.orders + partialCount(profile) + RemainingAhead
                                      + BurstAhead + BurstRequest
  <1>1. /\ profile.users \in Nat /\ profile.orders \in Nat
        /\ partialCount(profile) \in Nat /\ RemainingAhead \in Nat /\ BurstAhead \in Nat
        /\ estimateTotalOps(profile) =
              profile.users + profile.orders + partialCount(profile) + RemainingAhead
                  + BurstAhead
    BY EstimateTyped
  <1>2. BurstRequest \in {0, 1}
    BY DEF BurstRequest
  <1>3. AheadOfLimit \in Nat
    BY <1>1, <1>2 DEF AheadOfLimit
  <1>4. Requests(profile) = estimateTotalOps(profile) - profile.users + BurstRequest
    BY DEF Requests, BurstRequest
  <1>5. QED
    BY <1>1, <1>2, <1>3, <1>4

(* Whoever is turned down belongs to a run that is larger than the limit.  *)
LEMMA LimitReached ==
    ASSUME LoadInv, WindowInv, NEW n \in 1 .. profile.users,
           window[User(n)] >= RATE_LIMIT_MAX,
           InPool # {} \/ (phase = "remaining" /\ Bursts)
    PROVE  Requests(profile) > RATE_LIMIT_MAX
  <1>1. User(n) \in DOMAIN window
    <2>1. n \in 1 .. Limits.maxUsers
      BY LoadAssumption DEF WindowInv, LoadInv, PoolInv, Profile
    <2>2. QED
      BY <2>1 DEF WindowInv
  <1>2. /\ window[User(n)] \in Nat /\ RATE_LIMIT_MAX \in Nat
        /\ window[User(n)] + Cardinality(InPool) + AheadOfLimit <= Requests(profile)
    BY <1>1, LoadAssumption DEF WindowInv
  <1>3. /\ Cardinality(InPool) \in Nat /\ AheadOfLimit \in Nat /\ BurstAhead \in Nat
        /\ Requests(profile) \in Int
    BY EstimateTyped, LimitTyped
  <1>4. InPool # {} => Cardinality(InPool) # 0
    BY FS_EmptySet DEF LoadInv, PoolInv, PoolTyped
  <1>5. phase = "remaining" /\ Bursts => AheadOfLimit >= 1
    BY <1>3 DEF AheadOfLimit, Bursts, BurstRequest
  <1>6. QED
    BY <1>2, <1>3, <1>4, <1>5

(* What a request adds to the counters. *)
LEMMA CounterMoves ==
    ASSUME WindowInv, NEW u, window' \in {window, [window EXCEPT ![u] = window[u] + 1]}
    PROVE  /\ DOMAIN window' = DOMAIN window
           /\ \A v \in DOMAIN window : window'[v] \in Nat /\ window'[v] <= window[v] + 1
  BY DEF WindowInv

LEMMA WindowKept ==
    ASSUME LoadInv, WindowInv, [Next]_vars
    PROVE  WindowInv'
  <1> DEFINE n == Cardinality(InPool)
             a == AheadOfLimit
             pc == partialCount(profile)
  <1>1. /\ n \in Nat /\ a \in Nat /\ pc \in Nat /\ RemainingAhead \in Nat /\ BurstAhead \in Nat
        /\ profile.orders \in Nat /\ profile.parallel \in Nat /\ Requests(profile) \in Int
        /\ BurstRequest \in {0, 1}
    BY EstimateTyped, LimitTyped
  <1>2. ASSUME profile' = profile
        PROVE  /\ pc' = pc /\ RemainingAhead' = RemainingAhead /\ BurstAhead' = BurstAhead
               /\ BurstRequest' = BurstRequest /\ Requests(profile)' = Requests(profile)
    BY <1>2, EstimateStays DEF BurstRequest, Requests
  <1>3. ASSUME profile' = profile, DOMAIN window' = DOMAIN window, n' \in Int /\ a' \in Int,
               NEW k \in Nat, n' + a' + k <= n + a,
               \A u \in DOMAIN window : window'[u] \in Nat /\ window'[u] <= window[u] + k
        PROVE  WindowInv'
    <2>1. ASSUME NEW u \in DOMAIN window
          PROVE  window'[u] \in Nat /\ window'[u] + n' + a' <= Requests(profile)
      <3> DEFINE w == window[u]
                 x == window'[u]
                 m == n' + a'
                 c == n + a
                 r == Requests(profile)
      <3>1. w \in Nat /\ x \in Nat /\ x <= w + k /\ k \in Nat
        BY <1>3 DEF WindowInv
      <3>2. w + c <= r
        BY <1>1 DEF WindowInv
      <3>3. m \in Int /\ m + k <= c
        BY <1>3
      <3>6. c \in Nat /\ r \in Int
        BY <1>1
      <3> HIDE DEF w, x, m, c, r
      <3>4. x + m <= r
        BY <3>1, <3>2, <3>3, <3>6
      <3>7. x \in Nat /\ window'[u] + m <= Requests(profile)
        BY <3>1, <3>4 DEF x, r
      <3>8. window'[u] + m = window'[u] + n' + a'
        BY <1>1, <1>3, <3>1 DEF m, x
      <3>5. QED
        BY <3>7, <3>8 DEF x
    <2>2. QED
      BY <1>2, <1>3, <2>1 DEF WindowInv, User
  <1>4. ASSUME profile' = profile, window' = window, n' \in Int /\ a' \in Int, n' + a' <= n + a
        PROVE  WindowInv'
    <2>1. \A u \in DOMAIN window : window'[u] \in Nat /\ window'[u] <= window[u] + 0
      BY <1>4 DEF WindowInv
    <2>2. n' + a' + 0 <= n + a
      BY <1>4
    <2> HIDE DEF n, a
    <2>3. QED
      BY <1>3, <1>4, <2>1, <2>2
  <1>5. CASE LooksOn
    <2>1. n' = n /\ a' = a /\ profile' = profile
      <3>1. InPool' = InPool /\ profile' = profile /\ phase' = phase
        BY <1>5, Zenon DEF LooksOn, Rests
      <3>2. QED
        BY <1>2, <3>1 DEF AheadOfLimit
    <2>2. /\ DOMAIN window' = DOMAIN window
          /\ \A u \in DOMAIN window : window'[u] \in Nat /\ window'[u] <= window[u] + 0
      <3>1. window' = window \/ \E u \in DOMAIN window : window' = [window EXCEPT ![u] = 0]
        BY <1>5, Zenon DEF LooksOn
      <3>2. CASE window' = window
        BY <3>2 DEF WindowInv
      <3>3. ASSUME NEW v \in DOMAIN window, window' = [window EXCEPT ![v] = 0]
            PROVE  /\ DOMAIN window' = DOMAIN window
                   /\ \A u \in DOMAIN window : window'[u] \in Nat /\ window'[u] <= window[u] + 0
        <4>1. \A u \in DOMAIN window : window'[u] = IF u = v THEN 0 ELSE window[u]
          BY <3>3
        <4>2. QED
          BY <3>3, <4>1 DEF WindowInv
      <3>4. QED
        BY <3>1, <3>2, <3>3
    <2>3. n' \in Int /\ a' \in Int /\ n' + a' + 0 <= n + a
      BY <1>1, <2>1
    <2> HIDE DEF n, a
    <2>4. QED
      BY <1>3, <2>1, <2>2, <2>3
  <1>6. CASE PhasesOver
    <2>1. n' = n /\ a' = 0 /\ profile' = profile /\ window' = window
      BY <1>6 DEF PhasesOver, Rests, AheadOfLimit
    <2>2. QED
      BY <1>1, <1>4, <2>1
  <1>7. CASE Register /\ Rests
    <2>1. n' = n /\ profile' = profile /\ window' = window /\ phase' \in {phase, "find"}
      BY <1>7 DEF Register, Rests
    <2>2. a' \in {a, 0}
      BY <1>2, <2>1 DEF AheadOfLimit
    <2>3. QED
      BY <1>1, <1>4, <2>1, <2>2
  <1>8. CASE (Cleanup \/ CleanupFails) /\ Rests
    <2>1. phase' \notin Working \cup {"register"} /\ window' = window
      <3>1. CASE Cleanup
        BY <3>1 DEF Cleanup, Select, Working
      <3>2. CASE CleanupFails
        BY <3>2 DEF CleanupFails, Working
      <3>3. QED
        BY <1>8, <3>1, <3>2
    <2>2. n' = n /\ a' = 0 /\ profile' = profile
      BY <1>8, <2>1 DEF Rests, AheadOfLimit, Working
    <2>3. QED
      BY <1>1, <1>4, <2>1, <2>2
  <1>9. ASSUME NEW q \in lost, Belated(q), Rests
        PROVE  WindowInv'
    <2>1. n' = n /\ a' = a /\ profile' = profile /\ window' = window
      BY <1>2, <1>9 DEF Belated, Rests, AheadOfLimit
    <2>2. QED
      BY <1>1, <1>4, <2>1
  <1>10. ASSUME NEW next, NEW op, NEW k, Starts(next, op, k), window' = window,
                a' \in Int, a' <= a - k
         PROVE  WindowInv'
    <2>1. n' = n + k /\ k \in Nat /\ profile' = profile
      BY <1>10 DEF Starts
    <2>2. n' \in Int /\ a' \in Int /\ n' + a' <= n + a
      <3> DEFINE c == n
                 d == n'
                 b == a
                 e == a'
      <3>1. c \in Nat /\ b \in Nat /\ d = c + k /\ k \in Nat /\ e \in Int /\ e <= b - k
        BY <1>1, <1>10, <2>1
      <3> HIDE DEF b, c, d, e
      <3>2. d \in Int /\ e \in Int /\ d + e <= c + b
        BY <3>1
      <3>3. QED
        BY <3>2 DEF b, c, d, e
    <2>3. QED
      BY <1>4, <1>10, <2>1, <2>2
  <1>11. /\ PartialJobs \in Nat /\ PartialJobs <= pc /\ RemainingJobs \in Nat
         /\ RemainingJobs <= RemainingAhead
    <2>1. profile \in Profile /\ orderIds \in Seq(Job)
      BY DEF LoadInv, PoolInv, RunTyped
    <2>2. QED
      BY <2>1, PaymentsStarted DEF RemainingAhead, RemainingJobs
  <1>12. CASE CreateOrders
    <2>1. phase = "register" /\ Starts("orders", "create_order", profile.orders)
      BY <1>12, PhasesStart
    <2>2. phase' = "orders" /\ profile' = profile /\ window' = window
      BY <1>12, <2>1 DEF Starts, CreateOrders, StartPhase
    <2>3. a' = a - profile.orders /\ a' \in Int
      BY <1>1, <1>2, <2>1, <2>2 DEF AheadOfLimit
    <2>4. QED
      BY <1>1, <1>10, <2>1, <2>2, <2>3
  <1>13. CASE PayPartially
    <2>1. phase = "orders" /\ Starts("payments", "partial_payment", PartialJobs)
      BY <1>13, PhasesStart
    <2>2. phase' = "payments" /\ profile' = profile /\ window' = window
      BY <1>13, <2>1 DEF Starts, PayPartially, StartPhase
    <2>3. a' = a - pc /\ a' \in Int
      BY <1>1, <1>2, <2>1, <2>2 DEF AheadOfLimit
    <2>4. a' <= a - PartialJobs
      BY <1>1, <1>11, <2>3
    <2>5. QED
      BY <1>10, <2>1, <2>2, <2>3, <2>4
  <1>14. CASE PayRemaining
    <2>1. phase = "payments" /\ Starts("remaining", "pay_remaining", RemainingJobs)
      BY <1>14, PhasesStart
    <2>2. phase' = "remaining" /\ profile' = profile /\ window' = window
      BY <1>14, <2>1 DEF Starts, PayRemaining, StartPhase
    <2>3. a' = a - RemainingAhead /\ a' \in Int
      BY <1>1, <1>2, <2>1, <2>2 DEF AheadOfLimit
    <2>4. a' <= a - RemainingJobs
      BY <1>1, <1>11, <2>3
    <2>5. QED
      BY <1>10, <2>1, <2>2, <2>3, <2>4
  <1>15. CASE CreateBurstOrder
    <2>1. /\ phase = "remaining" /\ profile.burst
          /\ window' \in {window, [window EXCEPT ![User(1)] = window[User(1)] + 1]}
      BY <1>15, BurstMoves DEF Bursts
    <2>2. /\ DOMAIN window' = DOMAIN window
          /\ \A u \in DOMAIN window : window'[u] \in Nat /\ window'[u] <= window[u] + 1
      BY <2>1, CounterMoves
    <2>3. a = profile.parallel + 1
      BY <2>1 DEF AheadOfLimit, BurstAhead, BurstRequest
    <2>4. a' = 0 /\ profile' = profile /\ n' \in {n, n + profile.parallel}
      BY <1>15, BurstMoves DEF Starts, BurstSkipped, Rests, AheadOfLimit
    <2>5. n' \in Int /\ a' \in Int /\ n' + a' + 1 <= n + a
      BY <1>1, <2>3, <2>4
    <2> HIDE DEF n, a
    <2>6. QED
      BY <1>3, <2>2, <2>4, <2>5
  <1>16. ASSUME NEW j, JobStep(j), Ends(j)
         PROVE  WindowInv'
    <2>1. n' = n - 1 /\ profile' = profile /\ phase' = phase
      BY <1>16 DEF Ends
    <2>2. a' = a
      BY <1>2, <2>1 DEF AheadOfLimit
    <2>3. PICK u : window' \in {window, [window EXCEPT ![u] = window[u] + 1]}
      BY <1>16, AnswersAre, LostIs DEF JobStep, JobFails, JobThrows
    <2>4. /\ DOMAIN window' = DOMAIN window
          /\ \A v \in DOMAIN window : window'[v] \in Nat /\ window'[v] <= window[v] + 1
      BY <2>3, CounterMoves
    <2>5. n' \in Int /\ a' \in Int /\ n' + a' + 1 <= n + a
      BY <1>1, <2>1, <2>2
    <2> HIDE DEF n, a
    <2>6. QED
      BY <1>3, <2>1, <2>4, <2>5
  <1>17. QED
    BY <1>5, <1>6, <1>7, <1>8, <1>9, <1>12, <1>13, <1>14, <1>15, <1>16, StepsOfRuns

LEMMA WindowSafe == Spec => []WindowInv
  <1>1. ASSUME Init PROVE WindowInv
    <2>1. LoadInv /\ Cardinality(InPool) = 0
      BY <1>1, LoadBegins
    <2>2. profile.users <= Limits.maxUsers
      BY <1>1 DEF Init, validateLoadProfile
    <2>3. /\ DOMAIN window = {User(n) : n \in 1 .. Limits.maxUsers}
          /\ \A u \in DOMAIN window : window[u] = 0
      BY <1>1 DEF Init
    <2>4. AheadOfLimit = Requests(profile) /\ Requests(profile) \in Int
      BY <1>1, <2>1, LimitTyped DEF Init, AheadOfLimit
    <2>5. QED
      BY <2>1, <2>2, <2>3, <2>4 DEF WindowInv
  <1>2. QED
    BY <1>1, LoadSafe, WindowKept, PTL DEF Spec

-----------------------------------------------------------------------------
(* The orders of a run.  A job is done with when it has ended and its      *)
(* request is not one of those that a service may yet execute: Spent is    *)
(* what the jobs that are done with may have paid of an order.             *)
PaymentOps == {"partial_payment", "pay_remaining"}
JobOps == PaymentOps \cup {"create_order", "burst_order", "burst_payment"}

Pending == {q.id : q \in lost}
Done == settled \ Pending

Cents(op) == Amount(op) \div Cent

Spent(i) ==
    (IF <<"partial_payment", i>> \in Done THEN Cents("partial_payment") ELSE 0)
        + (IF <<"pay_remaining", i>> \in Done THEN Cents("pay_remaining") ELSE 0)

(* An order is known by the job that created it; without whole cents there *)
(* are none.                                                               *)
IdsKnown ==
    /\ Once(orderIds)
    /\ \A i \in 1 .. Len(orderIds) :
          orderIds[i] \in settled /\ orderIds[i][1] = "create_order"
    /\ Len(orderIds) > 0 => profile.total % Cent = 0

(* The pool has jobs of four kinds, and payments are of created orders.    *)
PaymentsHaveOrders ==
    \A j \in InPool :
        /\ j[1] \in PaymentOps \cup {"create_order", "burst_payment"}
        /\ j[1] \in PaymentOps => j[2] \in 1 .. Len(orderIds)

(* What may yet be executed is a registration, or what a job that has      *)
(* ended asked for.                                                        *)
Registration(q) == q.op = "register" /\ \E n \in Nat : q.id = User(n)

RequestOfEnded(q, j) ==
    /\ q = RequestOf(j) /\ j[1] \in JobOps /\ j \in settled \cup {BurstOrder}
    /\ j[1] \in PaymentOps => j[2] \in 1 .. Len(orderIds)
    /\ j[1] = "burst_order" => j = BurstOrder

LostKnown ==
    \A q \in lost :
        \/ Registration(q)
        \/ tokens = profile.users /\ \E j \in Job : RequestOfEnded(q, j)

OrderFields == {"id", "owner", "total", "paid", "dueIn", "customer"}

WithinTotal ==
    /\ \A k \in DOMAIN orders : DOMAIN orders[k] = OrderFields
    /\ \A i \in 1 .. Len(orderIds) :
          LET o == orders[orderIds[i]]
          IN  orderIds[i] \in DOMAIN orders =>
                  o.total = Cents("create_order") /\ o.paid \in Nat /\ o.paid <= Spent(i)

(* While nothing has thrown, the orders are there, and a single user owns  *)
(* them all.                                                               *)
OwnersKnown ==
    ~threw =>
        /\ phase \in Working \cup {"register"} =>
              \A i \in 1 .. Len(orderIds) : orderIds[i] \in DOMAIN orders
        /\ phase = "burst" =>
              BurstOrder \in DOMAIN orders /\ orders[BurstOrder].owner = User(1)
        /\ profile.users = 1 => \A k \in DOMAIN orders : orders[k].owner = User(1)

OrdersInv == IdsKnown /\ PaymentsHaveOrders /\ LostKnown /\ WithinTotal /\ OwnersKnown

(* Both parts of a total in whole cents are amounts, they make up the      *)
(* whole, and the second is positive.                                      *)
LEMMA PartsOfTotal ==
    ASSUME profile \in Profile, profile.total % Cent = 0
    PROVE  /\ Cents("create_order") \in Nat
           /\ Cents("partial_payment") \in Nat /\ Cents("pay_remaining") \in Nat
           /\ Cents("partial_payment") + Cents("pay_remaining") = Cents("create_order")
           /\ Cents("pay_remaining") >= 1
           /\ Cents("partial_payment") < 1 => partialAmount = 0
           /\ Amount("partial_payment") % Cent = 0 /\ Amount("pay_remaining") % Cent = 0
           /\ \A i : Spent(i) \in Nat
  <1> DEFINE t == profile.total \div 10
             p == (4 * profile.total + 50) \div 100
  <1>1. profile.total \in Nat /\ profile.total >= 1 /\ profile.total % 10 = 0
    BY DEF Profile, Cent
  <1>2. t \in Nat /\ profile.total = 10 * t
    BY <1>1
  <1>3. t >= 1 /\ p \in Nat /\ p <= t - 1
    BY <1>1, <1>2
  <1>4. partialAmount = 10 * p
    BY DEF partialAmount, Cent
  <1> HIDE DEF p, t
  <1>5. (profile.total - partialAmount + 5) \div 10 = t - p
    BY <1>2, <1>3, <1>4
  <1>6. remainingAmount = 10 * (t - p)
    BY <1>5 DEF remainingAmount, Cent
  <1>7. \A n \in Nat : (10 * n) \div 10 = n /\ (10 * n) % 10 = 0
    OBVIOUS
  <1>8. t - p \in Nat /\ t - p >= 1
    BY <1>2, <1>3
  <1>9. /\ Amount("create_order") = 10 * t /\ Amount("partial_payment") = 10 * p
        /\ Amount("pay_remaining") = 10 * (t - p)
    BY <1>2, <1>4, <1>6 DEF Amount
  <1>10. /\ Cents("create_order") = t /\ Cents("partial_payment") = p
         /\ Cents("pay_remaining") = t - p
         /\ Amount("partial_payment") % Cent = 0 /\ Amount("pay_remaining") % Cent = 0
    BY <1>2, <1>3, <1>7, <1>8, <1>9 DEF Cents, Cent
  <1>11. \A i : Spent(i) \in Nat
    BY <1>3, <1>8, <1>10 DEF Spent
  <1>12. QED
    BY <1>2, <1>3, <1>4, <1>8, <1>10, <1>11

(* Amounts are of the profile alone. *)
LEMMA CentsStay ==
    ASSUME profile' = profile
    PROVE  /\ partialAmount' = partialAmount
           /\ \A op \in JobOps : Amount(op)' = Amount(op) /\ Cents(op)' = Cents(op)
  <1>1. partialAmount' = partialAmount /\ remainingAmount' = remainingAmount
    BY DEF partialAmount, remainingAmount
  <1>2. \A op \in JobOps : Amount(op)' = Amount(op)
    BY <1>1 DEF Amount, JobOps, PaymentOps
  <1>3. QED
    BY <1>1, <1>2 DEF Cents

(* What has been spent does not fall when more jobs are done with, ...     *)
LEMMA SpentGrows ==
    ASSUME profile \in Profile, profile.total % Cent = 0, profile' = profile,
           \A op \in PaymentOps : \A i : <<op, i>> \in Done => <<op, i>> \in Done'
    PROVE  \A i : Spent(i) \in Nat /\ Spent(i)' \in Nat /\ Spent(i)' >= Spent(i)
  <1> SUFFICES ASSUME NEW i
               PROVE  Spent(i) \in Nat /\ Spent(i)' \in Nat /\ Spent(i)' >= Spent(i)
    OBVIOUS
  <1> DEFINE a == Cents("partial_payment")
             b == Cents("pay_remaining")
             inA == <<"partial_payment", i>> \in Done
             inB == <<"pay_remaining", i>> \in Done
             onA == <<"partial_payment", i>> \in Done'
             onB == <<"pay_remaining", i>> \in Done'
  <1>1. a \in Nat /\ b \in Nat /\ a' = a /\ b' = b
    BY PartsOfTotal, CentsStay DEF JobOps, PaymentOps
  <1>2. (inA => onA) /\ (inB => onB)
    BY DEF PaymentOps
  <1>3. Spent(i)' = (IF onA THEN a ELSE 0) + (IF onB THEN b ELSE 0)
    BY <1>1 DEF Spent
  <1>4. Spent(i) = (IF inA THEN a ELSE 0) + (IF inB THEN b ELSE 0)
    BY DEF Spent
  <1> HIDE DEF a, b, inA, inB, onA, onB
  <1>5. QED
    BY <1>1, <1>2, <1>3, <1>4

(* ... and nobody has two jobs that pay the same part of the same order:   *)
(* what a job pays is not among it, and is there when the job is done.     *)
LEMMA PartUnspent ==
    ASSUME profile \in Profile, profile.total % Cent = 0,
           NEW j \in Job, j[1] \in PaymentOps, j \notin Done
    PROVE  /\ Cents(j[1]) \in Nat /\ Amount(j[1]) % Cent = 0
           /\ Cents(j[1]) < 1 => j[1] = "partial_payment" /\ partialAmount = 0
           /\ Spent(j[2]) + Cents(j[1]) <= Cents("create_order")
           /\ profile' = profile /\ Done' = Done \cup {j} =>
                 Spent(j[2])' = Spent(j[2]) + Cents(j[1])
  <1> DEFINE a == Cents("partial_payment")
             b == Cents("pay_remaining")
             c == Cents("create_order")
             s == Spent(j[2])
  <1>1. /\ a \in Nat /\ b \in Nat /\ c \in Nat /\ a + b = c /\ b >= 1
        /\ a < 1 => partialAmount = 0
        /\ Amount("partial_payment") % Cent = 0 /\ Amount("pay_remaining") % Cent = 0
    BY PartsOfTotal
  <1>2. j = <<j[1], j[2]>>
    BY DEF Job
  <1>3. profile' = profile => a' = a /\ b' = b
    BY CentsStay DEF JobOps, PaymentOps
  <1>4. s = (IF <<"partial_payment", j[2]>> \in Done THEN a ELSE 0)
               + (IF <<"pay_remaining", j[2]>> \in Done THEN b ELSE 0)
    BY DEF Spent
  <1>5. s' = (IF <<"partial_payment", j[2]>> \in Done' THEN a' ELSE 0)
               + (IF <<"pay_remaining", j[2]>> \in Done' THEN b' ELSE 0)
    BY DEF Spent
  <1> HIDE DEF a, b, c, s
  <1>6. CASE j[1] = "partial_payment"
    <2>1. <<"partial_payment", j[2]>> \notin Done /\ j # <<"pay_remaining", j[2]>>
      BY <1>2, <1>6
    <2>2. s + a <= c
      BY <1>1, <1>4, <2>1
    <2>3. profile' = profile /\ Done' = Done \cup {j} => s' = s + a
      BY <1>1, <1>2, <1>3, <1>4, <1>5, <1>6, <2>1
    <2>4. Cents(j[1]) = a
      BY <1>6 DEF a
    <2>5. QED
      BY <1>1, <1>6, <2>2, <2>3, <2>4 DEF c, s
  <1>7. CASE j[1] = "pay_remaining"
    <2>1. <<"pay_remaining", j[2]>> \notin Done /\ j # <<"partial_payment", j[2]>>
      BY <1>2, <1>7
    <2>2. s + b <= c
      BY <1>1, <1>4, <2>1
    <2>3. profile' = profile /\ Done' = Done \cup {j} => s' = s + b
      BY <1>1, <1>2, <1>3, <1>4, <1>5, <1>7, <2>1
    <2>4. Cents(j[1]) = b
      BY <1>7 DEF b
    <2>5. QED
      BY <1>1, <1>7, <2>2, <2>3, <2>4 DEF c, s
  <1>8. QED
    BY <1>6, <1>7 DEF PaymentOps

(* A payment without a key, by its answer. *)
NewRow(q) ==
    [kind |-> q.op, id |-> q.id, user |-> q.user, order |-> q.order, amount |-> q.amount,
     key |-> q.key]

LEMMA SettleIs ==
    ASSUME NEW q, q.op = "payment", q.key = NoKey
    PROVE  LET out == Handle(q)
           IN  \/ /\ out.orders = orders /\ out.rows = rows
                  /\ \/ out.res.status = 400 /\ (~q.valid \/ q.amount < 1)
                     \/ out.res.status = 404 /\ ~Mine(q)
                     \/ /\ out.res.status = 409 /\ Mine(q)
                        /\ q.amount > Max0(orders[q.order].total - orders[q.order].paid)
               \/ /\ out.res.status = 201 /\ Mine(q) /\ out.rows = rows \cup {NewRow(q)}
                  /\ out.orders = [orders EXCEPT ![q.order] =
                         [orders[q.order] EXCEPT !.paid = orders[q.order].paid + q.amount]]
  <1>1. Handle(q) = Settle(q) /\ Prior(q) = {}
    BY DEF Handle, Prior
  <1>2. CASE ~q.valid \/ q.amount < 1
    <2>1. Settle(q) = Only(ErrorOf("VALIDATION_ERROR", None))
      BY <1>2 DEF Settle
    <2>2. ErrorOf("VALIDATION_ERROR", None).status = 400
      BY DEF ErrorOf, Bare, StatusByCode
    <2>3. QED
      BY <1>1, <1>2, <2>1, <2>2 DEF Only, Outcome
  <1>3. CASE ~(~q.valid \/ q.amount < 1) /\ ~Mine(q)
    <2>1. Settle(q) = Only(NotFound)
      BY <1>1, <1>3 DEF Settle
    <2>2. NotFound.status = 404
      BY DEF NotFound, ErrorOf, Bare, StatusByCode
    <2>3. QED
      BY <1>1, <1>3, <2>1, <2>2 DEF Only, Outcome
  <1>4. CASE ~(~q.valid \/ q.amount < 1) /\ Mine(q) /\ q.amount > Room(q)
    <2>1. Settle(q) = Only(Exceeds(q))
      BY <1>1, <1>4 DEF Settle
    <2>2. Exceeds(q).status = 409
      BY DEF Exceeds, ErrorOf, Bare, StatusByCode
    <2>3. Room(q) = Max0(orders[q.order].total - orders[q.order].paid)
      BY DEF Room
    <2>4. QED
      BY <1>1, <1>4, <2>1, <2>2, <2>3 DEF Only, Outcome
  <1>5. CASE ~(~q.valid \/ q.amount < 1) /\ Mine(q) /\ ~(q.amount > Room(q))
    <2> DEFINE new == [orders[q.order] EXCEPT !.paid = orders[q.order].paid + q.amount]
    <2>1. Settle(q) = Accept(q)
      BY <1>1, <1>5 DEF Settle
    <2>2. /\ Accept(q).res = serializeOrderSnapshot(201, new, q.id)
          /\ Accept(q).orders = [orders EXCEPT ![q.order] = new]
          /\ Accept(q).rows = rows \cup {NewRow(q)}
      BY DEF Accept, Outcome, NewRow
    <2>3. serializeOrderSnapshot(201, new, q.id).status = 201
      BY DEF serializeOrderSnapshot, Bare
    <2>4. QED
      BY <1>1, <1>5, <2>1, <2>2, <2>3
  <1>6. QED
    BY <1>2, <1>3, <1>4, <1>5

(* What a payment job comes to: the order's balance suffices, so it is     *)
(* only turned down for its amount, or if the caller has no such order.    *)
LEMMA PaymentIs ==
    ASSUME LoadInv, OrdersInv, NEW j \in Job, j[1] \in PaymentOps,
           j[2] \in 1 .. Len(orderIds), j \notin Done
    PROVE  LET q == RequestOf(j)
               out == Handle(q)
               o == orderIds[j[2]]
           IN  \/ /\ out.orders = orders /\ out.rows = rows
                  /\ \/ /\ out.res.status = 400
                        /\ j[1] = "partial_payment" /\ partialAmount = 0
                     \/ /\ out.res.status = 404
                        /\ ~(o \in DOMAIN orders /\ orders[o].owner = TokenOf(j[2]))
               \/ /\ out.res.status = 201 /\ o \in DOMAIN orders
                  /\ out.rows = rows \cup {NewRow(q)}
                  /\ out.orders = [orders EXCEPT ![o] =
                         [orders[o] EXCEPT !.paid = orders[o].paid + Cents(j[1])]]
  <1> DEFINE q == RequestOf(j)
             o == orderIds[j[2]]
             out == Handle(q)
  <1>1. /\ q.op = "payment" /\ q.key = NoKey /\ q.order = o
        /\ q.user = TokenOf(j[2]) /\ q.amount = Cents(j[1])
    BY DEF RequestOf, PaymentOps, Cents
  <1>2. q.valid <=> Amount(j[1]) % Cent = 0
    BY DEF RequestOf
  <1>3. profile \in Profile /\ Len(orderIds) \in Nat /\ profile.total % Cent = 0
    <2>1. Len(orderIds) \in Nat
      BY DEF LoadInv, RunTyped
    <2>2. QED
      BY <2>1 DEF LoadInv, PoolInv, OrdersInv, IdsKnown
  <1>4. /\ Cents(j[1]) \in Nat /\ Amount(j[1]) % Cent = 0
        /\ Cents(j[1]) < 1 => j[1] = "partial_payment" /\ partialAmount = 0
        /\ Spent(j[2]) + Cents(j[1]) <= Cents("create_order")
    BY <1>3, PartUnspent
  <1>5. Cents("create_order") \in Nat /\ Spent(j[2]) \in Nat
    BY <1>3, PartsOfTotal
  <1>6. Mine(q) <=> o \in DOMAIN orders /\ orders[o].owner = TokenOf(j[2])
    BY <1>1 DEF Mine
  <1>7. ASSUME o \in DOMAIN orders
        PROVE  ~(Cents(j[1]) > Max0(orders[o].total - orders[o].paid))
    <2>1. /\ orders[o].total = Cents("create_order") /\ orders[o].paid \in Nat
          /\ orders[o].paid <= Spent(j[2])
      BY <1>7 DEF OrdersInv, WithinTotal
    <2>2. QED
      BY <1>4, <1>5, <2>1 DEF Max0
  <1>8. \/ /\ out.orders = orders /\ out.rows = rows
           /\ \/ out.res.status = 400 /\ (~q.valid \/ q.amount < 1)
              \/ out.res.status = 404 /\ ~Mine(q)
              \/ /\ out.res.status = 409 /\ Mine(q)
                 /\ q.amount > Max0(orders[q.order].total - orders[q.order].paid)
        \/ /\ out.res.status = 201 /\ Mine(q) /\ out.rows = rows \cup {NewRow(q)}
           /\ out.orders = [orders EXCEPT ![q.order] =
                  [orders[q.order] EXCEPT !.paid = orders[q.order].paid + q.amount]]
    <2> HIDE DEF q
    <2>1. QED
      BY <1>1, SettleIs
  <1> HIDE DEF q, o, out
  <1>9. QED
    BY <1>1, <1>2, <1>4, <1>6, <1>7, <1>8 DEF q, o, out

(* A payment of the burst changes at most the burst's order. *)
LEMMA BurstPaymentIs ==
    ASSUME profile \in Profile, NEW j, j[1] = "burst_payment"
    PROVE  LET q == RequestOf(j)
               out == Handle(q)
           IN  \/ /\ out.orders = orders /\ out.rows = rows
                  /\ \/ out.res.status = 400 /\ profile.amount % Cent # 0
                     \/ out.res.status = 409
                     \/ /\ out.res.status = 404
                        /\ ~(/\ BurstOrder \in DOMAIN orders
                             /\ orders[BurstOrder].owner = User(1))
               \/ /\ out.res.status = 201 /\ BurstOrder \in DOMAIN orders
                  /\ out.rows = rows \cup {NewRow(q)}
                  /\ out.orders = [orders EXCEPT ![BurstOrder] =
                         [orders[BurstOrder] EXCEPT !.paid =
                             orders[BurstOrder].paid + Cents("burst_payment")]]
  <1> DEFINE q == RequestOf(j)
  <1>1. /\ q.op = "payment" /\ q.key = NoKey /\ q.order = BurstOrder
        /\ q.user = User(1) /\ q.amount = Cents("burst_payment")
    BY DEF RequestOf, Cents
  <1>2. q.valid <=> Amount("burst_payment") % Cent = 0
    BY DEF RequestOf
  <1>3. Mine(q) <=> BurstOrder \in DOMAIN orders /\ orders[BurstOrder].owner = User(1)
    BY <1>1 DEF Mine
  <1>4. ~q.valid \/ q.amount < 1 => profile.amount % Cent # 0
    <2>1. profile.amount \in Nat /\ profile.amount >= 1
      BY DEF Profile
    <2>2. Amount("burst_payment") = profile.amount
      BY DEF Amount
    <2>3. profile.amount % 10 = 0 => profile.amount \div 10 >= 1
      BY <2>1
    <2>4. QED
      BY <1>1, <1>2, <2>1, <2>2, <2>3 DEF Cents, Cent
  <1> HIDE DEF q
  <1>5. \/ /\ Handle(q).orders = orders /\ Handle(q).rows = rows
           /\ \/ Handle(q).res.status = 400 /\ (~q.valid \/ q.amount < 1)
              \/ Handle(q).res.status = 404 /\ ~Mine(q)
              \/ /\ Handle(q).res.status = 409 /\ Mine(q)
                 /\ q.amount > Max0(orders[q.order].total - orders[q.order].paid)
        \/ /\ Handle(q).res.status = 201 /\ Mine(q) /\ Handle(q).rows = rows \cup {NewRow(q)}
           /\ Handle(q).orders = [orders EXCEPT ![q.order] =
                  [orders[q.order] EXCEPT !.paid = orders[q.order].paid + q.amount]]
    BY <1>1, SettleIs
  <1>6. \/ /\ Handle(q).orders = orders /\ Handle(q).rows = rows
           /\ \/ Handle(q).res.status = 400 /\ profile.amount % Cent # 0
              \/ Handle(q).res.status = 409
              \/ /\ Handle(q).res.status = 404
                 /\ ~(BurstOrder \in DOMAIN orders /\ orders[BurstOrder].owner = User(1))
        \/ /\ Handle(q).res.status = 201 /\ BurstOrder \in DOMAIN orders
           /\ Handle(q).rows = rows \cup {NewRow(q)}
           /\ Handle(q).orders = [orders EXCEPT ![BurstOrder] =
                  [orders[BurstOrder] EXCEPT !.paid =
                      orders[BurstOrder].paid + Cents("burst_payment")]]
    BY <1>1, <1>3, <1>4, <1>5
  <1>7. QED
    BY <1>6 DEF q

(* A job's step, by what it does to the rows, to what may yet be executed, *)
(* and to the errors.                                                      *)
LEMMA JobDoes ==
    ASSUME NEW j, j[1] \in JobOps, JobStep(j), faults \in Nat
    PROVE  LET q == RequestOf(j)
               out == Handle(q)
           IN  /\ users' = users /\ UNCHANGED <<ending, strays>>
               /\ \/ UNCHANGED <<orders, rows, lost>>
                  \/ orders' = out.orders /\ rows' = out.rows /\ lost' = lost
                  \/ UNCHANGED <<orders, rows>> /\ lost' = lost \cup {q}
               /\ \/ orderIds' = orderIds
                  \/ /\ j[1] = "create_order" /\ orderIds' = Append(orderIds, out.res.id)
                     /\ orders' = out.orders /\ rows' = out.rows /\ lost' = lost
                     /\ out.res.status = 201
               /\ \/ groups' = groups
                  \/ groups' = Grouped(groups, 502, j[1], 1) /\ faults' > 0
                  \/ /\ groups' = Grouped(groups, 429, j[1], 1)
                     /\ window[q.user] >= RATE_LIMIT_MAX
                  \/ /\ groups' = Grouped(groups, out.res.status, j[1], 1)
                     /\ ~Ok(j[1], out.res.status)
  <1> DEFINE q == RequestOf(j)
             out == Handle(q)
  <1>1. Execute(q) => users' = users /\ orders' = out.orders /\ rows' = out.rows
    <2>1. q.op # "register"
      BY DEF RequestOf
    <2>2. QED
      BY <2>1 DEF Execute, Apply
  <1> HIDE DEF q, out
  <1>2. ASSUME NEW status, NEW id, Answered(j, status, id)
        PROVE  /\ \/ orderIds' = orderIds
                  \/ j[1] = "create_order" /\ status = 201 /\ orderIds' = Append(orderIds, id)
               /\ \/ groups' = groups
                  \/ groups' = Grouped(groups, status, j[1], 1) /\ ~Ok(j[1], status)
    BY <1>2 DEF Answered, Record
  <1>3. CASE JobAnswered(j)
    <2>1. /\ UNCHANGED <<lost, ending, strays>>
          /\ \/ UNCHANGED db /\ window[q.user] >= RATE_LIMIT_MAX /\ Answered(j, 429, None)
             \/ Apply(out) /\ Answered(j, out.res.status, out.res.id)
      BY <1>3, AnswersAre DEF q, out
    <2>2. CASE UNCHANGED db /\ window[q.user] >= RATE_LIMIT_MAX /\ Answered(j, 429, None)
      <3>1. orderIds' = orderIds /\ (groups' = groups \/ groups' = Grouped(groups, 429, j[1], 1))
        BY <1>2, <2>2
      <3>2. users' = users /\ orders' = orders /\ rows' = rows
        BY <2>2 DEF db
      <3>3. QED
        BY <2>1, <2>2, <3>1, <3>2 DEF q
    <2>3. CASE Apply(out) /\ Answered(j, out.res.status, out.res.id)
      <3>1. users' = users /\ orders' = out.orders /\ rows' = out.rows
        BY <2>3 DEF Apply
      <3>2. /\ \/ orderIds' = orderIds
               \/ /\ j[1] = "create_order" /\ out.res.status = 201
                  /\ orderIds' = Append(orderIds, out.res.id)
            /\ \/ groups' = groups
               \/ /\ groups' = Grouped(groups, out.res.status, j[1], 1)
                  /\ ~Ok(j[1], out.res.status)
        BY <1>2, <2>3
      <3>3. QED
        BY <2>1, <3>1, <3>2 DEF out, q
    <2>4. QED
      BY <2>1, <2>2, <2>3
  <1>4. CASE JobFails(j)
    <2>1. LoseRequest(q) /\ UNCHANGED <<ending, strays>>
      BY <1>4 DEF JobFails, q
    <2>2. /\ Fault
          /\ \/ UNCHANGED <<db, lost>>
             \/ Execute(q) /\ UNCHANGED lost
             \/ lost' = lost \cup {q} /\ UNCHANGED db
      BY <2>1, LostIs
    <2>3. /\ faults' > 0 /\ users' = users
          /\ \/ UNCHANGED <<orders, rows, lost>>
             \/ orders' = out.orders /\ rows' = out.rows /\ lost' = lost
             \/ UNCHANGED <<orders, rows>> /\ lost' = lost \cup {q}
      BY <1>1, <2>2 DEF db, Fault
    <2>4. orderIds' = orderIds /\ (groups' = groups \/ groups' = Grouped(groups, 502, j[1], 1))
      <3>1. CASE Answered(j, 502, None)
        BY <1>2, <3>1
      <3>2. CASE UNCHANGED <<counts, orderIds>>
        BY <3>2 DEF counts
      <3>3. QED
        BY <1>4, <3>1, <3>2 DEF JobFails
    <2>5. QED
      BY <2>1, <2>3, <2>4 DEF q, out
  <1>5. CASE JobThrows(j)
    BY <1>5 DEF JobThrows, counts, db
  <1>6. QED
    BY <1>3, <1>4, <1>5 DEF JobStep

-----------------------------------------------------------------------------
(* Every step keeps OrdersInv.  First what is known of jobs and requests:  *)
(* a request is what it was, as long as nobody registers any more, ...     *)
AtWork == Working \cup {"register"}

LEMMA RequestStays ==
    ASSUME profile' = profile, tokens' = tokens, NEW j \in Job, j[1] \in JobOps,
           j[1] \in PaymentOps => orderIds'[j[2]] = orderIds[j[2]]
    PROVE  RequestOf(j)' = RequestOf(j)
  <1>1. Amount(j[1])' = Amount(j[1])
    BY CentsStay
  <1>2. TokenOf(j[2])' = TokenOf(j[2]) /\ User(1)' = User(1) /\ BurstOrder' = BurstOrder
    BY DEF TokenOf, User, BurstOrder
  <1>3. CASE j[1] \in PaymentOps
    BY <1>1, <1>2, <1>3 DEF RequestOf, PaymentOps
  <1>4. CASE j[1] \in {"create_order", "burst_order", "burst_payment"}
    BY <1>1, <1>2, <1>4 DEF RequestOf
  <1>5. QED
    BY <1>3, <1>4 DEF JobOps

LEMMA LostStays ==
    ASSUME LoadInv, LostKnown, profile' = profile, settled \subseteq settled',
           tokens' = tokens \/ tokens # profile.users,
           Len(orderIds') \in Nat, Len(orderIds') >= Len(orderIds),
           \A i \in 1 .. Len(orderIds) : orderIds'[i] = orderIds[i],
           \A q \in lost' :
               \/ q \in lost \/ Registration(q)
               \/ tokens' = profile.users /\ \E j \in Job : RequestOfEnded(q, j)'
    PROVE  LostKnown'
  <1> SUFFICES ASSUME NEW q \in lost'
               PROVE  \/ Registration(q)
                      \/ tokens' = profile.users /\ \E j \in Job : RequestOfEnded(q, j)'
    BY DEF LostKnown, Registration, User
  <1>1. SUFFICES ASSUME q \in lost, ~Registration(q)
                 PROVE  tokens' = profile.users /\ \E j \in Job : RequestOfEnded(q, j)'
    OBVIOUS
  <1>2. PICK j \in Job : RequestOfEnded(q, j) /\ tokens = profile.users
    BY <1>1 DEF LostKnown
  <1>3. tokens' = tokens
    BY <1>2
  <1>4. j[1] \in JobOps /\ (j[1] \in PaymentOps => j[2] \in 1 .. Len(orderIds))
    BY <1>2 DEF RequestOfEnded
  <1>5. Len(orderIds) \in Nat
    BY DEF LoadInv, RunTyped
  <1>6. RequestOf(j)' = RequestOf(j)
    BY <1>3, <1>4, RequestStays
  <1>7. j[1] \in PaymentOps => j[2] \in 1 .. Len(orderIds')
    BY <1>4, <1>5
  <1>8. RequestOfEnded(q, j)'
    BY <1>2, <1>6, <1>7 DEF RequestOfEnded, BurstOrder
  <1>9. QED
    BY <1>2, <1>3, <1>8

(* ... a job in the pool is not among what is to be executed, and a job    *)
(* has only one request there.                                             *)
LEMMA IdsOfRequests ==
    ASSUME NEW j \in Job
    PROVE  RequestOf(j).id = j /\ (j[1] \in JobOps => \A n : j # User(n))
  BY DEF RequestOf, JobOps, PaymentOps, User

LEMMA LostIds ==
    ASSUME LostKnown, NEW q \in lost, NEW j \in Job, j[1] \in JobOps, q.id = j
    PROVE  q = RequestOf(j) /\ j \in settled \cup {BurstOrder}
  <1>1. ~Registration(q)
    BY IdsOfRequests DEF Registration
  <1>2. PICK k \in Job : RequestOfEnded(q, k)
    BY <1>1 DEF LostKnown
  <1>3. k = j
    BY <1>2, IdsOfRequests DEF RequestOfEnded
  <1>4. QED
    BY <1>2, <1>3 DEF RequestOfEnded

LEMMA JobFresh ==
    ASSUME LoadInv, OrdersInv, NEW j \in InPool
    PROVE  /\ j \in Job /\ j[1] \in JobOps /\ j \notin settled /\ j \notin Done
           /\ j \notin Pending /\ (j[1] \in PaymentOps => j[2] \in 1 .. Len(orderIds))
  <1>1. j \in Job
    <2>1. ToSet(queue) \subseteq Job
      BY DEF LoadInv, PoolInv, PoolTyped, ToSet
    <2>2. QED
      BY <2>1 DEF LoadInv, PoolInv, PoolTyped, InPool, Taken
  <1>2. /\ j[1] \in PaymentOps \cup {"create_order", "burst_payment"}
        /\ j[1] \in PaymentOps => j[2] \in 1 .. Len(orderIds)
        /\ j \notin settled
    BY DEF OrdersInv, PaymentsHaveOrders, LoadInv, PoolInv, JobsApart
  <1>3. j[1] \in JobOps /\ j # BurstOrder
    BY <1>2 DEF JobOps, PaymentOps, BurstOrder
  <1>4. j \notin Pending
    BY <1>1, <1>2, <1>3, LostIds DEF Pending, OrdersInv
  <1>5. QED
    BY <1>1, <1>2, <1>3, <1>4 DEF Done

(* What is spent of the orders there are stays spent. *)
SpentKept ==
    \A i \in 1 .. Len(orderIds') : Spent(i) \in Nat /\ Spent(i)' \in Nat /\ Spent(i)' >= Spent(i)

LEMMA SpentKeeps ==
    ASSUME LoadInv, profile' = profile, IdsKnown', Len(orderIds') \in Nat,
           \A op \in PaymentOps : \A i : <<op, i>> \in Done => <<op, i>> \in Done'
    PROVE  SpentKept
  <1>1. profile \in Profile
    BY DEF LoadInv, PoolInv
  <1>2. ASSUME NEW i \in 1 .. Len(orderIds')
        PROVE  profile.total % Cent = 0
    BY <1>2 DEF IdsKnown, Cent
  <1>3. ASSUME profile.total % Cent = 0
        PROVE  \A i : Spent(i) \in Nat /\ Spent(i)' \in Nat /\ Spent(i)' >= Spent(i)
    BY <1>1, <1>3, SpentGrows
  <1>4. QED
    BY <1>2, <1>3 DEF SpentKept

(* The orders and their owners, when the orders stay or some are deleted   *)
(* after the phases, ...                                                   *)
Onward ==
    /\ profile' = profile /\ (threw => threw')
    /\ phase' \in AtWork => phase \in AtWork

LEMMA OrdersStay ==
    ASSUME OrdersInv, Onward, SpentKept, orderIds' = orderIds,
           DOMAIN orders' \subseteq DOMAIN orders,
           \A k \in DOMAIN orders' : orders'[k] = orders[k],
           phase' \in AtWork => DOMAIN orders' = DOMAIN orders,
           phase' = "burst" => phase = "burst"
    PROVE  WithinTotal' /\ OwnersKnown'
  <1>1. Cents("create_order")' = Cents("create_order")
    BY CentsStay DEF Onward, JobOps, PaymentOps
  <1>2. WithinTotal'
    <2>1. ASSUME NEW i \in 1 .. Len(orderIds), orderIds[i] \in DOMAIN orders'
          PROVE  LET o == orders'[orderIds[i]]
                 IN  /\ o.total = Cents("create_order")
                     /\ o.paid \in Nat /\ o.paid <= Spent(i)'
      <3> DEFINE o == orders[orderIds[i]]
                 x == Spent(i)
                 y == Spent(i)'
      <3>1. o.total = Cents("create_order") /\ o.paid \in Nat /\ o.paid <= x
        BY <2>1 DEF OrdersInv, WithinTotal
      <3>2. x \in Nat /\ y \in Nat /\ y >= x
        BY DEF SpentKept
      <3>3. orders'[orderIds[i]] = o
        BY <2>1
      <3> HIDE DEF o, x, y
      <3>4. o.paid <= y
        BY <3>1, <3>2
      <3>5. QED
        BY <3>1, <3>3, <3>4 DEF y
    <2>2. \A k \in DOMAIN orders' : DOMAIN orders'[k] = OrderFields
      BY DEF OrdersInv, WithinTotal
    <2>3. QED
      BY <1>1, <2>1, <2>2 DEF WithinTotal, OrderFields
  <1>3. OwnersKnown'
    BY DEF OrdersInv, OwnersKnown, Onward, AtWork, Working, User, BurstOrder
  <1>4. QED
    BY <1>2, <1>3

(* ... when one is created, ...                                            *)
LEMMA CreatedOne ==
    ASSUME WithinTotal, NEW j, orders' = WithNew(j)
    PROVE  /\ DOMAIN orders' = DOMAIN orders \cup {j}
           /\ \A k \in DOMAIN orders' : DOMAIN orders'[k] = OrderFields
           /\ \A k \in DOMAIN orders : k # j => orders'[k] = orders[k]
           /\ orders'[j].owner = RequestOf(j).user /\ orders'[j].total = Cents(j[1])
           /\ orders'[j].paid = 0
  <1>1. /\ DOMAIN NewOrder(j) = OrderFields /\ NewOrder(j).owner = RequestOf(j).user
        /\ NewOrder(j).total = Cents(j[1]) /\ NewOrder(j).paid = 0
    BY DEF OrderFields, NewOrder, Cents
  <1>2. QED
    BY <1>1 DEF WithinTotal, WithNew

LEMMA OrderArrives ==
    ASSUME OrdersInv, Onward, SpentKept, Len(orderIds) \in Nat,
           NEW j \in Job, j[1] \in {"create_order", "burst_order"}, orders' = WithNew(j),
           \/ orderIds' = orderIds
           \/ /\ orderIds' = Append(orderIds, j) /\ j[1] = "create_order"
              /\ Len(orderIds') = Len(orderIds) + 1 /\ orderIds'[Len(orderIds) + 1] = j
              /\ \A i \in 1 .. Len(orderIds) : orderIds'[i] = orderIds[i],
           ~threw /\ profile.users = 1 => RequestOf(j).user = User(1),
           j[1] = "burst_order" => j = BurstOrder,
           phase' = "burst" => phase = "burst" \/ j = BurstOrder
    PROVE  WithinTotal' /\ OwnersKnown'
  <1>1. Cents("create_order")' = Cents("create_order")
    BY CentsStay DEF Onward, JobOps, PaymentOps
  <1>2. /\ DOMAIN orders' = DOMAIN orders \cup {j}
        /\ \A k \in DOMAIN orders' : DOMAIN orders'[k] = OrderFields
        /\ \A k \in DOMAIN orders : k # j => orders'[k] = orders[k]
        /\ orders'[j].owner = RequestOf(j).user /\ orders'[j].total = Cents(j[1])
        /\ orders'[j].paid = 0
    BY CreatedOne DEF OrdersInv
  <1>3. \A i \in 1 .. Len(orderIds') :
            \/ i \in 1 .. Len(orderIds) /\ orderIds'[i] = orderIds[i]
            \/ i = Len(orderIds) + 1 /\ orderIds'[i] = j
    OBVIOUS
  <1>4. \A i \in 1 .. Len(orderIds) : orderIds[i] = j => j[1] = "create_order"
    BY DEF OrdersInv, IdsKnown
  <1>5. WithinTotal'
    <2>1. ASSUME NEW i \in 1 .. Len(orderIds'), orderIds'[i] \in DOMAIN orders'
          PROVE  LET o == orders'[orderIds'[i]]
                 IN  /\ o.total = Cents("create_order")
                     /\ o.paid \in Nat /\ o.paid <= Spent(i)'
      <3> DEFINE o == orders'[orderIds'[i]]
                 x == Spent(i)
                 y == Spent(i)'
      <3>1. x \in Nat /\ y \in Nat /\ y >= x
        BY DEF SpentKept
      <3>2. CASE orderIds'[i] = j
        <4>1. j[1] = "create_order"
          BY <1>3, <1>4, <3>2
        <4>2. o.total = Cents("create_order") /\ o.paid = 0
          BY <1>2, <3>2, <4>1
        <4> HIDE DEF o, x, y
        <4>3. o.paid \in Nat /\ o.paid <= y
          BY <3>1, <4>2
        <4>4. QED
          BY <4>2, <4>3 DEF o, y
      <3>3. CASE orderIds'[i] # j
        <4>1. i \in 1 .. Len(orderIds) /\ orderIds'[i] = orderIds[i]
          BY <1>3, <3>3
        <4>2. orderIds[i] \in DOMAIN orders /\ o = orders[orderIds[i]]
          BY <1>2, <2>1, <3>3, <4>1
        <4>3. o.total = Cents("create_order") /\ o.paid \in Nat /\ o.paid <= x
          BY <4>1, <4>2 DEF OrdersInv, WithinTotal
        <4> HIDE DEF o, x, y
        <4>4. o.paid <= y
          BY <3>1, <4>3
        <4>5. QED
          BY <4>3, <4>4 DEF o, y
      <3>4. QED
        BY <3>2, <3>3
    <2>2. QED
      BY <1>1, <1>2, <2>1 DEF WithinTotal, OrderFields
  <1>6. OwnersKnown'
    <2>2. ~threw' => ~threw
      BY DEF Onward
    <2>3. ASSUME ~threw', phase' \in AtWork, NEW i \in 1 .. Len(orderIds')
          PROVE  orderIds'[i] \in DOMAIN orders'
      BY <1>2, <1>3, <2>2, <2>3 DEF OrdersInv, OwnersKnown, Onward, AtWork
    <2>4. ASSUME ~threw', phase' = "burst"
          PROVE  BurstOrder \in DOMAIN orders' /\ orders'[BurstOrder].owner = User(1)
      <3>1. CASE j = BurstOrder
        BY <1>2, <3>1 DEF RequestOf, BurstOrder
      <3>2. CASE j # BurstOrder
        BY <1>2, <2>2, <2>4, <3>2 DEF OrdersInv, OwnersKnown
      <3>3. QED
        BY <3>1, <3>2
    <2>5. ASSUME ~threw', profile.users = 1, NEW k \in DOMAIN orders'
          PROVE  orders'[k].owner = User(1)
      BY <1>2, <2>2, <2>5 DEF OrdersInv, OwnersKnown
    <2>6. QED
      BY <2>3, <2>4, <2>5 DEF OwnersKnown, Onward, AtWork, User, BurstOrder
  <1>7. QED
    BY <1>5, <1>6

(* ... and when something is paid of one.                                  *)
LEMMA PaidOne ==
    ASSUME WithinTotal, NEW o \in DOMAIN orders, NEW a,
           orders' = [orders EXCEPT ![o] = [orders[o] EXCEPT !.paid = orders[o].paid + a]]
    PROVE  /\ DOMAIN orders' = DOMAIN orders
           /\ \A k \in DOMAIN orders :
                 /\ DOMAIN orders'[k] = OrderFields
                 /\ orders'[k].owner = orders[k].owner /\ orders'[k].total = orders[k].total
                 /\ k # o => orders'[k] = orders[k]
           /\ orders'[o].paid = orders[o].paid + a
  <1>1. DOMAIN orders[o] = OrderFields
    BY DEF WithinTotal
  <1> DEFINE new == [orders[o] EXCEPT !.paid = orders[o].paid + a]
  <1>2. /\ DOMAIN new = OrderFields /\ new.owner = orders[o].owner
        /\ new.total = orders[o].total /\ new.paid = orders[o].paid + a
    BY <1>1 DEF OrderFields
  <1> HIDE DEF new
  <1>3. orders' = [orders EXCEPT ![o] = new]
    BY DEF new
  <1>4. QED
    BY <1>2, <1>3 DEF WithinTotal

LEMMA PaymentArrives ==
    ASSUME OrdersInv, Onward, SpentKept, orderIds' = orderIds,
           phase' = "burst" => phase = "burst",
           NEW o \in DOMAIN orders, NEW a,
           orders' = [orders EXCEPT ![o] = [orders[o] EXCEPT !.paid = orders[o].paid + a]],
           \A i \in 1 .. Len(orderIds) :
               orderIds[i] = o => a \in Nat /\ Spent(i)' = Spent(i) + a
    PROVE  WithinTotal' /\ OwnersKnown'
  <1>1. Cents("create_order")' = Cents("create_order")
    BY CentsStay DEF Onward, JobOps, PaymentOps
  <1>2. /\ DOMAIN orders' = DOMAIN orders
        /\ \A k \in DOMAIN orders :
              /\ DOMAIN orders'[k] = OrderFields
              /\ orders'[k].owner = orders[k].owner /\ orders'[k].total = orders[k].total
              /\ k # o => orders'[k] = orders[k]
        /\ orders'[o].paid = orders[o].paid + a
    BY PaidOne DEF OrdersInv
  <1>3. WithinTotal'
    <2>1. ASSUME NEW i \in 1 .. Len(orderIds), orderIds[i] \in DOMAIN orders
          PROVE  /\ orders'[orderIds[i]].total = Cents("create_order")
                 /\ orders'[orderIds[i]].paid \in Nat
                 /\ orders'[orderIds[i]].paid <= Spent(i)'
      <3> DEFINE k == orderIds[i]
                 was == orders[k].paid
                 is == orders'[k].paid
                 s == Spent(i)
                 t == Spent(i)'
      <3>1. orders[k].total = Cents("create_order") /\ was \in Nat /\ was <= s
        BY <2>1 DEF OrdersInv, WithinTotal
      <3>2. orders'[k].total = Cents("create_order")
        BY <1>2, <2>1, <3>1
      <3>3. is = was \/ (is = was + a /\ a \in Nat /\ t = s + a)
        BY <1>2, <2>1
      <3>4. s \in Nat /\ t \in Nat /\ t >= s
        BY DEF SpentKept
      <3> HIDE DEF was, is, s, t
      <3>5. is \in Nat /\ is <= t
        BY <3>1, <3>3, <3>4
      <3>6. QED
        BY <3>2, <3>5 DEF is, t
    <2>2. QED
      BY <1>1, <1>2, <2>1 DEF WithinTotal, OrderFields
  <1>4. OwnersKnown'
    BY <1>2 DEF OrdersInv, OwnersKnown, Onward, AtWork, Working, BurstOrder, User
  <1>5. QED
    BY <1>3, <1>4

(* A request is executed, for its job or after it. *)
Executed(j) ==
    /\ j \in Job /\ j[1] \in JobOps /\ (j[1] = "burst_order" => j = BurstOrder)
    /\ tokens = profile.users
    /\ j[1] \in PaymentOps =>
          j[2] \in 1 .. Len(orderIds) /\ j \notin Done /\ Done' = Done \cup {j}
    /\ orders' = Handle(RequestOf(j)).orders
    /\ \/ orderIds' = orderIds
       \/ /\ orderIds' = Append(orderIds, j) /\ j[1] = "create_order"
          /\ Len(orderIds') = Len(orderIds) + 1 /\ orderIds'[Len(orderIds) + 1] = j
          /\ \A i \in 1 .. Len(orderIds) : orderIds'[i] = orderIds[i]
          /\ Handle(RequestOf(j)).res.status = 201
    /\ phase' = "burst" =>
          phase = "burst" \/ (j = BurstOrder /\ Handle(RequestOf(j)).res.status = 201)

LEMMA OrdersSame ==
    ASSUME OrdersInv, Onward, SpentKept, orderIds' = orderIds, orders' = orders,
           phase' = "burst" => phase = "burst"
    PROVE  WithinTotal' /\ OwnersKnown'
  BY OrdersStay

LEMMA RequestArrives ==
    ASSUME LoadInv, OrdersInv, Onward, SpentKept, NEW j, Executed(j)
    PROVE  WithinTotal' /\ OwnersKnown'
  <1> DEFINE out == Handle(RequestOf(j))
             o == orderIds[j[2]]
  <1>1. j \in Job /\ j[1] \in JobOps /\ orders' = out.orders
    BY DEF Executed
  <1>2. Len(orderIds) \in Nat /\ profile \in Profile /\ IdsKnown
    BY DEF LoadInv, RunTyped, PoolInv, OrdersInv
  <1>3. CASE j[1] \in {"create_order", "burst_order"}
    <2>1. \/ out.res.status = 201 /\ orders' = WithNew(j)
          \/ out.res.status = 400 /\ orders' = orders
      BY <1>1, <1>3, CreatedIs
    <2>2. CASE out.res.status = 400 /\ orders' = orders
      <3>1. orderIds' = orderIds /\ (phase' = "burst" => phase = "burst")
        BY <2>2 DEF Executed
      <3>2. QED
        BY <2>2, <3>1, OrdersSame
    <2>3. CASE out.res.status = 201 /\ orders' = WithNew(j)
      <3>1. profile.users = 1 => RequestOf(j).user = User(1)
        <4>1. ASSUME profile.users = 1, j[1] = "create_order"
              PROVE  RequestOf(j).user = User(1)
          <5>1. j[2] \in Nat /\ tokens = 1
            BY <1>1, <4>1 DEF Executed, Job
          <5>2. ((j[2] - 1) % tokens) + 1 = 1
            BY <5>1
          <5>3. QED
            BY <4>1, <5>2 DEF RequestOf, TokenOf
        <4>2. j[1] = "burst_order" => RequestOf(j).user = User(1)
          BY DEF RequestOf
        <4>3. QED
          BY <1>3, <4>1, <4>2
      <3>2. /\ \/ orderIds' = orderIds
               \/ /\ orderIds' = Append(orderIds, j) /\ j[1] = "create_order"
                  /\ Len(orderIds') = Len(orderIds) + 1 /\ orderIds'[Len(orderIds) + 1] = j
                  /\ \A i \in 1 .. Len(orderIds) : orderIds'[i] = orderIds[i]
            /\ j[1] = "burst_order" => j = BurstOrder
            /\ phase' = "burst" => phase = "burst" \/ j = BurstOrder
        BY DEF Executed
      <3>3. QED
        BY <1>1, <1>2, <1>3, <2>3, <3>1, <3>2, OrderArrives
    <2>4. QED
      BY <2>1, <2>2, <2>3
  <1>4. j[1] \notin {"create_order", "burst_order"} =>
            orderIds' = orderIds /\ (phase' = "burst" => phase = "burst")
    BY DEF Executed, BurstOrder
  <1>5. CASE j[1] \in PaymentOps
    <2>1. /\ j[2] \in 1 .. Len(orderIds) /\ j \notin Done /\ Done' = Done \cup {j}
          /\ orderIds' = orderIds /\ (phase' = "burst" => phase = "burst")
      BY <1>4, <1>5 DEF Executed, PaymentOps
    <2>2. CASE out.orders = orders
      BY <1>1, <2>1, <2>2, OrdersSame
    <2>3. CASE /\ o \in DOMAIN orders
               /\ out.orders = [orders EXCEPT ![o] =
                      [orders[o] EXCEPT !.paid = orders[o].paid + Cents(j[1])]]
      <3>1. profile.total % Cent = 0 /\ profile' = profile
        BY <1>2, <2>1 DEF IdsKnown, Onward
      <3>2. Cents(j[1]) \in Nat /\ Spent(j[2])' = Spent(j[2]) + Cents(j[1])
        BY <1>1, <1>2, <1>5, <2>1, <3>1, PartUnspent
      <3>3. \A i \in 1 .. Len(orderIds) : orderIds[i] = o => i = j[2]
        BY <1>2, <2>1 DEF IdsKnown, Once
      <3> DEFINE a == Cents(j[1])
      <3>4. \A i \in 1 .. Len(orderIds) :
               orderIds[i] = o => a \in Nat /\ Spent(i)' = Spent(i) + a
        BY <3>2, <3>3
      <3>5. orders' = [orders EXCEPT ![o] = [orders[o] EXCEPT !.paid = orders[o].paid + a]]
        BY <1>1, <2>3
      <3> HIDE DEF a, o
      <3>6. QED
        BY <2>1, <2>3, <3>4, <3>5, PaymentArrives
    <2>4. QED
      BY <1>1, <1>5, <2>1, <2>2, <2>3, PaymentIs
  <1>6. CASE j[1] = "burst_payment"
    <2>1. orderIds' = orderIds /\ (phase' = "burst" => phase = "burst")
      BY <1>4, <1>6
    <2>2. CASE out.orders = orders
      BY <1>1, <2>1, <2>2, OrdersSame
    <2>3. CASE /\ BurstOrder \in DOMAIN orders
               /\ out.orders = [orders EXCEPT ![BurstOrder] =
                      [orders[BurstOrder] EXCEPT !.paid =
                          orders[BurstOrder].paid + Cents("burst_payment")]]
      <3>1. \A i \in 1 .. Len(orderIds) : orderIds[i] # BurstOrder
        BY <1>2 DEF IdsKnown, BurstOrder
      <3> DEFINE b == BurstOrder
                 a == Cents("burst_payment")
      <3>2. /\ b \in DOMAIN orders /\ \A i \in 1 .. Len(orderIds) : orderIds[i] # b
            /\ orders' = [orders EXCEPT ![b] = [orders[b] EXCEPT !.paid = orders[b].paid + a]]
        BY <1>1, <2>3, <3>1
      <3> HIDE DEF a, b
      <3>3. QED
        BY <2>1, <3>2, PaymentArrives
    <2>4. QED
      BY <1>2, <1>6, <2>1, <2>2, <2>3, BurstPaymentIs
  <1>7. QED
    BY <1>1, <1>3, <1>5, <1>6 DEF JobOps

(* What a step does to everything that OrdersInv says but the orders: one  *)
(* that leaves the pool alone, ...                                         *)
LEMMA RestAround ==
    ASSUME LoadInv, OrdersInv, Rests, orderIds' = orderIds,
           tokens' = tokens \/ tokens # profile.users,
           \A q \in lost' :
               \/ q \in lost \/ Registration(q)
               \/ tokens' = profile.users /\ q = RequestOf(BurstOrder)
    PROVE  IdsKnown' /\ PaymentsHaveOrders' /\ LostKnown' /\ SpentKept
  <1>1. /\ profile' = profile /\ settled' = settled /\ InPool' = InPool
        /\ Len(orderIds) \in Nat
    BY DEF Rests, LoadInv, RunTyped
  <1>2. IdsKnown' /\ PaymentsHaveOrders'
    BY <1>1 DEF OrdersInv, IdsKnown, PaymentsHaveOrders, Once
  <1>3. BurstOrder \in Job /\ BurstOrder[1] = "burst_order"
    BY DEF BurstOrder, Job, Ops
  <1>4. ASSUME NEW q \in lost', q \notin lost, ~Registration(q)
        PROVE  tokens' = profile.users /\ q = RequestOf(BurstOrder)
    BY <1>4
  <1>5. LostKnown'
    <2>1. ASSUME NEW q \in lost', q \notin lost, ~Registration(q)
          PROVE  tokens' = profile.users /\ \E j \in Job : RequestOfEnded(q, j)'
      <3>1. tokens' = profile.users /\ q = RequestOf(BurstOrder)
        BY <2>1, <1>4
      <3>2. RequestOf(BurstOrder)' = RequestOf(BurstOrder)
        BY <1>3 DEF RequestOf, User, BurstOrder, Amount, Rests
      <3>3. RequestOfEnded(q, BurstOrder)'
        BY <1>3, <3>1, <3>2 DEF RequestOfEnded, JobOps, PaymentOps, BurstOrder
      <3>4. QED
        BY <1>3, <3>1, <3>3
    <2>2. LostKnown
      BY DEF OrdersInv
    <2>3. QED
      BY <1>1, <2>1, <2>2, LostStays
  <1>6. ASSUME NEW op \in PaymentOps, NEW i, <<op, i>> \in Done
        PROVE  <<op, i>> \in Done'
    <2>1. <<op, i>> \in settled' /\ <<op, i>> \notin Pending
      BY <1>1, <1>6 DEF Done
    <2>2. ASSUME NEW q \in lost', q.id = <<op, i>>
          PROVE  FALSE
      <3>1. q \notin lost
        BY <2>1, <2>2 DEF Pending
      <3>2. ~Registration(q)
        BY <2>2 DEF Registration, User, PaymentOps
      <3>3. q.id = BurstOrder
        BY <1>3, <1>4, <3>1, <3>2, IdsOfRequests
      <3>4. QED
        BY <2>2, <3>3 DEF BurstOrder, PaymentOps
    <2>3. QED
      BY <2>1, <2>2 DEF Done, Pending
  <1>7. SpentKept
    BY <1>1, <1>2, <1>6, SpentKeeps
  <1>8. QED
    BY <1>2, <1>5, <1>7


(* ... the start of a phase, ...                                           *)
LEMMA StartKeepsOrders ==
    ASSUME LoadInv, OrdersInv, NEW next \in {"orders", "payments", "remaining"}, NEW op, NEW n,
           Starts(next, op, n), UNCHANGED <<db, lost>>, phase \in AtWork,
           op \in PaymentOps \cup {"create_order"},
           op \in PaymentOps => n <= Len(orderIds)
    PROVE  OrdersInv'
  <1>1. /\ profile' = profile /\ settled' = settled /\ InPool' = JobsOf(op, n)
        /\ UNCHANGED <<tokens, orderIds, threw>> /\ phase' = next
        /\ Len(orderIds) \in Nat /\ n \in Nat /\ orders' = orders /\ lost' = lost
    BY DEF Starts, LoadInv, RunTyped, db
  <1>2. IdsKnown'
    BY <1>1 DEF OrdersInv, IdsKnown, Once
  <1>3. PaymentsHaveOrders'
    <2>1. \A j \in JobsOf(op, n) : j[1] = op /\ j[2] \in 1 .. n
      BY DEF JobsOf
    <2>2. QED
      BY <1>1, <2>1 DEF PaymentsHaveOrders
  <1>4. LostKnown'
    BY <1>1, LostStays DEF OrdersInv
  <1>5. SpentKept
    BY <1>1, <1>2, SpentKeeps DEF Done, Pending
  <1>6. Onward /\ (phase' = "burst" => phase = "burst")
    BY <1>1 DEF Onward
  <1>7. WithinTotal' /\ OwnersKnown'
    BY <1>1, <1>5, <1>6, OrdersSame
  <1>8. QED
    BY <1>2, <1>3, <1>4, <1>7 DEF OrdersInv

(* ... of the burst, with its order, ...                                   *)
LEMMA BurstKeepsOrders ==
    ASSUME LoadInv, OrdersInv, phase = "remaining",
           Starts("burst", "burst_payment", profile.parallel), lost' = lost,
           Apply(Handle(RequestOf(BurstOrder))), Handle(RequestOf(BurstOrder)).res.status = 201
    PROVE  OrdersInv'
  <1>1. /\ profile' = profile /\ settled' = settled
        /\ InPool' = JobsOf("burst_payment", profile.parallel)
        /\ UNCHANGED <<tokens, orderIds, threw>> /\ phase' = "burst"
        /\ Len(orderIds) \in Nat
    BY DEF Starts, LoadInv, RunTyped
  <1>2. BurstOrder \in Job /\ BurstOrder[1] = "burst_order" /\ BurstOrder[1] \in JobOps
    BY DEF BurstOrder, Job, Ops, JobOps
  <1>3. IdsKnown'
    BY <1>1 DEF OrdersInv, IdsKnown, Once
  <1>4. PaymentsHaveOrders'
    <2>1. \A j \in JobsOf("burst_payment", profile.parallel) : j[1] = "burst_payment"
      BY DEF JobsOf
    <2>2. QED
      BY <1>1, <2>1 DEF PaymentsHaveOrders, PaymentOps
  <1>5. LostKnown'
    BY <1>1, LostStays DEF OrdersInv
  <1>6. SpentKept
    BY <1>1, <1>3, SpentKeeps DEF Done, Pending
  <1>7. Onward
    BY <1>1 DEF Onward, AtWork, Working
  <1>8. tokens = profile.users
    BY DEF LoadInv, PhaseInv, Working
  <1>9. Executed(BurstOrder)
    BY <1>1, <1>2, <1>8 DEF Executed, Apply, PaymentOps
  <1>10. WithinTotal' /\ OwnersKnown'
    BY <1>6, <1>7, <1>9, RequestArrives
  <1>11. QED
    BY <1>3, <1>4, <1>5, <1>10 DEF OrdersInv

(* ... its failure, ...                                                    *)
LEMMA BurstSkipKeepsOrders ==
    ASSUME LoadInv, OrdersInv, phase = "remaining", ~threw, BurstSkipped
    PROVE  OrdersInv'
  <1>1. /\ Rests /\ UNCHANGED <<tokens, orderIds>> /\ phase' = "find" /\ profile' = profile
        /\ Len(orderIds) \in Nat
    BY DEF BurstSkipped, Rests, LoadInv, RunTyped
  <1>2. tokens = profile.users
    BY DEF LoadInv, PhaseInv, Working
  <1>3. \/ UNCHANGED <<db, lost>>
        \/ Apply(Handle(RequestOf(BurstOrder))) /\ UNCHANGED lost
        \/ lost' = lost \cup {RequestOf(BurstOrder)} /\ UNCHANGED db
    BY DEF BurstSkipped
  <1>4. \A q \in lost' : q \in lost \/ q = RequestOf(BurstOrder)
    BY <1>3
  <1>5. IdsKnown' /\ PaymentsHaveOrders' /\ LostKnown' /\ SpentKept
    BY <1>1, <1>2, <1>4, RestAround
  <1>6. Onward /\ phase' # "burst"
    BY <1>1 DEF Onward, AtWork, Working
  <1>7. BurstOrder \in Job /\ BurstOrder[1] = "burst_order" /\ BurstOrder[1] \in JobOps
    BY DEF BurstOrder, Job, Ops, JobOps
  <1>8. WithinTotal' /\ OwnersKnown'
    <2>1. CASE orders' = orders
      BY <1>1, <1>5, <1>6, <2>1, OrdersSame
    <2>2. CASE orders' = Handle(RequestOf(BurstOrder)).orders
      <3>1. Executed(BurstOrder)
        BY <1>1, <1>2, <1>6, <1>7, <2>2 DEF Executed, PaymentOps
      <3>2. QED
        BY <1>5, <1>6, <3>1, RequestArrives
    <2>3. QED
      BY <1>3, <2>1, <2>2 DEF Apply, db
  <1>9. QED
    BY <1>5, <1>8 DEF OrdersInv

(* ... the end of a job, ...                                               *)
LEMMA JobKeepsOrders ==
    ASSUME LoadInv, OrdersInv, NEW j, JobStep(j), Ends(j)
    PROVE  OrdersInv'
  <1> DEFINE q == RequestOf(j)
             out == Handle(q)
  <1>1. j \in InPool
    BY DEF Ends, InPool
  <1>2. /\ j \in Job /\ j[1] \in JobOps /\ j \notin settled /\ j \notin Done
        /\ j \notin Pending /\ (j[1] \in PaymentOps => j[2] \in 1 .. Len(orderIds))
        /\ j[1] # "burst_order"
    BY <1>1, JobFresh DEF OrdersInv, PaymentsHaveOrders, PaymentOps
  <1>3. /\ profile' = profile /\ phase' = phase /\ (threw => threw') /\ tokens' = tokens
        /\ settled' = settled \cup {j} /\ InPool' = InPool \ {j}
    BY DEF Ends
  <1>4. orderIds \in Seq(Job) /\ Len(orderIds) \in Nat /\ faults \in Nat
        /\ tokens = profile.users
    BY <1>1 DEF LoadInv, RunTyped, PhaseInv
  <1>5. /\ \/ UNCHANGED <<orders, lost>>
           \/ orders' = out.orders /\ lost' = lost
           \/ UNCHANGED orders /\ lost' = lost \cup {q}
        /\ \/ orderIds' = orderIds
           \/ /\ j[1] = "create_order" /\ orderIds' = Append(orderIds, out.res.id)
              /\ orders' = out.orders /\ lost' = lost /\ out.res.status = 201
    BY <1>2, <1>4, JobDoes
  <1>6. j[1] = "create_order" /\ out.res.status = 201 =>
            out.res.id = j /\ profile.total % Cent = 0
    BY <1>2, CreatedIs DEF Amount
  <1> HIDE DEF q, out
  <1>7. \/ orderIds' = orderIds
        \/ /\ orderIds' = Append(orderIds, j) /\ j[1] = "create_order"
           /\ Len(orderIds') = Len(orderIds) + 1 /\ orderIds'[Len(orderIds) + 1] = j
           /\ \A i \in 1 .. Len(orderIds) : orderIds'[i] = orderIds[i]
           /\ orders' = out.orders /\ lost' = lost /\ out.res.status = 201
           /\ profile.total % Cent = 0
    <2>1. CASE orderIds' = orderIds
      BY <2>1
    <2>2. CASE orderIds' = Append(orderIds, out.res.id) /\ j[1] = "create_order"
               /\ orders' = out.orders /\ lost' = lost /\ out.res.status = 201
      <3>1. orderIds' = Append(orderIds, j) /\ profile.total % Cent = 0
        BY <1>6, <2>2
      <3>2. /\ Len(orderIds') = Len(orderIds) + 1 /\ orderIds'[Len(orderIds) + 1] = j
            /\ \A i \in 1 .. Len(orderIds) : orderIds'[i] = orderIds[i]
        BY <1>2, <1>4, <3>1
      <3>3. QED
        BY <2>2, <3>1, <3>2
    <2>3. QED
      BY <1>5, <2>1, <2>2
  <1>8. /\ Len(orderIds') \in Nat /\ Len(orderIds') >= Len(orderIds)
        /\ \A i \in 1 .. Len(orderIds) : orderIds'[i] = orderIds[i]
    BY <1>4, <1>7
  <1>9. IdsKnown'
    <2>1. CASE orderIds' = orderIds
      BY <1>3, <2>1 DEF OrdersInv, IdsKnown, Once
    <2>2. CASE orderIds' # orderIds
      <3>1. \A i \in 1 .. Len(orderIds') : i \in 1 .. Len(orderIds) \/ i = Len(orderIds) + 1
        BY <1>4, <1>7, <2>2
      <3>2. \A i \in 1 .. Len(orderIds) : orderIds[i] # j
        BY <1>2 DEF OrdersInv, IdsKnown
      <3>3. Once(orderIds')
        BY <1>7, <2>2, <3>1, <3>2 DEF OrdersInv, IdsKnown, Once
      <3>4. \A i \in 1 .. Len(orderIds') :
               orderIds'[i] \in settled' /\ orderIds'[i][1] = "create_order"
        BY <1>3, <1>7, <2>2, <3>1 DEF OrdersInv, IdsKnown
      <3>5. profile'.total % Cent = 0
        BY <1>3, <1>7, <2>2
      <3>6. QED
        BY <3>3, <3>4, <3>5 DEF IdsKnown, Cent
    <2>3. QED
      BY <2>1, <2>2
  <1>10. PaymentsHaveOrders'
    BY <1>3, <1>4, <1>8 DEF OrdersInv, PaymentsHaveOrders
  <1>11. LostKnown'
    <2>1. RequestOf(j)' = q
      BY <1>2, <1>3, <1>8, RequestStays DEF q
    <2>2. j[1] \in PaymentOps => j[2] \in 1 .. Len(orderIds')
      BY <1>2, <1>4, <1>8
    <2>3. \A r : r = q => RequestOfEnded(r, j)'
      BY <1>2, <1>3, <2>1, <2>2 DEF RequestOfEnded
    <2>4. \A r \in lost' : r \in lost \/ r = q
      BY <1>5
    <2>5. LostKnown
      BY DEF OrdersInv
    <2>6. \A r \in lost' : r \in lost \/ (tokens' = profile.users
                                            /\ \E k \in Job : RequestOfEnded(r, k)')
      BY <1>2, <1>3, <1>4, <2>3, <2>4
    <2>7. QED
      BY <1>3, <1>8, <2>5, <2>6, LostStays
  <1>12. /\ lost' = lost => Done' = Done \cup {j}
         /\ lost' = lost \cup {q} => Done' = Done \/ Done' = Done \cup {j}
    <2>1. q.id = j
      BY <1>2, IdsOfRequests DEF q
    <2>2. lost' = lost => Pending' = Pending
      BY DEF Pending
    <2>3. lost' = lost \cup {q} => Pending' = Pending \cup {j}
      BY <2>1 DEF Pending
    <2>4. QED
      BY <1>2, <1>3, <2>2, <2>3 DEF Done
  <1>13. SpentKept
    <2>1. Done \subseteq Done'
      BY <1>5, <1>12
    <2>2. QED
      BY <1>3, <1>8, <1>9, <2>1, SpentKeeps
  <1>14. Onward
    BY <1>3 DEF Onward
  <1>15. WithinTotal' /\ OwnersKnown'
    <2>1. CASE orders' = out.orders /\ lost' = lost
      <3>1. Executed(j)
        BY <1>2, <1>3, <1>4, <1>7, <1>12, <2>1 DEF Executed, out, q
      <3>2. QED
        BY <1>13, <1>14, <3>1, RequestArrives
    <2>2. CASE orders' = orders /\ orderIds' = orderIds
      BY <1>3, <1>13, <1>14, <2>2, OrdersSame
    <2>3. QED
      BY <1>5, <2>1, <2>2
  <1>16. QED
    BY <1>9, <1>10, <1>11, <1>15 DEF OrdersInv

(* ... and a request that is executed when nobody waits for it any more.   *)
LEMMA ExecuteIs ==
    ASSUME NEW j \in Job, j[1] \in JobOps, Execute(RequestOf(j))
    PROVE  Apply(Handle(RequestOf(j)))
  <1>1. RequestOf(j).op # "register"
    BY DEF RequestOf
  <1>2. QED
    BY <1>1 DEF Execute

LEMMA BelatedKeepsOrders ==
    ASSUME LoadInv, OrdersInv, NEW q \in lost, Belated(q), Rests
    PROVE  OrdersInv'
  <1>1. /\ Execute(q) /\ lost' = lost \ {q} /\ settled' = settled /\ profile' = profile
        /\ UNCHANGED <<phase, tokens, orderIds, threw>>
    BY DEF Belated, Rests
  <1>2. IdsKnown' /\ PaymentsHaveOrders' /\ LostKnown' /\ SpentKept
    BY <1>1, RestAround
  <1>3. Onward /\ (phase' = "burst" => phase = "burst")
    BY <1>1 DEF Onward
  <1>4. CASE Registration(q)
    <2>1. orders' = orders
      BY <1>1, <1>4 DEF Execute, Registration
    <2>2. WithinTotal' /\ OwnersKnown'
      BY <1>1, <1>2, <1>3, <2>1, OrdersSame
    <2>3. QED
      BY <1>2, <2>2 DEF OrdersInv
  <1>5. ASSUME NEW j \in Job, RequestOfEnded(q, j), tokens = profile.users
        PROVE  OrdersInv'
    <2>1. /\ q = RequestOf(j) /\ q.id = j /\ j[1] \in JobOps /\ j \in settled \cup {BurstOrder}
          /\ j[1] \in PaymentOps => j[2] \in 1 .. Len(orderIds)
      BY <1>5, IdsOfRequests DEF RequestOfEnded
    <2>2. orders' = Handle(RequestOf(j)).orders
      BY <1>1, <2>1, ExecuteIs DEF Apply
    <2>3. j \in Pending /\ Pending' = Pending \ {j}
      <3>1. \A r \in lost : r.id = j => r = q
        BY <2>1, LostIds DEF OrdersInv
      <3>2. QED
        BY <1>1, <2>1, <3>1 DEF Pending
    <2>4. j[1] \in PaymentOps => j \notin Done /\ Done' = Done \cup {j}
      <3>1. j[1] \in PaymentOps => j \in settled
        BY <2>1 DEF PaymentOps, BurstOrder
      <3>2. QED
        BY <1>1, <2>3, <3>1 DEF Done
    <2>5. j[1] = "burst_order" => j = BurstOrder
      BY <1>5 DEF RequestOfEnded
    <2>6. Executed(j)
      BY <1>1, <1>5, <2>1, <2>2, <2>4, <2>5 DEF Executed
    <2>7. QED
      BY <1>2, <1>3, <2>6, RequestArrives DEF OrdersInv
  <1>6. QED
    BY <1>4, <1>5 DEF OrdersInv, LostKnown

LEMMA OrdersKept ==
    ASSUME LoadInv, OrdersInv, [Next]_vars
    PROVE  OrdersInv'
  <1>1. ASSUME Rests, UNCHANGED <<tokens, orderIds, lost>>, (threw => threw'),
               phase' \in AtWork => phase \in AtWork /\ DOMAIN orders' = DOMAIN orders,
               phase' = "burst" => phase = "burst",
               DOMAIN orders' \subseteq DOMAIN orders,
               \A k \in DOMAIN orders' : orders'[k] = orders[k]
        PROVE  OrdersInv'
    <2>1. IdsKnown' /\ PaymentsHaveOrders' /\ LostKnown' /\ SpentKept
      BY <1>1, RestAround
    <2>2. Onward
      BY <1>1 DEF Onward, Rests
    <2>3. WithinTotal' /\ OwnersKnown'
      BY <1>1, <2>1, <2>2, OrdersStay
    <2>4. QED
      BY <2>1, <2>3 DEF OrdersInv
  <1>2. CASE LooksOn
    BY <1>1, <1>2 DEF LooksOn, db
  <1>3. CASE PhasesOver
    <2>1. phase' \notin AtWork /\ phase' # "burst"
      BY <1>3 DEF PhasesOver, AtWork, Working
    <2>2. QED
      BY <1>1, <1>3, <2>1 DEF PhasesOver, db
  <1>4. CASE Register /\ Rests
    <2>0. phase = "register" /\ ~threw /\ tokens < profile.users /\ tokens # profile.users
      BY <1>4 DEF Register, LoadInv, PhaseInv, RunTyped, PoolInv, Profile
    <2>1. /\ orderIds' = orderIds /\ orders' = orders
          /\ phase' \in {"register", "find"}
      BY <1>4, <2>0 DEF Register, Execute, Unheard, db
    <2>2. \A q \in lost' : q \in lost \/ Registration(q)
      <3>1. tokens + 1 \in Nat
        BY DEF LoadInv, RunTyped
      <3>2. Registration([op |-> "register", id |-> User(tokens + 1)])
        BY <3>1 DEF Registration
      <3>3. lost' = lost \/ lost' = lost \cup {[op |-> "register", id |-> User(tokens + 1)]}
        BY <1>4 DEF Register, Unheard
      <3>4. QED
        BY <3>2, <3>3
    <2>3. IdsKnown' /\ PaymentsHaveOrders' /\ LostKnown' /\ SpentKept
      BY <1>4, <2>0, <2>1, <2>2, RestAround
    <2>4. Onward /\ phase' # "burst"
      BY <1>4, <2>0, <2>1 DEF Onward, Rests, AtWork
    <2>5. WithinTotal' /\ OwnersKnown'
      BY <2>1, <2>3, <2>4, OrdersSame
    <2>6. QED
      BY <2>3, <2>5 DEF OrdersInv
  <1>5. CASE (Cleanup \/ CleanupFails) /\ Rests
    <2>1. /\ UNCHANGED <<tokens, orderIds, lost, threw>>
          /\ phase' \in {"delete payments", "delete orders", "delete users", "over"}
      BY <1>5 DEF Cleanup, CleanupFails, Select, Swept
    <2>2. /\ DOMAIN orders' \subseteq DOMAIN orders
          /\ \A k \in DOMAIN orders' : orders'[k] = orders[k]
      BY <1>5 DEF Cleanup, CleanupFails, Select, DeletePayments, DeleteOrders, DeleteUsers, db
    <2>3. phase' \notin AtWork /\ phase' # "burst"
      BY <2>1 DEF AtWork, Working
    <2>4. QED
      BY <1>1, <1>5, <2>1, <2>2, <2>3
  <1>6. CASE CreateOrders
    <2>1. phase = "register" /\ Starts("orders", "create_order", profile.orders)
      BY <1>6, PhasesStart
    <2>2. UNCHANGED <<db, lost>>
      BY <1>6 DEF CreateOrders, StartPhase
    <2>3. QED
      BY <2>1, <2>2, StartKeepsOrders DEF AtWork, PaymentOps
  <1>7. CASE PayPartially
    <2>1. phase = "orders" /\ Starts("payments", "partial_payment", PartialJobs)
      BY <1>7, PhasesStart
    <2>2. UNCHANGED <<db, lost>>
      BY <1>7 DEF PayPartially, StartPhase
    <2>3. PartialJobs <= Len(orderIds)
      BY PaymentsStarted DEF LoadInv, PoolInv, RunTyped
    <2>4. QED
      BY <2>1, <2>2, <2>3, StartKeepsOrders DEF AtWork, Working, PaymentOps
  <1>8. CASE PayRemaining
    <2>1. phase = "payments" /\ Starts("remaining", "pay_remaining", RemainingJobs)
      BY <1>8, PhasesStart
    <2>2. UNCHANGED <<db, lost>>
      BY <1>8 DEF PayRemaining, StartPhase
    <2>3. RemainingJobs <= Len(orderIds)
      <3>1. /\ RemainingJobs \in Nat /\ PartialJobs \in Nat /\ Len(orderIds) \in Nat
            /\ RemainingJobs <= PartialJobs /\ PartialJobs <= Len(orderIds)
        BY PaymentsStarted DEF LoadInv, PoolInv, RunTyped
      <3>2. QED
        BY <3>1
    <2>4. QED
      BY <2>1, <2>2, <2>3, StartKeepsOrders DEF AtWork, Working, PaymentOps
  <1>9. CASE CreateBurstOrder
    BY <1>9, BurstMoves, BurstKeepsOrders, BurstSkipKeepsOrders
  <1>10. ASSUME NEW j, JobStep(j), Ends(j)
         PROVE  OrdersInv'
    BY <1>10, JobKeepsOrders
  <1>11. ASSUME NEW q \in lost, Belated(q), Rests
         PROVE  OrdersInv'
    BY <1>11, BelatedKeepsOrders
  <1>12. QED
    BY <1>2, <1>3, <1>4, <1>5, <1>6, <1>7, <1>8, <1>9, <1>10, <1>11, StepsOfRuns


LEMMA OrdersSafe == Spec => []OrdersInv
  <1>1. ASSUME Init PROVE OrdersInv
    <2>1. /\ LoadInv /\ orderIds = <<>> /\ orders = <<>> /\ lost = {}
          /\ phase = "register"
      BY <1>1, LoadBegins DEF Init
    <2>2. InPool = {} /\ Len(orderIds) = 0 /\ DOMAIN orders = {}
      BY <1>1, <2>1 DEF Init, InPool, Taken, ToSet
    <2>3. QED
      BY <2>1, <2>2 DEF OrdersInv, IdsKnown, Once, PaymentsHaveOrders, LostKnown, WithinTotal,
                        OwnersKnown
  <1>2. QED
    BY <1>1, LoadSafe, OrdersKept, PTL DEF Spec

-----------------------------------------------------------------------------
(* The failures: what FailuresExplained says of one of them.               *)
Explained(g) ==
    \/ g[1] = 502 /\ faults > 0
    \/ g[1] = 429 /\ Requests(profile) > RATE_LIMIT_MAX
    \/ g = <<400, "partial_payment">> /\ partialAmount = 0
    \/ g = <<400, "create_order">> /\ profile.total % Cent # 0
    \/ g[1] = 400 /\ g[2] \in {"burst_order", "burst_payment"} /\ profile.amount % Cent # 0
    \/ g[1] = 404 /\ g[2] \in {"partial_payment", "pay_remaining"} /\ profile.users > 1
    \/ g[1] = 404 /\ threw

ReasonsKnown == \A g \in DOMAIN groups : Explained(g)

LEMMA ReasonsStay ==
    ASSUME profile' = profile, faults \in Nat, faults' \in Nat, faults' >= faults,
           threw => threw', NEW g, Explained(g)
    PROVE  Explained(g)'
  <1>1. partialAmount' = partialAmount /\ Requests(profile)' = Requests(profile)
    BY DEF partialAmount, Requests, estimateTotalOps, estimatePaymentOps, partialCount
  <1>2. faults > 0 => faults' > 0
    OBVIOUS
  <1>3. QED
    BY <1>1, <1>2 DEF Explained

(* Every step keeps to profile and faults, and what has thrown has thrown. *)
LEMMA StepsRemember ==
    ASSUME LoadInv, [Next]_vars
    PROVE  /\ profile' = profile /\ faults \in Nat /\ faults' \in Nat /\ faults' >= faults
           /\ threw => threw'
  <1>1. faults \in Nat
    BY DEF LoadInv, RunTyped
  <1>2. SUFFICES profile' = profile /\ faults' \in Nat /\ faults' >= faults /\ (threw => threw')
    BY <1>1
  <1>3. CASE CreateBurstOrder
    <2>1. faults' = faults \/ faults' = faults + 1
      BY <1>3, BurstMoves DEF Starts, BurstSkipped
    <2>2. threw' = threw \/ threw' = TRUE
      BY <1>3 DEF CreateBurstOrder
    <2>3. profile' = profile
      BY <1>3, BurstMoves
    <2>4. QED
      BY <1>1, <2>1, <2>2, <2>3
  <1>4. CASE Register /\ Rests
    <2>1. faults' = faults \/ faults' = faults + 1
      BY <1>4 DEF Register, Fault
    <2>2. threw' = threw \/ threw' = TRUE
      BY <1>4 DEF Register
    <2>3. QED
      BY <1>1, <1>4, <2>1, <2>2 DEF Rests
  <1>5. CASE (Cleanup \/ CleanupFails \/ \E q \in lost : Belated(q)) /\ Rests
    <2>1. faults' = faults \/ faults' = faults + 1
      BY <1>5 DEF Cleanup, CleanupFails, Belated, Fault
    <2>2. threw' = threw
      BY <1>5 DEF Cleanup, CleanupFails, Belated
    <2>3. QED
      BY <1>1, <1>5, <2>1, <2>2 DEF Rests
  <1>6. CASE LooksOn \/ PhasesOver
    BY <1>1, <1>6 DEF LooksOn, PhasesOver, Rests
  <1>7. CASE CreateOrders \/ PayPartially \/ PayRemaining
    BY <1>1, <1>7, PhasesStart DEF Starts
  <1>8. ASSUME NEW j, JobStep(j), Ends(j)
        PROVE  profile' = profile /\ faults' \in Nat /\ faults' >= faults /\ (threw => threw')
    <2>1. faults' = faults \/ faults' = faults + 1
      BY <1>8, AnswersAre, LostIs DEF JobStep, JobFails, JobThrows, Fault
    <2>2. QED
      BY <1>1, <1>8, <2>1 DEF Ends
  <1>9. QED
    BY <1>3, <1>4, <1>5, <1>6, <1>7, <1>8, StepsOfRuns

(* A job's token is that of one of the users; while nothing has thrown it  *)
(* has its turn.                                                           *)
LEMMA TokensAreOfUsers ==
    ASSUME LoadInv, tokens = profile.users, NEW j \in Job
    PROVE  /\ \E n \in 1 .. profile.users : TokenOf(j[2]) = User(n)
           /\ profile.users = 1 => TokenOf(j[2]) = User(1)
           /\ 1 \in 1 .. profile.users
  <1>1. j[2] \in Nat /\ tokens \in Nat \ {0}
    BY DEF LoadInv, PoolInv, Profile, Job
  <1> DEFINE n == ((j[2] - 1) % tokens) + 1
  <1>2. n \in 1 .. tokens
    BY <1>1
  <1> HIDE DEF n
  <1>3. TokenOf(j[2]) = User(n)
    BY DEF TokenOf, n
  <1>4. tokens = 1 => n = 1
    BY <1>2
  <1>5. QED
    BY <1>1, <1>2, <1>3, <1>4

LEMMA JobsTurn ==
    ASSUME LoadInv, NEW j \in InPool, ~threw
    PROVE  phase \in Working /\ (j[1] = "burst_payment" => phase = "burst")
  <1>1. j \in CurrentJobs
    BY DEF LoadInv, PhaseInv
  <1>2. QED
    BY <1>1 DEF CurrentJobs, Working, JobsOf

(* A job is only turned down for a reason, by the service ...              *)
LEMMA JobHasReason ==
    ASSUME LoadInv, OrdersInv, NEW j \in InPool,
           ~Ok(j[1], Handle(RequestOf(j)).res.status)
    PROVE  Explained(<<Handle(RequestOf(j)).res.status, j[1]>>)
  <1> DEFINE status == Handle(RequestOf(j)).res.status
             o == orderIds[j[2]]
  <1>1. /\ j \in Job /\ j[1] \in JobOps /\ j \notin Done /\ profile \in Profile
        /\ j[1] \in PaymentOps => j[2] \in 1 .. Len(orderIds)
        /\ j[1] # "burst_order" /\ tokens = profile.users
    BY JobFresh DEF LoadInv, PoolInv, PhaseInv, OrdersInv, PaymentsHaveOrders, PaymentOps
  <1>2. ASSUME ~threw
        PROVE  /\ phase \in Working /\ (j[1] = "burst_payment" => phase = "burst")
               /\ profile.users = 1 => TokenOf(j[2]) = User(1)
    BY <1>1, <1>2, JobsTurn, TokensAreOfUsers
  <1>3. CASE j[1] = "create_order"
    <2>1. status = 400 /\ profile.total % Cent # 0
      BY <1>1, <1>3, CreatedIs DEF Ok, Amount
    <2> HIDE DEF status
    <2>2. Explained(<<status, j[1]>>)
      BY <1>3, <2>1 DEF Explained
    <2>3. QED
      BY <2>2 DEF status
  <1>4. CASE j[1] \in PaymentOps
    <2>1. \/ status = 400 /\ j[1] = "partial_payment" /\ partialAmount = 0
          \/ status = 404 /\ ~(o \in DOMAIN orders /\ orders[o].owner = TokenOf(j[2]))
      <3>1. status # 201
        BY DEF Ok
      <3>2. j \in Job /\ j[1] \in PaymentOps /\ j[2] \in 1 .. Len(orderIds) /\ j \notin Done
        BY <1>1, <1>4
      <3> DEFINE out == Handle(RequestOf(j))
      <3>3. \/ /\ out.orders = orders /\ out.rows = rows
               /\ \/ out.res.status = 400 /\ j[1] = "partial_payment" /\ partialAmount = 0
                  \/ /\ out.res.status = 404
                     /\ ~(o \in DOMAIN orders /\ orders[o].owner = TokenOf(j[2]))
            \/ /\ out.res.status = 201 /\ o \in DOMAIN orders
               /\ out.rows = rows \cup {NewRow(RequestOf(j))}
               /\ out.orders = [orders EXCEPT ![o] =
                      [orders[o] EXCEPT !.paid = orders[o].paid + Cents(j[1])]]
        BY <3>2, PaymentIs
      <3>4. QED
        BY <3>1, <3>3
    <2>2. ASSUME ~threw, profile.users = 1
          PROVE  o \in DOMAIN orders /\ orders[o].owner = TokenOf(j[2])
      BY <1>1, <1>2, <1>4, <2>2 DEF OrdersInv, OwnersKnown
    <2>3. profile.users = 1 \/ profile.users > 1
      BY <1>1 DEF Profile
    <2> HIDE DEF status, o
    <2>4. CASE status = 400
      <3>1. j[1] = "partial_payment" /\ partialAmount = 0
        BY <2>1, <2>4
      <3>2. Explained(<<status, j[1]>>)
        BY <2>4, <3>1 DEF Explained
      <3>3. QED
        BY <3>2 DEF status
    <2>5. CASE status = 404
      <3>1. threw \/ profile.users > 1
        BY <2>1, <2>2, <2>3, <2>5
      <3>2. Explained(<<status, j[1]>>)
        BY <1>4, <2>5, <3>1 DEF Explained, PaymentOps
      <3>3. QED
        BY <3>2 DEF status
    <2>6. QED
      BY <2>1, <2>4, <2>5
  <1>5. CASE j[1] = "burst_payment"
    <2>1. \/ status = 400 /\ profile.amount % Cent # 0
          \/ /\ status = 404
             /\ ~(BurstOrder \in DOMAIN orders /\ orders[BurstOrder].owner = User(1))
      BY <1>1, <1>5, BurstPaymentIs DEF Ok
    <2>2. status = 404 => threw
      BY <1>2, <1>5, <2>1 DEF OrdersInv, OwnersKnown
    <2> HIDE DEF status
    <2>3. Explained(<<status, j[1]>>)
      BY <1>5, <2>1, <2>2 DEF Explained
    <2>4. QED
      BY <2>3 DEF status
  <1>6. QED
    BY <1>1, <1>3, <1>4, <1>5 DEF JobOps

(* ... or the gateway; and a multiple of whole cents is whole cents.       *)
LEMMA LimitHasReason ==
    ASSUME LoadInv, WindowInv, OrdersInv, NEW j \in InPool,
           window[RequestOf(j).user] >= RATE_LIMIT_MAX
    PROVE  Requests(profile) > RATE_LIMIT_MAX
  <1>1. j \in Job /\ tokens = profile.users
    BY JobFresh DEF LoadInv, PhaseInv
  <1>2. RequestOf(j).user \in {User(1), TokenOf(j[2])}
    BY DEF RequestOf
  <1>3. \E n \in 1 .. profile.users : RequestOf(j).user = User(n)
    BY <1>1, <1>2, TokensAreOfUsers
  <1>4. QED
    BY <1>3, LimitReached

LEMMA BurstHasReason ==
    ASSUME profile \in Profile, Amount("burst_order") % Cent # 0
    PROVE  profile.amount % Cent # 0
  <1>1. profile.amount \in Nat /\ profile.parallel \in Nat
    BY DEF Profile
  <1>2. Amount("burst_order") = profile.amount * profile.parallel
    BY DEF Amount
  <1> DEFINE a == profile.amount
             m == profile.parallel
             k == a \div 10
  <1>3. ASSUME a % 10 = 0
        PROVE  (a * m) % 10 = 0
    <2>1. a \in Nat /\ m \in Nat /\ k \in Nat
      BY <1>1
    <2>2. a = 10 * k
      BY <1>1, <1>3
    <2> DEFINE x == k * m
    <2>3. x \in Nat
      BY <2>1
    <2>4. a * m = 10 * x
      <3> HIDE DEF a, m, k
      <3>1. a * m = (10 * k) * m
        BY <2>2
      <3>2. (10 * k) * m = 10 * (k * m)
        BY <2>1
      <3>3. QED
        BY <3>1, <3>2
    <2> HIDE DEF x
    <2>5. (10 * x) % 10 = 0
      BY <2>3
    <2>6. QED
      BY <2>4, <2>5
  <1>4. QED
    BY <1>2, <1>3 DEF Cent

LEMMA ReasonsKept ==
    ASSUME LoadInv, WindowInv, OrdersInv, ReasonsKnown, [Next]_vars
    PROVE  ReasonsKnown'
  <1>1. /\ profile' = profile /\ faults \in Nat /\ faults' \in Nat /\ faults' >= faults
        /\ \A g : Explained(g) => Explained(g)'
    BY StepsRemember, ReasonsStay
  <1>2. CASE groups' = groups
    BY <1>1, <1>2 DEF ReasonsKnown
  <1>3. ASSUME \A g \in DOMAIN groups' : g \in DOMAIN groups \/ Explained(g)'
        PROVE  ReasonsKnown'
    <2>1. SUFFICES ASSUME NEW g \in DOMAIN groups' PROVE Explained(g)'
      BY DEF ReasonsKnown
    <2>2. CASE g \in DOMAIN groups
      <3>1. Explained(g)
        BY <2>2 DEF ReasonsKnown
      <3>2. QED
        BY <1>1, <3>1
    <2>3. QED
      BY <1>3, <2>2
  <1>4. ASSUME NEW status, NEW op, NEW n, groups' = Grouped(groups, status, op, n),
               \A g : g = <<status, op>> => Explained(g)'
        PROVE  ReasonsKnown'
    <2>1. \A g \in DOMAIN groups' : g \in DOMAIN groups \/ g = <<status, op>>
      BY <1>4 DEF Grouped
    <2>2. \A g \in DOMAIN groups' : g \in DOMAIN groups \/ Explained(g)'
      BY <1>4, <2>1
    <2>3. QED
      BY <1>3, <2>2
  <1>5. \A op, g : faults' > 0 /\ g = <<502, op>> => Explained(g)'
    BY DEF Explained
  <1>6. CASE Register /\ Rests
    <2>1. CASE groups' = groups
      BY <1>2, <2>1
    <2>2. CASE Fault /\ groups' = Grouped(groups, 502, "register", 1)
      <3>1. faults' > 0
        BY <1>1, <2>2 DEF Fault
      <3>2. QED
        BY <1>4, <1>5, <2>2, <3>1
    <2>3. groups' = groups \/ (Fault /\ groups' = Grouped(groups, 502, "register", 1))
      BY <1>6 DEF Register, Record, counts
    <2>4. QED
      BY <2>1, <2>2, <2>3
  <1>7. CASE CreateOrders \/ PayPartially \/ PayRemaining
    BY <1>2, <1>7 DEF CreateOrders, PayPartially, PayRemaining, StartPhase, counts
  <1>8. CASE CreateBurstOrder
    <2>1. CASE groups' = groups
      BY <1>2, <2>1
    <2>2. ASSUME NEW status \in {400, 429, 502},
                 groups' = Grouped(Grouped(groups, status, "burst_order", 1), status,
                                   "burst_payment", profile.parallel),
                 status = 400 => Amount("burst_order") % Cent # 0,
                 status = 429 => window[User(1)] >= RATE_LIMIT_MAX,
                 status = 502 => faults' = faults + 1
          PROVE  ReasonsKnown'
      <3>1. status = 502 => faults' > 0
        BY <1>1, <2>2
      <3>2. profile \in Profile /\ profile.users \in Nat \ {0}
        BY DEF LoadInv, PoolInv, Profile
      <3>3. status = 400 => profile'.amount % Cent' # 0
        BY <1>1, <2>2, <3>2, BurstHasReason DEF Cent
      <3>4. 1 \in 1 .. profile.users
        BY <3>2
      <3>5. status = 429 => Requests(profile) > RATE_LIMIT_MAX
        BY <1>8, <2>2, <3>4, BurstMoves, LimitReached
      <3>6. Requests(profile)' = Requests(profile)
        BY <1>1 DEF Requests, estimateTotalOps, estimatePaymentOps, partialCount
      <3>7. \A g \in DOMAIN groups' :
               \/ g \in DOMAIN groups
               \/ g = <<status, "burst_order">> \/ g = <<status, "burst_payment">>
        BY <2>2 DEF Grouped
      <3>8. \A g : g = <<status, "burst_order">> \/ g = <<status, "burst_payment">> =>
                Explained(g)'
        BY <3>1, <3>3, <3>5, <3>6 DEF Explained
      <3>9. \A g \in DOMAIN groups' : g \in DOMAIN groups \/ Explained(g)'
        BY <3>7, <3>8
      <3>10. QED
        BY <1>3, <3>9
    <2>3. CASE Starts("burst", "burst_payment", profile.parallel)
      BY <2>1, <2>3 DEF Starts
    <2>4. CASE BurstSkipped
      <3>1. \/ groups' = groups
            \/ \E status \in {400, 429, 502} :
                  /\ groups' = Grouped(Grouped(groups, status, "burst_order", 1), status,
                                       "burst_payment", profile.parallel)
                  /\ status = 400 => Amount("burst_order") % Cent # 0
                  /\ status = 429 => window[User(1)] >= RATE_LIMIT_MAX
                  /\ status = 502 => faults' = faults + 1
        BY <2>4 DEF BurstSkipped
      <3>2. QED
        BY <2>1, <2>2, <3>1
    <2>5. QED
      BY <1>8, <2>3, <2>4, BurstMoves
  <1>9. ASSUME NEW j, JobStep(j), Ends(j)
        PROVE  ReasonsKnown'
    <2> DEFINE status == Handle(RequestOf(j)).res.status
               user == RequestOf(j).user
    <2>1. j \in InPool /\ j[1] \in JobOps /\ faults \in Nat
      BY <1>1, <1>9, JobFresh DEF Ends, InPool
    <2>2. \/ groups' = groups
          \/ groups' = Grouped(groups, 502, j[1], 1) /\ faults' > 0
          \/ groups' = Grouped(groups, 429, j[1], 1) /\ window[user] >= RATE_LIMIT_MAX
          \/ groups' = Grouped(groups, status, j[1], 1) /\ ~Ok(j[1], status)
      BY <1>9, <2>1, JobDoes
    <2>3. ASSUME ~Ok(j[1], status), NEW g, g = <<status, j[1]>>
          PROVE  Explained(g)
      BY <2>1, <2>3, JobHasReason
    <2>4. ASSUME window[user] >= RATE_LIMIT_MAX, NEW g, g = <<429, j[1]>>
          PROVE  Explained(g)
      <3>1. Requests(profile) > RATE_LIMIT_MAX
        BY <2>1, <2>4, LimitHasReason
      <3>2. QED
        BY <2>4, <3>1 DEF Explained
    <2> HIDE DEF status, user
    <2>5. QED
      BY <1>1, <1>2, <1>4, <1>5, <2>2, <2>3, <2>4
  <1>10. CASE LooksOn \/ PhasesOver
    BY <1>2, <1>10 DEF LooksOn, PhasesOver
  <1>11. CASE (Cleanup \/ CleanupFails \/ \E q \in lost : Belated(q)) /\ Rests
    BY <1>2, <1>11 DEF Cleanup, CleanupFails, Belated, counts
  <1>12. QED
    BY <1>6, <1>7, <1>8, <1>9, <1>10, <1>11, StepsOfRuns

(* FailuresExplained for every profile and every limit: no request of a    *)
(* run is turned down by the others, but for the reasons that it lists.    *)
THEOREM FailuresHaveReasons == Spec => []FailuresExplained
  <1>1. Init => ReasonsKnown
    BY DEF Init, ReasonsKnown
  <1>2. Spec => []ReasonsKnown
    BY <1>1, LoadSafe, WindowSafe, OrdersSafe, ReasonsKept, PTL DEF Spec
  <1>3. ReasonsKnown => FailuresExplained
    BY DEF ReasonsKnown, Explained, FailuresExplained
  <1>4. QED
    BY <1>2, <1>3, PTL

-----------------------------------------------------------------------------
(* The cleanup finds who the run has registered, and all there is belongs  *)
(* to one of them.                                                         *)
Mates == {User(n) : n \in 1 .. tokens}

Belongs ==
    /\ \A k \in DOMAIN orders : orders[k].owner \in Mates
    /\ \A e \in rows : e.user \in Mates

IdsOfRows == {e.id : e \in rows}

(* So each statement deletes all that was there when the cleanup looked.   *)
CleanInv ==
    /\ Belongs
    /\ botched => phase = "over"
    /\ phase \in Swept \ {"over"} => users \subseteq sweep \cup strays /\ Mates \subseteq sweep
    /\ phase = "over" /\ ~botched => users \subseteq strays
    /\ ~threw /\ ~botched /\ phase \in {"delete orders", "delete users", "over"} =>
          IdsOfRows \subseteq strays
    /\ ~threw /\ ~botched /\ phase \in {"delete users", "over"} => DOMAIN orders \subseteq strays

LEMMA RequestsAreMates ==
    ASSUME LoadInv, tokens = profile.users, NEW j \in Job
    PROVE  RequestOf(j).user \in Mates
  <1>1. RequestOf(j).user \in {User(1), TokenOf(j[2])}
    BY DEF RequestOf
  <1>2. QED
    BY <1>1, TokensAreOfUsers DEF Mates

(* A request adds at most what has its id, and that belongs to its user.   *)
LEMMA RequestAdds ==
    ASSUME LoadInv, OrdersInv, Belongs, tokens = profile.users, tokens' = tokens,
           NEW j \in Job, j[1] \in JobOps,
           orders' = Handle(RequestOf(j)).orders, rows' = Handle(RequestOf(j)).rows
    PROVE  /\ Belongs'
           /\ DOMAIN orders' \subseteq DOMAIN orders \cup {j}
           /\ IdsOfRows' \subseteq IdsOfRows \cup {j}
  <1> DEFINE q == RequestOf(j)
             out == Handle(q)
  <1>1. q.user \in Mates /\ q.id = j /\ q.key = NoKey
    BY RequestsAreMates, IdsOfRequests DEF RequestOf
  <1>2. Mates' = Mates
    BY DEF Mates, User
  <1>3. CASE UNCHANGED <<orders, rows>>
    BY <1>2, <1>3 DEF Belongs, IdsOfRows
  <1>4. CASE j[1] \in {"create_order", "burst_order"}
    <2>1. rows' = rows /\ (orders' = orders \/ orders' = WithNew(j))
      BY <1>4, CreatedIs
    <2>2. CASE orders' = WithNew(j)
      <3>1. /\ DOMAIN orders' = DOMAIN orders \cup {j}
            /\ \A k \in DOMAIN orders : k # j => orders'[k] = orders[k]
            /\ orders'[j].owner = q.user
        BY <2>2, CreatedOne DEF OrdersInv
      <3> HIDE DEF q
      <3>2. QED
        BY <1>1, <1>2, <2>1, <3>1 DEF Belongs, IdsOfRows
    <2>3. QED
      BY <1>3, <2>1, <2>2
  <1>5. CASE j[1] \notin {"create_order", "burst_order"}
    <2>1. q.op = "payment"
      BY <1>5 DEF RequestOf
    <2> DEFINE o == q.order
               a == q.amount
    <2>2. \/ out.orders = orders /\ out.rows = rows
          \/ /\ Mine(q) /\ out.rows = rows \cup {NewRow(q)}
             /\ out.orders = [orders EXCEPT ![o] =
                    [orders[o] EXCEPT !.paid = orders[o].paid + a]]
      <3> HIDE DEF q
      <3>1. QED
        BY <1>1, <2>1, SettleIs
    <2>3. CASE /\ Mine(q) /\ out.rows = rows \cup {NewRow(q)}
               /\ out.orders = [orders EXCEPT ![o] =
                      [orders[o] EXCEPT !.paid = orders[o].paid + a]]
      <3>1. /\ o \in DOMAIN orders /\ rows' = rows \cup {NewRow(q)}
            /\ orders' = [orders EXCEPT ![o] = [orders[o] EXCEPT !.paid = orders[o].paid + a]]
        BY <2>3 DEF Mine
      <3>2. NewRow(q).user = q.user /\ NewRow(q).id = j
        BY <1>1 DEF NewRow
      <3> HIDE DEF q, o, a
      <3>3. /\ DOMAIN orders' = DOMAIN orders
            /\ \A k \in DOMAIN orders : orders'[k].owner = orders[k].owner
        BY <3>1, PaidOne DEF OrdersInv
      <3>4. \A e \in rows' : e \in rows \/ e = NewRow(q)
        BY <3>1
      <3>5. QED
        BY <1>1, <1>2, <3>2, <3>3, <3>4 DEF Belongs, IdsOfRows
    <2>4. QED
      BY <1>3, <2>2, <2>3
  <1>6. QED
    BY <1>4, <1>5

(* The steps of the cleanup itself, ...                                    *)
LEMMA SelectCleans ==
    ASSUME LoadInv, CleanInv, Select(IF Found = {} THEN "over" ELSE "delete payments"),
           UNCHANGED <<tokens, threw, botched, strays>>
    PROVE  CleanInv'
  <1>1. /\ phase = "find" /\ sweep' = Found /\ UNCHANGED <<users, orders, rows>>
        /\ phase' = IF Found = {} THEN "over" ELSE "delete payments"
    BY DEF Select, db
  <1>2. Mates' = Mates /\ Belongs' /\ Belongs /\ Found = users \cup Mates
    BY <1>1 DEF CleanInv, Belongs, Mates, User, Found
  <1>3. CASE Found = {}
    <2>1. users = {} /\ DOMAIN orders = {} /\ rows = {}
      BY <1>2, <1>3 DEF Belongs
    <2>2. QED
      BY <1>1, <1>2, <1>3, <2>1 DEF CleanInv, IdsOfRows, Swept
  <1>4. CASE Found # {}
    BY <1>1, <1>2, <1>4 DEF CleanInv, Swept
  <1>5. QED
    BY <1>3, <1>4

LEMMA CleanupCleans ==
    ASSUME LoadInv, CleanInv, Cleanup
    PROVE  CleanInv'
  <1>1. UNCHANGED <<tokens, threw, botched, strays>>
    BY DEF Cleanup
  <1>2. Mates' = Mates
    BY <1>1 DEF Mates, User
  <1>3. CASE Select(IF Found = {} THEN "over" ELSE "delete payments")
    BY <1>1, <1>3, SelectCleans
  <1>4. CASE phase = "delete payments" /\ DeletePayments /\ phase' = "delete orders"
    <2>1. Mates \subseteq sweep /\ Belongs /\ users \subseteq sweep \cup strays /\ ~botched
      BY <1>4 DEF CleanInv, Swept
    <2>2. rows' = {} /\ UNCHANGED <<users, orders, sweep>>
      BY <1>4, <2>1 DEF DeletePayments, Belongs
    <2>3. QED
      BY <1>1, <1>2, <1>4, <2>1, <2>2 DEF CleanInv, Belongs, IdsOfRows, Swept
  <1>5. CASE phase = "delete orders" /\ DeleteOrders /\ phase' = "delete users"
    <2>1. Mates \subseteq sweep /\ Belongs /\ users \subseteq sweep \cup strays /\ ~botched
      BY <1>5 DEF CleanInv, Swept
    <2>2. DOMAIN orders' = {} /\ UNCHANGED <<users, rows, sweep>>
      BY <1>5, <2>1 DEF DeleteOrders, Belongs
    <2>3. ~threw => IdsOfRows \subseteq strays
      BY <1>5, <2>1 DEF CleanInv
    <2>4. IdsOfRows' = IdsOfRows
      BY <2>2 DEF IdsOfRows
    <2>5. QED
      BY <1>1, <1>2, <1>5, <2>1, <2>2, <2>3, <2>4 DEF CleanInv, Belongs, Swept
  <1>6. CASE phase = "delete users" /\ DeleteUsers /\ phase' = "over"
    <2>1. Belongs /\ users \subseteq sweep \cup strays /\ ~botched
      BY <1>6 DEF CleanInv, Swept
    <2>2. users' \subseteq strays /\ UNCHANGED <<orders, rows, sweep>>
      BY <1>6, <2>1 DEF DeleteUsers
    <2>3. ~threw => IdsOfRows \subseteq strays /\ DOMAIN orders \subseteq strays
      BY <1>6, <2>1 DEF CleanInv
    <2>4. IdsOfRows' = IdsOfRows
      BY <2>2 DEF IdsOfRows
    <2>5. QED
      BY <1>1, <1>2, <1>6, <2>1, <2>2, <2>3, <2>4 DEF CleanInv, Belongs, Swept
  <1>7. QED
    BY <1>3, <1>4, <1>5, <1>6 DEF Cleanup

(* ... what is executed late, which is a stray if the cleanup has looked,  *)
LEMMA BelatedCleans ==
    ASSUME LoadInv, OrdersInv, CleanInv, NEW q \in lost, Belated(q)
    PROVE  CleanInv'
  <1>1. /\ Execute(q) /\ UNCHANGED <<phase, tokens, threw, sweep, botched>>
        /\ strays' = strays \cup IF phase \in Swept THEN {q.id} ELSE {}
    BY DEF Belated, ending
  <1>2. Mates' = Mates
    BY <1>1 DEF Mates, User
  <1>3. CASE Registration(q)
    <2>1. users' = users \cup {q.id} /\ UNCHANGED <<orders, rows>>
      BY <1>1, <1>3 DEF Execute, Registration
    <2>2. Belongs' /\ IdsOfRows' = IdsOfRows
      BY <1>2, <2>1 DEF CleanInv, Belongs, IdsOfRows
    <2>3. QED
      BY <1>1, <1>2, <2>1, <2>2 DEF CleanInv, Swept
  <1>4. ASSUME NEW j \in Job, RequestOfEnded(q, j), tokens = profile.users
        PROVE  CleanInv'
    <2>1. q = RequestOf(j) /\ q.id = j /\ j[1] \in JobOps
      BY <1>4, IdsOfRequests DEF RequestOfEnded
    <2>2. users' = users /\ orders' = Handle(RequestOf(j)).orders
          /\ rows' = Handle(RequestOf(j)).rows
      BY <1>1, <2>1, ExecuteIs DEF Apply
    <2>3. /\ Belongs' /\ DOMAIN orders' \subseteq DOMAIN orders \cup {j}
          /\ IdsOfRows' \subseteq IdsOfRows \cup {j}
      BY <1>1, <1>4, <2>1, <2>2, RequestAdds DEF CleanInv
    <2>4. strays' = strays \cup IF phase \in Swept THEN {j} ELSE {}
      BY <1>1, <2>1
    <2>5. QED
      BY <1>1, <1>2, <2>2, <2>3, <2>4 DEF CleanInv, Swept
  <1>5. QED
    BY <1>3, <1>4 DEF OrdersInv, LostKnown

(* ... and what jobs and burst order do before it has.                     *)
LEMMA JobCleans ==
    ASSUME LoadInv, OrdersInv, CleanInv, NEW j, JobStep(j), Ends(j)
    PROVE  CleanInv'
  <1>1. j \in InPool /\ phase' = phase /\ tokens' = tokens /\ (threw => threw')
    BY DEF Ends, InPool
  <1>2. j \in Job /\ j[1] \in JobOps /\ tokens = profile.users
    BY <1>1, JobFresh DEF LoadInv, PhaseInv
  <1>3. /\ users' = users /\ UNCHANGED <<sweep, botched, strays>>
        /\ \/ UNCHANGED <<orders, rows>>
           \/ orders' = Handle(RequestOf(j)).orders /\ rows' = Handle(RequestOf(j)).rows
    BY <1>2, JobDoes DEF LoadInv, RunTyped, ending
  <1>4. Mates' = Mates
    BY <1>1 DEF Mates, User
  <1>5. Belongs'
    <2>1. CASE UNCHANGED <<orders, rows>>
      BY <1>4, <2>1 DEF CleanInv, Belongs
    <2>2. QED
      BY <1>1, <1>2, <1>3, <2>1, RequestAdds DEF CleanInv
  <1>6. phase \in Swept => threw
    BY <1>1 DEF LoadInv, PhaseInv, CurrentJobs, Swept
  <1>7. QED
    BY <1>1, <1>3, <1>4, <1>5, <1>6 DEF CleanInv, Swept

LEMMA CleanKept ==
    ASSUME LoadInv, OrdersInv, CleanInv, [Next]_vars
    PROVE  CleanInv'
  <1>1. ASSUME phase # "over", phase' \notin Swept, Belongs', botched' = botched
        PROVE  CleanInv'
    BY <1>1 DEF CleanInv, Swept
  <1>2. ASSUME tokens' = tokens, UNCHANGED <<orders, rows>>
        PROVE  Belongs' /\ Mates' = Mates /\ IdsOfRows' = IdsOfRows
    BY <1>2 DEF CleanInv, Belongs, Mates, User, IdsOfRows
  <1>3. CASE LooksOn
    <2>1. UNCHANGED <<users, orders, rows, phase, tokens, threw, sweep, botched, strays>>
      BY <1>3 DEF LooksOn, db, ending
    <2>2. QED
      BY <1>2, <2>1 DEF CleanInv
  <1>4. CASE PhasesOver
    <2>1. /\ UNCHANGED <<orders, rows, tokens, botched>>
          /\ phase # "over" /\ phase' = "find"
      BY <1>4 DEF PhasesOver, db, ending, Working
    <2>2. QED
      BY <1>1, <1>2, <2>1 DEF Swept
  <1>5. CASE Register /\ Rests
    <2>1. /\ phase = "register" /\ phase' \in {"register", "find"} /\ botched' = botched
          /\ UNCHANGED <<orders, rows>> /\ tokens' \in {tokens, tokens + 1} /\ tokens \in Nat
      BY <1>5 DEF Register, Execute, Unheard, db, ending, LoadInv, RunTyped
    <2>2. Mates \subseteq Mates'
      BY <2>1 DEF Mates, User
    <2>3. Belongs'
      BY <2>1, <2>2 DEF CleanInv, Belongs
    <2>4. QED
      BY <1>1, <2>1, <2>3 DEF Swept
  <1>6. CASE Cleanup
    BY <1>6, CleanupCleans
  <1>7. CASE CleanupFails
    <2>1. /\ phase' = "over" /\ botched' /\ UNCHANGED <<users, orders, rows, tokens>>
      BY <1>7 DEF CleanupFails, db
    <2>2. QED
      BY <1>2, <2>1 DEF CleanInv, Swept
  <1>8. ASSUME NEW q \in lost, Belated(q)
        PROVE  CleanInv'
    BY <1>8, BelatedCleans
  <1>9. CASE CreateOrders \/ PayPartially \/ PayRemaining
    <2>1. /\ phase # "over" /\ phase' \notin Swept
          /\ UNCHANGED <<orders, rows, tokens, botched>>
      BY <1>9 DEF CreateOrders, PayPartially, PayRemaining, StartPhase, db, ending, Swept
    <2>2. QED
      BY <1>1, <1>2, <2>1
  <1>10. CASE CreateBurstOrder
    <2>1. /\ phase = "remaining" /\ phase' \notin Swept
          /\ UNCHANGED <<tokens, sweep, botched, strays>>
      BY <1>10, BurstMoves DEF Starts, BurstSkipped, Swept, ending
    <2>2. \/ UNCHANGED <<orders, rows>>
          \/ /\ orders' = Handle(RequestOf(BurstOrder)).orders
             /\ rows' = Handle(RequestOf(BurstOrder)).rows
      BY <1>10, BurstMoves DEF BurstSkipped, Apply, db
    <2>3. tokens = profile.users /\ BurstOrder \in Job /\ BurstOrder[1] \in JobOps
      BY <2>1 DEF LoadInv, PhaseInv, Working, BurstOrder, Job, Ops, JobOps
    <2>4. Belongs'
      BY <1>2, <2>1, <2>2, <2>3, RequestAdds DEF CleanInv
    <2>5. QED
      BY <1>1, <2>1, <2>4
  <1>11. ASSUME NEW j, JobStep(j), Ends(j)
         PROVE  CleanInv'
    BY <1>11, JobCleans
  <1>12. QED
    BY <1>3, <1>4, <1>5, <1>6, <1>7, <1>8, <1>9, <1>10, <1>11, StepsOfRuns

(* CleansUp for every profile: whatever fails, a cleanup that comes to its *)
(* end leaves no user, and, if no job has outlived the run, no order and   *)
(* no payment: only what was executed after it had looked.                 *)
THEOREM RunsCleanUp == Spec => []CleansUp
  <1>1. ASSUME Init PROVE CleanInv
    <2>1. DOMAIN orders = {} /\ rows = {} /\ phase = "register" /\ ~botched
      BY <1>1 DEF Init
    <2>2. QED
      BY <2>1 DEF CleanInv, Belongs, Swept
  <1>2. Spec => []CleanInv
    BY <1>1, LoadSafe, OrdersSafe, CleanKept, PTL DEF Spec
  <1>3. CleanInv => CleansUp
    BY DEF CleanInv, CleansUp, IdsOfRows
  <1>4. QED
    BY <1>2, <1>3, PTL
=============================================================================
