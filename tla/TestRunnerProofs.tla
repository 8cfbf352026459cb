-------------------------- MODULE TestRunnerProofs --------------------------
(***************************************************************************)
(* Theorems of TestRunner for any suites, load runs, scenarios, progress   *)
(* callbacks and faults: load runs are kept apart by their lock, nobody    *)
(* else releases it, and what a tab says at the end of its run is so.      *)
(***************************************************************************)
EXTENDS TestRunner, SequenceTheorems, TLAPS

-----------------------------------------------------------------------------
(* The commands under way: at most one of each run's own.                  *)
Senders ==
    {Main(r) : r \in Runs} \cup {Stream(r) : r \in Runs}
        \cup {Callback(q[1], q[2]) : q \in Runs \X Nat}

In(q, p) == \E i \in 1 .. Len(q) : q[i] = p
Once(q, p) == \A i, j \in 1 .. Len(q) : q[i] = p /\ q[j] = p => i = j
Ahead(q, p, x) == \E i, j \in 1 .. Len(q) : i < j /\ q[i] = p /\ q[j] = x

Before(r, s) == Ahead(pipe, Main(r), Main(s))

(* Where an executor waits for no command. *)
Aside == Idle \cup {"working", "cleanup"}

Early == {"idle", "gate", "gate2", "acquire"}
Begun == {"create", "begin", "running", "startedR", "startedW"}
Ending == {"finalR", "finalW", "endR", "endW", "catchR", "catchW", "errorR", "errorW"}

Places(r) ==
    Idle \cup {"working"} \cup Begun \cup Ending
        \cup IF r \in Loads THEN {"gate", "gate2", "acquire", "releaseR", "releaseD"}
             ELSE {"sadd", "expire", "eventR", "eventW", "pushR", "pushW", "cleanup", "srem"}

AllPlaces ==
    Aside \cup Begun \cup Ending \cup
        {"gate", "gate2", "acquire", "releaseR", "releaseD",
         "sadd", "expire", "eventR", "eventW", "pushR", "pushW", "srem"}

PlacesTyped == pc \in [Runs -> AllPlaces] /\ \A r \in Runs : pc[r] \in Places(r)

PipeInv ==
    /\ pipe \in Seq(Senders)
    /\ \A r \in Runs : Once(pipe, Main(r)) /\ (In(pipe, Main(r)) <=> pc[r] \notin Aside)

(* Where a load run has the lock, unless it has expired.  Held is where    *)
(* those that have passed the gate before it have been refused by SET NX.  *)
Held == {"working", "releaseR", "running", "startedR", "startedW"} \cup Ending
Locked == {"create", "begin", "releaseD"} \cup Held

(* The commands of a load run l that has the lock, and of another, m, that *)
(* has seen it free: m sends SCARD and SET NX one turn after the other, so *)
(* it is refused before l has gone far, and none comes between the GET and *)
(* the DEL of l.                                                           *)
Apart(l, m) ==
    /\ lock = l =>
          /\ pc[l] = "create" /\ pc[m] = "gate2" => Before(m, l)
          /\ pc[l] = "begin" => pc[m] # "gate2" /\ (pc[m] = "acquire" => Before(m, l))
          /\ pc[l] \in Held \cup {"releaseD"} => pc[m] \notin {"gate2", "acquire"}
    /\ pc[l] = "releaseD" => pc[m] # "acquire" /\ (pc[m] = "gate2" => Before(l, m))

LockInv ==
    /\ lock \in Loads \cup {None}
    /\ \A l \in Loads : /\ pc[l] \in Locked /\ l \notin overrun => lock = l
                        /\ pc[l] = "releaseD" => lock \in {l, None}
    /\ \A l, m \in Loads : l # m => Apart(l, m)

-----------------------------------------------------------------------------
(* Queues. *)
LEMMA TailIn ==
    ASSUME NEW S, NEW q \in Seq(S), q # <<>>, NEW p
    PROVE  /\ Tail(q) \in Seq(S) /\ (In(Tail(q), p) => In(q, p))
           /\ In(q, p) /\ Head(q) # p => In(Tail(q), p)
           /\ Once(q, p) => Once(Tail(q), p)
           /\ Once(q, p) /\ Head(q) = p => ~In(Tail(q), p)
  <1>1. /\ Tail(q) \in Seq(S) /\ Len(q) \in Nat /\ Len(q) >= 1 /\ Len(Tail(q)) = Len(q) - 1
        /\ \A i \in 1 .. Len(q) - 1 : Tail(q)[i] = q[i + 1]
        /\ Head(q) = q[1]
    OBVIOUS
  <1>2. In(Tail(q), p) => In(q, p)
    <2> SUFFICES ASSUME NEW i \in 1 .. Len(Tail(q)), Tail(q)[i] = p PROVE In(q, p)
      BY DEF In
    <2>1. i + 1 \in 1 .. Len(q) /\ q[i + 1] = p
      BY <1>1
    <2>2. QED
      BY <2>1 DEF In
  <1>3. ASSUME Once(q, p) PROVE Once(Tail(q), p)
    <2> SUFFICES ASSUME NEW i \in 1 .. Len(Tail(q)), NEW j \in 1 .. Len(Tail(q)),
                        Tail(q)[i] = p, Tail(q)[j] = p
                 PROVE  i = j
      BY DEF Once
    <2>1. /\ i + 1 \in 1 .. Len(q) /\ q[i + 1] = p
          /\ j + 1 \in 1 .. Len(q) /\ q[j + 1] = p
      BY <1>1
    <2>2. i + 1 = j + 1
      BY <1>3, <2>1 DEF Once
    <2>3. QED
      BY <1>1, <2>2
  <1>4. ASSUME Once(q, p), Head(q) = p, In(Tail(q), p) PROVE FALSE
    <2>1. PICK i \in 1 .. Len(Tail(q)) : Tail(q)[i] = p
      BY <1>4 DEF In
    <2>2. i + 1 \in 1 .. Len(q) /\ q[i + 1] = p /\ 1 \in 1 .. Len(q) /\ q[1] = p
      BY <1>1, <1>4, <2>1
    <2>3. i + 1 = 1
      BY <1>4, <2>2 DEF Once
    <2>4. QED
      BY <1>1, <2>3
  <1>5. ASSUME In(q, p), Head(q) # p PROVE In(Tail(q), p)
    <2>1. PICK i \in 1 .. Len(q) : q[i] = p
      BY <1>5 DEF In
    <2>2. i - 1 \in 1 .. Len(Tail(q)) /\ Tail(q)[i - 1] = q[i]
      BY <1>1, <1>5, <2>1
    <2>3. QED
      BY <2>1, <2>2 DEF In
  <1>6. QED
    BY <1>1, <1>2, <1>3, <1>4, <1>5

LEMMA TailAhead ==
    ASSUME NEW S, NEW q \in Seq(S), q # <<>>, NEW p, NEW x
    PROVE  /\ Ahead(q, p, x) /\ Head(q) # p => Ahead(Tail(q), p, x)
           /\ Once(q, x) /\ Head(q) = x => ~Ahead(q, p, x)
  <1>1. /\ Len(q) \in Nat /\ Len(q) >= 1 /\ Len(Tail(q)) = Len(q) - 1
        /\ \A i \in 1 .. Len(q) - 1 : Tail(q)[i] = q[i + 1]
        /\ Head(q) = q[1]
    OBVIOUS
  <1>2. ASSUME Ahead(q, p, x), Head(q) # p PROVE Ahead(Tail(q), p, x)
    <2>1. PICK i \in 1 .. Len(q), j \in 1 .. Len(q) : i < j /\ q[i] = p /\ q[j] = x
      BY <1>2 DEF Ahead
    <2>2. /\ i - 1 \in 1 .. Len(Tail(q)) /\ Tail(q)[i - 1] = q[i]
          /\ j - 1 \in 1 .. Len(Tail(q)) /\ Tail(q)[j - 1] = q[j]
          /\ i - 1 < j - 1
      BY <1>1, <1>2, <2>1
    <2>3. QED
      BY <2>1, <2>2 DEF Ahead
  <1>3. ASSUME Once(q, x), Head(q) = x, Ahead(q, p, x) PROVE FALSE
    <2>1. PICK i \in 1 .. Len(q), j \in 1 .. Len(q) : i < j /\ q[j] = x
      BY <1>3 DEF Ahead
    <2>2. j = 1
      BY <1>1, <1>3, <2>1 DEF Once
    <2>3. QED
      BY <1>1, <2>1, <2>2
  <1>4. QED
    BY <1>2, <1>3

LEMMA AppendIn ==
    ASSUME NEW S, NEW q \in Seq(S), NEW x \in S, NEW p
    PROVE  /\ Append(q, x) \in Seq(S) /\ (In(Append(q, x), p) <=> In(q, p) \/ x = p)
           /\ Once(q, p) /\ (x = p => ~In(q, p)) => Once(Append(q, x), p)
  <1>1. /\ Append(q, x) \in Seq(S) /\ Len(q) \in Nat /\ Len(Append(q, x)) = Len(q) + 1
        /\ \A i \in 1 .. Len(q) : Append(q, x)[i] = q[i]
        /\ Append(q, x)[Len(q) + 1] = x
    OBVIOUS
  <1>2. \A i \in 1 .. Len(q) + 1 : i \in 1 .. Len(q) \/ i = Len(q) + 1
    BY <1>1
  <1>3. In(Append(q, x), p) <=> In(q, p) \/ x = p
    <2>1. In(Append(q, x), p) => In(q, p) \/ x = p
      BY <1>1, <1>2 DEF In
    <2>2. /\ \A i \in 1 .. Len(q) : i \in 1 .. Len(Append(q, x))
          /\ Len(q) + 1 \in 1 .. Len(Append(q, x))
      BY <1>1
    <2>3. In(q, p) \/ x = p => In(Append(q, x), p)
      BY <1>1, <2>2 DEF In
    <2>4. QED
      BY <2>1, <2>3
  <1>4. ASSUME Once(q, p), x = p => ~In(q, p) PROVE Once(Append(q, x), p)
    BY <1>1, <1>2, <1>4 DEF In, Once
  <1>5. QED
    BY <1>1, <1>3, <1>4

LEMMA AppendAhead ==
    ASSUME NEW S, NEW q \in Seq(S), NEW x \in S, NEW p
    PROVE  /\ \A y : Ahead(q, p, y) => Ahead(Append(q, x), p, y)
           /\ In(q, p) => Ahead(Append(q, x), p, x)
  <1>1. /\ Len(q) \in Nat /\ Len(Append(q, x)) = Len(q) + 1
        /\ \A i \in 1 .. Len(q) : Append(q, x)[i] = q[i] /\ i \in 1 .. Len(Append(q, x))
                                  /\ i < Len(q) + 1
        /\ Append(q, x)[Len(q) + 1] = x /\ Len(q) + 1 \in 1 .. Len(Append(q, x))
    OBVIOUS
  <1>2. ASSUME NEW y, Ahead(q, p, y) PROVE Ahead(Append(q, x), p, y)
    BY <1>1, <1>2 DEF Ahead
  <1>3. ASSUME In(q, p) PROVE Ahead(Append(q, x), p, x)
    BY <1>1, <1>3 DEF Ahead, In
  <1>4. QED
    BY <1>2, <1>3

(* The names of senders are apart. *)
LEMMA SendersApart ==
    /\ \A r, s \in Runs : Main(r) = Main(s) => r = s
    /\ \A r, s \in Runs : Main(r) # Stream(s)
    /\ \A r, s \in Runs, n \in Nat : Main(r) # Callback(s, n)
    /\ \A r \in Runs : Main(r) \in Senders /\ Stream(r) \in Senders
    /\ \A r \in Runs, n \in Nat : Callback(r, n) \in Senders
  <1>1. \A r, s \in Runs, n \in Nat : Main(r) # Callback(s, n)
    <2> SUFFICES ASSUME NEW r \in Runs, NEW s \in Runs, NEW n \in Nat,
                        Main(r) = Callback(s, n)
                 PROVE  FALSE
      OBVIOUS
    <2>1. Main(r)[1] = "main" /\ Callback(s, n)[1] = "callback"
      BY DEF Main, Callback
    <2>2. QED
      BY <2>1
  <1>2. \A r \in Runs, n \in Nat : Callback(r, n) \in Senders
    <2> SUFFICES ASSUME NEW r \in Runs, NEW n \in Nat PROVE Callback(r, n) \in Senders
      OBVIOUS
    <2>1. <<r, n>> \in Runs \X Nat /\ <<r, n>>[1] = r /\ <<r, n>>[2] = n
      OBVIOUS
    <2>2. QED
      BY <2>1 DEF Senders
  <1>3. \A r \in Runs : Main(r) \in Senders /\ Stream(r) \in Senders
    BY DEF Senders
  <1>4. /\ \A r, s \in Runs : Main(r) = Main(s) => r = s
        /\ \A r, s \in Runs : Main(r) # Stream(s)
    BY DEF Main, Stream
  <1>5. QED
    BY <1>1, <1>2, <1>3, <1>4

-----------------------------------------------------------------------------
(* An executor whose command has its turn goes on to another place. *)
Walks(r, place) ==
    /\ Turn(Main(r))
    /\ pc' = [pc EXCEPT ![r] = place]
    /\ \/ place \notin Aside /\ pipe' = Append(Tail(pipe), Main(r))
       \/ place \in Aside /\ pipe' = Tail(pipe)

(* One that waits for no command sends its next. *)
Sets(r, place) ==
    /\ pc[r] \in Aside /\ place \notin Aside
    /\ pc' = [pc EXCEPT ![r] = place]
    /\ \/ pipe' = Append(pipe, Main(r))
       \/ \E n \in Nat : pipe' = Append(Append(pipe, Callback(r, n)), Main(r))

(* Streams, callbacks and tabs go on. *)
Enters(x) ==
    /\ \A r \in Runs : x # Main(r)
    /\ \/ pipe' = Append(pipe, x)
       \/ pipe # <<>> /\ (\A r \in Runs : Head(pipe) # Main(r)) /\ pipe' = Append(Tail(pipe), x)

Elsewhere ==
    /\ pc' = pc
    /\ \/ pipe' = pipe
       \/ pipe # <<>> /\ (\A r \in Runs : Head(pipe) # Main(r)) /\ pipe' = Tail(pipe)
       \/ \E x \in Senders : Enters(x)

(* What a step of r does to the order of the commands: the one whose turn  *)
(* it is had nobody ahead, the others stay in order, and its next command  *)
(* is the last.                                                            *)
Queues(r, place) ==
    /\ pc[r] \notin Aside => \A s \in Runs : ~Before(s, r)
    /\ \A s, t \in Runs \ {r} : Before(s, t) => Before(s, t)'
    /\ place \notin Aside => \A s \in Runs \ {r} : pc[s] \notin Aside => Before(s, r)'

(* A queue that has given up its head or taken another sender. *)
Clean(q) == q \in Seq(Senders) /\ \A r \in Runs : Once(q, Main(r))

(* q without its head x *)
Shorter(q, x, short) == q # <<>> /\ Head(q) = x /\ short = Tail(q)

LEMMA Shortened ==
    ASSUME NEW q, Clean(q), NEW x, NEW short, Shorter(q, x, short)
    PROVE  /\ Clean(short)
           /\ \A r \in Runs : In(short, Main(r)) <=> In(q, Main(r)) /\ x # Main(r)
           /\ \A r, s \in Runs :
                 /\ Ahead(q, Main(r), Main(s)) /\ x # Main(r) => Ahead(short, Main(r), Main(s))
                 /\ x = Main(s) => ~Ahead(q, Main(r), Main(s))
  <1>1. /\ Clean(Tail(q))
        /\ \A r \in Runs : In(Tail(q), Main(r)) <=> In(q, Main(r)) /\ x # Main(r)
    BY TailIn DEF Clean, Shorter
  <1>2. \A r, s \in Runs :
           /\ Ahead(q, Main(r), Main(s)) /\ x # Main(r) => Ahead(Tail(q), Main(r), Main(s))
           /\ x = Main(s) => ~Ahead(q, Main(r), Main(s))
    BY TailAhead DEF Clean, Shorter
  <1>3. short = Tail(q)
    BY DEF Shorter
  <1>4. QED
    BY <1>1, <1>2, <1>3, Zenon

LEMMA Lengthened ==
    ASSUME NEW q, Clean(q), NEW x \in Senders, \A r \in Runs : x = Main(r) => ~In(q, Main(r))
    PROVE  /\ Clean(Append(q, x))
           /\ \A r \in Runs : In(Append(q, x), Main(r)) <=> In(q, Main(r)) \/ x = Main(r)
           /\ \A r, s \in Runs :
                 /\ Ahead(q, Main(r), Main(s)) => Ahead(Append(q, x), Main(r), Main(s))
                 /\ In(q, Main(r)) /\ x = Main(s) => Ahead(Append(q, x), Main(r), Main(s))
  <1>1. q \in Seq(Senders)
    BY DEF Clean
  <1>2. Append(q, x) \in Seq(Senders)
    BY <1>1
  <1>3. ASSUME NEW r \in Runs
        PROVE  /\ Once(Append(q, x), Main(r))
               /\ In(Append(q, x), Main(r)) <=> In(q, Main(r)) \/ x = Main(r)
    <2> DEFINE p == Main(r)
    <2>1. Once(q, p) /\ (x = p => ~In(q, p))
      BY DEF Clean
    <2> HIDE DEF p
    <2>2. QED
      BY <1>1, <2>1, AppendIn DEF p
  <1>4. ASSUME NEW r \in Runs, NEW s \in Runs
        PROVE  /\ Ahead(q, Main(r), Main(s)) => Ahead(Append(q, x), Main(r), Main(s))
               /\ In(q, Main(r)) /\ x = Main(s) => Ahead(Append(q, x), Main(r), Main(s))
    BY <1>1, AppendAhead
  <1>5. QED
    BY <1>2, <1>3, <1>4 DEF Clean

(* How a new queue keeps PipeInv. *)
LEMMA QueueKept ==
    ASSUME NEW q, Clean(q), pipe' = q,
           \A r \in Runs : In(q, Main(r)) <=> pc'[r] \notin Aside
    PROVE  PipeInv' /\ \A r, s \in Runs : Ahead(q, Main(r), Main(s)) => Before(r, s)'
  BY DEF PipeInv, Clean, In, Once, Before

LEMMA PipeClean ==
    ASSUME PipeInv
    PROVE  Clean(pipe)
  BY DEF PipeInv, Clean

(* The three ways to go on keep executors and queue in step. *)
LEMMA WalksKeep ==
    ASSUME PlacesTyped, PipeInv, NEW r \in Runs, NEW place \in Places(r), Walks(r, place)
    PROVE  PlacesTyped' /\ PipeInv' /\ Queues(r, place)
  <1>1. place \in AllPlaces
    BY DEF Places, AllPlaces, Aside
  <1>2. PlacesTyped' /\ pc'[r] = place /\ \A s \in Runs \ {r} : pc'[s] = pc[s]
    BY <1>1 DEF PlacesTyped, Walks, Places
  <1>3. PICK q : q = Tail(pipe)
    OBVIOUS
  <1>4. Shorter(pipe, Main(r), q)
    BY <1>3 DEF Shorter, Walks, Turn
  <1>5. \A s \in Runs : Main(r) = Main(s) => r = s
    BY SendersApart
  <1>6. /\ Clean(q) /\ \A s \in Runs : In(q, Main(s)) <=> In(pipe, Main(s)) /\ s # r
        /\ \A s \in Runs : ~Before(s, r)
        /\ \A s, t \in Runs \ {r} : Before(s, t) => Ahead(q, Main(s), Main(t))
    BY <1>4, <1>5, PipeClean, Shortened DEF Before
  <1>7. \A s \in Runs : In(q, Main(s)) <=> s # r /\ pc'[s] \notin Aside
    BY <1>2, <1>6 DEF PipeInv
  <1>8. ASSUME place \in Aside, pipe' = q
        PROVE  PipeInv' /\ Queues(r, place)
    <2>1. PipeInv' /\ \A s, t \in Runs : Ahead(q, Main(s), Main(t)) => Before(s, t)'
      BY <1>2, <1>6, <1>7, <1>8, QueueKept
    <2>2. QED
      BY <1>6, <1>8, <2>1 DEF Queues
  <1>9. ASSUME place \notin Aside, pipe' = Append(q, Main(r))
        PROVE  PipeInv' /\ Queues(r, place)
    <2>1. PICK long : long = Append(q, Main(r))
      OBVIOUS
    <2>2. /\ Clean(long)
          /\ \A s \in Runs : In(long, Main(s)) <=> In(q, Main(s)) \/ Main(r) = Main(s)
          /\ \A s, t \in Runs :
                /\ Ahead(q, Main(s), Main(t)) => Ahead(long, Main(s), Main(t))
                /\ In(q, Main(s)) /\ Main(r) = Main(t) => Ahead(long, Main(s), Main(t))
      BY <1>5, <1>6, <2>1, SendersApart, Lengthened
    <2>3. \A s \in Runs : In(long, Main(s)) <=> pc'[s] \notin Aside
      BY <1>2, <1>5, <1>7, <1>9, <2>2
    <2>4. PipeInv' /\ \A s, t \in Runs : Ahead(long, Main(s), Main(t)) => Before(s, t)'
      BY <1>9, <2>1, <2>2, <2>3, QueueKept
    <2>5. \A s, t \in Runs \ {r} : Before(s, t) => Before(s, t)'
      BY <1>6, <2>2, <2>4
    <2>6. \A s \in Runs \ {r} : pc[s] \notin Aside => Before(s, r)'
      BY <1>2, <1>7, <2>2, <2>4
    <2>7. QED
      BY <1>6, <2>4, <2>5, <2>6 DEF Queues
  <1>10. QED
    BY <1>2, <1>3, <1>8, <1>9 DEF Walks

LEMMA SetsKeep ==
    ASSUME PlacesTyped, PipeInv, NEW r \in Runs, NEW place \in Places(r), Sets(r, place)
    PROVE  PlacesTyped' /\ PipeInv' /\ Queues(r, place)
  <1>1. place \in AllPlaces
    BY DEF Places, AllPlaces, Aside
  <1>2. PlacesTyped' /\ pc'[r] = place /\ \A s \in Runs \ {r} : pc'[s] = pc[s]
    BY <1>1 DEF PlacesTyped, Sets, Places
  <1>3. ASSUME NEW q, Clean(q), pipe' = Append(q, Main(r)),
               \A s \in Runs : In(q, Main(s)) <=> In(pipe, Main(s)),
               \A s, t \in Runs : Before(s, t) => Ahead(q, Main(s), Main(t))
        PROVE  PipeInv' /\ Queues(r, place)
    <2>1. ~In(q, Main(r)) /\ \A s \in Runs : Main(r) = Main(s) => r = s
      BY <1>3, SendersApart DEF PipeInv, Sets
    <2>2. PICK long : long = Append(q, Main(r))
      OBVIOUS
    <2>3. /\ Clean(long)
          /\ \A s \in Runs : In(long, Main(s)) <=> In(q, Main(s)) \/ Main(r) = Main(s)
          /\ \A s, t \in Runs :
                /\ Ahead(q, Main(s), Main(t)) => Ahead(long, Main(s), Main(t))
                /\ In(q, Main(s)) /\ Main(r) = Main(t) => Ahead(long, Main(s), Main(t))
      BY <1>3, <2>1, <2>2, SendersApart, Lengthened
    <2>4. \A s \in Runs : In(long, Main(s)) <=> pc'[s] \notin Aside
      BY <1>2, <1>3, <2>1, <2>3 DEF PipeInv, Sets
    <2>5. PipeInv' /\ \A s, t \in Runs : Ahead(long, Main(s), Main(t)) => Before(s, t)'
      BY <1>3, <2>2, <2>3, <2>4, QueueKept
    <2>6. \A s, t \in Runs : Before(s, t) => Before(s, t)'
      BY <1>3, <2>3, <2>5
    <2>7. \A s \in Runs \ {r} : pc[s] \notin Aside => Before(s, r)'
      BY <1>3, <2>3, <2>5 DEF PipeInv
    <2>8. QED
      BY <2>5, <2>6, <2>7 DEF Queues, Sets
  <1>4. ASSUME pipe' = Append(pipe, Main(r))
        PROVE  PipeInv' /\ Queues(r, place)
    BY <1>3, <1>4, PipeClean DEF Before
  <1>5. ASSUME NEW n \in Nat, pipe' = Append(Append(pipe, Callback(r, n)), Main(r))
        PROVE  PipeInv' /\ Queues(r, place)
    <2>1. Callback(r, n) \in Senders /\ \A s \in Runs : Callback(r, n) # Main(s)
      BY SendersApart
    <2>2. PICK long : long = Append(pipe, Callback(r, n))
      OBVIOUS
    <2>3. /\ Clean(long) /\ \A s \in Runs : In(long, Main(s)) <=> In(pipe, Main(s))
          /\ \A s, t \in Runs : Before(s, t) => Ahead(long, Main(s), Main(t))
      BY <2>1, <2>2, PipeClean, Lengthened DEF Before
    <2>4. QED
      BY <1>3, <1>5, <2>2, <2>3
  <1>6. QED
    BY <1>2, <1>4, <1>5 DEF Sets

LEMMA ElsewhereKeeps ==
    ASSUME PlacesTyped, PipeInv, Elsewhere
    PROVE  PlacesTyped' /\ PipeInv' /\ \A s, t \in Runs : Before(s, t) => Before(s, t)'
  <1> DEFINE Ordered == \A s, t \in Runs : Before(s, t) => Before(s, t)'
             Keeps(q) == /\ Clean(q) /\ \A r \in Runs : In(q, Main(r)) <=> In(pipe, Main(r))
                         /\ \A s, t \in Runs : Before(s, t) => Ahead(q, Main(s), Main(t))
  <1>1. PlacesTyped' /\ pc' = pc /\ Clean(pipe)
    BY PipeClean DEF PlacesTyped, Elsewhere, Places
  <1>2. ASSUME NEW q, Keeps(q), pipe' = q
        PROVE  PipeInv' /\ Ordered
    <2>1. \A r \in Runs : In(q, Main(r)) <=> pc'[r] \notin Aside
      BY <1>1, <1>2 DEF PipeInv
    <2>2. PipeInv' /\ \A s, t \in Runs : Ahead(q, Main(s), Main(t)) => Before(s, t)'
      BY <1>2, <2>1, QueueKept
    <2>3. QED
      BY <1>2, <2>2
  <1>3. Keeps(pipe)
    BY <1>1 DEF Before
  <1>4. PICK q : q = Tail(pipe)
    OBVIOUS
  <1>5. ASSUME pipe # <<>>, \A r \in Runs : Head(pipe) # Main(r)
        PROVE  Keeps(q)
    <2>1. PICK x : x = Head(pipe) /\ Shorter(pipe, x, q)
      BY <1>4, <1>5 DEF Shorter
    <2>2. \A r \in Runs : x # Main(r)
      BY <1>5, <2>1
    <2>3. QED
      BY <1>1, <2>1, <2>2, Shortened DEF Before
  <1>6. ASSUME NEW x \in Senders, \A r \in Runs : x # Main(r), NEW short, Keeps(short),
               pipe' = Append(short, x)
        PROVE  PipeInv' /\ Ordered
    <2>1. PICK long : long = Append(short, x)
      OBVIOUS
    <2>2. /\ Clean(long) /\ \A r \in Runs : In(long, Main(r)) <=> In(short, Main(r))
          /\ \A s, t \in Runs : Ahead(short, Main(s), Main(t)) => Ahead(long, Main(s), Main(t))
      BY <1>6, <2>1, Lengthened
    <2>3. Keeps(long)
      BY <1>6, <2>2
    <2>4. QED
      BY <1>2, <1>6, <2>1, <2>3
  <1> HIDE DEF Keeps, Ordered
  <1>7. ASSUME NEW x \in Senders, Enters(x)
        PROVE  PipeInv' /\ Ordered
    <2>1. CASE pipe' = Append(pipe, x)
      BY <1>3, <1>6, <1>7, <2>1 DEF Enters
    <2>2. CASE /\ pipe # <<>> /\ \A r \in Runs : Head(pipe) # Main(r)
               /\ pipe' = Append(Tail(pipe), x)
      <3>1. pipe' = Append(q, x)
        BY <1>4, <2>2
      <3>2. QED
        BY <1>5, <1>6, <1>7, <2>2, <3>1 DEF Enters
    <2>3. QED
      BY <1>7, <2>1, <2>2 DEF Enters
  <1>8. PipeInv' /\ Ordered
    BY <1>2, <1>3, <1>4, <1>5, <1>7 DEF Elsewhere
  <1>9. QED
    BY <1>1, <1>8 DEF Ordered

-----------------------------------------------------------------------------
(* The steps of an executor whose command has its turn, and of one that    *)
(* waits for none.                                                         *)
MainStep(r) ==
    \/ Create(r) \/ Begin(r) \/ Catch(r) \/ CommandFails(r) \/ StepEventFails(r)
    \/ r \in Loads /\ (Gate(r) \/ Acquire(r) \/ FinishLoad(r) \/ Release(r))
    \/ /\ r \in Suites
       /\ \/ MarkSuiteActive(r) \/ AppendScenarioEvent(r) \/ PushScenario(r)
          \/ FinishSuite(r) \/ MarkSuiteInactive(r)

SelfStep(r) == Click(r) \/ Work(r) \/ WorkFails(r) \/ (r \in Suites /\ CleanUp(r)) \/ ExecutorEnds(r)

(* What a step of r does to the lock, and where it takes a load run. *)
LockMoves(r, place) ==
    /\ overrun' = overrun
    /\ \/ lock' = lock /\ r \in Suites
       \/ lock' = lock /\ place \notin Locked \cup {"gate2", "acquire"}
       \/ lock' = lock /\ lock = None /\ pc[r] = "gate" /\ place = "gate2"
       \/ lock' = lock /\ pc[r] = "gate2" /\ place = "acquire"
       \/ lock = None /\ lock' = r /\ r \in Loads /\ pc[r] = "acquire" /\ place = "create"
       \/ lock' = lock /\ pc[r] = "create" /\ place = "begin"
       \/ lock' = lock /\ pc[r] \in Held \cup {"begin"} /\ place \in Held
       \/ lock' = lock /\ lock = r /\ pc[r] = "releaseR" /\ place = "releaseD"
       \/ pc[r] = "releaseD" /\ lock' = None /\ place = "ended"

TurnMoves(r, place) == Walks(r, place) /\ LockMoves(r, place)

LEMMA TurnTaken ==
    ASSUME PlacesTyped, PipeInv, NEW r \in Runs, Turn(Main(r))
    PROVE  pc[r] \notin Aside
  <1>1. In(pipe, Main(r))
    <2>1. pipe \in Seq(Senders) /\ pipe # <<>>
      BY DEF PipeInv, Turn
    <2>2. 1 \in 1 .. Len(pipe) /\ pipe[1] = Main(r)
      BY <2>1 DEF Turn
    <2>3. QED
      BY <2>2 DEF In
  <1>2. QED
    BY <1>1 DEF PipeInv

LEMMA ReadMoves ==
    ASSUME NEW r \in Runs, NEW place, NEW next, next \notin Aside, Read(r, place, next),
           place \in Held \cup {"begin"}, next \in Held
    PROVE  TurnMoves(r, next)
  BY DEF Read, TurnMoves, Walks, LockMoves, At, Then, Goto, SendNext, store

LEMMA WriteMoves ==
    ASSUME NEW r \in Runs, NEW place, NEW next, NEW rec, next \notin Aside,
           Write(r, place, next, rec), place \in Held \cup {"begin"}, next \in Held
    PROVE  TurnMoves(r, next)
  BY DEF Write, TurnMoves, Walks, LockMoves, At, Then, Goto, SendNext

LEMMA StepIsOfSuite ==
    ASSUME PlacesTyped, NEW r \in Runs, InStep(r)
    PROVE  r \in Suites /\ "eventR" \in Places(r)
  <1>1. r \notin Loads
    BY DEF InStep, PlacesTyped, Places, Idle, Begun, Ending
  <1>2. QED
    BY <1>1 DEF Places, Runs

LEMMA MainMoves ==
    ASSUME PlacesTyped, PipeInv, NEW r \in Runs, MainStep(r)
    PROVE  \E place \in Places(r) : TurnMoves(r, place)
  <1> USE DEF TurnMoves, Walks, At, Then, Goto, SendNext, Stop
  <1>1. ASSUME Create(r) PROVE \E place \in {"begin", "sadd"} : TurnMoves(r, place) /\ place \in Places(r)
    BY <1>1, RunnerAssumption DEF Create, LockMoves, Places, Aside, Idle, Begun, Locked, Held, Ending
  <1>2. ASSUME Begin(r) PROVE \E place \in Places(r) : TurnMoves(r, place)
    <2>1. {"running", "startedR", "startedW", "working"} \subseteq Places(r)
      BY DEF Places, Begun
    <2>2. ASSUME Read(r, "begin", "running") \/ Read(r, "startedR", "startedW")
          PROVE  TurnMoves(r, "running") \/ TurnMoves(r, "startedW")
      BY <2>2, ReadMoves DEF Aside, Idle, Locked, Held, Ending
    <2>3. ASSUME Write(r, "running", "startedR", [mem[r] EXCEPT !.status = "running"])
          PROVE  TurnMoves(r, "startedR")
      BY <2>3, WriteMoves DEF Aside, Idle, Locked, Held, Ending
    <2>4. ASSUME Publish(r, "startedW", Event("run.started")), Goto(r, "working"), Stop
          PROVE  TurnMoves(r, "working")
      BY <2>4 DEF Publish, LockMoves, Aside, Locked, Held, Ending
    <2>5. QED
      BY <1>2, <2>1, <2>2, <2>3, <2>4 DEF Begin
  <1>3. ASSUME Catch(r) PROVE \E place \in Places(r) : TurnMoves(r, place)
    <2>1. /\ {"catchW", "errorR", "errorW"} \subseteq Places(r)
          /\ r \in Suites => "cleanup" \in Places(r)
          /\ r \in Loads => "releaseR" \in Places(r)
      BY RunnerAssumption DEF Places, Ending
    <2>2. ASSUME Read(r, "catchR", "catchW") \/ Read(r, "errorR", "errorW")
          PROVE  TurnMoves(r, "catchW") \/ TurnMoves(r, "errorW")
      BY <2>2, ReadMoves DEF Aside, Idle, Locked, Held, Ending
    <2>3. ASSUME Write(r, "catchW", "errorR", [mem[r] EXCEPT !.status = "failed", !.error = TRUE])
          PROVE  TurnMoves(r, "errorR")
      BY <2>3, WriteMoves DEF Aside, Idle, Locked, Held, Ending
    <2>4. ASSUME NEW e, Publish(r, "errorW", e), r \in Suites, Goto(r, "cleanup"), Stop
          PROVE  TurnMoves(r, "cleanup")
      BY <2>4 DEF Publish, LockMoves, Aside
    <2>5. ASSUME NEW e, Publish(r, "errorW", e), r \in Loads, Then(r, "releaseR")
          PROVE  TurnMoves(r, "releaseR")
      BY <2>5 DEF Publish, LockMoves, Aside, Idle, Locked, Held, Ending
    <2>6. QED
      BY <1>3, <2>1, <2>2, <2>3, <2>4, <2>5 DEF Catch
  <1>4. ASSUME CommandFails(r) PROVE \E place \in Places(r) : TurnMoves(r, place)
    <2>1. pc[r] \notin Aside /\ pc[r] \in Places(r)
      BY <1>4, TurnTaken DEF CommandFails, PlacesTyped
    <2>2. /\ "dead" \in Places(r) /\ "catchR" \in Places(r)
          /\ r \in Suites => "cleanup" \in Places(r)
          /\ r \in Loads => "releaseR" \in Places(r)
      BY RunnerAssumption DEF Places, Ending, Idle
    <2>3. pc[r] \in {"finalR", "finalW", "endR", "endW"} \/ r \in Suites
             \/ pc[r] \in Starting \cup {"begin", "running", "startedR", "startedW", "srem",
                                         "releaseR", "releaseD"}
             \/ pc[r] \in {"catchR", "catchW", "errorR", "errorW"}
      BY <2>1 DEF Places, Aside, Begun, Ending, Starting, Idle, Runs
    <2>4. CASE pc[r] \in Starting \cup {"begin", "running", "startedR", "startedW", "srem",
                                        "releaseR", "releaseD"}
      <3>1. pc[r] \notin {"catchR", "catchW", "errorR", "errorW"}
        BY <2>4 DEF Starting
      <3>2. Turn(Main(r)) /\ Goto(r, "dead") /\ Stop /\ UNCHANGED <<store, overrun>>
        BY <1>4, <2>4, <3>1 DEF CommandFails
      <3>3. TurnMoves(r, "dead")
        BY <3>2 DEF LockMoves, Aside, Idle, Locked, Held, Ending, store
      <3>4. QED
        BY <2>2, <3>3
    <2>5. CASE pc[r] \in {"catchR", "catchW", "errorR", "errorW"}
      <3>1. pc[r] \notin Starting \cup {"begin", "running", "startedR", "startedW", "srem",
                                        "releaseR", "releaseD"}
        BY <2>5 DEF Starting
      <3>2. CASE r \in Suites
        <4>1. TurnMoves(r, "cleanup")
          BY <1>4, <2>5, <3>1, <3>2 DEF CommandFails, LockMoves, Aside, store
        <4>2. QED
          BY <2>2, <3>2, <4>1
      <3>3. CASE r \notin Suites
        <4>1. TurnMoves(r, "releaseR")
          BY <1>4, <2>5, <3>1, <3>3 DEF CommandFails, LockMoves, Aside, Idle, Locked, Held, Ending, store
        <4>2. QED
          BY <2>2, <3>3, <4>1 DEF Runs
      <3>4. QED
        BY <3>2, <3>3
    <2>6. CASE /\ pc[r] \notin Starting \cup {"begin", "running", "startedR", "startedW", "srem",
                                              "releaseR", "releaseD"}
               /\ pc[r] \notin {"catchR", "catchW", "errorR", "errorW"}
      <3>1. TurnMoves(r, "catchR")
        BY <1>4, <2>3, <2>6 DEF CommandFails, LockMoves, Aside, Idle, Locked, Held, Ending, store
      <3>2. QED
        BY <2>2, <3>1
    <2>7. QED
      BY <2>4, <2>5, <2>6
  <1>5. ASSUME r \in Loads, Gate(r) \/ Acquire(r)
        PROVE  \E place \in {"gate2", "acquire", "create", "ended"} : TurnMoves(r, place) /\ place \in Places(r)
    <2>1. {"gate2", "acquire", "create", "ended"} \subseteq Places(r)
      BY <1>5 DEF Places, Begun, Idle
    <2>2. ASSUME Gate(r) PROVE \E place \in {"gate2", "acquire", "ended"} : TurnMoves(r, place)
      BY <2>2 DEF Gate, LockMoves, Aside, Idle, Locked, Held, Ending, store
    <2>3. ASSUME Acquire(r) PROVE \E place \in {"create", "ended"} : TurnMoves(r, place)
      BY <1>5, <2>3 DEF Acquire, LockMoves, Aside, Idle, Locked, Held, Ending, store
    <2>4. QED
      BY <1>5, <2>1, <2>2, <2>3
  <1>6. ASSUME r \in Loads, FinishLoad(r) PROVE \E place \in Places(r) : TurnMoves(r, place)
    <2>1. {"finalW", "endR", "endW", "releaseR"} \subseteq Places(r)
      BY <1>6 DEF Places, Ending
    <2>2. ASSUME Read(r, "finalR", "finalW") \/ Read(r, "endR", "endW")
          PROVE  TurnMoves(r, "finalW") \/ TurnMoves(r, "endW")
      BY <2>2, ReadMoves DEF Aside, Idle, Locked, Held, Ending
    <2>3. ASSUME NEW rec, Write(r, "finalW", "endR", rec)
          PROVE  TurnMoves(r, "endR")
      BY <2>3, WriteMoves DEF Aside, Idle, Locked, Held, Ending
    <2>4. ASSUME NEW e, Publish(r, "endW", e), Then(r, "releaseR")
          PROVE  TurnMoves(r, "releaseR")
      BY <2>4 DEF Publish, LockMoves, Aside, Idle, Locked, Held, Ending
    <2>5. QED
      BY <1>6, <2>1, <2>2, <2>3, <2>4 DEF FinishLoad
  <1>7. ASSUME r \in Loads, Release(r)
        PROVE  \E place \in {"releaseD", "ended"} : TurnMoves(r, place) /\ place \in Places(r)
    <2>1. {"releaseD", "ended"} \subseteq Places(r)
      BY <1>7 DEF Places, Idle
    <2>2. \E place \in {"releaseD", "ended"} : TurnMoves(r, place)
      BY <1>7 DEF Release, LockMoves, Aside, Idle, Locked, Held, Ending, store
    <2>3. QED
      BY <2>1, <2>2
  <1>8. ASSUME r \in Suites, MarkSuiteActive(r) \/ MarkSuiteInactive(r) \/ AppendScenarioEvent(r)
        PROVE  \E place \in Places(r) : TurnMoves(r, place)
    <2>1. {"expire", "begin", "ended", "eventW", "pushR", "working"} \subseteq Places(r)
      BY <1>8, RunnerAssumption DEF Places, Idle, Begun
    <2>2. ASSUME MarkSuiteActive(r) PROVE \E place \in {"expire", "begin"} : TurnMoves(r, place)
      BY <1>8, <2>2 DEF MarkSuiteActive, LockMoves, Aside, Idle, store
    <2>3. ASSUME MarkSuiteInactive(r) PROVE TurnMoves(r, "ended")
      BY <1>8, <2>3 DEF MarkSuiteInactive, LockMoves, Aside, Idle, store
    <2>4. ASSUME Read(r, "eventR", "eventW") PROVE TurnMoves(r, "eventW")
      BY <1>8, <2>4 DEF Read, LockMoves, Aside, Idle, store
    <2>5. ASSUME NEW e, Publish(r, "eventW", e), Then(r, "pushR") PROVE TurnMoves(r, "pushR")
      BY <1>8, <2>5 DEF Publish, LockMoves, Aside, Idle
    <2>6. ASSUME NEW e, Publish(r, "eventW", e), Goto(r, "working"), Stop
          PROVE  TurnMoves(r, "working")
      BY <1>8, <2>6 DEF Publish, LockMoves, Aside, Idle
    <2>7. QED
      BY <1>8, <2>1, <2>2, <2>3, <2>4, <2>5, <2>6 DEF AppendScenarioEvent
  <1>9. ASSUME r \in Suites, PushScenario(r) \/ FinishSuite(r)
        PROVE  \E place \in Places(r) : TurnMoves(r, place)
    <2>1. {"pushW", "working", "finalW", "endR", "endW", "cleanup"} \subseteq Places(r)
      BY <1>9, RunnerAssumption DEF Places, Ending
    <2>2. ASSUME NEW place, NEW next \in {"pushW", "finalW", "endW"}, Read(r, place, next)
          PROVE  TurnMoves(r, next)
      BY <1>9, <2>2 DEF Read, LockMoves, Aside, Idle, store
    <2>3. ASSUME PushScenario(r), ~Read(r, "pushR", "pushW") PROVE TurnMoves(r, "working")
      BY <1>9, <2>3 DEF PushScenario, LockMoves, Aside
    <2>4. ASSUME NEW rec, Write(r, "finalW", "endR", rec) PROVE TurnMoves(r, "endR")
      BY <1>9, <2>4 DEF Write, LockMoves, Aside, Idle
    <2>5. ASSUME NEW e, Publish(r, "endW", e), Goto(r, "cleanup"), Stop
          PROVE  TurnMoves(r, "cleanup")
      BY <1>9, <2>5 DEF Publish, LockMoves, Aside, Idle
    <2>6. CASE PushScenario(r)
      BY <2>1, <2>2, <2>3, <2>6 DEF PushScenario
    <2>7. CASE FinishSuite(r)
      BY <2>1, <2>2, <2>4, <2>5, <2>7 DEF FinishSuite
    <2>8. QED
      BY <1>9, <2>6, <2>7
  <1>10. ASSUME StepEventFails(r) PROVE \E place \in Places(r) : TurnMoves(r, place)
    <2>1. r \in Suites /\ "eventR" \in Places(r)
      BY <1>10, StepIsOfSuite DEF StepEventFails
    <2>2. TurnMoves(r, "eventR")
      BY <1>10, <2>1 DEF StepEventFails, InStep, LockMoves, Aside, Idle, store
    <2>3. QED
      BY <2>1, <2>2
  <1>11. QED
    BY <1>1, <1>2, <1>3, <1>4, <1>5, <1>6, <1>7, <1>8, <1>9, <1>10 DEF MainStep

-----------------------------------------------------------------------------
(* What is true of one run: its record, what its executor and callbacks    *)
(* have read, the frames on their way to its tab, and what the tab shows.  *)
Recs ==
    [status : {"queued", "running", "finished", "failed"}, error : BOOLEAN,
     summary : {None, "passed", "failed"}, scenarios : Seq(BOOLEAN)]

Calls ==
    [type : {"load.progress", "load.finished", "load.error"}, ok : BOOLEAN,
     place : {"progressR", "progressW", "appendR", "appendW", "over"}, mem : Recs \cup {None}]

Messages ==
    [type : {"open", "end", "run.snapshot", "run.started", "run.finished", "run.error",
             "scenario.started", "step.started", "step.finished", "scenario.finished",
             "load.progress", "load.finished", "load.error"},
     n : Nat, ok : BOOLEAN, run : Recs \cup {None}]

(* The work of the run is done: its outcome stands. *)
Over(r) == pc[r] \in Ending \cup {"cleanup", "srem", "releaseR", "releaseD", "ended", "dead"}

(* What may be said of it then. *)
Told(s, ok) ==
    IF ok THEN Len(outcome[s]) = Scenarios[s] /\ AllPassed(outcome[s])
    ELSE ~AllPassed(outcome[s])

Came(l) == Over(l) /\ outcome[l] # <<"error">>

TrueRecs(r) ==
    {rec \in Recs :
        /\ r \in Suites /\ rec.status = "finished" =>
              /\ Over(r) /\ rec.summary \in {"passed", "failed"}
              /\ Told(r, rec.summary = "passed")
        /\ r \in Suites /\ rec.status = "failed" => rec.error
        /\ r \in Loads /\ rec.status = "finished" => Came(r)}

TrueCalls(l) ==
    {c \in Calls :
        /\ c.type = "load.finished" => Came(l)
        /\ c.place \in {"progressW", "appendW"} => c.mem \in TrueRecs(l)}

TrueFrames(r) ==
    {e \in Messages :
        /\ e.type = "run.snapshot" => e.run \in TrueRecs(r)
        /\ e.type = "run.finished" /\ r \in Suites => Over(r) /\ Told(r, e.ok)
        /\ e.type = "load.finished" => r \in Loads /\ Came(r)}

(* The run has a record, and it is true. *)
Made(r) == record[r] \in TrueRecs(r)

(* Where an executor has read the record that it will write. *)
Writing == {"running", "startedW", "eventW", "pushW", "finalW", "endW", "catchW", "errorW"}
Unmade == {"idle", "gate", "gate2", "acquire", "create", "ended", "dead"}

ViewTrue(r, status) ==
    /\ status = "passed" => r \in Suites /\ Over(r) /\ Told(r, TRUE)
    /\ status = "failed" => r \in Suites /\ Over(r) /\ Told(r, FALSE)
    /\ status = "finished" => r \in Loads /\ Came(r)

BrowserOk(r) ==
    /\ tab[r] = "idle" => pc[r] = "idle"
    /\ ViewTrue(r, tab[r])
    /\ conn[r] \notin {"none", "closed"} => Made(r)
    /\ net[r] \in Seq(TrueFrames(r))

RecordOk(r) ==
    /\ pc[r] \notin Unmade => Made(r)
    /\ pc[r] \in Writing => mem[r] \in TrueRecs(r)

(* The verdicts in the record are those of the scenarios that are over, of *)
(* which the last may not be recorded yet.                                 *)
Tallied(s) == record[s].scenarios = outcome[s] /\ Len(outcome[s]) = at[s][1] - 1
Pushing(s) ==
    /\ \E ok \in BOOLEAN : outcome[s] = Append(record[s].scenarios, ok)
    /\ Len(record[s].scenarios) = at[s][1] - 1

SuiteOk(s) ==
    /\ at[s] \in (1 .. Scenarios[s] + 1) \X (1 .. 4) /\ outcome[s] \in Seq(BOOLEAN)
    /\ pc[s] \in Early \cup {"sadd", "expire"} \cup Begun => at[s] = <<1, 1>> /\ outcome[s] = <<>>
    /\ pc[s] \in Writing => mem[s] = record[s]
    /\ pc[s] \in {"sadd", "expire", "begin", "running", "startedR", "startedW", "working"} =>
          Tallied(s)
    /\ pc[s] \in {"eventR", "eventW"} =>
          /\ at[s][1] <= Scenarios[s]
          /\ IF LastEvent(s) THEN Pushing(s) ELSE Tallied(s)
    /\ pc[s] \in {"pushR", "pushW"} => at[s][1] <= Scenarios[s] /\ Pushing(s)
    /\ pc[s] \in {"finalR", "finalW"} =>
          record[s].scenarios = outcome[s] /\ Len(outcome[s]) = Scenarios[s]
    /\ pc[s] \in {"endR", "endW"} => record[s].status = "finished"

Ends == {<<"passed">>, <<"failed">>, <<"error">>}

LoadOk(l) ==
    /\ outcome[l] \in Ends \cup {<<>>}
    /\ ~Over(l) => outcome[l] = <<>>
    /\ pc[l] \in {"finalR", "finalW"} => outcome[l] \in Ends
    /\ outcome[l] = <<"error">> => callbacks[l] # <<>>

CallsOk(l) ==
    /\ callbacks[l] \in Seq(TrueCalls(l))
    /\ callbacks[l] # <<>> => Made(l)

RunOk(r) ==
    /\ BrowserOk(r) /\ RecordOk(r) /\ CallsOk(r)
    /\ r \in Suites => SuiteOk(r)
    /\ r \in Loads => LoadOk(r)

Domains ==
    /\ DOMAIN record = Runs /\ DOMAIN mem = Runs /\ DOMAIN at = Runs /\ DOMAIN outcome = Runs
    /\ DOMAIN callbacks = Runs /\ DOMAIN tab = Runs /\ DOMAIN conn = Runs /\ DOMAIN net = Runs

RunnerInv ==
    /\ cast \in Casts /\ Domains
    /\ PlacesTyped /\ PipeInv /\ LockInv
    /\ \A r \in Runs : RunOk(r)

-----------------------------------------------------------------------------
(* A step of one run leaves the others alone. *)
Same(s) ==
    /\ pc'[s] = pc[s] /\ record'[s] = record[s] /\ mem'[s] = mem[s] /\ at'[s] = at[s]
    /\ outcome'[s] = outcome[s] /\ callbacks'[s] = callbacks[s]
    /\ tab'[s] = tab[s] /\ conn'[s] = conn[s] /\ net'[s] = net[s]

Local(r) == cast' = cast /\ Domains' /\ \A s \in Runs \ {r} : Same(s)

CallbackStep(l) == l \in Loads /\ (Progress(l) \/ \E n \in Pending(l) : OnProgress(l, n))
StreamStep(r) == OpenStream(r) \/ StreamRun(r) \/ Drop(r)

LEMMA StepsAreLocal ==
    ASSUME Domains, PlacesTyped, NEW r \in Runs,
           MainStep(r) \/ SelfStep(r) \/ CallbackStep(r) \/ StreamStep(r) \/ TabStep(r)
    PROVE  Local(r)
  <1> USE DEF Domains, PlacesTyped, Local, Same, store, engine, browser
  <1>1. ASSUME Click(r) PROVE Local(r)
    BY <1>1 DEF Click, Goto
  <1>2. ASSUME Gate(r) PROVE Local(r)
    BY <1>2 DEF Gate, Then, Goto, Refused
  <1>3. ASSUME Acquire(r) PROVE Local(r)
    BY <1>3 DEF Acquire, Then, Goto, Refused
  <1>4. ASSUME Create(r) PROVE Local(r)
    BY <1>4 DEF Create, Save, Then, Goto, Accepted
  <1>5. ASSUME MarkSuiteActive(r) PROVE Local(r)
    BY <1>5 DEF MarkSuiteActive, Then, Goto, Accepted
  <1>6. ASSUME NEW place, NEW next, Read(r, place, next) PROVE Local(r)
    BY <1>6 DEF Read, Then, Goto
  <1>7. ASSUME NEW place, NEW next, NEW rec, Write(r, place, next, rec) PROVE Local(r)
    BY <1>7 DEF Write, Save, Then, Goto
  <1>8. ASSUME NEW place, NEW next, NEW e, Publish(r, place, e), Goto(r, next),
               outcome' = outcome, at' = at \/ at' = [at EXCEPT ![r][2] = @ + 1]
        PROVE  Local(r)
    BY <1>8 DEF Publish, Save, Emit, Goto
  <1>9. ASSUME SelfStep(r) PROVE Local(r)
    BY <1>1, <1>9 DEF SelfStep, Work, WorkFails, CleanUp, ExecutorEnds, AddCallback, Goto
  <1>10. ASSUME Begin(r) PROVE Local(r)
    BY <1>6, <1>7, <1>8, <1>10 DEF Begin
  <1>11. ASSUME Catch(r) PROVE Local(r)
    BY <1>6, <1>7, <1>8, <1>11 DEF Catch, Then
  <1>12. ASSUME AppendScenarioEvent(r) PROVE Local(r)
    BY <1>6, <1>8, <1>12 DEF AppendScenarioEvent, Then
  <1>13. ASSUME PushScenario(r) PROVE Local(r)
    BY <1>6, <1>13 DEF PushScenario, Save, Goto
  <1>14. ASSUME FinishSuite(r) PROVE Local(r)
    BY <1>6, <1>7, <1>8, <1>14 DEF FinishSuite
  <1>15. ASSUME FinishLoad(r) PROVE Local(r)
    BY <1>6, <1>7, <1>8, <1>15 DEF FinishLoad, Then
  <1>16. ASSUME Release(r) \/ MarkSuiteInactive(r) PROVE Local(r)
    BY <1>16 DEF Release, MarkSuiteInactive, Then, Goto
  <1>17. ASSUME CommandFails(r) \/ StepEventFails(r) PROVE Local(r)
    BY <1>17 DEF CommandFails, StepEventFails, Then, Goto, Refused
  <1>18. ASSUME CallbackStep(r) PROVE Local(r)
    <2>1. ASSUME Progress(r) PROVE Local(r)
      BY <2>1 DEF Progress, AddCallback
    <2>2. ASSUME NEW n, OnProgress(r, n) PROVE Local(r)
      <3>1. /\ UNCHANGED <<cast, pc, mem, at, outcome, tab, conn>>
            /\ DOMAIN callbacks' = Runs /\ \A s \in Runs \ {r} : callbacks'[s] = callbacks[s]
        BY <2>2 DEF OnProgress, CallbackAt
      <3>2. \/ record' = record
            \/ \E rec : record' = [record EXCEPT ![r] = rec]
        BY <2>2 DEF OnProgress, Save
      <3>3. net' = net \/ \E q : net' = [net EXCEPT ![r] = q]
        BY <2>2 DEF OnProgress, Emit
      <3>4. QED
        BY <3>1, <3>2, <3>3
    <2>3. QED
      BY <1>18, <2>1, <2>2 DEF CallbackStep
  <1>19. ASSUME StreamStep(r) PROVE Local(r)
    BY <1>19 DEF StreamStep, OpenStream, StreamRun, Drop
  <1>20. ASSUME TabStep(r) PROVE Local(r)
    BY <1>20 DEF TabStep, OnOpen, OnSnapshot, OnIgnored, OnError, OnEnd, TimerFires,
                 OnScenarioEvent, OnRunFinished, OnLoadProgress, OnLoadFinished,
                 Shows, Stay, Close, Seen
  <1>21. QED
    BY <1>2, <1>3, <1>4, <1>5, <1>9, <1>10, <1>11, <1>12, <1>13, <1>14, <1>15, <1>16, <1>17,
       <1>18, <1>19, <1>20 DEF MainStep

LEMMA OthersKept ==
    ASSUME NEW s \in Runs, RunOk(s), Same(s)
    PROVE  RunOk(s)'
  <1> USE DEF Same
  <1>1. /\ Over(s)' = Over(s) /\ Came(s)' = Came(s)
        /\ \A ok \in BOOLEAN : Told(s, ok)' = Told(s, ok)
        /\ Told(s, TRUE)' = Told(s, TRUE) /\ Told(s, FALSE)' = Told(s, FALSE)
    BY DEF Over, Came, Told
  <1>2. TrueRecs(s)' = TrueRecs(s)
    BY <1>1 DEF TrueRecs, Told
  <1>3. TrueCalls(s)' = TrueCalls(s) /\ TrueFrames(s)' = TrueFrames(s) /\ Made(s)' = Made(s)
    BY <1>1, <1>2 DEF TrueCalls, TrueFrames, Made, Told
  <1>4. BrowserOk(s)'
    BY <1>1, <1>3 DEF RunOk, BrowserOk, ViewTrue
  <1>5. RecordOk(s)' /\ CallsOk(s)'
    BY <1>2, <1>3 DEF RunOk, RecordOk, CallsOk
  <1>6. ASSUME s \in Suites PROVE SuiteOk(s)'
    BY <1>6 DEF RunOk, SuiteOk, Tallied, Pushing, LastEvent
  <1>7. ASSUME s \in Loads PROVE LoadOk(s)'
    BY <1>1, <1>7 DEF RunOk, LoadOk
  <1>8. QED
    BY <1>4, <1>5, <1>6, <1>7 DEF RunOk

(* A run that is over stays so, and with it what was true of it. *)
Settles(r) == Over(r) => Over(r)' /\ outcome'[r] = outcome[r]

LEMMA TruthStays ==
    ASSUME NEW r \in Runs, Settles(r)
    PROVE  /\ Came(r) => Came(r)'
           /\ \A ok \in BOOLEAN : Over(r) /\ Told(r, ok) => Over(r)' /\ Told(r, ok)'
           /\ TrueRecs(r) \subseteq TrueRecs(r)'
           /\ \A q \in Seq(TrueCalls(r)) : q \in Seq(TrueCalls(r)')
           /\ \A q \in Seq(TrueFrames(r)) : q \in Seq(TrueFrames(r)')
  <1>1. Came(r) => Came(r)'
    BY DEF Came, Settles
  <1>2. ASSUME NEW ok \in BOOLEAN, Over(r), Told(r, ok) PROVE Over(r)' /\ Told(r, ok)'
    BY <1>2 DEF Settles, Told
  <1>3. ASSUME NEW rec \in TrueRecs(r) PROVE rec \in TrueRecs(r)'
    <2>1. (rec.summary = "passed") \in BOOLEAN
      OBVIOUS
    <2>2. QED
      BY <1>1, <1>2, <1>3, <2>1 DEF TrueRecs, Told
  <1>4. ASSUME NEW c \in TrueCalls(r) PROVE c \in TrueCalls(r)'
    BY <1>1, <1>3, <1>4 DEF TrueCalls
  <1>5. ASSUME NEW e \in TrueFrames(r) PROVE e \in TrueFrames(r)'
    <2>1. e.ok \in BOOLEAN
      BY DEF TrueFrames, Messages
    <2>2. QED
      BY <1>1, <1>2, <1>3, <1>5, <2>1 DEF TrueFrames, Told
  <1>6. QED
    BY <1>1, <1>2, <1>3, <1>4, <1>5

(* What becomes of the tab and of the callbacks in steps of others. *)
LEMMA BrowserKept ==
    ASSUME NEW r \in Runs, BrowserOk(r), Settles(r), Made(r) => Made(r)',
           \/ tab'[r] = tab[r] /\ (tab[r] = "idle" => pc'[r] = "idle")
           \/ tab'[r] \in {"connecting", "running", "error"},
           conn'[r] = conn[r] \/ Made(r)',
           net'[r] = net[r] \/ net'[r] \in Seq(TrueFrames(r)')
    PROVE  BrowserOk(r)'
  <1>1. net'[r] \in Seq(TrueFrames(r)')
    BY TruthStays DEF BrowserOk
  <1>2. conn'[r] \notin {"none", "closed"} => Made(r)'
    BY DEF BrowserOk
  <1>3. /\ tab'[r] = "idle" => pc'[r] = "idle"
        /\ ViewTrue(r, tab[r])'
    BY TruthStays DEF BrowserOk, ViewTrue, Told
  <1>4. QED
    BY <1>1, <1>2, <1>3 DEF BrowserOk

LEMMA CallsKept ==
    ASSUME NEW r \in Runs, CallsOk(r), Settles(r), Made(r) => Made(r)',
           callbacks'[r] = callbacks[r]
    PROVE  CallsOk(r)'
  BY TruthStays DEF CallsOk

-----------------------------------------------------------------------------
(* Executors: they read a record, write it, and publish an event. *)
Reads ==
    {<<"begin", "running">>, <<"startedR", "startedW">>, <<"eventR", "eventW">>,
     <<"pushR", "pushW">>, <<"finalR", "finalW">>, <<"endR", "endW">>,
     <<"catchR", "catchW">>, <<"errorR", "errorW">>}

LEMMA ReadKeeps ==
    ASSUME Domains, PlacesTyped, NEW r \in Runs, RunOk(r),
           NEW place, NEW next, <<place, next>> \in Reads, Read(r, place, next)
    PROVE  RunOk(r)'
  <1>1. /\ pc[r] = place /\ pc'[r] = next /\ mem'[r] = record[r]
        /\ UNCHANGED <<record, at, outcome, callbacks, tab, conn, net>>
    BY DEF Read, At, Then, Goto, store, browser, Domains, PlacesTyped
  <1>2. place \notin Unmade \cup Writing /\ next \notin Unmade /\ next \in Writing
    BY DEF Reads, Unmade, Writing
  <1>3. Settles(r) /\ (~Over(r)' => ~Over(r))
    BY <1>1 DEF Settles, Over, Ending, Reads
  <1>4. Made(r) /\ Made(r)' /\ record[r] \in TrueRecs(r)'
    BY <1>1, <1>2, <1>3, TruthStays DEF RunOk, RecordOk, Made
  <1>5. RecordOk(r)'
    BY <1>1, <1>4 DEF RecordOk
  <1>6. BrowserOk(r)' /\ CallsOk(r)'
    <2>1. tab[r] # "idle"
      BY <1>1 DEF RunOk, BrowserOk, Reads
    <2>2. QED
      BY <1>1, <1>3, <1>4, <2>1, BrowserKept, CallsKept DEF RunOk
  <1>7. ASSUME r \in Suites PROVE SuiteOk(r)'
    <2>1. SuiteOk(r)
      BY <1>7 DEF RunOk
    <2>2. QED
      BY <1>1, <2>1 DEF SuiteOk, Reads, Tallied, Pushing, LastEvent, Early, Begun, Writing
  <1>8. ASSUME r \in Loads PROVE LoadOk(r)'
    BY <1>1, <1>3, <1>8 DEF RunOk, LoadOk, Reads
  <1>9. QED
    BY <1>5, <1>6, <1>7, <1>8 DEF RunOk

(* What a saved record leaves to be shown of the suite or load run itself. *)
LEMMA SaveKeeps ==
    ASSUME NEW r \in Runs, RunOk(r), pc[r] \notin Unmade, Settles(r), Made(r)',
           pc'[r] \notin Writing \cup {"idle"}, tab' = tab, conn' = conn,
           net'[r] = net[r] \/ net'[r] \in Seq(TrueFrames(r)'),
           callbacks' = callbacks,
           r \in Suites => SuiteOk(r)', r \in Loads => LoadOk(r)'
    PROVE  RunOk(r)'
  <1>1. tab[r] # "idle"
    BY DEF RunOk, BrowserOk, Unmade
  <1>2. BrowserOk(r)'
    BY <1>1, BrowserKept DEF RunOk
  <1>3. CallsOk(r)'
    BY CallsKept DEF RunOk
  <1>4. QED
    BY <1>2, <1>3 DEF RunOk, RecordOk

LEMMA EmitTrue ==
    ASSUME Domains, NEW r \in Runs, BrowserOk(r), Settles(r), NEW e \in TrueFrames(r)', Emit(r, e)
    PROVE  net'[r] = net[r] \/ net'[r] \in Seq(TrueFrames(r)')
  <1>1. PICK S : S = TrueFrames(r)'
    OBVIOUS
  <1>2. Event("end") \in S
    BY <1>1 DEF TrueFrames, Messages, Event
  <1>3. net[r] \in Seq(S) /\ e \in S
    BY <1>1, TruthStays DEF BrowserOk
  <1>4. Frames(e) \in Seq(S)
    BY <1>2, <1>3 DEF Frames
  <1>5. net[r] \o Frames(e) \in Seq(S)
    BY <1>3, <1>4
  <1>6. net'[r] = net[r] \/ net'[r] = net[r] \o Frames(e)
    BY DEF Emit, Domains
  <1>7. QED
    BY <1>1, <1>5, <1>6

LEMMA FirstWriteKeeps ==
    ASSUME Domains, PlacesTyped, NEW r \in Runs, RunOk(r),
           Write(r, "running", "startedR", [mem[r] EXCEPT !.status = "running"])
    PROVE  RunOk(r)'
  <1>1. /\ pc[r] = "running" /\ pc'[r] = "startedR"
        /\ record'[r] = [mem[r] EXCEPT !.status = "running"]
        /\ UNCHANGED <<at, outcome, callbacks, tab, conn, net>>
    BY DEF Write, Save, At, Then, Goto, browser, Domains, PlacesTyped
  <1>2. mem[r] \in Recs
    BY <1>1 DEF RunOk, RecordOk, Writing, TrueRecs
  <1>3. Settles(r) /\ ~Over(r)'
    BY <1>1 DEF Settles, Over, Ending
  <1>4. record'[r] \in Recs /\ record'[r].status = "running" /\ record'[r].scenarios = mem[r].scenarios
    BY <1>1, <1>2 DEF Recs
  <1>5. Made(r)'
    BY <1>4 DEF Made, TrueRecs
  <1>6. ASSUME r \in Suites PROVE SuiteOk(r)'
    BY <1>1, <1>4, <1>6 DEF RunOk, SuiteOk, Tallied, Early, Begun, Writing
  <1>7. ASSUME r \in Loads PROVE LoadOk(r)'
    BY <1>1, <1>3, <1>7 DEF RunOk, LoadOk, Over, Ending
  <1>8. QED
    BY <1>1, <1>3, <1>5, <1>6, <1>7, SaveKeeps DEF Unmade, Writing

LEMMA CatchWriteKeeps ==
    ASSUME Domains, PlacesTyped, NEW r \in Runs, RunOk(r),
           Write(r, "catchW", "errorR", [mem[r] EXCEPT !.status = "failed", !.error = TRUE])
    PROVE  RunOk(r)'
  <1>1. /\ pc[r] = "catchW" /\ pc'[r] = "errorR"
        /\ record'[r] = [mem[r] EXCEPT !.status = "failed", !.error = TRUE]
        /\ UNCHANGED <<at, outcome, callbacks, tab, conn, net>>
    BY DEF Write, Save, At, Then, Goto, browser, Domains, PlacesTyped
  <1>2. mem[r] \in Recs
    BY <1>1 DEF RunOk, RecordOk, Writing, TrueRecs
  <1>3. Settles(r) /\ Over(r)
    BY <1>1 DEF Settles, Over, Ending
  <1>4. record'[r] \in Recs /\ record'[r].status = "failed" /\ record'[r].error
    BY <1>1, <1>2 DEF Recs
  <1>5. Made(r)'
    BY <1>4 DEF Made, TrueRecs
  <1>6. ASSUME r \in Suites PROVE SuiteOk(r)'
    BY <1>1, <1>6 DEF RunOk, SuiteOk, Early, Begun, Writing
  <1>7. ASSUME r \in Loads PROVE LoadOk(r)'
    BY <1>1, <1>3, <1>7 DEF RunOk, LoadOk, Settles
  <1>8. QED
    BY <1>1, <1>3, <1>5, <1>6, <1>7, SaveKeeps DEF Unmade, Writing

(* The verdict of a suite run is taken from all its scenarios. *)
LEMMA SuiteVerdictKeeps ==
    ASSUME Domains, PlacesTyped, NEW s \in Suites, RunOk(s),
           Write(s, "finalW", "endR", [mem[s] EXCEPT !.status = "finished",
                                          !.summary = Verdict(AllPassed(mem[s].scenarios))])
    PROVE  RunOk(s)'
  <1>1. s \in Runs /\ s \notin Loads
    BY RunnerAssumption DEF Runs
  <1>2. /\ pc[s] = "finalW" /\ pc'[s] = "endR"
        /\ record'[s] = [mem[s] EXCEPT !.status = "finished",
                                       !.summary = Verdict(AllPassed(mem[s].scenarios))]
        /\ UNCHANGED <<at, outcome, callbacks, tab, conn, net>>
    BY <1>1 DEF Write, Save, At, Then, Goto, browser, Domains, PlacesTyped
  <1>3. /\ mem[s] \in Recs /\ mem[s] = record[s] /\ mem[s].scenarios = outcome[s]
        /\ Len(outcome[s]) = Scenarios[s]
    BY <1>2 DEF RunOk, RecordOk, SuiteOk, Writing, TrueRecs
  <1>4. Settles(s) /\ Over(s)'
    BY <1>2 DEF Settles, Over, Ending
  <1>5. /\ record'[s] \in Recs /\ record'[s].status = "finished"
        /\ record'[s].summary = Verdict(AllPassed(outcome[s]))
    BY <1>2, <1>3 DEF Recs, Verdict
  <1>6. SuiteOk(s)'
    BY <1>2, <1>5 DEF RunOk, SuiteOk, Early, Begun, Writing
  <1>7. CASE AllPassed(outcome[s])
    <2>1. record'[s].summary = "passed" /\ Told(s, TRUE)'
      BY <1>2, <1>3, <1>5, <1>7 DEF Told, Verdict, AllPassed
    <2>2. Made(s)'
      BY <1>1, <1>4, <1>5, <2>1 DEF Made, TrueRecs, Told
    <2>3. QED
      BY <1>1, <1>2, <1>4, <1>6, <2>2, SaveKeeps DEF Unmade, Writing
  <1>8. CASE ~AllPassed(outcome[s])
    <2>1. record'[s].summary = "failed" /\ Told(s, FALSE)'
      BY <1>2, <1>3, <1>5, <1>8 DEF Told, Verdict, AllPassed
    <2>2. Made(s)'
      BY <1>1, <1>4, <1>5, <2>1 DEF Made, TrueRecs, Told
    <2>3. QED
      BY <1>1, <1>2, <1>4, <1>6, <2>2, SaveKeeps DEF Unmade, Writing
  <1>9. QED
    BY <1>7, <1>8

LEMMA LoadVerdictKeeps ==
    ASSUME Domains, PlacesTyped, NEW l \in Loads, RunOk(l), NEW end, end = Last(outcome[l]),
           Write(l, "finalW", "endR",
                 [mem[l] EXCEPT !.status = IF end = "passed" THEN "finished" ELSE "failed",
                                !.summary = Verdict(end = "passed")])
    PROVE  RunOk(l)'
  <1>1. l \in Runs /\ l \notin Suites
    BY RunnerAssumption DEF Runs
  <1>2. /\ pc[l] = "finalW" /\ pc'[l] = "endR"
        /\ record'[l] = [mem[l] EXCEPT !.status = IF end = "passed" THEN "finished" ELSE "failed",
                                       !.summary = Verdict(end = "passed")]
        /\ UNCHANGED <<at, outcome, callbacks, tab, conn, net>>
    BY <1>1 DEF Write, Save, At, Then, Goto, browser, Domains, PlacesTyped
  <1>3. mem[l] \in Recs /\ outcome[l] \in Ends
    BY <1>2 DEF RunOk, RecordOk, LoadOk, Writing, TrueRecs
  <1>4. Settles(l) /\ Over(l)'
    BY <1>2 DEF Settles, Over, Ending
  <1>5. /\ record'[l] \in Recs
        /\ record'[l].status = IF end = "passed" THEN "finished" ELSE "failed"
    BY <1>2, <1>3 DEF Recs, Verdict
  <1>6. end = "passed" => outcome[l] # <<"error">>
    <2>1. outcome[l] = <<"error">> => Last(outcome[l]) = "error"
      BY DEF Last
    <2>2. QED
      BY <2>1
  <1>7. Made(l)'
    BY <1>1, <1>2, <1>4, <1>5, <1>6 DEF Made, TrueRecs, Came
  <1>8. LoadOk(l)'
    BY <1>2, <1>3, <1>4 DEF LoadOk, RunOk
  <1>9. QED
    BY <1>1, <1>2, <1>4, <1>7, <1>8, SaveKeeps DEF Unmade, Writing

(* The record that was read is saved, and an event goes out. *)
LEMMA PublishKeeps ==
    ASSUME Domains, NEW r \in Runs, RunOk(r), NEW place \in Writing, NEW e, Publish(r, place, e),
           Settles(r), pc'[r] \notin Writing \cup {"idle"}, e \in TrueFrames(r)',
           r \in Suites => SuiteOk(r)', r \in Loads => LoadOk(r)'
    PROVE  RunOk(r)'
  <1>1. /\ pc[r] = place /\ record'[r] = mem[r]
        /\ UNCHANGED <<callbacks, tab, conn>>
    BY DEF Publish, Save, At, Domains
  <1>2. Made(r)'
    BY <1>1, TruthStays DEF RunOk, RecordOk, Made
  <1>3. net'[r] = net[r] \/ net'[r] \in Seq(TrueFrames(r)')
    BY EmitTrue DEF Publish, RunOk
  <1>4. QED
    BY <1>1, <1>2, <1>3, SaveKeeps DEF Unmade, Writing

LEMMA FirstEventKeeps ==
    ASSUME Domains, PlacesTyped, NEW r \in Runs, RunOk(r),
           Publish(r, "startedW", Event("run.started")), Goto(r, "working"),
           UNCHANGED <<at, outcome>>
    PROVE  RunOk(r)'
  <1>1. /\ pc[r] = "startedW" /\ pc'[r] = "working" /\ record'[r] = mem[r]
        /\ UNCHANGED <<callbacks, at, outcome>>
    BY DEF Publish, Save, At, Goto, Domains, PlacesTyped
  <1>2. Settles(r) /\ ~Over(r)' /\ ~Over(r)
    BY <1>1 DEF Settles, Over, Ending
  <1>3. Event("run.started") \in TrueFrames(r)'
    BY DEF Event, TrueFrames, Messages
  <1>4. ASSUME r \in Suites PROVE SuiteOk(r)'
    <2>1. SuiteOk(r) /\ record'[r] = record[r] /\ Tallied(r)
      BY <1>1, <1>4 DEF RunOk, SuiteOk, Writing
    <2>2. Tallied(r)'
      BY <2>1 DEF Tallied
    <2>3. QED
      BY <1>1, <2>1, <2>2 DEF SuiteOk, Early, Begun, Writing
  <1>5. ASSUME r \in Loads PROVE LoadOk(r)'
    BY <1>1, <1>2, <1>5 DEF RunOk, LoadOk
  <1>6. QED
    BY <1>1, <1>2, <1>3, <1>4, <1>5, PublishKeeps DEF Writing

(* A verdict at the end of a queue of verdicts. *)
LEMMA LastPushed ==
    ASSUME NEW q \in Seq(BOOLEAN), NEW ok \in BOOLEAN
    PROVE  /\ Append(q, ok) \in Seq(BOOLEAN) /\ Len(Append(q, ok)) = Len(q) + 1
           /\ Last(Append(q, ok)) = ok
  BY DEF Last

LEMMA ScenarioEventKeeps ==
    ASSUME Domains, PlacesTyped, NEW s \in Suites, RunOk(s), Publish(s, "eventW", ScenarioEvent(s)),
           \/ LastEvent(s) /\ Goto(s, "pushR") /\ UNCHANGED at
           \/ ~LastEvent(s) /\ Goto(s, "working") /\ at' = [at EXCEPT ![s][2] = @ + 1],
           UNCHANGED outcome
    PROVE  RunOk(s)'
  <1>1. s \in Runs /\ s \notin Loads
    BY RunnerAssumption DEF Runs
  <1>2. pc[s] = "eventW" /\ record'[s] = mem[s] /\ pc'[s] \in {"pushR", "working"}
    BY <1>1 DEF Publish, Save, At, Goto, Domains, PlacesTyped
  <1>3. /\ SuiteOk(s) /\ mem[s] = record[s] /\ mem[s] \in Recs /\ at[s][1] <= Scenarios[s]
        /\ LastEvent(s) => Pushing(s)
    BY <1>2 DEF RunOk, RecordOk, SuiteOk, Writing, TrueRecs
  <1>4. PICK n \in 1 .. Scenarios[s] + 1, k \in 1 .. 4 : at[s] = <<n, k>>
    BY <1>3 DEF SuiteOk
  <1>5. Len(ScenarioEvents) = 4 /\ (LastEvent(s) <=> k = 4)
    BY <1>4 DEF ScenarioEvents, LastEvent
  <1>6. Settles(s) /\ ~Over(s)'
    BY <1>2 DEF Settles, Over, Ending
  <1>7. ScenarioEvent(s) \in TrueFrames(s)'
    <2>1. LastEvent(s) => Last(outcome[s]) \in BOOLEAN
      BY <1>3, LastPushed DEF Pushing, Recs
    <2>2. PICK ok \in BOOLEAN : ok = IF LastEvent(s) THEN Last(outcome[s]) ELSE TRUE
      BY <2>1
    <2>3. PICK type \in {"scenario.started", "step.started", "step.finished", "scenario.finished"} :
             type = ScenarioEvents[k]
      BY DEF ScenarioEvents
    <2>4. at[s][1] = n /\ at[s][2] = k /\ n \in Nat
      BY <1>1, <1>4, RunnerAssumption
    <2>5. ScenarioEvent(s) = [Event(type) EXCEPT !.n = n, !.ok = ok]
      BY <2>2, <2>3, <2>4 DEF ScenarioEvent
    <2>6. ScenarioEvent(s) = [type |-> type, n |-> n, ok |-> ok, run |-> None]
      BY <2>5 DEF Event
    <2>7. ScenarioEvent(s) \in Messages
      BY <2>4, <2>6 DEF Messages
    <2>8. QED
      BY <2>6, <2>7 DEF TrueFrames
  <1>8. SuiteOk(s)'
    <2>1. CASE LastEvent(s)
      <3>1. pc'[s] = "pushR" /\ at' = at
        BY <1>1, <2>1 DEF Goto, PlacesTyped
      <3>2. QED
        BY <1>2, <1>3, <2>1, <3>1 DEF SuiteOk, Pushing, Early, Begun, Writing
    <2>2. CASE ~LastEvent(s)
      <3>1. pc'[s] = "working" /\ at'[s] = <<n, k + 1>> /\ k + 1 \in 1 .. 4
        BY <1>1, <1>4, <1>5, <2>2 DEF Goto, PlacesTyped, Domains
      <3>2. Tallied(s)'
        BY <1>2, <1>3, <1>4, <2>2, <3>1 DEF SuiteOk, Tallied
      <3>3. QED
        BY <1>2, <1>3, <1>4, <3>1, <3>2 DEF SuiteOk, Early, Begun, Writing
    <2>3. QED
      BY <2>1, <2>2
  <1>9. QED
    BY <1>1, <1>2, <1>6, <1>7, <1>8, PublishKeeps DEF Writing

LEMMA PushKeeps ==
    ASSUME Domains, PlacesTyped, NEW s \in Suites, RunOk(s), PushScenario(s)
    PROVE  RunOk(s)'
  <1>1. s \in Runs /\ s \notin Loads
    BY RunnerAssumption DEF Runs
  <1>2. CASE Read(s, "pushR", "pushW")
    BY <1>1, <1>2, ReadKeeps DEF Reads
  <1>3. CASE ~Read(s, "pushR", "pushW")
    <2>1. /\ pc[s] = "pushW" /\ pc'[s] = "working" /\ at'[s] = <<at[s][1] + 1, 1>>
          /\ record'[s] = [mem[s] EXCEPT !.scenarios = Append(@, Last(outcome[s]))]
          /\ UNCHANGED <<outcome, callbacks, tab, conn, net>>
      BY <1>1, <1>3 DEF PushScenario, Save, At, Goto, browser, Domains, PlacesTyped
    <2>2. /\ SuiteOk(s) /\ mem[s] = record[s] /\ mem[s] \in TrueRecs(s) /\ mem[s] \in Recs
          /\ at[s][1] <= Scenarios[s] /\ Pushing(s)
      BY <2>1 DEF RunOk, RecordOk, SuiteOk, Writing, TrueRecs
    <2>3. /\ Append(mem[s].scenarios, Last(outcome[s])) = outcome[s]
          /\ outcome[s] \in Seq(BOOLEAN) /\ Len(outcome[s]) = at[s][1]
      BY <2>2, LastPushed DEF Pushing, Recs, SuiteOk
    <2>4. record'[s] = [mem[s] EXCEPT !.scenarios = outcome[s]]
      BY <2>1, <2>2, <2>3 DEF Recs
    <2>5. /\ record'[s] \in Recs /\ record'[s].scenarios = outcome[s]
          /\ record'[s].status = mem[s].status /\ record'[s].error = mem[s].error
      BY <2>2, <2>3, <2>4 DEF Recs
    <2>6. Settles(s) /\ ~Over(s) /\ ~Over(s)'
      BY <2>1 DEF Settles, Over, Ending
    <2>7. Made(s)'
      BY <1>1, <2>2, <2>5, <2>6 DEF Made, TrueRecs
    <2>8. SuiteOk(s)'
      BY <1>1, <2>1, <2>2, <2>3, <2>5, RunnerAssumption
         DEF SuiteOk, Tallied, Early, Begun, Writing
    <2>9. QED
      <3>1. pc[s] \notin Unmade /\ pc'[s] \notin Writing \cup {"idle"}
        BY <2>1 DEF Unmade, Writing
      <3>2. QED
        BY <1>1, <2>1, <2>6, <2>7, <2>8, <3>1, SaveKeeps
  <1>4. QED
    BY <1>2, <1>3

(* The last event of a run that has come to its end, or failed. *)
LEMMA LastEventKeeps ==
    ASSUME Domains, PlacesTyped, NEW r \in Runs, RunOk(r),
           NEW place \in {"endW", "errorW"}, NEW next \in {"cleanup", "releaseR"}, NEW e,
           Publish(r, place, e), Goto(r, next), UNCHANGED <<at, outcome>>,
           \/ r \in Suites /\ place = "endW"
                 /\ e = [Event("run.finished") EXCEPT !.ok = mem[r].summary = "passed"]
           \/ r \in Suites /\ place = "errorW" /\ e = [Event("run.error") EXCEPT !.ok = FALSE]
           \/ r \in Loads /\ e.type = "run.finished" /\ e \in Messages
    PROVE  RunOk(r)'
  <1>1. /\ pc[r] = place /\ pc'[r] = next /\ record'[r] = mem[r]
        /\ UNCHANGED <<callbacks, at, outcome>>
    BY DEF Publish, Save, At, Goto, Domains, PlacesTyped
  <1>2. Settles(r) /\ Over(r) /\ Over(r)' /\ mem[r] \in TrueRecs(r)
    BY <1>1 DEF Settles, Over, Ending, RunOk, RecordOk, Writing
  <1>3. Suites \cap Loads = {}
    BY RunnerAssumption
  <1>4. e \in TrueFrames(r)'
    <2>1. CASE r \in Loads
      BY <1>3, <2>1 DEF TrueFrames
    <2>2. CASE r \in Suites /\ place = "errorW"
      <3>1. e = [type |-> "run.error", n |-> 0, ok |-> FALSE, run |-> None]
        BY <1>3, <2>2 DEF Event
      <3>2. QED
        BY <3>1 DEF TrueFrames, Messages
    <2>3. CASE r \in Suites /\ place = "endW"
      <3>1. PICK ok \in BOOLEAN : ok = (mem[r].summary = "passed")
        OBVIOUS
      <3>2. e = [type |-> "run.finished", n |-> 0, ok |-> ok, run |-> None]
        BY <1>3, <2>3, <3>1 DEF Event
      <3>3. mem[r].status = "finished"
        BY <1>1, <2>3 DEF RunOk, SuiteOk, Writing
      <3>4. Told(r, ok)
        BY <1>2, <2>3, <3>1, <3>3 DEF TrueRecs, Told
      <3>5. Told(r, ok)'
        BY <1>1, <3>4 DEF Told
      <3>6. QED
        BY <1>2, <3>2, <3>5 DEF TrueFrames, Messages, Told
    <2>4. QED
      BY <2>1, <2>2, <2>3 DEF Runs
  <1>5. ASSUME r \in Suites PROVE SuiteOk(r)'
    BY <1>1, <1>5 DEF RunOk, SuiteOk, Early, Begun, Writing
  <1>6. ASSUME r \in Loads PROVE LoadOk(r)'
    BY <1>1, <1>2, <1>6 DEF RunOk, LoadOk
  <1>7. QED
    BY <1>1, <1>2, <1>4, <1>5, <1>6, PublishKeeps DEF Writing

(* Steps of an executor, or of others for it, that save no record. *)
LEMMA QuietKeeps ==
    ASSUME NEW r \in Runs, RunOk(r), Settles(r), ~Over(r)' => ~Over(r),
           UNCHANGED <<record, mem, callbacks, net>>, r \in Loads => outcome' = outcome,
           \/ tab'[r] = tab[r] /\ tab[r] # "idle"
           \/ tab'[r] \in {"connecting", "error"},
           conn'[r] = conn[r] \/ Made(r)',
           pc'[r] \notin Unmade => Made(r)', pc'[r] \notin Writing,
           r \in Suites => SuiteOk(r)', r \in Loads => pc'[r] # "finalR"
    PROVE  RunOk(r)'
  <1>1. Made(r) => Made(r)'
    BY TruthStays DEF Made
  <1>2. BrowserOk(r)'
    BY <1>1, BrowserKept DEF RunOk
  <1>3. CallsOk(r)'
    BY <1>1, CallsKept DEF RunOk
  <1>4. ASSUME r \in Loads PROVE LoadOk(r)'
    BY <1>4 DEF RunOk, LoadOk, Writing
  <1>5. QED
    BY <1>2, <1>3, <1>4 DEF RunOk, RecordOk

LEMMA StartsKeep ==
    ASSUME Domains, PlacesTyped, PipeInv, NEW r \in Runs, RunOk(r),
           Click(r) \/ (r \in Loads /\ (Gate(r) \/ Acquire(r)))
    PROVE  RunOk(r)'
  <1>1. /\ UNCHANGED <<record, mem, at, outcome, callbacks, net, conn>>
        /\ pc[r] \in {"idle", "gate", "gate2", "acquire"}
        /\ pc'[r] \in {"gate", "gate2", "acquire", "create", "ended"}
        /\ pc'[r] = "ended" => r \in Loads
        /\ \/ tab'[r] = tab[r] /\ pc[r] # "idle"
           \/ tab'[r] \in {"connecting", "error"}
    <2>1. CASE Click(r)
      BY <2>1 DEF Click, Goto, store, Domains, PlacesTyped, RunOk, BrowserOk
    <2>2. CASE r \in Loads /\ Gate(r)
      BY <2>2 DEF Gate, At, Then, Goto, Refused, store, browser, Domains, PlacesTyped
    <2>3. CASE r \in Loads /\ Acquire(r)
      BY <2>3 DEF Acquire, At, Then, Goto, Refused, browser, Domains, PlacesTyped
    <2>4. QED
      BY <2>1, <2>2, <2>3
  <1>2. ~Over(r) /\ Settles(r)
    BY <1>1 DEF Over, Ending, Settles
  <1>3. ASSUME r \in Suites PROVE SuiteOk(r)'
    <2>1. r \notin Loads
      BY <1>3, RunnerAssumption
    <2>2. QED
      BY <1>1, <1>3, <2>1 DEF RunOk, SuiteOk, Early, Begun, Writing
  <1>4. pc[r] # "idle" => tab[r] # "idle"
    BY DEF RunOk, BrowserOk
  <1>5. QED
    BY <1>1, <1>2, <1>3, <1>4, QuietKeeps DEF Unmade, Writing

LEMMA CreateKeeps ==
    ASSUME Domains, PlacesTyped, NEW r \in Runs, RunOk(r), Create(r)
    PROVE  RunOk(r)'
  <1>1. /\ UNCHANGED <<mem, at, outcome, callbacks, net, tab>>
        /\ pc[r] = "create" /\ pc'[r] \in {"begin", "sadd"} /\ record'[r] = Queued
    BY DEF Create, Save, At, Then, Goto, Accepted, browser, Domains, PlacesTyped
  <1>2. ~Over(r) /\ ~Over(r)' /\ Settles(r) /\ tab[r] # "idle"
    BY <1>1 DEF Over, Ending, Settles, RunOk, BrowserOk
  <1>3. Queued \in Recs
    BY DEF Queued, Recs
  <1>4. Made(r)'
    BY <1>1, <1>3 DEF Made, TrueRecs, Queued
  <1>5. BrowserOk(r)'
    BY <1>1, <1>2, <1>4, BrowserKept DEF RunOk
  <1>6. CallsOk(r)'
    BY <1>1, <1>2, <1>4, CallsKept DEF RunOk
  <1>7. ASSUME r \in Suites PROVE SuiteOk(r)'
    <2>1. at[r] = <<1, 1>> /\ outcome[r] = <<>> /\ record'[r].scenarios = <<>>
      BY <1>1, <1>7 DEF RunOk, SuiteOk, Begun, Queued
    <2>2. Tallied(r)'
      BY <1>1, <2>1 DEF Tallied
    <2>3. QED
      BY <1>1, <1>7, <2>1, <2>2 DEF RunOk, SuiteOk, Early, Begun, Writing
  <1>8. ASSUME r \in Loads PROVE LoadOk(r)'
    BY <1>1, <1>2, <1>8 DEF RunOk, LoadOk
  <1>9. QED
    BY <1>1, <1>4, <1>5, <1>6, <1>7, <1>8 DEF RunOk, RecordOk, Writing

LEMMA MarksKeep ==
    ASSUME Domains, PlacesTyped, NEW s \in Suites, RunOk(s),
           MarkSuiteActive(s) \/ MarkSuiteInactive(s) \/ CleanUp(s) \/ WorkFails(s)
    PROVE  RunOk(s)'
  <1>1. s \in Runs /\ s \notin Loads
    BY RunnerAssumption DEF Runs
  <1>2. /\ UNCHANGED <<record, mem, at, outcome, callbacks, net, tab>>
        /\ <<pc[s], pc'[s]>> \in {<<"sadd", "expire">>, <<"expire", "begin">>, <<"srem", "ended">>,
                                  <<"cleanup", "srem">>, <<"working", "catchR">>}
        /\ conn' = conn \/ pc[s] = "expire"
    <2>1. CASE MarkSuiteActive(s)
      BY <1>1, <2>1 DEF MarkSuiteActive, At, Then, Goto, Accepted, browser, Domains, PlacesTyped
    <2>2. CASE MarkSuiteInactive(s) \/ CleanUp(s) \/ WorkFails(s)
      BY <1>1, <2>2 DEF MarkSuiteInactive, CleanUp, WorkFails, At, Goto, store, browser, PlacesTyped
    <2>3. QED
      BY <2>1, <2>2
  <1>3. Settles(s) /\ (~Over(s)' => ~Over(s)) /\ tab[s] # "idle"
    BY <1>2 DEF Settles, Over, Ending, RunOk, BrowserOk
  <1>4. Made(s)'
    BY <1>1, <1>2, <1>3, TruthStays DEF Made, RunOk, RecordOk, Unmade
  <1>5. SuiteOk(s)'
    BY <1>2 DEF RunOk, SuiteOk, Tallied, Early, Begun, Writing
  <1>6. QED
    <2>1. conn'[s] = conn[s] \/ Made(s)'
      BY <1>4
    <2>2. pc'[s] \notin Writing
      BY <1>2 DEF Writing
    <2>3. QED
      BY <1>1, <1>2, <1>3, <1>4, <1>5, <2>1, <2>2, QuietKeeps

LEMMA WorkKeeps ==
    ASSUME Domains, PlacesTyped, NEW s \in Suites, RunOk(s), Work(s)
    PROVE  RunOk(s)'
  <1>1. s \in Runs /\ s \notin Loads /\ Scenarios[s] \in Nat
    BY RunnerAssumption DEF Runs
  <1>2. /\ UNCHANGED <<record, mem, at, callbacks, net, tab, conn>>
        /\ pc[s] = "working" /\ pc'[s] \in {"eventR", "finalR"}
    BY <1>1 DEF Work, Goto, store, browser, PlacesTyped
  <1>3. ~Over(s) /\ Settles(s) /\ tab[s] # "idle" /\ Made(s) /\ SuiteOk(s) /\ Tallied(s)
    BY <1>1, <1>2 DEF Over, Ending, Settles, RunOk, BrowserOk, RecordOk, SuiteOk, Unmade
  <1>4. SuiteOk(s)'
    <2>1. CASE at[s][1] <= Scenarios[s]
      <3>1. PICK n \in 1 .. Scenarios[s] + 1, k \in 1 .. 4 : at[s] = <<n, k>>
        BY <1>3 DEF SuiteOk
      <3>2. ~(at[s][1] > Scenarios[s])
        BY <1>1, <2>1, <3>1
      <3>3. pc'[s] = "eventR"
        BY <1>1, <3>2 DEF Work, Goto, PlacesTyped
      <3>4. PICK ok \in BOOLEAN :
               outcome'[s] = IF LastEvent(s) THEN Append(outcome[s], ok) ELSE outcome[s]
        BY <1>1, <3>2 DEF Work, Domains
      <3>5. outcome[s] \in Seq(BOOLEAN) /\ Append(outcome[s], ok) \in Seq(BOOLEAN)
        BY <1>3 DEF SuiteOk
      <3>6. outcome'[s] \in Seq(BOOLEAN)
        BY <3>4, <3>5, Zenon
      <3>7. LastEvent(s)' = LastEvent(s)
        BY <1>2 DEF LastEvent
      <3>8. IF LastEvent(s)' THEN Pushing(s)' ELSE Tallied(s)'
        BY <1>2, <1>3, <3>4, <3>7 DEF Pushing, Tallied
      <3>9. QED
        BY <1>2, <1>3, <2>1, <3>3, <3>6, <3>8 DEF SuiteOk, Early, Begun, Writing
    <2>2. CASE ~(at[s][1] <= Scenarios[s])
      <3>1. pc'[s] = "finalR" /\ outcome' = outcome
        BY <1>1, <2>2 DEF Work, Goto, PlacesTyped
      <3>2. PICK n \in 1 .. Scenarios[s] + 1, k \in 1 .. 4 : at[s] = <<n, k>>
        BY <1>3 DEF SuiteOk
      <3>3. n = Scenarios[s] + 1 /\ Len(outcome[s]) = n - 1
        BY <1>1, <1>3, <2>2, <3>2 DEF Tallied
      <3>4. record[s].scenarios = outcome[s] /\ Len(outcome[s]) = Scenarios[s]
        BY <1>1, <1>3, <3>3 DEF Tallied
      <3>5. QED
        BY <1>2, <1>3, <3>1, <3>4 DEF SuiteOk, Early, Begun, Writing
    <2>3. QED
      BY <2>1, <2>2
  <1>5. Made(s)' /\ pc'[s] \notin Writing
    BY <1>2, <1>3, TruthStays, <1>1 DEF Made, Writing
  <1>6. QED
    BY <1>1, <1>2, <1>3, <1>4, <1>5, QuietKeeps DEF RunOk

(* A scenario that has failed by the loss of an event is reported next.    *)
LEMMA StepEventFailureKeeps ==
    ASSUME Domains, PlacesTyped, NEW s \in Runs, RunOk(s), StepEventFails(s)
    PROVE  RunOk(s)'
  <1>1. s \in Suites /\ s \notin Loads /\ Scenarios[s] \in Nat
    BY StepIsOfSuite, RunnerAssumption DEF StepEventFails
  <1>2. /\ UNCHANGED <<record, mem, callbacks, net, tab, conn>>
        /\ pc[s] \in {"eventR", "eventW"} /\ pc'[s] = "eventR"
        /\ at[s][2] \in {2, 3}
        /\ outcome'[s] = Append(outcome[s], FALSE)
        /\ at' = [at EXCEPT ![s][2] = Len(ScenarioEvents)]
    BY DEF StepEventFails, InStep, Then, Goto, store, browser, Domains, PlacesTyped
  <1>3. ~Over(s) /\ ~Over(s)' /\ Settles(s) /\ tab[s] # "idle" /\ Made(s) /\ SuiteOk(s)
    BY <1>1, <1>2 DEF Over, Ending, Settles, RunOk, BrowserOk, RecordOk, Unmade
  <1>4. PICK n \in 1 .. Scenarios[s] + 1, k \in 1 .. 4 : at[s] = <<n, k>>
    BY <1>3 DEF SuiteOk
  <1>5. Len(ScenarioEvents) = 4
    BY DEF ScenarioEvents
  <1>6. at'[s] = <<n, 4>>
    BY <1>2, <1>4, <1>5 DEF Domains
  <1>7. Tallied(s) /\ at[s][1] <= Scenarios[s]
    BY <1>2, <1>3, <1>4, <1>5 DEF SuiteOk, LastEvent
  <1>8. Pushing(s)' /\ LastEvent(s)'
    <2>1. LastEvent(s)'
      BY <1>5, <1>6 DEF LastEvent, ScenarioEvents
    <2>2. outcome'[s] = Append(record'[s].scenarios, FALSE)
      BY <1>2, <1>7 DEF Tallied
    <2>3. Len(record'[s].scenarios) = at'[s][1] - 1
      BY <1>2, <1>4, <1>6, <1>7 DEF Tallied
    <2>4. QED
      BY <2>1, <2>2, <2>3 DEF Pushing
  <1>9. outcome'[s] \in Seq(BOOLEAN)
    BY <1>2, <1>3 DEF SuiteOk
  <1>10. SuiteOk(s)'
    BY <1>2, <1>4, <1>6, <1>7, <1>8, <1>9 DEF SuiteOk, Early, Begun, Writing
  <1>11. Made(s)' /\ pc'[s] \notin Writing
    BY <1>1, <1>2, <1>3, TruthStays DEF Made, Writing
  <1>12. QED
    BY <1>1, <1>2, <1>3, <1>10, <1>11, QuietKeeps

LEMMA ReleaseKeeps ==
    ASSUME Domains, PlacesTyped, NEW l \in Loads, RunOk(l), Release(l)
    PROVE  RunOk(l)'
  <1>1. l \in Runs /\ l \notin Suites
    BY RunnerAssumption DEF Runs
  <1>2. /\ UNCHANGED <<record, mem, at, outcome, callbacks, net, tab, conn>>
        /\ pc[l] \in {"releaseR", "releaseD"} /\ pc'[l] \in {"releaseD", "ended"}
    BY <1>1 DEF Release, At, Then, Goto, browser, PlacesTyped
  <1>3. Settles(l) /\ Over(l)' /\ tab[l] # "idle" /\ Made(l)
    BY <1>2 DEF Over, Ending, Settles, RunOk, BrowserOk, RecordOk, Unmade
  <1>4. Made(l)' /\ pc'[l] \notin Writing
    BY <1>1, <1>2, <1>3, TruthStays DEF Made, Writing
  <1>5. QED
    BY <1>1, <1>2, <1>3, <1>4, QuietKeeps

LEMMA FailureKeeps ==
    ASSUME Domains, PlacesTyped, PipeInv, NEW r \in Runs, RunOk(r), CommandFails(r)
    PROVE  RunOk(r)'
  <1>1. UNCHANGED <<record, mem, at, outcome, callbacks, net>>
    BY DEF CommandFails, Refused, store, browser
  <1>2. pc[r] \notin Aside /\ pc[r] \in Places(r)
    BY TurnTaken DEF CommandFails, PlacesTyped
  <1>3. /\ pc'[r] \in {"dead", "cleanup", "releaseR", "catchR"}
        /\ pc'[r] # "dead" => pc[r] \notin Unmade
    <2>1. CASE pc[r] \in Starting \cup {"begin", "running", "startedR", "startedW", "srem",
                                        "releaseR", "releaseD"}
      <3>1. pc[r] \notin {"catchR", "catchW", "errorR", "errorW"}
        BY <2>1 DEF Starting
      <3>2. pc'[r] = "dead"
        BY <2>1, <3>1 DEF CommandFails, Goto, PlacesTyped
      <3>3. QED
        BY <3>2
    <2>2. CASE pc[r] \in {"catchR", "catchW", "errorR", "errorW"}
      <3>1. pc[r] \notin Starting \cup {"begin", "running", "startedR", "startedW", "srem",
                                        "releaseR", "releaseD"}
        BY <2>2 DEF Starting
      <3>2. pc'[r] \in {"cleanup", "releaseR"}
        BY <2>2, <3>1 DEF CommandFails, Goto, PlacesTyped
      <3>3. QED
        BY <2>2, <3>2 DEF Unmade
    <2>3. CASE /\ pc[r] \notin Starting \cup {"begin", "running", "startedR", "startedW", "srem",
                                              "releaseR", "releaseD"}
               /\ pc[r] \notin {"catchR", "catchW", "errorR", "errorW"}
      <3>1. pc'[r] = "catchR"
        BY <2>3 DEF CommandFails, Goto, PlacesTyped
      <3>2. pc[r] \notin Unmade
        BY <1>2, <2>3 DEF Unmade, Starting, Aside, Idle
      <3>3. QED
        BY <3>1, <3>2
    <2>4. QED
      BY <2>1, <2>2, <2>3
  <1>4. Settles(r) /\ Over(r)' /\ tab[r] # "idle"
    BY <1>1, <1>2, <1>3 DEF Over, Ending, Settles, RunOk, BrowserOk, Aside, Idle
  <1>5. tab'[r] = tab[r] \/ tab'[r] = "error"
    BY DEF CommandFails, Refused, browser, Domains
  <1>6. pc'[r] \notin Unmade => Made(r)'
    <2>1. ASSUME pc'[r] # "dead" PROVE Made(r)'
      <3>1. record[r] \in TrueRecs(r)'
        BY <1>3, <1>4, <2>1, TruthStays DEF RunOk, RecordOk, Made
      <3>2. QED
        BY <1>1, <3>1 DEF Made
    <2>2. QED
      BY <2>1 DEF Unmade
  <1>7. ASSUME r \in Suites PROVE SuiteOk(r)'
    <2>1. SuiteOk(r) /\ pc'[r] \in {"dead", "cleanup", "releaseR", "catchR"}
      BY <1>3, <1>7 DEF RunOk
    <2>2. QED
      BY <1>1, <2>1 DEF SuiteOk, Early, Begun, Writing
  <1>8. conn'[r] = conn[r]
    BY DEF CommandFails, Refused, browser
  <1>9. QED
    BY <1>1, <1>3, <1>4, <1>5, <1>6, <1>7, <1>8, QuietKeeps DEF Writing

-----------------------------------------------------------------------------
(* Callbacks of a load run: a late one writes back what it has read. *)
LEMMA CallAdded ==
    ASSUME Domains, NEW l \in Loads, l \in Runs, CallsOk(l), Settles(l), Made(l)',
           NEW type \in {"load.progress", "load.finished", "load.error"}, NEW ok \in BOOLEAN,
           type = "load.finished" => Came(l)', AddCallback(l, type, ok)
    PROVE  CallsOk(l)' /\ callbacks'[l] # <<>>
  <1>1. PICK c : c = [type |-> type, ok |-> ok, place |-> "progressR", mem |-> None]
    OBVIOUS
  <1>2. callbacks'[l] = Append(callbacks[l], c)
    BY <1>1 DEF AddCallback, Domains
  <1>3. PICK S : S = TrueCalls(l)'
    OBVIOUS
  <1>4. c \in S
    BY <1>1, <1>3 DEF TrueCalls, Calls
  <1>5. callbacks[l] \in Seq(S)
    BY <1>3, TruthStays DEF CallsOk
  <1>6. Append(callbacks[l], c) \in Seq(S) /\ Append(callbacks[l], c) # <<>>
    BY <1>4, <1>5
  <1>7. QED
    BY <1>2, <1>3, <1>6 DEF CallsOk

LEMMA ExecutorEndKeeps ==
    ASSUME Domains, PlacesTyped, NEW l \in Loads, RunOk(l), ExecutorEnds(l)
    PROVE  RunOk(l)'
  <1>1. l \in Runs /\ l \notin Suites
    BY RunnerAssumption DEF Runs
  <1>2. PICK end \in {"passed", "failed", "error"} :
           /\ outcome' = [outcome EXCEPT ![l] = <<end>>]
           /\ AddCallback(l, IF end = "error" THEN "load.error" ELSE "load.finished", end = "passed")
    BY DEF ExecutorEnds
  <1>3. /\ pc[l] = "working" /\ pc'[l] = "finalR" /\ outcome'[l] = <<end>>
        /\ UNCHANGED <<record, mem, at, tab, conn, net>>
    BY <1>1, <1>2 DEF ExecutorEnds, Goto, store, browser, Domains, PlacesTyped
  <1>4. Settles(l) /\ Over(l)' /\ tab[l] # "idle" /\ Made(l)
    BY <1>3 DEF Over, Ending, Settles, RunOk, BrowserOk, RecordOk, Unmade
  <1>5. Made(l)'
    BY <1>1, <1>3, <1>4, TruthStays DEF Made
  <1>6. end # "error" => Came(l)'
    <2>1. end # "error" => <<end>> # <<"error">>
      OBVIOUS
    <2>2. QED
      BY <1>3, <1>4, <2>1 DEF Came
  <1>7. CallsOk(l)' /\ callbacks'[l] # <<>>
    <2>1. (end = "passed") \in BOOLEAN
      OBVIOUS
    <2>2. CASE end = "error"
      BY <1>1, <1>2, <1>4, <1>5, <2>1, <2>2, CallAdded DEF RunOk
    <2>3. CASE end # "error"
      BY <1>1, <1>2, <1>4, <1>5, <1>6, <2>1, <2>3, CallAdded DEF RunOk
    <2>4. QED
      BY <2>2, <2>3
  <1>8. BrowserOk(l)'
    BY <1>1, <1>3, <1>4, <1>5, BrowserKept DEF RunOk
  <1>9. LoadOk(l)'
    BY <1>3, <1>4, <1>7 DEF LoadOk, Ends
  <1>10. QED
    BY <1>1, <1>3, <1>5, <1>7, <1>8, <1>9 DEF RunOk, RecordOk, Writing

LEMMA ProgressKeeps ==
    ASSUME Domains, PlacesTyped, NEW l \in Loads, RunOk(l), Progress(l)
    PROVE  RunOk(l)'
  <1>1. l \in Runs /\ l \notin Suites
    BY RunnerAssumption DEF Runs
  <1>2. /\ AddCallback(l, "load.progress", TRUE)
        /\ UNCHANGED <<pc, record, mem, at, outcome, tab, conn, net>>
    BY DEF Progress, store, browser
  <1>3. Made(l)
    BY DEF Progress, RunOk, RecordOk, LoadOk, CallsOk, Unmade
  <1>4. Over(l)' = Over(l) /\ Settles(l)
    BY <1>2 DEF Over, Settles
  <1>5. Made(l)'
    BY <1>1, <1>2, <1>3, <1>4, TruthStays DEF Made
  <1>6. CallsOk(l)' /\ callbacks'[l] # <<>>
    BY <1>1, <1>2, <1>4, <1>5, CallAdded DEF RunOk
  <1>7. BrowserOk(l)'
    BY <1>1, <1>2, <1>4, <1>5, BrowserKept DEF RunOk, BrowserOk
  <1>8. RecordOk(l)'
    BY <1>1, <1>2, <1>4, <1>5, TruthStays DEF RunOk, RecordOk
  <1>9. LoadOk(l)'
    BY <1>2, <1>4, <1>6 DEF RunOk, LoadOk
  <1>10. QED
    BY <1>1, <1>6, <1>7, <1>8, <1>9 DEF RunOk

LEMMA OnProgressKeeps ==
    ASSUME Domains, PlacesTyped, NEW l \in Loads, RunOk(l), NEW n, OnProgress(l, n)
    PROVE  RunOk(l)'
  <1>1. l \in Runs /\ l \notin Suites
    BY RunnerAssumption DEF Runs
  <1> DEFINE c == callbacks[l][n]
  <1>2. /\ n \in DOMAIN callbacks[l]
        /\ c.place \in {"progressR", "progressW", "appendR", "appendW"}
        /\ UNCHANGED <<pc, mem, at, outcome, tab, conn>>
    BY DEF OnProgress, CallbackAt
  <1>3. Over(l)' = Over(l) /\ Came(l)' = Came(l) /\ Settles(l) /\ TrueRecs(l)' = TrueRecs(l)
    BY <1>2 DEF Over, Settles, Came, TrueRecs, Told
  <1>4. TrueCalls(l)' = TrueCalls(l) /\ callbacks[l] \in Seq(TrueCalls(l)) /\ c \in TrueCalls(l)
    BY <1>2, <1>3 DEF TrueCalls, RunOk, CallsOk
  <1>5. Made(l) /\ c \in Calls
    BY <1>2, <1>4 DEF RunOk, CallsOk, TrueCalls
  <1>6. PICK place \in {"progressW", "appendR", "appendW", "over"}, m \in Recs \cup {None} :
           /\ callbacks' = [callbacks EXCEPT ![l][n].place = place, ![l][n].mem = m]
           /\ place \in {"progressW", "appendW"} => m \in TrueRecs(l)
           /\ record'[l] = record[l] \/ record'[l] \in TrueRecs(l)
           /\ net' = net \/ Emit(l, [Event(c.type) EXCEPT !.ok = c.ok])
    <2>1. record[l] \in Recs
      BY <1>5 DEF Made, TrueRecs
    <2>2. CASE c.place = "progressR"
      BY <1>5, <2>1, <2>2 DEF OnProgress, CallbackAt, Made
    <2>3. CASE c.place = "appendR"
      BY <1>5, <2>1, <2>3 DEF OnProgress, CallbackAt, Made
    <2>4. CASE c.place = "progressW"
      <3>1. c.mem \in TrueRecs(l) /\ c.mem \in Recs
        BY <1>4, <2>4 DEF TrueCalls, TrueRecs
      <3>2. Reported(c) \in TrueRecs(l)
        BY <1>1, <1>5, <3>1 DEF Reported, TrueRecs, Recs, Verdict, Calls
      <3>3. /\ callbacks' = [callbacks EXCEPT ![l][n].place = "appendR", ![l][n].mem = None]
            /\ record' = [record EXCEPT ![l] = Reported(c)] /\ net' = net
        BY <2>4 DEF OnProgress, CallbackAt, Save
      <3>4. record'[l] \in TrueRecs(l)
        BY <1>1, <3>2, <3>3 DEF Domains
      <3>5. QED
        BY <3>3, <3>4
    <2>5. CASE c.place = "appendW"
      <3>1. c.mem \in TrueRecs(l)
        BY <1>4, <2>5 DEF TrueCalls
      <3>2. /\ callbacks' = [callbacks EXCEPT ![l][n].place = "over", ![l][n].mem = None]
            /\ record' = [record EXCEPT ![l] = c.mem]
            /\ Emit(l, [Event(c.type) EXCEPT !.ok = c.ok])
        BY <2>5 DEF OnProgress, CallbackAt, Save
      <3>3. record'[l] \in TrueRecs(l)
        BY <1>1, <3>1, <3>2 DEF Domains
      <3>4. QED
        BY <3>2, <3>3
    <2>6. QED
      BY <1>2, <2>2, <2>3, <2>4, <2>5
  <1>7. Made(l)'
    BY <1>3, <1>5, <1>6 DEF Made
  <1>8. CallsOk(l)'
    <2>1. callbacks'[l] = [callbacks[l] EXCEPT ![n] = [c EXCEPT !.place = place, !.mem = m]]
      BY <1>1, <1>2, <1>6 DEF Domains
    <2>2. [c EXCEPT !.place = place, !.mem = m] \in TrueCalls(l)
      BY <1>4, <1>5, <1>6 DEF TrueCalls, Calls
    <2>3. n \in 1 .. Len(callbacks[l])
      BY <1>2, <1>4
    <2>4. callbacks'[l] \in Seq(TrueCalls(l))
      BY <1>4, <2>1, <2>2, <2>3, ExceptSeq
    <2>5. QED
      BY <1>4, <1>7, <2>4 DEF CallsOk
  <1>9. [Event(c.type) EXCEPT !.ok = c.ok] \in TrueFrames(l)'
    <2>1. PICK type \in {"load.progress", "load.finished", "load.error"}, ok \in BOOLEAN :
             type = c.type /\ ok = c.ok
      BY <1>5 DEF Calls
    <2>2. [Event(type) EXCEPT !.ok = ok] = [type |-> type, n |-> 0, ok |-> ok, run |-> None]
      BY DEF Event
    <2>3. [Event(type) EXCEPT !.ok = ok] \in Messages
      BY <2>2 DEF Messages
    <2>4. type = "load.finished" => Came(l)'
      BY <1>3, <1>4, <2>1 DEF TrueCalls
    <2>5. QED
      BY <2>1, <2>2, <2>3, <2>4 DEF TrueFrames
  <1>10. BrowserOk(l)'
    <2>1. net'[l] = net[l] \/ net'[l] \in Seq(TrueFrames(l)')
      BY <1>1, <1>3, <1>6, <1>9, EmitTrue DEF RunOk
    <2>2. QED
      BY <1>1, <1>2, <1>3, <1>7, <2>1, BrowserKept DEF RunOk, BrowserOk
  <1>11. RecordOk(l)' /\ LoadOk(l)'
    <2>1. callbacks'[l] # <<>>
      BY <1>1, <1>2, <1>4, <1>6 DEF Domains
    <2>2. QED
      BY <1>2, <1>3, <1>7, <2>1 DEF RunOk, RecordOk, LoadOk
  <1>12. QED
    BY <1>1, <1>8, <1>10, <1>11 DEF RunOk

-----------------------------------------------------------------------------
(* Streams and tabs: what a tab shows comes from a true frame. *)
EngineStill == UNCHANGED <<pc, record, mem, at, outcome, callbacks>>

LEMMA TabKeeps ==
    ASSUME NEW r \in Runs, RunOk(r), EngineStill, tab'[r] = "idle" => tab[r] = "idle",
           ViewTrue(r, tab'[r]), conn'[r] \notin {"none", "closed"} => Made(r), net'[r] \in Seq(TrueFrames(r))
    PROVE  RunOk(r)'
  <1>1. /\ Over(r)' = Over(r) /\ Came(r)' = Came(r) /\ Made(r)' = Made(r)
        /\ Told(r, TRUE)' = Told(r, TRUE) /\ Told(r, FALSE)' = Told(r, FALSE)
        /\ TrueRecs(r)' = TrueRecs(r)
    BY DEF EngineStill, Over, Came, Told, TrueRecs, Made
  <1>2. TrueCalls(r)' = TrueCalls(r) /\ TrueFrames(r)' = TrueFrames(r)
    BY <1>1 DEF EngineStill, TrueCalls, TrueFrames, Told
  <1>3. ViewTrue(r, tab[r])'
    BY <1>1 DEF ViewTrue
  <1>4. BrowserOk(r)'
    BY <1>1, <1>2, <1>3 DEF EngineStill, RunOk, BrowserOk
  <1>5. RecordOk(r)' /\ CallsOk(r)'
    BY <1>1, <1>2 DEF EngineStill, RunOk, RecordOk, CallsOk
  <1>6. ASSUME r \in Suites PROVE SuiteOk(r)'
    BY <1>6 DEF EngineStill, RunOk, SuiteOk, Tallied, Pushing, LastEvent
  <1>7. ASSUME r \in Loads PROVE LoadOk(r)'
    BY <1>1, <1>7 DEF EngineStill, RunOk, LoadOk
  <1>8. QED
    BY <1>4, <1>5, <1>6, <1>7 DEF RunOk

LEMMA StreamKeeps ==
    ASSUME Domains, NEW r \in Runs, RunOk(r), StreamStep(r)
    PROVE  RunOk(r)'
  <1>1. EngineStill /\ tab' = tab /\ ViewTrue(r, tab'[r])
    BY DEF StreamStep, OpenStream, StreamRun, Drop, EngineStill, engine, store, RunOk, BrowserOk
  <1>2. net[r] \in Seq(TrueFrames(r)) /\ (conn[r] \notin {"none", "closed"} => Made(r))
    BY DEF RunOk, BrowserOk
  <1>3. conn'[r] \notin {"none", "closed"} => Made(r)
    BY <1>2 DEF StreamStep, OpenStream, StreamRun, Drop, Domains
  <1>4. net'[r] \in Seq(TrueFrames(r))
    <2>1. CASE OpenStream(r)
      BY <1>2, <2>1 DEF OpenStream
    <2>2. CASE Drop(r)
      BY <2>2 DEF Drop, Domains
    <2>3. CASE StreamRun(r) /\ conn[r] # "found"
      BY <1>2, <2>3 DEF StreamRun
    <2>4. CASE StreamRun(r) /\ conn[r] = "found"
      <3>1. PICK e : e = [Event("run.snapshot") EXCEPT !.run = record[r]]
        OBVIOUS
      <3>2. record[r] \in TrueRecs(r) /\ record[r] \in Recs
        BY <1>2, <2>4 DEF Made, TrueRecs
      <3>3. e = [type |-> "run.snapshot", n |-> 0, ok |-> TRUE, run |-> record[r]]
        BY <3>1 DEF Event
      <3>4. e \in TrueFrames(r)
        BY <3>2, <3>3 DEF TrueFrames, Messages
      <3>5. Event("open") \in TrueFrames(r) /\ Event("end") \in TrueFrames(r)
        BY DEF Event, TrueFrames, Messages
      <3>6. net'[r] = <<Event("open"), e>>
                          \o IF record[r].status \in Terminal THEN <<Event("end")>> ELSE <<>>
        BY <2>4, <3>1 DEF StreamRun, Domains
      <3>7. QED
        BY <3>4, <3>5, <3>6
    <2>5. QED
      BY <2>1, <2>2, <2>3, <2>4 DEF StreamStep
  <1>5. QED
    BY <1>1, <1>3, <1>4, TabKeeps

(* What the tab makes of a snapshot is true if the record is. *)
LEMMA SnapshotTrue ==
    ASSUME NEW r \in Runs, NEW run \in TrueRecs(r)
    PROVE  ViewTrue(r, SnapshotStatus(r, run)) /\ SnapshotStatus(r, run) # "idle"
  <1>1. run \in Recs /\ Suites \cap Loads = {} /\ r \in Suites \cup Loads
    BY RunnerAssumption DEF TrueRecs, Runs
  <1>2. CASE r \in Suites
    <2>1. r \notin Loads
      BY <1>1, <1>2
    <2>2. run.status = "failed" => run.error
      BY <1>2 DEF TrueRecs
    <2>3. run.status = "finished" =>
             /\ Over(r) /\ run.summary \in {"passed", "failed"}
             /\ Told(r, run.summary = "passed")
      BY <1>2 DEF TrueRecs
    <2>4. SnapshotStatus(r, run) \in {"error", "running", "failed", "passed"}
      BY <2>1 DEF SnapshotStatus
    <2>5. SnapshotStatus(r, run) \in {"failed", "passed"} =>
             /\ run.status = "finished"
             /\ SnapshotStatus(r, run) = run.summary
      BY <1>1, <2>1, <2>2, <2>3 DEF SnapshotStatus, Terminal, Recs
    <2>6. QED
      BY <1>2, <2>3, <2>4, <2>5 DEF ViewTrue, Told
  <1>3. CASE r \in Loads
    <2>1. SnapshotStatus(r, run) \in {"error", "running", "finished"}
      BY <1>3 DEF SnapshotStatus
    <2>2. SnapshotStatus(r, run) = "finished" => run.status = "finished"
      BY <1>1, <1>3 DEF SnapshotStatus, Terminal, Recs
    <2>3. QED
      BY <1>3, <2>1, <2>2 DEF TrueRecs, ViewTrue
  <1>4. QED
    BY <1>1, <1>2, <1>3

LEMMA TabStepKeeps ==
    ASSUME Domains, NEW r \in Runs, RunOk(r), TabStep(r)
    PROVE  RunOk(r)'
  <1>1. EngineStill
    BY DEF TabStep, OnOpen, OnSnapshot, OnIgnored, OnError, OnEnd, TimerFires, OnScenarioEvent,
           OnRunFinished, OnLoadProgress, OnLoadFinished, Seen, EngineStill, engine, store
  <1>2. /\ net[r] \in Seq(TrueFrames(r)) /\ (conn[r] \notin {"none", "closed"} => Made(r))
        /\ ViewTrue(r, tab[r])
    BY DEF RunOk, BrowserOk
  <1>3. ASSUME NEW type, Frame(r, type)
        PROVE  /\ Head(net[r]) \in TrueFrames(r) /\ Head(net[r]).type = type
               /\ Tail(net[r]) \in Seq(TrueFrames(r)) /\ conn[r] \notin {"none", "closed"}
    BY <1>2, <1>3 DEF Frame
  <1>4. ASSUME Stay(r), NEW type, Frame(r, type), tab' = tab \/ tab'[r] = "running"
        PROVE  RunOk(r)'
    <2>1. conn' = conn /\ net'[r] = Tail(net[r])
      BY <1>4 DEF Stay, Domains
    <2>2. ViewTrue(r, tab'[r])
      BY <1>2, <1>4 DEF ViewTrue
    <2>3. QED
      BY <1>1, <1>2, <1>3, <1>4, <2>1, <2>2, TabKeeps
  <1>5. ASSUME conn'[r] \notin {"none", "closed"} => conn[r] \notin {"none", "closed"}, net'[r] = <<>>, ViewTrue(r, tab'[r]),
               tab'[r] = "idle" => tab[r] = "idle"
        PROVE  RunOk(r)'
    <2>1. net'[r] \in Seq(TrueFrames(r))
      BY <1>5
    <2>2. QED
      BY <1>1, <1>2, <1>5, <2>1, TabKeeps
  <1>6. ASSUME NEW type, Frame(r, type), Close(r), ViewTrue(r, tab'[r]), tab'[r] # "idle"
        PROVE  RunOk(r)'
    BY <1>3, <1>5, <1>6 DEF Close, Domains
  <1>7. CASE OnOpen(r) \/ OnLoadProgress(r)
    BY <1>4, <1>7 DEF OnOpen, OnLoadProgress, Shows, Domains
  <1>8. CASE OnIgnored(r) \/ OnScenarioEvent(r)
    BY <1>4, <1>8 DEF OnIgnored, OnScenarioEvent
  <1>9. CASE OnSnapshot(r)
    <2> DEFINE run == Head(net[r]).run
    <2>1. run \in TrueRecs(r)
      BY <1>3, <1>9 DEF OnSnapshot, TrueFrames
    <2>2. ViewTrue(r, SnapshotStatus(r, run)) /\ SnapshotStatus(r, run) # "idle"
      BY <2>1, SnapshotTrue
    <2>3. /\ Frame(r, "run.snapshot") /\ tab'[r] = SnapshotStatus(r, run)
          /\ IF SnapshotStatus(r, run) = "running" THEN Stay(r) ELSE Close(r)
      BY <1>9 DEF OnSnapshot, Shows, Domains
    <2>4. QED
      BY <1>4, <1>6, <2>2, <2>3
  <1>10. CASE OnRunFinished(r)
    <2>1. PICK e \in TrueFrames(r) : e = Head(net[r])
      BY <1>3, <1>10 DEF OnRunFinished
    <2>2. /\ r \in Suites /\ e.type = "run.finished" /\ e.ok \in BOOLEAN
          /\ Over(r) /\ Told(r, e.ok)
      BY <1>3, <1>10, <2>1 DEF OnRunFinished, TrueFrames, Messages
    <2>3. tab'[r] = Verdict(e.ok)
      BY <1>10, <2>1 DEF OnRunFinished, Shows, Domains
    <2>4. ViewTrue(r, tab'[r]) /\ tab'[r] # "idle"
      BY <2>2, <2>3 DEF ViewTrue, Verdict, Told
    <2>5. QED
      BY <1>6, <1>10, <2>4 DEF OnRunFinished
  <1>11. CASE OnLoadFinished(r)
    <2>1. r \in Loads /\ Came(r) /\ tab'[r] = "finished"
      BY <1>3, <1>11 DEF OnLoadFinished, TrueFrames, Shows, Domains
    <2>2. ViewTrue(r, tab'[r])
      BY <2>1 DEF ViewTrue
    <2>3. QED
      BY <1>6, <1>11, <2>1, <2>2 DEF OnLoadFinished
  <1>12. CASE OnError(r)
    <2>1. tab'[r] = "error" /\ ViewTrue(r, tab'[r])
      BY <1>12 DEF OnError, Shows, Domains, ViewTrue
    <2>2. QED
      BY <1>6, <1>12, <2>1 DEF OnError
  <1>13. CASE OnEnd(r)
    <2>1. net'[r] = <<>> /\ tab' = tab
      BY <1>13 DEF OnEnd, Domains
    <2>2. QED
      BY <1>2, <1>3, <1>5, <1>13, <2>1 DEF OnEnd
  <1>14. CASE TimerFires(r)
    <2>1. net'[r] = <<>> /\ tab'[r] = "error" /\ ViewTrue(r, tab'[r])
      BY <1>14 DEF TimerFires, Domains, ViewTrue
    <2>2. QED
      BY <1>5, <1>14, <2>1 DEF TimerFires
  <1>15. QED
    BY <1>7, <1>8, <1>9, <1>10, <1>11, <1>12, <1>13, <1>14 DEF TabStep

-----------------------------------------------------------------------------
(* The steps of one run together. *)
LEMMA StepKeeps ==
    ASSUME Domains, PlacesTyped, PipeInv, NEW r \in Runs, RunOk(r),
           MainStep(r) \/ SelfStep(r) \/ CallbackStep(r) \/ StreamStep(r) \/ TabStep(r)
    PROVE  RunOk(r)'
  <1>1. CASE MainStep(r)
    <2>1. CASE Create(r) \/ CommandFails(r) \/ StepEventFails(r)
      BY <2>1, CreateKeeps, FailureKeeps, StepEventFailureKeeps
    <2>2. CASE Begin(r)
      BY <2>2, ReadKeeps, FirstWriteKeeps, FirstEventKeeps DEF Begin, Reads
    <2>3. CASE Catch(r)
      <3>1. ASSUME r \in Suites, Goto(r, "cleanup"), UNCHANGED <<at, outcome>>,
                   Publish(r, "errorW", [Event("run.error") EXCEPT !.ok = FALSE])
            PROVE  RunOk(r)'
        BY <3>1, LastEventKeeps
      <3>2. ASSUME r \in Loads, Goto(r, "releaseR"), UNCHANGED <<at, outcome>>,
                   Publish(r, "errorW", [Event("run.finished") EXCEPT !.ok = FALSE])
            PROVE  RunOk(r)'
        <4>1. PICK e : e = [Event("run.finished") EXCEPT !.ok = FALSE]
          OBVIOUS
        <4>2. e = [type |-> "run.finished", n |-> 0, ok |-> FALSE, run |-> None]
          BY <4>1 DEF Event
        <4>3. e.type = "run.finished" /\ e \in Messages
          BY <4>2 DEF Messages
        <4>4. QED
          BY <3>2, <4>1, <4>3, LastEventKeeps
      <3>3. CASE Read(r, "catchR", "catchW") \/ Read(r, "errorR", "errorW")
        BY <3>3, ReadKeeps DEF Reads
      <3>4. CASE Write(r, "catchW", "errorR", [mem[r] EXCEPT !.status = "failed", !.error = TRUE])
        BY <3>4, CatchWriteKeeps
      <3>5. r \in Loads => r \notin Suites
        BY RunnerAssumption
      <3>6. QED
        BY <2>3, <3>1, <3>2, <3>3, <3>4, <3>5 DEF Catch, Then
    <2>4. CASE r \in Loads /\ (Gate(r) \/ Acquire(r) \/ Release(r))
      BY <2>4, StartsKeep, ReleaseKeeps
    <2>5. CASE r \in Loads /\ FinishLoad(r)
      <3>1. CASE Read(r, "finalR", "finalW") \/ Read(r, "endR", "endW")
        BY <3>1, ReadKeeps DEF Reads
      <3>2. PICK end : end = Last(outcome[r])
        OBVIOUS
      <3>3. ASSUME Write(r, "finalW", "endR",
                         [mem[r] EXCEPT !.status = IF end = "passed" THEN "finished" ELSE "failed",
                                        !.summary = Verdict(end = "passed")])
            PROVE  RunOk(r)'
        BY <2>5, <3>2, <3>3, LoadVerdictKeeps
      <3>4. ASSUME Publish(r, "endW", Event("run.finished")), Goto(r, "releaseR"),
                   UNCHANGED <<at, outcome>>
            PROVE  RunOk(r)'
        <4>1. Event("run.finished").type = "run.finished" /\ Event("run.finished") \in Messages
          BY DEF Event, Messages
        <4>2. QED
          BY <2>5, <3>4, <4>1, LastEventKeeps
      <3>5. QED
        BY <2>5, <3>1, <3>2, <3>3, <3>4 DEF FinishLoad, Then
    <2>6. CASE r \in Suites /\ (MarkSuiteActive(r) \/ PushScenario(r) \/ MarkSuiteInactive(r))
      BY <2>6, MarksKeep, PushKeeps
    <2>7. CASE r \in Suites /\ AppendScenarioEvent(r)
      BY <2>7, ReadKeeps, ScenarioEventKeeps DEF AppendScenarioEvent, Reads, Then
    <2>8. CASE r \in Suites /\ FinishSuite(r)
      <3>1. CASE Read(r, "finalR", "finalW") \/ Read(r, "endR", "endW")
        BY <3>1, ReadKeeps DEF Reads
      <3>2. CASE Write(r, "finalW", "endR",
                       [mem[r] EXCEPT !.status = "finished",
                                      !.summary = Verdict(AllPassed(mem[r].scenarios))])
        BY <2>8, <3>2, SuiteVerdictKeeps
      <3>3. ASSUME Goto(r, "cleanup"), UNCHANGED <<at, outcome>>,
                   Publish(r, "endW", [Event("run.finished") EXCEPT !.ok = mem[r].summary = "passed"])
            PROVE  RunOk(r)'
        BY <2>8, <3>3, LastEventKeeps
      <3>4. QED
        BY <2>8, <3>1, <3>2, <3>3 DEF FinishSuite
    <2>9. QED
      BY <1>1, <2>1, <2>2, <2>3, <2>4, <2>5, <2>6, <2>7, <2>8 DEF MainStep
  <1>2. CASE SelfStep(r)
    BY <1>2, StartsKeep, WorkKeeps, MarksKeep, ExecutorEndKeeps
       DEF SelfStep, Work, WorkFails, ExecutorEnds
  <1>3. CASE CallbackStep(r)
    BY <1>3, ProgressKeeps, OnProgressKeeps DEF CallbackStep
  <1>4. QED
    BY <1>1, <1>2, <1>3, StreamKeeps, TabStepKeeps

-----------------------------------------------------------------------------
LEMMA CallsCounted ==
    ASSUME NEW r, CallsOk(r)
    PROVE  Len(callbacks[r]) \in Nat
  <1>1. PICK S : callbacks[r] \in Seq(S)
    BY DEF CallsOk
  <1>2. QED
    BY <1>1

(* An executor that waits for no command goes on by itself. *)
LEMMA SelfMoves ==
    ASSUME Domains, PlacesTyped, NEW r \in Runs, RunOk(r), SelfStep(r)
    PROVE  \E place \in Places(r) : Sets(r, place) /\ LockMoves(r, place)
  <1> USE DEF Sets, LockMoves, Goto, Send, Aside, Idle, Locked
  <1>1. CASE Click(r)
    <2>1. PICK place : place = IF r \in Loads THEN "gate" ELSE "create"
      OBVIOUS
    <2>2. place \in Places(r) /\ (place = "create" => r \in Suites)
      BY <2>1 DEF Places, Begun, Runs
    <2>3. pc[r] = "idle"
      BY <1>1 DEF Click, RunOk, BrowserOk
    <2>4. Sets(r, place) /\ LockMoves(r, place)
      BY <1>1, <2>1, <2>2, <2>3 DEF Click, store, Held, Ending
    <2>5. QED
      BY <2>2, <2>4
  <1>2. CASE Work(r) \/ WorkFails(r) \/ (r \in Suites /\ CleanUp(r))
    <2>1. r \in Suites /\ {"eventR", "finalR", "catchR", "srem"} \subseteq Places(r)
      BY <1>2, RunnerAssumption DEF Work, WorkFails, Places, Ending
    <2>2. CASE Work(r)
      BY <2>1, <2>2 DEF Work, store
    <2>3. CASE WorkFails(r)
      BY <2>1, <2>3 DEF WorkFails, store
    <2>4. CASE CleanUp(r)
      BY <2>1, <2>4 DEF CleanUp, store
    <2>5. QED
      BY <1>2, <2>2, <2>3, <2>4
  <1>3. CASE ExecutorEnds(r)
    <2>1. PICK n \in Nat : n = Len(callbacks[r]) + 1
      BY CallsCounted DEF RunOk
    <2>2. pipe' = pipe \o <<Callback(r, n), Main(r)>>
      BY <1>3, <2>1 DEF ExecutorEnds, NextCallback
    <2>3. pipe' = Append(Append(pipe, Callback(r, n)), Main(r))
      BY <2>2
    <2>4. "finalR" \in Places(r)
      BY DEF Places, Ending
    <2>5. Sets(r, "finalR") /\ LockMoves(r, "finalR")
      BY <1>3, <2>3 DEF ExecutorEnds, store, Held, Ending
    <2>6. QED
      BY <2>4, <2>5
  <1>4. QED
    BY <1>1, <1>2, <1>3 DEF SelfStep

(* Callbacks, streams and tabs move neither executors nor the lock. *)
LEMMA OthersMove ==
    ASSUME Domains, NEW r \in Runs, RunOk(r), CallbackStep(r) \/ StreamStep(r) \/ TabStep(r)
    PROVE  Elsewhere /\ UNCHANGED <<lock, overrun>>
  <1>1. CASE CallbackStep(r)
    <2>1. CASE Progress(r)
      <3>1. PICK n \in Nat : n = Len(callbacks[r]) + 1
        BY CallsCounted DEF RunOk
      <3>2. pipe' = Append(pipe, Callback(r, n)) /\ pc' = pc /\ UNCHANGED <<lock, overrun>>
        BY <2>1, <3>1 DEF Progress, NextCallback, Send, store
      <3>3. Callback(r, n) \in Senders /\ Enters(Callback(r, n))
        BY <3>2, SendersApart DEF Enters
      <3>4. QED
        BY <3>2, <3>3 DEF Elsewhere
    <2>2. ASSUME NEW n \in Pending(r), OnProgress(r, n)
          PROVE  Elsewhere /\ UNCHANGED <<lock, overrun>>
      <3>1. n \in Nat
        <4>1. callbacks[r] \in Seq(TrueCalls(r)) /\ n \in DOMAIN callbacks[r]
          BY DEF RunOk, CallsOk, Pending
        <4>2. QED
          BY <4>1
      <3>2. /\ Turn(Callback(r, n)) /\ pc' = pc /\ UNCHANGED <<lock, overrun>>
            /\ \/ pipe' = Append(Tail(pipe), Callback(r, n))
               \/ pipe' = Tail(pipe)
        BY <2>2 DEF OnProgress, CallbackAt, SendNext, Stop
      <3>3. Callback(r, n) \in Senders /\ \A s \in Runs : Callback(r, n) # Main(s)
        BY <3>1, SendersApart
      <3>4. QED
        BY <3>2, <3>3 DEF Elsewhere, Enters, Turn
    <2>3. QED
      BY <1>1, <2>1, <2>2 DEF CallbackStep
  <1>2. CASE StreamStep(r)
    <2>1. Stream(r) \in Senders /\ \A s \in Runs : Stream(r) # Main(s)
      BY SendersApart
    <2>2. pc' = pc /\ UNCHANGED <<lock, overrun>>
      BY <1>2 DEF StreamStep, OpenStream, StreamRun, Drop, store, engine
    <2>3. \/ pipe' = pipe \/ pipe' = Append(pipe, Stream(r))
          \/ /\ pipe # <<>> /\ Head(pipe) = Stream(r)
             /\ pipe' = Append(Tail(pipe), Stream(r)) \/ pipe' = Tail(pipe)
      BY <1>2 DEF StreamStep, OpenStream, StreamRun, Drop, Turn, Send, SendNext, Stop
    <2>4. QED
      BY <2>1, <2>2, <2>3 DEF Elsewhere, Enters
  <1>3. CASE TabStep(r)
    <2>1. UNCHANGED <<store, pipe, engine>>
      BY <1>3 DEF TabStep, OnOpen, OnSnapshot, OnIgnored, OnError, OnEnd, TimerFires,
                  OnScenarioEvent, OnRunFinished, OnLoadProgress, OnLoadFinished, Seen
    <2>2. QED
      BY <2>1 DEF store, engine, Elsewhere
  <1>4. QED
    BY <1>1, <1>2, <1>3

(* The lock stays with the run it belongs to. *)
LEMMA LockKept ==
    ASSUME PlacesTyped, LockInv, NEW r \in Runs, NEW place \in Places(r),
           pc' = [pc EXCEPT ![r] = place], LockMoves(r, place), Queues(r, place)
    PROVE  LockInv' /\ (lock # None /\ lock' = None => pc[lock] = "releaseD" /\ pc'[lock] = "ended")
  <1>1. /\ pc'[r] = place /\ \A l \in Loads \ {r} : pc'[l] = pc[l]
        /\ None \notin Loads /\ Suites \cap Loads = {} /\ overrun' = overrun
    BY RunnerAssumption DEF PlacesTyped, Runs, LockMoves
  <1>2. Loads \subseteq Runs
    BY DEF Runs
  <1> DEFINE Moved == lock' = lock \/ (lock = None /\ lock' = r) \/ lock' = None
  <1>3. ASSUME NEW l \in Loads \ {r}, NEW m \in Loads \ {r}, l # m, Moved
        PROVE  Apart(l, m)'
    <2>1. Apart(l, m) /\ (Before(l, m) => Before(l, m)') /\ (Before(m, l) => Before(m, l)')
      BY <1>2, <1>3 DEF LockInv, Queues
    <2>2. lock' = l => lock = l
      BY <1>1, <1>3
    <2>3. QED
      BY <1>1, <2>1, <2>2 DEF Apart
  <1>4. ASSUME r \in Suites, lock' = lock
        PROVE  LockInv'
    <2>1. r \notin Loads
      BY <1>1, <1>4
    <2>2. \A l, m \in Loads : l # m => Apart(l, m)'
      BY <1>3, <1>4, <2>1
    <2>3. QED
      BY <1>1, <1>4, <2>1, <2>2 DEF LockInv
  <1> DEFINE Kept == /\ \A m \in Loads \ {r} : Apart(r, m)' /\ Apart(m, r)'
                     /\ lock' \in Loads \cup {None}
                     /\ place \in Locked /\ r \notin overrun => lock' = r
                     /\ place = "releaseD" => lock' \in {r, None}
                     /\ \A l \in Loads \ {r} :
                           /\ pc[l] \in Locked /\ l \notin overrun => lock' = l
                           /\ pc[l] = "releaseD" => lock' \in {l, None}
  <1>5. ASSUME r \in Loads, Moved, Kept
        PROVE  LockInv'
    <2>1. \A l, m \in Loads : l # m => Apart(l, m)'
      BY <1>3, <1>5
    <2>2. QED
      BY <1>1, <1>5, <2>1 DEF LockInv
  <1>6. ASSUME NEW m \in Loads \ {r}, r \in Loads
        PROVE  Apart(r, m) /\ Apart(m, r)
    BY <1>6 DEF LockInv
  <1>7. /\ lock \in Loads \cup {None}
        /\ \A l \in Loads : /\ pc[l] \in Locked /\ l \notin overrun => lock = l
                            /\ pc[l] = "releaseD" => lock \in {l, None}
    BY DEF LockInv
  <1>8. ASSUME r \in Loads, pc[r] \notin Aside, NEW m \in Loads \ {r}
        PROVE  ~Before(m, r)
    BY <1>2, <1>8 DEF Queues
  <1>9. ASSUME r \in Loads, place \notin Aside, NEW m \in Loads \ {r}, pc[m] \notin Aside
        PROVE  Before(m, r)'
    BY <1>2, <1>9 DEF Queues
  <1> HIDE DEF Moved
  <1>10. ASSUME r \in Loads, lock' = lock, place \notin Locked \cup {"gate2", "acquire"}
         PROVE  Kept
    <2>1. \A m \in Loads \ {r} : Apart(r, m)' /\ Apart(m, r)'
      BY <1>1, <1>10 DEF Apart, Locked
    <2>2. QED
      BY <1>7, <1>10, <2>1 DEF Locked
  <1>11. ASSUME r \in Loads, lock' = lock, lock = None, place = "gate2"
         PROVE  Kept
    <2>1. \A m \in Loads \ {r} : Apart(r, m)' /\ Apart(m, r)'
      BY <1>1, <1>9, <1>11 DEF Apart, Aside, Idle
    <2>2. QED
      BY <1>7, <1>11, <2>1 DEF Locked, Held, Ending
  <1>12. ASSUME r \in Loads, lock' = lock, pc[r] = "gate2", place = "acquire"
         PROVE  Kept
    <2>1. \A m \in Loads \ {r} : Apart(r, m)' /\ Apart(m, r)'
      BY <1>1, <1>6, <1>8, <1>12 DEF Apart, Aside, Idle, Held, Ending
    <2>2. QED
      BY <1>7, <1>12, <2>1 DEF Locked, Held, Ending
  <1>13. ASSUME r \in Loads, lock = None, lock' = r, pc[r] = "acquire", place = "create"
         PROVE  Kept
    <2>1. \A m \in Loads \ {r} : Apart(r, m)' /\ Apart(m, r)'
      BY <1>1, <1>6, <1>9, <1>13 DEF Apart, Aside, Idle, Held, Ending
    <2>2. \A m \in Loads \ {r} : pc[m] # "releaseD"
      BY <1>6, <1>13 DEF Apart
    <2>3. QED
      BY <1>1, <1>7, <1>13, <2>1, <2>2
  <1>14. ASSUME r \in Loads, lock' = lock, pc[r] = "create", place = "begin"
         PROVE  Kept
    <2>1. \A m \in Loads \ {r} : Apart(r, m)' /\ Apart(m, r)'
      BY <1>1, <1>6, <1>8, <1>9, <1>14 DEF Apart, Aside, Idle, Held, Ending
    <2>2. QED
      BY <1>7, <1>14, <2>1 DEF Locked
  <1>15. ASSUME r \in Loads, lock' = lock, pc[r] \in Held \cup {"begin"}, place \in Held
         PROVE  Kept
    <2>1. \A m \in Loads \ {r} : ~(pc[r] = "begin" /\ Before(m, r))
      BY <1>8, <1>15 DEF Aside, Idle
    <2>2. \A m \in Loads \ {r} : Apart(r, m)' /\ Apart(m, r)'
      BY <1>1, <1>6, <1>15, <2>1 DEF Apart, Held, Ending
    <2>3. pc[r] \in Locked /\ place # "releaseD"
      BY <1>15 DEF Locked, Held, Ending
    <2>4. QED
      BY <1>7, <1>15, <2>2, <2>3
  <1>16. ASSUME r \in Loads, lock' = lock, lock = r, pc[r] = "releaseR", place = "releaseD"
         PROVE  Kept
    <2>1. \A m \in Loads \ {r} : Apart(r, m)' /\ Apart(m, r)'
      BY <1>1, <1>6, <1>16 DEF Apart, Held, Ending
    <2>2. QED
      BY <1>7, <1>16, <2>1
  <1>17. ASSUME r \in Loads, pc[r] = "releaseD", lock' = None, place = "ended"
         PROVE  Kept
    <2>1. \A m \in Loads \ {r} : Apart(r, m)' /\ Apart(m, r)'
      BY <1>1, <1>17 DEF Apart, Held, Ending
    <2>2. \A l \in Loads \ {r} : lock # l
      BY <1>1, <1>7, <1>17
    <2>3. QED
      BY <1>7, <1>17, <2>1, <2>2 DEF Locked, Held, Ending
  <1>18. pc[r] \in {"gate", "gate2", "acquire", "releaseR", "releaseD"} => r \in Loads
    BY DEF PlacesTyped, Places, Idle, Begun, Ending
  <1>19. Moved
    BY DEF LockMoves, Moved
  <1>20. LockInv'
    <2>1. CASE r \in Suites /\ lock' = lock
      BY <1>4, <2>1
    <2>2. CASE r \in Loads
      BY <1>5, <1>10, <1>11, <1>12, <1>13, <1>14, <1>15, <1>16, <1>17, <1>19, <2>2, <1>1
         DEF LockMoves
    <2>3. r \in Suites => lock' = lock
      BY <1>1, <1>18 DEF LockMoves
    <2>4. QED
      BY <2>1, <2>2, <2>3 DEF Runs
  <1>21. lock # None /\ lock' = None => pc[lock] = "releaseD" /\ pc'[lock] = "ended"
    <2>1. lock # None /\ lock' = None => pc[r] = "releaseD" /\ place = "ended"
      BY <1>1, <1>2, RunnerAssumption DEF LockMoves, Runs
    <2>2. pc[r] = "releaseD" => lock \in {r, None}
      BY <1>7, <1>18
    <2>3. QED
      BY <1>1, <2>1, <2>2
  <1>22. QED
    BY <1>20, <1>21

LEMMA RunStepKeeps ==
    ASSUME RunnerInv, NEW r \in Runs,
           MainStep(r) \/ SelfStep(r) \/ CallbackStep(r) \/ StreamStep(r) \/ TabStep(r)
    PROVE  /\ RunnerInv'
           /\ lock # None /\ lock' = None => pc[lock] = "releaseD" /\ pc'[lock] = "ended"
  <1>1. cast' \in Casts /\ Domains' /\ \A s \in Runs \ {r} : Same(s)
    BY StepsAreLocal DEF RunnerInv, Local
  <1>2. \A s \in Runs : RunOk(s)'
    BY <1>1, OthersKept, StepKeeps DEF RunnerInv
  <1>3. /\ PlacesTyped' /\ PipeInv' /\ LockInv'
        /\ lock # None /\ lock' = None => pc[lock] = "releaseD" /\ pc'[lock] = "ended"
    <2>1. CASE MainStep(r)
      <3>1. PICK place \in Places(r) : TurnMoves(r, place)
        BY <2>1, MainMoves DEF RunnerInv
      <3>2. Walks(r, place) /\ LockMoves(r, place) /\ pc' = [pc EXCEPT ![r] = place]
        BY <3>1 DEF TurnMoves, Walks
      <3>3. QED
        BY <3>2, WalksKeep, LockKept DEF RunnerInv
    <2>2. CASE SelfStep(r)
      <3>1. PICK place \in Places(r) : Sets(r, place) /\ LockMoves(r, place)
        BY <2>2, SelfMoves DEF RunnerInv
      <3>2. pc' = [pc EXCEPT ![r] = place]
        BY <3>1 DEF Sets
      <3>3. QED
        BY <3>1, <3>2, SetsKeep, LockKept DEF RunnerInv
    <2>3. CASE CallbackStep(r) \/ StreamStep(r) \/ TabStep(r)
      <3>1. Elsewhere /\ UNCHANGED <<lock, overrun>>
        BY <2>3, OthersMove DEF RunnerInv
      <3>2. /\ PlacesTyped' /\ PipeInv'
            /\ \A s, t \in Runs : Before(s, t) => Before(s, t)'
        BY <3>1, ElsewhereKeeps DEF RunnerInv
      <3>3. pc' = pc
        BY <3>1 DEF Elsewhere
      <3>4. \A l, m \in Loads : l # m => Apart(l, m)'
        BY <3>1, <3>2, <3>3 DEF Apart, LockInv, RunnerInv, Runs
      <3>5. LockInv'
        BY <3>1, <3>3, <3>4 DEF LockInv, RunnerInv
      <3>6. QED
        BY <3>1, <3>2, <3>5
    <2>4. QED
      BY <2>1, <2>2, <2>3
  <1>4. QED
    BY <1>1, <1>2, <1>3 DEF RunnerInv

LEMMA ExpiryKeeps ==
    ASSUME RunnerInv, LockExpires \/ PresenceExpires \/ UNCHANGED vars
    PROVE  RunnerInv'
  <1>1. /\ UNCHANGED <<cast, record, pipe, pc, mem, at, outcome, callbacks, tab, conn, net>>
    BY DEF LockExpires, PresenceExpires, vars, store, engine, browser
  <1>2. cast' \in Casts /\ Domains' /\ PlacesTyped' /\ PipeInv'
    BY <1>1 DEF RunnerInv, Domains, PlacesTyped, Places, PipeInv
  <1>3. \A r \in Runs : RunOk(r)'
    BY <1>1, OthersKept DEF RunnerInv, Same
  <1>4. LockInv'
    <2>1. CASE LockExpires
      <3>1. lock \in Loads /\ lock' = None /\ pc' = pc /\ pipe' = pipe /\ None \notin Loads
        BY <1>1, <2>1, RunnerAssumption DEF LockExpires, RunnerInv, LockInv
      <3>2. \/ pc[lock] \in {"ended", "dead"} /\ overrun' = overrun
            \/ pc[lock] \notin {"ended", "dead"} /\ overrun' = overrun \cup {lock}
        BY <2>1 DEF LockExpires
      <3>3. \A l \in Loads : pc[l] \in Locked => l \in overrun'
        BY <3>1, <3>2 DEF RunnerInv, LockInv, Locked, Held, Ending
      <3>4. \A l, m \in Loads : l # m => Apart(l, m)'
        BY <3>1 DEF RunnerInv, LockInv, Apart, Before
      <3>5. QED
        BY <3>1, <3>3, <3>4 DEF LockInv
    <2>2. CASE PresenceExpires \/ UNCHANGED vars
      <3>1. UNCHANGED <<lock, pc, overrun, pipe>>
        BY <1>1, <2>2 DEF PresenceExpires, vars, store, engine
      <3>2. \A l, m \in Loads : l # m => Apart(l, m)'
        BY <3>1 DEF RunnerInv, LockInv, Apart, Before
      <3>3. QED
        BY <3>1, <3>2 DEF LockInv, RunnerInv
    <2>3. QED
      BY <2>1, <2>2
  <1>5. QED
    BY <1>2, <1>3, <1>4 DEF RunnerInv

(* The process is lost with all that was on its way; records, lock and     *)
(* what tabs show stay.                                                    *)
LEMMA CrashKeeps ==
    ASSUME RunnerInv, Crash
    PROVE  RunnerInv' /\ lock' = lock
  <1>1. /\ UNCHANGED <<cast, record, lock, at, outcome, overrun>>
        /\ pc' = [r \in Runs |-> Lose(r)] /\ pipe' = <<>>
        /\ \A r \in Runs : /\ pc'[r] = Lose(r) /\ net'[r] = <<>> /\ mem'[r] = None
                           /\ tab'[r] \in {tab[r], "error"}
                           /\ conn'[r] = conn[r] \/ conn[r] \in {"asking", "found", "open"}
    BY DEF Crash, store
  <1>2. Domains'
    BY DEF Crash, RunnerInv, Domains, store
  <1>3. \A r \in Runs : /\ pc'[r] \in Idle /\ (pc[r] = "idle" <=> pc'[r] = "idle")
                        /\ pc[r] = "idle" \/ Over(r)'
    BY <1>1 DEF Lose, Idle, Over
  <1>4. PlacesTyped' /\ PipeInv' /\ LockInv'
    <2>1. PlacesTyped'
      BY <1>1, <1>3 DEF PlacesTyped, AllPlaces, Aside, Places
    <2>2. PipeInv'
      BY <1>1, <1>3 DEF PipeInv, Once, In, Aside
    <2>3. LockInv'
      BY <1>1, <1>3, RunnerAssumption
         DEF LockInv, RunnerInv, Apart, Runs, Idle, Locked, Held, Ending
    <2>4. QED
      BY <2>1, <2>2, <2>3
  <1>5. ASSUME NEW r \in Runs PROVE RunOk(r)'
    <2>1. RunOk(r)
      BY DEF RunnerInv
    <2>2. Settles(r)
      BY <1>1, <1>3 DEF Settles, Over, Ending
    <2>3. Made(r) => Made(r)'
      BY <1>1, <2>2, TruthStays DEF Made
    <2>4. BrowserOk(r)'
      <3>1. net'[r] \in Seq(TrueFrames(r)')
        <4>1. PICK S : S = TrueFrames(r)'
          OBVIOUS
        <4>2. <<>> \in Seq(S)
          OBVIOUS
        <4>3. QED
          BY <1>1, <4>1, <4>2
      <3>2. conn'[r] = conn[r] \/ Made(r)'
        BY <1>1, <2>1, <2>3 DEF RunOk, BrowserOk
      <3>3. /\ tab'[r] = tab[r] /\ (tab[r] = "idle" => pc'[r] = "idle")
            \/ tab'[r] = "error"
        BY <1>1, <1>3, <2>1 DEF RunOk, BrowserOk
      <3>4. QED
        BY <2>1, <2>2, <2>3, <3>1, <3>2, <3>3, BrowserKept DEF RunOk
    <2>5. RecordOk(r)'
      BY <1>3 DEF RecordOk, Idle, Unmade, Writing
    <2>6. callbacks'[r] \in Seq(TrueCalls(r)') /\ (callbacks'[r] # <<>> <=> callbacks[r] # <<>>)
      <3>1. PICK q, S : q = callbacks[r] /\ S = TrueCalls(r)'
        OBVIOUS
      <3>2. q \in Seq(S) /\ Len(q) \in Nat /\ DOMAIN q = 1 .. Len(q)
        BY <2>1, <2>2, <3>1, TruthStays DEF RunOk, CallsOk
      <3>3. PICK p : p = callbacks'[r]
        OBVIOUS
      <3>4. p = [n \in DOMAIN q |-> [q[n] EXCEPT !.place = "over", !.mem = None]]
        BY <3>1, <3>3 DEF Crash
      <3>5. \A n \in DOMAIN q : p[n] \in S
        <4> SUFFICES ASSUME NEW n \in DOMAIN q PROVE p[n] \in S
          OBVIOUS
        <4>1. q[n] \in TrueCalls(r)'
          BY <3>1, <3>2
        <4>2. [q[n] EXCEPT !.place = "over", !.mem = None] \in TrueCalls(r)'
          BY <4>1 DEF TrueCalls, Calls
        <4>3. QED
          BY <3>1, <3>4, <4>2
      <3>6. p \in [1 .. Len(q) -> S]
        BY <3>2, <3>4, <3>5
      <3>7. p \in Seq(S) /\ Len(p) = Len(q)
        BY <3>2, <3>6, SeqDef
      <3>8. p # <<>> <=> q # <<>>
        BY <3>2, <3>7
      <3>9. QED
        BY <3>1, <3>3, <3>7, <3>8
    <2>7. CallsOk(r)'
      BY <2>1, <2>3, <2>6 DEF RunOk, CallsOk
    <2>8. ASSUME r \in Suites PROVE SuiteOk(r)'
      BY <1>1, <1>3, <2>1, <2>8 DEF RunOk, SuiteOk, Idle, Early, Begun, Writing
    <2>9. ASSUME r \in Loads PROVE LoadOk(r)'
      <3>1. ~Over(r)' => ~Over(r)
        BY <1>1, <1>3 DEF Over, Ending
      <3>2. QED
        BY <1>1, <1>3, <2>1, <2>6, <2>9, <3>1 DEF RunOk, LoadOk, Idle
    <2>10. QED
      BY <2>4, <2>5, <2>7, <2>8, <2>9 DEF RunOk
  <1>6. QED
    BY <1>1, <1>2, <1>4, <1>5 DEF RunnerInv

LEMMA NextKeeps ==
    ASSUME RunnerInv, [Next]_vars
    PROVE  /\ RunnerInv'
           /\ lock # None /\ lock' = None
                 => LockExpires \/ (pc[lock] = "releaseD" /\ pc'[lock] = "ended")
  <1>1. ASSUME NEW r \in cast[1],
               \/ Click(r) \/ Proceed(r)
               \/ WorkFails(r) \/ Progress(r) \/ StepEventFails(r) \/ CommandFails(r) \/ Drop(r)
        PROVE  \/ MainStep(r) \/ SelfStep(r) \/ CallbackStep(r)
               \/ StreamStep(r) \/ TabStep(r)
    BY <1>1 DEF Proceed, StartRun, SuiteStep, LoadStep, MainStep, SelfStep, CallbackStep,
                StreamStep, Progress
  <1>2. cast[1] \subseteq Runs
    BY RunnerAssumption DEF RunnerInv, Runs
  <1>3. CASE \E r \in cast[1] :
                \/ Click(r) \/ Proceed(r)
                \/ WorkFails(r) \/ Progress(r) \/ StepEventFails(r) \/ CommandFails(r) \/ Drop(r)
    BY <1>1, <1>2, <1>3, RunStepKeeps
  <1>4. CASE Crash
    BY <1>4, CrashKeeps
  <1>5. CASE LockExpires \/ PresenceExpires \/ UNCHANGED vars
    <2>1. LockExpires \/ lock' = lock
      BY <1>5 DEF PresenceExpires, vars, store
    <2>2. QED
      BY <1>5, <2>1, ExpiryKeeps
  <1>6. QED
    BY <1>3, <1>4, <1>5 DEF Next, Quiet

LEMMA InitKeeps ==
    ASSUME Init
    PROVE  RunnerInv
  <1> USE DEF Init
  <1>1. cast \in Casts /\ Domains
    BY DEF Domains
  <1>2. PlacesTyped /\ PipeInv /\ LockInv
    <2>1. PlacesTyped
      BY DEF PlacesTyped, AllPlaces, Aside, Idle, Places
    <2>2. PipeInv
      BY DEF PipeInv, Once, In, Aside, Idle
    <2>3. LockInv
      BY DEF LockInv, Apart, Locked, Held, Ending, Runs
    <2>4. QED
      BY <2>1, <2>2, <2>3
  <1>3. ASSUME NEW r \in Runs PROVE RunOk(r)
    <2>1. /\ pc[r] = "idle" /\ tab[r] = "idle" /\ conn[r] = "none"
          /\ net[r] = <<>> /\ callbacks[r] = <<>> /\ outcome[r] = <<>> /\ at[r] = <<1, 1>>
      BY <1>3
    <2>2. BrowserOk(r) /\ RecordOk(r) /\ CallsOk(r)
      BY <2>1 DEF BrowserOk, ViewTrue, RecordOk, CallsOk, Unmade, Writing
    <2>3. ASSUME r \in Suites PROVE SuiteOk(r)
      <3>1. Scenarios[r] \in Nat
        BY <2>3, RunnerAssumption
      <3>2. at[r] \in (1 .. Scenarios[r] + 1) \X (1 .. 4)
        BY <2>1, <3>1
      <3>3. QED
        BY <2>1, <3>2 DEF SuiteOk, Writing
    <2>4. ASSUME r \in Loads PROVE LoadOk(r)
      BY <2>1 DEF LoadOk
    <2>5. QED
      BY <2>2, <2>3, <2>4 DEF RunOk
  <1>4. QED
    BY <1>1, <1>2, <1>3 DEF RunnerInv

LEMMA Inductive == Spec => []RunnerInv
  <1>1. Init => RunnerInv
    BY InitKeeps
  <1>2. RunnerInv /\ [Next]_vars => RunnerInv'
    BY NextKeeps
  <1>3. QED
    BY <1>1, <1>2, PTL DEF Spec

-----------------------------------------------------------------------------
(* Two load runs are under way at once only if one of them has outlived    *)
(* its lock (tryAcquireActiveLock, "single-flight lock"): the check of the *)
(* lock, SET NX and the compare-and-delete may interleave in any way with  *)
(* other starts, failed commands and crashes.                              *)
THEOREM OneLoadAtATime == Spec => []OneLoad
  <1>1. RunnerInv => OneLoad
    <2> SUFFICES ASSUME RunnerInv, NEW l1 \in Loads, NEW l2 \in Loads, l1 # l2,
                        Holding(l1), Holding(l2), {l1, l2} \cap overrun = {}
                 PROVE  FALSE
      BY DEF OneLoad
    <2>1. \A l \in Loads : Holding(l) => pc[l] \in Locked
      BY RunnerAssumption
         DEF RunnerInv, PlacesTyped, Places, Runs, Holding, Starting, Idle, Locked, Held, Begun
    <2>2. lock = l1 /\ lock = l2
      BY <2>1 DEF RunnerInv, LockInv
    <2>3. QED
      BY <2>2
  <1>2. QED
    BY <1>1, Inductive, PTL

(* The lock goes away by its time to live or when the run that holds it    *)
(* deletes it.  releaseActiveLock reads before it deletes, and the lock    *)
(* may expire in between; but a run that could take it then has seen it    *)
(* free two of its own commands ago, while the run that now releases it    *)
(* has held it for many, so nobody takes it before the DEL (Apart).        *)
THEOREM LockOfItsRun == Spec => OnlyOwnerReleases
  <1>1. RunnerInv /\ [Next]_vars
           => [lock # None /\ lock' = None
                  => LockExpires \/ (pc[lock] = "releaseD" /\ pc'[lock] = "ended")]_vars
    BY NextKeeps
  <1>2. QED
    BY <1>1, Inductive, PTL DEF Spec, OnlyOwnerReleases

(* What a tab says at the end of its run is so: the records it is taken    *)
(* from are saved by executors and callbacks that have read them earlier,  *)
(* its frames may be lost and its stream opened again.                     *)
THEOREM ViewsEndTrue == Spec => []FinalViewTrue
  <1>1. RunnerInv => FinalViewTrue
    <2> SUFFICES ASSUME RunnerInv, NEW r \in Runs
                 PROVE  /\ tab[r] = "passed" => Len(outcome[r]) = Scenarios[r] /\ AllPassed(outcome[r])
                        /\ tab[r] = "failed" => ~AllPassed(outcome[r])
                        /\ tab[r] = "finished" => outcome[r] # <<"error">>
      BY DEF FinalViewTrue
    <2>1. ViewTrue(r, tab[r])
      BY DEF RunnerInv, RunOk, BrowserOk
    <2>2. QED
      BY <2>1 DEF ViewTrue, Told, Came
  <1>2. QED
    BY <1>1, Inductive, PTL
=============================================================================
