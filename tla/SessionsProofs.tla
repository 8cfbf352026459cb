--------------------------- MODULE SessionsProofs ---------------------------
(***************************************************************************)
(* Theorems of Sessions for every number of requests, tabs, clients,       *)
(* e-mails and failures, and every limit.                                  *)
(***************************************************************************)
EXTENDS Sessions, TLAPS

Ops == {"register", "login", "refresh", "logout", "me", "call"}

Steps == {"idle", "lookup", "insert", "verify", "refuse", "get", "find", "revoke",
          "store", "audit", "me", "gate", "incr", "arm", "proxy", "answered", "over"}

Token == Requests \cup {None}

Req == [step : Steps, op : Ops \cup {None}, by : Callers \cup {None},
        email : Emails \cup {None}, right : BOOLEAN, access : Token, refresh : Token,
        user : Users \cup {None}, status : Nat, open : BOOLEAN, prior : SUBSET Requests]

TypeOK ==
    /\ req \in [Requests -> Req]
    /\ jar \in [Callers -> [access : Token, refresh : Token]]
    /\ \A a \in accounts : a.id \in Users
    /\ DOMAIN sessions \subseteq Requests
    /\ \A t \in DOMAIN sessions : sessions[t] \in Users \cup {None}
    /\ counter \in [Users -> Nat]
    /\ ttl \in [Users -> BOOLEAN]
    /\ admitted \in [Users -> Nat]

(* The steps of each operation, and what is known at them. *)
OpAt(q) ==
    /\ q.step \in {"lookup", "insert"} => q.op = "register"
    /\ q.step \in {"verify", "refuse"} => q.op = "login"
    /\ q.step \in {"get", "find"} => q.op = "refresh"
    /\ q.step = "revoke" => q.op \in {"refresh", "logout"}
    /\ q.step = "store" => q.op \in {"register", "login", "refresh"}
    /\ q.step = "audit" => q.op \in {"register", "login", "refresh", "logout"}
    /\ q.step = "me" => q.op = "me"
    /\ q.step \in {"gate", "incr", "arm", "proxy"} => q.op = "call"

Shape(q) ==
    /\ OpAt(q)
    /\ q.step \in {"incr", "arm"} => q.user \in Users
    /\ q.open => q.step \in {"proxy", "answered", "over"}
    /\ q.status # 0 => q.step \in {"answered", "over"}

Shaped == \A r \in Requests : Shape(req[r])

-----------------------------------------------------------------------------
(* What a request that leaves is: one of the operations, by a caller. *)
Departs(r) ==
    \E c \in Callers, op \in Ops, e \in Emails \cup {None}, right \in BOOLEAN :
        Leaves(r, c, op, e, right)

(* Whoever sends a request, it leaves as one of the operations. *)
LEMMA Departures ==
    ASSUME NEW r \in Requests, Send(r)
    PROVE  Departs(r)
  BY DEF Send, CheckSession, SubmitForm, UsePage, ClientSends, Departs, Ops, Callers

(* The user of a token that verifies. *)
LEMMA VerifiedTyped ==
    ASSUME TypeOK, NEW r \in Requests
    PROVE  Verified(r) \in Users \cup {None}
  BY DEF TypeOK, Verified, Req, Token

(* Idle is a request. *)
LEMMA IdleTyped == Idle \in Req /\ Shape(Idle)
  BY DEF Idle, Req, Steps, Token, Shape, OpAt

(* Request r is at another step, with another user and status; the rest of *)
(* it, and every other request, is as it was.                              *)
Moved(r, step, u, status) ==
    /\ req' \in [Requests -> Req]
    /\ \A s \in Requests \ {r} : req'[s] = req[s]
    /\ req'[r].step = step /\ req'[r].user = u /\ req'[r].status = status
    /\ req'[r].op = req[r].op /\ req'[r].by = req[r].by /\ req'[r].email = req[r].email
    /\ req'[r].right = req[r].right /\ req'[r].access = req[r].access
    /\ req'[r].refresh = req[r].refresh /\ req'[r].prior = req[r].prior
    /\ req'[r].open = req[r].open

(* The four ways in which a handler moves its request on. *)
LEMMA GoMoves ==
    ASSUME TypeOK, NEW r \in Requests, NEW step \in Steps, Go(r, step)
    PROVE  Moved(r, step, req[r].user, req[r].status)
  <1>1. req \in [Requests -> Req] /\ req[r] \in Req
    BY DEF TypeOK
  <1>2. req' = [req EXCEPT ![r] = [req[r] EXCEPT !.step = step]]
    BY <1>1 DEF Go
  <1>3. [req[r] EXCEPT !.step = step] \in Req
    BY <1>1 DEF Req
  <1>4. QED
    BY <1>1, <1>2, <1>3 DEF Moved, Req

(* The second also learns whose request it is. *)
LEMMA GoAsMoves ==
    ASSUME TypeOK, NEW r \in Requests, NEW step \in Steps, NEW u \in Users \cup {None},
           GoAs(r, step, u)
    PROVE  Moved(r, step, u, req[r].status)
  <1>1. req \in [Requests -> Req] /\ req[r] \in Req
    BY DEF TypeOK
  <1>2. req' = [req EXCEPT ![r] = [req[r] EXCEPT !.step = step, !.user = u]]
    BY <1>1 DEF GoAs
  <1>3. [req[r] EXCEPT !.step = step, !.user = u] \in Req
    BY <1>1 DEF Req
  <1>4. QED
    BY <1>1, <1>2, <1>3 DEF Moved, Req

(* The third answers it. *)
LEMMA AnswerMoves ==
    ASSUME TypeOK, NEW r \in Requests, NEW status \in Nat, Answer(r, status)
    PROVE  Moved(r, "answered", req[r].user, status)
  <1>1. req \in [Requests -> Req] /\ req[r] \in Req
    BY DEF TypeOK
  <1>2. req' = [req EXCEPT ![r] = [req[r] EXCEPT !.step = "answered", !.status = status]]
    BY <1>1 DEF Answer
  <1>3. [req[r] EXCEPT !.step = "answered", !.status = status] \in Req
    BY <1>1 DEF Req, Steps
  <1>4. QED
    BY <1>1, <1>2, <1>3 DEF Moved, Req

(* The fourth answers it and names its user. *)
LEMMA AnswerAsMoves ==
    ASSUME TypeOK, NEW r \in Requests, NEW status \in Nat, NEW u \in Users \cup {None},
           AnswerAs(r, status, u)
    PROVE  Moved(r, "answered", u, status)
  <1> DEFINE q == [req[r] EXCEPT !.step = "answered", !.status = status, !.user = u]
  <1>1. req \in [Requests -> Req] /\ req[r] \in Req
    BY DEF TypeOK
  <1>2. req' = [req EXCEPT ![r] = q]
    BY <1>1 DEF AnswerAs
  <1>3. q \in Req
    BY <1>1 DEF Req, Steps
  <1>4. QED
    BY <1>1, <1>2, <1>3 DEF Moved, Req

(* What each handler's steps make of their request. *)
LookupMoves(r) ==
    /\ At(r, "lookup")
    /\ \/ Moved(r, "answered", req[r].user, 409)
       \/ Moved(r, "insert", req[r].user, req[r].status)

InsertMoves(r) ==
    /\ At(r, "insert")
    /\ \/ Moved(r, "answered", req[r].user, 500)
       \/ Moved(r, "audit", r, req[r].status)

VerifyMoves(r) ==
    /\ At(r, "verify")
    /\ \/ Moved(r, "refuse", req[r].user, req[r].status)
       \/ \E u \in Users : Moved(r, "audit", u, req[r].status)

GetSessionMoves(r) ==
    /\ At(r, "get")
    /\ \/ Moved(r, "answered", req[r].user, 401)
       \/ \E u \in Users \cup {None} : Moved(r, "find", u, req[r].status)

FindUserMoves(r) ==
    /\ At(r, "find")
    /\ \/ Moved(r, "answered", req[r].user, 401)
       \/ Moved(r, "revoke", req[r].user, req[r].status)

RevokeMoves(r) ==
    /\ At(r, "revoke")
    /\ \/ req[r].op = "refresh" /\ Moved(r, "store", req[r].user, req[r].status)
       \/ /\ req[r].op = "logout"
          /\ \/ Moved(r, "answered", req[r].user, 200)
             \/ \E u \in Users : Moved(r, "audit", u, req[r].status)

WriteAuditMoves(r) ==
    \/ /\ At(r, "audit") /\ req[r].op \in {"register", "login"}
       /\ Moved(r, "store", req[r].user, req[r].status)
    \/ /\ At(r, "audit") /\ req[r].op \notin {"register", "login"}
       /\ Moved(r, "answered", req[r].user, 200)
    \/ At(r, "refuse") /\ Moved(r, "answered", req[r].user, 401)

StoreSessionMoves(r) ==
    /\ At(r, "store")
    /\ \/ req[r].op = "refresh" /\ Moved(r, "audit", req[r].user, req[r].status)
       \/ /\ req[r].op # "refresh"
          /\ Moved(r, "answered", req[r].user, Success(req[r].op))

MeMoves(r) ==
    /\ At(r, "me")
    /\ \/ Moved(r, "answered", req[r].user, 401)
       \/ \E u \in Users : Moved(r, "answered", u, 200)

GateMoves(r) ==
    /\ At(r, "gate")
    /\ \/ Moved(r, "answered", req[r].user, 401)
       \/ \E u \in Users : Moved(r, "incr", u, req[r].status)

IncrMoves(r) ==
    /\ At(r, "incr")
    /\ \/ counter[req[r].user] = 0 /\ Moved(r, "arm", req[r].user, req[r].status)
       \/ Moved(r, "proxy", req[r].user, req[r].status)
       \/ Moved(r, "answered", req[r].user, 429)

ExpireMoves(r) ==
    At(r, "arm") /\ Moved(r, "proxy", req[r].user, req[r].status)

ProxyMoves(r) ==
    /\ At(r, "proxy")
    /\ \E status \in {200, 401} : Moved(r, "answered", req[r].user, status)

FailMoves(r) ==
    /\ req[r].step \notin {"idle", "answered", "over", "incr", "arm"}
    /\ Moved(r, "answered", req[r].user, 500)

(* Deliver and Lose *)
EndMoves(r) ==
    At(r, "answered") /\ Moved(r, "over", req[r].user, req[r].status)

(* Where each handler's step moves its request to. *)
LEMMA Moves ==
    ASSUME TypeOK, NEW r \in Requests
    PROVE
        /\ Lookup(r) => LookupMoves(r)
        /\ Insert(r) => InsertMoves(r)
        /\ Verify(r) => VerifyMoves(r)
        /\ GetSession(r) => GetSessionMoves(r)
        /\ FindUser(r) => FindUserMoves(r)
        /\ Revoke(r) => RevokeMoves(r)
        /\ WriteAudit(r) => WriteAuditMoves(r)
        /\ StoreSession(r) => StoreSessionMoves(r)
        /\ Me(r) => MeMoves(r)
        /\ Gate(r) => GateMoves(r)
        /\ Incr(r) => IncrMoves(r)
        /\ Expire(r) => ExpireMoves(r)
        /\ Proxy(r) => ProxyMoves(r)
        /\ Deliver(r) => EndMoves(r)
        /\ Fail(r) => FailMoves(r)
        /\ Lose(r) => EndMoves(r)
  <1>a. Answer(r, 409) => Moved(r, "answered", req[r].user, 409)
    BY AnswerMoves
  <1>b. Answer(r, 500) => Moved(r, "answered", req[r].user, 500)
    BY AnswerMoves
  <1>c. Answer(r, 401) => Moved(r, "answered", req[r].user, 401)
    BY AnswerMoves
  <1>d. Answer(r, 429) => Moved(r, "answered", req[r].user, 429)
    BY AnswerMoves
  <1>e. Answer(r, 200) => Moved(r, "answered", req[r].user, 200)
    BY AnswerMoves
  <1>f. Answer(r, Success(req[r].op)) => Moved(r, "answered", req[r].user, Success(req[r].op))
    <2>1. Success(req[r].op) \in Nat
      BY DEF Success
    <2>2. QED
      BY <2>1, AnswerMoves
  <1>g. AnswerAs(r, 200, Verified(r)) => Moved(r, "answered", Verified(r), 200)
    BY AnswerAsMoves, VerifiedTyped
  <1>h. \A step \in Steps : Go(r, step) => Moved(r, step, req[r].user, req[r].status)
    BY GoMoves
  <1>i. \A step \in Steps, u \in Users \cup {None} :
            GoAs(r, step, u) => Moved(r, step, u, req[r].status)
    BY GoAsMoves
  <1>j. Verified(r) \in Users \cup {None}
    BY VerifiedTyped
  <1>0. /\ "insert" \in Steps /\ "audit" \in Steps /\ "refuse" \in Steps
        /\ "find" \in Steps /\ "revoke" \in Steps /\ "store" \in Steps
        /\ "incr" \in Steps /\ "arm" \in Steps /\ "proxy" \in Steps /\ "over" \in Steps
    BY DEF Steps
  <1>1. Lookup(r) => LookupMoves(r)
    BY <1>0, <1>a, <1>h DEF Lookup, LookupMoves
  <1>2. Insert(r) => InsertMoves(r)
    BY <1>0, <1>b, <1>i DEF Insert, Users, InsertMoves
  <1>3. Verify(r) => VerifyMoves(r)
    BY <1>0, <1>h, <1>i DEF Verify, AccountOf, TypeOK, VerifyMoves
  <1>4. GetSession(r) => GetSessionMoves(r)
    BY <1>0, <1>c, <1>i DEF GetSession, TypeOK, GetSessionMoves
  <1>5. FindUser(r) => FindUserMoves(r)
    BY <1>0, <1>c, <1>h DEF FindUser, FindUserMoves
  <1>6. Revoke(r) => RevokeMoves(r)
    BY <1>0, <1>e, <1>h, <1>i, <1>j DEF Revoke, RevokeMoves
  <1>7. WriteAudit(r) => WriteAuditMoves(r)
    BY <1>0, <1>c, <1>e, <1>h DEF WriteAudit, WriteAuditMoves
  <1>8. StoreSession(r) => StoreSessionMoves(r)
    BY <1>0, <1>f, <1>h DEF StoreSession, StoreSessionMoves
  <1>9. Me(r) => MeMoves(r)
    BY <1>0, <1>c, <1>g, <1>j DEF Me, MeMoves
  <1>10. Gate(r) => GateMoves(r)
    BY <1>0, <1>c, <1>i, <1>j DEF Gate, GateMoves
  <1>11. Incr(r) => IncrMoves(r)
    BY <1>0, <1>d, <1>h DEF Incr, Admit, IncrMoves
  <1>12. Expire(r) => ExpireMoves(r)
    BY <1>0, <1>h DEF Expire, Admit, ExpireMoves
  <1>13. Proxy(r) => ProxyMoves(r)
    BY <1>0, <1>c, <1>e DEF Proxy, ProxyMoves
  <1>14. Deliver(r) => EndMoves(r)
    BY <1>0, <1>h DEF Deliver, EndMoves
  <1>15. Fail(r) => FailMoves(r)
    BY <1>0, <1>b DEF Fail, FailMoves
  <1>16. Lose(r) => EndMoves(r)
    BY <1>0, <1>h DEF Lose, EndMoves
  <1> QED
    BY <1>1, <1>2, <1>3, <1>4, <1>5, <1>6, <1>7, <1>8, <1>9, <1>10, <1>11, <1>12, <1>13, <1>14, <1>15, <1>16

(* The requests keep their types, and the shape that each step has. *)
LEMMA MovedShaped ==
    ASSUME Shaped, NEW r \in Requests, NEW step, NEW u, NEW status,
           Moved(r, step, u, status), Shape(req'[r])
    PROVE  Shaped'
  BY DEF Shaped, Moved

(* A request that leaves has the shape of its operation. *)
LEMMA LeavesShaped ==
    ASSUME TypeOK, Shaped, NEW r \in Requests, Departs(r)
    PROVE  req' \in [Requests -> Req] /\ Shaped'
  <1>1. PICK c \in Callers, op \in Ops, e \in Emails \cup {None}, right \in BOOLEAN :
            Leaves(r, c, op, e, right)
    BY DEF Departs
  <1> DEFINE q == [Idle EXCEPT !.step = FirstStep(op), !.op = op, !.by = c, !.email = e,
                               !.right = right, !.access = jar[c].access,
                               !.refresh = jar[c].refresh,
                               !.prior = {s \in Requests : At(s, "over")}]
  <1>2. req \in [Requests -> Req] /\ req' = [req EXCEPT ![r] = q]
    BY <1>1 DEF TypeOK, Leaves
  <1>3. FirstStep(op) \in Steps
    BY DEF FirstStep, Ops, Steps
  <1>4. jar[c].access \in Token /\ jar[c].refresh \in Token
    BY DEF TypeOK
  <1>5. q \in Req
    BY <1>3, <1>4, IdleTyped DEF Req
  <1>6. /\ q.step = FirstStep(op) /\ q.op = op /\ q.user = None
        /\ q.status = 0 /\ q.open = FALSE
    BY DEF Idle
  <1> HIDE DEF q
  <1>7. Shape(q)
    <2>1. \/ op = "register" /\ q.step = "lookup"
          \/ op = "login" /\ q.step = "verify"
          \/ op = "refresh" /\ q.step = "get"
          \/ op = "logout" /\ q.step = "revoke"
          \/ op = "me" /\ q.step = "me"
          \/ op = "call" /\ q.step = "gate"
      BY <1>6 DEF FirstStep, Ops
    <2>2. OpAt(q)
      BY <1>6, <2>1 DEF OpAt
    <2>3. q.step \notin {"incr", "arm"} /\ ~q.open /\ q.status = 0
      BY <1>6, <2>1
    <2>4. QED
      BY <2>2, <2>3 DEF Shape
  <1>8. QED
    BY <1>2, <1>5, <1>7 DEF Shaped

(* Every handler's step keeps the shape of requests. *)
LEMMA ServeShaped ==
    ASSUME TypeOK, Shaped, NEW r \in Requests,
           Serve(r) \/ Deliver(r) \/ Fail(r) \/ Lose(r)
    PROVE  req' \in [Requests -> Req] /\ Shaped'
  <1> DEFINE Stays ==
          /\ req' \in [Requests -> Req] /\ \A s \in Requests \ {r} : req'[s] = req[s]
          /\ Shape(req'[r])
  <1>1. Shape(req[r]) /\ req[r] \in Req
    BY DEF Shaped, TypeOK
  <1>2. Lookup(r) => Stays
    BY <1>1, Moves DEF LookupMoves, At, Moved, Shape, OpAt
  <1>3. Insert(r) => Stays
    BY <1>1, Moves DEF InsertMoves, At, Moved, Shape, OpAt
  <1>4. Verify(r) => Stays
    BY <1>1, Moves DEF VerifyMoves, At, Moved, Shape, OpAt
  <1>5. GetSession(r) => Stays
    <2> SUFFICES ASSUME GetSession(r) PROVE Stays
      OBVIOUS
    <2>1. GetSessionMoves(r)
      BY Moves
    <2>2. ~req[r].open /\ req[r].op = "refresh" /\ req[r].status = 0
      BY <1>1, <2>1 DEF GetSessionMoves, At, Shape, OpAt
    <2>3. CASE Moved(r, "answered", req[r].user, 401)
      BY <2>2, <2>3 DEF Moved, Shape, OpAt
    <2>4. CASE \E u \in Users \cup {None} : Moved(r, "find", u, req[r].status)
      BY <2>2, <2>4 DEF Moved, Shape, OpAt
    <2> QED
      BY <2>1, <2>3, <2>4 DEF GetSessionMoves
  <1>6. FindUser(r) => Stays
    BY <1>1, Moves DEF FindUserMoves, At, Moved, Shape, OpAt
  <1>7. Revoke(r) => Stays
    BY <1>1, Moves DEF RevokeMoves, At, Moved, Shape, OpAt
  <1>8. WriteAudit(r) => Stays
    <2> SUFFICES ASSUME WriteAudit(r) PROVE Stays
      OBVIOUS
    <2>1. WriteAuditMoves(r)
      BY Moves
    <2>2. ~req[r].open /\ req[r].status = 0
      BY <1>1, <2>1 DEF WriteAuditMoves, At, Shape, OpAt
    <2>3. CASE req[r].op \in {"register", "login"} /\ Moved(r, "store", req[r].user, req[r].status)
      BY <2>2, <2>3 DEF Moved, Shape, OpAt
    <2>4. CASE Moved(r, "answered", req[r].user, 200)
      BY <2>2, <2>4 DEF Moved, Shape, OpAt
    <2>5. CASE Moved(r, "answered", req[r].user, 401)
      BY <2>2, <2>5 DEF Moved, Shape, OpAt
    <2> QED
      BY <2>1, <2>3, <2>4, <2>5 DEF WriteAuditMoves
  <1>9. StoreSession(r) => Stays
    BY <1>1, Moves DEF StoreSessionMoves, At, Moved, Shape, OpAt
  <1>10. Me(r) => Stays
    BY <1>1, Moves DEF MeMoves, At, Moved, Shape, OpAt
  <1>11. Gate(r) => Stays
    BY <1>1, Moves DEF GateMoves, At, Moved, Shape, OpAt
  <1>12. Incr(r) => Stays
    <2> SUFFICES ASSUME Incr(r) PROVE Stays
      OBVIOUS
    <2>1. IncrMoves(r)
      BY Moves
    <2>2. ~req[r].open /\ req[r].op = "call" /\ req[r].user \in Users /\ req[r].status = 0
      BY <1>1, <2>1 DEF IncrMoves, At, Shape, OpAt
    <2>3. CASE Moved(r, "arm", req[r].user, req[r].status)
      BY <2>2, <2>3 DEF Moved, Shape, OpAt
    <2>4. CASE Moved(r, "proxy", req[r].user, req[r].status)
      BY <2>2, <2>4 DEF Moved, Shape, OpAt
    <2>5. CASE Moved(r, "answered", req[r].user, 429)
      BY <2>2, <2>5 DEF Moved, Shape, OpAt
    <2> QED
      BY <2>1, <2>3, <2>4, <2>5 DEF IncrMoves
  <1>13. Expire(r) => Stays
    BY <1>1, Moves DEF ExpireMoves, At, Moved, Shape, OpAt
  <1>14. Proxy(r) => Stays
    <2> SUFFICES ASSUME Proxy(r) PROVE Stays
      OBVIOUS
    <2>1. ProxyMoves(r)
      BY Moves
    <2>2. req[r].op = "call" /\ req[r].status = 0
      BY <1>1, <2>1 DEF ProxyMoves, At, Shape, OpAt
    <2>3. PICK status \in {200, 401} : Moved(r, "answered", req[r].user, status)
      BY <2>1 DEF ProxyMoves
    <2> QED
      BY <2>2, <2>3 DEF Moved, Shape, OpAt
  <1>15. Deliver(r) => Stays
    BY <1>1, Moves DEF EndMoves, At, Moved, Shape, OpAt
  <1>16. Fail(r) => Stays
    <2> SUFFICES ASSUME Fail(r) PROVE Stays
      OBVIOUS
    <2>1. FailMoves(r)
      BY Moves
    <2> QED
      BY <1>1, <2>1 DEF FailMoves, Moved, Shape, OpAt
  <1>17. Lose(r) => Stays
    BY <1>1, Moves DEF EndMoves, At, Moved, Shape, OpAt
  <1>18. Stays
    BY <1>2, <1>3, <1>4, <1>5, <1>6, <1>7, <1>8, <1>9, <1>10, <1>11, <1>12, <1>13, <1>14, <1>15, <1>16, <1>17 DEF Serve
  <1> QED
    BY <1>18 DEF Shaped

(* A request that the limiter breaks off: it goes on to the proxy, or is   *)
(* over.  It is left open if it has begun the counter that it has not      *)
(* armed.                                                                  *)
BrokenOff(r, u) ==
    \/ UNCHANGED <<counter, ttl>> /\ (req'[r].open <=> req[r].step = "arm")
    \/ /\ req[r].step = "incr" /\ counter' = [counter EXCEPT ![u] = @ + 1] /\ ttl' = ttl
       /\ req'[r].open <=> counter[u] = 0
    \/ /\ req[r].step = "arm" /\ counter' = counter /\ ttl' = [ttl EXCEPT ![u] = TRUE]
       /\ req'[r].open <=> req[r].open

LEMMA BreakingMoves ==
    ASSUME TypeOK, NEW r \in Requests, NEW next \in {"proxy", "over"}, BreaksOff(r, next)
    PROVE
        /\ req' \in [Requests -> Req] /\ \A s \in Requests \ {r} : req'[s] = req[s]
        /\ req'[r].step = next
        /\ req'[r].op = req[r].op /\ req'[r].by = req[r].by /\ req'[r].user = req[r].user
        /\ req'[r].status = req[r].status /\ req'[r].access = req[r].access
        /\ req'[r].refresh = req[r].refresh /\ req'[r].prior = req[r].prior
        /\ BrokenOff(r, req[r].user)
  <1> DEFINE Kept == /\ req' \in [Requests -> Req] /\ \A s \in Requests \ {r} : req'[s] = req[s]
                     /\ req'[r].step = next
                     /\ req'[r].op = req[r].op /\ req'[r].by = req[r].by
                     /\ req'[r].user = req[r].user
                     /\ req'[r].status = req[r].status /\ req'[r].access = req[r].access
                     /\ req'[r].refresh = req[r].refresh /\ req'[r].prior = req[r].prior
  <1>1. req \in [Requests -> Req] /\ req[r] \in Req /\ req[r].open \in BOOLEAN
    BY DEF TypeOK, Req
  <1>2. ASSUME NEW open \in BOOLEAN, req' = [req EXCEPT ![r].step = next, ![r].open = open]
        PROVE  Kept /\ req'[r].open = open
    <2>1. req' = [req EXCEPT ![r] = [req[r] EXCEPT !.step = next, !.open = open]]
      BY <1>1, <1>2
    <2>2. [req[r] EXCEPT !.step = next, !.open = open] \in Req
      BY <1>1 DEF Req, Steps
    <2>3. QED
      BY <1>1, <2>1, <2>2 DEF Req
  <1>3. ASSUME req' = [req EXCEPT ![r].step = next]
        PROVE  Kept /\ req'[r].open = req[r].open
    <2>1. req' = [req EXCEPT ![r] = [req[r] EXCEPT !.step = next]]
      BY <1>1, <1>3
    <2>2. [req[r] EXCEPT !.step = next] \in Req
      BY <1>1 DEF Req, Steps
    <2>3. QED
      BY <1>1, <2>1, <2>2 DEF Req
  <1> HIDE DEF Kept
  <1>4. CASE /\ UNCHANGED <<counter, ttl>>
             /\ req' = [req EXCEPT ![r].step = next, ![r].open = At(r, "arm")]
    <2>1. PICK open \in BOOLEAN : open = At(r, "arm")
      BY DEF At
    <2>2. Kept /\ req'[r].open = open
      BY <1>2, <1>4, <2>1
    <2>3. QED
      BY <1>4, <2>1, <2>2 DEF BrokenOff, Kept, At
  <1>5. CASE /\ At(r, "incr") /\ counter' = [counter EXCEPT ![req[r].user] = @ + 1]
             /\ UNCHANGED ttl
             /\ req' = [req EXCEPT ![r].step = next, ![r].open = counter[req[r].user] = 0]
    <2>1. PICK open \in BOOLEAN : open = (counter[req[r].user] = 0)
      BY DEF At
    <2>2. Kept /\ req'[r].open = open
      BY <1>2, <1>5, <2>1
    <2>3. QED
      BY <1>5, <2>1, <2>2 DEF BrokenOff, Kept, At
  <1>6. CASE /\ At(r, "arm") /\ ttl' = [ttl EXCEPT ![req[r].user] = TRUE] /\ UNCHANGED counter
             /\ req' = [req EXCEPT ![r].step = next]
    BY <1>3, <1>6 DEF BrokenOff, Kept, At
  <1>7. QED
    BY <1>4, <1>5, <1>6 DEF BreaksOff

(* So does the limiter when it breaks off. *)
LEMMA BreakingShaped ==
    ASSUME TypeOK, Shaped, NEW r \in Requests, NEW next \in {"proxy", "over"},
           BreaksOff(r, next)
    PROVE  req' \in [Requests -> Req] /\ Shaped'
  <1>1. Shape(req[r])
    BY DEF Shaped
  <1>2. req[r].step \in {"incr", "arm"}
    BY DEF BreaksOff, At
  <1>3. req[r].op = "call" /\ req[r].user \in Users /\ req[r].status = 0
    BY <1>1, <1>2 DEF Shape, OpAt
  <1>4. Shape(req'[r])
    BY <1>3, BreakingMoves DEF Shape, OpAt
  <1>5. QED
    BY <1>4, BreakingMoves DEF Shaped

(* So does every step. *)
LEMMA NextShaped ==
    ASSUME TypeOK, Shaped, [Next]_vars
    PROVE  req' \in [Requests -> Req] /\ Shaped'
  <1> DEFINE Goal == req' \in [Requests -> Req] /\ Shaped'
  <1>1. ASSUME req' = req PROVE Goal
    BY <1>1 DEF TypeOK, Shaped
  <1>2. ASSUME NEW r \in Requests, Send(r) PROVE Goal
    BY <1>2, Departures, LeavesShaped
  <1>3. ASSUME NEW r \in Requests, Serve(r) \/ Deliver(r) \/ Fail(r) \/ Lose(r) PROVE Goal
    BY <1>3, ServeShaped
  <1>4. ASSUME NEW r \in Requests, FailOpen(r) \/ GatewayLost(r) PROVE Goal
    BY <1>4, BreakingShaped DEF FailOpen, GatewayLost
  <1>5. ASSUME NEW r \in Requests, AccessExpires(r) PROVE Goal
    BY <1>1, <1>5 DEF AccessExpires
  <1>6. ASSUME NEW u \in Users, WindowEnds(u) PROVE Goal
    BY <1>1, <1>6 DEF WindowEnds
  <1>7. ASSUME NEW a \in accounts, RemoveUser(a) PROVE Goal
    BY <1>1, <1>7 DEF RemoveUser
  <1>8. ASSUME Over \/ UNCHANGED vars PROVE Goal
    BY <1>1, <1>8 DEF Over, vars
  <1>9. QED
    BY <1>2, <1>3, <1>4, <1>5, <1>6, <1>7, <1>8 DEF Next

(* The cookies of every caller are tokens. *)
LEMMA JarTyped ==
    ASSUME TypeOK, [Next]_vars
    PROVE  jar' \in [Callers -> [access : Token, refresh : Token]]
  <1> DEFINE Goal == jar' \in [Callers -> [access : Token, refresh : Token]]
  <1>0. jar \in [Callers -> [access : Token, refresh : Token]]
    BY DEF TypeOK
  <1>1. ASSUME jar' = jar PROVE Goal
    BY <1>0, <1>1
  <1>2. ASSUME NEW r \in Requests, Deliver(r) PROVE Goal
    <2>1. ASSUME req[r].by \in Callers
          PROVE  Cookies(r) \in [access : Token, refresh : Token]
      BY <1>0, <2>1 DEF Cookies, NoCookies, Token
    <2>2. jar' = [jar EXCEPT ![req[r].by] = Cookies(r)]
      BY <1>2 DEF Deliver
    <2>3. QED
      BY <1>0, <2>1, <2>2
  <1>3. ASSUME NEW t \in Requests, AccessExpires(t) PROVE Goal
    <2>1. jar' = [c \in Callers |-> IF jar[c].access = t THEN [jar[c] EXCEPT !.access = None]
                                    ELSE jar[c]]
      BY <1>3 DEF AccessExpires
    <2>2. \A c \in Callers : [jar[c] EXCEPT !.access = None] \in [access : Token, refresh : Token]
      BY <1>0 DEF Token
    <2>3. QED
      BY <1>0, <2>1, <2>2
  <1>4. ASSUME NEW r \in Requests, Send(r) PROVE Goal
    BY <1>1, <1>4, Departures DEF Departs, Leaves
  <1>5. ASSUME NEW r \in Requests, Serve(r) PROVE Goal
    BY <1>1, <1>5 DEF Serve, Lookup, Insert, Verify, GetSession, FindUser, Revoke, WriteAudit,
                      StoreSession, Me, Gate, Incr, Expire, Proxy
  <1>6. ASSUME NEW r \in Requests, Fail(r) \/ FailOpen(r) \/ GatewayLost(r) \/ Lose(r)
        PROVE  Goal
    BY <1>1, <1>6 DEF Fail, FailOpen, GatewayLost, BreaksOff, Lose
  <1>7. ASSUME NEW u \in Users, WindowEnds(u) PROVE Goal
    BY <1>1, <1>7 DEF WindowEnds
  <1>8. ASSUME NEW a \in accounts, RemoveUser(a) PROVE Goal
    BY <1>1, <1>8 DEF RemoveUser
  <1>9. ASSUME Over \/ UNCHANGED vars PROVE Goal
    BY <1>1, <1>9 DEF Over, vars
  <1>10. QED
    BY <1>2, <1>3, <1>4, <1>5, <1>6, <1>7, <1>8, <1>9 DEF Next

(* What auth-service and Redis hold keeps its types. *)
StoreTyped ==
    /\ \A a \in accounts : a.id \in Users
    /\ DOMAIN sessions \subseteq Requests
    /\ \A t \in DOMAIN sessions : sessions[t] \in Users \cup {None}

LimiterTyped ==
    counter \in [Users -> Nat] /\ ttl \in [Users -> BOOLEAN] /\ admitted \in [Users -> Nat]

(* What the steps leave in Postgres and Redis has the types of TypeOK. *)
LEMMA StoreKept ==
    ASSUME TypeOK, [Next]_vars
    PROVE  StoreTyped'
  <1>0. StoreTyped /\ req \in [Requests -> Req]
    BY DEF TypeOK, StoreTyped
  <1>1. ASSUME accounts' = accounts, sessions' = sessions PROVE StoreTyped'
    BY <1>0, <1>1 DEF StoreTyped
  <1>2. ASSUME NEW r \in Requests, Insert(r) PROVE StoreTyped'
    <2>1. \A a \in accounts' : a \in accounts \/ a.id = r
      BY <1>2 DEF Insert
    <2>2. QED
      BY <1>0, <1>2, <2>1 DEF StoreTyped, Insert, Users
  <1>3. ASSUME NEW r \in Requests, Revoke(r) PROVE StoreTyped'
    <2>1. sessions' = [t \in DOMAIN sessions \ {req[r].refresh} |-> sessions[t]]
      BY <1>3 DEF Revoke
    <2>2. accounts' = accounts
      BY <1>3 DEF Revoke
    <2>3. QED
      BY <1>0, <2>1, <2>2 DEF StoreTyped
  <1>4. ASSUME NEW r \in Requests, StoreSession(r) PROVE StoreTyped'
    <2>1. sessions' = [t \in DOMAIN sessions \cup {r} |->
                          IF t = r THEN req[r].user ELSE sessions[t]]
      BY <1>4 DEF StoreSession
    <2>2. accounts' = accounts
      BY <1>4 DEF StoreSession
    <2>3. req[r].user \in Users \cup {None}
      BY <1>0 DEF Req
    <2>4. QED
      BY <1>0, <2>1, <2>2, <2>3 DEF StoreTyped
  <1>5. ASSUME NEW a \in accounts, RemoveUser(a) PROVE StoreTyped'
    BY <1>0, <1>5 DEF RemoveUser, StoreTyped
  <1>6. ASSUME NEW r \in Requests, Serve(r) PROVE StoreTyped'
    BY <1>1, <1>2, <1>3, <1>4, <1>6
       DEF Serve, Lookup, Verify, GetSession, FindUser, WriteAudit, Me, Gate, Incr, Expire,
           Proxy, store
  <1>7. ASSUME NEW r \in Requests, Send(r) PROVE StoreTyped'
    BY <1>1, <1>7, Departures DEF Departs, Leaves, store
  <1>8. ASSUME NEW r \in Requests,
               \/ Deliver(r) \/ Fail(r) \/ FailOpen(r) \/ GatewayLost(r) \/ Lose(r)
               \/ AccessExpires(r)
        PROVE  StoreTyped'
    BY <1>1, <1>8
       DEF Deliver, Fail, FailOpen, GatewayLost, BreaksOff, Lose, AccessExpires, store
  <1>9. ASSUME NEW u \in Users, WindowEnds(u) PROVE StoreTyped'
    BY <1>1, <1>9 DEF WindowEnds, store
  <1>10. ASSUME Over \/ UNCHANGED vars PROVE StoreTyped'
    BY <1>1, <1>10 DEF Over, vars
  <1>11. QED
    BY <1>5, <1>6, <1>7, <1>8, <1>9, <1>10 DEF Next

(* So have the limiter's counters. *)
LEMMA LimiterKept ==
    ASSUME TypeOK, Shaped, [Next]_vars
    PROVE  LimiterTyped'
  <1>0. LimiterTyped
    BY DEF TypeOK, LimiterTyped
  <1>a. ASSUME NEW r \in Requests, req[r].step \in {"incr", "arm"}
        PROVE  req[r].user \in Users
    BY <1>a DEF Shaped, Shape
  <1>1. ASSUME UNCHANGED limiter PROVE LimiterTyped'
    BY <1>0, <1>1 DEF LimiterTyped, limiter
  <1>2. ASSUME NEW r \in Requests, Incr(r) PROVE LimiterTyped'
    <2>1. req[r].user \in Users
      BY <1>a, <1>2 DEF Incr, At
    <2>2. QED
      BY <1>0, <1>2, <2>1 DEF LimiterTyped, Incr, Admit
  <1>3. ASSUME NEW r \in Requests, Expire(r) PROVE LimiterTyped'
    <2>1. req[r].user \in Users
      BY <1>a, <1>3 DEF Expire, At
    <2>2. QED
      BY <1>0, <1>3, <2>1 DEF LimiterTyped, Expire, Admit
  <1>4. ASSUME NEW r \in Requests, FailOpen(r) \/ GatewayLost(r) PROVE LimiterTyped'
    <2>1. req[r].user \in Users
      BY <1>a, <1>4 DEF FailOpen, GatewayLost, BreaksOff, At
    <2>2. /\ counter' = counter \/ counter' = [counter EXCEPT ![req[r].user] = @ + 1]
          /\ ttl' = ttl \/ ttl' = [ttl EXCEPT ![req[r].user] = TRUE]
          /\ admitted' = admitted
      BY <1>4 DEF FailOpen, GatewayLost, BreaksOff
    <2>3. counter' \in [Users -> Nat]
      BY <1>0, <2>1, <2>2 DEF LimiterTyped
    <2>4. ttl' \in [Users -> BOOLEAN] /\ admitted' \in [Users -> Nat]
      BY <1>0, <2>1, <2>2 DEF LimiterTyped
    <2>5. QED
      BY <2>3, <2>4 DEF LimiterTyped
  <1>5. ASSUME NEW u \in Users, WindowEnds(u) PROVE LimiterTyped'
    BY <1>0, <1>5 DEF LimiterTyped, WindowEnds
  <1>6. ASSUME NEW r \in Requests, Serve(r) PROVE LimiterTyped'
    BY <1>1, <1>2, <1>3, <1>6
       DEF Serve, Lookup, Insert, Verify, GetSession, FindUser, Revoke, WriteAudit,
           StoreSession, Me, Gate, Proxy
  <1>7. ASSUME NEW r \in Requests, Send(r) PROVE LimiterTyped'
    BY <1>1, <1>7, Departures DEF Departs, Leaves
  <1>8. ASSUME NEW r \in Requests, Deliver(r) \/ Fail(r) \/ Lose(r) \/ AccessExpires(r)
        PROVE  LimiterTyped'
    BY <1>1, <1>8 DEF Deliver, Fail, Lose, AccessExpires
  <1>9. ASSUME NEW a \in accounts, RemoveUser(a) PROVE LimiterTyped'
    BY <1>1, <1>9 DEF RemoveUser, limiter
  <1>10. ASSUME Over \/ UNCHANGED vars PROVE LimiterTyped'
    BY <1>1, <1>10 DEF Over, vars, limiter
  <1>11. QED
    BY <1>4, <1>5, <1>6, <1>7, <1>8, <1>9, <1>10 DEF Next

(* The type invariant of the sessions, with what is known of a request at  *)
(* each of its handler's steps.                                            *)
Inv == TypeOK /\ Shaped

(* The invariant holds at the start. *)
LEMMA InitTyped ==
    ASSUME Init
    PROVE  Inv
  <1>1. \A r \in Requests : req[r] = Idle
    BY DEF Init
  <1>2. req \in [Requests -> Req] /\ Shaped
    BY <1>1, IdleTyped DEF Init, Shaped
  <1>3. \A a \in accounts : a.id = "first"
    BY DEF Init
  <1>4. jar \in [Callers -> [access : Token, refresh : Token]]
    BY DEF Init, NoCookies, Token
  <1>5. sessions = [t \in {} |-> None] /\ DOMAIN sessions = {}
    BY DEF Init
  <1>6. LimiterTyped
    BY DEF Init, LimiterTyped
  <1>7. QED
    BY <1>2, <1>3, <1>4, <1>5, <1>6 DEF Inv, TypeOK, Users, LimiterTyped

(* Every step keeps it. *)
LEMMA NextTyped ==
    ASSUME Inv, [Next]_vars
    PROVE  Inv'
  <1>1. TypeOK /\ Shaped
    BY DEF Inv
  <1>2. /\ req' \in [Requests -> Req] /\ Shaped'
        /\ jar' \in [Callers -> [access : Token, refresh : Token]]
        /\ StoreTyped' /\ LimiterTyped'
    BY <1>1, NextShaped, JarTyped, StoreKept, LimiterKept
  <1>3. QED
    BY <1>2 DEF Inv, TypeOK, StoreTyped, LimiterTyped

(* Requests, cookies, accounts, sessions and the limiter's counters stay   *)
(* what the handlers make them, and each step belongs to its operation.    *)
THEOREM Typed == Spec => []Inv
  <1>1. Init => Inv
    BY InitTyped
  <1>2. Inv /\ [Next]_vars => Inv'
    BY NextTyped
  <1>3. QED
    BY <1>1, <1>2, PTL DEF Spec

-----------------------------------------------------------------------------
(* The rate limiter.  While a request stands between the INCR that made a  *)
(* counter and its EXPIRE, the counter has no expiry, nobody else arms it, *)
(* and it counts that request, which is not admitted yet.                  *)
Counted ==
    /\ \A u \in Users : admitted[u] <= counter[u] /\ admitted[u] <= RATE_LIMIT_MAX
    /\ \A u \in Users : ttl[u] => counter[u] > 0

Armed ==
    \A r \in Requests : At(r, "arm") =>
        /\ ~ttl[req[r].user]
        /\ admitted[req[r].user] < counter[req[r].user]
        /\ admitted[req[r].user] < RATE_LIMIT_MAX

OneArms ==
    \A r, s \in Requests :
        At(r, "arm") /\ At(s, "arm") /\ req[r].user = req[s].user => r = s

LimiterInv == Counted /\ Armed /\ OneArms /\ CounterExpires

(* A step that leaves the limiter, and the requests that it is about, alone *)
Aside ==
    /\ UNCHANGED limiter
    /\ \A r \in Requests :
          /\ req'[r].step = "arm" <=> req[r].step = "arm"
          /\ req[r].step = "arm" \/ req[r].open => req'[r].user = req[r].user
          /\ req[r].open => req'[r].open

(* A step aside from the limiter keeps LimiterInv. *)
LEMMA AsideKeeps ==
    ASSUME LimiterInv, Aside
    PROVE  LimiterInv'
  <1>1. Counted'
    BY DEF LimiterInv, Counted, Aside, limiter
  <1>2. Armed' /\ OneArms'
    BY DEF LimiterInv, Armed, OneArms, At, Aside, limiter
  <1>3. CounterExpires'
    BY DEF LimiterInv, CounterExpires, At, Aside, limiter
  <1>4. QED
    BY <1>1, <1>2, <1>3 DEF LimiterInv

(* A request that moves aside from the limiter is such a step. *)
LEMMA MovedAside ==
    ASSUME NEW r \in Requests, NEW step, NEW u, NEW status, Moved(r, step, u, status),
           step # "arm", req[r].step # "arm", req[r].open => u = req[r].user,
           UNCHANGED limiter
    PROVE  Aside
  BY DEF Moved, Aside

(* All handlers but INCR and EXPIRE are aside from the limiter. *)
LEMMA ServeAside ==
    ASSUME Inv, NEW r \in Requests, Serve(r) \/ Deliver(r) \/ Fail(r) \/ Lose(r),
           ~Incr(r), ~Expire(r)
    PROVE  Aside
  <1>1. TypeOK /\ Shape(req[r])
    BY DEF Inv, Shaped
  <1>2. ASSUME NEW step, NEW u, NEW status, Moved(r, step, u, status), step # "arm",
               req[r].step \notin {"arm", "proxy", "answered", "over"}, UNCHANGED limiter
        PROVE  Aside
    BY <1>1, <1>2, MovedAside DEF Shape
  <1>3. ASSUME NEW step, NEW status, Moved(r, step, req[r].user, status), step # "arm",
               req[r].step # "arm", UNCHANGED limiter
        PROVE  Aside
    BY <1>3, MovedAside
  <1>4. ASSUME Lookup(r) PROVE Aside
    <2>1. LookupMoves(r) /\ UNCHANGED limiter
      BY <1>1, <1>4, Moves DEF Lookup
    <2>2. QED
      BY <1>2, <2>1 DEF LookupMoves, At
  <1>5. ASSUME Insert(r) PROVE Aside
    <2>1. InsertMoves(r) /\ UNCHANGED limiter
      BY <1>1, <1>5, Moves DEF Insert
    <2>2. QED
      BY <1>2, <2>1 DEF InsertMoves, At
  <1>6. ASSUME Verify(r) PROVE Aside
    <2>1. VerifyMoves(r) /\ UNCHANGED limiter
      BY <1>1, <1>6, Moves DEF Verify
    <2>2. QED
      BY <1>2, <2>1 DEF VerifyMoves, At
  <1>7. ASSUME GetSession(r) PROVE Aside
    <2>1. GetSessionMoves(r) /\ UNCHANGED limiter
      BY <1>1, <1>7, Moves DEF GetSession
    <2>2. QED
      BY <1>2, <2>1 DEF GetSessionMoves, At
  <1>8. ASSUME FindUser(r) PROVE Aside
    <2>1. FindUserMoves(r) /\ UNCHANGED limiter
      BY <1>1, <1>8, Moves DEF FindUser
    <2>2. QED
      BY <1>2, <2>1 DEF FindUserMoves, At
  <1>9. ASSUME Revoke(r) PROVE Aside
    <2>1. RevokeMoves(r) /\ UNCHANGED limiter
      BY <1>1, <1>9, Moves DEF Revoke
    <2>2. QED
      BY <1>2, <2>1 DEF RevokeMoves, At
  <1>10. ASSUME WriteAudit(r) PROVE Aside
    <2>1. WriteAuditMoves(r) /\ UNCHANGED limiter
      BY <1>1, <1>10, Moves DEF WriteAudit
    <2>2. QED
      BY <1>2, <2>1 DEF WriteAuditMoves, At
  <1>11. ASSUME StoreSession(r) PROVE Aside
    <2>1. StoreSessionMoves(r) /\ UNCHANGED limiter
      BY <1>1, <1>11, Moves DEF StoreSession
    <2>2. QED
      BY <1>2, <2>1 DEF StoreSessionMoves, At
  <1>12. ASSUME Me(r) PROVE Aside
    <2>1. MeMoves(r) /\ UNCHANGED limiter
      BY <1>1, <1>12, Moves DEF Me
    <2>2. QED
      BY <1>2, <2>1 DEF MeMoves, At
  <1>13. ASSUME Gate(r) PROVE Aside
    <2>1. GateMoves(r) /\ UNCHANGED limiter
      BY <1>1, <1>13, Moves DEF Gate
    <2>2. QED
      BY <1>2, <2>1 DEF GateMoves, At
  <1>14. ASSUME Proxy(r) PROVE Aside
    <2>1. ProxyMoves(r) /\ UNCHANGED limiter
      BY <1>1, <1>14, Moves DEF Proxy
    <2>2. QED
      BY <1>3, <2>1 DEF ProxyMoves, At
  <1>15. ASSUME Deliver(r) PROVE Aside
    <2>1. EndMoves(r) /\ UNCHANGED limiter
      BY <1>1, <1>15, Moves DEF Deliver
    <2>2. QED
      BY <1>3, <2>1 DEF EndMoves, At
  <1>16. ASSUME Fail(r) PROVE Aside
    <2>1. FailMoves(r) /\ UNCHANGED limiter
      BY <1>1, <1>16, Moves DEF Fail
    <2>2. QED
      BY <1>3, <2>1 DEF FailMoves, At
  <1>17. ASSUME Lose(r) PROVE Aside
    <2>1. EndMoves(r) /\ UNCHANGED limiter
      BY <1>1, <1>17, Moves DEF Lose
    <2>2. QED
      BY <1>3, <2>1 DEF EndMoves, At
  <1> QED
    BY <1>4, <1>5, <1>6, <1>7, <1>8, <1>9, <1>10, <1>11, <1>12, <1>13, <1>14, <1>15, <1>16, <1>17 DEF Serve

(* INCR keeps LimiterInv: the first request goes on to EXPIRE alone. *)
LEMMA IncrLimited ==
    ASSUME Inv, LimiterInv, NEW r \in Requests, Incr(r)
    PROVE  LimiterInv'
  <1> DEFINE u == req[r].user
  <1>1. /\ TypeOK /\ Shape(req[r]) /\ req[r].step = "incr"
        /\ u \in Users /\ ~req[r].open
    BY DEF Inv, Shaped, Shape, Incr, At
  <1>2. /\ \A v \in Users : counter[v] \in Nat /\ admitted[v] \in Nat
        /\ RATE_LIMIT_MAX \in Nat \ {0}
    BY <1>1, SessionsAssumption DEF TypeOK
  <1>3. \A v \in Users : counter'[v] = IF v = u THEN counter[v] + 1 ELSE counter[v]
    BY <1>1 DEF Incr, TypeOK
  <1>4. ttl' = ttl
    BY DEF Incr
  <1>5. \A s \in Requests : req[s].step = "arm" => req[s].user \in Users
    BY DEF Inv, Shaped, Shape
  <1> HIDE DEF u
  <1>6. CASE counter[u] = 0 /\ Go(r, "arm") /\ admitted' = admitted
    <2>1. Moved(r, "arm", u, req[r].status)
      BY <1>1, <1>6, GoMoves DEF Steps, u
    <2>2. \A s \in Requests : req[s].step = "arm" => req[s].user # u
      BY <1>1, <1>2, <1>6 DEF LimiterInv, Armed, At
    <2>3. Counted'
      BY <1>2, <1>3, <1>4, <1>6 DEF LimiterInv, Counted
    <2>4. \A s \in Requests \ {r} : req'[s] = req[s]
      BY <2>1 DEF Moved
    <2>5. req'[r].user = u /\ req'[r].step = "arm"
      BY <2>1 DEF Moved
    <2>6. Armed'
      <3>1. ~ttl[u] /\ admitted[u] = 0
        BY <1>1, <1>2, <1>6 DEF LimiterInv, Counted
      <3>2. QED
        BY <1>1, <1>2, <1>3, <1>4, <1>5, <1>6, <2>2, <2>4, <2>5, <3>1 DEF LimiterInv, Armed, At
    <2>7. OneArms'
      BY <2>2, <2>4, <2>5 DEF LimiterInv, OneArms, At
    <2>8. CounterExpires'
      BY <1>1, <1>3, <1>4, <2>4, <2>5 DEF LimiterInv, CounterExpires, At
    <2>9. QED
      BY <2>3, <2>6, <2>7, <2>8 DEF LimiterInv
  <1>7. CASE counter[u] \in 1 .. RATE_LIMIT_MAX - 1 /\ Admit(r)
    <2>1. Moved(r, "proxy", u, req[r].status)
      BY <1>1, <1>7, GoMoves DEF Steps, u, Admit
    <2>2. \A v \in Users : admitted'[v] = IF v = u THEN admitted[v] + 1 ELSE admitted[v]
      BY <1>1, <1>7 DEF Admit, TypeOK, u
    <2>3. Counted'
      BY <1>2, <1>3, <1>4, <1>7, <2>2 DEF LimiterInv, Counted
    <2>4. /\ \A s \in Requests \ {r} : req'[s] = req[s]
          /\ req'[r].step = "proxy"
      BY <2>1 DEF Moved
    <2>5. Armed' /\ OneArms'
      <3>1. \A s \in Requests : req'[s].step = "arm" => s # r /\ req'[s] = req[s]
        BY <2>4
      <3>2. OneArms'
        BY <3>1 DEF LimiterInv, OneArms, At
      <3>3. Armed'
        <4> SUFFICES ASSUME NEW s \in Requests, req[s].step = "arm"
                     PROVE  /\ ~ttl'[req[s].user]
                            /\ admitted'[req[s].user] < counter'[req[s].user]
                            /\ admitted'[req[s].user] < RATE_LIMIT_MAX
          BY <3>1 DEF Armed, At
        <4>1. /\ req[s].user \in Users /\ ~ttl[req[s].user]
              /\ admitted[req[s].user] < counter[req[s].user]
              /\ admitted[req[s].user] < RATE_LIMIT_MAX
          BY <1>5 DEF LimiterInv, Armed, At
        <4>2. QED
          BY <1>2, <1>3, <1>4, <1>7, <2>2, <4>1
      <3>4. QED
        BY <3>2, <3>3
    <2>6. CounterExpires'
      BY <1>1, <1>2, <1>3, <1>4, <1>7, <2>4 DEF LimiterInv, CounterExpires, At
    <2>7. QED
      BY <2>3, <2>5, <2>6 DEF LimiterInv
  <1>8. CASE counter[u] >= RATE_LIMIT_MAX /\ Answer(r, 429) /\ admitted' = admitted
    <2>1. Moved(r, "answered", u, 429)
      BY <1>1, <1>8, AnswerMoves DEF u
    <2>2. /\ \A s \in Requests \ {r} : req'[s] = req[s]
          /\ req'[r].step = "answered"
      BY <2>1 DEF Moved
    <2>3. Counted'
      BY <1>2, <1>3, <1>4, <1>8 DEF LimiterInv, Counted
    <2>4. \A s \in Requests : req'[s].step = "arm" => s # r /\ req'[s] = req[s]
      BY <2>2
    <2>5. OneArms'
      BY <2>4 DEF LimiterInv, OneArms, At
    <2>6. Armed'
      BY <1>2, <1>3, <1>4, <1>5, <1>8, <2>4 DEF LimiterInv, Armed, At
    <2>7. CounterExpires'
      BY <1>1, <1>2, <1>3, <1>4, <1>8, <2>2 DEF LimiterInv, CounterExpires, At
    <2>8. QED
      BY <2>3, <2>5, <2>6, <2>7 DEF LimiterInv
  <1>9. QED
    BY <1>6, <1>7, <1>8 DEF Incr, u

(* EXPIRE keeps it: the room left for the request is used. *)
LEMMA ExpireLimited ==
    ASSUME Inv, LimiterInv, NEW r \in Requests, Expire(r)
    PROVE  LimiterInv'
  <1> DEFINE u == req[r].user
  <1>1. TypeOK /\ Shape(req[r]) /\ req[r].step = "arm" /\ u \in Users
    BY DEF Inv, Shaped, Shape, Expire, At
  <1>2. \A v \in Users : counter[v] \in Nat /\ admitted[v] \in Nat
    BY <1>1 DEF TypeOK
  <1>3. /\ ttl'[u] /\ \A v \in Users \ {u} : ttl'[v] = ttl[v]
        /\ \A v \in Users : admitted'[v] = IF v = u THEN admitted[v] + 1 ELSE admitted[v]
        /\ counter' = counter
    BY <1>1 DEF Expire, Admit, TypeOK
  <1>4. \A s \in Requests : req[s].step = "arm" => req[s].user \in Users
    BY DEF Inv, Shaped, Shape
  <1>5. admitted[u] < counter[u] /\ admitted[u] < RATE_LIMIT_MAX
    BY <1>1 DEF LimiterInv, Armed, At
  <1>6. Moved(r, "proxy", u, req[r].status)
    BY <1>1, GoMoves DEF Expire, Admit, Steps
  <1> HIDE DEF u
  <1>7. /\ \A s \in Requests \ {r} : req'[s] = req[s]
        /\ req'[r].step = "proxy"
    BY <1>6 DEF Moved
  <1>8. Counted'
    <2>1. \A v \in Users : admitted'[v] <= counter'[v] /\ admitted'[v] <= RATE_LIMIT_MAX
      BY <1>2, <1>3, <1>5, SessionsAssumption DEF LimiterInv, Counted
    <2>2. \A v \in Users : ttl'[v] => counter'[v] > 0
      BY <1>2, <1>3, <1>5 DEF LimiterInv, Counted
    <2>3. QED
      BY <2>1, <2>2 DEF Counted
  <1>9. \A s \in Requests : req'[s].step = "arm" =>
            s # r /\ req'[s] = req[s] /\ req[s].user # u
    BY <1>1, <1>7 DEF LimiterInv, OneArms, At, u
  <1>10. Armed' /\ OneArms'
    BY <1>3, <1>4, <1>9 DEF LimiterInv, Armed, OneArms, At
  <1>11. CounterExpires'
    BY <1>1, <1>3, <1>7 DEF LimiterInv, CounterExpires, At, u
  <1>12. QED
    BY <1>8, <1>10, <1>11 DEF LimiterInv

(* What the limiter breaks off is not counted as admitted. *)
LEMMA BreakingLimited ==
    ASSUME Inv, LimiterInv, NEW r \in Requests, NEW next \in {"proxy", "over"},
           BreaksOff(r, next)
    PROVE  LimiterInv'
  <1> DEFINE u == req[r].user
  <1>1. /\ TypeOK /\ Shape(req[r]) /\ req[r].step \in {"incr", "arm"} /\ u \in Users
        /\ ~req[r].open
    BY DEF Inv, Shaped, Shape, BreaksOff, At
  <1>2. \A v \in Users : counter[v] \in Nat /\ admitted[v] \in Nat
    BY <1>1 DEF TypeOK
  <1>a. BrokenOff(r, u) /\ admitted' = admitted
    BY <1>1, BreakingMoves DEF BreaksOff
  <1>3. /\ \A v \in Users \ {u} : counter'[v] = counter[v] /\ ttl'[v] = ttl[v]
        /\ counter'[u] >= counter[u]
        /\ ttl'[u] => ttl[u] \/ req[r].step = "arm"
        /\ admitted' = admitted
    <2>1. CASE UNCHANGED <<counter, ttl>>
      BY <1>1, <1>2, <1>a, <2>1
    <2>2. CASE counter' = [counter EXCEPT ![u] = @ + 1] /\ ttl' = ttl
      BY <1>1, <1>2, <1>a, <2>2 DEF TypeOK
    <2>3. CASE req[r].step = "arm" /\ ttl' = [ttl EXCEPT ![u] = TRUE] /\ counter' = counter
      <3>1. \A v \in Users \ {u} : ttl'[v] = ttl[v]
        BY <1>1, <2>3 DEF TypeOK
      <3>2. counter' = counter /\ counter[u] \in Nat
        BY <1>1, <1>2, <2>3
      <3>3. counter'[u] >= counter[u]
        BY <3>2
      <3>4. QED
        BY <1>a, <2>3, <3>1, <3>2, <3>3
    <2>4. QED
      BY <1>a, <2>1, <2>2, <2>3 DEF BrokenOff
  <1>4. \A s \in Requests : req[s].step = "arm" => req[s].user \in Users
    BY DEF Inv, Shaped, Shape
  <1>5. /\ \A s \in Requests \ {r} : req'[s] = req[s]
        /\ req'[r].step = next /\ req'[r].user = u
    BY <1>1, BreakingMoves
  <1>6. counter'[u] \in Nat
    <2>1. counter' = counter \/ counter' = [counter EXCEPT ![u] = @ + 1]
      BY <1>a DEF BrokenOff
    <2>2. QED
      BY <1>1, <2>1 DEF TypeOK
  <1> HIDE DEF u
  <1>7. Counted'
    <2>1. req[r].step = "arm" => counter[u] > 0
      BY <1>1, <1>2 DEF LimiterInv, Armed, At, u
    <2>2. \A v \in Users : admitted'[v] <= counter'[v] /\ admitted'[v] <= RATE_LIMIT_MAX
      BY <1>2, <1>3, <1>6 DEF LimiterInv, Counted
    <2>3. \A v \in Users : ttl'[v] => counter'[v] > 0
      BY <1>1, <1>2, <1>3, <1>6, <2>1 DEF LimiterInv, Counted
    <2>4. QED
      BY <2>2, <2>3 DEF Counted
  <1>8. \A s \in Requests : req'[s].step = "arm" =>
            s # r /\ req'[s] = req[s] /\ (req[s].user = u => req[r].step # "arm")
    BY <1>1, <1>5 DEF LimiterInv, OneArms, At, u
  <1>9. OneArms'
    BY <1>8 DEF LimiterInv, OneArms, At
  <1>10. Armed'
    <2> SUFFICES ASSUME NEW s \in Requests, req'[s].step = "arm"
                 PROVE  /\ ~ttl'[req[s].user]
                        /\ admitted'[req[s].user] < counter'[req[s].user]
                        /\ admitted'[req[s].user] < RATE_LIMIT_MAX
      BY <1>8 DEF Armed, At
    <2>1. /\ req[s].step = "arm" /\ req[s].user \in Users
          /\ req[s].user = u => req[r].step # "arm"
      BY <1>4, <1>8
    <2>2. /\ ~ttl[req[s].user] /\ admitted[req[s].user] < counter[req[s].user]
          /\ admitted[req[s].user] < RATE_LIMIT_MAX
      BY <2>1 DEF LimiterInv, Armed, At
    <2>3. CASE req[s].user = u
      BY <1>1, <1>2, <1>3, <1>6, <2>1, <2>2, <2>3
    <2>4. CASE req[s].user # u
      BY <1>2, <1>3, <2>1, <2>2, <2>4
    <2>5. QED
      BY <2>3, <2>4
  <1>11. CounterExpires'
    <2> SUFFICES ASSUME NEW v \in Users, counter'[v] > 0, ~ttl'[v]
                 PROVE  \E s \in Requests :
                            req'[s].user = v /\ (req'[s].step = "arm" \/ req'[s].open)
      BY DEF CounterExpires, At
    <2>1. ASSUME counter[v] > 0, ~ttl[v]
          PROVE  \E s \in Requests : req[s].user = v /\ (req[s].step = "arm" \/ req[s].open)
      BY <2>1 DEF LimiterInv, CounterExpires, At
    <2>2. CASE v # u
      BY <1>3, <1>5, <2>1, <2>2 DEF u
    <2>3. CASE v = u /\ UNCHANGED <<counter, ttl>> /\ (req'[r].open <=> req[r].step = "arm")
      BY <1>1, <1>5, <2>1, <2>3
    <2>4. CASE /\ v = u /\ req[r].step = "incr" /\ counter' = [counter EXCEPT ![u] = @ + 1]
               /\ ttl' = ttl /\ (req'[r].open <=> counter[u] = 0)
      <3>1. CASE counter[u] = 0
        BY <1>5, <2>4, <3>1
      <3>2. CASE counter[u] # 0
        <4>1. counter[u] > 0
          BY <1>1, <1>2, <3>2
        <4>2. QED
          BY <1>1, <1>5, <2>1, <2>4, <4>1
      <3>3. QED
        BY <3>1, <3>2
    <2>5. CASE v = u /\ ttl' = [ttl EXCEPT ![u] = TRUE]
      BY <1>1, <2>5 DEF TypeOK
    <2>6. QED
      BY <1>a, <2>2, <2>3, <2>4, <2>5 DEF BrokenOff
  <1>12. QED
    BY <1>7, <1>9, <1>10, <1>11 DEF LimiterInv

(* The window ends only when nobody stands before EXPIRE. *)
LEMMA WindowEndsLimited ==
    ASSUME Inv, LimiterInv, NEW u \in Users, WindowEnds(u)
    PROVE  LimiterInv'
  <1>1. TypeOK /\ req' = req
    BY DEF Inv, WindowEnds
  <1>2. /\ \A v \in Users \ {u} :
             counter'[v] = counter[v] /\ ttl'[v] = ttl[v] /\ admitted'[v] = admitted[v]
        /\ counter'[u] = 0 /\ ~ttl'[u] /\ admitted'[u] = 0
    BY <1>1 DEF WindowEnds, TypeOK
  <1>3. \A s \in Requests : req[s].step = "arm" => req[s].user \in Users /\ req[s].user # u
    BY DEF Inv, Shaped, Shape, WindowEnds, LimiterInv, Armed, At
  <1>4. Counted'
    BY <1>2, SessionsAssumption DEF LimiterInv, Counted
  <1>5. Armed' /\ OneArms'
    BY <1>1, <1>2, <1>3 DEF LimiterInv, Armed, OneArms, At
  <1>6. CounterExpires'
    BY <1>1, <1>2 DEF LimiterInv, CounterExpires, At
  <1>7. QED
    BY <1>4, <1>5, <1>6 DEF LimiterInv

(* A request that leaves is no concern of the limiter. *)
LEMMA LeavesAside ==
    ASSUME Inv, NEW r \in Requests, Departs(r)
    PROVE  Aside
  <1>1. PICK c \in Callers, op \in Ops, e \in Emails \cup {None}, right \in BOOLEAN :
            Leaves(r, c, op, e, right)
    BY DEF Departs
  <1>2. req[r].step = "idle" /\ ~req[r].open /\ UNCHANGED limiter
    BY <1>1 DEF Inv, Shaped, Shape, Leaves, At
  <1>3. req \in [Requests -> Req]
    BY DEF Inv, TypeOK
  <1>4. /\ \A s \in Requests \ {r} : req'[s] = req[s]
        /\ req'[r].step = FirstStep(op)
    BY <1>1, <1>3 DEF Leaves, Idle
  <1>5. FirstStep(op) # "arm"
    BY DEF FirstStep, Ops
  <1>6. QED
    BY <1>2, <1>4, <1>5 DEF Aside

(* Every step keeps LimiterInv. *)
LEMMA NextLimited ==
    ASSUME Inv, LimiterInv, [Next]_vars
    PROVE  LimiterInv'
  <1>1. ASSUME UNCHANGED <<limiter, req>> PROVE LimiterInv'
    BY <1>1, AsideKeeps DEF Aside
  <1>2. ASSUME NEW r \in Requests, Send(r) PROVE LimiterInv'
    BY <1>2, Departures, LeavesAside, AsideKeeps DEF Inv
  <1>3. ASSUME NEW r \in Requests, Serve(r) \/ Deliver(r) \/ Fail(r) \/ Lose(r)
        PROVE  LimiterInv'
    BY <1>3, ServeAside, AsideKeeps, IncrLimited, ExpireLimited
  <1>4. ASSUME NEW r \in Requests, FailOpen(r) \/ GatewayLost(r) PROVE LimiterInv'
    BY <1>4, BreakingLimited DEF FailOpen, GatewayLost
  <1>5. ASSUME NEW r \in Requests, AccessExpires(r) PROVE LimiterInv'
    BY <1>1, <1>5 DEF AccessExpires
  <1>6. ASSUME NEW u \in Users, WindowEnds(u) PROVE LimiterInv'
    BY <1>6, WindowEndsLimited
  <1>7. ASSUME NEW a \in accounts, RemoveUser(a) PROVE LimiterInv'
    BY <1>1, <1>7 DEF RemoveUser
  <1>8. ASSUME Over \/ UNCHANGED vars PROVE LimiterInv'
    BY <1>1, <1>8 DEF Over, vars, limiter
  <1>9. QED
    BY <1>2, <1>3, <1>4, <1>5, <1>6, <1>7, <1>8 DEF Next

(* The limiter's invariant holds throughout. *)
LEMMA Limiting == Spec => []LimiterInv
  <1>1. Init => LimiterInv
    <2> SUFFICES ASSUME Init PROVE LimiterInv
      OBVIOUS
    <2>1. /\ \A u \in Users : counter[u] = 0 /\ ~ttl[u] /\ admitted[u] = 0
          /\ \A r \in Requests : req[r].step = "idle"
      BY DEF Init, Idle
    <2>2. QED
      BY <2>1, SessionsAssumption DEF LimiterInv, Counted, Armed, OneArms, CounterExpires, At
  <1>2. Inv /\ LimiterInv /\ [Next]_vars => LimiterInv'
    BY NextLimited
  <1>3. QED
    BY <1>1, <1>2, Typed, PTL DEF Spec

(* However the requests of a user interleave, and whenever the commands of *)
(* the limiter fail, no window admits more than RATE_LIMIT_MAX of them     *)
(* after a reply of Redis.                                                 *)
THEOREM NoMoreThanTheLimit == Spec => []WindowBound
  <1>1. LimiterInv => WindowBound
    BY DEF LimiterInv, Counted, WindowBound
  <1>2. QED
    BY <1>1, Limiting, PTL

(* A counter without an expiry has a request that is about to set one, or  *)
(* one that was broken off between INCR and EXPIRE, by a failure of Redis  *)
(* or with its gateway; by nothing else does a limit stay for ever.        *)
THEOREM CountersAreArmed == Spec => []CounterExpires
  <1>1. LimiterInv => CounterExpires
    BY DEF LimiterInv
  <1>2. QED
    BY <1>1, Limiting, PTL

-----------------------------------------------------------------------------
(* The audit log.  A registration or a log-in whose session is being       *)
(* stored has its row already; so has every request that was answered      *)
(* with tokens.                                                            *)
Logged(r) == <<Action(req[r].op), r>> \in log

Owes(op, step, status) ==
    \/ step = "store" /\ op \in {"register", "login"}
    \/ status \in {200, 201} /\ op \in {"register", "login", "refresh"}

LogInv == \A r \in Requests : Owes(req[r].op, req[r].step, req[r].status) => Logged(r)

(* A request that moves with its audit row written keeps LogInv. *)
LEMMA LogMoved ==
    ASSUME LogInv, NEW r \in Requests, NEW step, NEW u, NEW status,
           Moved(r, step, u, status), log \subseteq log',
           Owes(req[r].op, step, status) => <<Action(req[r].op), r>> \in log'
    PROVE  LogInv'
  <1>1. /\ \A s \in Requests \ {r} : req'[s] = req[s]
        /\ req'[r].step = step /\ req'[r].status = status /\ req'[r].op = req[r].op
    BY DEF Moved
  <1>2. ASSUME NEW s \in Requests, Owes(req'[s].op, req'[s].step, req'[s].status)
        PROVE  <<Action(req'[s].op), s>> \in log'
    <2>1. CASE s = r
      BY <1>1, <1>2, <2>1
    <2>2. CASE s # r
      BY <1>1, <1>2, <2>2 DEF LogInv, Logged
    <2>3. QED
      BY <2>1, <2>2
  <1>3. QED
    BY <1>2 DEF LogInv, Logged

(* Every handler's step keeps LogInv. *)
LEMMA ServeLogged ==
    ASSUME Inv, LogInv, NEW r \in Requests, Serve(r) \/ Deliver(r) \/ Fail(r) \/ Lose(r)
    PROVE  LogInv'
  <1>1. TypeOK /\ Shape(req[r])
    BY DEF Inv, Shaped
  <1>2. req[r].step \notin {"answered", "over"} => req[r].status = 0
    BY <1>1 DEF Shape
  <1>3. ASSUME NEW step, NEW u, NEW status, Moved(r, step, u, status), log \subseteq log',
               step # "store", status \notin {200, 201}
        PROVE  LogInv'
    BY <1>3, LogMoved DEF Owes
  <1>4. ASSUME NEW step, NEW u, NEW status, Moved(r, step, u, status), log \subseteq log',
               step # "store", req[r].op \notin {"register", "login", "refresh"}
        PROVE  LogInv'
    BY <1>4, LogMoved DEF Owes
  <1>5. ASSUME Lookup(r) PROVE LogInv'
    <2>1. LookupMoves(r) /\ log' = log
      BY <1>1, <1>5, Moves DEF Lookup, store
    <2>2. QED
      BY <1>1, <1>2, <1>3, <2>1 DEF LookupMoves, At
  <1>6. ASSUME Insert(r) PROVE LogInv'
    <2>1. InsertMoves(r) /\ log' = log
      BY <1>1, <1>6, Moves DEF Insert
    <2>2. QED
      BY <1>1, <1>2, <1>3, <2>1 DEF InsertMoves, At
  <1>7. ASSUME Verify(r) PROVE LogInv'
    <2>1. VerifyMoves(r) /\ log' = log
      BY <1>1, <1>7, Moves DEF Verify, store
    <2>2. req[r].step = "verify"
      BY <2>1 DEF VerifyMoves, At
    <2>3. req[r].status = 0
      BY <1>2, <2>2
    <2>4. req[r].status \notin {200, 201}
      BY <2>3
    <2>5. QED
      BY <1>3, <2>1, <2>4 DEF VerifyMoves
  <1>8. ASSUME GetSession(r) PROVE LogInv'
    <2>1. GetSessionMoves(r) /\ log' = log
      BY <1>1, <1>8, Moves DEF GetSession, store
    <2>2. req[r].step = "get"
      BY <2>1 DEF GetSessionMoves, At
    <2>3. req[r].status = 0
      BY <1>2, <2>2
    <2>4. req[r].status \notin {200, 201}
      BY <2>3
    <2>5. CASE Moved(r, "answered", req[r].user, 401)
      BY <1>3, <2>1, <2>5
    <2>6. CASE \E u \in Users \cup {None} : Moved(r, "find", u, req[r].status)
      BY <1>3, <2>1, <2>4, <2>6
    <2>7. QED
      BY <2>1, <2>5, <2>6 DEF GetSessionMoves
  <1>9. ASSUME FindUser(r) PROVE LogInv'
    <2>1. FindUserMoves(r) /\ log' = log
      BY <1>1, <1>9, Moves DEF FindUser, store
    <2>2. req[r].step = "find"
      BY <2>1 DEF FindUserMoves, At
    <2>3. req[r].status = 0
      BY <1>2, <2>2
    <2>4. req[r].status \notin {200, 201}
      BY <2>3
    <2>5. CASE Moved(r, "answered", req[r].user, 401)
      BY <1>3, <2>1, <2>5
    <2>6. CASE Moved(r, "revoke", req[r].user, req[r].status)
      BY <1>3, <2>1, <2>4, <2>6
    <2>7. QED
      BY <2>1, <2>5, <2>6 DEF FindUserMoves
  <1>10. ASSUME Gate(r) PROVE LogInv'
    <2>1. GateMoves(r) /\ log' = log
      BY <1>1, <1>10, Moves DEF Gate, store
    <2>2. QED
      BY <1>1, <1>2, <1>3, <2>1 DEF GateMoves, At
  <1>11. ASSUME Fail(r) PROVE LogInv'
    <2>1. FailMoves(r) /\ log' = log
      BY <1>1, <1>11, Moves DEF Fail, store
    <2>2. QED
      BY <1>1, <1>2, <1>3, <2>1 DEF FailMoves, At
  <1>12. ASSUME Me(r) PROVE LogInv'
    <2>1. MeMoves(r) /\ log' = log
      BY <1>1, <1>12, Moves DEF Me, store
    <2>2. QED
      BY <1>1, <1>2, <1>4, <2>1 DEF MeMoves, At, Shape, OpAt
  <1>13. ASSUME Incr(r) PROVE LogInv'
    <2>1. IncrMoves(r) /\ log' = log
      BY <1>1, <1>13, Moves DEF Incr, store
    <2>2. QED
      BY <1>1, <1>2, <1>4, <2>1 DEF IncrMoves, At, Shape, OpAt
  <1>14. ASSUME Expire(r) PROVE LogInv'
    <2>1. ExpireMoves(r) /\ log' = log
      BY <1>1, <1>14, Moves DEF Expire, store
    <2>2. QED
      BY <1>1, <1>2, <1>4, <2>1 DEF ExpireMoves, At, Shape, OpAt
  <1>15. ASSUME Proxy(r) PROVE LogInv'
    <2>1. ProxyMoves(r) /\ log' = log
      BY <1>1, <1>15, Moves DEF Proxy, store
    <2>2. QED
      BY <1>1, <1>2, <1>4, <2>1 DEF ProxyMoves, At, Shape, OpAt
  <1>16. ASSUME Deliver(r) \/ Lose(r) PROVE LogInv'
    <2>1. EndMoves(r) /\ log' = log
      BY <1>1, <1>16, Moves DEF Deliver, Lose, store
    <2>2. Moved(r, "over", req[r].user, req[r].status)
      BY <2>1 DEF EndMoves
    <2>3. Owes(req[r].op, "over", req[r].status) => <<Action(req[r].op), r>> \in log'
      BY <2>1 DEF LogInv, Logged, Owes
    <2>4. QED
      BY <2>1, <2>2, <2>3, LogMoved
  <1>17. ASSUME Revoke(r) PROVE LogInv'
    <2>1. RevokeMoves(r) /\ log' = log
      BY <1>1, <1>17, Moves DEF Revoke
    <2>2. CASE req[r].op = "refresh" /\ Moved(r, "store", req[r].user, req[r].status)
      <3>1. ~Owes("refresh", "store", 0) /\ req[r].status = 0
        BY <1>2, <2>1 DEF RevokeMoves, At, Owes
      <3>2. QED
        BY <2>1, <2>2, <3>1, LogMoved
    <2>3. CASE req[r].op = "logout"
      BY <1>4, <2>1, <2>3 DEF RevokeMoves
    <2>4. QED
      BY <2>1, <2>2, <2>3 DEF RevokeMoves
  <1>18. ASSUME WriteAudit(r) PROVE LogInv'
    <2>1. WriteAuditMoves(r) /\ log \subseteq log'
      BY <1>1, <1>18, Moves DEF WriteAudit
    <2>2. CASE At(r, "audit")
      <3>1. <<Action(req[r].op), r>> \in log'
        BY <1>18, <2>2 DEF WriteAudit, At
      <3>2. ASSUME NEW step, NEW status, Moved(r, step, req[r].user, status)
            PROVE  LogInv'
        BY <2>1, <3>1, <3>2, LogMoved
      <3>3. \/ Moved(r, "store", req[r].user, req[r].status)
            \/ Moved(r, "answered", req[r].user, 200)
        BY <2>1, <2>2 DEF WriteAuditMoves, At
      <3>4. CASE Moved(r, "store", req[r].user, req[r].status)
        BY <3>2, <3>4
      <3>5. CASE Moved(r, "answered", req[r].user, 200)
        BY <3>2, <3>5
      <3>6. QED
        BY <3>3, <3>4, <3>5
    <2>3. CASE At(r, "refuse")
      <3>1. Moved(r, "answered", req[r].user, 401)
        BY <2>1, <2>3 DEF WriteAuditMoves, At
      <3>2. QED
        BY <1>3, <2>1, <3>1
    <2>4. QED
      BY <2>1, <2>2, <2>3 DEF WriteAuditMoves
  <1>19. ASSUME StoreSession(r) PROVE LogInv'
    <2>1. StoreSessionMoves(r) /\ log' = log
      BY <1>1, <1>19, Moves DEF StoreSession
    <2>2. CASE req[r].op = "refresh" /\ Moved(r, "audit", req[r].user, req[r].status)
      BY <1>2, <1>3, <2>1, <2>2 DEF StoreSessionMoves, At
    <2>3. CASE /\ req[r].op # "refresh"
               /\ Moved(r, "answered", req[r].user, Success(req[r].op))
      <3>1. req[r].step = "store" /\ req[r].op \in {"register", "login"}
        BY <1>1, <2>1, <2>3 DEF StoreSessionMoves, At, Shape, OpAt
      <3>2. <<Action(req[r].op), r>> \in log'
        BY <2>1, <3>1 DEF LogInv, Logged, Owes
      <3>3. QED
        BY <2>1, <2>3, <3>2, LogMoved
    <2>4. QED
      BY <2>1, <2>2, <2>3 DEF StoreSessionMoves
  <1> QED
    BY <1>5, <1>6, <1>7, <1>8, <1>9, <1>10, <1>11, <1>12, <1>13, <1>14, <1>15, <1>16, <1>17, <1>18, <1>19 DEF Serve

(* So does a request that leaves. *)
LEMMA LeavesLogged ==
    ASSUME Inv, LogInv, NEW r \in Requests, Departs(r)
    PROVE  LogInv'
  <1>1. PICK c \in Callers, op \in Ops, e \in Emails \cup {None}, right \in BOOLEAN :
            Leaves(r, c, op, e, right)
    BY DEF Departs
  <1>2. req \in [Requests -> Req]
    BY DEF Inv, TypeOK
  <1>3. /\ \A s \in Requests \ {r} : req'[s] = req[s]
        /\ req'[r].step = FirstStep(op) /\ req'[r].status = 0
        /\ log' = log
    BY <1>1, <1>2 DEF Leaves, Idle, store
  <1>4. FirstStep(op) # "store"
    BY DEF FirstStep, Ops
  <1>5. ~Owes(req'[r].op, req'[r].step, req'[r].status)
    BY <1>3, <1>4 DEF Owes
  <1>6. QED
    BY <1>3, <1>5 DEF LogInv, Logged

(* So does every step. *)
LEMMA NextLogged ==
    ASSUME Inv, LogInv, [Next]_vars
    PROVE  LogInv'
  <1>1. ASSUME UNCHANGED <<log, req>> PROVE LogInv'
    BY <1>1 DEF LogInv, Logged
  <1>2. ASSUME NEW r \in Requests, Send(r) PROVE LogInv'
    BY <1>2, Departures, LeavesLogged DEF Inv
  <1>3. ASSUME NEW r \in Requests, Serve(r) \/ Deliver(r) \/ Fail(r) \/ Lose(r) PROVE LogInv'
    BY <1>3, ServeLogged
  <1>4. ASSUME NEW r \in Requests, NEW next \in {"proxy", "over"}, BreaksOff(r, next)
        PROVE  LogInv'
    <2>1. TypeOK /\ log' = log
      BY <1>4 DEF Inv, BreaksOff, store
    <2>2. req[r].step \in {"incr", "arm"}
      BY <1>4 DEF BreaksOff, At
    <2>3. req[r].op = "call"
      BY <2>2 DEF Inv, Shaped, Shape, OpAt
    <2>4. /\ \A s \in Requests \ {r} : req'[s] = req[s]
          /\ req'[r].op = "call" /\ req'[r].step = next
      BY <1>4, <2>1, <2>3, BreakingMoves
    <2>5. ~Owes(req'[r].op, req'[r].step, req'[r].status)
      BY <2>4 DEF Owes
    <2>6. QED
      BY <2>1, <2>4, <2>5 DEF LogInv, Logged
  <1>5. ASSUME NEW r \in Requests, AccessExpires(r) PROVE LogInv'
    BY <1>1, <1>5 DEF AccessExpires
  <1>6. ASSUME NEW u \in Users, WindowEnds(u) PROVE LogInv'
    BY <1>1, <1>6 DEF WindowEnds, store
  <1>7. ASSUME NEW a \in accounts, RemoveUser(a) PROVE LogInv'
    BY <1>1, <1>7 DEF RemoveUser
  <1>8. ASSUME Over \/ UNCHANGED vars PROVE LogInv'
    BY <1>1, <1>8 DEF Over, vars
  <1>9. QED
    BY <1>2, <1>3, <1>4, <1>5, <1>6, <1>7, <1>8 DEF Next, FailOpen, GatewayLost

(* Whichever of a handler's writes fails, tokens are handed out only when  *)
(* the audit row of the registration, log-in or refresh is written.        *)
THEOREM TokensAreLogged == Spec => []HandedOutIsLogged
  <1>1. Init => LogInv
    <2> SUFFICES ASSUME Init PROVE LogInv
      OBVIOUS
    <2>1. \A r \in Requests : req[r].step = "idle" /\ req[r].status = 0
      BY DEF Init, Idle
    <2>2. QED
      BY <2>1 DEF LogInv, Owes
  <1>2. Inv /\ LogInv /\ [Next]_vars => LogInv'
    BY NextLogged
  <1>3. LogInv => HandedOutIsLogged
    BY DEF LogInv, Logged, Owes, HandedOutIsLogged
  <1>4. QED
    BY <1>1, <1>2, <1>3, Typed, PTL DEF Spec

-----------------------------------------------------------------------------
(* The refresh tokens.  A token is named after a request that is over, so  *)
(* nothing stores it again; once it is exchanged or logged out it is gone; *)
(* and a refresh that was sent later than that never gets past its lookup. *)
Spends(op) == op \in {"refresh", "logout"}

Spent ==
    \A s \in Requests :
        Spends(req[s].op) /\ (req[s].step \in {"store", "audit"} \/ req[s].status = 200) =>
            req[s].refresh \notin DOMAIN sessions

Given ==
    /\ \A s \in Requests : req[s].refresh # None => At(req[s].refresh, "over")
    /\ \A c \in Callers : jar[c].refresh # None => At(jar[c].refresh, "over")

Before == \A r \in Requests : \A s \in req[r].prior : At(s, "over")

Late(r, s) ==
    /\ req[r].op = "refresh" /\ s \in req[r].prior /\ req[s].refresh = req[r].refresh
    /\ Spends(req[s].op) /\ req[s].status = 200

Barred ==
    \A r, s \in Requests : Late(r, s) =>
        req[r].step \in {"get", "answered", "over"} /\ req[r].status # 200

TokenInv == Spent /\ Given /\ Before /\ Barred

(* A request that moves as its tokens allow keeps TokenInv. *)
LEMMA TokenMoved ==
    ASSUME Inv, TokenInv, NEW r \in Requests, NEW step, NEW u, NEW status,
           Moved(r, step, u, status), req[r].step # "over",
           DOMAIN sessions' \subseteq DOMAIN sessions \cup {r},
           \A c \in Callers : jar'[c].refresh # None => req'[jar'[c].refresh].step = "over",
           Spends(req[r].op) /\ (step \in {"store", "audit"} \/ status = 200) =>
               req[r].refresh \notin DOMAIN sessions',
           \A s \in Requests : Late(r, s) => step \in {"get", "answered", "over"} /\ status # 200
    PROVE  TokenInv'
  <1>1. /\ \A s \in Requests \ {r} : req'[s] = req[s]
        /\ req'[r].step = step /\ req'[r].status = status /\ req'[r].op = req[r].op
        /\ req'[r].refresh = req[r].refresh /\ req'[r].prior = req[r].prior
    BY DEF Moved
  <1>2. /\ \A s \in Requests : req[s].refresh \in Requests \cup {None}
        /\ \A s \in Requests : req[s].prior \subseteq Requests
    BY DEF Inv, TypeOK, Req, Token
  <1>3. ASSUME NEW s \in Requests, req[s].step = "over"
        PROVE  s # r /\ req'[s] = req[s]
    BY <1>1, <1>3
  <1>4. Given'
    <2>1. ASSUME NEW s \in Requests, req'[s].refresh # None
          PROVE  req'[req'[s].refresh].step = "over"
      <3>1. req'[s].refresh = req[s].refresh
        BY <1>1
      <3>2. req[s].refresh \in Requests /\ req[req[s].refresh].step = "over"
        BY <1>2, <2>1, <3>1 DEF TokenInv, Given, At
      <3>3. QED
        BY <1>3, <3>1, <3>2
    <2>2. QED
      BY <2>1 DEF Given, At
  <1>5. Before'
    <2>1. ASSUME NEW q \in Requests, NEW s \in req'[q].prior
          PROVE  req'[s].step = "over"
      <3>1. req'[q].prior = req[q].prior
        BY <1>1
      <3>2. s \in Requests /\ req[s].step = "over"
        BY <1>2, <2>1, <3>1 DEF TokenInv, Before, At
      <3>3. QED
        BY <1>3, <3>2
    <2>2. QED
      BY <2>1 DEF Before, At
  <1>6. Spent'
    <2> SUFFICES ASSUME NEW s \in Requests, s # r, Spends(req[s].op),
                        req[s].step \in {"store", "audit"} \/ req[s].status = 200
                 PROVE  req[s].refresh \notin DOMAIN sessions'
      BY <1>1 DEF Spent
    <2>1. req[s].refresh \notin DOMAIN sessions
      BY DEF TokenInv, Spent
    <2>2. req[s].refresh # r
      BY SessionsAssumption DEF TokenInv, Given, At
    <2>3. QED
      BY <2>1, <2>2
  <1>7. Barred'
    <2> SUFFICES ASSUME NEW q \in Requests, NEW s \in Requests, Late(q, s)'
                 PROVE  req'[q].step \in {"get", "answered", "over"} /\ req'[q].status # 200
      BY DEF Barred
    <2>1. s \in req[q].prior
      BY <1>1 DEF Late
    <2>2. req'[s] = req[s] /\ s # r
      BY <1>3, <2>1 DEF TokenInv, Before, At
    <2>3. Late(q, s)
      BY <1>1, <2>2 DEF Late
    <2>4. QED
      BY <1>1, <2>3 DEF TokenInv, Barred
  <1>8. QED
    BY <1>4, <1>5, <1>6, <1>7 DEF TokenInv

(* Every handler's step keeps TokenInv. *)
LEMMA ServeTokens ==
    ASSUME Inv, TokenInv, NEW r \in Requests, Serve(r) \/ Deliver(r) \/ Fail(r) \/ Lose(r)
    PROVE  TokenInv'
  <1>1. TypeOK /\ Shape(req[r])
    BY DEF Inv, Shaped
  <1>2. ASSUME NEW step, NEW u, NEW status, Moved(r, step, u, status), req[r].step # "over",
               DOMAIN sessions' \subseteq DOMAIN sessions \cup {r}, jar' = jar,
               Spends(req[r].op) /\ (step \in {"store", "audit"} \/ status = 200) =>
                   req[r].refresh \notin DOMAIN sessions',
               \A s \in Requests : Late(r, s) =>
                   step \in {"get", "answered", "over"} /\ status # 200
        PROVE  TokenInv'
    <2>1. \A s \in Requests \ {r} : req'[s] = req[s]
      BY <1>2 DEF Moved
    <2>2. ASSUME NEW c \in Callers, jar'[c].refresh # None
          PROVE  req'[jar'[c].refresh].step = "over"
      <3>1. jar[c].refresh \in Requests /\ req[jar[c].refresh].step = "over"
        BY <1>1, <1>2, <2>2 DEF TypeOK, Token, TokenInv, Given, At
      <3>2. QED
        BY <1>2, <2>1, <3>1
    <2>3. QED
      BY <1>2, <2>2, TokenMoved
  <1>3. ASSUME NEW step, NEW u, NEW status, Moved(r, step, u, status), req[r].step # "over",
               DOMAIN sessions' \subseteq DOMAIN sessions \cup {r}, jar' = jar,
               ~Spends(req[r].op)
        PROVE  TokenInv'
    BY <1>2, <1>3 DEF Late, Spends
  <1>4. ASSUME req[r].step \notin {"get", "answered", "over"}, NEW s \in Requests
        PROVE  ~Late(r, s)
    BY <1>4 DEF TokenInv, Barred
  <1>5. ASSUME NEW u, NEW status, Moved(r, "answered", u, status), status # 200,
               req[r].step # "over", sessions' = sessions, jar' = jar
        PROVE  TokenInv'
    BY <1>2, <1>5
  <1>a. ASSUME NEW step, NEW u, NEW status, Moved(r, step, u, status), req[r].step # "over",
               step \notin {"store", "audit"}, status # 200,
               sessions' = sessions, jar' = jar, \A s \in Requests : ~Late(r, s)
        PROVE  TokenInv'
    BY <1>2, <1>a
  <1>6. ASSUME Lookup(r) PROVE TokenInv'
    <2>1. LookupMoves(r) /\ sessions' = sessions /\ jar' = jar
      BY <1>1, <1>6, Moves DEF Lookup, store
    <2>2. ~Spends(req[r].op) /\ req[r].step # "over"
      BY <1>1, <2>1 DEF LookupMoves, At, Shape, OpAt, Spends
    <2>3. QED
      BY <1>3, <2>1, <2>2 DEF LookupMoves
  <1>7. ASSUME Insert(r) PROVE TokenInv'
    <2>1. InsertMoves(r) /\ sessions' = sessions /\ jar' = jar
      BY <1>1, <1>7, Moves DEF Insert
    <2>2. ~Spends(req[r].op) /\ req[r].step # "over"
      BY <1>1, <2>1 DEF InsertMoves, At, Shape, OpAt, Spends
    <2>3. QED
      BY <1>3, <2>1, <2>2 DEF InsertMoves
  <1>8. ASSUME Verify(r) PROVE TokenInv'
    <2>1. VerifyMoves(r) /\ sessions' = sessions /\ jar' = jar
      BY <1>1, <1>8, Moves DEF Verify, store
    <2>2. ~Spends(req[r].op) /\ req[r].step # "over"
      BY <1>1, <2>1 DEF VerifyMoves, At, Shape, OpAt, Spends
    <2>3. QED
      BY <1>3, <2>1, <2>2 DEF VerifyMoves
  <1>9. ASSUME Me(r) PROVE TokenInv'
    <2>1. MeMoves(r) /\ sessions' = sessions /\ jar' = jar
      BY <1>1, <1>9, Moves DEF Me, store
    <2>2. ~Spends(req[r].op) /\ req[r].step # "over"
      BY <1>1, <2>1 DEF MeMoves, At, Shape, OpAt, Spends
    <2>3. QED
      BY <1>3, <2>1, <2>2 DEF MeMoves
  <1>10. ASSUME Gate(r) PROVE TokenInv'
    <2>1. GateMoves(r) /\ sessions' = sessions /\ jar' = jar
      BY <1>1, <1>10, Moves DEF Gate, store
    <2>2. ~Spends(req[r].op) /\ req[r].step # "over"
      BY <1>1, <2>1 DEF GateMoves, At, Shape, OpAt, Spends
    <2>3. QED
      BY <1>3, <2>1, <2>2 DEF GateMoves
  <1>11. ASSUME Incr(r) PROVE TokenInv'
    <2>1. IncrMoves(r) /\ sessions' = sessions /\ jar' = jar
      BY <1>1, <1>11, Moves DEF Incr, store
    <2>2. ~Spends(req[r].op) /\ req[r].step # "over"
      BY <1>1, <2>1 DEF IncrMoves, At, Shape, OpAt, Spends
    <2>3. QED
      BY <1>3, <2>1, <2>2 DEF IncrMoves
  <1>12. ASSUME Expire(r) PROVE TokenInv'
    <2>1. ExpireMoves(r) /\ sessions' = sessions /\ jar' = jar
      BY <1>1, <1>12, Moves DEF Expire, store
    <2>2. ~Spends(req[r].op) /\ req[r].step # "over"
      BY <1>1, <2>1 DEF ExpireMoves, At, Shape, OpAt, Spends
    <2>3. QED
      BY <1>3, <2>1, <2>2 DEF ExpireMoves
  <1>13. ASSUME Proxy(r) PROVE TokenInv'
    <2>1. ProxyMoves(r) /\ sessions' = sessions /\ jar' = jar
      BY <1>1, <1>13, Moves DEF Proxy, store
    <2>2. ~Spends(req[r].op) /\ req[r].step # "over"
      BY <1>1, <2>1 DEF ProxyMoves, At, Shape, OpAt, Spends
    <2>3. QED
      BY <1>3, <2>1, <2>2 DEF ProxyMoves
  <1>14. ASSUME GetSession(r) PROVE TokenInv'
    <2>1. GetSessionMoves(r) /\ sessions' = sessions /\ jar' = jar
      BY <1>1, <1>14, Moves DEF GetSession, store
    <2>2. req[r].step = "get" /\ req[r].status = 0
      BY <1>1, <2>1 DEF GetSessionMoves, At, Shape
    <2>3. CASE Moved(r, "answered", req[r].user, 401)
      BY <1>5, <2>1, <2>2, <2>3
    <2>4. CASE \E u \in Users \cup {None} : Moved(r, "find", u, req[r].status)
      <3>1. PICK u \in Users \cup {None} : Moved(r, "find", u, 0)
        BY <2>2, <2>4
      <3>2. req'[r].step = "find" /\ req[r] \in Req /\ req \in [Requests -> Req]
        BY <1>1, <3>1 DEF Moved, TypeOK
      <3>3. req[r].refresh \in DOMAIN sessions
        <4>1. ASSUME Answer(r, 401) PROVE FALSE
          <5>1. Moved(r, "answered", req[r].user, 401)
            BY <1>1, <4>1, AnswerMoves
          <5>2. QED
            BY <3>2, <5>1 DEF Moved
        <4>2. QED
          BY <1>14, <4>1 DEF GetSession
      <3>4. \A s \in Requests : ~Late(r, s)
        BY <3>3 DEF TokenInv, Spent, Late
      <3>5. req[r].step # "over" /\ DOMAIN sessions' \subseteq DOMAIN sessions \cup {r}
        BY <2>1, <2>2
      <3>6. QED
        BY <1>a, <2>1, <3>1, <3>4, <3>5
    <2>5. QED
      BY <2>1, <2>3, <2>4 DEF GetSessionMoves
  <1>15. ASSUME FindUser(r) PROVE TokenInv'
    <2>1. FindUserMoves(r) /\ sessions' = sessions /\ jar' = jar
      BY <1>1, <1>15, Moves DEF FindUser, store
    <2>2. req[r].step = "find" /\ req[r].status = 0
      BY <1>1, <2>1 DEF FindUserMoves, At, Shape
    <2>3. /\ req[r].step # "over" /\ \A s \in Requests : ~Late(r, s)
          /\ DOMAIN sessions' \subseteq DOMAIN sessions \cup {r}
      BY <1>4, <2>1, <2>2
    <2>4. CASE Moved(r, "answered", req[r].user, 401)
      BY <1>5, <2>1, <2>3, <2>4
    <2>5. CASE Moved(r, "revoke", req[r].user, 0)
      BY <1>2, <2>1, <2>3, <2>5
    <2>6. QED
      BY <2>1, <2>2, <2>4, <2>5 DEF FindUserMoves
  <1>16. ASSUME Revoke(r) PROVE TokenInv'
    <2>1. RevokeMoves(r) /\ jar' = jar
      BY <1>1, <1>16, Moves DEF Revoke
    <2>2. DOMAIN sessions' = DOMAIN sessions \ {req[r].refresh}
      BY <1>16 DEF Revoke
    <2>3. req[r].step = "revoke" /\ \A s \in Requests : ~Late(r, s)
      BY <1>4, <2>1 DEF RevokeMoves, At
    <2>4. ASSUME NEW step, NEW u, NEW status, Moved(r, step, u, status) PROVE TokenInv'
      BY <1>2, <2>1, <2>2, <2>3, <2>4
    <2>5. CASE Moved(r, "store", req[r].user, req[r].status)
      BY <2>4, <2>5
    <2>6. CASE Moved(r, "answered", req[r].user, 200)
      BY <2>4, <2>6
    <2>7. CASE \E u \in Users : Moved(r, "audit", u, req[r].status)
      BY <2>4, <2>7
    <2>8. QED
      BY <2>1, <2>5, <2>6, <2>7 DEF RevokeMoves
  <1>17. ASSUME WriteAudit(r) PROVE TokenInv'
    <2>1. WriteAuditMoves(r) /\ sessions' = sessions /\ jar' = jar
      BY <1>1, <1>17, Moves DEF WriteAudit
    <2>2. /\ req[r].step # "over" /\ \A s \in Requests : ~Late(r, s)
          /\ DOMAIN sessions' \subseteq DOMAIN sessions \cup {r}
      BY <1>4, <2>1 DEF WriteAuditMoves, At
    <2>3. CASE req[r].op \in {"register", "login"} /\ Moved(r, "store", req[r].user, req[r].status)
      BY <1>3, <2>1, <2>2, <2>3 DEF Spends
    <2>4. CASE At(r, "audit") /\ Moved(r, "answered", req[r].user, 200)
      <3>1. Spends(req[r].op) => req[r].refresh \notin DOMAIN sessions
        BY <2>4 DEF TokenInv, Spent, At
      <3>2. QED
        BY <1>2, <2>1, <2>2, <2>4, <3>1
    <2>5. CASE Moved(r, "answered", req[r].user, 401)
      BY <1>5, <2>1, <2>2, <2>5
    <2>6. QED
      BY <2>1, <2>3, <2>4, <2>5 DEF WriteAuditMoves
  <1>18. ASSUME StoreSession(r) PROVE TokenInv'
    <2>1. StoreSessionMoves(r) /\ jar' = jar
      BY <1>1, <1>18, Moves DEF StoreSession
    <2>2. DOMAIN sessions' = DOMAIN sessions \cup {r}
      BY <1>18 DEF StoreSession
    <2>3. /\ req[r].step = "store" /\ req[r].status = 0
          /\ req[r].op \in {"register", "login", "refresh"}
      BY <1>1, <2>1 DEF StoreSessionMoves, At, Shape, OpAt
    <2>4. CASE req[r].op = "refresh" /\ Moved(r, "audit", req[r].user, 0)
      <3>1. req[r].refresh \notin DOMAIN sessions
        BY <2>3, <2>4 DEF TokenInv, Spent, Spends
      <3>2. req[r].refresh # r
        BY <2>3, SessionsAssumption DEF TokenInv, Given, At
      <3>3. QED
        BY <1>2, <1>4, <2>1, <2>2, <2>3, <2>4, <3>1, <3>2
    <2>5. CASE /\ req[r].op # "refresh"
               /\ Moved(r, "answered", req[r].user, Success(req[r].op))
      BY <1>3, <2>1, <2>2, <2>3, <2>5 DEF Spends
    <2>6. QED
      BY <2>1, <2>3, <2>4, <2>5 DEF StoreSessionMoves
  <1>19. ASSUME Fail(r) PROVE TokenInv'
    <2>1. FailMoves(r) /\ sessions' = sessions /\ jar' = jar
      BY <1>1, <1>19, Moves DEF Fail, store
    <2>2. req[r].step # "over" /\ Moved(r, "answered", req[r].user, 500)
      BY <2>1 DEF FailMoves
    <2>3. QED
      BY <1>5, <2>1, <2>2
  <1>20. ASSUME Deliver(r) \/ Lose(r) PROVE TokenInv'
    <2>1. EndMoves(r) /\ sessions' = sessions
      BY <1>1, <1>20, Moves DEF Deliver, Lose, store
    <2>2. req[r].step = "answered" /\ Moved(r, "over", req[r].user, req[r].status)
      BY <2>1 DEF EndMoves, At
    <2>3. Spends(req[r].op) /\ req[r].status = 200 => req[r].refresh \notin DOMAIN sessions
      BY DEF TokenInv, Spent
    <2>4. \A s \in Requests : Late(r, s) => req[r].status # 200
      BY DEF TokenInv, Barred
    <2>5. /\ \A s \in Requests \ {r} : req'[s] = req[s]
          /\ req'[r].step = "over"
      BY <2>2 DEF Moved
    <2>6. ASSUME NEW c \in Callers
          PROVE  jar'[c].refresh \in {r, None, jar[c].refresh}
      <3>1. CASE Lose(r)
        BY <3>1 DEF Lose
      <3>2. CASE Deliver(r)
        <4>1. jar' = [jar EXCEPT ![req[r].by] = Cookies(r)]
          BY <3>2 DEF Deliver
        <4>2. Cookies(r).refresh \in {r, None, jar[req[r].by].refresh}
          BY DEF Cookies, NoCookies
        <4>3. QED
          BY <1>1, <4>1, <4>2 DEF TypeOK
      <3>3. QED
        BY <1>20, <3>1, <3>2
    <2>7. ASSUME NEW c \in Callers, jar'[c].refresh # None
          PROVE  req'[jar'[c].refresh].step = "over"
      <3>1. CASE jar'[c].refresh = r
        BY <2>5, <3>1
      <3>2. CASE jar'[c].refresh = jar[c].refresh
        <4>1. jar[c].refresh \in Requests /\ req[jar[c].refresh].step = "over"
          BY <1>1, <2>7, <3>2 DEF TypeOK, Token, TokenInv, Given, At
        <4>2. QED
          BY <2>2, <2>5, <3>2, <4>1
      <3>3. QED
        BY <2>6, <2>7, <3>1, <3>2
    <2>8. QED
      BY <2>1, <2>2, <2>3, <2>4, <2>7, TokenMoved
  <1> QED
    BY <1>6, <1>7, <1>8, <1>9, <1>10, <1>11, <1>12, <1>13, <1>14, <1>15, <1>16, <1>17, <1>18, <1>19, <1>20 DEF Serve

(* So does a request that leaves with the cookies of the moment. *)
LEMMA LeavesTokens ==
    ASSUME Inv, TokenInv, NEW r \in Requests, Departs(r)
    PROVE  TokenInv'
  <1>1. PICK c \in Callers, op \in Ops, e \in Emails \cup {None}, right \in BOOLEAN :
            Leaves(r, c, op, e, right)
    BY DEF Departs
  <1>2. /\ req \in [Requests -> Req]
        /\ jar \in [Callers -> [access : Token, refresh : Token]]
        /\ req[r].step = "idle" /\ jar' = jar /\ sessions' = sessions
    BY <1>1 DEF Inv, TypeOK, Leaves, At, store
  <1>3. /\ \A s \in Requests \ {r} : req'[s] = req[s]
        /\ req'[r].step = FirstStep(op) /\ req'[r].op = op /\ req'[r].status = 0
        /\ req'[r].refresh = jar[c].refresh
        /\ req'[r].prior = {s \in Requests : req[s].step = "over"}
    BY <1>1, <1>2 DEF Leaves, Idle, At
  <1>4. FirstStep(op) \notin {"store", "audit"} /\ (op = "refresh" => FirstStep(op) = "get")
    BY DEF FirstStep, Ops
  <1>5. ASSUME NEW s \in Requests, req[s].step = "over"
        PROVE  s # r /\ req'[s] = req[s]
    BY <1>2, <1>3, <1>5
  <1>6. /\ \A s \in Requests : req[s].refresh \in Token /\ req[s].prior \subseteq Requests
        /\ \A d \in Callers : jar[d].refresh \in Token
    BY <1>2 DEF Req
  <1>7. \A t \in Token : t # None /\ req[t].step = "over" => req'[t].step = "over"
    BY <1>5 DEF Token
  <1>8. Given'
    BY <1>2, <1>3, <1>6, <1>7 DEF TokenInv, Given, At
  <1>9. Before'
    BY <1>3, <1>5, <1>6 DEF TokenInv, Before, At
  <1>10. Spent'
    BY <1>2, <1>3, <1>4 DEF TokenInv, Spent
  <1>11. Barred'
    <2> SUFFICES ASSUME NEW q \in Requests, NEW s \in Requests, Late(q, s)'
                 PROVE  req'[q].step \in {"get", "answered", "over"} /\ req'[q].status # 200
      BY DEF Barred
    <2>1. CASE q = r
      BY <1>3, <1>4, <2>1 DEF Late
    <2>2. CASE q # r
      <3>1. req'[q] = req[q] /\ s \in req[q].prior
        BY <1>3, <2>2 DEF Late
      <3>2. req'[s] = req[s]
        BY <1>5, <3>1 DEF TokenInv, Before, At
      <3>3. Late(q, s)
        BY <3>1, <3>2 DEF Late
      <3>4. QED
        BY <3>1, <3>3 DEF TokenInv, Barred
    <2>3. QED
      BY <2>1, <2>2
  <1>12. QED
    BY <1>8, <1>9, <1>10, <1>11 DEF TokenInv

(* The limiter has no part in it. *)
LEMMA BreakingTokens ==
    ASSUME Inv, TokenInv, NEW r \in Requests, NEW next \in {"proxy", "over"},
           BreaksOff(r, next)
    PROVE  TokenInv'
  <1>1. /\ req \in [Requests -> Req] /\ req[r].step \in {"incr", "arm"}
        /\ jar' = jar /\ sessions' = sessions
    BY DEF Inv, TypeOK, BreaksOff, At, store
  <1>2. req[r].op = "call"
    BY <1>1 DEF Inv, Shaped, Shape, OpAt
  <1>3. /\ \A s \in Requests \ {r} : req'[s] = req[s]
        /\ req'[r].step = next /\ req'[r].op = "call"
        /\ req'[r].refresh = req[r].refresh /\ req'[r].prior = req[r].prior
    BY <1>2, BreakingMoves DEF Inv
  <1>4. ASSUME NEW s \in Requests, req[s].step = "over"
        PROVE  s # r /\ req'[s] = req[s]
    BY <1>1, <1>3, <1>4
  <1>5. /\ \A s \in Requests : req[s].refresh \in Token /\ req[s].prior \subseteq Requests
        /\ \A d \in Callers : jar[d].refresh \in Token
    BY <1>1 DEF Req, Inv, TypeOK
  <1>6. \A t \in Token : t # None /\ req[t].step = "over" => req'[t].step = "over"
    BY <1>4 DEF Token
  <1>7. \A s \in Requests : req'[s].refresh = req[s].refresh /\ req'[s].prior = req[s].prior
    BY <1>3
  <1>8. Given'
    BY <1>1, <1>5, <1>6, <1>7 DEF TokenInv, Given, At
  <1>9. Before'
    BY <1>4, <1>5, <1>7 DEF TokenInv, Before, At
  <1>10. Spent'
    BY <1>1, <1>3 DEF TokenInv, Spent, Spends
  <1>11. Barred'
    <2> SUFFICES ASSUME NEW q \in Requests, NEW s \in Requests, Late(q, s)'
                 PROVE  req'[q].step \in {"get", "answered", "over"} /\ req'[q].status # 200
      BY DEF Barred
    <2>1. q # r
      BY <1>3 DEF Late
    <2>2. req'[q] = req[q] /\ s \in req[q].prior
      BY <1>3, <2>1 DEF Late
    <2>3. req'[s] = req[s]
      BY <1>4, <2>2 DEF TokenInv, Before, At
    <2>4. Late(q, s)
      BY <2>2, <2>3 DEF Late
    <2>5. QED
      BY <2>2, <2>4 DEF TokenInv, Barred
  <1>12. QED
    BY <1>8, <1>9, <1>10, <1>11 DEF TokenInv

(* Every step keeps TokenInv. *)
LEMMA NextTokens ==
    ASSUME Inv, TokenInv, [Next]_vars
    PROVE  TokenInv'
  <1>1. ASSUME req' = req, sessions' = sessions,
               \A c \in Callers : jar'[c].refresh = jar[c].refresh
        PROVE  TokenInv'
    BY <1>1 DEF TokenInv, Spent, Given, Before, Barred, Late, At
  <1>2. ASSUME NEW r \in Requests, Send(r) PROVE TokenInv'
    BY <1>2, Departures, LeavesTokens DEF Inv
  <1>3. ASSUME NEW r \in Requests, Serve(r) \/ Deliver(r) \/ Fail(r) \/ Lose(r)
        PROVE  TokenInv'
    BY <1>3, ServeTokens
  <1>4. ASSUME NEW r \in Requests, FailOpen(r) \/ GatewayLost(r) PROVE TokenInv'
    BY <1>4, BreakingTokens DEF FailOpen, GatewayLost
  <1>5. ASSUME NEW t \in Requests, AccessExpires(t) PROVE TokenInv'
    <2>1. /\ jar \in [Callers -> [access : Token, refresh : Token]]
          /\ jar' = [c \in Callers |-> IF jar[c].access = t THEN [jar[c] EXCEPT !.access = None]
                                       ELSE jar[c]]
      BY <1>5 DEF Inv, TypeOK, AccessExpires
    <2>2. \A c \in Callers : jar'[c].refresh = jar[c].refresh
      BY <2>1
    <2>3. QED
      BY <1>1, <1>5, <2>2 DEF AccessExpires
  <1>6. ASSUME NEW u \in Users, WindowEnds(u) PROVE TokenInv'
    BY <1>1, <1>6 DEF WindowEnds, store
  <1>7. ASSUME NEW a \in accounts, RemoveUser(a) PROVE TokenInv'
    BY <1>1, <1>7 DEF RemoveUser
  <1>8. ASSUME Over \/ UNCHANGED vars PROVE TokenInv'
    BY <1>1, <1>8 DEF Over, vars
  <1>9. QED
    BY <1>2, <1>3, <1>4, <1>5, <1>6, <1>7, <1>8 DEF Next

(* The invariant of the refresh tokens holds throughout. *)
LEMMA Tokens == Spec => []TokenInv
  <1>1. Init => TokenInv
    <2> SUFFICES ASSUME Init PROVE TokenInv
      OBVIOUS
    <2>1. /\ \A r \in Requests : req[r].op = None /\ req[r].step = "idle" /\ req[r].refresh = None
          /\ \A r \in Requests : req[r].prior = {} /\ req[r].status = 0
          /\ \A c \in Callers : jar[c].refresh = None
      BY DEF Init, Idle, NoCookies
    <2>2. QED
      BY <2>1 DEF TokenInv, Spent, Given, Before, Barred, Late
  <1>2. Inv /\ TokenInv /\ [Next]_vars => TokenInv'
    BY NextTokens
  <1>3. QED
    BY <1>1, <1>2, Typed, PTL DEF Spec

(* Whatever overlaps and whatever fails: a refresh token that has been     *)
(* exchanged or logged out is accepted by no refresh that is sent later.   *)
THEOREM SpentTokensStaySpent == Spec => []NoReuse
  <1>1. Inv /\ TokenInv => NoReuse
    <2> SUFFICES ASSUME Inv, TokenInv, NEW r \in Requests, NEW s \in req[r].prior,
                        req[r].op = "refresh", req[r].status = 200,
                        req[s].refresh = req[r].refresh, req[s].op \in {"refresh", "logout"},
                        req[s].status = 200
                 PROVE  FALSE
      BY DEF NoReuse
    <2>1. s \in Requests
      BY DEF Inv, TypeOK, Req
    <2>2. QED
      BY <2>1 DEF TokenInv, Barred, Late, Spends
  <1>2. QED
    BY <1>1, Typed, Tokens, PTL

-----------------------------------------------------------------------------
(* The accounts.  As long as nothing fails and nobody is removed, a        *)
(* request that registered an e-mail finds its account in place; a         *)
(* registration that was sent after it was over never gets past the        *)
(* lookup.                                                                 *)
Unique == \A a, b \in accounts : a.email = b.email => a = b

Has(e) == \E a \in accounts : a.email = e

Enrols(op, step, status) ==
    \/ op = "register" /\ step \in {"audit", "store"}
    \/ status = 201

Enrolled ==
    faults = 0 => \A r \in Requests :
        Enrols(req[r].op, req[r].step, req[r].status) => Has(req[r].email)

After(r, s) ==
    /\ req[r].op = "register" /\ s \in req[r].prior
    /\ req[s].status = 201 /\ req[s].email = req[r].email

Taken ==
    faults = 0 => \A r, s \in Requests : After(r, s) =>
        req[r].step \in {"lookup", "answered", "over"} /\ req[r].status # 500

AccountInv == faults \in Nat /\ Unique /\ Enrolled /\ Taken

(* A request that moves with its account kept keeps AccountInv. *)
LEMMA AccountMoved ==
    ASSUME TypeOK, Before, AccountInv, NEW r \in Requests, NEW step, NEW u, NEW status,
           Moved(r, step, u, status), req[r].step # "over", faults' = faults,
           accounts \subseteq accounts', Unique',
           faults = 0 /\ Enrols(req[r].op, step, status) =>
               \E a \in accounts' : a.email = req[r].email,
           faults = 0 => \A s \in Requests : After(r, s) =>
               step \in {"lookup", "answered", "over"} /\ status # 500
    PROVE  AccountInv'
  <1>1. /\ \A s \in Requests \ {r} : req'[s] = req[s]
        /\ req'[r].step = step /\ req'[r].status = status /\ req'[r].op = req[r].op
        /\ req'[r].email = req[r].email /\ req'[r].prior = req[r].prior
    BY DEF Moved
  <1>2. Enrolled'
    <2> SUFFICES ASSUME faults = 0, NEW s \in Requests,
                        Enrols(req'[s].op, req'[s].step, req'[s].status)
                 PROVE  \E a \in accounts' : a.email = req'[s].email
      BY DEF Enrolled, Has
    <2>1. CASE s = r
      BY <1>1, <2>1
    <2>2. CASE s # r
      <3>1. Has(req[s].email)
        BY <1>1, <2>2 DEF AccountInv, Enrolled
      <3>2. QED
        BY <1>1, <2>2, <3>1 DEF Has
    <2>3. QED
      BY <2>1, <2>2
  <1>3. Taken'
    <2> SUFFICES ASSUME faults = 0, NEW q \in Requests, NEW s \in Requests, After(q, s)'
                 PROVE  req'[q].step \in {"lookup", "answered", "over"} /\ req'[q].status # 500
      BY DEF Taken
    <2>1. s \in req[q].prior
      BY <1>1 DEF After
    <2>2. s # r /\ req'[s] = req[s]
      BY <1>1, <2>1 DEF Before, At
    <2>3. After(q, s)
      BY <1>1, <2>2 DEF After
    <2>4. QED
      BY <1>1, <2>3 DEF AccountInv, Taken
  <1>4. QED
    BY <1>2, <1>3 DEF AccountInv

(* Every handler's step keeps AccountInv. *)
LEMMA ServeAccounts ==
    ASSUME Inv, Before, AccountInv, NEW r \in Requests, Serve(r) \/ Deliver(r) \/ Lose(r),
           faults' = faults
    PROVE  AccountInv'
  <1>1. TypeOK /\ Shape(req[r])
    BY DEF Inv, Shaped
  <1>2. ASSUME NEW step, NEW u, NEW status, Moved(r, step, u, status), req[r].step # "over",
               req[r].op # "register", status # 201, accounts' = accounts
        PROVE  AccountInv'
    BY <1>1, <1>2, AccountMoved DEF AccountInv, Unique, After, Enrols
  <1>3. ASSUME Verify(r) PROVE AccountInv'
    <2>1. VerifyMoves(r) /\ accounts' = accounts
      BY <1>1, <1>3, Moves DEF Verify, store
    <2>2. req[r].step = "verify" /\ req[r].op # "register" /\ req[r].status = 0
      BY <1>1, <2>1 DEF VerifyMoves, At, Shape, OpAt
    <2>3. req[r].step # "over" /\ req[r].status # 201
      BY <2>2
    <2>4. QED
      BY <1>2, <2>1, <2>2, <2>3 DEF VerifyMoves
  <1>4. ASSUME GetSession(r) PROVE AccountInv'
    <2>1. GetSessionMoves(r) /\ accounts' = accounts
      BY <1>1, <1>4, Moves DEF GetSession, store
    <2>2. req[r].step = "get" /\ req[r].op # "register" /\ req[r].status = 0
      BY <1>1, <2>1 DEF GetSessionMoves, At, Shape, OpAt
    <2>3. req[r].step # "over" /\ req[r].status # 201
      BY <2>2
    <2>4. QED
      BY <1>2, <2>1, <2>2, <2>3 DEF GetSessionMoves
  <1>5. ASSUME FindUser(r) PROVE AccountInv'
    <2>1. FindUserMoves(r) /\ accounts' = accounts
      BY <1>1, <1>5, Moves DEF FindUser, store
    <2>2. req[r].step = "find" /\ req[r].op # "register" /\ req[r].status = 0
      BY <1>1, <2>1 DEF FindUserMoves, At, Shape, OpAt
    <2>3. req[r].step # "over" /\ req[r].status # 201
      BY <2>2
    <2>4. QED
      BY <1>2, <2>1, <2>2, <2>3 DEF FindUserMoves
  <1>6. ASSUME Revoke(r) PROVE AccountInv'
    <2>1. RevokeMoves(r) /\ accounts' = accounts
      BY <1>1, <1>6, Moves DEF Revoke
    <2>2. req[r].step = "revoke" /\ req[r].op # "register" /\ req[r].status = 0
      BY <1>1, <2>1 DEF RevokeMoves, At, Shape, OpAt
    <2>3. req[r].step # "over" /\ req[r].status # 201
      BY <2>2
    <2>4. QED
      BY <1>2, <2>1, <2>2, <2>3 DEF RevokeMoves
  <1>7. ASSUME Me(r) PROVE AccountInv'
    <2>1. MeMoves(r) /\ accounts' = accounts
      BY <1>1, <1>7, Moves DEF Me, store
    <2>2. req[r].step = "me" /\ req[r].op # "register" /\ req[r].status = 0
      BY <1>1, <2>1 DEF MeMoves, At, Shape, OpAt
    <2>3. req[r].step # "over" /\ req[r].status # 201
      BY <2>2
    <2>4. QED
      BY <1>2, <2>1, <2>2, <2>3 DEF MeMoves
  <1>8. ASSUME Gate(r) PROVE AccountInv'
    <2>1. GateMoves(r) /\ accounts' = accounts
      BY <1>1, <1>8, Moves DEF Gate, store
    <2>2. req[r].step = "gate" /\ req[r].op # "register" /\ req[r].status = 0
      BY <1>1, <2>1 DEF GateMoves, At, Shape, OpAt
    <2>3. req[r].step # "over" /\ req[r].status # 201
      BY <2>2
    <2>4. QED
      BY <1>2, <2>1, <2>2, <2>3 DEF GateMoves
  <1>9. ASSUME Incr(r) PROVE AccountInv'
    <2>1. IncrMoves(r) /\ accounts' = accounts
      BY <1>1, <1>9, Moves DEF Incr, store
    <2>2. req[r].step = "incr" /\ req[r].op # "register" /\ req[r].status = 0
      BY <1>1, <2>1 DEF IncrMoves, At, Shape, OpAt
    <2>3. req[r].step # "over" /\ req[r].status # 201
      BY <2>2
    <2>4. QED
      BY <1>2, <2>1, <2>2, <2>3 DEF IncrMoves
  <1>10. ASSUME Expire(r) PROVE AccountInv'
    <2>1. ExpireMoves(r) /\ accounts' = accounts
      BY <1>1, <1>10, Moves DEF Expire, store
    <2>2. req[r].step = "arm" /\ req[r].op # "register" /\ req[r].status = 0
      BY <1>1, <2>1 DEF ExpireMoves, At, Shape, OpAt
    <2>3. req[r].step # "over" /\ req[r].status # 201
      BY <2>2
    <2>4. QED
      BY <1>2, <2>1, <2>2, <2>3 DEF ExpireMoves
  <1>11. ASSUME Proxy(r) PROVE AccountInv'
    <2>1. ProxyMoves(r) /\ accounts' = accounts
      BY <1>1, <1>11, Moves DEF Proxy, store
    <2>2. req[r].step = "proxy" /\ req[r].op # "register" /\ req[r].status = 0
      BY <1>1, <2>1 DEF ProxyMoves, At, Shape, OpAt
    <2>3. req[r].step # "over" /\ req[r].status # 201
      BY <2>2
    <2>4. QED
      BY <1>2, <2>1, <2>2, <2>3 DEF ProxyMoves
  <1>12. ASSUME Lookup(r) PROVE AccountInv'
    <2>1. LookupMoves(r) /\ accounts' = accounts
      BY <1>1, <1>12, Moves DEF Lookup, store
    <2>2. req[r].step = "lookup" /\ req[r].status = 0 /\ Unique'
      BY <1>1, <2>1 DEF LookupMoves, At, Shape, AccountInv, Unique
    <2>3. CASE Moved(r, "answered", req[r].user, 409)
      BY <1>1, <2>1, <2>2, <2>3, AccountMoved DEF Enrols
    <2>4. CASE Moved(r, "insert", req[r].user, 0)
      <3>1. ASSUME Answer(r, 409) PROVE FALSE
        <4>1. Moved(r, "answered", req[r].user, 409)
          BY <1>1, <3>1, AnswerMoves
        <4>2. QED
          BY <2>4, <4>1 DEF Moved
      <3>2. ~Has(req[r].email)
        BY <1>12, <3>1 DEF Lookup, AccountOf, Has
      <3>3. faults = 0 => \A s \in Requests : ~After(r, s)
        BY <3>2 DEF AccountInv, Enrolled, After, Enrols
      <3>4. ~Enrols(req[r].op, "insert", 0)
        BY DEF Enrols
      <3>5. QED
        BY <1>1, <2>1, <2>2, <2>4, <3>3, <3>4, AccountMoved
    <2>5. QED
      BY <2>1, <2>2, <2>3, <2>4 DEF LookupMoves
  <1>13. ASSUME req[r].step \notin {"lookup", "answered", "over"}, faults = 0, NEW s \in Requests
         PROVE  ~After(r, s)
    BY <1>13 DEF AccountInv, Taken
  <1>14. ASSUME Insert(r) PROVE AccountInv'
    <2>1. req[r].step = "insert" /\ TypeOK
      BY <1>1, <1>14 DEF Insert, At
    <2>2. CASE Answer(r, 500) /\ accounts' = accounts
      <3>1. Moved(r, "answered", req[r].user, 500)
        BY <2>1, <2>2, AnswerMoves
      <3>2. Unique' /\ ~Enrols(req[r].op, "answered", 500)
        BY <2>2 DEF AccountInv, Unique, Enrols
      <3>3. QED
        BY <1>13, <2>1, <2>2, <3>1, <3>2, AccountMoved
    <2>3. CASE /\ AccountOf(req[r].email) = {}
               /\ accounts' = accounts \cup {[id |-> r, email |-> req[r].email]}
               /\ GoAs(r, "audit", r)
      <3>1. Moved(r, "audit", r, req[r].status)
        BY <2>1, <2>3, GoAsMoves DEF Steps, Users
      <3>2. Unique'
        BY <2>3 DEF AccountInv, Unique, AccountOf
      <3>3. \E a \in accounts' : a.email = req[r].email
        <4>1. [id |-> r, email |-> req[r].email] \in accounts'
          BY <2>3
        <4>2. QED
          BY <4>1
      <3>4. accounts \subseteq accounts'
        BY <2>3
      <3>5. QED
        BY <1>13, <2>1, <3>1, <3>2, <3>3, <3>4, AccountMoved
    <2>4. QED
      BY <1>14, <2>2, <2>3 DEF Insert
  <1>15. ASSUME WriteAudit(r) PROVE AccountInv'
    <2>1. WriteAuditMoves(r) /\ accounts' = accounts
      BY <1>1, <1>15, Moves DEF WriteAudit
    <2>2. req[r].step \in {"audit", "refuse"} /\ req[r].status = 0
      BY <1>1, <2>1 DEF WriteAuditMoves, At, Shape
    <2>3. CASE req[r].op # "register"
      BY <1>2, <2>1, <2>2, <2>3 DEF WriteAuditMoves
    <2>4. CASE req[r].op = "register"
      <3>1. req[r].step = "audit" /\ Moved(r, "store", req[r].user, req[r].status)
        BY <1>1, <2>1, <2>4 DEF WriteAuditMoves, At, Shape, OpAt
      <3>2. faults = 0 => \E a \in accounts' : a.email = req[r].email
        BY <2>1, <2>4, <3>1 DEF AccountInv, Enrolled, Enrols, Has
      <3>3. Unique'
        BY <2>1 DEF AccountInv, Unique
      <3>4. QED
        BY <1>1, <1>13, <2>1, <3>1, <3>2, <3>3, AccountMoved
    <2>5. QED
      BY <2>3, <2>4
  <1>16. ASSUME StoreSession(r) PROVE AccountInv'
    <2>1. StoreSessionMoves(r) /\ accounts' = accounts
      BY <1>1, <1>16, Moves DEF StoreSession
    <2>2. req[r].step = "store" /\ req[r].status = 0
      BY <1>1, <2>1 DEF StoreSessionMoves, At, Shape
    <2>3. CASE req[r].op # "register"
      <3>1. Success(req[r].op) # 201 /\ req[r].step # "over" /\ req[r].status # 201
        BY <2>2, <2>3 DEF Success
      <3>2. QED
        BY <1>2, <2>1, <2>3, <3>1 DEF StoreSessionMoves
    <2>4. CASE req[r].op = "register"
      <3>1. Moved(r, "answered", req[r].user, Success(req[r].op))
        BY <2>1, <2>4 DEF StoreSessionMoves
      <3>2. faults = 0 => \E a \in accounts' : a.email = req[r].email
        BY <2>1, <2>2, <2>4 DEF AccountInv, Enrolled, Enrols, Has
      <3>3. Unique' /\ req[r].step # "over"
        BY <2>1, <2>2 DEF AccountInv, Unique
      <3>4. faults = 0 => \A s \in Requests : ~After(r, s)
        BY <1>13, <2>2
      <3>5. QED
        BY <1>1, <2>1, <3>1, <3>2, <3>3, <3>4, AccountMoved
    <2>5. QED
      BY <2>3, <2>4
  <1>17. ASSUME Deliver(r) \/ Lose(r) PROVE AccountInv'
    <2>1. EndMoves(r) /\ accounts' = accounts
      BY <1>1, <1>17, Moves DEF Deliver, Lose, store
    <2>2. req[r].step = "answered" /\ Moved(r, "over", req[r].user, req[r].status)
      BY <2>1 DEF EndMoves, At
    <2>3. faults = 0 /\ Enrols(req[r].op, "over", req[r].status) =>
              \E a \in accounts' : a.email = req[r].email
      BY <2>1 DEF AccountInv, Enrolled, Enrols, Has
    <2>4. faults = 0 => \A s \in Requests : After(r, s) => req[r].status # 500
      BY DEF AccountInv, Taken
    <2>5. Unique'
      BY <2>1 DEF AccountInv, Unique
    <2>6. QED
      BY <1>1, <2>1, <2>2, <2>3, <2>4, <2>5, AccountMoved
  <1> QED
    BY <1>3, <1>4, <1>5, <1>6, <1>7, <1>8, <1>9, <1>10, <1>11, <1>12, <1>14, <1>15, <1>16, <1>17 DEF Serve

(* So does every step. *)
LEMMA NextAccounts ==
    ASSUME Inv, TokenInv, AccountInv, [Next]_vars
    PROVE  AccountInv'
  <1>0. faults \in Nat /\ Before /\ TypeOK
    BY DEF AccountInv, TokenInv, Inv
  <1>1. ASSUME UNCHANGED <<accounts, req, faults>> PROVE AccountInv'
    BY <1>1 DEF AccountInv, Unique, Enrolled, Has, Taken, After
  <1>2. ASSUME Fault, accounts' \subseteq accounts PROVE AccountInv'
    <2>1. faults' \in Nat /\ faults' # 0
      BY <1>0, <1>2 DEF Fault
    <2>2. Unique'
      BY <1>2 DEF AccountInv, Unique
    <2>3. QED
      BY <2>1, <2>2 DEF AccountInv, Enrolled, Taken
  <1>3. ASSUME NEW r \in Requests, Send(r) PROVE AccountInv'
    <2>1. PICK c \in Callers, op \in Ops, e \in Emails \cup {None}, right \in BOOLEAN :
              Leaves(r, c, op, e, right)
      BY <1>0, <1>3, Departures DEF Departs
    <2>2. /\ accounts' = accounts /\ faults' = faults /\ req[r].step = "idle"
          /\ req \in [Requests -> Req]
      BY <1>0, <2>1 DEF Leaves, At, store, TypeOK
    <2>3. /\ \A s \in Requests \ {r} : req'[s] = req[s]
          /\ req'[r].step = FirstStep(op) /\ req'[r].op = op /\ req'[r].status = 0
          /\ req'[r].email = e
      BY <2>1, <2>2 DEF Leaves, Idle
    <2>4. /\ FirstStep(op) \notin {"store", "audit"}
          /\ op = "register" => FirstStep(op) = "lookup"
      BY DEF FirstStep, Ops
    <2>5. Enrolled'
      BY <2>2, <2>3, <2>4 DEF AccountInv, Enrolled, Enrols, Has
    <2>6. Taken'
      <3> SUFFICES ASSUME faults = 0, NEW q \in Requests, NEW s \in Requests, After(q, s)'
                   PROVE  /\ req'[q].step \in {"lookup", "answered", "over"}
                          /\ req'[q].status # 500
        BY <2>2 DEF Taken
      <3>1. CASE q = r
        BY <2>3, <2>4, <3>1 DEF After
      <3>2. CASE q # r
        <4>1. req'[q] = req[q] /\ s \in req[q].prior
          BY <2>3, <3>2 DEF After
        <4>2. req'[s] = req[s]
          BY <1>0, <2>2, <2>3, <4>1 DEF Before, At
        <4>3. After(q, s)
          BY <4>1, <4>2 DEF After
        <4>4. QED
          BY <4>1, <4>3 DEF AccountInv, Taken
      <3>3. QED
        BY <3>1, <3>2
    <2>7. QED
      BY <1>0, <2>2, <2>5, <2>6 DEF AccountInv, Unique
  <1>4. ASSUME NEW r \in Requests, Serve(r) \/ Deliver(r) PROVE AccountInv'
    <2>1. faults' = faults
      BY <1>4 DEF Deliver, Serve, Lookup, Insert, Verify, GetSession, FindUser, Revoke,
                  WriteAudit, StoreSession, Me, Gate, Incr, Expire, Proxy
    <2>2. QED
      BY <1>0, <1>4, <2>1, ServeAccounts
  <1>5. ASSUME NEW r \in Requests,
               Fail(r) \/ FailOpen(r) \/ GatewayLost(r) \/ Lose(r) \/ AccessExpires(r)
        PROVE  AccountInv'
    BY <1>2, <1>5 DEF Fail, FailOpen, GatewayLost, BreaksOff, Lose, AccessExpires, store
  <1>6. ASSUME NEW u \in Users, WindowEnds(u) PROVE AccountInv'
    BY <1>2, <1>6 DEF WindowEnds, store
  <1>7. ASSUME NEW a \in accounts, RemoveUser(a) PROVE AccountInv'
    BY <1>2, <1>7 DEF RemoveUser
  <1>8. ASSUME Over \/ UNCHANGED vars PROVE AccountInv'
    BY <1>1, <1>8 DEF Over, vars
  <1>9. QED
    BY <1>3, <1>4, <1>5, <1>6, <1>7, <1>8 DEF Next

(* However many registrations race, an e-mail has one account; and one     *)
(* that is sent after another succeeded is told so, not `500`, unless      *)
(* something fails.                                                        *)
THEOREM OneAccountEach == Spec => []OneAccount
  <1>1. Init => AccountInv
    <2> SUFFICES ASSUME Init PROVE AccountInv
      OBVIOUS
    <2>1. /\ faults = 0
          /\ \A r \in Requests : req[r].op = None /\ req[r].step = "idle"
          /\ \A r \in Requests : req[r].prior = {} /\ req[r].status = 0
      BY DEF Init, Idle
    <2>2. Unique
      BY DEF Init, Unique
    <2>3. QED
      BY <2>1, <2>2 DEF AccountInv, Enrolled, Enrols, Taken, After
  <1>2. Inv /\ TokenInv /\ AccountInv /\ [Next]_vars => AccountInv'
    BY NextAccounts
  <1>3. Inv /\ AccountInv => OneAccount
    <2> SUFFICES ASSUME Inv, AccountInv PROVE OneAccount
      OBVIOUS
    <2>1. ASSUME NEW r \in Requests, req[r].op = "register", req[r].status = 500, faults = 0,
                 NEW s \in req[r].prior, req[s].status = 201, req[s].email = req[r].email
          PROVE  FALSE
      <3>1. s \in Requests
        BY <2>1 DEF Inv, TypeOK, Req
      <3>2. QED
        BY <2>1, <3>1 DEF AccountInv, Taken, After
    <2>2. QED
      BY <2>1 DEF AccountInv, Unique, OneAccount
  <1>4. QED
    BY <1>1, <1>2, <1>3, Typed, Tokens, PTL DEF Spec

-----------------------------------------------------------------------------
(* The tabs.  The cookies of a tab are those of its last registration or   *)
(* log-in, or gone, and so are those that a session check left with, since *)
(* a check that overlaps a log-in is the exception that StaleCheck makes.  *)
TabTyped ==
    tab \in [Tabs -> [status : {"closed", "loading", "authenticated", "unauthenticated",
                               "unavailable"},
                     user : Users \cup {None}]]

(* Access tokens are those of requests that are over. *)
Carried ==
    /\ \A c \in Callers : jar[c].access # None => At(jar[c].access, "over")
    /\ \A r \in Requests : req[r].access # None => At(req[r].access, "over")

FromTabs ==
    \A r \in Requests : /\ At(r, "idle") => req[r].op = None
                        /\ req[r].by \in Tabs => req[r].op # "refresh"

Statuses(op) == IF op = "me" THEN {200, 401, 500} ELSE {200, 201, 401, 409, 429, 500}

Answers == \A r \in Requests : At(r, "answered") => req[r].status \in Statuses(req[r].op)

(* A session check under way, and what it finds. *)
Checked ==
    \A r \in Requests, t \in Tabs :
        req[r].op = "me" /\ req[r].by = t /\ ~At(r, "over") /\ ~StaleCheck(t) =>
           /\ jar[t].access \in {None, req[r].access}
           /\ req[r].status = 200 =>
                 req[r].access # None /\ req[r].user = req[req[r].access].user

TabInv == TabTyped /\ Carried /\ FromTabs /\ Answers /\ Checked /\ TabTrue

(* Request r, which is under way, is at another step; nothing that says    *)
(* where it came from changes.                                             *)
Alters(r, step, u, status) ==
    /\ req[r].step \notin {"idle", "over"} /\ step # "idle"
    /\ \A s \in Requests \ {r} : req'[s] = req[s]
    /\ req'[r].step = step /\ req'[r].user = u /\ req'[r].status = status
    /\ req'[r].op = req[r].op /\ req'[r].by = req[r].by
    /\ req'[r].access = req[r].access /\ req'[r].prior = req[r].prior

(* A log-in that has overlapped a session check remains one that has. *)
LEMMA StaleStays ==
    ASSUME FromTabs, NEW t, StaleCheck(t),
           \A r \in Requests : req[r].step # "idle" =>
               /\ req'[r].op = req[r].op /\ req'[r].by = req[r].by
               /\ req'[r].prior = req[r].prior
    PROVE  StaleCheck(t)'
  <1>1. PICK r, s \in Requests :
            /\ req[r].by = t /\ req[s].by = t
            /\ req[r].op = "me" /\ req[s].op \in {"login", "register"}
            /\ r \notin req[s].prior /\ s \notin req[r].prior
    BY DEF StaleCheck
  <1>2. req[r].step # "idle" /\ req[s].step # "idle"
    BY <1>1, SessionsAssumption DEF FromTabs, At
  <1>3. QED
    BY <1>1, <1>2 DEF StaleCheck

(* What a request that moves leaves as it was. *)
LEMMA AlteredStays ==
    ASSUME Inv, TabInv, NEW r \in Requests, NEW step, NEW u, NEW status,
           Alters(r, step, u, status)
    PROVE  /\ FromTabs' /\ \A t : StaleCheck(t) => StaleCheck(t)'
           /\ \A t \in Token \ {None} : At(t, "over") => t # r /\ req'[t] = req[t]
           /\ \A s \in Requests : req[s].access # None => req'[req[s].access].step = "over"
  <1>1. FromTabs'
    BY DEF TabInv, FromTabs, At, Alters
  <1>2. \A t : StaleCheck(t) => StaleCheck(t)'
    BY StaleStays DEF TabInv, Alters
  <1>3. \A t \in Token \ {None} : At(t, "over") => t # r /\ req'[t] = req[t]
    BY DEF Token, At, Alters
  <1>4. \A s \in Requests : req[s].access \in Token
    BY DEF Inv, TypeOK, Req
  <1>5. \A s \in Requests : req[s].access # None => req'[req[s].access].step = "over"
    BY <1>3, <1>4 DEF TabInv, Carried, At
  <1>6. QED
    BY <1>1, <1>2, <1>3, <1>5

(* A handler's step keeps TabInv, when a session check tells the user of   *)
(* the token it bears.                                                     *)
LEMMA AlteredTabs ==
    ASSUME Inv, TabInv, NEW r \in Requests, NEW step, NEW u, NEW status,
           Alters(r, step, u, status), UNCHANGED <<jar, tab>>,
           step = "answered" => status \in Statuses(req[r].op),
           req[r].op = "me" /\ status = 200 =>
               req[r].access # None /\ u = req[req[r].access].user
    PROVE  TabInv'
  <1>1. /\ FromTabs' /\ \A t : StaleCheck(t) => StaleCheck(t)'
        /\ \A t \in Token \ {None} : At(t, "over") => t # r /\ req'[t] = req[t]
        /\ \A s \in Requests : req[s].access # None => req'[req[s].access].step = "over"
    BY AlteredStays
  <1>2. /\ \A s \in Requests : req[s].access \in Token
        /\ \A c \in Callers : jar[c].access \in Token
    BY DEF Inv, TypeOK, Req
  <1>3. \A s \in Requests : req'[s].access = req[s].access
    BY DEF Alters
  <1>4. Carried'
    <2>1. \A c \in Callers : jar'[c].access # None => req'[jar'[c].access].step = "over"
      BY <1>1, <1>2 DEF TabInv, Carried, At
    <2>2. \A s \in Requests : req'[s].access # None => req'[req'[s].access].step = "over"
      BY <1>1, <1>3
    <2>3. QED
      BY <2>1, <2>2 DEF Carried, At
  <1>5. Answers'
    BY DEF TabInv, Answers, Alters, At
  <1>6. Checked'
    <2> SUFFICES ASSUME NEW s \in Requests, NEW t \in Tabs, req'[s].op = "me",
                        req'[s].by = t, req'[s].step # "over", ~StaleCheck(t)'
                 PROVE  /\ jar'[t].access \in {None, req'[s].access}
                        /\ req'[s].status = 200 => /\ req'[s].access # None
                                                   /\ req'[s].user = req'[req'[s].access].user
      BY DEF Checked, At
    <2>1. /\ req[s].op = "me" /\ req[s].step # "over" /\ req[s].by = t
          /\ ~StaleCheck(t)
      BY <1>1 DEF Alters
    <2>2. /\ jar[t].access \in {None, req[s].access}
          /\ req[s].status = 200 => /\ req[s].access # None
                                    /\ req[s].user = req[req[s].access].user
      BY <2>1 DEF TabInv, Checked, At
    <2>3. req[s].access # None => req'[req[s].access] = req[req[s].access]
      BY <1>1, <1>2 DEF TabInv, Carried
    <2>4. QED
      BY <1>3, <2>1, <2>2, <2>3 DEF Alters
  <1>7. TabTrue'
    <2> SUFFICES ASSUME NEW t \in Tabs, tab[t].status = "authenticated", ~StaleCheck(t)',
                        jar[t].access # None
                 PROVE  req'[jar[t].access].user = tab[t].user
      BY DEF TabTrue
    <2>1. req[jar[t].access].user = tab[t].user
      BY <1>1 DEF TabInv, TabTrue
    <2>2. t \in Callers
      BY DEF Callers
    <2>3. req'[jar[t].access] = req[jar[t].access]
      BY <1>1, <1>2, <2>2 DEF TabInv, Carried
    <2>4. QED
      BY <2>1, <2>3
  <1>8. QED
    BY <1>1, <1>4, <1>5, <1>6, <1>7 DEF TabInv, TabTyped

(* A step as one of the moves above. *)
LEMMA MovedAlters ==
    ASSUME NEW r \in Requests, NEW step, NEW u, NEW status, Moved(r, step, u, status),
           req[r].step \notin {"idle", "over"}, step # "idle"
    PROVE  Alters(r, step, u, status)
  BY DEF Moved, Alters

(* Every handler's step keeps TabInv. *)
LEMMA ServeTabs ==
    ASSUME Inv, TabInv, NEW r \in Requests, Serve(r) \/ Fail(r)
    PROVE  TabInv'
  <1> DEFINE op == req[r].op
             Late500 == {401, 409, 429, 500}
  <1>1. TypeOK /\ OpAt(req[r]) /\ (req[r].status # 0 => req[r].step \in {"answered", "over"})
    BY DEF Inv, Shaped, Shape
  <1>2. ASSUME NEW step, NEW u, NEW status, Moved(r, step, u, status),
               req[r].step \notin {"idle", "over"}, step # "idle",
               step = "answered" => status \in Statuses(op),
               op = "me" => status # 200, UNCHANGED <<jar, tab>>
        PROVE  TabInv'
    BY <1>2, MovedAlters, AlteredTabs
  <1>3. ASSUME Lookup(r) \/ Insert(r) \/ Verify(r) PROVE TabInv'
    <2>1. /\ LookupMoves(r) \/ InsertMoves(r) \/ VerifyMoves(r)
          /\ UNCHANGED <<jar, tab>>
      BY <1>1, <1>3, Moves DEF Lookup, Insert, Verify
    <2>2. op # "me" /\ req[r].step \notin {"idle", "over"}
      BY <1>1, <2>1 DEF LookupMoves, InsertMoves, VerifyMoves, At, OpAt
    <2>3. QED
      BY <1>2, <2>1, <2>2 DEF LookupMoves, InsertMoves, VerifyMoves, Statuses
  <1>4. ASSUME GetSession(r) \/ FindUser(r) \/ Revoke(r) PROVE TabInv'
    <2>1. /\ GetSessionMoves(r) \/ FindUserMoves(r) \/ RevokeMoves(r)
          /\ UNCHANGED <<jar, tab>>
      BY <1>1, <1>4, Moves DEF GetSession, FindUser, Revoke
    <2>2. op # "me" /\ req[r].step \notin {"idle", "over"}
      BY <1>1, <2>1 DEF GetSessionMoves, FindUserMoves, RevokeMoves, At, OpAt
    <2>3. QED
      BY <1>2, <2>1, <2>2 DEF GetSessionMoves, FindUserMoves, RevokeMoves, Statuses
  <1>5. ASSUME WriteAudit(r) \/ StoreSession(r) PROVE TabInv'
    <2>1. /\ WriteAuditMoves(r) \/ StoreSessionMoves(r)
          /\ UNCHANGED <<jar, tab>>
      BY <1>1, <1>5, Moves DEF WriteAudit, StoreSession
    <2>2. op # "me" /\ req[r].step \notin {"idle", "over"}
      BY <1>1, <2>1 DEF WriteAuditMoves, StoreSessionMoves, At, OpAt
    <2>3. QED
      BY <1>2, <2>1, <2>2 DEF WriteAuditMoves, StoreSessionMoves, Statuses, Success
  <1>6. ASSUME Gate(r) \/ Incr(r) \/ Expire(r) \/ Proxy(r) PROVE TabInv'
    <2>1. /\ GateMoves(r) \/ IncrMoves(r) \/ ExpireMoves(r) \/ ProxyMoves(r)
          /\ UNCHANGED <<jar, tab>>
      BY <1>1, <1>6, Moves DEF Gate, Incr, Expire, Proxy
    <2>2. op # "me" /\ req[r].step \notin {"idle", "over"}
      BY <1>1, <2>1 DEF GateMoves, IncrMoves, ExpireMoves, ProxyMoves, At, OpAt
    <2>3. QED
      BY <1>2, <2>1, <2>2 DEF GateMoves, IncrMoves, ExpireMoves, ProxyMoves, Statuses
  <1>7. ASSUME Fail(r) PROVE TabInv'
    <2>1. FailMoves(r) /\ UNCHANGED <<jar, tab>>
      BY <1>1, <1>7, Moves DEF Fail
    <2>2. QED
      BY <1>2, <2>1 DEF FailMoves, Statuses
  <1>8. ASSUME Me(r) PROVE TabInv'
    <2>1. UNCHANGED <<jar, tab>> /\ req[r].step = "me" /\ op = "me"
      BY <1>1, <1>8 DEF Me, At, OpAt
    <2>2. CASE Verified(r) # None /\ Exists(Verified(r))
      <3>1. Moved(r, "answered", Verified(r), 200)
        BY <1>1, <1>8, <2>2, AnswerAsMoves, VerifiedTyped DEF Me
      <3>2. req[r].access # None /\ Verified(r) = req[req[r].access].user
        BY <2>2 DEF Verified
      <3>3. Alters(r, "answered", Verified(r), 200)
        BY <2>1, <3>1, MovedAlters
      <3>4. QED
        BY <2>1, <3>2, <3>3, AlteredTabs DEF Statuses
    <2>3. CASE ~(Verified(r) # None /\ Exists(Verified(r)))
      <3>1. Moved(r, "answered", req[r].user, 401)
        BY <1>1, <1>8, <2>3, AnswerMoves DEF Me
      <3>2. QED
        BY <1>2, <2>1, <3>1 DEF Statuses
    <2>4. QED
      BY <2>2, <2>3
  <1>9. QED
    BY <1>3, <1>4, <1>5, <1>6, <1>7, <1>8 DEF Serve

(* So does the limiter when it breaks off. *)
LEMMA BreakingTabs ==
    ASSUME Inv, TabInv, NEW r \in Requests, NEW next \in {"proxy", "over"}, BreaksOff(r, next)
    PROVE  TabInv'
  <1>1. req[r].step \in {"incr", "arm"} /\ UNCHANGED <<jar, tab>>
    BY DEF BreaksOff, At
  <1>2. req[r].op = "call"
    BY <1>1 DEF Inv, Shaped, Shape, OpAt
  <1>3. Alters(r, next, req[r].user, req[r].status)
    BY <1>1, BreakingMoves DEF Alters, Inv
  <1>4. QED
    BY <1>1, <1>2, <1>3, AlteredTabs

(* And a request that leaves: a session check bears the cookies of its tab. *)
LEMMA LeavesTabs ==
    ASSUME Inv, TokenInv, TabInv, NEW r \in Requests, Send(r)
    PROVE  TabInv'
  <1>1. PICK c \in Callers, op \in Ops, e \in Emails \cup {None}, right \in BOOLEAN :
            /\ Leaves(r, c, op, e, right) /\ (c \in Tabs => op # "refresh")
            /\ \/ tab' = tab
               \/ c \in Tabs /\ tab' = [tab EXCEPT ![c].status = "loading"]
    BY SessionsAssumption
       DEF Send, CheckSession, SubmitForm, UsePage, ClientSends, Ops, Callers
  <1>2. /\ req \in [Requests -> Req] /\ req[r].step = "idle" /\ jar' = jar
        /\ jar \in [Callers -> [access : Token, refresh : Token]]
    BY <1>1 DEF Inv, TypeOK, Leaves, At
  <1>3. /\ \A s \in Requests \ {r} : req'[s] = req[s]
        /\ req'[r].step = FirstStep(op) /\ req'[r].op = op /\ req'[r].status = 0
        /\ req'[r].by = c /\ req'[r].access = jar[c].access
    BY <1>1, <1>2 DEF Leaves, Idle
  <1>4. FirstStep(op) \notin {"idle", "answered", "over"} /\ op # None
    BY SessionsAssumption DEF FirstStep, Ops
  <1>5. \A t : StaleCheck(t) => StaleCheck(t)'
    BY <1>2, <1>3, StaleStays DEF TabInv
  <1>6. \A t \in Token \ {None} : At(t, "over") => req'[t] = req[t]
    BY <1>2, <1>3 DEF Token, At
  <1>7. /\ \A s \in Requests : req[s].access \in Token
        /\ \A d \in Callers : jar[d].access \in Token
    BY <1>2 DEF Req
  <1>8. FromTabs' /\ Answers'
    BY <1>1, <1>3, <1>4 DEF TabInv, FromTabs, Answers, At
  <1>9. Carried'
    <2>1. \A d \in Callers : jar[d].access # None =>
              req'[jar[d].access].step = "over" /\ req'[jar[d].access] = req[jar[d].access]
      BY <1>6, <1>7 DEF TabInv, Carried, At
    <2>2. \A s \in Requests : req[s].access # None => req'[req[s].access].step = "over"
      BY <1>6, <1>7 DEF TabInv, Carried, At
    <2>3. \A s \in Requests : req'[s].access # None => req'[req'[s].access].step = "over"
      BY <1>3, <2>1, <2>2
    <2>4. QED
      BY <1>2, <2>1, <2>3 DEF Carried, At
  <1>10. Checked'
    <2> SUFFICES ASSUME NEW s \in Requests, NEW t \in Tabs, req'[s].op = "me",
                        req'[s].by = t, req'[s].step # "over", ~StaleCheck(t)'
                 PROVE  /\ jar'[t].access \in {None, req'[s].access}
                        /\ req'[s].status = 200 => /\ req'[s].access # None
                                                   /\ req'[s].user = req'[req'[s].access].user
      BY DEF Checked, At
    <2>1. CASE s = r
      BY <1>2, <1>3, <2>1
    <2>2. CASE s # r
      <3>1. req'[s] = req[s] /\ ~StaleCheck(t)
        BY <1>3, <1>5, <2>2
      <3>2. /\ jar[t].access \in {None, req[s].access}
            /\ req[s].status = 200 => /\ req[s].access # None
                                      /\ req[s].user = req[req[s].access].user
        BY <3>1 DEF TabInv, Checked, At
      <3>3. req[s].access # None => req'[req[s].access] = req[req[s].access]
        BY <1>6, <1>7 DEF TabInv, Carried
      <3>4. QED
        BY <1>2, <3>1, <3>2, <3>3
    <2>3. QED
      BY <2>1, <2>2
  <1>11. TabTyped' /\ \A t \in Tabs : tab'[t].status = "authenticated" => tab'[t] = tab[t]
    <2>1. CASE tab' = tab
      BY <2>1 DEF TabInv, TabTyped
    <2>2. CASE c \in Tabs /\ tab' = [tab EXCEPT ![c].status = "loading"]
      BY <2>2 DEF TabInv, TabTyped
    <2>3. QED
      BY <1>1, <2>1, <2>2
  <1>12. TabTrue'
    <2> SUFFICES ASSUME NEW t \in Tabs, tab'[t].status = "authenticated", ~StaleCheck(t)',
                        jar'[t].access # None
                 PROVE  req'[jar'[t].access].user = tab'[t].user
      BY DEF TabTrue
    <2>1. tab'[t] = tab[t] /\ ~StaleCheck(t) /\ t \in Callers
      BY <1>5, <1>11 DEF Callers
    <2>2. req[jar[t].access].user = tab[t].user
      BY <1>2, <2>1 DEF TabInv, TabTrue
    <2>3. req'[jar[t].access] = req[jar[t].access]
      BY <1>2, <1>6, <1>7, <2>1 DEF TabInv, Carried
    <2>4. QED
      BY <1>2, <2>1, <2>2, <2>3
  <1>13. QED
    BY <1>8, <1>9, <1>10, <1>11, <1>12 DEF TabInv

(* What an answer makes of the cookies and the state of the tab that gets  *)
(* it, or does not.                                                        *)
LEMMA AnswerToTab ==
    ASSUME Inv, TabInv, NEW r \in Requests, At(r, "answered"), Deliver(r) \/ Lose(r),
           NEW t \in Tabs, req[r].by = t, ~StaleCheck(t)
    PROVE  /\ jar'[t].access \in {r, None, jar[t].access}
           /\ tab'[t].status = "authenticated" /\ jar'[t].access # None =>
                 \/ jar'[t].access = r /\ tab'[t].user = req[r].user
                 \/ jar'[t].access = jar[t].access /\ tab'[t] = tab[t]
                 \/ /\ jar'[t].access = jar[t].access /\ jar[t].access = req[r].access
                    /\ tab'[t].user = req[r].user /\ req[r].user = req[req[r].access].user
  <1> DEFINE op == req[r].op
             status == req[r].status
  <1>1. /\ op \in Ops \cup {None} /\ op # "refresh" /\ status \in Statuses(op)
        /\ t \in Callers
    BY DEF Inv, TypeOK, Req, TabInv, FromTabs, Answers, Callers, At
  <1>2. jar \in [Callers -> [access : Token, refresh : Token]]
    BY DEF Inv, TypeOK
  <1>3. op = "me" /\ status = 200 =>
            jar[t].access \in {None, req[r].access} /\ req[r].user = req[req[r].access].user
    BY DEF TabInv, Checked, At
  <1>4. CASE Lose(r)
    <2>1. jar' = jar /\ tab'[t] = Shows(r, 0, tab[t])
      BY <1>4 DEF Lose
    <2>2. CASE op \in {"me", "logout"}
      <3>1. tab'[t].status \in {"unavailable", "unauthenticated"}
        BY <2>1, <2>2 DEF Shows, SignedOut
      <3>2. QED
        BY <2>1, <3>1
    <2>3. CASE op \notin {"me", "logout"}
      <3>1. tab'[t] = tab[t]
        BY <2>1, <2>3 DEF Shows
      <3>2. QED
        BY <2>1, <3>1
    <2>4. QED
      BY <2>2, <2>3
  <1>5. CASE Deliver(r)
    <2>1. jar'[t] = Cookies(r) /\ tab'[t] = Shows(r, status, tab[t])
      BY <1>1, <1>2, <1>5 DEF Deliver
    <2>2. CASE op \in {"register", "login"} /\ status \in {200, 201}
      <3>1. Cookies(r) = [access |-> r, refresh |-> r]
        BY <2>2 DEF Cookies
      <3>2. Shows(r, status, tab[t]) = [status |-> "authenticated", user |-> req[r].user]
        BY <2>2 DEF Shows
      <3>3. QED
        BY <2>1, <3>1, <3>2
    <2>3. CASE op \in {"register", "login"} /\ status \in {401, 409, 429, 500}
      <3>1. Cookies(r) = jar[t]
        BY <2>3 DEF Cookies
      <3>2. Shows(r, status, tab[t]) = tab[t]
        BY <2>3 DEF Shows
      <3>3. QED
        BY <2>1, <3>1, <3>2
    <2>4. CASE op = "logout"
      <3>1. Cookies(r) \in {NoCookies, jar[t]}
        BY <2>4 DEF Cookies
      <3>2. Shows(r, status, tab[t]) = SignedOut
        BY <2>4 DEF Shows
      <3>3. QED
        BY <2>1, <3>1, <3>2 DEF NoCookies, SignedOut
    <2>5. CASE op = "me" /\ status = 200
      <3>1. Cookies(r) = jar[t]
        BY <2>5 DEF Cookies
      <3>2. Shows(r, status, tab[t]) = [status |-> "authenticated", user |-> req[r].user]
        BY <2>5 DEF Shows
      <3>3. QED
        BY <1>3, <2>1, <2>5, <3>1, <3>2
    <2>6. CASE op = "me" /\ status \in {401, 500}
      <3>1. Cookies(r) = jar[t]
        BY <2>6 DEF Cookies
      <3>2. Shows(r, status, tab[t]).status \in {"unavailable", "unauthenticated"}
        BY <2>6 DEF Shows, SignedOut
      <3>3. QED
        BY <2>1, <3>1, <3>2
    <2>7. CASE op \in {"call", None}
      <3>1. op # "logout" /\ op \notin {"register", "login", "me", "refresh"}
        BY <2>7, SessionsAssumption
      <3>2. Cookies(r) = jar[t]
        BY <3>1 DEF Cookies
      <3>3. Shows(r, status, tab[t]) \in {tab[t], SignedOut}
        BY <3>1 DEF Shows
      <3>4. QED
        BY <2>1, <3>2, <3>3 DEF SignedOut
    <2>8. QED
      BY <1>1, <2>2, <2>3, <2>4, <2>5, <2>6, <2>7 DEF Ops, Statuses
  <1>6. QED
    BY <1>4, <1>5

(* An answer that arrives, or gets lost, keeps TabInv. *)
LEMMA EndTabs ==
    ASSUME Inv, TokenInv, TabInv, NEW r \in Requests, Deliver(r) \/ Lose(r)
    PROVE  TabInv'
  <1>1. /\ TypeOK /\ req[r] \in Req /\ At(r, "answered")
        /\ Moved(r, "over", req[r].user, req[r].status)
    BY Moves DEF Inv, TypeOK, EndMoves
  <1>2. Alters(r, "over", req[r].user, req[r].status)
    BY <1>1, MovedAlters DEF At
  <1>3. /\ FromTabs' /\ \A t : StaleCheck(t) => StaleCheck(t)'
        /\ \A t \in Token \ {None} : At(t, "over") => t # r /\ req'[t] = req[t]
        /\ \A s \in Requests : req[s].access # None => req'[req[s].access].step = "over"
    BY <1>2, AlteredStays
  <1>4. /\ jar \in [Callers -> [access : Token, refresh : Token]]
        /\ \A s \in Requests : req[s].access \in Token
        /\ \A s \in Requests : req[s].prior \subseteq Requests
        /\ req'[r].step = "over" /\ req'[r].user = req[r].user
        /\ \A s \in Requests : req'[s].access = req[s].access
    BY <1>1, <1>2 DEF TypeOK, Req, Alters
  <1>5. \A c \in Callers : jar'[c].access \in {r, None, jar[c].access}
    <2>1. CASE Lose(r)
      BY <2>1 DEF Lose
    <2>2. CASE Deliver(r)
      <3>1. jar' = [jar EXCEPT ![req[r].by] = Cookies(r)]
        BY <2>2 DEF Deliver
      <3>2. Cookies(r).access \in {r, None, jar[req[r].by].access}
        BY DEF Cookies, NoCookies
      <3>3. QED
        BY <1>4, <3>1, <3>2
    <2>3. QED
      BY <2>1, <2>2
  <1>6. \A c \in Callers \ {req[r].by} : jar'[c] = jar[c]
    BY <1>4 DEF Lose, Deliver
  <1>7. \A t \in Tabs \ {req[r].by} : tab'[t] = tab[t]
    BY DEF Lose, Deliver
  <1>8. TabTyped'
    <2>1. req[r].user \in Users \cup {None}
      BY <1>1 DEF Req
    <2>2. ASSUME NEW t \in Tabs, NEW status
          PROVE  Shows(r, status, tab[t])
                     \in [status : {"closed", "loading", "authenticated", "unauthenticated",
                                    "unavailable"}, user : Users \cup {None}]
      <3>1. tab[t] \in [status : {"closed", "loading", "authenticated", "unauthenticated",
                                    "unavailable"}, user : Users \cup {None}]
        BY DEF TabInv, TabTyped
      <3>2. QED
        BY <2>1, <3>1 DEF Shows, SignedOut
    <2>3. TabTyped
      BY DEF TabInv
    <2>4. PICK status :
              tab' = [t \in Tabs |-> IF t = req[r].by THEN Shows(r, status, tab[t]) ELSE tab[t]]
      BY DEF Deliver, Lose
    <2>5. QED
      BY <2>2, <2>3, <2>4 DEF TabTyped
  <1>9. Carried'
    <2>1. ASSUME NEW c \in Callers, jar'[c].access # None
          PROVE  req'[jar'[c].access].step = "over"
      <3>1. CASE jar'[c].access = r
        BY <1>4, <3>1
      <3>2. CASE jar'[c].access = jar[c].access
        <4>1. jar[c].access \in Token \ {None} /\ At(jar[c].access, "over")
          BY <1>4, <2>1, <3>2 DEF TabInv, Carried
        <4>2. QED
          BY <1>3, <3>2, <4>1 DEF At
      <3>3. QED
        BY <1>5, <2>1, <3>1, <3>2
    <2>2. QED
      BY <1>3, <1>4, <2>1 DEF Carried, At
  <1>10. Answers'
    BY <1>2 DEF TabInv, Answers, Alters, At
  <1>11. Checked'
    <2> SUFFICES ASSUME NEW s \in Requests, NEW t \in Tabs, req'[s].op = "me",
                        req'[s].by = t, req'[s].step # "over", ~StaleCheck(t)'
                 PROVE  /\ jar'[t].access \in {None, req'[s].access}
                        /\ req'[s].status = 200 => /\ req'[s].access # None
                                                   /\ req'[s].user = req'[req'[s].access].user
      BY DEF Checked, At
    <2>1. s # r /\ req'[s] = req[s] /\ ~StaleCheck(t) /\ t \in Callers
      BY <1>2, <1>3, <1>4 DEF Alters, Callers
    <2>2. /\ jar[t].access \in {None, req[s].access}
          /\ req[s].status = 200 => /\ req[s].access # None
                                    /\ req[s].user = req[req[s].access].user
      BY <2>1 DEF TabInv, Checked, At
    <2>3. req[s].access # None => req'[req[s].access] = req[req[s].access]
      BY <1>3, <1>4 DEF TabInv, Carried
    <2>4. jar'[t].access \in {None, jar[t].access}
      <3>1. CASE req[r].by # t
        BY <1>6, <2>1, <3>1
      <3>2. CASE req[r].by = t /\ req[r].op \in {"login", "register"}
        <4>1. r \notin req[s].prior /\ s \notin req[r].prior
          BY <1>1, <2>1 DEF TokenInv, Before, At
        <4>2. QED
          BY <2>1, <3>2, <4>1 DEF StaleCheck
      <3>3. CASE req[r].by = t /\ req[r].op \notin {"login", "register"}
        <4>1. req[r].op # "refresh"
          BY <3>3 DEF TabInv, FromTabs
        <4>2. Cookies(r).access \in {None, jar[t].access}
          BY <3>3, <4>1 DEF Cookies, NoCookies
        <4>3. QED
          BY <1>4, <2>1, <3>3, <4>2 DEF Deliver, Lose
      <3>4. QED
        BY <3>1, <3>2, <3>3
    <2>5. QED
      BY <2>1, <2>2, <2>3, <2>4
  <1>12. TabTrue'
    <2> SUFFICES ASSUME NEW t \in Tabs, tab'[t].status = "authenticated", ~StaleCheck(t)',
                        jar'[t].access # None
                 PROVE  req'[jar'[t].access].user = tab'[t].user
      BY DEF TabTrue
    <2>1. ~StaleCheck(t) /\ t \in Callers
      BY <1>3 DEF Callers
    <2>2. ASSUME jar'[t].access = jar[t].access
          PROVE  req'[jar'[t].access] = req[jar[t].access]
      BY <1>3, <1>4, <2>1, <2>2 DEF TabInv, Carried
    <2>3. ASSUME jar'[t].access = jar[t].access, tab'[t] = tab[t]
          PROVE  req'[jar'[t].access].user = tab'[t].user
      BY <2>1, <2>2, <2>3 DEF TabInv, TabTrue
    <2>4. CASE req[r].by # t
      BY <1>6, <1>7, <2>1, <2>3, <2>4
    <2>5. CASE req[r].by = t
      BY <1>1, <1>4, <2>1, <2>2, <2>3, <2>5, AnswerToTab
    <2>6. QED
      BY <2>4, <2>5
  <1>13. QED
    BY <1>3, <1>8, <1>9, <1>10, <1>11, <1>12 DEF TabInv

(* Every step keeps TabInv. *)
LEMMA NextTabs ==
    ASSUME Inv, TokenInv, TabInv, [Next]_vars
    PROVE  TabInv'
  <1>1. ASSUME UNCHANGED <<req, tab>>,
               \A c \in Callers : jar'[c].access \in {None, jar[c].access}
        PROVE  TabInv'
    <2>1. \A t : StaleCheck(t)' = StaleCheck(t)
      BY <1>1 DEF StaleCheck
    <2>2. TabTyped' /\ FromTabs' /\ Answers' /\ Carried'
      BY <1>1 DEF TabInv, TabTyped, FromTabs, Answers, Carried, At
    <2>3. Checked' /\ TabTrue'
      BY <1>1, <2>1 DEF TabInv, Checked, TabTrue, At, Callers
    <2>4. QED
      BY <2>2, <2>3 DEF TabInv
  <1>2. ASSUME NEW t \in Requests, AccessExpires(t) PROVE TabInv'
    <2>1. \A c \in Callers : jar'[c].access \in {None, jar[c].access}
      BY <1>2 DEF Inv, TypeOK, AccessExpires
    <2>2. QED
      BY <1>1, <1>2, <2>1 DEF AccessExpires
  <1>3. ASSUME NEW u \in Users, WindowEnds(u) PROVE TabInv'
    BY <1>1, <1>3 DEF WindowEnds
  <1>4. ASSUME NEW a \in accounts, RemoveUser(a) PROVE TabInv'
    BY <1>1, <1>4 DEF RemoveUser
  <1>5. ASSUME Over \/ UNCHANGED vars PROVE TabInv'
    BY <1>1, <1>5 DEF Over, vars
  <1>6. QED
    BY <1>2, <1>3, <1>4, <1>5, LeavesTabs, ServeTabs, BreakingTabs, EndTabs
       DEF Next, FailOpen, GatewayLost

(* The user that a tab shows is the one that its requests are made for,    *)
(* unless a log-in overtook the session check: however the answers of its  *)
(* requests are delayed, fail or get lost, and whenever its token expires. *)
THEOREM TabsTellTheirUser == Spec => []TabTrue
  <1>1. Init => TabInv
    <2> SUFFICES ASSUME Init PROVE TabInv
      OBVIOUS
    <2>1. /\ \A r \in Requests : /\ req[r].op = None /\ req[r].step = "idle"
                                 /\ req[r].access = None
          /\ \A c \in Callers : jar[c].access = None
      BY DEF Init, Idle, NoCookies
    <2>2. TabTyped /\ \A t \in Tabs : tab[t].status = "closed"
      BY DEF Init, TabTyped
    <2>3. QED
      BY <2>1, <2>2, SessionsAssumption
         DEF TabInv, Carried, FromTabs, Answers, Checked, TabTrue, At, Callers
  <1>2. Inv /\ TokenInv /\ TabInv /\ [Next]_vars => TabInv'
    BY NextTabs
  <1>3. TabInv => TabTrue
    BY DEF TabInv
  <1>4. QED
    BY <1>1, <1>2, <1>3, Typed, Tokens, PTL DEF Spec

=============================================================================
