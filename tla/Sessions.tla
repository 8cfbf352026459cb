------------------------------ MODULE Sessions ------------------------------
(***************************************************************************)
(* auth-service, the gateway in front of the orders API, and AuthContext   *)
(* of the web client: accounts, refresh sessions, the rate limiter's       *)
(* counters, and what a tab believes about who is logged in.               *)
(*                                                                         *)
(* Every query and Redis command of a handler is a step of its own: none   *)
(* of the handlers has a transaction.                                      *)
(***************************************************************************)
EXTENDS Integers, FiniteSets

CONSTANTS
    Requests,
    Tabs,           \* tabs of the web client
    Clients,        \* callers that keep cookies but have no page (curl, tests)
    Emails,
    RATE_LIMIT_MAX,
    MaxFaults,      \* bound on failures and on expiries
    None

ASSUME SessionsAssumption ==
    /\ RATE_LIMIT_MAX \in Nat \ {0} /\ MaxFaults \in Nat
    /\ Tabs \cap Clients = {} /\ None \notin Requests
    /\ None \notin {"register", "login", "refresh", "logout", "me", "call"}

VARIABLES
    accounts,   \* the rows of auth.users
    log,        \* auth.audit_logs: the action, and the request it is about
    sessions,   \* Redis: the user of every live refresh token
    lapsed,     \* access tokens that no longer verify
    counter,    \* Redis: ratelimit:<user>, 0 when there is no such key
    ttl,        \* ... and whether it has an expiry
    admitted,   \* requests let through since the counter began (history)
    req,        \* the requests
    jar,        \* the two cookies of every caller
    tab,        \* AuthContext: status and user
    faults

vars == <<accounts, log, sessions, lapsed, counter, ttl, admitted, req, jar, tab, faults>>

limiter == <<counter, ttl, admitted>>
store == <<accounts, log, sessions, lapsed>>

-----------------------------------------------------------------------------
Callers == Tabs \cup Clients

(* A user is named after the request that registered it; one is there from *)
(* the start.  Tokens are named after the request that they were made for. *)
Users == Requests \cup {"first"}

NoCookies == [access |-> None, refresh |-> None]

Idle == [step |-> "idle", op |-> None, by |-> None, email |-> None, right |-> FALSE,
         access |-> None, refresh |-> None, user |-> None, status |-> 0, open |-> FALSE, prior |-> {}]

Init ==
    /\ accounts \in {{}, {[id |-> "first", email |-> e] : e \in {CHOOSE e \in Emails : TRUE}}}
    /\ log = {} /\ sessions = [t \in {} |-> None] /\ lapsed = {}
    /\ counter = [u \in Users |-> 0] /\ ttl = [u \in Users |-> FALSE]
    /\ admitted = [u \in Users |-> 0]
    /\ req = [r \in Requests |-> Idle]
    /\ jar = [c \in Callers |-> NoCookies]
    /\ tab = [t \in Tabs |-> [status |-> "closed", user |-> None]]
    /\ faults = 0

Fault == faults < MaxFaults /\ faults' = faults + 1

AccountOf(e) == {a \in accounts : a.email = e}
Exists(u) == \E a \in accounts : a.id = u

At(r, step) == req[r].step = step
Go(r, step) == req' = [req EXCEPT ![r].step = step]
GoAs(r, step, u) == req' = [req EXCEPT ![r].step = step, ![r].user = u]
Answer(r, status) == req' = [req EXCEPT ![r].step = "answered", ![r].status = status]
AnswerAs(r, status, u) ==
    req' = [req EXCEPT ![r].step = "answered", ![r].status = status, ![r].user = u]

Pending(c, ops) ==
    \E r \in Requests : req[r].by = c /\ req[r].op \in ops /\ req[r].step # "over"

(* verifyAccessToken: the user of the token that the cookie holds. *)
Verified(r) ==
    LET t == req[r].access IN IF t = None \/ t \in lapsed THEN None ELSE req[t].user

-----------------------------------------------------------------------------
(* A request leaves with the cookies of the moment. *)
FirstStep(op) ==
    CASE op = "register" -> "lookup" [] op = "login" -> "verify" [] op = "refresh" -> "get"
      [] op = "logout" -> "revoke" [] op = "me" -> "me" [] op = "call" -> "gate"

Leaves(r, c, op, email, right) ==
    /\ At(r, "idle")
    /\ req' = [req EXCEPT ![r] =
                  [Idle EXCEPT !.step = FirstStep(op), !.op = op, !.by = c, !.email = email,
                               !.right = right, !.access = jar[c].access,
                               !.refresh = jar[c].refresh,
                               !.prior = {s \in Requests : At(s, "over")}]]
    /\ UNCHANGED <<store, limiter, jar, faults>>

(* AuthProvider mounts, or retrySession *)
CheckSession(r, t) ==
    /\ tab[t].status \in {"closed", "unavailable"}
    /\ Leaves(r, t, "me", None, FALSE)
    /\ tab' = [tab EXCEPT ![t].status = "loading"]

(* The log-in and registration pages are open to everybody; the button is  *)
(* disabled while a form is being submitted.                               *)
SubmitForm(r, t, op, e, right) ==
    /\ tab[t].status # "closed" /\ ~Pending(t, {"login", "register"})
    /\ Leaves(r, t, op, e, right)
    /\ UNCHANGED tab

(* The header, and the pages behind AuthGuard *)
UsePage(r, t, op) ==
    /\ tab[t].status = "authenticated"
    /\ Leaves(r, t, op, None, FALSE)
    /\ UNCHANGED tab

ClientSends(r, c, op, e, right) ==
    /\ Leaves(r, c, op, e, right)
    /\ UNCHANGED tab

-----------------------------------------------------------------------------
(* register *)
Lookup(r) ==
    /\ At(r, "lookup")
    /\ IF AccountOf(req[r].email) # {} THEN Answer(r, 409) ELSE Go(r, "insert")
    /\ UNCHANGED <<store, limiter, jar, tab, faults>>

(* Faulty variant: users.email is not UNIQUE. *)
Insert_NoIndex(r) ==
    /\ At(r, "insert")
    /\ accounts' = accounts \cup {[id |-> r, email |-> req[r].email]}
    /\ GoAs(r, "audit", r)
    /\ UNCHANGED <<log, sessions, lapsed, limiter, jar, tab, faults>>

(* The violation of the unique index is not caught. *)
Insert(r) ==
    /\ At(r, "insert")
    /\ \/ AccountOf(req[r].email) # {} /\ Answer(r, 500) /\ UNCHANGED accounts
       \/ /\ AccountOf(req[r].email) = {}
          /\ accounts' = accounts \cup {[id |-> r, email |-> req[r].email]}
          /\ GoAs(r, "audit", r)
    /\ UNCHANGED <<log, sessions, lapsed, limiter, jar, tab, faults>>

(* login *)
Verify(r) ==
    /\ At(r, "verify")
    /\ \/ /\ req[r].right
          /\ \E a \in AccountOf(req[r].email) : GoAs(r, "audit", a.id)
       \/ /\ ~req[r].right \/ AccountOf(req[r].email) = {}
          /\ Go(r, "refuse")
    /\ UNCHANGED <<store, limiter, jar, tab, faults>>

(* refresh *)
GetSession(r) ==
    /\ At(r, "get")
    /\ IF req[r].refresh \in DOMAIN sessions
       THEN GoAs(r, "find", sessions[req[r].refresh]) ELSE Answer(r, 401)
    /\ UNCHANGED <<store, limiter, jar, tab, faults>>

FindUser(r) ==
    /\ At(r, "find")
    /\ IF Exists(req[r].user) THEN Go(r, "revoke") ELSE Answer(r, 401)
    /\ UNCHANGED <<store, limiter, jar, tab, faults>>

(* revokeRefreshSession, of refresh and of logout.  A logout without a     *)
(* refresh cookie does nothing; without a valid access token it is not     *)
(* audited.                                                                *)
(* Faulty variant: only a logout revokes.                                  *)
Revoke_OnLogout(r) ==
    /\ At(r, "revoke")
    /\ sessions' = [t \in DOMAIN sessions \ (IF req[r].op = "logout" THEN {req[r].refresh} ELSE {})
                       |-> sessions[t]]
    /\ \/ req[r].op = "refresh" /\ Go(r, "store")
       \/ /\ req[r].op = "logout"
          /\ IF req[r].refresh = None \/ Verified(r) = None
             THEN Answer(r, 200) ELSE GoAs(r, "audit", Verified(r))
    /\ UNCHANGED <<accounts, log, lapsed, limiter, jar, tab, faults>>

Revoke(r) ==
    /\ At(r, "revoke")
    /\ sessions' = [t \in DOMAIN sessions \ {req[r].refresh} |-> sessions[t]]
    /\ \/ req[r].op = "refresh" /\ Go(r, "store")
       \/ /\ req[r].op = "logout"
          /\ IF req[r].refresh = None \/ Verified(r) = None
             THEN Answer(r, 200) ELSE GoAs(r, "audit", Verified(r))
    /\ UNCHANGED <<accounts, log, lapsed, limiter, jar, tab, faults>>

Success(op) == IF op = "register" THEN 201 ELSE 200

(* writeAudit: before the session is stored by register and login, after   *)
(* it by refresh, last by logout.                                          *)
Action(op) ==
    CASE op = "register" -> "USER_REGISTERED" [] op = "login" -> "USER_LOGIN"
      [] op = "refresh" -> "TOKEN_REFRESHED" [] op = "logout" -> "USER_LOGOUT"

WriteAudit(r) ==
    /\ \/ /\ At(r, "audit")
          /\ log' = log \cup {<<Action(req[r].op), r>>}
          /\ IF req[r].op \in {"register", "login"} THEN Go(r, "store") ELSE Answer(r, 200)
       \/ /\ At(r, "refuse")
          /\ log' = log \cup {<<"USER_LOGIN_FAILED", r>>}
          /\ Answer(r, 401)
    /\ UNCHANGED <<accounts, sessions, lapsed, limiter, jar, tab, faults>>

(* issueTokens and storeRefreshSession *)
StoreSession(r) ==
    /\ At(r, "store")
    /\ sessions' = [t \in DOMAIN sessions \cup {r} |->
                       IF t = r THEN req[r].user ELSE sessions[t]]
    /\ IF req[r].op = "refresh" THEN Go(r, "audit") ELSE Answer(r, Success(req[r].op))
    /\ UNCHANGED <<accounts, log, lapsed, limiter, jar, tab, faults>>

(* me *)
Me(r) ==
    /\ At(r, "me")
    /\ IF Verified(r) # None /\ Exists(Verified(r))
       THEN AnswerAs(r, 200, Verified(r)) ELSE Answer(r, 401)
    /\ UNCHANGED <<store, limiter, jar, tab, faults>>

-----------------------------------------------------------------------------
(* The gateway: authenticate, rateLimit, the proxy; and the service, which *)
(* verifies the token again.                                               *)
Gate(r) ==
    /\ At(r, "gate")
    /\ IF Verified(r) = None THEN Answer(r, 401) ELSE GoAs(r, "incr", Verified(r))
    /\ UNCHANGED <<store, limiter, jar, tab, faults>>

Admit(r) == Go(r, "proxy") /\ admitted' = [admitted EXCEPT ![req[r].user] = @ + 1]

(* Faulty variant: the first request sets no expiry. *)
Incr_NoExpire(r) ==
    LET u == req[r].user
    IN  /\ At(r, "incr")
        /\ counter' = [counter EXCEPT ![u] = @ + 1]
        /\ \/ counter[u] < RATE_LIMIT_MAX /\ Admit(r)
           \/ counter[u] >= RATE_LIMIT_MAX /\ Answer(r, 429) /\ UNCHANGED admitted
        /\ UNCHANGED <<store, ttl, jar, tab, faults>>

(* Faulty variant: the limit is compared with the count before. *)
Incr_OffByOne(r) ==
    LET u == req[r].user
    IN  /\ At(r, "incr")
        /\ counter' = [counter EXCEPT ![u] = @ + 1]
        /\ \/ counter[u] = 0 /\ Go(r, "arm") /\ UNCHANGED admitted
           \/ counter[u] \in 1 .. RATE_LIMIT_MAX /\ Admit(r)
           \/ counter[u] > RATE_LIMIT_MAX /\ Answer(r, 429) /\ UNCHANGED admitted
        /\ UNCHANGED <<store, ttl, jar, tab, faults>>

Incr(r) ==
    LET u == req[r].user
    IN  /\ At(r, "incr")
        /\ counter' = [counter EXCEPT ![u] = @ + 1]
        /\ \/ counter[u] = 0 /\ Go(r, "arm") /\ UNCHANGED admitted
           \/ counter[u] \in 1 .. RATE_LIMIT_MAX - 1 /\ Admit(r)
           \/ counter[u] >= RATE_LIMIT_MAX /\ Answer(r, 429) /\ UNCHANGED admitted
        /\ UNCHANGED <<store, ttl, jar, tab, faults>>

Expire(r) ==
    /\ At(r, "arm")
    /\ ttl' = [ttl EXCEPT ![req[r].user] = TRUE]
    /\ Admit(r)
    /\ UNCHANGED <<store, counter, jar, tab, faults>>

(* The limiter breaks off at a command that Redis may have executed: the   *)
(* request is left open if it began a counter and will not arm it.         *)
BreaksOff(r, next) ==
    LET u == req[r].user
    IN  /\ At(r, "incr") \/ At(r, "arm")
        /\ Fault
        /\ \/ /\ UNCHANGED <<counter, ttl>>
              /\ req' = [req EXCEPT ![r].step = next, ![r].open = At(r, "arm")]
           \/ /\ At(r, "incr")
              /\ counter' = [counter EXCEPT ![u] = @ + 1] /\ UNCHANGED ttl
              /\ req' = [req EXCEPT ![r].step = next, ![r].open = counter[u] = 0]
           \/ /\ At(r, "arm")
              /\ ttl' = [ttl EXCEPT ![u] = TRUE] /\ UNCHANGED counter
              /\ req' = [req EXCEPT ![r].step = next]
        /\ UNCHANGED <<store, admitted, jar, tab>>

(* A Redis command fails, or its reply is lost: the request is let through. *)
FailOpen(r) == BreaksOff(r, "proxy")

(* The gateway goes down with the request: fetch throws. *)
GatewayLost(r) == BreaksOff(r, "over")

Proxy(r) ==
    /\ At(r, "proxy")
    /\ Answer(r, IF Verified(r) = None THEN 401 ELSE 200)
    /\ UNCHANGED <<store, limiter, jar, tab, faults>>

(* The window ends. *)
WindowEnds(u) ==
    /\ ttl[u] /\ Fault
    /\ counter' = [counter EXCEPT ![u] = 0] /\ ttl' = [ttl EXCEPT ![u] = FALSE]
    /\ admitted' = [admitted EXCEPT ![u] = 0]
    /\ UNCHANGED <<store, req, jar, tab>>

-----------------------------------------------------------------------------
(* Failures.                                                               *)
(* A query or a command of a handler fails, or the service is not there:   *)
(* 500 or 502.  What is done is done.                                      *)
(* Faulty variant: the audit row is left out when it cannot be written.    *)
Fail_AuditOptional(r) ==
    /\ req[r].step \notin {"idle", "answered", "over", "incr", "arm"}
    /\ Fault
    /\ CASE At(r, "audit") /\ req[r].op \in {"register", "login"} -> Go(r, "store")
         [] At(r, "audit") /\ req[r].op = "refresh" -> Answer(r, 200)
         [] OTHER -> Answer(r, 500)
    /\ UNCHANGED <<store, limiter, jar, tab>>

Fail(r) ==
    /\ req[r].step \notin {"idle", "answered", "over", "incr", "arm"}
    /\ Fault /\ Answer(r, 500)
    /\ UNCHANGED <<store, limiter, jar, tab>>

(* 15 minutes go by: the access token of request t, and its cookie. *)
AccessExpires(t) ==
    /\ t \notin lapsed /\ \E c \in Callers : jar[c].access = t
    /\ Fault
    /\ lapsed' = lapsed \cup {t}
    /\ jar' = [c \in Callers |-> IF jar[c].access = t THEN [jar[c] EXCEPT !.access = None]
                                 ELSE jar[c]]
    /\ UNCHANGED <<accounts, log, sessions, limiter, req, tab>>

(* The test-runner removes a user; its sessions stay. *)
RemoveUser(a) ==
    /\ Fault /\ accounts' = accounts \ {a}
    /\ UNCHANGED <<log, sessions, lapsed, limiter, req, jar, tab>>

-----------------------------------------------------------------------------
(* setAuthCookies and clearAuthCookies, as the caller receives them. *)
Cookies(r) ==
    CASE req[r].op \in {"register", "login", "refresh"} /\ req[r].status < 300 ->
             [access |-> r, refresh |-> r]
      [] req[r].op = "logout" /\ req[r].status = 200 -> NoCookies
      [] OTHER -> jar[req[r].by]

SignedOut == [status |-> "unauthenticated", user |-> None]

(* AuthContext, and notifyAuthFailure of the API client. *)
(* Faulty variant: a log-in does not replace the user that is shown. *)
Shows_KeepsUser(r, status, now) ==
    CASE req[r].op \in {"register", "login", "me"} /\ status \in {200, 201} ->
             IF now.user # None THEN now
             ELSE [status |-> "authenticated", user |-> req[r].user]
      [] req[r].op = "logout" -> SignedOut
      [] req[r].op \in {"me", "call"} /\ status = 401 -> SignedOut
      [] req[r].op = "me" /\ status \notin {200, 401} -> [status |-> "unavailable", user |-> None]
      [] OTHER -> now

Shows(r, status, now) ==
    CASE req[r].op \in {"register", "login", "me"} /\ status \in {200, 201} ->
             [status |-> "authenticated", user |-> req[r].user]
      [] req[r].op = "logout" -> SignedOut
      [] req[r].op \in {"me", "call"} /\ status = 401 -> SignedOut
      [] req[r].op = "me" /\ status \notin {200, 401} -> [status |-> "unavailable", user |-> None]
      [] OTHER -> now

Deliver(r) ==
    /\ At(r, "answered")
    /\ Go(r, "over")
    /\ jar' = [jar EXCEPT ![req[r].by] = Cookies(r)]
    /\ tab' = [t \in Tabs |-> IF t = req[r].by THEN Shows(r, req[r].status, tab[t]) ELSE tab[t]]
    /\ UNCHANGED <<store, limiter, faults>>

(* The answer does not arrive: fetch throws. *)
Lose(r) ==
    /\ At(r, "answered") /\ Fault
    /\ Go(r, "over")
    /\ tab' = [t \in Tabs |-> IF t = req[r].by THEN Shows(r, 0, tab[t]) ELSE tab[t]]
    /\ UNCHANGED <<store, limiter, jar>>

-----------------------------------------------------------------------------
Serve(r) ==
    \/ Lookup(r) \/ Insert(r) \/ Verify(r) \/ GetSession(r) \/ FindUser(r) \/ Revoke(r)
    \/ WriteAudit(r) \/ StoreSession(r) \/ Me(r)
    \/ Gate(r) \/ Incr(r) \/ Expire(r) \/ Proxy(r)

Send(r) ==
    \/ \E t \in Tabs :
          \/ CheckSession(r, t)
          \/ \E op \in {"login", "register"}, e \in Emails, right \in BOOLEAN :
                SubmitForm(r, t, op, e, right)
          \/ \E op \in {"logout", "call"} : UsePage(r, t, op)
    \/ \E c \in Clients :
          \/ \E op \in {"refresh", "logout", "call"} : ClientSends(r, c, op, None, FALSE)
          \/ \E op \in {"login", "register"}, e \in Emails : ClientSends(r, c, op, e, TRUE)

Over == (\A r \in Requests : At(r, "over")) /\ UNCHANGED vars

Next ==
    \/ \E r \in Requests : Send(r) \/ Serve(r) \/ Deliver(r)
    \/ \E r \in Requests : Fail(r) \/ FailOpen(r) \/ GatewayLost(r) \/ Lose(r) \/ AccessExpires(r)
    \/ \E u \in Users : WindowEnds(u)
    \/ \E a \in accounts : RemoveUser(a)
    \/ Over

Spec == Init /\ [][Next]_vars

-----------------------------------------------------------------------------
(* However many registrations of an e-mail race, it has one account; and   *)
(* who registers an e-mail after somebody else has been told of success is *)
(* told that it is taken, not that something went wrong.                   *)
OneAccount ==
    /\ \A a, b \in accounts : a.email = b.email => a = b
    /\ \A r \in Requests : req[r].op = "register" /\ req[r].status = 500 /\ faults = 0 =>
          \A s \in req[r].prior : ~(req[s].status = 201 /\ req[s].email = req[r].email)

(* A refresh token that has been exchanged, or logged out, is not accepted *)
(* from a request that is sent later: what `single-use window` (refresh)   *)
(* amounts to.  Requests that overlap may both be accepted.                *)
NoReuse ==
    \A r \in Requests : req[r].op = "refresh" /\ req[r].status = 200 =>
        \A s \in req[r].prior :
            req[s].refresh = req[r].refresh /\ req[s].op \in {"refresh", "logout"} =>
                req[s].status # 200

(* No tokens are handed out without the audit row that says so, whatever   *)
(* fails between the three writes of a registration, log-in or refresh.    *)
HandedOutIsLogged ==
    \A r \in Requests :
        req[r].op \in {"register", "login", "refresh"} /\ req[r].status \in {200, 201} =>
            <<Action(req[r].op), r>> \in log

(* Within a window a user gets no more than RATE_LIMIT_MAX requests past   *)
(* the limiter, however they interleave, as long as Redis answers.         *)
WindowBound == \A u \in Users : admitted[u] <= RATE_LIMIT_MAX

(* A counter without an expiry is about to get one, however requests and   *)
(* windows overlap; only a request that was broken off after the INCR that *)
(* began the counter, by Redis or with the gateway, leaves it as it is.    *)
CounterExpires ==
    \A u \in Users : counter[u] > 0 /\ ~ttl[u] =>
        \E r \in Requests : req[r].user = u /\ (At(r, "arm") \/ req[r].open)

(* Who is told to try again `in under ... seconds` can do so: his counter  *)
(* expires, or is about to be told to.                                     *)
LimitLapses ==
    \A u \in Users : counter[u] > RATE_LIMIT_MAX =>
        ttl[u] \/ \E r \in Requests : req[r].user = u /\ At(r, "arm")

(* The session check of t was under way together with a log-in. *)
StaleCheck(t) ==
    \E r, s \in Requests :
        /\ req[r].by = t /\ req[s].by = t
        /\ req[r].op = "me" /\ req[s].op \in {"login", "register"}
        /\ r \notin req[s].prior /\ s \notin req[r].prior

(* The user that a tab shows is the one that its requests are made for,    *)
(* unless a log-in overtook the session check.                             *)
TabTrue ==
    \A t \in Tabs :
        tab[t].status = "authenticated" /\ ~StaleCheck(t) /\ jar[t].access # None =>
            req[jar[t].access].user = tab[t].user

=============================================================================
