----------------------------- MODULE MCLoadRun -----------------------------
(* Small instances of LoadRun for TLC. *)
EXTENDS LoadRun

SmallLimits ==
    [maxUsers |-> 2, maxConcurrency |-> 2, maxOrders |-> 3, maxTotal |-> 10000,
     maxBurstParallel |-> 2, maxPayments |-> 4, maxTotalOps |-> 10]

Profile ==
    [users |-> 1, concurrency |-> 2, orders |-> 3, total |-> 100, percent |-> 60,
     payRemaining |-> TRUE, burst |-> TRUE, amount |-> 60, parallel |-> 2]

(* one user; two users; a cent per order; entries beyond the limits, that  *)
(* are clamped, and a number of payments that is not; fractions of a cent, *)
(* of which two make a cent or do not                                      *)
SomeProfiles ==
    {Profile,
     [Profile EXCEPT !.users = 2, !.burst = FALSE],
     [Profile EXCEPT !.total = 1, !.concurrency = 1, !.parallel = 1],
     [Profile EXCEPT !.orders = 7, !.concurrency = 5, !.percent = 34, !.payRemaining = FALSE],
     [Profile EXCEPT !.percent = 100, !.users = 2, !.parallel = 9],
     [Profile EXCEPT !.total = 105],
     [Profile EXCEPT !.orders = 1, !.amount = 55],
     [Profile EXCEPT !.orders = 1, !.amount = 61]}

=============================================================================
