----------------------------- MODULE MCBooking ------------------------------
(* Two rival orders and two pay or cancel calls on a show of one or two    *)
(* seats.                                                                  *)
EXTENDS Booking, TLC

\* No step reads the target of an idle call, whether a closed order is overdue,
\* or how often an event was published.
LiveState ==
  <<status, seatsOf, sold, lock, znode, redisUp, zk, pc, todo, busy, thread,
    {o \in overdue : status[o] = "PENDING_PAYMENT"},
    {o \in Orders : events[o]["ORDER_PAID"] > 0},
    [c \in Calls |-> IF pc[c] = "idle" THEN Nobody ELSE target[c]]>>

Symmetric == Permutations(Orders) \cup Permutations(Seats) \cup Permutations(Calls)
=============================================================================
