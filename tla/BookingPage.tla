---------------------------- MODULE BookingPage -----------------------------
(***************************************************************************)
(* The two pages of a customer: public/js/pages/booking.js creates an order,*)
(* counts its lock down and pays it; public/js/pages/orders.js, in another  *)
(* tab, lists the orders, pays and cancels them.  The endpoints they call   *)
(* are one step each: what happens inside is the subject of Booking.        *)
(*                                                                         *)
(* A call is out until the server has handled it, then its answer is on the *)
(* way; either may be lost.  Seats, prices and notices are left out.        *)
(***************************************************************************)
EXTENDS Integers

CONSTANTS
  MaxOrders, \* bound on the orders that are created
  Jobs,      \* the calls of the orders page that can be in progress at once
  MaxLosses  \* bound on the messages that are lost

ASSUME PageAssumption == MaxOrders \in Nat /\ MaxLosses \in Nat

\* In the order of their creation.
Orders == 1..MaxOrders
NoOrder == 0

VARIABLES
  status,     \* order -> its status in the database of the server
  overdue,    \* the orders whose expiresAt has passed
  current,    \* currentOrder of the booking page, as it was answered
  timers,     \* the orders whose countdown runs on it
  call,       \* the call it is busy with
  auto,       \* order -> the call by which its countdown cancels
  list,       \* the orders page: order -> status shown
  jobs,       \* its calls
  losses

serverVars == <<status, overdue>>
bookingVars == <<current, timers, call, auto>>
listVars == <<list, jobs>>
vars == <<serverVars, bookingVars, listVars, losses>>

Status == {"none", "PENDING_PAYMENT", "PAID", "CANCELLED"}
NoCurrent == [id |-> NoOrder, status |-> "none"]
NoCall == [kind |-> "none", id |-> NoOrder, at |-> "idle"]
NoRows == [o \in Orders |-> "none"]
Idle == [at |-> "idle", id |-> NoOrder, rows |-> NoRows]

Init ==
  /\ status = NoRows /\ overdue = {}
  /\ current = NoCurrent /\ timers = {} /\ call = NoCall
  /\ auto = [o \in Orders |-> "idle"]
  /\ list = NoRows /\ jobs = [j \in Jobs |-> Idle]
  /\ losses = 0

Pending(o) == status[o] = "PENDING_PAYMENT"

-----------------------------------------------------------------------------
(* The server.                                                             *)

SetStatus(o, s) == status' = [status EXCEPT ![o] = s]

\* POST /api/orders/:orderId/pay, which cancels an order whose time is over, or
\* one that does not hold all its locks any more: LOCK_LOST.
Payable(o) == Pending(o) /\ o \notin overdue
Pay(o, held) ==
  IF ~ Pending(o) THEN UNCHANGED status
  ELSE SetStatus(o, IF Payable(o) /\ held THEN "PAID" ELSE "CANCELLED")

\* POST /api/orders/:orderId/cancel: answers success whatever the status is.
Cancel(o) == IF Pending(o) THEN SetStatus(o, "CANCELLED") ELSE UNCHANGED status

\* lockTtlSeconds after it was created: the older order first.
Overdue(o) ==
  /\ status[o] # "none" /\ overdue = 1..(o - 1)
  /\ overdue' = overdue \cup {o}
  /\ UNCHANGED <<status, bookingVars, listVars, losses>>

-----------------------------------------------------------------------------
(* booking.js                                                              *)

Busy == call # NoCall
Asks(kind, id) == call' = [kind |-> kind, id |-> id, at |-> "out"]
Answered(answer) == call' = [call EXCEPT !.at = answer]

\* Mutant of StartCountdown: the countdown before is left running.
StartAnother(o) == timers' = timers \cup {o}
\* startLockCountdown.
StartCountdown(o) == timers' = {o}

\* The button of createOrder: canCreateOrder.
CreateOrder ==
  /\ ~ Busy /\ current.status # "PENDING_PAYMENT"
  /\ Asks("create", NoOrder)
  /\ UNCHANGED <<serverVars, current, timers, auto, listVars, losses>>

\* The server creates an order, or refuses to.
Created ==
  /\ call.kind = "create" /\ call.at = "out"
  /\ \/ \E o \in Orders :
          /\ status[o] = "none" /\ \A p \in 1..(o - 1) : status[p] # "none"
          /\ SetStatus(o, "PENDING_PAYMENT")
          /\ call' = [call EXCEPT !.id = o, !.at = "done"]
     \/ Answered("refused") /\ UNCHANGED status
  /\ UNCHANGED <<overdue, current, timers, auto, listVars, losses>>

\* The answer of POST /api/orders.
ShowCreated ==
  /\ call.kind = "create" /\ call.at \in {"done", "refused"}
  /\ IF call.at = "done"
       THEN /\ current' = [id |-> call.id, status |-> "PENDING_PAYMENT"]
            /\ StartCountdown(call.id)
       ELSE current' = NoCurrent /\ UNCHANGED timers
  /\ call' = [call EXCEPT !.id = NoOrder, !.at = "seats"]
  /\ UNCHANGED <<serverVars, auto, listVars, losses>>

\* The button of payOrder: canPayOrder.
PayOrder ==
  /\ ~ Busy /\ current.status = "PENDING_PAYMENT"
  /\ Asks("pay", current.id)
  /\ UNCHANGED <<serverVars, current, timers, auto, listVars, losses>>

Paid ==
  /\ call.kind = "pay" /\ call.at = "out"
  /\ \E held \in BOOLEAN :
       /\ Pay(call.id, held)
       /\ Answered(IF Payable(call.id) /\ held THEN "done" ELSE "refused")
  /\ UNCHANGED <<overdue, current, timers, auto, listVars, losses>>

\* The answer of pay: a refused order stays on the page as it is.
ShowPaid ==
  /\ call.kind = "pay" /\ call.at \in {"done", "refused"}
  /\ IF call.at = "done"
       THEN current' = [id |-> call.id, status |-> "PAID"] /\ timers' = {}
       ELSE UNCHANGED <<current, timers>>
  /\ call' = [call EXCEPT !.id = NoOrder, !.at = "seats"]
  /\ UNCHANGED <<serverVars, auto, listVars, losses>>

\* loadSeats, with which either ends: the page is busy until then.
ShowSeats ==
  /\ call.at = "seats"
  /\ call' = NoCall
  /\ UNCHANGED <<serverVars, current, timers, auto, listVars, losses>>

\* selectShow: the order is taken off the page, its countdown goes on.
SelectShow ==
  /\ ~ Busy /\ current # NoCurrent
  /\ current' = NoCurrent
  /\ UNCHANGED <<serverVars, timers, call, auto, listVars, losses>>

\* A countdown is at its end.  It began after the lock did and counts as long, so
\* the order it was started for is overdue; it cancels the order on the page.
CountdownEnds(o) ==
  /\ o \in timers /\ o \in overdue
  /\ timers' = timers \ {o}
  /\ auto' = IF current.status = "PENDING_PAYMENT"
               THEN [auto EXCEPT ![current.id] = "out"] ELSE auto
  /\ UNCHANGED <<serverVars, current, call, listVars, losses>>

AutoCancelled(o) ==
  /\ auto[o] = "out"
  /\ Cancel(o)
  /\ auto' = [auto EXCEPT ![o] = "done"]
  /\ UNCHANGED <<overdue, current, timers, call, listVars, losses>>

\* The answer: whatever order is on the page by now is taken off it.
ShowAutoCancelled(o) ==
  /\ auto[o] = "done"
  /\ auto' = [auto EXCEPT ![o] = "idle"]
  /\ current' = NoCurrent
  /\ UNCHANGED <<serverVars, timers, call, listVars, losses>>

-----------------------------------------------------------------------------
(* orders.js                                                               *)

Put(j, stage, id, rows) == jobs' = [jobs EXCEPT ![j] = [at |-> stage, id |-> id, rows |-> rows]]

\* loadOrders, at the start and every thirty seconds.
LoadOrders(j) ==
  /\ jobs[j] = Idle
  /\ Put(j, "load", NoOrder, NoRows)
  /\ UNCHANGED <<serverVars, bookingVars, list, losses>>

\* GET /api/my/orders.
MyOrders(j) ==
  /\ jobs[j].at = "load"
  /\ Put(j, "rows", NoOrder, status)
  /\ UNCHANGED <<serverVars, bookingVars, list, losses>>

\* Mutant of Listed: orders that are on the list already are not replaced.
ListedOnce(rows) == [o \in Orders |-> IF list[o] = "none" THEN rows[o] ELSE list[o]]
Listed(rows) == rows

ShowOrders(j) ==
  /\ jobs[j].at = "rows"
  /\ list' = Listed(jobs[j].rows)
  /\ jobs' = [jobs EXCEPT ![j] = Idle]
  /\ UNCHANGED <<serverVars, bookingVars, losses>>

\* pay: an order that looks overdue is cancelled instead.
PayListed(j, o) ==
  /\ jobs[j] = Idle /\ list[o] = "PENDING_PAYMENT"
  /\ Put(j, IF o \in overdue THEN "cancel" ELSE "pay", o, NoRows)
  /\ UNCHANGED <<serverVars, bookingVars, list, losses>>

\* cancelOrder.
CancelListed(j, o) ==
  /\ jobs[j] = Idle /\ list[o] = "PENDING_PAYMENT"
  /\ Put(j, "cancel", o, NoRows)
  /\ UNCHANGED <<serverVars, bookingVars, list, losses>>

\* The answers to pay after which the page loads its list again are all but
\* LOCK_LOST, which it only gives notice of.
HandledPay(j) ==
  /\ jobs[j].at = "pay"
  /\ \E held \in BOOLEAN :
       /\ Pay(jobs[j].id, held)
       /\ IF held \/ ~ Payable(jobs[j].id)
            THEN Put(j, "load", NoOrder, NoRows)
            ELSE jobs' = [jobs EXCEPT ![j] = Idle]
  /\ UNCHANGED <<overdue, bookingVars, list, losses>>

HandledCancel(j) ==
  /\ jobs[j].at = "cancel"
  /\ Cancel(jobs[j].id)
  /\ Put(j, "load", NoOrder, NoRows)
  /\ UNCHANGED <<overdue, bookingVars, list, losses>>

-----------------------------------------------------------------------------
(* The network.                                                            *)

\* A call or its answer is lost and the page hears of an error: createOrder forgets
\* the order, also when only loading the seats failed; the others keep it.
Loses == losses < MaxLosses /\ losses' = losses + 1

CallLost ==
  /\ Loses /\ Busy
  /\ call' = NoCall
  /\ current' = IF call.kind = "create" THEN NoCurrent ELSE current
  /\ UNCHANGED <<serverVars, timers, auto, listVars>>

AutoLost(o) ==
  /\ Loses /\ auto[o] # "idle"
  /\ auto' = [auto EXCEPT ![o] = "idle"]
  /\ UNCHANGED <<serverVars, current, timers, call, listVars>>

JobLost(j) ==
  /\ Loses /\ jobs[j] # Idle
  /\ jobs' = [jobs EXCEPT ![j] = Idle]
  /\ UNCHANGED <<serverVars, bookingVars, list>>

-----------------------------------------------------------------------------
BookingStep ==
  \/ CreateOrder \/ Created \/ ShowCreated
  \/ PayOrder \/ Paid \/ ShowPaid \/ ShowSeats
  \/ SelectShow
  \/ \E o \in Orders : CountdownEnds(o) \/ AutoCancelled(o) \/ ShowAutoCancelled(o)
JobStep(j) == MyOrders(j) \/ ShowOrders(j) \/ HandledPay(j) \/ HandledCancel(j)

Next ==
  \/ BookingStep
  \/ \E o \in Orders : Overdue(o)
  \/ \E j \in Jobs : LoadOrders(j) \/ JobStep(j)
  \/ \E j \in Jobs, o \in Orders : PayListed(j, o) \/ CancelListed(j, o)
  \/ CallLost \/ (\E o \in Orders : AutoLost(o)) \/ (\E j \in Jobs : JobLost(j))

Spec == Init /\ [][Next]_vars

\* The orders page keeps polling and its calls are answered or fail.
FairSpec == Spec /\ \A j \in Jobs : WF_vars(LoadOrders(j)) /\ WF_vars(JobStep(j))

-----------------------------------------------------------------------------
TypeOK ==
  /\ status \in [Orders -> Status] /\ overdue \subseteq Orders
  /\ current \in [id : Orders \cup {NoOrder}, status : Status]
  /\ timers \subseteq Orders
  /\ call \in [kind : {"none", "create", "pay"}, id : Orders \cup {NoOrder},
               at : {"idle", "out", "done", "refused", "seats"}]
  /\ auto \in [Orders -> {"idle", "out", "done"}]
  /\ list \in [Orders -> Status]
  /\ jobs \in [Jobs -> [at : {"idle", "load", "rows", "pay", "cancel"},
                        id : Orders \cup {NoOrder}, rows : [Orders -> Status]]]
  /\ losses \in 0..MaxLosses

\* The booking page cancels an order by itself only when its time is over, whatever
\* orders were created, paid or taken off the page since its countdown began.
AutoCancelsOverdue ==
  [][\A o \in Orders : auto[o] = "idle" /\ auto'[o] = "out" => o \in overdue]_vars

\* The orders page ends up with the orders of the server, although polls overlap,
\* answers come late and out of order, and messages are lost.
ListCatchesUp == <>[](list = status)
=============================================================================
