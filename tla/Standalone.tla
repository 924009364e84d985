----------------------------- MODULE Standalone -----------------------------
(***************************************************************************)
(* The order endpoints of server-standalone.js for one show.  No handler   *)
(* awaits anything between reading the database and answering, so a        *)
(* handler is one step of the JavaScript thread; what interleaves with it  *)
(* are the other handlers, the clock that expires locks and orders, and    *)
(* the death of the process between two of its writes to disk.             *)
(*                                                                         *)
(* Seat locks live in a Map of the process (seatLocks) and die with it;    *)
(* orders and sold seats (cinema-db.json) and the outbox (outbox.json)     *)
(* survive.  The status of outbox events is the business of Outbox.tla:    *)
(* here an event is only counted.                                          *)
(***************************************************************************)
EXTENDS Naturals, FiniteSets

CONSTANTS
  Orders,     \* order ids: crypto.randomUUID() never repeats one
  Seats,      \* the seats of the show
  MaxSeats,   \* MAX_SEATS of one order
  TTL,        \* life of a lock and of an unpaid order, in clock ticks
  Delay,      \* how far the clock may move while a handler runs
  MaxTime,    \* bound: the clock stops here
  Crashes,    \* may the process die and be restarted?
  Nobody      \* the owner of a seat that no lock protects

ASSUME ConstantsAssumption ==
  /\ Nobody \notin Orders
  /\ MaxSeats \in Nat /\ TTL \in Nat /\ Delay \in Nat /\ MaxTime \in Nat
  /\ Crashes \in BOOLEAN

VARIABLES
  now,        \* Date.now()
  status,     \* order -> status of its row in cinema-db.json, "NONE" if it has none
  seatsOf,    \* order -> seats of its row
  expiresAt,  \* order -> expiresAt of its row
  sold,       \* show.sold
  seatLocks,  \* seat -> the entry of the seatLocks map
  outbox      \* order -> how many events of each type outbox.json holds

vars == <<now, status, seatsOf, expiresAt, sold, seatLocks, outbox>>

EventType == {"ORDER_CREATED", "ORDER_PAID", "ORDER_CANCELLED"}
NoLock == [owner |-> Nobody, expiresAt |-> 0]

-----------------------------------------------------------------------------
Init ==
  /\ now = 0
  /\ status = [o \in Orders |-> "NONE"]
  /\ seatsOf = [o \in Orders |-> {}]
  /\ expiresAt = [o \in Orders |-> 0]
  /\ sold \in SUBSET Seats
  /\ seatLocks = [s \in Seats |-> NoLock]
  /\ outbox = [o \in Orders |-> [e \in EventType |-> 0]]

\* getLockOwner at time t: an entry that expired counts as no lock.
OwnerAt(s, t) ==
  IF seatLocks[s].expiresAt > t THEN seatLocks[s].owner ELSE Nobody

\* seatLocks after every seat of S that satisfies P is deleted.
LocksWithout(S) == [s \in Seats |-> IF s \in S THEN NoLock ELSE seatLocks[s]]

\* Mutant of OwnSeats: a closing handler that releases nothing.
ForgottenSeats(o) == {s \in seatsOf[o] : FALSE}

OwnSeats(o) == {s \in seatsOf[o] : seatLocks[s].owner = o}

\* A handler that writes to disk n times and dies after write k has done its
\* first k writes, and the process comes back with an empty seatLocks map.
Survives(k, n) == k = n \/ (k \in 0..n /\ Crashes)
LocksAfter(k, n, locks) ==
  seatLocks' = IF k = n THEN locks ELSE [s \in Seats |-> NoLock]

\* Mutant of SetStatus: the reason of a cancellation is stored as its status.
SetReason(o, st) ==
  status' = [status EXCEPT ![o] = IF st = "CANCELLED" THEN "ORDER_EXPIRED" ELSE st]
SetStatus(o, st) == status' = [status EXCEPT ![o] = st]
Record(o, e, n) == outbox' = [outbox EXCEPT ![o][e] = @ + n]

\* The clock moves while the handler runs, by d.
Passes(d) == d \in 0..Delay /\ now + d <= MaxTime /\ now' = now + d

-----------------------------------------------------------------------------
(* POST /api/orders.  lockSeat may take over an entry that has expired.    *)

Lockable(o, S) == \A s \in S : OwnerAt(s, now) \in {o, Nobody}
\* Mutant of Locked: locks that live longer than the order.
LockedTwiceAsLong(o, S) ==
  [s \in Seats |-> IF s \in S THEN [owner |-> o, expiresAt |-> now + 2 * TTL]
                              ELSE seatLocks[s]]
Locked(o, S) ==
  [s \in Seats |-> IF s \in S THEN [owner |-> o, expiresAt |-> now + TTL]
                              ELSE seatLocks[s]]

\* Writes: the order row, then its ORDER_CREATED event.
CreateOrder(o, S, d, k) ==
  /\ status[o] = "NONE"
  /\ Cardinality(S) <= MaxSeats
  /\ S \cap sold = {}
  /\ Lockable(o, S)
  /\ Survives(k, 2)
  /\ Passes(d)
  /\ LocksAfter(k, 2, Locked(o, S))
  /\ IF k >= 1
       THEN /\ SetStatus(o, "PENDING_PAYMENT")
            /\ seatsOf' = [seatsOf EXCEPT ![o] = S]
            /\ expiresAt' = [expiresAt EXCEPT ![o] = now + d + TTL]
       ELSE UNCHANGED <<status, seatsOf, expiresAt>>
  /\ IF k >= 2 THEN Record(o, "ORDER_CREATED", 1) ELSE UNCHANGED outbox
  /\ UNCHANGED sold

\* Mutant of RefuseOrder: the refused order keeps the locks it took.
RefuseOrderKeepingLocks(o, S, taken) ==
  /\ status[o] = "NONE"
  /\ Cardinality(S) <= MaxSeats
  /\ S \cap sold = {}
  /\ ~ Lockable(o, S)
  /\ taken \subseteq S /\ Lockable(o, taken)
  /\ seatLocks' = Locked(o, taken)
  /\ UNCHANGED <<now, status, seatsOf, expiresAt, sold, outbox>>

\* SEAT_TEMPORARILY_LOCKED: the locks taken before the one refused are given
\* back, and with them go the expired entries they had replaced.
RefuseOrder(o, S, taken) ==
  /\ status[o] = "NONE"
  /\ Cardinality(S) <= MaxSeats
  /\ S \cap sold = {}
  /\ ~ Lockable(o, S)
  /\ taken \subseteq S /\ Lockable(o, taken)
  /\ seatLocks' = LocksWithout(taken)
  /\ UNCHANGED <<now, status, seatsOf, expiresAt, sold, outbox>>

-----------------------------------------------------------------------------
(* POST /api/orders/:orderId/pay                                           *)

Overdue(o) == expiresAt[o] <= now

\* The order is cancelled instead; nothing is sent to RabbitMQ.
\* Writes: the order row, then its ORDER_CANCELLED event.
PayOverdue(o, k) ==
  /\ status[o] = "PENDING_PAYMENT"
  /\ Overdue(o)
  /\ Survives(k, 2)
  /\ LocksAfter(k, 2, LocksWithout(OwnSeats(o)))
  /\ IF k >= 1 THEN SetStatus(o, "CANCELLED") ELSE UNCHANGED status
  /\ IF k >= 2 THEN Record(o, "ORDER_CANCELLED", 1) ELSE UNCHANGED outbox
  /\ UNCHANGED <<now, seatsOf, expiresAt, sold>>

\* Mutant of HoldsAllSeats: a lock counts, whoever owns it.
HeldBySomeone(o, t) == \A s \in seatsOf[o] : OwnerAt(s, t) # Nobody

HoldsAllSeats(o, t) == \A s \in seatsOf[o] : OwnerAt(s, t) = o

\* LOCK_LOST: the order stays as it is; getLockOwner drops the entry of the
\* lost seat if that entry has expired.
PayLockLost(o, s, d) ==
  /\ status[o] = "PENDING_PAYMENT"
  /\ ~ Overdue(o)
  /\ Passes(d)
  /\ s \in seatsOf[o] /\ OwnerAt(s, now + d) # o
  /\ seatLocks' = IF OwnerAt(s, now + d) = Nobody THEN LocksWithout({s}) ELSE seatLocks
  /\ UNCHANGED <<status, seatsOf, expiresAt, sold, outbox>>

\* Mutant of PayOrder: the order row is written before the sold seats.
PayOrderStatusFirst(o, d, k) ==
  /\ status[o] = "PENDING_PAYMENT"
  /\ ~ Overdue(o)
  /\ Passes(d)
  /\ HoldsAllSeats(o, now + d)
  /\ Survives(k, 4)
  /\ LocksAfter(k, 4, LocksWithout(OwnSeats(o)))
  /\ IF k >= 1 THEN SetStatus(o, "PAID") ELSE UNCHANGED status
  /\ sold' = IF k >= 2 THEN sold \cup seatsOf[o] ELSE sold
  /\ IF k >= 3 THEN Record(o, "ORDER_PAID", k - 2) ELSE UNCHANGED outbox
  /\ UNCHANGED <<seatsOf, expiresAt>>

\* Writes: the sold seats, the order row, the ORDER_PAID event of the
\* handler, and the second ORDER_PAID event that sendOrderEvent creates.
PayOrder(o, d, k) ==
  /\ status[o] = "PENDING_PAYMENT"
  /\ ~ Overdue(o)
  /\ Passes(d)
  /\ HoldsAllSeats(o, now + d)
  /\ Survives(k, 4)
  /\ LocksAfter(k, 4, LocksWithout(OwnSeats(o)))
  /\ sold' = IF k >= 1 THEN sold \cup seatsOf[o] ELSE sold
  /\ IF k >= 2 THEN SetStatus(o, "PAID") ELSE UNCHANGED status
  /\ IF k >= 3 THEN Record(o, "ORDER_PAID", k - 2) ELSE UNCHANGED outbox
  /\ UNCHANGED <<seatsOf, expiresAt>>

-----------------------------------------------------------------------------
(* POST /api/orders/:orderId/cancel, GET .../seats, the clock, a restart.  *)

\* Mutant of CancelOrder: the event is recorded before the order row is written.
CancelOrderEventFirst(o, k) ==
  /\ status[o] = "PENDING_PAYMENT"
  /\ Survives(k, 3)
  /\ LocksAfter(k, 3, LocksWithout(OwnSeats(o)))
  /\ IF k >= 1 THEN Record(o, "ORDER_CANCELLED", 1) ELSE UNCHANGED outbox
  /\ IF k >= 2 THEN SetStatus(o, "CANCELLED") ELSE UNCHANGED status
  /\ UNCHANGED <<now, seatsOf, expiresAt, sold>>

\* Writes: the order row, the ORDER_CANCELLED event of the handler, and the
\* second one that sendOrderEvent creates.
CancelOrder(o, k) ==
  /\ status[o] = "PENDING_PAYMENT"
  /\ Survives(k, 3)
  /\ LocksAfter(k, 3, LocksWithout(OwnSeats(o)))
  /\ IF k >= 1 THEN SetStatus(o, "CANCELLED") ELSE UNCHANGED status
  /\ IF k >= 2 THEN Record(o, "ORDER_CANCELLED", k - 1) ELSE UNCHANGED outbox
  /\ UNCHANGED <<now, seatsOf, expiresAt, sold>>

\* The seat map asks for the owner of every seat, which drops expired entries.
ShowSeats ==
  /\ seatLocks' = LocksWithout({s \in Seats : OwnerAt(s, now) = Nobody})
  /\ UNCHANGED <<now, status, seatsOf, expiresAt, sold, outbox>>

Tick ==
  /\ now < MaxTime
  /\ now' = now + 1
  /\ UNCHANGED <<status, seatsOf, expiresAt, sold, seatLocks, outbox>>

Restart ==
  /\ Crashes
  /\ seatLocks' = [s \in Seats |-> NoLock]
  /\ UNCHANGED <<now, status, seatsOf, expiresAt, sold, outbox>>

OrderStep(o) ==
  \/ \E S \in SUBSET Seats, d \in 0..Delay, k \in 0..2 : CreateOrder(o, S, d, k)
  \/ \E S \in SUBSET Seats, taken \in SUBSET Seats : RefuseOrder(o, S, taken)
  \/ \E k \in 0..2 : PayOverdue(o, k)
  \/ \E s \in Seats, d \in 0..Delay : PayLockLost(o, s, d)
  \/ \E d \in 0..Delay, k \in 0..4 : PayOrder(o, d, k)
  \/ \E k \in 0..3 : CancelOrder(o, k)

Next == (\E o \in Orders : OrderStep(o)) \/ ShowSeats \/ Tick \/ Restart

Spec == Init /\ [][Next]_vars

-----------------------------------------------------------------------------
TypeOK ==
  /\ now \in Nat
  /\ status \in [Orders -> {"NONE", "PENDING_PAYMENT", "PAID", "CANCELLED"}]
  /\ seatsOf \in [Orders -> SUBSET Seats]
  /\ expiresAt \in [Orders -> Nat]
  /\ sold \subseteq Seats
  /\ seatLocks \in [Seats -> [owner : Orders \cup {Nobody}, expiresAt : Nat]]
  /\ outbox \in [Orders -> [EventType -> Nat]]

\* No seat is sold twice: two paid orders have no seat in common, whatever
\* the pay, cancel and create handlers, expiring locks and restarts do.
NoDoubleSale ==
  \A o, p \in Orders :
    o # p /\ status[o] = "PAID" /\ status[p] = "PAID" => seatsOf[o] \cap seatsOf[p] = {}

\* A paid order has its seats: pay never reports success for a seat that the
\* show still sells, even when it dies between its writes.
PaidSeatsSold == \A o \in Orders : status[o] = "PAID" => seatsOf[o] \subseteq sold

\* A sold seat carries no lock: neither a failed order, nor a takeover of an
\* expired lock, nor a restart leaves a lock with which it could be paid again.
SoldSeatUnlocked == \A s \in sold : seatLocks[s].owner = Nobody

\* A lock always belongs to an unpaid order that asked for that seat: the
\* rollback of a refused order and the release of a closed one miss no seat.
LockHasOrder ==
  \A s \in Seats : LET o == seatLocks[s].owner IN
    o # Nobody => status[o] = "PENDING_PAYMENT" /\ s \in seatsOf[o]

\* The seats of an overdue order are back in the pool: whoever asks for their
\* owner is not told of an order past its expiresAt.
OverdueHoldsNothing ==
  \A s \in Seats, o \in Orders : OwnerAt(s, now) = o => ~ Overdue(o)

\* The outbox announces nothing that did not happen: an event is recorded after
\* the status it tells of, crash or not, and no later step takes it back.
RecordedHappened ==
  \A o \in Orders :
    /\ outbox[o]["ORDER_CREATED"] > 0 => status[o] # "NONE"
    /\ outbox[o]["ORDER_PAID"] > 0 => status[o] = "PAID"
    /\ outbox[o]["ORDER_CANCELLED"] > 0 => status[o] = "CANCELLED"

\* The handlers implement the abstract sale.
Sale == INSTANCE TicketSale
ImplementsSale == Sale!SaleSpec
=============================================================================
