------------------------------ MODULE Booking -------------------------------
(***************************************************************************)
(* Creating, paying and cancelling orders in src/server.js, over the seat  *)
(* locks of RedisStore, for one show and one server process.               *)
(*                                                                         *)
(* A handler gives up the JavaScript thread at every await.  A step of     *)
(* this module is either one command executed by Redis or ZooKeeper        *)
(* together with the local code that follows its reply, or one synchronous *)
(* section that reads or writes cinema-db.json.  Without Redis the locks   *)
(* are a Map of the process, its awaits resolve as microtasks, and a       *)
(* handler keeps the thread until it ends or waits for ZooKeeper: thread   *)
(* says who has it.                                                        *)
(*                                                                         *)
(* A process is either an order, standing for the request that creates it, *)
(* or a call: a pay or cancel request, which may be made again and again.  *)
(* Sentinel, the rate limits and permissions only refuse requests, so here *)
(* a request may always be refused at that point; they have modules of     *)
(* their own.                                                              *)
(***************************************************************************)
EXTENDS Naturals, FiniteSets

CONSTANTS
  Orders,     \* order ids, one per create request
  Calls,      \* the pay and cancel requests that can be in progress at once
  Seats,      \* the seats of the show
  MaxSeats,   \* MAX_SEATS_PER_ORDER
  Redis,      \* did the store connect to Redis (else: the in-memory map)?
  ZooKeeper,  \* did the store connect to ZooKeeper?
  Faults,     \* which faults may happen: a set of FaultKinds
  Nobody      \* no owner, no process

FaultKinds == {"restart", "redis", "zookeeper"}

ASSUME BookingAssumption ==
  /\ Orders \cap Calls = {}
  /\ Nobody \notin Orders \cup Calls
  /\ MaxSeats \in Nat
  /\ Redis \in BOOLEAN /\ ZooKeeper \in BOOLEAN
  /\ Faults \subseteq FaultKinds

VARIABLES
  status, seatsOf,  \* order rows of the database; seatsOf is set by the request
  sold,             \* show.sold
  overdue,          \* orders whose expiresAt has passed
  lock,             \* seat -> owner of the key lock:<show>:<seat>
  znode,            \* seat -> creator of /locks/seat/<show>/<seat>
  redisUp,          \* is the Redis connection open?
  zk,               \* the ZooKeeper session: absent, live or expired
  events,           \* order -> how many events of each type were published
  pc,               \* process -> where its handler is
  target,           \* call -> the order it is about
  todo, busy,       \* process -> seats to handle, seats with a command in flight
  thread            \* who holds the JavaScript thread, when it is not given up

dbVars == <<status, seatsOf, sold>>
storeVars == <<lock, znode, redisUp, zk>>
vars == <<status, seatsOf, sold, overdue, lock, znode, redisUp, zk, events,
          pc, target, todo, busy, thread>>

Procs == Orders \cup Calls
EventType == {"ORDER_CREATED", "ORDER_PAID", "ORDER_CANCELLED"}

\* Where releaseSeat is called from: the rollback of a refused order, the
\* loop of pay, and the first and second Promise.all of cancelOrder.
Releasing == {"rollback", "paying", "cancelling", "sweeping"}
CreatePc == {"idle", "admitted", "locking", "creating", "zkset", "storing",
             "created", "rollback", "done"}
CallPc == {"idle", "checking", "paying", "paid", "cancelling", "cancelled", "sweeping"}

Init ==
  /\ status = [o \in Orders |-> "NONE"]
  /\ seatsOf = [o \in Orders |-> {}]
  /\ sold \in SUBSET Seats
  /\ overdue = {}
  /\ lock = [s \in Seats |-> Nobody]
  /\ znode = [s \in Seats |-> Nobody]
  /\ redisUp = Redis
  /\ zk = IF ZooKeeper THEN "live" ELSE "absent"
  /\ events = [o \in Orders |-> [e \in EventType |-> 0]]
  /\ pc = [p \in Procs |-> "idle"]
  /\ target \in {[c \in Calls |-> o] : o \in Orders}
  /\ todo = [p \in Procs |-> {}]
  /\ busy = [p \in Procs |-> {}]
  /\ thread = Nobody

-----------------------------------------------------------------------------
(* Scheduling.                                                             *)

OrderOf(p) == IF p \in Orders THEN p ELSE target[p]

\* A handler at this point has given up the thread.
Yields(at) ==
  \/ Redis
  \/ at \in {"idle", "done", "creating", "zkset"}
  \/ at = "locking" /\ zk = "live"

\* The handler p runs and stops at the next point.
Run(p, next) ==
  /\ thread \in {Nobody, p}
  /\ pc' = [pc EXCEPT ![p] = next]
  /\ thread' = IF Yields(next) THEN Nobody ELSE p

\* ZooKeeper answers the handler p, which will go on from the next point.
ZkAnswers(p, next) == pc' = [pc EXCEPT ![p] = next] /\ UNCHANGED thread

StoreAnswers == Redis => redisUp

\* Mutant of AllReleased: the deletions are not awaited.
AllAsked(p) == todo[p] = {}
AllReleased(p) == todo[p] = {} /\ busy[p] = {}

Todo(p, S) == todo' = [todo EXCEPT ![p] = S]
Busy(p, S) == busy' = [busy EXCEPT ![p] = S]
\* Mutant of SetStatus: the reason of a cancellation is stored as its status.
SetReason(o, st) ==
  status' = [status EXCEPT ![o] = IF st = "CANCELLED" THEN "USER_CANCELLED" ELSE st]
SetStatus(o, st) == status' = [status EXCEPT ![o] = st]
SetLock(s, owner) == lock' = [lock EXCEPT ![s] = owner]
Publish(o, e) == events' = [events EXCEPT ![o][e] = @ + 1]

-----------------------------------------------------------------------------
(* POST /api/orders                                                        *)

\* Sentinel let the request in; it waits for canPlaceOrder.
Submit(o, S) ==
  /\ pc[o] = "idle"
  /\ S # {} /\ Cardinality(S) <= MaxSeats
  /\ Run(o, "admitted")
  /\ seatsOf' = [seatsOf EXCEPT ![o] = S]
  /\ UNCHANGED <<status, sold, overdue, storeVars, events, target, todo, busy>>

\* RATE_LIMITED or SEAT_ALREADY_SOLD.
Turned(o) ==
  /\ pc[o] = "admitted"
  /\ Run(o, "done")
  /\ UNCHANGED <<dbVars, overdue, storeVars, events, target, todo, busy>>

\* Mutant of FindSeats: the sold seats are not looked at.
FindSeatsBlind(o) ==
  /\ pc[o] = "admitted"
  /\ Run(o, "locking")
  /\ Todo(o, seatsOf[o])
  /\ UNCHANGED <<dbVars, overdue, storeVars, events, target, busy>>

\* findShow and the checks on its seats, after the last await before the locks.
FindSeats(o) ==
  /\ pc[o] = "admitted"
  /\ seatsOf[o] \cap sold = {}
  /\ Run(o, "locking")
  /\ Todo(o, seatsOf[o])
  /\ UNCHANGED <<dbVars, overdue, storeVars, events, target, busy>>

\* Mutant of LockedSoFar: a refused request forgets what it locked.
NothingLocked(o) == todo[o] \ seatsOf[o]

\* The seats the request has locked so far, while s is being tried.
LockedSoFar(o) == seatsOf[o] \ todo[o]

\* lockSeat answered true for s, or false.
SeatLocked(o, s) ==
  /\ Run(o, IF todo[o] = {s} THEN "storing" ELSE "locking")
  /\ Todo(o, todo[o] \ {s})
SeatRefused(o) ==
  /\ Run(o, "rollback")
  /\ Todo(o, LockedSoFar(o))

\* SET NX EX, or the map.
TakeLock(o, s) == IF lock[s] = Nobody THEN o ELSE lock[s]

\* There is no ZooKeeper session, or its connection may be lost for a while.
ZkMayFail == zk # "live" \/ "zookeeper" \in Faults

\* lockSeatWithoutZK: not connected, or ensurePathExists failed.
LockWithoutZk(o, s) ==
  /\ pc[o] = "locking" /\ ZkMayFail
  /\ s \in todo[o]
  /\ StoreAnswers
  /\ SetLock(s, TakeLock(o, s))
  /\ IF lock[s] = Nobody THEN SeatLocked(o, s) ELSE SeatRefused(o)
  /\ UNCHANGED <<dbVars, overdue, znode, redisUp, zk, events, target, busy>>

\* ensurePathExists found or made the parent nodes.
EnsurePath(o) ==
  /\ pc[o] = "locking" /\ zk = "live"
  /\ ZkAnswers(o, "creating")
  /\ UNCHANGED <<dbVars, overdue, storeVars, events, target, todo, busy>>

\* The ephemeral node of the seat is created, or is already there.
CreateZnode(o, s) ==
  /\ pc[o] = "creating" /\ zk = "live"
  /\ s \in todo[o]
  /\ IF znode[s] = Nobody
       THEN /\ znode' = [znode EXCEPT ![s] = o]
            /\ ZkAnswers(o, "zkset")
            /\ Busy(o, {s})
            /\ UNCHANGED todo
       ELSE /\ ZkAnswers(o, "rollback")
            /\ Todo(o, LockedSoFar(o))
            /\ UNCHANGED <<znode, busy>>
  /\ UNCHANGED <<dbVars, overdue, lock, redisUp, zk, events, target>>

\* The create command, or only its answer, is lost with the connection.
CreateZnodeFails(o, s) ==
  /\ pc[o] = "creating" /\ ZkMayFail
  /\ s \in todo[o]
  /\ \/ UNCHANGED znode
     \/ zk = "live" /\ znode[s] = Nobody /\ znode' = [znode EXCEPT ![s] = o]
  /\ ZkAnswers(o, "rollback")
  /\ Todo(o, LockedSoFar(o))
  /\ UNCHANGED <<dbVars, overdue, lock, redisUp, zk, events, target, busy>>

\* The callback of create.  With Redis the reply of SET NX is not looked at;
\* the map refuses a seat that is taken, and a closed connection is caught.
LockWithZk(o, s) ==
  /\ pc[o] = "zkset"
  /\ s \in busy[o]
  /\ Busy(o, {})
  /\ lock' = IF StoreAnswers THEN [lock EXCEPT ![s] = TakeLock(o, s)] ELSE lock
  /\ IF StoreAnswers /\ (Redis \/ lock[s] = Nobody) THEN SeatLocked(o, s) ELSE SeatRefused(o)
  /\ UNCHANGED <<dbVars, overdue, znode, redisUp, zk, events, target>>

\* addOrder.
Store(o) ==
  /\ pc[o] = "storing"
  /\ Run(o, "created")
  /\ SetStatus(o, "PENDING_PAYMENT")
  /\ UNCHANGED <<seatsOf, sold, overdue, storeVars, events, target, todo, busy>>

PublishCreated(o) ==
  /\ pc[o] = "created"
  /\ StoreAnswers
  /\ Publish(o, "ORDER_CREATED")
  /\ Run(o, "done")
  /\ UNCHANGED <<dbVars, overdue, storeVars, target, todo, busy>>

\* SEAT_TEMPORARILY_LOCKED, once the locks taken before are given back.
RolledBack(o) ==
  /\ pc[o] = "rollback" /\ AllReleased(o)
  /\ Run(o, "done")
  /\ UNCHANGED <<dbVars, overdue, storeVars, events, target, todo, busy>>

-----------------------------------------------------------------------------
(* releaseSeat: GET the owner, DEL if it was the order.  Promise.all starts *)
(* the releases together, the loop of pay one after the other.             *)

GetOwner(p, s) ==
  /\ pc[p] \in Releasing
  /\ pc[p] = "paying" => busy[p] = {}
  /\ s \in todo[p]
  /\ StoreAnswers
  /\ Run(p, pc[p])
  /\ Todo(p, todo[p] \ {s})
  /\ Busy(p, IF lock[s] = OrderOf(p) THEN busy[p] \cup {s} ELSE busy[p])
  /\ UNCHANGED <<dbVars, overdue, storeVars, events, target>>

\* Mutant of DeleteLock: the node of the seat is removed as well.
DeleteLockAndNode(p, s) ==
  /\ pc[p] \in Releasing
  /\ s \in busy[p]
  /\ StoreAnswers
  /\ SetLock(s, Nobody)
  /\ znode' = [znode EXCEPT ![s] = Nobody]
  /\ Run(p, pc[p])
  /\ Busy(p, busy[p] \ {s})
  /\ UNCHANGED <<dbVars, overdue, redisUp, zk, events, target, todo>>

DeleteLock(p, s) ==
  /\ pc[p] \in Releasing
  /\ s \in busy[p]
  /\ StoreAnswers
  /\ SetLock(s, Nobody)
  /\ Run(p, pc[p])
  /\ Busy(p, busy[p] \ {s})
  /\ UNCHANGED <<dbVars, overdue, znode, redisUp, zk, events, target, todo>>

-----------------------------------------------------------------------------
(* POST /api/orders/:orderId/pay and /cancel, cancelOrder                  *)

Overdue(o) == o \in overdue

\* The order is read once, here; its status is not looked at again.
StartPay(c, o) ==
  /\ pc[c] = "idle"
  /\ status[o] = "PENDING_PAYMENT"
  /\ Run(c, IF Overdue(o) THEN "cancelling" ELSE "checking")
  /\ target' = [target EXCEPT ![c] = o]
  /\ Todo(c, seatsOf[o])
  /\ UNCHANGED <<dbVars, overdue, storeVars, events, busy>>

StartCancel(c, o) ==
  /\ pc[c] = "idle"
  /\ status[o] = "PENDING_PAYMENT"
  /\ Run(c, "cancelling")
  /\ target' = [target EXCEPT ![c] = o]
  /\ Todo(c, seatsOf[o])
  /\ UNCHANGED <<dbVars, overdue, storeVars, events, busy>>

\* getLockOwner of one seat: the next one, on to the releases, or LOCK_LOST.
CheckOwner(c, s) ==
  LET o == target[c] IN
  /\ pc[c] = "checking"
  /\ s \in todo[c]
  /\ StoreAnswers
  /\ \/ lock[s] = o /\ todo[c] # {s} /\ Run(c, "checking") /\ Todo(c, todo[c] \ {s})
     \/ lock[s] = o /\ todo[c] = {s} /\ Run(c, "paying") /\ Todo(c, seatsOf[o])
     \/ lock[s] # o /\ Run(c, "cancelling") /\ Todo(c, seatsOf[o])
  /\ UNCHANGED <<dbVars, overdue, storeVars, events, target, busy>>

\* Mutant of Settle: markSeatsSold is forgotten.
SettleOrderOnly(c) ==
  /\ pc[c] = "paying" /\ AllReleased(c)
  /\ Run(c, "paid")
  /\ SetStatus(target[c], "PAID")
  /\ UNCHANGED <<seatsOf, sold, overdue, storeVars, events, target, todo, busy>>

\* markSeatsSold and updateOrder, with no await between them.
Settle(c) ==
  /\ pc[c] = "paying" /\ AllReleased(c)
  /\ Run(c, "paid")
  /\ sold' = sold \cup seatsOf[target[c]]
  /\ SetStatus(target[c], "PAID")
  /\ UNCHANGED <<seatsOf, overdue, storeVars, events, target, todo, busy>>

PublishPaid(c) ==
  /\ pc[c] = "paid"
  /\ StoreAnswers
  /\ Publish(target[c], "ORDER_PAID")
  /\ Run(c, "idle")
  /\ UNCHANGED <<dbVars, overdue, storeVars, target, todo, busy>>

\* updateOrder of cancelOrder.
Close(c) ==
  /\ pc[c] = "cancelling" /\ AllReleased(c)
  /\ Run(c, "cancelled")
  /\ SetStatus(target[c], "CANCELLED")
  /\ UNCHANGED <<seatsOf, sold, overdue, storeVars, events, target, todo, busy>>

\* cancelOrder releases the seats once more after its event.
PublishCancelled(c) ==
  /\ pc[c] = "cancelled"
  /\ StoreAnswers
  /\ Publish(target[c], "ORDER_CANCELLED")
  /\ Run(c, "sweeping")
  /\ Todo(c, seatsOf[target[c]])
  /\ UNCHANGED <<dbVars, overdue, storeVars, target, busy>>

Swept(c) ==
  /\ pc[c] = "sweeping" /\ AllReleased(c)
  /\ Run(c, "idle")
  /\ UNCHANGED <<dbVars, overdue, storeVars, events, target, todo, busy>>

-----------------------------------------------------------------------------
(* Time and faults.                                                        *)

\* EX runs out; the map drops the entry when it is next looked at.
LockExpires(s) ==
  /\ lock[s] # Nobody
  /\ SetLock(s, Nobody)
  /\ UNCHANGED <<dbVars, overdue, znode, redisUp, zk, events, pc, target, todo, busy, thread>>

\* An order's deadline is computed after its locks are set, with the same
\* TTL, so its locks are gone by then.
OrderExpires(o) ==
  /\ status[o] = "PENDING_PAYMENT"
  /\ \A s \in Seats : lock[s] # o
  /\ overdue' = overdue \cup {o}
  /\ UNCHANGED <<dbVars, storeVars, events, pc, target, todo, busy, thread>>

\* The connection closes and, with reconnectStrategy false, stays closed.
RedisDrops ==
  /\ "redis" \in Faults /\ redisUp
  /\ redisUp' = FALSE
  /\ UNCHANGED <<dbVars, overdue, lock, znode, zk, events, pc, target, todo, busy, thread>>

\* Mutant of Throw: a pay or cancel handler waits for a reconnection.
ThrowInCreate(p) ==
  /\ Redis /\ ~ redisUp
  /\ p \in Orders
  /\ pc[p] \in {"locking", "storing", "created", "rollback"}
  /\ pc[p] = "locking" => ZkMayFail
  /\ Run(p, "done")
  /\ Todo(p, {}) /\ Busy(p, {})
  /\ UNCHANGED <<dbVars, overdue, storeVars, events, target>>

\* A command or its reply is lost with the connection: the handler answers 500
\* and leaves its locks as they are.
Throw(p) ==
  /\ Redis /\ ~ redisUp
  /\ pc[p] \in {"locking", "storing", "created", "checking", "paid", "cancelled"} \cup Releasing
  /\ pc[p] = "locking" => ZkMayFail
  /\ Run(p, IF p \in Orders THEN "done" ELSE "idle")
  /\ Todo(p, {}) /\ Busy(p, {})
  /\ UNCHANGED <<dbVars, overdue, storeVars, events, target>>

\* The session times out: its ephemeral nodes vanish, and it is never renewed.
SessionExpires ==
  /\ "zookeeper" \in Faults /\ zk = "live"
  /\ zk' = "expired"
  /\ znode' = [s \in Seats |-> Nobody]
  /\ UNCHANGED <<dbVars, overdue, lock, redisUp, events, pc, target, todo, busy, thread>>

\* The process dies with all its handlers and comes back, connected again and
\* after its old session timed out.  The keys of Redis survive, the map not.
Rebooted ==
  /\ "restart" \in Faults
  /\ lock' = IF Redis THEN lock ELSE [s \in Seats |-> Nobody]
  /\ znode' = [s \in Seats |-> Nobody]
  /\ redisUp' = Redis
  /\ zk' = IF ZooKeeper THEN "live" ELSE "absent"
  /\ pc' = [p \in Procs |-> IF p \in Orders /\ pc[p] # "idle" THEN "done" ELSE "idle"]
  /\ todo' = [p \in Procs |-> {}]
  /\ busy' = [p \in Procs |-> {}]
  /\ thread' = Nobody
  /\ UNCHANGED <<status, seatsOf, overdue, events, target>>

Restart == Rebooted /\ UNCHANGED sold

\* It dies between the two writes of Settle.
DieInSettle(c) ==
  /\ pc[c] = "paying" /\ AllReleased(c)
  /\ thread \in {Nobody, c}
  /\ Rebooted
  /\ sold' = sold \cup seatsOf[target[c]]

-----------------------------------------------------------------------------
CreateStep(o) ==
  \/ Turned(o) \/ FindSeats(o)
  \/ \E s \in Seats : \/ LockWithoutZk(o, s) \/ LockWithZk(o, s)
                      \/ CreateZnode(o, s) \/ CreateZnodeFails(o, s)
  \/ EnsurePath(o)
  \/ Store(o) \/ PublishCreated(o) \/ RolledBack(o)

CallStep(c) ==
  \/ \E s \in Seats : CheckOwner(c, s)
  \/ Settle(c) \/ PublishPaid(c)
  \/ Close(c) \/ PublishCancelled(c) \/ Swept(c)

ReleaseStep(p) == \E s \in Seats : GetOwner(p, s) \/ DeleteLock(p, s)

\* What the handler of p does once its request is in.
Step(p) ==
  \/ p \in Orders /\ CreateStep(p)
  \/ p \in Calls /\ CallStep(p)
  \/ ReleaseStep(p)
  \/ Throw(p)

Next ==
  \/ \E o \in Orders, S \in SUBSET Seats : Submit(o, S)
  \/ \E c \in Calls, o \in Orders : StartPay(c, o) \/ StartCancel(c, o)
  \/ \E p \in Procs : Step(p)
  \/ \E s \in Seats : LockExpires(s)
  \/ \E o \in Orders : OrderExpires(o)
  \/ RedisDrops \/ SessionExpires \/ Restart
  \/ \E c \in Calls : DieInSettle(c)

Spec == Init /\ [][Next]_vars

\* Redis and ZooKeeper answer, and the event loop runs every resolved await.
FairSpec == Spec /\ \A p \in Procs : WF_vars(Step(p))

-----------------------------------------------------------------------------
TypeOK ==
  /\ status \in [Orders -> {"NONE", "PENDING_PAYMENT", "PAID", "CANCELLED"}]
  /\ seatsOf \in [Orders -> SUBSET Seats]
  /\ sold \subseteq Seats
  /\ overdue \subseteq Orders
  /\ lock \in [Seats -> Orders \cup {Nobody}]
  /\ znode \in [Seats -> Orders \cup {Nobody}]
  /\ redisUp \in BOOLEAN
  /\ zk \in {"absent", "live", "expired"}
  /\ events \in [Orders -> [EventType -> Nat]]
  /\ pc \in [Procs -> CreatePc \cup CallPc]
  /\ target \in [Calls -> Orders]
  /\ todo \in [Procs -> SUBSET Seats]
  /\ busy \in [Procs -> SUBSET Seats]
  /\ thread \in Procs \cup {Nobody}

\* No seat is sold twice: two paid orders have no seat in common.
NoDoubleSale ==
  \A o, p \in Orders :
    o # p /\ status[o] = "PAID" /\ status[p] = "PAID" => seatsOf[o] \cap seatsOf[p] = {}

\* A paid order has its seats, whichever pay and cancel handlers of it and of
\* its rivals overlapped, and wherever the process died.
PaidSeatsSold == \A o \in Orders : status[o] = "PAID" => seatsOf[o] \subseteq sold

\* The seats of an order whose payment was announced stay off sale, even when
\* a late cancel of the same order still changes its status.
AnnouncedSeatsSold ==
  \A o \in Orders : events[o]["ORDER_PAID"] > 0 => seatsOf[o] \subseteq sold

\* A closed order owns no lock: every path that closes one has released all
\* its seats first, and nothing locks a seat for it afterwards.
ClosedHoldsNoLock ==
  \A o \in Orders : status[o] \in {"PAID", "CANCELLED"} => \A s \in Seats : lock[s] # o

\* While the store answers, a lock belongs to a request still at work or to an
\* unpaid order: a refused request leaves none behind.
LockAccountedFor ==
  \A o \in Orders :
    StoreAnswers /\ pc[o] = "done" /\ status[o] # "PENDING_PAYMENT"
    => \A s \in Seats : lock[s] # o

\* A payment is announced once, however often pay is clicked: what
\* docs/architecture-design.md says, and the handlers do not keep, because pay
\* reads the status before its awaits and settles after them.
PaidOnce == \A o \in Orders : events[o]["ORDER_PAID"] <= 1

\* Every request is answered: no handler waits for another one.
RequestsEnd == \A p \in Procs : pc[p] # "idle" ~> pc[p] \in {"idle", "done"}

\* The seats of the orders that have a row.
Placed == [o \in Orders |-> IF status[o] = "NONE" THEN {} ELSE seatsOf[o]]

\* Without Redis the handlers implement the abstract sale, an order being placed
\* when its row is added.
Sale == INSTANCE TicketSale WITH seatsOf <- Placed
ImplementsSale == Sale!SaleSpec

\* With Redis, and as long as the ZooKeeper session lasts, pay and cancel
\* handlers that overlap may overwrite each other's status, but a seat that was
\* bought has one buyer for good, the creator of its node, and no order is
\* stored for it later.
Buyer == [s \in Seats |-> IF s \in sold THEN znode[s] ELSE Nobody]
SeatLedger == INSTANCE SeatSale WITH seatsOf <- Placed, buyer <- Buyer
ImplementsSeatSale == SeatLedger!SeatSpec
=============================================================================
