-------------------------- MODULE StandaloneProofs --------------------------
(***************************************************************************)
(* Theorems about Standalone for every set of orders and seats, every TTL, *)
(* clock bound and crash setting.  NoDoubleSale is not inductive: it rests *)
(* on sold seats being unlocked, which rests on every lock belonging to an *)
(* unpaid order that asked for the seat.                                   *)
(***************************************************************************)
EXTENDS Standalone, TLAPS

\* A lock never outlives its order: it is taken before the order's own
\* deadline is computed, with the same TTL.
LockExpiresFirst ==
  \A s \in Seats : LET o == seatLocks[s].owner IN
    o # Nobody => seatLocks[s].expiresAt <= expiresAt[o]

USE DEF EventType

-----------------------------------------------------------------------------
(* What the lock operators return.                                         *)

\* Deleting entries yields a well-formed lock map in which the remaining
\* entries are unchanged.
LEMMA LocksWithoutType ==
  ASSUME TypeOK, NEW S
  PROVE  /\ LocksWithout(S) \in [Seats -> [owner : Orders \cup {Nobody}, expiresAt : Nat]]
         /\ \A s \in Seats : LocksWithout(S)[s] = IF s \in S THEN NoLock ELSE seatLocks[s]
BY DEF TypeOK, LocksWithout, NoLock

\* Locking the seats of an order yields a well-formed lock map.
LEMMA LockedType ==
  ASSUME TypeOK, ConstantsAssumption, NEW o \in Orders, NEW S \in SUBSET Seats
  PROVE  /\ Locked(o, S) \in [Seats -> [owner : Orders \cup {Nobody}, expiresAt : Nat]]
         /\ \A s \in Seats : Locked(o, S)[s] =
              IF s \in S THEN [owner |-> o, expiresAt |-> now + TTL] ELSE seatLocks[s]
BY DEF TypeOK, Locked, ConstantsAssumption

\* Of the writes of a handler either all reach the disk or the process died,
\* and then the lock map is empty.
LEMMA LocksAfterType ==
  ASSUME ConstantsAssumption, NEW k, NEW n, NEW locks,
         locks \in [Seats -> [owner : Orders \cup {Nobody}, expiresAt : Nat]],
         LocksAfter(k, n, locks)
  PROVE  /\ seatLocks' \in [Seats -> [owner : Orders \cup {Nobody}, expiresAt : Nat]]
         /\ \/ k = n /\ seatLocks' = locks
            \/ k # n /\ \A s \in Seats : seatLocks'[s].owner = Nobody
BY DEF LocksAfter, NoLock

-----------------------------------------------------------------------------
(* The type invariant.                                                     *)

LEMMA TypeInit == Init => TypeOK
BY ConstantsAssumption DEF Init, TypeOK, NoLock, ConstantsAssumption

LEMMA TypeNext == TypeOK /\ [Next]_vars => TypeOK'
<1> SUFFICES ASSUME TypeOK, [Next]_vars PROVE TypeOK'
  OBVIOUS
<1> USE ConstantsAssumption DEF ConstantsAssumption
<1>1. ASSUME NEW o \in Orders, NEW S \in SUBSET Seats, NEW d \in 0..Delay, NEW k \in 0..2,
             CreateOrder(o, S, d, k)
      PROVE  TypeOK'
  <2>1. seatLocks' \in [Seats -> [owner : Orders \cup {Nobody}, expiresAt : Nat]]
    <3>1. Locked(o, S) \in [Seats -> [owner : Orders \cup {Nobody}, expiresAt : Nat]]
      BY LockedType
    <3>2. LocksAfter(k, 2, Locked(o, S))
      BY <1>1 DEF CreateOrder
    <3>3. QED  BY <3>1, <3>2, LocksAfterType
  <2>2. now' \in Nat /\ now + d + TTL \in Nat
    BY <1>1 DEF CreateOrder, Passes, TypeOK
  <2>3. status' \in [Orders -> {"NONE", "PENDING_PAYMENT", "PAID", "CANCELLED"}]
    BY <1>1 DEF CreateOrder, SetStatus, TypeOK
  <2>4. seatsOf' \in [Orders -> SUBSET Seats] /\ expiresAt' \in [Orders -> Nat]
    <3>1. CASE k >= 1
      <4>1. seatsOf' = [seatsOf EXCEPT ![o] = S] /\ expiresAt' = [expiresAt EXCEPT ![o] = now + d + TTL]
        BY <1>1, <3>1 DEF CreateOrder
      <4>2. QED  BY <4>1, <2>2 DEF TypeOK
    <3>2. CASE ~(k >= 1)
      BY <1>1, <3>2 DEF CreateOrder, TypeOK
    <3>3. QED  BY <3>1, <3>2
  <2>5. outbox' \in [Orders -> [EventType -> Nat]]
    BY <1>1 DEF CreateOrder, Record, TypeOK
  <2>6. QED  BY <1>1, <2>1, <2>2, <2>3, <2>4, <2>5 DEF CreateOrder, TypeOK
<1>2. ASSUME NEW o \in Orders, NEW S \in SUBSET Seats, NEW taken \in SUBSET Seats,
             RefuseOrder(o, S, taken)
      PROVE  TypeOK'
  BY <1>2, LocksWithoutType DEF RefuseOrder, TypeOK
<1>3. ASSUME NEW o \in Orders, NEW k \in 0..2, PayOverdue(o, k)
      PROVE  TypeOK'
  <2>1. seatLocks' \in [Seats -> [owner : Orders \cup {Nobody}, expiresAt : Nat]]
    BY <1>3, LocksWithoutType, LocksAfterType DEF PayOverdue
  <2>2. status' \in [Orders -> {"NONE", "PENDING_PAYMENT", "PAID", "CANCELLED"}]
    BY <1>3 DEF PayOverdue, SetStatus, TypeOK
  <2>3. outbox' \in [Orders -> [EventType -> Nat]]
    BY <1>3 DEF PayOverdue, Record, TypeOK
  <2>4. QED  BY <1>3, <2>1, <2>2, <2>3 DEF PayOverdue, TypeOK
<1>4. ASSUME NEW o \in Orders, NEW s \in Seats, NEW d \in 0..Delay, PayLockLost(o, s, d)
      PROVE  TypeOK'
  <2>1. seatLocks' \in [Seats -> [owner : Orders \cup {Nobody}, expiresAt : Nat]]
    BY <1>4, LocksWithoutType DEF PayLockLost, TypeOK
  <2>2. now' \in Nat
    BY <1>4 DEF PayLockLost, Passes, TypeOK
  <2>3. UNCHANGED <<status, seatsOf, expiresAt, sold, outbox>>
    BY <1>4 DEF PayLockLost
  <2>4. QED  BY <2>1, <2>2, <2>3 DEF TypeOK
<1>5. ASSUME NEW o \in Orders, NEW d \in 0..Delay, NEW k \in 0..4, PayOrder(o, d, k)
      PROVE  TypeOK'
  <2>1. seatLocks' \in [Seats -> [owner : Orders \cup {Nobody}, expiresAt : Nat]]
    BY <1>5, LocksWithoutType, LocksAfterType DEF PayOrder
  <2>2. status' \in [Orders -> {"NONE", "PENDING_PAYMENT", "PAID", "CANCELLED"}]
    BY <1>5 DEF PayOrder, SetStatus, TypeOK
  <2>3. outbox' \in [Orders -> [EventType -> Nat]]
    <3>1. CASE k >= 3
      <4>1. k - 2 \in Nat
        BY <3>1
      <4>2. outbox' = [outbox EXCEPT ![o]["ORDER_PAID"] = @ + (k - 2)]
        BY <1>5, <3>1 DEF PayOrder, Record
      <4>3. QED  BY <4>1, <4>2 DEF TypeOK
    <3>2. CASE ~ (k >= 3)
      BY <1>5, <3>2 DEF PayOrder, TypeOK
    <3>3. QED  BY <3>1, <3>2
  <2>4. sold' \subseteq Seats
    BY <1>5 DEF PayOrder, TypeOK
  <2>5. QED  BY <1>5, <2>1, <2>2, <2>3, <2>4 DEF PayOrder, Passes, TypeOK
<1>6. ASSUME NEW o \in Orders, NEW k \in 0..3, CancelOrder(o, k)
      PROVE  TypeOK'
  <2>1. seatLocks' \in [Seats -> [owner : Orders \cup {Nobody}, expiresAt : Nat]]
    BY <1>6, LocksWithoutType, LocksAfterType DEF CancelOrder
  <2>2. status' \in [Orders -> {"NONE", "PENDING_PAYMENT", "PAID", "CANCELLED"}]
    BY <1>6 DEF CancelOrder, SetStatus, TypeOK
  <2>3. outbox' \in [Orders -> [EventType -> Nat]]
    <3>1. CASE k >= 2
      <4>1. k - 1 \in Nat
        BY <3>1
      <4>2. outbox' = [outbox EXCEPT ![o]["ORDER_CANCELLED"] = @ + (k - 1)]
        BY <1>6, <3>1 DEF CancelOrder, Record
      <4>3. QED  BY <4>1, <4>2 DEF TypeOK
    <3>2. CASE ~ (k >= 2)
      BY <1>6, <3>2 DEF CancelOrder, TypeOK
    <3>3. QED  BY <3>1, <3>2
  <2>4. QED  BY <1>6, <2>1, <2>2, <2>3 DEF CancelOrder, TypeOK
<1>7. CASE ShowSeats
  BY <1>7, LocksWithoutType DEF ShowSeats, TypeOK
<1>8. CASE Tick
  BY <1>8 DEF Tick, TypeOK
<1>9. CASE Restart
  BY <1>9 DEF Restart, TypeOK, NoLock
<1>10. CASE UNCHANGED vars
  BY <1>10 DEF vars, TypeOK
<1>11. QED
  BY <1>1, <1>2, <1>3, <1>4, <1>5, <1>6, <1>7, <1>8, <1>9, <1>10 DEF Next, OrderStep

\* Every variable keeps its type in every execution of the endpoints.
THEOREM TypeCorrect == Spec => []TypeOK
BY TypeInit, TypeNext, PTL DEF Spec

-----------------------------------------------------------------------------
(* Locks belong to unpaid orders, die before them and spare sold seats.    *)

LockInv == SoldSeatUnlocked /\ LockHasOrder /\ LockExpiresFirst

LEMMA LockInvNext == TypeOK /\ LockInv /\ [Next]_vars => LockInv'
<1> SUFFICES ASSUME TypeOK, LockInv, [Next]_vars PROVE LockInv'
  OBVIOUS
<1> USE ConstantsAssumption DEF ConstantsAssumption
<1>0. TypeOK'
  BY TypeNext
<1>1. ASSUME \A s \in Seats : seatLocks'[s].owner = Nobody
      PROVE  LockInv'
  BY <1>0, <1>1 DEF LockInv, SoldSeatUnlocked, LockHasOrder, LockExpiresFirst, TypeOK
<1>2. ASSUME NEW o \in Orders, NEW S \in SUBSET Seats, NEW d \in 0..Delay, NEW k \in 0..2,
             CreateOrder(o, S, d, k)
      PROVE  LockInv'
  <2>1. CASE k = 2
    <3>1. seatLocks' = Locked(o, S) /\ sold' = sold
      BY <1>2, <2>1 DEF CreateOrder, LocksAfter
    <3>2. \A s \in Seats : seatLocks'[s] =
            IF s \in S THEN [owner |-> o, expiresAt |-> now + TTL] ELSE seatLocks[s]
      BY <3>1, LockedType
    <3>3. /\ status[o] = "NONE" /\ S \cap sold = {}
          /\ status' = [status EXCEPT ![o] = "PENDING_PAYMENT"]
          /\ seatsOf' = [seatsOf EXCEPT ![o] = S]
          /\ expiresAt' = [expiresAt EXCEPT ![o] = now + d + TTL]
      BY <1>2, <2>1 DEF CreateOrder, SetStatus
    <3>4. SoldSeatUnlocked'
      BY <3>1, <3>2, <3>3 DEF LockInv, SoldSeatUnlocked, TypeOK
    <3>5. LockHasOrder'
      BY <3>2, <3>3 DEF LockInv, LockHasOrder, TypeOK
    <3>6. LockExpiresFirst'
      <4>1. now + TTL <= now + d + TTL
        BY DEF TypeOK
      <4>2. \A s \in Seats : seatLocks[s].owner # o
        BY <3>3 DEF LockInv, LockHasOrder, TypeOK
      <4>3. QED  BY <3>2, <3>3, <4>1, <4>2 DEF LockInv, LockExpiresFirst, TypeOK
    <3>7. QED  BY <3>4, <3>5, <3>6 DEF LockInv
  <2>2. CASE k # 2
    BY <1>1, <1>2, <2>2 DEF CreateOrder, LocksAfter, NoLock
  <2>3. QED  BY <2>1, <2>2
<1>3. ASSUME NEW S, seatLocks' = LocksWithout(S),
             UNCHANGED <<status, seatsOf, expiresAt, sold>>
      PROVE  LockInv'
  <2>1. \A s \in Seats : seatLocks'[s].owner = Nobody \/ seatLocks'[s] = seatLocks[s]
    BY <1>3, LocksWithoutType DEF NoLock
  <2>2. SoldSeatUnlocked'
    BY <1>3, <2>1 DEF LockInv, SoldSeatUnlocked, TypeOK
  <2>3. LockHasOrder'
    BY <1>3, <2>1 DEF LockInv, LockHasOrder
  <2>4. LockExpiresFirst'
    BY <1>3, <2>1 DEF LockInv, LockExpiresFirst
  <2>5. QED  BY <2>2, <2>3, <2>4 DEF LockInv
<1>4. ASSUME NEW o \in Orders, seatLocks' = LocksWithout(OwnSeats(o)),
             UNCHANGED <<seatsOf, expiresAt>>,
             \A p \in Orders : p # o => status'[p] = status[p],
             \A s \in sold' : s \in sold \/ s \in OwnSeats(o)
      PROVE  LockInv'
  <2>1. \A s \in Seats : seatLocks'[s] = IF s \in OwnSeats(o) THEN NoLock ELSE seatLocks[s]
    BY <1>4, LocksWithoutType
  <2>2. \A s \in Seats : seatLocks'[s].owner # o
    BY <2>1 DEF OwnSeats, LockInv, LockHasOrder, NoLock, TypeOK
  <2>3. SoldSeatUnlocked'
    BY <1>0, <1>4, <2>1 DEF LockInv, SoldSeatUnlocked, NoLock, TypeOK
  <2>4. LockHasOrder'
    BY <1>4, <2>1, <2>2 DEF LockInv, LockHasOrder, NoLock, TypeOK
  <2>5. LockExpiresFirst'
    BY <1>4, <2>1 DEF LockInv, LockExpiresFirst, NoLock, TypeOK
  <2>6. QED  BY <2>3, <2>4, <2>5 DEF LockInv
<1>5. ASSUME NEW o \in Orders, NEW S \in SUBSET Seats, NEW taken \in SUBSET Seats,
             RefuseOrder(o, S, taken)
      PROVE  LockInv'
  BY <1>3, <1>5 DEF RefuseOrder
<1>6. ASSUME NEW o \in Orders, NEW k \in 0..2, PayOverdue(o, k)
      PROVE  LockInv'
  <2>1. /\ UNCHANGED <<seatsOf, expiresAt>>
        /\ \A s \in sold' : s \in sold \/ s \in OwnSeats(o)
        /\ \A p \in Orders : p # o => status'[p] = status[p]
    BY <1>6 DEF PayOverdue, SetStatus, TypeOK
  <2>2. CASE k = 2
    <3>1. seatLocks' = LocksWithout(OwnSeats(o))
      BY <1>6, <2>2 DEF PayOverdue, LocksAfter
    <3>2. QED  BY <1>4, <2>1, <3>1
  <2>3. CASE k # 2
    BY <1>1, <1>6, <2>3 DEF PayOverdue, LocksAfter, NoLock
  <2>4. QED  BY <2>2, <2>3
<1>7. ASSUME NEW o \in Orders, NEW s \in Seats, NEW d \in 0..Delay, PayLockLost(o, s, d)
      PROVE  LockInv'
  <2>1. CASE seatLocks' = LocksWithout({s})
    BY <1>3, <1>7, <2>1 DEF PayLockLost
  <2>2. CASE seatLocks' = seatLocks
    BY <1>7, <2>2 DEF PayLockLost, LockInv, SoldSeatUnlocked, LockHasOrder, LockExpiresFirst
  <2>3. QED  BY <1>7, <2>1, <2>2 DEF PayLockLost
<1>8. ASSUME NEW o \in Orders, NEW d \in 0..Delay, NEW k \in 0..4, PayOrder(o, d, k)
      PROVE  LockInv'
  <2>1. CASE k = 4
    <3>1. /\ seatLocks' = LocksWithout(OwnSeats(o)) /\ sold' = sold \cup seatsOf[o]
          /\ status' = [status EXCEPT ![o] = "PAID"]
          /\ now' = now + d /\ HoldsAllSeats(o, now + d)
          /\ UNCHANGED <<seatsOf, expiresAt>>
      BY <1>8, <2>1 DEF PayOrder, LocksAfter, SetStatus, Passes
    <3>2. \A s \in sold' : s \in sold \/ s \in OwnSeats(o)
      BY <3>1 DEF HoldsAllSeats, OwnerAt, OwnSeats, TypeOK, ConstantsAssumption
    <3>3. QED  BY <1>4, <3>1, <3>2 DEF TypeOK
  <2>2. CASE k # 4
    BY <1>1, <1>8, <2>2 DEF PayOrder, LocksAfter, NoLock
  <2>3. QED  BY <2>1, <2>2
<1>9. ASSUME NEW o \in Orders, NEW k \in 0..3, CancelOrder(o, k)
      PROVE  LockInv'
  <2>1. /\ UNCHANGED <<seatsOf, expiresAt>>
        /\ \A s \in sold' : s \in sold \/ s \in OwnSeats(o)
        /\ \A p \in Orders : p # o => status'[p] = status[p]
    BY <1>9 DEF CancelOrder, SetStatus, TypeOK
  <2>2. CASE k = 3
    <3>1. seatLocks' = LocksWithout(OwnSeats(o))
      BY <1>9, <2>2 DEF CancelOrder, LocksAfter
    <3>2. QED  BY <1>4, <2>1, <3>1
  <2>3. CASE k # 3
    BY <1>1, <1>9, <2>3 DEF CancelOrder, LocksAfter, NoLock
  <2>4. QED  BY <2>2, <2>3
<1>10. CASE ShowSeats
  BY <1>3, <1>10 DEF ShowSeats
<1>11. CASE Tick
  BY <1>11 DEF Tick, LockInv, SoldSeatUnlocked, LockHasOrder, LockExpiresFirst
<1>12. CASE Restart
  BY <1>1, <1>12 DEF Restart, NoLock
<1>13. CASE UNCHANGED vars
  BY <1>13 DEF vars, LockInv, SoldSeatUnlocked, LockHasOrder, LockExpiresFirst
<1>14. QED
  BY <1>2, <1>5, <1>6, <1>7, <1>8, <1>9, <1>10, <1>11, <1>12, <1>13 DEF Next, OrderStep

LEMMA LockInvariant == Spec => [](TypeOK /\ LockInv)
<1>1. Init => TypeOK /\ LockInv
  BY TypeInit, ConstantsAssumption
     DEF Init, LockInv, SoldSeatUnlocked, LockHasOrder, LockExpiresFirst, NoLock, TypeOK
<1>2. QED
  BY <1>1, TypeNext, LockInvNext, PTL DEF Spec

\* A sold seat carries no lock.
THEOREM SoldSeatsUnlocked == Spec => []SoldSeatUnlocked
BY LockInvariant, PTL DEF LockInv

\* A lock always belongs to an unpaid order that asked for the seat.
THEOREM LocksHaveOrders == Spec => []LockHasOrder
BY LockInvariant, PTL DEF LockInv

\* Nobody is shown a seat as locked by an order past its deadline.
THEOREM OverdueReleased == Spec => []OverdueHoldsNothing
<1>1. TypeOK /\ LockInv => OverdueHoldsNothing
  <2> SUFFICES ASSUME TypeOK, LockInv, NEW s \in Seats, NEW o \in Orders, OwnerAt(s, now) = o
               PROVE  ~ Overdue(o)
    BY DEF OverdueHoldsNothing
  <2>1. seatLocks[s].expiresAt > now /\ seatLocks[s].owner = o
    BY ConstantsAssumption DEF OwnerAt, ConstantsAssumption
  <2>2. seatLocks[s].expiresAt <= expiresAt[o]
    BY <2>1, ConstantsAssumption DEF LockInv, LockExpiresFirst, ConstantsAssumption
  <2>3. QED  BY <2>1, <2>2 DEF Overdue, TypeOK
<1>2. QED  BY <1>1, LockInvariant, PTL

-----------------------------------------------------------------------------
(* The endpoints implement the abstract sale: every handler is a step of   *)
(* TicketSale or leaves orders and sold seats alone.                       *)

\* An order that holds all its seats finds none of them sold.
LEMMA HeldSeatsUnsold ==
  ASSUME TypeOK, LockInv, NEW o \in Orders, NEW t, HoldsAllSeats(o, t)
  PROVE  seatsOf[o] \cap sold = {}
BY ConstantsAssumption
   DEF LockInv, SoldSeatUnlocked, HoldsAllSeats, OwnerAt, TypeOK, ConstantsAssumption

LEMMA SaleStep == TypeOK /\ LockInv /\ [Next]_vars => [Sale!SaleNext]_Sale!saleVars
<1> SUFFICES ASSUME TypeOK, LockInv, [Next]_vars
             PROVE  Sale!SaleNext \/ UNCHANGED Sale!saleVars
  OBVIOUS
<1>1. ASSUME NEW o \in Orders, NEW S \in SUBSET Seats, NEW d \in 0..Delay, NEW k \in 0..2,
             CreateOrder(o, S, d, k)
      PROVE  Sale!SaleNext \/ UNCHANGED Sale!saleVars
  <2>1. CASE k >= 1
    <3>1. Sale!Place(o, S)
      BY <1>1, <2>1 DEF CreateOrder, SetStatus, Sale!Place
    <3>2. QED  BY <3>1 DEF Sale!SaleNext
  <2>2. CASE ~ (k >= 1)
    BY <1>1, <2>2 DEF CreateOrder, Sale!saleVars
  <2>3. QED  BY <2>1, <2>2
<1>2. ASSUME NEW o \in Orders, NEW S \in SUBSET Seats, NEW taken \in SUBSET Seats,
             RefuseOrder(o, S, taken)
      PROVE  UNCHANGED Sale!saleVars
  BY <1>2 DEF RefuseOrder, Sale!saleVars
<1>3. ASSUME NEW o \in Orders, NEW k \in 0..2, PayOverdue(o, k)
      PROVE  Sale!SaleNext \/ UNCHANGED Sale!saleVars
  <2>1. CASE k >= 1
    <3>1. Sale!Cancel(o)
      BY <1>3, <2>1 DEF PayOverdue, SetStatus, Sale!Cancel
    <3>2. QED  BY <3>1 DEF Sale!SaleNext
  <2>2. CASE ~ (k >= 1)
    BY <1>3, <2>2 DEF PayOverdue, Sale!saleVars
  <2>3. QED  BY <2>1, <2>2
<1>4. ASSUME NEW o \in Orders, NEW s \in Seats, NEW d \in 0..Delay, PayLockLost(o, s, d)
      PROVE  UNCHANGED Sale!saleVars
  BY <1>4 DEF PayLockLost, Sale!saleVars
<1>5. ASSUME NEW o \in Orders, NEW d \in 0..Delay, NEW k \in 0..4, PayOrder(o, d, k)
      PROVE  Sale!SaleNext \/ UNCHANGED Sale!saleVars
  <2>1. seatsOf[o] \cap sold = {}
    BY <1>5, HeldSeatsUnsold DEF PayOrder
  <2>2. CASE k >= 2
    <3>1. Sale!Pay(o)
      BY <1>5, <2>1, <2>2 DEF PayOrder, SetStatus, Sale!Pay
    <3>2. QED  BY <3>1 DEF Sale!SaleNext
  <2>3. CASE k = 1
    <3>1. Sale!Withdraw(o)
      BY <1>5, <2>3 DEF PayOrder, Sale!Withdraw
    <3>2. QED  BY <3>1 DEF Sale!SaleNext
  <2>4. CASE k = 0
    BY <1>5, <2>4 DEF PayOrder, Sale!saleVars
  <2>5. QED  BY <2>2, <2>3, <2>4
<1>6. ASSUME NEW o \in Orders, NEW k \in 0..3, CancelOrder(o, k)
      PROVE  Sale!SaleNext \/ UNCHANGED Sale!saleVars
  <2>1. CASE k >= 1
    <3>1. Sale!Cancel(o)
      BY <1>6, <2>1 DEF CancelOrder, SetStatus, Sale!Cancel
    <3>2. QED  BY <3>1 DEF Sale!SaleNext
  <2>2. CASE ~ (k >= 1)
    BY <1>6, <2>2 DEF CancelOrder, Sale!saleVars
  <2>3. QED  BY <2>1, <2>2
<1>7. CASE ShowSeats \/ Tick \/ Restart \/ UNCHANGED vars
  BY <1>7 DEF ShowSeats, Tick, Restart, vars, Sale!saleVars
<1>8. QED
  BY <1>1, <1>2, <1>3, <1>4, <1>5, <1>6, <1>7 DEF Next, OrderStep

\* Standalone implements TicketSale.
THEOREM Implementation == Spec => ImplementsSale
<1>1. Init => Sale!SaleInit
  BY DEF Init, Sale!SaleInit
<1>2. QED
  BY <1>1, SaleStep, LockInvariant, PTL DEF Spec, ImplementsSale, Sale!SaleSpec

-----------------------------------------------------------------------------
(* No seat is sold twice.                                                  *)

SaleInv == PaidSeatsSold /\ NoDoubleSale

LEMMA SaleInvNext ==
  TypeOK /\ LockInv /\ SaleInv /\ [Next]_vars => SaleInv'
<1> SUFFICES ASSUME TypeOK, LockInv, SaleInv, Sale!SaleNext \/ UNCHANGED Sale!saleVars, TypeOK'
             PROVE  SaleInv'
  BY SaleStep, TypeNext
<1>1. ASSUME NEW o \in Orders, NEW S \in SUBSET Seats, Sale!Place(o, S)
      PROVE  SaleInv'
  BY <1>1 DEF Sale!Place, SaleInv, PaidSeatsSold, NoDoubleSale, TypeOK
<1>2. ASSUME NEW o \in Orders, Sale!Pay(o)
      PROVE  SaleInv'
  <2>1. PaidSeatsSold'
    BY <1>2 DEF Sale!Pay, SaleInv, PaidSeatsSold, TypeOK
  <2>2. \A p \in Orders : p # o /\ status[p] = "PAID" => seatsOf[o] \cap seatsOf[p] = {}
    BY <1>2 DEF Sale!Pay, SaleInv, PaidSeatsSold
  <2>3. NoDoubleSale'
    BY <1>2, <2>2 DEF Sale!Pay, SaleInv, NoDoubleSale, TypeOK
  <2>4. QED  BY <2>1, <2>3 DEF SaleInv
<1>3. ASSUME NEW o \in Orders, Sale!Cancel(o) \/ Sale!Withdraw(o)
      PROVE  SaleInv'
  BY <1>3 DEF Sale!Cancel, Sale!Withdraw, SaleInv, PaidSeatsSold, NoDoubleSale, TypeOK
<1>4. CASE UNCHANGED Sale!saleVars
  BY <1>4 DEF Sale!saleVars, SaleInv, PaidSeatsSold, NoDoubleSale
<1>5. QED
  BY <1>1, <1>2, <1>3, <1>4 DEF Sale!SaleNext

LEMMA SaleInvariant == Spec => []SaleInv
<1>1. Init => SaleInv
  BY DEF Init, SaleInv, PaidSeatsSold, NoDoubleSale
<1>2. QED
  BY <1>1, LockInvariant, SaleInvNext, PTL DEF Spec

\* No two paid orders share a seat, for any number of orders, seats, crashes
\* and any timing of locks and orders.
THEOREM NoSeatSoldTwice == Spec => []NoDoubleSale
BY SaleInvariant, PTL DEF SaleInv

\* The seats of a paid order are off sale.
THEOREM PaidSeatsAreSold == Spec => []PaidSeatsSold
BY SaleInvariant, PTL DEF SaleInv

-----------------------------------------------------------------------------
(* The outbox announces nothing that did not happen.                       *)

\* Recording n events of one type changes that count and no other.
LEMMA RecordCount ==
  ASSUME TypeOK, NEW o \in Orders, NEW e \in EventType, NEW n \in Nat, Record(o, e, n)
  PROVE  \A p \in Orders, f \in EventType :
           outbox'[p][f] = IF p = o /\ f = e THEN outbox[p][f] + n ELSE outbox[p][f]
BY DEF Record, TypeOK

LEMMA RecordedNext ==
  TypeOK /\ RecordedHappened /\ [Next]_vars => RecordedHappened'
<1> SUFFICES ASSUME TypeOK, RecordedHappened, [Next]_vars PROVE RecordedHappened'
  OBVIOUS
<1> USE DEF EventType
<1>1. ASSUME NEW o \in Orders, NEW S \in SUBSET Seats, NEW d \in 0..Delay, NEW k \in 0..2,
             CreateOrder(o, S, d, k)
      PROVE  RecordedHappened'
  <2>1. CASE k = 2
    BY <1>1, <2>1, RecordCount DEF CreateOrder, SetStatus, RecordedHappened, TypeOK
  <2>2. CASE k # 2
    BY <1>1, <2>2 DEF CreateOrder, SetStatus, RecordedHappened, TypeOK
  <2>3. QED  BY <2>1, <2>2
<1>2. ASSUME NEW o \in Orders, NEW k \in 0..2, PayOverdue(o, k)
      PROVE  RecordedHappened'
  <2>1. CASE k = 2
    BY <1>2, <2>1, RecordCount DEF PayOverdue, SetStatus, RecordedHappened, TypeOK
  <2>2. CASE k # 2
    BY <1>2, <2>2 DEF PayOverdue, SetStatus, RecordedHappened, TypeOK
  <2>3. QED  BY <2>1, <2>2
<1>3. ASSUME NEW o \in Orders, NEW d \in 0..Delay, NEW k \in 0..4, PayOrder(o, d, k)
      PROVE  RecordedHappened'
  <2>1. CASE k >= 3
    <3>1. k - 2 \in Nat
      BY <2>1
    <3>2. QED
      BY <1>3, <2>1, <3>1, RecordCount DEF PayOrder, SetStatus, RecordedHappened, TypeOK
  <2>2. CASE ~ (k >= 3)
    BY <1>3, <2>2 DEF PayOrder, SetStatus, RecordedHappened, TypeOK
  <2>3. QED  BY <2>1, <2>2
<1>4. ASSUME NEW o \in Orders, NEW k \in 0..3, CancelOrder(o, k)
      PROVE  RecordedHappened'
  <2>1. CASE k >= 2
    <3>1. k - 1 \in Nat
      BY <2>1
    <3>2. QED
      BY <1>4, <2>1, <3>1, RecordCount DEF CancelOrder, SetStatus, RecordedHappened, TypeOK
  <2>2. CASE ~ (k >= 2)
    BY <1>4, <2>2 DEF CancelOrder, SetStatus, RecordedHappened, TypeOK
  <2>3. QED  BY <2>1, <2>2
<1>5. ASSUME NEW o \in Orders, NEW S \in SUBSET Seats, NEW taken \in SUBSET Seats,
             RefuseOrder(o, S, taken)
      PROVE  RecordedHappened'
  BY <1>5 DEF RefuseOrder, RecordedHappened
<1>6. ASSUME NEW o \in Orders, NEW s \in Seats, NEW d \in 0..Delay, PayLockLost(o, s, d)
      PROVE  RecordedHappened'
  BY <1>6 DEF PayLockLost, RecordedHappened
<1>7. CASE ShowSeats \/ Tick \/ Restart \/ UNCHANGED vars
  BY <1>7 DEF ShowSeats, Tick, Restart, vars, RecordedHappened
<1>8. QED
  BY <1>1, <1>2, <1>3, <1>4, <1>5, <1>6, <1>7 DEF Next, OrderStep

\* Events are recorded only after what they tell of, whenever the process dies.
THEOREM RecordsAreTrue == Spec => []RecordedHappened
<1>1. Init => RecordedHappened
  BY DEF Init, RecordedHappened, EventType
<1>2. QED
  BY <1>1, TypeCorrect, RecordedNext, PTL DEF Spec
=============================================================================
