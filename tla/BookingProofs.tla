--------------------------- MODULE BookingProofs ----------------------------
(***************************************************************************)
(* Theorems about Booking for every set of orders, calls and seats, with   *)
(* or without Redis and ZooKeeper, and whatever faults may happen.         *)
(***************************************************************************)
EXTENDS Booking, TLAPS

-----------------------------------------------------------------------------
(* The updates the actions are made of keep the types.                     *)

\* A handler that runs to a program point takes or gives up the thread.
LEMMA RunType ==
  ASSUME TypeOK, NEW p \in Procs, NEW next \in CreatePc \cup CallPc, Run(p, next)
  PROVE  /\ pc' \in [Procs -> CreatePc \cup CallPc]
         /\ thread' \in Procs \cup {Nobody}
         /\ pc' = [pc EXCEPT ![p] = next]
BY DEF Run, TypeOK

\* ZooKeeper's answer moves the handler and leaves the thread alone.
LEMMA ZkAnswersType ==
  ASSUME TypeOK, NEW p \in Procs, NEW next \in CreatePc \cup CallPc, ZkAnswers(p, next)
  PROVE  /\ pc' \in [Procs -> CreatePc \cup CallPc]
         /\ thread' \in Procs \cup {Nobody}
         /\ pc' = [pc EXCEPT ![p] = next]
BY DEF ZkAnswers, TypeOK

\* The seats a handler has to do, or has commands in flight for.
LEMMA SeatSetsType ==
  ASSUME TypeOK, NEW p \in Procs, NEW S \in SUBSET Seats
  PROVE  /\ Todo(p, S) => todo' \in [Procs -> SUBSET Seats]
         /\ Busy(p, S) => busy' \in [Procs -> SUBSET Seats]
BY DEF Todo, Busy, TypeOK

\* A published event is counted.
LEMMA PublishType ==
  ASSUME TypeOK, NEW o \in Orders, NEW e \in EventType, Publish(o, e)
  PROVE  events' \in [Orders -> [EventType -> Nat]]
BY DEF Publish, TypeOK

\* The parts of the type invariant about processes and about the rest.
ProcsTyped ==
  /\ pc \in [Procs -> CreatePc \cup CallPc]
  /\ todo \in [Procs -> SUBSET Seats]
  /\ busy \in [Procs -> SUBSET Seats]
  /\ thread \in Procs \cup {Nobody}
RestTyped ==
  /\ status \in [Orders -> {"NONE", "PENDING_PAYMENT", "PAID", "CANCELLED"}]
  /\ seatsOf \in [Orders -> SUBSET Seats]
  /\ sold \subseteq Seats
  /\ overdue \subseteq Orders
  /\ lock \in [Seats -> Orders \cup {Nobody}]
  /\ znode \in [Seats -> Orders \cup {Nobody}]
  /\ redisUp \in BOOLEAN
  /\ zk \in {"absent", "live", "expired"}
  /\ events \in [Orders -> [EventType -> Nat]]
  /\ target \in [Calls -> Orders]

LEMMA TypeParts == TypeOK <=> ProcsTyped /\ RestTyped
BY DEF TypeOK, ProcsTyped, RestTyped

LEMMA TypeInit == Init => TypeOK
BY BookingAssumption DEF Init, TypeOK, BookingAssumption, CreatePc, CallPc, Procs

LEMMA TypeNext == TypeOK /\ [Next]_vars => TypeOK'
<1> SUFFICES ASSUME TypeOK, [Next]_vars PROVE ProcsTyped' /\ RestTyped'
  BY DEF TypeOK, ProcsTyped, RestTyped
<1> USE TypeParts DEF dbVars, storeVars
<1>0. /\ Orders \subseteq Procs /\ Calls \subseteq Procs
      /\ CreatePc \subseteq CreatePc \cup CallPc /\ CallPc \subseteq CreatePc \cup CallPc
  BY DEF Procs
<1>1. ASSUME NEW o \in Orders, NEW S \in SUBSET Seats, Submit(o, S)
      PROVE  ProcsTyped' /\ RestTyped'
  <2>1. o \in Procs
    BY <1>0
  <2>2. pc' \in [Procs -> CreatePc \cup CallPc] /\ thread' \in Procs \cup {Nobody}
    BY <1>1, <2>1, RunType DEF Submit, CreatePc
  <2>3. todo' \in [Procs -> SUBSET Seats] /\ busy' \in [Procs -> SUBSET Seats]
    BY <1>1, <2>1, SeatSetsType DEF Submit, RestTyped, ProcsTyped
  <2>4. RestTyped'
    BY <1>1 DEF Submit, RestTyped
  <2>5. QED  BY <2>2, <2>3, <2>4 DEF ProcsTyped
<1>2. ASSUME NEW c \in Calls, NEW o \in Orders, StartPay(c, o)
      PROVE  ProcsTyped' /\ RestTyped'
  <2>1. c \in Procs
    BY <1>0
  <2>2. pc' \in [Procs -> CreatePc \cup CallPc] /\ thread' \in Procs \cup {Nobody}
    BY <1>2, <2>1, RunType DEF StartPay, CallPc
  <2>3. todo' \in [Procs -> SUBSET Seats] /\ busy' \in [Procs -> SUBSET Seats]
    BY <1>2, <2>1, SeatSetsType DEF StartPay, RestTyped, ProcsTyped
  <2>4. RestTyped'
    BY <1>2 DEF StartPay, RestTyped
  <2>5. QED  BY <2>2, <2>3, <2>4 DEF ProcsTyped
<1>3. ASSUME NEW c \in Calls, NEW o \in Orders, StartCancel(c, o)
      PROVE  ProcsTyped' /\ RestTyped'
  <2>1. c \in Procs
    BY <1>0
  <2>2. pc' \in [Procs -> CreatePc \cup CallPc] /\ thread' \in Procs \cup {Nobody}
    BY <1>3, <2>1, RunType DEF StartCancel, CallPc
  <2>3. todo' \in [Procs -> SUBSET Seats] /\ busy' \in [Procs -> SUBSET Seats]
    BY <1>3, <2>1, SeatSetsType DEF StartCancel, RestTyped, ProcsTyped
  <2>4. RestTyped'
    BY <1>3 DEF StartCancel, RestTyped
  <2>5. QED  BY <2>2, <2>3, <2>4 DEF ProcsTyped
<1>4. ASSUME NEW o \in Orders, Turned(o)
      PROVE  ProcsTyped' /\ RestTyped'
  <2>1. o \in Procs
    BY <1>0
  <2>2. pc' \in [Procs -> CreatePc \cup CallPc] /\ thread' \in Procs \cup {Nobody}
    BY <1>4, <2>1, RunType DEF Turned, CreatePc
  <2>3. todo' \in [Procs -> SUBSET Seats] /\ busy' \in [Procs -> SUBSET Seats]
    BY <1>4, <2>1, SeatSetsType DEF Turned, RestTyped, ProcsTyped
  <2>4. RestTyped'
    BY <1>4 DEF Turned, RestTyped
  <2>5. QED  BY <2>2, <2>3, <2>4 DEF ProcsTyped
<1>5. ASSUME NEW o \in Orders, FindSeats(o)
      PROVE  ProcsTyped' /\ RestTyped'
  <2>1. o \in Procs
    BY <1>0
  <2>2. pc' \in [Procs -> CreatePc \cup CallPc] /\ thread' \in Procs \cup {Nobody}
    BY <1>5, <2>1, RunType DEF FindSeats, CreatePc
  <2>3. todo' \in [Procs -> SUBSET Seats] /\ busy' \in [Procs -> SUBSET Seats]
    BY <1>5, <2>1, SeatSetsType DEF FindSeats, RestTyped, ProcsTyped
  <2>4. RestTyped'
    BY <1>5 DEF FindSeats, RestTyped
  <2>5. QED  BY <2>2, <2>3, <2>4 DEF ProcsTyped
<1>6. ASSUME NEW o \in Orders, RolledBack(o)
      PROVE  ProcsTyped' /\ RestTyped'
  <2>1. o \in Procs
    BY <1>0
  <2>2. pc' \in [Procs -> CreatePc \cup CallPc] /\ thread' \in Procs \cup {Nobody}
    BY <1>6, <2>1, RunType DEF RolledBack, CreatePc
  <2>3. todo' \in [Procs -> SUBSET Seats] /\ busy' \in [Procs -> SUBSET Seats]
    BY <1>6, <2>1, SeatSetsType DEF RolledBack, RestTyped, ProcsTyped
  <2>4. RestTyped'
    BY <1>6 DEF RolledBack, RestTyped
  <2>5. QED  BY <2>2, <2>3, <2>4 DEF ProcsTyped
<1>7. ASSUME NEW o \in Orders, NEW s \in Seats, LockWithoutZk(o, s)
      PROVE  ProcsTyped' /\ RestTyped'
  <2>1. o \in Procs
    BY <1>0
  <2>2. pc' \in [Procs -> CreatePc \cup CallPc] /\ thread' \in Procs \cup {Nobody}
    BY <1>7, <2>1, RunType DEF LockWithoutZk, CreatePc, SeatLocked, SeatRefused
  <2>3. todo' \in [Procs -> SUBSET Seats] /\ busy' \in [Procs -> SUBSET Seats]
    BY <1>7, <2>1, SeatSetsType DEF LockWithoutZk, RestTyped, ProcsTyped, SeatLocked, SeatRefused, LockedSoFar
  <2>4. RestTyped'
    BY <1>7 DEF LockWithoutZk, RestTyped, SetLock, TakeLock
  <2>5. QED  BY <2>2, <2>3, <2>4 DEF ProcsTyped
<1>8. ASSUME NEW o \in Orders, NEW s \in Seats, CreateZnode(o, s)
      PROVE  ProcsTyped' /\ RestTyped'
  <2>1. o \in Procs
    BY <1>0
  <2>2. pc' \in [Procs -> CreatePc \cup CallPc] /\ thread' \in Procs \cup {Nobody}
    BY <1>8, <2>1, ZkAnswersType DEF CreateZnode, CreatePc
  <2>3. todo' \in [Procs -> SUBSET Seats] /\ busy' \in [Procs -> SUBSET Seats]
    BY <1>8, <2>1, SeatSetsType DEF CreateZnode, RestTyped, ProcsTyped, LockedSoFar
  <2>4. RestTyped'
    BY <1>8 DEF CreateZnode, RestTyped
  <2>5. QED  BY <2>2, <2>3, <2>4 DEF ProcsTyped
<1>9. ASSUME NEW o \in Orders, NEW s \in Seats, LockWithZk(o, s)
      PROVE  ProcsTyped' /\ RestTyped'
  <2>1. o \in Procs
    BY <1>0
  <2>2. pc' \in [Procs -> CreatePc \cup CallPc] /\ thread' \in Procs \cup {Nobody}
    BY <1>9, <2>1, RunType DEF LockWithZk, CreatePc, SeatLocked, SeatRefused
  <2>3. todo' \in [Procs -> SUBSET Seats] /\ busy' \in [Procs -> SUBSET Seats]
    BY <1>9, <2>1, SeatSetsType DEF LockWithZk, RestTyped, ProcsTyped, SeatLocked, SeatRefused, LockedSoFar
  <2>4. RestTyped'
    BY <1>9 DEF LockWithZk, RestTyped, TakeLock
  <2>5. QED  BY <2>2, <2>3, <2>4 DEF ProcsTyped
<1>10. ASSUME NEW o \in Orders, EnsurePath(o)
      PROVE  ProcsTyped' /\ RestTyped'
  <2>1. o \in Procs
    BY <1>0
  <2>2. pc' \in [Procs -> CreatePc \cup CallPc] /\ thread' \in Procs \cup {Nobody}
    BY <1>10, <2>1, ZkAnswersType DEF EnsurePath, CreatePc
  <2>3. todo' \in [Procs -> SUBSET Seats] /\ busy' \in [Procs -> SUBSET Seats]
    BY <1>10, <2>1, SeatSetsType DEF EnsurePath, RestTyped, ProcsTyped
  <2>4. RestTyped'
    BY <1>10 DEF EnsurePath, RestTyped
  <2>5. QED  BY <2>2, <2>3, <2>4 DEF ProcsTyped
<1>11. ASSUME NEW o \in Orders, NEW s \in Seats, CreateZnodeFails(o, s)
      PROVE  ProcsTyped' /\ RestTyped'
  <2>1. o \in Procs
    BY <1>0
  <2>2. pc' \in [Procs -> CreatePc \cup CallPc] /\ thread' \in Procs \cup {Nobody}
    BY <1>11, <2>1, ZkAnswersType DEF CreateZnodeFails, CreatePc
  <2>3. todo' \in [Procs -> SUBSET Seats] /\ busy' \in [Procs -> SUBSET Seats]
    BY <1>11, <2>1, SeatSetsType DEF CreateZnodeFails, RestTyped, ProcsTyped, LockedSoFar
  <2>4. RestTyped'
    BY <1>11 DEF CreateZnodeFails, RestTyped
  <2>5. QED  BY <2>2, <2>3, <2>4 DEF ProcsTyped
<1>12. ASSUME NEW o \in Orders, Store(o)
      PROVE  ProcsTyped' /\ RestTyped'
  <2>1. o \in Procs
    BY <1>0
  <2>2. pc' \in [Procs -> CreatePc \cup CallPc] /\ thread' \in Procs \cup {Nobody}
    BY <1>12, <2>1, RunType DEF Store, CreatePc
  <2>3. todo' \in [Procs -> SUBSET Seats] /\ busy' \in [Procs -> SUBSET Seats]
    BY <1>12, <2>1, SeatSetsType DEF Store, RestTyped, ProcsTyped
  <2>4. RestTyped'
    BY <1>12 DEF Store, RestTyped, SetStatus
  <2>5. QED  BY <2>2, <2>3, <2>4 DEF ProcsTyped
<1>13. ASSUME NEW o \in Orders, PublishCreated(o)
      PROVE  ProcsTyped' /\ RestTyped'
  <2>1. o \in Procs
    BY <1>0
  <2>2. pc' \in [Procs -> CreatePc \cup CallPc] /\ thread' \in Procs \cup {Nobody}
    BY <1>13, <2>1, RunType DEF PublishCreated, CreatePc
  <2>3. todo' \in [Procs -> SUBSET Seats] /\ busy' \in [Procs -> SUBSET Seats]
    BY <1>13, <2>1, SeatSetsType DEF PublishCreated, RestTyped, ProcsTyped
  <2>4. RestTyped'
    BY <1>13, PublishType DEF PublishCreated, RestTyped, EventType
  <2>5. QED  BY <2>2, <2>3, <2>4 DEF ProcsTyped
<1>14. ASSUME NEW p \in Procs, NEW s \in Seats, GetOwner(p, s)
      PROVE  ProcsTyped' /\ RestTyped'
  <2>1. p \in Procs
    BY <1>0
  <2>2. pc' \in [Procs -> CreatePc \cup CallPc] /\ thread' \in Procs \cup {Nobody}
    BY <1>14, <2>1, RunType DEF GetOwner, CallPc, ProcsTyped
  <2>3. todo' \in [Procs -> SUBSET Seats] /\ busy' \in [Procs -> SUBSET Seats]
    BY <1>14, <2>1, SeatSetsType DEF GetOwner, RestTyped, ProcsTyped
  <2>4. RestTyped'
    BY <1>14 DEF GetOwner, RestTyped
  <2>5. QED  BY <2>2, <2>3, <2>4 DEF ProcsTyped
<1>15. ASSUME NEW p \in Procs, NEW s \in Seats, DeleteLock(p, s)
      PROVE  ProcsTyped' /\ RestTyped'
  <2>1. p \in Procs
    BY <1>0
  <2>2. pc' \in [Procs -> CreatePc \cup CallPc] /\ thread' \in Procs \cup {Nobody}
    BY <1>15, <2>1, RunType DEF DeleteLock, CallPc, ProcsTyped
  <2>3. todo' \in [Procs -> SUBSET Seats] /\ busy' \in [Procs -> SUBSET Seats]
    BY <1>15, <2>1, SeatSetsType DEF DeleteLock, RestTyped, ProcsTyped
  <2>4. RestTyped'
    BY <1>15 DEF DeleteLock, RestTyped, SetLock
  <2>5. QED  BY <2>2, <2>3, <2>4 DEF ProcsTyped
<1>16. ASSUME NEW c \in Calls, NEW s \in Seats, CheckOwner(c, s)
      PROVE  ProcsTyped' /\ RestTyped'
  <2>1. c \in Procs
    BY <1>0
  <2>2. pc' \in [Procs -> CreatePc \cup CallPc] /\ thread' \in Procs \cup {Nobody}
    BY <1>16, <2>1, RunType DEF CheckOwner, CallPc
  <2>3. todo' \in [Procs -> SUBSET Seats] /\ busy' \in [Procs -> SUBSET Seats]
    BY <1>16, <2>1, SeatSetsType DEF CheckOwner, RestTyped, ProcsTyped
  <2>4. RestTyped'
    BY <1>16 DEF CheckOwner, RestTyped
  <2>5. QED  BY <2>2, <2>3, <2>4 DEF ProcsTyped
<1>17. ASSUME NEW c \in Calls, Settle(c)
      PROVE  ProcsTyped' /\ RestTyped'
  <2>1. c \in Procs
    BY <1>0
  <2>2. pc' \in [Procs -> CreatePc \cup CallPc] /\ thread' \in Procs \cup {Nobody}
    BY <1>17, <2>1, RunType DEF Settle, CallPc
  <2>3. todo' \in [Procs -> SUBSET Seats] /\ busy' \in [Procs -> SUBSET Seats]
    BY <1>17, <2>1, SeatSetsType DEF Settle, RestTyped, ProcsTyped
  <2>4. RestTyped'
    BY <1>17 DEF Settle, RestTyped, SetStatus
  <2>5. QED  BY <2>2, <2>3, <2>4 DEF ProcsTyped
<1>18. ASSUME NEW c \in Calls, Close(c)
      PROVE  ProcsTyped' /\ RestTyped'
  <2>1. c \in Procs
    BY <1>0
  <2>2. pc' \in [Procs -> CreatePc \cup CallPc] /\ thread' \in Procs \cup {Nobody}
    BY <1>18, <2>1, RunType DEF Close, CallPc
  <2>3. todo' \in [Procs -> SUBSET Seats] /\ busy' \in [Procs -> SUBSET Seats]
    BY <1>18, <2>1, SeatSetsType DEF Close, RestTyped, ProcsTyped
  <2>4. RestTyped'
    BY <1>18 DEF Close, RestTyped, SetStatus
  <2>5. QED  BY <2>2, <2>3, <2>4 DEF ProcsTyped
<1>19. ASSUME NEW c \in Calls, PublishPaid(c)
      PROVE  ProcsTyped' /\ RestTyped'
  <2>1. c \in Procs
    BY <1>0
  <2>2. pc' \in [Procs -> CreatePc \cup CallPc] /\ thread' \in Procs \cup {Nobody}
    BY <1>19, <2>1, RunType DEF PublishPaid, CallPc
  <2>3. todo' \in [Procs -> SUBSET Seats] /\ busy' \in [Procs -> SUBSET Seats]
    BY <1>19, <2>1, SeatSetsType DEF PublishPaid, RestTyped, ProcsTyped
  <2>4. RestTyped'
    BY <1>19, PublishType DEF PublishPaid, RestTyped, EventType
  <2>5. QED  BY <2>2, <2>3, <2>4 DEF ProcsTyped
<1>20. ASSUME NEW c \in Calls, PublishCancelled(c)
      PROVE  ProcsTyped' /\ RestTyped'
  <2>1. c \in Procs
    BY <1>0
  <2>2. pc' \in [Procs -> CreatePc \cup CallPc] /\ thread' \in Procs \cup {Nobody}
    BY <1>20, <2>1, RunType DEF PublishCancelled, CallPc
  <2>3. todo' \in [Procs -> SUBSET Seats] /\ busy' \in [Procs -> SUBSET Seats]
    BY <1>20, <2>1, SeatSetsType DEF PublishCancelled, RestTyped, ProcsTyped
  <2>4. RestTyped'
    BY <1>20, PublishType DEF PublishCancelled, RestTyped, EventType
  <2>5. QED  BY <2>2, <2>3, <2>4 DEF ProcsTyped
<1>21. ASSUME NEW c \in Calls, Swept(c)
      PROVE  ProcsTyped' /\ RestTyped'
  <2>1. c \in Procs
    BY <1>0
  <2>2. pc' \in [Procs -> CreatePc \cup CallPc] /\ thread' \in Procs \cup {Nobody}
    BY <1>21, <2>1, RunType DEF Swept, CallPc
  <2>3. todo' \in [Procs -> SUBSET Seats] /\ busy' \in [Procs -> SUBSET Seats]
    BY <1>21, <2>1, SeatSetsType DEF Swept, RestTyped, ProcsTyped
  <2>4. RestTyped'
    BY <1>21 DEF Swept, RestTyped
  <2>5. QED  BY <2>2, <2>3, <2>4 DEF ProcsTyped
<1>22. ASSUME NEW p \in Procs, Throw(p)
      PROVE  ProcsTyped' /\ RestTyped'
  <2>1. p \in Procs
    BY <1>0
  <2>2. pc' \in [Procs -> CreatePc \cup CallPc] /\ thread' \in Procs \cup {Nobody}
    BY <1>22, <2>1, RunType DEF Throw, CallPc, CreatePc
  <2>3. todo' \in [Procs -> SUBSET Seats] /\ busy' \in [Procs -> SUBSET Seats]
    BY <1>22, <2>1, SeatSetsType DEF Throw, RestTyped, ProcsTyped
  <2>4. RestTyped'
    BY <1>22 DEF Throw, RestTyped
  <2>5. QED  BY <2>2, <2>3, <2>4 DEF ProcsTyped
<1>23. ASSUME NEW s \in Seats, LockExpires(s)
      PROVE  ProcsTyped' /\ RestTyped'
  BY <1>23 DEF LockExpires, SetLock, ProcsTyped, RestTyped
<1>24. ASSUME NEW o \in Orders, OrderExpires(o)
      PROVE  ProcsTyped' /\ RestTyped'
  BY <1>24 DEF OrderExpires, ProcsTyped, RestTyped
<1>25. CASE RedisDrops \/ SessionExpires
  BY <1>25 DEF RedisDrops, SessionExpires, ProcsTyped, RestTyped
<1>26. ASSUME Rebooted, sold' \subseteq Seats
      PROVE  ProcsTyped' /\ RestTyped'
  BY <1>26, BookingAssumption DEF Rebooted, BookingAssumption, CreatePc, ProcsTyped, RestTyped
<1>27. CASE Restart
  BY <1>26, <1>27 DEF Restart, RestTyped
<1>28. ASSUME NEW c \in Calls, DieInSettle(c)
      PROVE  ProcsTyped' /\ RestTyped'
  BY <1>26, <1>28 DEF DieInSettle, RestTyped
<1>29. CASE UNCHANGED vars
  BY <1>29 DEF vars, ProcsTyped, RestTyped
<1>30. QED
  BY <1>1, <1>2, <1>3, <1>4, <1>5, <1>6, <1>7, <1>8, <1>9, <1>10, <1>11, <1>12, <1>13, <1>14, <1>15, <1>16, <1>17, <1>18, <1>19, <1>20, <1>21, <1>22, <1>23, <1>24, <1>25, <1>26, <1>27, <1>28, <1>29
     DEF Next, Step, CreateStep, CallStep, ReleaseStep

\* Every variable keeps its type in every execution of the handlers.
THEOREM TypeCorrect == Spec => []TypeOK
BY TypeInit, TypeNext, PTL DEF Spec
-----------------------------------------------------------------------------
(* The strengthening.  An order row exists only once its create request is *)
(* past the locks; a lock is for a seat its order asked for; a call is     *)
(* about a stored order, and what it still has to release covers whatever  *)
(* its order owns.                                                         *)

StoredIsCreated == \A o \in Orders : status[o] # "NONE" => pc[o] \in {"created", "done"}

LocksAsked == \A o \in Orders, s \in Seats : lock[s] = o => s \in seatsOf[o] /\ pc[o] # "idle"

LockingAsked ==
  \A o \in Orders :
    /\ pc[o] \in {"locking", "creating", "zkset"} => todo[o] \subseteq seatsOf[o]
    /\ pc[o] = "zkset" => busy[o] \subseteq seatsOf[o]

CallsOnStored == \A c \in Calls : pc[c] # "idle" => status[target[c]] # "NONE"

ReleaseCovers ==
  \A c \in Calls : pc[c] \in {"paying", "cancelling"} =>
    \A s \in Seats : lock[s] = target[c] => s \in todo[c] \cup busy[c]

PaidCallSold == \A c \in Calls : pc[c] = "paid" => seatsOf[target[c]] \subseteq sold

AnnouncedStored == \A o \in Orders : events[o]["ORDER_PAID"] > 0 => status[o] # "NONE"

IInv ==
  /\ StoredIsCreated /\ AnnouncedStored /\ LocksAsked /\ LockingAsked /\ CallsOnStored /\ ReleaseCovers
  /\ PaidCallSold /\ PaidSeatsSold /\ AnnouncedSeatsSold /\ ClosedHoldsNoLock

LEMMA IInvInit == Init => IInv
BY BookingAssumption
   DEF Init, IInv, StoredIsCreated, AnnouncedStored, LocksAsked, LockingAsked, CallsOnStored,
       ReleaseCovers, PaidCallSold, PaidSeatsSold, AnnouncedSeatsSold, ClosedHoldsNoLock,
       BookingAssumption, Procs, EventType

LEMMA IInvNext == TypeOK /\ IInv /\ [Next]_vars => IInv'
<1> SUFFICES ASSUME TypeOK, IInv, [Next]_vars PROVE IInv'
  OBVIOUS
<1> USE BookingAssumption DEF BookingAssumption, dbVars, storeVars, Procs, EventType
<1>0. TypeOK'
  BY TypeNext
<1> USE DEF TypeOK, IInv, StoredIsCreated, AnnouncedStored, LocksAsked, LockingAsked, CallsOnStored,
            ReleaseCovers, PaidCallSold, PaidSeatsSold, AnnouncedSeatsSold, ClosedHoldsNoLock
<1>1. ASSUME NEW o \in Orders, NEW S \in SUBSET Seats, Submit(o, S)
      PROVE  IInv'
  <2>1. pc[o] = "idle" /\ status[o] = "NONE" /\ \A s \in Seats : lock[s] # o
    BY <1>1 DEF Submit
  <2>2. pc' = [pc EXCEPT ![o] = "admitted"] /\ seatsOf' = [seatsOf EXCEPT ![o] = S]
    BY <1>1 DEF Submit, Run
  <2>3. UNCHANGED <<status, sold, lock, events, target, todo, busy>>
    BY <1>1 DEF Submit
  <2>4. \A c \in Calls : pc'[c] = pc[c] /\ (pc[c] # "idle" => seatsOf'[target[c]] = seatsOf[target[c]])
    BY <2>1, <2>2
  <2>5. StoredIsCreated' /\ AnnouncedStored' /\ CallsOnStored' /\ ReleaseCovers' /\ ClosedHoldsNoLock'
    BY <2>1, <2>2, <2>3, <2>4
  <2>6. LocksAsked' /\ LockingAsked'
    BY <2>1, <2>2, <2>3
  <2>7. PaidCallSold'
    BY <2>2, <2>3, <2>4
  <2>8. PaidSeatsSold' /\ AnnouncedSeatsSold'
    BY <2>1, <2>2, <2>3
  <2>9. QED  BY <2>5, <2>6, <2>7, <2>8
<1>2. ASSUME NEW c \in Calls, NEW o \in Orders, StartPay(c, o)
      PROVE  IInv'
  BY <1>0, <1>2 DEF StartPay, Run, Todo
<1>3. ASSUME NEW c \in Calls, NEW o \in Orders, StartCancel(c, o)
      PROVE  IInv'
  BY <1>0, <1>3 DEF StartCancel, Run, Todo
<1>4. ASSUME NEW o \in Orders, Turned(o)
      PROVE  IInv'
  BY <1>0, <1>4 DEF Turned, Run
<1>5. ASSUME NEW o \in Orders, RolledBack(o)
      PROVE  IInv'
  BY <1>0, <1>5 DEF RolledBack, Run
<1>6. ASSUME NEW o \in Orders, FindSeats(o)
      PROVE  IInv'
  BY <1>0, <1>6 DEF FindSeats, Run, Todo
<1>7. ASSUME NEW o \in Orders, NEW s \in Seats, LockWithoutZk(o, s)
      PROVE  IInv'
  <2>1. StoredIsCreated'
    BY <1>0, <1>7 DEF LockWithoutZk, SeatLocked, SeatRefused, LockedSoFar, SetLock, TakeLock, Run, Todo
  <2>2. AnnouncedStored'
    BY <1>0, <1>7 DEF LockWithoutZk, SeatLocked, SeatRefused, LockedSoFar, SetLock, TakeLock, Run, Todo
  <2>3. LocksAsked'
    BY <1>0, <1>7 DEF LockWithoutZk, SeatLocked, SeatRefused, LockedSoFar, SetLock, TakeLock, Run, Todo
  <2>4. LockingAsked'
    BY <1>0, <1>7 DEF LockWithoutZk, SeatLocked, SeatRefused, LockedSoFar, SetLock, TakeLock, Run, Todo
  <2>5. CallsOnStored'
    BY <1>0, <1>7 DEF LockWithoutZk, SeatLocked, SeatRefused, LockedSoFar, SetLock, TakeLock, Run, Todo
  <2>6. ReleaseCovers'
    <3>1. \A c \in Calls : pc'[c] = pc[c] /\ todo'[c] = todo[c]
      BY <1>7 DEF LockWithoutZk, SeatLocked, SeatRefused, Run, Todo
    <3>2. status[o] = "NONE"
      BY <1>7 DEF LockWithoutZk
    <3>3. \A t \in Seats : lock'[t] = lock[t] \/ lock'[t] = o
      BY <1>7 DEF LockWithoutZk, SetLock, TakeLock
    <3>4. UNCHANGED <<target, busy>>
      BY <1>7 DEF LockWithoutZk
    <3>5. QED  BY <3>1, <3>2, <3>3, <3>4
  <2>7. PaidCallSold'
    BY <1>0, <1>7 DEF LockWithoutZk, SeatLocked, SeatRefused, LockedSoFar, SetLock, TakeLock, Run, Todo
  <2>8. PaidSeatsSold'
    BY <1>0, <1>7 DEF LockWithoutZk, SeatLocked, SeatRefused, LockedSoFar, SetLock, TakeLock, Run, Todo
  <2>9. AnnouncedSeatsSold'
    BY <1>0, <1>7 DEF LockWithoutZk, SeatLocked, SeatRefused, LockedSoFar, SetLock, TakeLock, Run, Todo
  <2>10. ClosedHoldsNoLock'
    <3>1. pc' \in [Procs -> CreatePc \cup CallPc] /\ status' = status /\ status[o] = "NONE"
      BY <1>0, <1>7 DEF LockWithoutZk
    <3>2. \A t \in Seats : lock'[t] = lock[t] \/ lock'[t] = o
      BY <1>7 DEF LockWithoutZk, SetLock, TakeLock
    <3>3. \A c \in Calls : pc'[c] = pc[c] /\ target'[c] = target[c]
      BY <1>7 DEF LockWithoutZk, SeatLocked, SeatRefused, Run
    <3>4. QED  BY <3>1, <3>2, <3>3
  <2>11. QED  BY <2>1, <2>2, <2>3, <2>4, <2>5, <2>6, <2>7, <2>8, <2>9, <2>10
<1>8. ASSUME NEW o \in Orders, NEW s \in Seats, CreateZnode(o, s)
      PROVE  IInv'
  <2>1. StoredIsCreated'
    BY <1>0, <1>8 DEF CreateZnode, ZkAnswers, LockedSoFar, Todo, Busy
  <2>2. AnnouncedStored'
    BY <1>0, <1>8 DEF CreateZnode, ZkAnswers, LockedSoFar, Todo, Busy
  <2>3. LocksAsked'
    BY <1>0, <1>8 DEF CreateZnode, ZkAnswers, LockedSoFar, Todo, Busy
  <2>4. LockingAsked'
    BY <1>0, <1>8 DEF CreateZnode, ZkAnswers, LockedSoFar, Todo, Busy
  <2>5. CallsOnStored'
    BY <1>0, <1>8 DEF CreateZnode, ZkAnswers, LockedSoFar, Todo, Busy
  <2>6. ReleaseCovers'
    BY <1>0, <1>8 DEF CreateZnode, ZkAnswers, LockedSoFar, Todo, Busy
  <2>7. PaidCallSold'
    BY <1>0, <1>8 DEF CreateZnode, ZkAnswers, LockedSoFar, Todo, Busy
  <2>8. PaidSeatsSold'
    BY <1>0, <1>8 DEF CreateZnode, ZkAnswers, LockedSoFar, Todo, Busy
  <2>9. AnnouncedSeatsSold'
    BY <1>0, <1>8 DEF CreateZnode, ZkAnswers, LockedSoFar, Todo, Busy
  <2>10. ClosedHoldsNoLock'
    BY <1>0, <1>8 DEF CreateZnode, ZkAnswers, LockedSoFar, Todo, Busy
  <2>11. QED  BY <2>1, <2>2, <2>3, <2>4, <2>5, <2>6, <2>7, <2>8, <2>9, <2>10
<1>9. ASSUME NEW o \in Orders, NEW s \in Seats, LockWithZk(o, s)
      PROVE  IInv'
  <2>1. StoredIsCreated'
    BY <1>0, <1>9 DEF LockWithZk, SeatLocked, SeatRefused, LockedSoFar, TakeLock, Run, Todo, Busy
  <2>2. AnnouncedStored'
    BY <1>0, <1>9 DEF LockWithZk, SeatLocked, SeatRefused, LockedSoFar, TakeLock, Run, Todo, Busy
  <2>3. LocksAsked'
    BY <1>0, <1>9 DEF LockWithZk, SeatLocked, SeatRefused, LockedSoFar, TakeLock, Run, Todo, Busy
  <2>4. LockingAsked'
    BY <1>0, <1>9 DEF LockWithZk, SeatLocked, SeatRefused, LockedSoFar, TakeLock, Run, Todo, Busy
  <2>5. CallsOnStored'
    BY <1>0, <1>9 DEF LockWithZk, SeatLocked, SeatRefused, LockedSoFar, TakeLock, Run, Todo, Busy
  <2>6. ReleaseCovers'
    <3>1. \A c \in Calls : pc'[c] = pc[c] /\ todo'[c] = todo[c] /\ busy'[c] = busy[c]
      BY <1>9 DEF LockWithZk, SeatLocked, SeatRefused, Run, Todo, Busy
    <3>2. status[o] = "NONE"
      BY <1>9 DEF LockWithZk
    <3>3. \A t \in Seats : lock'[t] = lock[t] \/ lock'[t] = o
      BY <1>9 DEF LockWithZk, TakeLock
    <3>4. UNCHANGED target
      BY <1>9 DEF LockWithZk
    <3>5. QED  BY <3>1, <3>2, <3>3, <3>4
  <2>7. PaidCallSold'
    BY <1>0, <1>9 DEF LockWithZk, SeatLocked, SeatRefused, LockedSoFar, TakeLock, Run, Todo, Busy
  <2>8. PaidSeatsSold'
    BY <1>0, <1>9 DEF LockWithZk, SeatLocked, SeatRefused, LockedSoFar, TakeLock, Run, Todo, Busy
  <2>9. AnnouncedSeatsSold'
    BY <1>0, <1>9 DEF LockWithZk, SeatLocked, SeatRefused, LockedSoFar, TakeLock, Run, Todo, Busy
  <2>10. ClosedHoldsNoLock'
    <3>1. status' = status /\ status[o] = "NONE"
      BY <1>9 DEF LockWithZk
    <3>2. \A t \in Seats : lock'[t] = lock[t] \/ lock'[t] = o
      BY <1>9 DEF LockWithZk, TakeLock
    <3>3. QED  BY <3>1, <3>2
  <2>11. QED  BY <2>1, <2>2, <2>3, <2>4, <2>5, <2>6, <2>7, <2>8, <2>9, <2>10
<1>10. ASSUME NEW o \in Orders, EnsurePath(o)
      PROVE  IInv'
  BY <1>0, <1>10 DEF EnsurePath, ZkAnswers
<1>11. ASSUME NEW o \in Orders, NEW s \in Seats, CreateZnodeFails(o, s)
      PROVE  IInv'
  BY <1>0, <1>11 DEF CreateZnodeFails, ZkAnswers, LockedSoFar, Todo
<1>12. ASSUME NEW o \in Orders, Store(o)
      PROVE  IInv'
  BY <1>0, <1>12 DEF Store, Run, SetStatus
<1>13. ASSUME NEW o \in Orders, PublishCreated(o)
      PROVE  IInv'
  BY <1>0, <1>13 DEF PublishCreated, Run, Publish
<1>14. ASSUME NEW p \in Procs, NEW s \in Seats, GetOwner(p, s)
      PROVE  IInv'
  BY <1>0, <1>14 DEF GetOwner, OrderOf, Releasing, Run, Todo, Busy
<1>15. ASSUME NEW p \in Procs, NEW s \in Seats, DeleteLock(p, s)
      PROVE  IInv'
  BY <1>0, <1>15 DEF DeleteLock, Releasing, Run, Busy, SetLock
<1>16. ASSUME NEW c \in Calls, NEW s \in Seats, CheckOwner(c, s)
      PROVE  IInv'
  <2>1. StoredIsCreated'
    BY <1>0, <1>16 DEF CheckOwner, Run, Todo
  <2>2. AnnouncedStored'
    BY <1>0, <1>16 DEF CheckOwner, Run, Todo
  <2>3. LocksAsked'
    BY <1>0, <1>16 DEF CheckOwner, Run, Todo
  <2>4. LockingAsked'
    BY <1>0, <1>16 DEF CheckOwner, Run, Todo
  <2>5. CallsOnStored'
    BY <1>0, <1>16 DEF CheckOwner, Run, Todo
  <2>6. ReleaseCovers'
    <3>1. UNCHANGED <<lock, target, busy>>
      BY <1>16 DEF CheckOwner
    <3>2. \A d \in Calls : d # c => pc'[d] = pc[d] /\ todo'[d] = todo[d]
      BY <1>16 DEF CheckOwner, Run, Todo
    <3>3. pc'[c] = "checking" \/ todo'[c] = seatsOf[target[c]]
      BY <1>16 DEF CheckOwner, Run, Todo
    <3>4. QED  BY <3>1, <3>2, <3>3
  <2>7. PaidCallSold'
    BY <1>0, <1>16 DEF CheckOwner, Run, Todo
  <2>8. PaidSeatsSold'
    BY <1>0, <1>16 DEF CheckOwner, Run, Todo
  <2>9. AnnouncedSeatsSold'
    BY <1>0, <1>16 DEF CheckOwner, Run, Todo
  <2>10. ClosedHoldsNoLock'
    BY <1>0, <1>16 DEF CheckOwner, Run, Todo
  <2>11. QED  BY <2>1, <2>2, <2>3, <2>4, <2>5, <2>6, <2>7, <2>8, <2>9, <2>10
<1>17. ASSUME NEW c \in Calls, Settle(c)
      PROVE  IInv'
  <2>1. StoredIsCreated'
    BY <1>0, <1>17 DEF Settle, AllReleased, Run, SetStatus
  <2>2. AnnouncedStored'
    BY <1>0, <1>17 DEF Settle, AllReleased, Run, SetStatus
  <2>3. LocksAsked'
    BY <1>0, <1>17 DEF Settle, AllReleased, Run, SetStatus
  <2>4. LockingAsked'
    BY <1>0, <1>17 DEF Settle, AllReleased, Run, SetStatus
  <2>5. CallsOnStored'
    BY <1>0, <1>17 DEF Settle, AllReleased, Run, SetStatus
  <2>6. ReleaseCovers'
    BY <1>0, <1>17 DEF Settle, AllReleased, Run, SetStatus
  <2>7. PaidCallSold'
    BY <1>0, <1>17 DEF Settle, AllReleased, Run, SetStatus
  <2>8. PaidSeatsSold'
    BY <1>0, <1>17 DEF Settle, AllReleased, Run, SetStatus
  <2>9. AnnouncedSeatsSold'
    BY <1>0, <1>17 DEF Settle, AllReleased, Run, SetStatus
  <2>10. ClosedHoldsNoLock'
    <3>1. \A s \in Seats : lock[s] # target[c]
      BY <1>17 DEF Settle, AllReleased
    <3>2. UNCHANGED lock /\ status' = [status EXCEPT ![target[c]] = "PAID"]
      BY <1>17 DEF Settle, SetStatus
    <3>3. QED  BY <3>1, <3>2
  <2>11. QED  BY <2>1, <2>2, <2>3, <2>4, <2>5, <2>6, <2>7, <2>8, <2>9, <2>10
<1>18. ASSUME NEW c \in Calls, Close(c)
      PROVE  IInv'
  <2>1. StoredIsCreated'
    BY <1>0, <1>18 DEF Close, AllReleased, Run, SetStatus
  <2>2. AnnouncedStored'
    BY <1>0, <1>18 DEF Close, AllReleased, Run, SetStatus
  <2>3. LocksAsked'
    BY <1>0, <1>18 DEF Close, AllReleased, Run, SetStatus
  <2>4. LockingAsked'
    BY <1>0, <1>18 DEF Close, AllReleased, Run, SetStatus
  <2>5. CallsOnStored'
    BY <1>0, <1>18 DEF Close, AllReleased, Run, SetStatus
  <2>6. ReleaseCovers'
    BY <1>0, <1>18 DEF Close, AllReleased, Run, SetStatus
  <2>7. PaidCallSold'
    BY <1>0, <1>18 DEF Close, AllReleased, Run, SetStatus
  <2>8. PaidSeatsSold'
    BY <1>0, <1>18 DEF Close, AllReleased, Run, SetStatus
  <2>9. AnnouncedSeatsSold'
    BY <1>0, <1>18 DEF Close, AllReleased, Run, SetStatus
  <2>10. ClosedHoldsNoLock'
    <3>1. \A s \in Seats : lock[s] # target[c]
      BY <1>18 DEF Close, AllReleased
    <3>2. UNCHANGED lock /\ status' = [status EXCEPT ![target[c]] = "CANCELLED"]
      BY <1>18 DEF Close, SetStatus
    <3>3. QED  BY <3>1, <3>2
  <2>11. QED  BY <2>1, <2>2, <2>3, <2>4, <2>5, <2>6, <2>7, <2>8, <2>9, <2>10
<1>19. ASSUME NEW c \in Calls, PublishPaid(c)
      PROVE  IInv'
  BY <1>0, <1>19 DEF PublishPaid, Run, Publish
<1>20. ASSUME NEW c \in Calls, PublishCancelled(c)
      PROVE  IInv'
  BY <1>0, <1>20 DEF PublishCancelled, Run, Publish, Todo
<1>21. ASSUME NEW c \in Calls, Swept(c)
      PROVE  IInv'
  BY <1>0, <1>21 DEF Swept, Run
<1>22. ASSUME NEW p \in Procs, Throw(p)
      PROVE  IInv'
  BY <1>0, <1>22 DEF Throw, Releasing, Run, Todo, Busy
<1>23. ASSUME NEW s \in Seats, LockExpires(s)
      PROVE  IInv'
  BY <1>0, <1>23 DEF LockExpires, SetLock
<1>24. ASSUME NEW o \in Orders, OrderExpires(o)
      PROVE  IInv'
  BY <1>24 DEF OrderExpires
<1>25. CASE RedisDrops \/ SessionExpires
  BY <1>25 DEF RedisDrops, SessionExpires
<1>26. ASSUME Rebooted, sold \subseteq sold'
      PROVE  IInv'
  BY <1>26 DEF Rebooted
<1>27. CASE Restart
  BY <1>26, <1>27 DEF Restart
<1>28. ASSUME NEW c \in Calls, DieInSettle(c)
      PROVE  IInv'
  BY <1>26, <1>28 DEF DieInSettle
<1>29. CASE UNCHANGED vars
  BY <1>29 DEF vars
<1>30. HIDE DEF IInv, TypeOK
<1>31. QED
  BY <1>1, <1>2, <1>3, <1>4, <1>5, <1>6, <1>7, <1>8, <1>9, <1>10, <1>11, <1>12, <1>13, <1>14, <1>15, <1>16, <1>17, <1>18, <1>19, <1>20, <1>21, <1>22, <1>23, <1>24, <1>25, <1>26, <1>27, <1>28, <1>29
     DEF Next, Step, CreateStep, CallStep, ReleaseStep

LEMMA Invariant == Spec => []IInv
BY TypeCorrect, IInvInit, IInvNext, PTL DEF Spec

\* A closed order owns no lock, whatever overlapped and failed.
THEOREM ClosedOwnsNothing == Spec => []ClosedHoldsNoLock
<1>1. IInv => ClosedHoldsNoLock
  BY DEF IInv
<1>2. QED  BY <1>1, Invariant, PTL

\* The seats of a paid order are off sale, wherever the process died.
THEOREM PaidSeatsAreSold == Spec => []PaidSeatsSold
<1>1. IInv => PaidSeatsSold
  BY DEF IInv
<1>2. QED  BY <1>1, Invariant, PTL

\* The seats of an order whose payment was announced stay off sale.
THEOREM AnnouncedSeatsAreSold == Spec => []AnnouncedSeatsSold
<1>1. IInv => AnnouncedSeatsSold
  BY DEF IInv
<1>2. QED  BY <1>1, Invariant, PTL

-----------------------------------------------------------------------------
(* With a ZooKeeper session that never fails the node of a seat belongs to *)
(* the first order that created it, for good: that is what keeps a seat    *)
(* from being sold twice, the lock in Redis alone does not.                *)

OwnsNodes(o, S) == \A s \in S : znode[s] = o

NodesOwned ==
  /\ zk = "live"
  /\ \A o \in Orders :
       /\ status[o] # "NONE" \/ pc[o] \in {"storing", "created"} => OwnsNodes(o, seatsOf[o])
       /\ pc[o] \in {"locking", "creating", "zkset"} => OwnsNodes(o, seatsOf[o] \ todo[o])
       /\ pc[o] = "zkset" => OwnsNodes(o, busy[o])

LEMMA NodesOwnedNext ==
  ASSUME Faults \subseteq {"redis"}
  PROVE  TypeOK /\ IInv /\ NodesOwned /\ [Next]_vars => NodesOwned'
<1> SUFFICES ASSUME TypeOK, IInv, NodesOwned, [Next]_vars PROVE NodesOwned'
  OBVIOUS
<1> USE BookingAssumption DEF BookingAssumption, dbVars, storeVars, Procs
<1>0. TypeOK'
  BY TypeNext
<1> USE DEF TypeOK, IInv, StoredIsCreated, LockingAsked, CallsOnStored, NodesOwned, OwnsNodes
<1>1. ASSUME NEW o \in Orders, NEW S \in SUBSET Seats, Submit(o, S)
      PROVE  NodesOwned'
  BY <1>0, <1>1 DEF Submit, Run
<1>2. ASSUME NEW c \in Calls, NEW o \in Orders, StartPay(c, o) \/ StartCancel(c, o)
      PROVE  NodesOwned'
  BY <1>0, <1>2 DEF StartPay, StartCancel, Run, Todo
<1>3. ASSUME NEW o \in Orders, Turned(o) \/ FindSeats(o) \/ RolledBack(o)
      PROVE  NodesOwned'
  BY <1>0, <1>3 DEF Turned, FindSeats, RolledBack, Run, Todo
<1>4. ASSUME NEW o \in Orders, EnsurePath(o)
      PROVE  NodesOwned'
  BY <1>0, <1>4 DEF EnsurePath, ZkAnswers
<1>5. ASSUME NEW o \in Orders, NEW s \in Seats, CreateZnode(o, s)
      PROVE  NodesOwned'
  BY <1>0, <1>5 DEF CreateZnode, ZkAnswers, LockedSoFar, Todo, Busy
<1>6. ASSUME NEW o \in Orders, NEW s \in Seats, LockWithZk(o, s)
      PROVE  NodesOwned'
  BY <1>0, <1>6 DEF LockWithZk, SeatLocked, SeatRefused, LockedSoFar, Run, Todo, Busy
<1>7. ASSUME NEW o \in Orders, Store(o) \/ PublishCreated(o)
      PROVE  NodesOwned'
  <2>1. /\ pc[o] \in {"storing", "created"}
        /\ UNCHANGED <<seatsOf, znode, zk, todo, busy>>
    BY <1>7 DEF Store, PublishCreated
  <2>2. \E next \in {"created", "done"} : pc' = [pc EXCEPT ![o] = next]
    BY <1>7 DEF Store, PublishCreated, Run
  <2>3. \A q \in Orders \ {o} : status'[q] = status[q] /\ pc'[q] = pc[q]
    BY <1>7, <2>2 DEF Store, PublishCreated, SetStatus
  <2>4. pc'[o] \in {"created", "done"}
    BY <2>2
  <2>5. QED  BY <2>1, <2>3, <2>4
<1>8. ASSUME NEW p \in Procs, NEW s \in Seats, GetOwner(p, s) \/ DeleteLock(p, s)
      PROVE  NodesOwned'
  <2>1. UNCHANGED <<status, seatsOf, znode, zk>> /\ pc[p] \in Releasing
    BY <1>8 DEF GetOwner, DeleteLock
  <2>2. pc' = pc
    BY <1>8 DEF GetOwner, DeleteLock, Run
  <2>3. \A o \in Orders : o # p => todo'[o] = todo[o] /\ busy'[o] = busy[o]
    BY <1>8 DEF GetOwner, DeleteLock, Todo, Busy
  <2>4. QED  BY <2>1, <2>2, <2>3 DEF Releasing
<1>9. ASSUME NEW c \in Calls, NEW s \in Seats, CheckOwner(c, s)
      PROVE  NodesOwned'
  BY <1>0, <1>9 DEF CheckOwner, Run, Todo
<1>10. ASSUME NEW c \in Calls, Settle(c) \/ Close(c)
      PROVE  NodesOwned'
  <2>1. UNCHANGED <<seatsOf, znode, zk, todo, busy>>
    BY <1>10 DEF Settle, Close
  <2>2. pc[c] # "idle" /\ \A o \in Orders : pc'[o] = pc[o]
    BY <1>10 DEF Settle, Close, Run
  <2>3. \A o \in Orders : o # target[c] => status'[o] = status[o]
    BY <1>10 DEF Settle, Close, SetStatus
  <2>4. status[target[c]] # "NONE"
    BY <2>2
  <2>5. QED  BY <2>1, <2>2, <2>3, <2>4
<1>11. ASSUME NEW c \in Calls, PublishPaid(c) \/ PublishCancelled(c) \/ Swept(c)
      PROVE  NodesOwned'
  BY <1>0, <1>11 DEF PublishPaid, PublishCancelled, Swept, Run, Publish, Todo
<1>12. ASSUME NEW p \in Procs, Throw(p)
      PROVE  NodesOwned'
  BY <1>0, <1>12 DEF Throw, Run, Todo, Busy, Releasing
<1>13. ASSUME NEW s \in Seats, LockExpires(s)
      PROVE  NodesOwned'
  BY <1>0, <1>13 DEF LockExpires, SetLock
<1>14. ASSUME NEW o \in Orders, OrderExpires(o)
      PROVE  NodesOwned'
  BY <1>0, <1>14 DEF OrderExpires
<1>15. ASSUME NEW o \in Orders, NEW s \in Seats, LockWithoutZk(o, s) \/ CreateZnodeFails(o, s)
      PROVE  NodesOwned'
  BY <1>15 DEF LockWithoutZk, CreateZnodeFails, ZkMayFail
<1>16. ASSUME RedisDrops \/ SessionExpires \/ Rebooted
      PROVE  NodesOwned'
  BY <1>16 DEF RedisDrops, SessionExpires, Rebooted
<1>17. CASE UNCHANGED vars
  BY <1>17 DEF vars
<1> HIDE DEF TypeOK, IInv, NodesOwned
<1>18. QED
  BY <1>1, <1>2, <1>3, <1>4, <1>5, <1>6, <1>7, <1>8, <1>9, <1>10, <1>11, <1>12, <1>13, <1>14, <1>15, <1>16, <1>17
     DEF Next, Step, CreateStep, CallStep, ReleaseStep, Restart, DieInSettle

\* With a ZooKeeper session that lasts no seat is sold twice, for any number of
\* orders, calls and seats, however the requests and expiring locks interleave,
\* and whether or not Redis is lost on the way.
THEOREM NoSeatSoldTwice ==
  ASSUME ZooKeeper, Faults \subseteq {"redis"}
  PROVE  Spec => []NoDoubleSale
<1>1. Init => NodesOwned
  BY BookingAssumption DEF Init, NodesOwned, BookingAssumption, Procs
<1>2. IInv /\ NodesOwned => NoDoubleSale
  BY DEF IInv, LocksAsked, NodesOwned, OwnsNodes, NoDoubleSale
<1>3. QED
  BY <1>1, <1>2, TypeCorrect, Invariant, NodesOwnedNext, PTL DEF Spec

-----------------------------------------------------------------------------
(* Under the same assumptions the handlers implement SeatSale.  A request  *)
(* that asks for a seat which was sold since it looked finds the node of   *)
(* the buyer in its way.                                                   *)

Asking == {"locking", "creating", "zkset", "storing"}

NodeInTheWay(o) == \A s \in seatsOf[o] \cap sold : znode[s] \notin {Nobody, o}

AskedFree == \A o \in Orders : pc[o] \in Asking => NodeInTheWay(o)

\* The steps that sell no seat, make no node and let nobody begin to ask.
LEMMA AskedFreeKept ==
  ASSUME AskedFree, UNCHANGED <<sold, znode>>,
         \A o \in Orders : pc'[o] \in Asking => pc[o] \in Asking /\ seatsOf'[o] = seatsOf[o]
  PROVE  AskedFree'
BY DEF AskedFree, NodeInTheWay

LEMMA AskedFreeNext ==
  ASSUME Faults \subseteq {"redis"}
  PROVE  TypeOK /\ IInv /\ NodesOwned /\ AskedFree /\ [Next]_vars => AskedFree'
<1> SUFFICES ASSUME TypeOK, IInv, NodesOwned, AskedFree, [Next]_vars PROVE AskedFree'
  OBVIOUS
<1> USE DEF dbVars, storeVars
<1>0. /\ Orders \cap Calls = {} /\ Nobody \notin Orders
      /\ pc \in [Procs -> CreatePc \cup CallPc] /\ Procs = Orders \cup Calls
  BY BookingAssumption DEF BookingAssumption, TypeOK, Procs
<1>1. ASSUME NEW o \in Orders, NEW S \in SUBSET Seats, Submit(o, S) PROVE AskedFree'
  <2>1. /\ pc' = [pc EXCEPT ![o] = "admitted"] /\ UNCHANGED <<sold, znode>>
        /\ seatsOf' = [seatsOf EXCEPT ![o] = S]
    BY <1>1 DEF Submit, Run
  <2>2. QED  BY <1>0, <2>1, AskedFreeKept DEF Asking
<1>2. ASSUME NEW o \in Orders, FindSeats(o) PROVE AskedFree'
  <2>1. /\ pc' = [pc EXCEPT ![o] = "locking"] /\ UNCHANGED <<seatsOf, sold, znode>>
        /\ seatsOf[o] \cap sold = {}
    BY <1>2 DEF FindSeats, Run
  <2>2. QED  BY <1>0, <2>1 DEF AskedFree, NodeInTheWay
<1>3. ASSUME NEW o \in Orders, NEW next \in CreatePc,
             pc' = [pc EXCEPT ![o] = next], next \in Asking => pc[o] \in Asking,
             UNCHANGED <<seatsOf, sold, znode>>
      PROVE  AskedFree'
  BY <1>0, <1>3, AskedFreeKept
<1>4. ASSUME NEW o \in Orders, NEW s \in Seats, CreateZnode(o, s) PROVE AskedFree'
  <2>1. /\ pc[o] = "creating" /\ s \in todo[o] /\ UNCHANGED <<seatsOf, sold>>
    BY <1>4 DEF CreateZnode
  <2>2. CASE znode[s] # Nobody
    <3>1. UNCHANGED znode /\ pc' = [pc EXCEPT ![o] = "rollback"]
      BY <1>4, <2>2 DEF CreateZnode, ZkAnswers
    <3>2. QED  BY <1>3, <2>1, <3>1 DEF Asking, CreatePc
  <2>3. CASE znode[s] = Nobody
    <3>1. znode' = [znode EXCEPT ![s] = o] /\ pc' = [pc EXCEPT ![o] = "zkset"]
      BY <1>4, <2>3 DEF CreateZnode, ZkAnswers
    <3>2. s \in seatsOf[o] /\ s \notin sold
      BY <2>1, <2>3 DEF IInv, LockingAsked, AskedFree, NodeInTheWay, Asking
    <3>3. \A q \in Orders : pc'[q] \in Asking => pc[q] \in Asking
      BY <1>0, <2>1, <3>1 DEF Asking
    <3>4. \A t \in sold : znode'[t] = znode[t]
      <4>1. sold \subseteq Seats /\ znode \in [Seats -> Orders \cup {Nobody}]
        BY DEF TypeOK
      <4>2. QED  BY <3>1, <3>2, <4>1
    <3>5. QED  BY <2>1, <3>3, <3>4 DEF AskedFree, NodeInTheWay
  <2>4. QED  BY <2>2, <2>3
<1>5. ASSUME NEW o \in Orders, CreateStep(o) PROVE AskedFree'
  <2>1. ASSUME NEW s \in Seats, LockWithoutZk(o, s) \/ CreateZnodeFails(o, s) PROVE FALSE
    BY <2>1 DEF LockWithoutZk, CreateZnodeFails, ZkMayFail, NodesOwned
  <2>2. ASSUME NEW s \in Seats, LockWithZk(o, s) PROVE AskedFree'
    <3>1. PICK next \in {"locking", "storing", "rollback"} : pc' = [pc EXCEPT ![o] = next]
      BY <2>2 DEF LockWithZk, SeatLocked, SeatRefused, Run
    <3>2. pc[o] = "zkset" /\ UNCHANGED <<seatsOf, sold, znode>>
      BY <2>2 DEF LockWithZk
    <3>3. QED  BY <1>3, <3>1, <3>2 DEF Asking, CreatePc
  <2>3. ASSUME Turned(o) \/ EnsurePath(o) \/ Store(o) \/ PublishCreated(o) \/ RolledBack(o)
        PROVE  AskedFree'
    <3>1. PICK next \in {"done", "creating", "created"} : pc' = [pc EXCEPT ![o] = next]
      BY <2>3 DEF Turned, EnsurePath, Store, PublishCreated, RolledBack, Run, ZkAnswers
    <3>2. (next = "creating" => pc[o] = "locking") /\ UNCHANGED <<seatsOf, sold, znode>>
      BY <1>0, <2>3, <3>1 DEF Turned, EnsurePath, Store, PublishCreated, RolledBack, Run
    <3>3. QED  BY <1>3, <3>1, <3>2 DEF Asking, CreatePc
  <2>4. QED  BY <1>2, <1>4, <1>5, <2>1, <2>2, <2>3 DEF CreateStep
<1>6. ASSUME NEW c \in Calls, Settle(c) PROVE AskedFree'
  <2>1. /\ sold' = sold \cup seatsOf[target[c]] /\ UNCHANGED <<seatsOf, znode>>
        /\ pc' = [pc EXCEPT ![c] = "paid"] /\ pc[c] = "paying"
    BY <1>6 DEF Settle, Run
  <2>2. target[c] \in Orders /\ status[target[c]] # "NONE"
    BY <2>1 DEF TypeOK, IInv, CallsOnStored
  <2>3. OwnsNodes(target[c], seatsOf[target[c]])
    BY <2>2 DEF NodesOwned
  <2>4. \A o \in Orders : pc'[o] \in Asking => pc[o] \in Asking /\ o # target[c]
    BY <1>0, <2>1, <2>2 DEF IInv, StoredIsCreated, Asking
  <2>5. QED  BY <1>0, <2>1, <2>2, <2>3, <2>4 DEF AskedFree, NodeInTheWay, OwnsNodes
<1>7. ASSUME NEW c \in Calls, NEW next \in CallPc, pc' = [pc EXCEPT ![c] = next],
             UNCHANGED <<seatsOf, sold, znode>>
      PROVE  AskedFree'
  <2>1. \A o \in Orders : pc'[o] = pc[o]
    BY <1>0, <1>7
  <2>2. QED  BY <1>7, <2>1, AskedFreeKept
<1>8. ASSUME NEW c \in Calls, CallStep(c) PROVE AskedFree'
  <2>1. ASSUME ~ Settle(c)
        PROVE  /\ \E next \in CallPc : pc' = [pc EXCEPT ![c] = next]
               /\ UNCHANGED <<seatsOf, sold, znode>>
    BY <1>8, <2>1 DEF CallStep, CheckOwner, PublishPaid, Close, PublishCancelled, Swept, Run, CallPc
  <2>2. QED  BY <1>6, <1>7, <2>1
<1>9. ASSUME NEW c \in Calls, NEW o \in Orders, StartPay(c, o) \/ StartCancel(c, o)
      PROVE  AskedFree'
  <2>1. /\ \E next \in CallPc : pc' = [pc EXCEPT ![c] = next]
        /\ UNCHANGED <<seatsOf, sold, znode>>
    BY <1>9 DEF StartPay, StartCancel, Run, CallPc
  <2>2. QED  BY <1>7, <2>1
<1>10. ASSUME NEW p \in Procs, ReleaseStep(p) \/ Throw(p) PROVE AskedFree'
  <2>1. /\ pc' \in {pc, [pc EXCEPT ![p] = "done"], [pc EXCEPT ![p] = "idle"]}
        /\ UNCHANGED <<seatsOf, sold, znode>>
    BY <1>0, <1>10 DEF ReleaseStep, GetOwner, DeleteLock, Throw, Run
  <2>2. \A o \in Orders : pc'[o] \in Asking => pc[o] \in Asking
    BY <1>0, <2>1 DEF Asking
  <2>3. QED  BY <2>1, <2>2, AskedFreeKept
<1>11. ASSUME NEW p \in Procs, Step(p) PROVE AskedFree'
  BY <1>5, <1>8, <1>10, <1>11 DEF Step
<1>12. ASSUME SessionExpires \/ Rebooted PROVE FALSE
  BY <1>12 DEF SessionExpires, Rebooted
<1>13. ASSUME \/ \E s \in Seats : LockExpires(s)
              \/ \E o \in Orders : OrderExpires(o)
              \/ RedisDrops \/ UNCHANGED vars
       PROVE  AskedFree'
  <2>1. UNCHANGED <<seatsOf, sold, znode, pc>>
    BY <1>13 DEF LockExpires, OrderExpires, RedisDrops, vars
  <2>2. QED  BY <2>1, AskedFreeKept
<1>14. QED
  BY <1>1, <1>9, <1>11, <1>12, <1>13 DEF Next, Restart, DieInSettle

\* The locks, the requests and the nodes of unsold seats are not part of it.
LEMMA SeatsStutter ==
  ASSUME UNCHANGED <<status, sold>>, \A s \in sold : znode'[s] = znode[s],
         \A o \in Orders : status[o] # "NONE" => seatsOf'[o] = seatsOf[o]
  PROVE  UNCHANGED SeatLedger!seatVars
BY DEF Placed, Buyer, SeatLedger!seatVars

LEMMA SeatStep ==
  ASSUME Faults \subseteq {"redis"}
  PROVE  TypeOK /\ IInv /\ NodesOwned /\ AskedFree /\ [Next]_vars
         => [SeatLedger!SeatNext]_SeatLedger!seatVars
<1> SUFFICES ASSUME TypeOK, IInv, NodesOwned, AskedFree, [Next]_vars
             PROVE  SeatLedger!SeatNext \/ UNCHANGED SeatLedger!seatVars
  OBVIOUS
<1> USE DEF dbVars, storeVars
<1>0. /\ status \in [Orders -> {"NONE", "PENDING_PAYMENT", "PAID", "CANCELLED"}]
      /\ seatsOf \in [Orders -> SUBSET Seats] /\ sold \subseteq Seats
      /\ znode \in [Seats -> Orders \cup {Nobody}] /\ target \in [Calls -> Orders]
  BY DEF TypeOK
<1>1. ASSUME NEW o \in Orders, NEW S \in SUBSET Seats, Submit(o, S)
      PROVE  UNCHANGED SeatLedger!seatVars
  <2>1. status[o] = "NONE" /\ seatsOf' = [seatsOf EXCEPT ![o] = S]
        /\ UNCHANGED <<status, sold, znode>>
    BY <1>1 DEF Submit, IInv, StoredIsCreated
  <2>2. QED  BY <1>0, <2>1, SeatsStutter
<1>2. ASSUME NEW o \in Orders, Store(o)
      PROVE  SeatLedger!SeatNext
  <2>. SUFFICES ASSUME NEW S \in SUBSET Seats, S = seatsOf[o] PROVE SeatLedger!SeatNext
    BY <1>0
  <2>1. status[o] = "NONE" /\ pc[o] = "storing"
    BY <1>2 DEF Store, IInv, StoredIsCreated
  <2>2. S \cap sold = {}
    BY <2>1 DEF NodesOwned, OwnsNodes, AskedFree, NodeInTheWay, Asking
  <2>3. status' = [status EXCEPT ![o] = "PENDING_PAYMENT"] /\ UNCHANGED <<seatsOf, sold, znode>>
    BY <1>2 DEF Store, SetStatus
  <2>4. Placed' = [Placed EXCEPT ![o] = S]
    BY <1>0, <2>3 DEF Placed
  <2>5. SeatLedger!Place(o, S)
    BY <2>1, <2>2, <2>3, <2>4 DEF SeatLedger!Place, Buyer
  <2>6. QED  BY <2>5 DEF SeatLedger!SeatNext
<1>3. ASSUME NEW c \in Calls, Settle(c)
      PROVE  SeatLedger!SeatNext
  <2>. SUFFICES ASSUME NEW o \in Orders, o = target[c] PROVE SeatLedger!SeatNext
    BY <1>0
  <2>1. /\ pc[c] # "idle" /\ status' = [status EXCEPT ![o] = "PAID"]
        /\ sold' = sold \cup seatsOf[o] /\ UNCHANGED <<seatsOf, znode>>
    BY <1>3 DEF Settle, SetStatus
  <2>2. status[o] # "NONE"
    BY <2>1 DEF IInv, CallsOnStored
  <2>3. \A s \in seatsOf[o] : znode[s] = o
    BY <2>2 DEF NodesOwned, OwnsNodes
  <2>4. Placed[o] = seatsOf[o] /\ UNCHANGED Placed
    BY <1>0, <2>1, <2>2 DEF Placed
  <2>5. \A s \in Placed[o] : s \in sold => Buyer[s] = o
    BY <1>0, <2>3, <2>4 DEF Buyer
  <2>6. Buyer' = [s \in Seats |-> IF s \in Placed[o] THEN o ELSE Buyer[s]]
    BY <1>0, <2>1, <2>3, <2>4 DEF Buyer
  <2>7. SeatLedger!Pay(o)
    BY <2>1, <2>2, <2>4, <2>5, <2>6 DEF SeatLedger!Pay
  <2>8. QED  BY <2>7 DEF SeatLedger!SeatNext
<1>4. ASSUME NEW c \in Calls, Close(c)
      PROVE  SeatLedger!SeatNext
  <2>1. /\ pc[c] # "idle" /\ status' = [status EXCEPT ![target[c]] = "CANCELLED"]
        /\ UNCHANGED <<seatsOf, sold, znode>>
    BY <1>4 DEF Close, SetStatus
  <2>2. target[c] \in Orders /\ status[target[c]] # "NONE"
    BY <1>0, <2>1 DEF IInv, CallsOnStored
  <2>3. UNCHANGED <<Placed, Buyer>>
    BY <1>0, <2>1, <2>2 DEF Placed, Buyer
  <2>4. SeatLedger!Cancel(target[c])
    BY <2>1, <2>2, <2>3 DEF SeatLedger!Cancel
  <2>5. QED  BY <2>2, <2>4 DEF SeatLedger!SeatNext
<1>5. ASSUME UNCHANGED <<status, seatsOf, sold, znode>>
      PROVE  UNCHANGED SeatLedger!seatVars
  BY <1>5, SeatsStutter
<1>6. ASSUME NEW o \in Orders, NEW s \in Seats, CreateZnode(o, s)
      PROVE  UNCHANGED SeatLedger!seatVars
  <2>1. /\ pc[o] = "creating" /\ s \in todo[o] /\ UNCHANGED <<status, seatsOf, sold>>
        /\ UNCHANGED znode \/ (znode[s] = Nobody /\ znode' = [znode EXCEPT ![s] = o])
    BY <1>6 DEF CreateZnode
  <2>2. znode[s] = Nobody => s \notin sold
    BY <2>1 DEF IInv, LockingAsked, AskedFree, NodeInTheWay, Asking
  <2>3. \A t \in sold : znode'[t] = znode[t]
    BY <1>0, <2>1, <2>2
  <2>4. QED  BY <2>1, <2>3, SeatsStutter
<1>7. ASSUME NEW o \in Orders, CreateStep(o)
      PROVE  SeatLedger!SeatNext \/ UNCHANGED SeatLedger!seatVars
  <2>1. ASSUME NEW s \in Seats, CreateZnodeFails(o, s) PROVE FALSE
    BY <2>1 DEF CreateZnodeFails, ZkMayFail, NodesOwned
  <2>2. \/ Store(o) \/ \E s \in Seats : CreateZnode(o, s)
        \/ UNCHANGED <<status, seatsOf, sold, znode>>
    BY <1>7, <2>1 DEF CreateStep, Turned, FindSeats, LockWithoutZk, LockWithZk, EnsurePath,
                      PublishCreated, RolledBack
  <2>3. QED  BY <1>2, <1>5, <1>6, <2>2
<1>8. ASSUME NEW c \in Calls, CallStep(c)
      PROVE  Settle(c) \/ Close(c) \/ UNCHANGED <<status, seatsOf, sold, znode>>
  BY <1>8 DEF CallStep, CheckOwner, PublishPaid, PublishCancelled, Swept
<1>9. ASSUME NEW p \in Procs, ReleaseStep(p) \/ Throw(p)
      PROVE  UNCHANGED <<status, seatsOf, sold, znode>>
  BY <1>9 DEF ReleaseStep, GetOwner, DeleteLock, Throw
<1>10. ASSUME NEW p \in Procs, Step(p)
       PROVE  SeatLedger!SeatNext \/ UNCHANGED SeatLedger!seatVars
  BY <1>3, <1>4, <1>5, <1>7, <1>8, <1>9, <1>10 DEF Step
<1>11. ASSUME \/ \E c \in Calls, o \in Orders : StartPay(c, o) \/ StartCancel(c, o)
              \/ \E s \in Seats : LockExpires(s)
              \/ \E o \in Orders : OrderExpires(o)
              \/ RedisDrops \/ UNCHANGED vars
       PROVE  UNCHANGED <<status, seatsOf, sold, znode>>
  BY <1>11 DEF StartPay, StartCancel, LockExpires, OrderExpires, RedisDrops, vars
<1>12. ASSUME SessionExpires \/ Rebooted PROVE FALSE
  BY <1>12 DEF SessionExpires, Rebooted
<1>13. QED
  BY <1>1, <1>5, <1>10, <1>11, <1>12 DEF Next, Restart, DieInSettle

\* As long as the ZooKeeper session lasts a seat that was bought keeps its buyer
\* and no order is stored for it later, however pay and cancel handlers overwrite
\* each other's status, for any number of orders, calls and seats.
THEOREM SeatsKeepTheirBuyer ==
  ASSUME ZooKeeper, Faults \subseteq {"redis"}
  PROVE  Spec => ImplementsSeatSale
<1>1. Init => NodesOwned /\ AskedFree
  BY BookingAssumption DEF Init, NodesOwned, AskedFree, Asking, BookingAssumption, Procs
<1>2. Init => SeatLedger!SeatInit
  <2> SUFFICES ASSUME Init PROVE SeatLedger!SeatInit
    OBVIOUS
  <2>1. Placed = [o \in Orders |-> {}] /\ Buyer = [s \in Seats |-> Nobody]
    BY DEF Init, Placed, Buyer
  <2>2. QED  BY <2>1 DEF Init, SeatLedger!SeatInit
<1>3. QED
  BY <1>1, <1>2, TypeCorrect, Invariant, NodesOwnedNext, AskedFreeNext, SeatStep, PTL
     DEF Spec, ImplementsSeatSale, SeatLedger!SeatSpec

-----------------------------------------------------------------------------
(* While the store answers, the locks of a request that is not stored are  *)
(* those it has taken, or has still to give back.                          *)

CreatedStored == \A o \in Orders : pc[o] = "created" => status[o] # "NONE"

LocksHeld ==
  StoreAnswers =>
    \A o \in Orders, s \in Seats : lock[s] = o =>
      \/ status[o] # "NONE"
      \/ pc[o] \in {"locking", "creating", "zkset"} /\ s \in LockedSoFar(o)
      \/ pc[o] = "storing"
      \/ pc[o] = "rollback" /\ s \in todo[o] \cup busy[o]

HeldInv == CreatedStored /\ LocksHeld

\* The steps that lock nothing and leave what create requests have to do alone.
LEMMA HeldKept ==
  ASSUME HeldInv, UNCHANGED seatsOf, StoreAnswers' => StoreAnswers,
         \A s \in Seats : lock'[s] \in {lock[s], Nobody},
         \A o \in Orders : /\ pc'[o] = pc[o] /\ todo'[o] = todo[o] /\ busy'[o] = busy[o]
                           /\ status[o] # "NONE" => status'[o] # "NONE"
  PROVE  HeldInv'
BY BookingAssumption DEF HeldInv, CreatedStored, LocksHeld, LockedSoFar

LEMMA HeldNext ==
  ASSUME Redis => "restart" \notin Faults
  PROVE  TypeOK /\ IInv /\ HeldInv /\ [Next]_vars => HeldInv'
<1> SUFFICES ASSUME TypeOK, IInv, HeldInv, [Next]_vars PROVE HeldInv'
  OBVIOUS
<1> USE BookingAssumption DEF dbVars, storeVars
<1>0. /\ TypeOK' /\ Orders \subseteq Procs /\ Calls \subseteq Procs
      /\ \A o \in Orders : o # Nobody /\ \A c \in Calls : o # c
  BY TypeNext DEF Procs
<1>1. ASSUME NEW o \in Orders, NEW S \in SUBSET Seats, Submit(o, S) PROVE HeldInv'
  <2>1. pc[o] = "idle" /\ \A s \in Seats : lock[s] # o
    BY <1>1 DEF Submit, IInv, LocksAsked
  <2>2. pc' = [pc EXCEPT ![o] = "admitted"] /\ seatsOf' = [seatsOf EXCEPT ![o] = S]
        /\ UNCHANGED <<status, lock, redisUp, todo, busy>>
    BY <1>1 DEF Submit, Run
  <2>3. QED
    BY <1>0, <2>1, <2>2 DEF HeldInv, CreatedStored, LocksHeld, LockedSoFar, StoreAnswers, TypeOK
<1>2. ASSUME NEW c \in Calls, NEW o \in Orders, StartPay(c, o) \/ StartCancel(c, o)
      PROVE  HeldInv'
  BY <1>0, <1>2, HeldKept DEF StartPay, StartCancel, Run, Todo, StoreAnswers, TypeOK
<1>3. ASSUME NEW o \in Orders, Turned(o) \/ FindSeats(o) PROVE HeldInv'
  <2>1. pc[o] = "admitted" /\ UNCHANGED <<status, seatsOf, lock, redisUp, busy>>
    BY <1>3 DEF Turned, FindSeats
  <2>2. \E next \in {"done", "locking"} : pc' = [pc EXCEPT ![o] = next]
    BY <1>3 DEF Turned, FindSeats, Run
  <2>3. todo' = todo \/ todo' = [todo EXCEPT ![o] = seatsOf[o]]
    BY <1>3 DEF Turned, FindSeats, Todo
  <2>4. StoreAnswers => (\A s \in Seats : lock[s] = o => status[o] # "NONE")
    BY <2>1 DEF HeldInv, LocksHeld
  <2>5. QED
    BY <1>0, <2>1, <2>2, <2>3, <2>4
       DEF HeldInv, CreatedStored, LocksHeld, LockedSoFar, StoreAnswers, TypeOK
<1>4. ASSUME NEW o \in Orders, RolledBack(o) PROVE HeldInv'
  BY <1>0, <1>4 DEF RolledBack, AllReleased, Run, HeldInv, CreatedStored, LocksHeld, LockedSoFar,
                    StoreAnswers, TypeOK
<1>5. ASSUME NEW o \in Orders, NEW s \in Seats, LockWithoutZk(o, s) \/ LockWithZk(o, s)
      PROVE  HeldInv'
  <2>1. /\ pc[o] \in {"locking", "zkset"} /\ todo[o] \subseteq seatsOf[o] /\ s \in seatsOf[o]
        /\ UNCHANGED <<status, seatsOf, redisUp>>
    BY <1>5 DEF LockWithoutZk, LockWithZk, IInv, LockingAsked
  <2>2. StoreAnswers => lock' = [lock EXCEPT ![s] = TakeLock(o, s)]
    BY <1>5 DEF LockWithoutZk, LockWithZk, SetLock
  <2>3. \/ /\ pc' \in {[pc EXCEPT ![o] = "storing"], [pc EXCEPT ![o] = "locking"]}
           /\ todo' = [todo EXCEPT ![o] = todo[o] \ {s}]
        \/ /\ StoreAnswers => lock[s] # Nobody
           /\ pc' = [pc EXCEPT ![o] = "rollback"]
           /\ todo' = [todo EXCEPT ![o] = LockedSoFar(o)]
    BY <1>5 DEF LockWithoutZk, LockWithZk, SeatLocked, SeatRefused, Run, Todo
  <2>4. \A q \in Orders \ {o} : busy'[q] = busy[q] /\ todo'[q] = todo[q] /\ pc'[q] = pc[q]
    <3>1. busy' = busy \/ busy' = [busy EXCEPT ![o] = {}]
      BY <1>5 DEF LockWithoutZk, LockWithZk, Busy
    <3>2. QED  BY <1>0, <2>3, <3>1 DEF TypeOK
  <2>5. CreatedStored'
    BY <1>0, <2>1, <2>3, <2>4 DEF HeldInv, CreatedStored, TypeOK
  <2>6. ASSUME StoreAnswers', NEW q \in Orders, NEW t \in Seats, lock'[t] = q, status'[q] = "NONE"
        PROVE  \/ pc'[q] \in {"locking", "creating", "zkset"} /\ t \in LockedSoFar(q)'
               \/ pc'[q] = "storing"
               \/ pc'[q] = "rollback" /\ t \in todo'[q] \cup busy'[q]
    <3>1. StoreAnswers /\ status[q] = "NONE"
      BY <2>1, <2>6 DEF StoreAnswers
    <3>2. lock[t] = q \/ (t = s /\ q = o /\ lock[s] = Nobody)
      BY <1>0, <2>2, <2>6, <3>1 DEF TakeLock, TypeOK
    <3>3. CASE q # o
      BY <2>1, <2>4, <3>1, <3>2, <3>3 DEF HeldInv, LocksHeld, LockedSoFar
    <3>4. CASE q = o
      <4>1. t \in LockedSoFar(o) \/ (t = s /\ lock[s] = Nobody)
        <5>1. lock[t] = o => \/ t \in LockedSoFar(o)
                             \/ pc[o] \in {"storing", "rollback"}
          BY <3>1, <3>4 DEF HeldInv, LocksHeld
        <5>2. QED  BY <2>1, <3>2, <3>4, <5>1
      <4>2. o \in DOMAIN pc /\ o \in DOMAIN todo
        BY <1>0 DEF TypeOK
      <4>3. QED
        BY <2>1, <2>3, <3>1, <3>4, <4>1, <4>2 DEF LockedSoFar
    <3>5. QED  BY <3>3, <3>4
  <2>7. QED  BY <2>5, <2>6 DEF HeldInv, LocksHeld
<1>6. ASSUME NEW o \in Orders, EnsurePath(o) PROVE HeldInv'
  BY <1>0, <1>6 DEF EnsurePath, ZkAnswers, HeldInv, CreatedStored, LocksHeld, LockedSoFar,
                    StoreAnswers, TypeOK
<1>7. ASSUME NEW o \in Orders, NEW s \in Seats, CreateZnode(o, s) \/ CreateZnodeFails(o, s)
      PROVE  HeldInv'
  <2>1. pc[o] = "creating" /\ UNCHANGED <<status, seatsOf, lock, redisUp>>
    BY <1>7 DEF CreateZnode, CreateZnodeFails
  <2>2. \/ pc' = [pc EXCEPT ![o] = "zkset"] /\ todo' = todo /\ busy' = [busy EXCEPT ![o] = {s}]
        \/ /\ pc' = [pc EXCEPT ![o] = "rollback"]
           /\ todo' = [todo EXCEPT ![o] = LockedSoFar(o)]
           /\ busy' = busy
    BY <1>7 DEF CreateZnode, CreateZnodeFails, ZkAnswers, Todo, Busy
  <2>3. \A q \in Orders \ {o} : busy'[q] = busy[q] /\ todo'[q] = todo[q] /\ pc'[q] = pc[q]
    BY <1>0, <2>2 DEF TypeOK
  <2>4. \/ pc'[o] = "zkset" /\ todo'[o] = todo[o]
        \/ pc'[o] = "rollback" /\ todo'[o] = LockedSoFar(o)
    BY <1>0, <2>2 DEF TypeOK
  <2>5. CreatedStored'
    BY <2>1, <2>3, <2>4 DEF HeldInv, CreatedStored
  <2>6. LocksHeld'
    BY <2>1, <2>3, <2>4 DEF HeldInv, LocksHeld, LockedSoFar, StoreAnswers
  <2>7. QED  BY <2>5, <2>6 DEF HeldInv
<1>8. ASSUME NEW o \in Orders, Store(o) PROVE HeldInv'
  BY <1>0, <1>8 DEF Store, Run, SetStatus, HeldInv, CreatedStored, LocksHeld, LockedSoFar,
                    StoreAnswers, TypeOK
<1>9. ASSUME NEW o \in Orders, PublishCreated(o) PROVE HeldInv'
  BY <1>0, <1>9 DEF PublishCreated, Run, HeldInv, CreatedStored, LocksHeld, LockedSoFar,
                    StoreAnswers, TypeOK
<1>10. ASSUME NEW p \in Procs, NEW s \in Seats, GetOwner(p, s) PROVE HeldInv'
  <2>1. pc' = pc /\ pc[p] \in Releasing /\ UNCHANGED <<status, seatsOf, lock, redisUp>>
    BY <1>10 DEF GetOwner, Run, TypeOK
  <2>2. \A o \in Orders \ {p} : todo'[o] = todo[o] /\ busy'[o] = busy[o]
    BY <1>10 DEF GetOwner, Todo, Busy
  <2>3. p \in Orders => /\ todo'[p] = todo[p] \ {s}
                        /\ busy'[p] = IF lock[s] = p THEN busy[p] \cup {s} ELSE busy[p]
    BY <1>10 DEF GetOwner, Todo, Busy, OrderOf, TypeOK
  <2>4. QED
    BY <2>1, <2>2, <2>3 DEF HeldInv, CreatedStored, LocksHeld, LockedSoFar, StoreAnswers, Releasing
<1>11. ASSUME NEW p \in Procs, NEW s \in Seats, DeleteLock(p, s) PROVE HeldInv'
  <2>1. pc' = pc /\ pc[p] \in Releasing /\ UNCHANGED <<status, seatsOf, redisUp, todo>>
    BY <1>11 DEF DeleteLock, Run, TypeOK
  <2>2. lock' = [lock EXCEPT ![s] = Nobody] /\ busy' = [busy EXCEPT ![p] = busy[p] \ {s}]
    BY <1>11 DEF DeleteLock, SetLock, Busy
  <2>3. QED
    BY <1>0, <2>1, <2>2 DEF HeldInv, CreatedStored, LocksHeld, LockedSoFar, StoreAnswers, Releasing,
                            TypeOK
<1>12. ASSUME NEW c \in Calls, NEW s \in Seats, CheckOwner(c, s) PROVE HeldInv'
  BY <1>0, <1>12, HeldKept DEF CheckOwner, Run, Todo, StoreAnswers, TypeOK
<1>13. ASSUME NEW c \in Calls, Settle(c) \/ Close(c) PROVE HeldInv'
  BY <1>0, <1>13, HeldKept DEF Settle, Close, Run, SetStatus, StoreAnswers, TypeOK
<1>14. ASSUME NEW c \in Calls, PublishPaid(c) \/ PublishCancelled(c) \/ Swept(c) PROVE HeldInv'
  BY <1>0, <1>14, HeldKept DEF PublishPaid, PublishCancelled, Swept, Run, Todo, StoreAnswers, TypeOK
<1>15. ASSUME NEW p \in Procs, Throw(p) PROVE HeldInv'
  <2>1. ~ StoreAnswers' /\ status' = status
    BY <1>15 DEF Throw, StoreAnswers
  <2>2. \A o \in Orders : pc'[o] \in {pc[o], "done"}
    BY <1>0, <1>15 DEF Throw, Run, TypeOK
  <2>3. QED  BY <2>1, <2>2 DEF HeldInv, CreatedStored, LocksHeld
<1>16. ASSUME NEW s \in Seats, LockExpires(s) PROVE HeldInv'
  BY <1>16, HeldKept DEF LockExpires, SetLock, StoreAnswers, TypeOK
<1>17. CASE (\E o \in Orders : OrderExpires(o)) \/ RedisDrops \/ SessionExpires
  BY <1>17, HeldKept DEF OrderExpires, RedisDrops, SessionExpires, StoreAnswers, TypeOK
<1>18. CASE Rebooted
  <2>1. \A s \in Seats : lock'[s] = Nobody
    BY <1>18 DEF Rebooted
  <2>2. \A o \in Orders : pc'[o] \in {"done", "idle"}
    BY <1>0, <1>18 DEF Rebooted
  <2>3. QED  BY <1>0, <2>1, <2>2 DEF HeldInv, CreatedStored, LocksHeld
<1>19. CASE UNCHANGED vars
  BY <1>19, HeldKept DEF vars, StoreAnswers, TypeOK
<1>20. QED
  BY <1>1, <1>2, <1>3, <1>4, <1>5, <1>6, <1>7, <1>8, <1>9, <1>10, <1>11, <1>12, <1>13, <1>14,
     <1>15, <1>16, <1>17, <1>18, <1>19
     DEF Next, Step, CreateStep, CallStep, ReleaseStep, Restart, DieInSettle

\* A refused request leaves no lock behind while the store answers, whatever
\* Redis and ZooKeeper do to it and to its rivals; only a process that dies under
\* Redis leaves locks that nobody gives back.
THEOREM LocksAccounted ==
  ASSUME Redis => "restart" \notin Faults
  PROVE  Spec => []LockAccountedFor
<1>1. Init => HeldInv
  BY BookingAssumption DEF Init, HeldInv, CreatedStored, LocksHeld, Procs
<1>2. TypeOK /\ IInv /\ HeldInv => LockAccountedFor
  <2> SUFFICES ASSUME TypeOK, IInv, HeldInv, StoreAnswers, NEW o \in Orders, pc[o] = "done",
                      status[o] # "PENDING_PAYMENT", NEW s \in Seats, lock[s] = o
               PROVE  FALSE
    BY DEF LockAccountedFor
  <2>1. status[o] # "NONE"
    BY DEF HeldInv, LocksHeld
  <2>2. status[o] \in {"PAID", "CANCELLED"}
    BY <2>1 DEF TypeOK
  <2>3. QED  BY <2>2 DEF IInv, ClosedHoldsNoLock
<1>3. QED
  BY <1>1, <1>2, TypeCorrect, Invariant, HeldNext, PTL DEF Spec

-----------------------------------------------------------------------------
(* Without Redis and ZooKeeper the locks are a map of the process and a    *)
(* handler keeps the thread from its first step to its last: that is what  *)
(* makes the two reads of pay, of the order and of its locks, still hold   *)
(* when the order is settled.                                              *)

Resting == {"idle", "done"}

\* Whoever is not resting has the thread, so there is at most one.
Alone ==
  /\ zk = "absent"
  /\ \A p \in Procs : pc[p] \notin {"creating", "zkset"} /\ (pc[p] \in Resting \/ thread = p)

Payable(s, o) == s \notin sold /\ lock[s] \in {Nobody, o}

\* What the handler of pay or cancel has read is still so.
CallKnows(c) ==
  /\ pc[c] \in {"checking", "paying", "cancelling"} => status[target[c]] = "PENDING_PAYMENT"
  /\ pc[c] = "checking" => \A s \in seatsOf[target[c]] \ todo[c] : Payable(s, target[c])
  /\ pc[c] = "paying" => \A s \in seatsOf[target[c]] : Payable(s, target[c])

AskedUnsold(o) == pc[o] \in {"locking", "storing"} => seatsOf[o] \cap sold = {}

LockedUnsold == \A s \in Seats : lock[s] # Nobody => s \notin sold

MemInv ==
  /\ Alone /\ LockedUnsold
  /\ \A c \in Calls : CallKnows(c)
  /\ \A o \in Orders : AskedUnsold(o)

\* A handler that runs finds every other one resting, and leaves it so.
LEMMA RunsAlone ==
  ASSUME ~ Redis, TypeOK, Alone, zk' = zk, NEW p \in Procs,
         NEW next \in (CreatePc \cup CallPc) \ {"creating", "zkset"}, Run(p, next)
  PROVE  /\ Alone' /\ pc'[p] = next
         /\ \A q \in Procs \ {p} : pc[q] \in Resting /\ pc'[q] = pc[q]
<1>1. pc' = [pc EXCEPT ![p] = next] /\ thread \in {Nobody, p}
  BY DEF Run
<1>2. pc'[p] = next /\ \A q \in Procs \ {p} : pc'[q] = pc[q]
  BY <1>1 DEF TypeOK
<1>3. \A q \in Procs \ {p} : pc[q] \in Resting
  <2>1. \A q \in Procs : q # Nobody
    BY BookingAssumption DEF BookingAssumption, Procs
  <2>2. QED  BY <1>1, <2>1 DEF Alone
<1>4. next \in Resting \/ thread' = p
  BY DEF Run, Yields, Alone, Resting
<1>5. Alone'
  <2>1. zk' = "absent"
    BY DEF Alone
  <2>2. \A q \in Procs \ {p} : pc'[q] \notin {"creating", "zkset"} /\ pc'[q] \in Resting
    BY <1>2, <1>3 DEF Alone
  <2>3. pc'[p] \notin {"creating", "zkset"} /\ (pc'[p] \in Resting \/ thread' = p)
    BY <1>2, <1>4
  <2>4. QED  BY <2>1, <2>2, <2>3 DEF Alone
<1>6. QED  BY <1>2, <1>3, <1>5

\* The data part of MemInv needs care for the handler that runs only.
LEMMA OnlyRunning ==
  ASSUME NEW p \in Procs, Alone', \A q \in Procs \ {p} : pc'[q] \in Resting,
         LockedUnsold',
         p \in Calls => CallKnows(p)', p \in Orders => AskedUnsold(p)'
  PROVE  MemInv'
<1>1. \A c \in Calls \ {p} : CallKnows(c)'
  BY DEF Procs, Resting, CallKnows
<1>2. \A o \in Orders \ {p} : AskedUnsold(o)'
  BY DEF Procs, Resting, AskedUnsold
<1>3. QED  BY <1>1, <1>2 DEF MemInv

LEMMA MemNext ==
  ASSUME ~ Redis, ~ ZooKeeper
  PROVE  TypeOK /\ IInv /\ MemInv /\ [Next]_vars => MemInv'
<1> SUFFICES ASSUME TypeOK, IInv, MemInv, [Next]_vars PROVE MemInv'
  OBVIOUS
<1> USE DEF dbVars, storeVars
<1>0. /\ TypeOK' /\ Orders \subseteq Procs /\ Calls \subseteq Procs /\ Orders \cap Calls = {}
      /\ Alone /\ LockedUnsold
      /\ \A c \in Calls : CallKnows(c) /\ c \notin Orders
      /\ \A o \in Orders : AskedUnsold(o) /\ o # Nobody /\ o \notin Calls
  BY TypeNext, BookingAssumption DEF Procs, MemInv, BookingAssumption
<1>1. ASSUME NEW o \in Orders, NEW S \in SUBSET Seats, Submit(o, S) PROVE MemInv'
  <2>1. Run(o, "admitted") /\ UNCHANGED <<status, sold, lock, zk>>
    BY <1>1 DEF Submit
  <2>2. /\ Alone' /\ pc'[o] = "admitted"
        /\ \A q \in Procs \ {o} : pc[q] \in Resting /\ pc'[q] = pc[q]
    BY <1>0, <2>1, RunsAlone DEF CreatePc
  <2>3. LockedUnsold'
    BY <1>0, <2>1 DEF LockedUnsold
  <2>4. AskedUnsold(o)'
    BY <2>2 DEF AskedUnsold
  <2>5. QED  BY <1>0, <2>2, <2>3, <2>4, OnlyRunning
<1>2. ASSUME NEW c \in Calls, NEW o \in Orders, StartPay(c, o) \/ StartCancel(c, o)
      PROVE  MemInv'
  <2>. PICK next \in {"checking", "cancelling"} : Run(c, next)
    BY <1>2 DEF StartPay, StartCancel
  <2>1. /\ status[o] = "PENDING_PAYMENT" /\ target' = [target EXCEPT ![c] = o]
        /\ todo' = [todo EXCEPT ![c] = seatsOf[o]]
        /\ UNCHANGED <<status, seatsOf, sold, lock, zk>>
    BY <1>2 DEF StartPay, StartCancel, Todo
  <2>2. /\ Alone' /\ pc'[c] = next
        /\ \A q \in Procs \ {c} : pc[q] \in Resting /\ pc'[q] = pc[q]
    BY <1>0, <2>1, RunsAlone DEF CallPc
  <2>3. LockedUnsold'
    BY <1>0, <2>1 DEF LockedUnsold
  <2>4. CallKnows(c)'
    <3>1. target'[c] = o /\ todo'[c] = seatsOf[o]
      BY <1>0, <2>1 DEF TypeOK
    <3>2. QED  BY <2>1, <2>2, <3>1 DEF CallKnows
  <2>5. QED  BY <1>0, <2>2, <2>3, <2>4, OnlyRunning
<1>3. ASSUME NEW o \in Orders,
             Turned(o) \/ FindSeats(o) \/ Store(o) \/ PublishCreated(o) \/ RolledBack(o)
      PROVE  MemInv'
  <2>. PICK next \in {"done", "locking", "created"} : Run(o, next)
    BY <1>3 DEF Turned, FindSeats, Store, PublishCreated, RolledBack
  <2>1. UNCHANGED <<seatsOf, sold, lock, zk>>
    BY <1>3 DEF Turned, FindSeats, Store, PublishCreated, RolledBack
  <2>2. /\ Alone' /\ pc'[o] = next
        /\ \A q \in Procs \ {o} : pc[q] \in Resting /\ pc'[q] = pc[q]
    BY <1>0, <2>1, RunsAlone DEF CreatePc
  <2>3. LockedUnsold'
    BY <1>0, <2>1 DEF LockedUnsold
  <2>4. AskedUnsold(o)'
    <3>1. pc'[o] = "locking" => seatsOf[o] \cap sold = {}
      <4>1. FindSeats(o) \/ pc'[o] # "locking"
        BY <1>0, <1>3 DEF Turned, Store, PublishCreated, RolledBack, Run, TypeOK
      <4>2. QED  BY <4>1 DEF FindSeats
    <3>2. QED  BY <2>1, <2>2, <3>1 DEF AskedUnsold
  <2>5. QED  BY <1>0, <2>2, <2>3, <2>4, OnlyRunning
<1>4. ASSUME NEW o \in Orders, NEW s \in Seats, LockWithoutZk(o, s) PROVE MemInv'
  <2>. PICK next \in {"locking", "storing", "rollback"} : Run(o, next)
    BY <1>4 DEF LockWithoutZk, SeatLocked, SeatRefused
  <2>1. /\ pc[o] = "locking" /\ s \in todo[o] /\ lock' = [lock EXCEPT ![s] = TakeLock(o, s)]
        /\ UNCHANGED <<status, seatsOf, sold, zk>>
    BY <1>4 DEF LockWithoutZk, SetLock
  <2>2. /\ Alone' /\ pc'[o] = next
        /\ \A q \in Procs \ {o} : pc[q] \in Resting /\ pc'[q] = pc[q]
    BY <1>0, <2>1, RunsAlone DEF CreatePc
  <2>3. s \in seatsOf[o] /\ seatsOf[o] \cap sold = {}
    BY <1>0, <2>1 DEF IInv, LockingAsked, AskedUnsold
  <2>4. LockedUnsold'
    BY <1>0, <2>1, <2>3 DEF LockedUnsold, TypeOK
  <2>5. AskedUnsold(o)'
    BY <2>1, <2>3 DEF AskedUnsold
  <2>6. QED  BY <1>0, <2>2, <2>4, <2>5, OnlyRunning
<1>5. ASSUME NEW o \in Orders, NEW s \in Seats,
             EnsurePath(o) \/ CreateZnode(o, s) \/ CreateZnodeFails(o, s) \/ LockWithZk(o, s)
      PROVE  FALSE
  BY <1>0, <1>5 DEF EnsurePath, CreateZnode, CreateZnodeFails, LockWithZk, Alone
<1>6. ASSUME NEW p \in Procs, NEW s \in Seats, GetOwner(p, s) \/ DeleteLock(p, s)
      PROVE  MemInv'
  <2>1. /\ Run(p, pc[p]) /\ pc[p] \in Releasing
        /\ UNCHANGED <<status, seatsOf, sold, zk, target>>
        /\ \A t \in Seats : lock'[t] \in {lock[t], Nobody}
    BY <1>6 DEF GetOwner, DeleteLock, SetLock, TypeOK
  <2>2. /\ Alone' /\ pc'[p] = pc[p]
        /\ \A q \in Procs \ {p} : pc[q] \in Resting /\ pc'[q] = pc[q]
    BY <1>0, <2>1, RunsAlone DEF CallPc, CreatePc, Releasing
  <2>3. LockedUnsold'
    BY <1>0, <2>1 DEF LockedUnsold
  <2>4. ASSUME p \in Calls PROVE CallKnows(p)'
    <3>1. CallKnows(p) /\ pc[p] # "checking" /\ seatsOf[target[p]] \subseteq Seats
      BY <1>0, <2>1, <2>4 DEF Releasing, TypeOK
    <3>2. QED  BY <2>1, <2>2, <3>1 DEF CallKnows, Payable
  <2>5. p \in Orders => AskedUnsold(p)'
    BY <2>1, <2>2 DEF AskedUnsold, Releasing
  <2>6. QED  BY <1>0, <2>2, <2>3, <2>4, <2>5, OnlyRunning
<1>7. ASSUME NEW c \in Calls, NEW s \in Seats, CheckOwner(c, s) PROVE MemInv'
  <2>. PICK next \in {"checking", "paying", "cancelling"} : Run(c, next)
    BY <1>7 DEF CheckOwner
  <2>1. pc[c] = "checking" /\ s \in todo[c]
        /\ UNCHANGED <<status, seatsOf, sold, lock, zk, target>>
    BY <1>7 DEF CheckOwner
  <2>2. /\ Alone' /\ pc'[c] = next
        /\ \A q \in Procs \ {c} : pc[q] \in Resting /\ pc'[q] = pc[q]
    BY <1>0, <2>1, RunsAlone DEF CallPc
  <2>3. LockedUnsold'
    BY <1>0, <2>1 DEF LockedUnsold
  <2>4. CallKnows(c)'
    <3>1. /\ CallKnows(c) /\ status[target[c]] = "PENDING_PAYMENT"
          /\ \A t \in seatsOf[target[c]] \ todo[c] : Payable(t, target[c])
      BY <1>0, <2>1 DEF CallKnows
    <3>2. lock[s] = target[c] => Payable(s, target[c])
      BY <1>0 DEF LockedUnsold, Payable, TypeOK
    <3>3. CASE next = "checking"
      <4>1. lock[s] = target[c] /\ todo'[c] = todo[c] \ {s}
        BY <1>0, <1>7, <2>2, <3>3 DEF CheckOwner, Todo, Run, TypeOK
      <4>2. QED  BY <2>1, <2>2, <3>1, <3>2, <3>3, <4>1 DEF CallKnows, Payable
    <3>4. CASE next = "paying"
      <4>1. lock[s] = target[c] /\ todo[c] = {s}
        BY <1>0, <1>7, <2>2, <3>4 DEF CheckOwner, Run, TypeOK
      <4>2. QED  BY <2>1, <2>2, <3>1, <3>2, <3>4, <4>1 DEF CallKnows, Payable
    <3>5. CASE next = "cancelling"
      BY <2>1, <2>2, <3>1, <3>5 DEF CallKnows
    <3>6. QED  BY <3>3, <3>4, <3>5
  <2>5. QED  BY <1>0, <2>2, <2>3, <2>4, OnlyRunning
<1>8. ASSUME NEW c \in Calls, Settle(c) PROVE MemInv'
  <2>1. /\ Run(c, "paid") /\ pc[c] = "paying" /\ AllReleased(c)
        /\ sold' = sold \cup seatsOf[target[c]]
        /\ status' = [status EXCEPT ![target[c]] = "PAID"]
        /\ UNCHANGED <<seatsOf, lock, zk, target>>
    BY <1>8 DEF Settle, SetStatus
  <2>2. /\ Alone' /\ pc'[c] = "paid"
        /\ \A q \in Procs \ {c} : pc[q] \in Resting /\ pc'[q] = pc[q]
    BY <1>0, <2>1, RunsAlone DEF CallPc
  <2>3. /\ target[c] \in Orders /\ status[target[c]] = "PENDING_PAYMENT"
        /\ \A s \in seatsOf[target[c]] : Payable(s, target[c])
    BY <1>0, <2>1 DEF CallKnows, TypeOK
  <2>4. \A s \in Seats : lock[s] # target[c]
    BY <2>1 DEF AllReleased, IInv, ReleaseCovers
  <2>5. LockedUnsold'
    BY <1>0, <2>1, <2>3, <2>4 DEF LockedUnsold, Payable
  <2>6. CallKnows(c)'
    BY <2>2 DEF CallKnows
  <2>7. QED  BY <1>0, <2>2, <2>5, <2>6, OnlyRunning
<1>9. ASSUME NEW c \in Calls, PublishPaid(c) \/ Close(c) \/ PublishCancelled(c) \/ Swept(c)
      PROVE  MemInv'
  <2>. PICK next \in {"cancelled", "sweeping", "idle"} : Run(c, next)
    BY <1>9 DEF PublishPaid, Close, PublishCancelled, Swept
  <2>1. UNCHANGED <<seatsOf, sold, lock, zk, target>>
    BY <1>9 DEF PublishPaid, Close, PublishCancelled, Swept
  <2>2. /\ Alone' /\ pc'[c] = next
        /\ \A q \in Procs \ {c} : pc[q] \in Resting /\ pc'[q] = pc[q]
    BY <1>0, <2>1, RunsAlone DEF CallPc
  <2>3. LockedUnsold'
    BY <1>0, <2>1 DEF LockedUnsold
  <2>4. CallKnows(c)'
    BY <2>2 DEF CallKnows
  <2>5. QED  BY <1>0, <2>2, <2>3, <2>4, OnlyRunning
<1>10. ASSUME NEW p \in Procs, Throw(p) PROVE FALSE
  BY <1>10 DEF Throw
<1>11. ASSUME UNCHANGED <<status, seatsOf, sold, zk, pc, target, todo, thread>>,
              \A s \in Seats : lock'[s] \in {lock[s], Nobody}
       PROVE  MemInv'
  <2>1. Alone' /\ LockedUnsold'
    BY <1>0, <1>11 DEF Alone, LockedUnsold
  <2>2. \A o \in Orders : AskedUnsold(o)'
    BY <1>0, <1>11 DEF AskedUnsold
  <2>3. \A c \in Calls : CallKnows(c)'
    <3>1. \A c \in Calls : seatsOf[target[c]] \subseteq Seats
      BY DEF TypeOK
    <3>2. QED  BY <1>0, <1>11, <3>1 DEF CallKnows, Payable
  <2>4. QED  BY <2>1, <2>2, <2>3 DEF MemInv
<1>12. ASSUME NEW s \in Seats, LockExpires(s) PROVE MemInv'
  <2>1. \A t \in Seats : lock'[t] \in {lock[t], Nobody}
    BY <1>12 DEF LockExpires, SetLock, TypeOK
  <2>2. QED  BY <1>11, <1>12, <2>1 DEF LockExpires
<1>13. CASE (\E o \in Orders : OrderExpires(o)) \/ RedisDrops
  BY <1>11, <1>13 DEF OrderExpires, RedisDrops
<1>14. CASE SessionExpires
  BY <1>0, <1>14 DEF SessionExpires, Alone
<1>15. CASE Rebooted
  <2>1. /\ zk' = "absent" /\ \A p \in Procs : pc'[p] \in Resting
        /\ \A s \in Seats : lock'[s] = Nobody
    BY <1>15 DEF Rebooted, Resting
  <2>2. Alone' /\ LockedUnsold'
    BY <1>0, <2>1 DEF Alone, Resting, LockedUnsold
  <2>3. (\A c \in Calls : CallKnows(c)') /\ (\A o \in Orders : AskedUnsold(o)')
    BY <1>0, <2>1 DEF Resting, CallKnows, AskedUnsold
  <2>4. QED  BY <2>2, <2>3 DEF MemInv
<1>16. CASE UNCHANGED vars
  BY <1>11, <1>16 DEF vars
<1>17. ASSUME NEW p \in Procs, Step(p) PROVE MemInv'
  <2>1. ASSUME p \in Orders, CreateStep(p) PROVE MemInv'
    <3>1. ASSUME NEW s \in Seats, CreateZnode(p, s) \/ CreateZnodeFails(p, s) \/ LockWithZk(p, s)
          PROVE  FALSE
      BY <1>5, <2>1, <3>1
    <3>2. EnsurePath(p) => FALSE
      BY <1>0, <2>1 DEF EnsurePath, Alone
    <3>3. ASSUME NEW s \in Seats, LockWithoutZk(p, s) PROVE MemInv'
      BY <1>4, <2>1, <3>3
    <3>4. Turned(p) \/ FindSeats(p) \/ Store(p) \/ PublishCreated(p) \/ RolledBack(p) => MemInv'
      BY <1>3, <2>1
    <3>5. QED  BY <2>1, <3>1, <3>2, <3>3, <3>4 DEF CreateStep
  <2>2. ASSUME p \in Calls, CallStep(p) PROVE MemInv'
    BY <1>7, <1>8, <1>9, <2>2 DEF CallStep
  <2>3. CASE ReleaseStep(p)
    BY <1>6, <2>3 DEF ReleaseStep
  <2>4. QED  BY <1>10, <1>17, <2>1, <2>2, <2>3 DEF Step
<1>18. QED
  BY <1>1, <1>2, <1>12, <1>13, <1>14, <1>15, <1>16, <1>17 DEF Next, Restart, DieInSettle

LEMMA MemInvariant ==
  ASSUME ~ Redis, ~ ZooKeeper
  PROVE  Spec => [](TypeOK /\ IInv /\ MemInv)
<1>1. Init => MemInv
  <2> SUFFICES ASSUME Init PROVE MemInv
    OBVIOUS
  <2>1. /\ zk = "absent" /\ \A p \in Procs : pc[p] = "idle"
        /\ \A s \in Seats : lock[s] = Nobody
    BY DEF Init
  <2>2. Alone /\ LockedUnsold
    BY <2>1 DEF Alone, Resting, LockedUnsold
  <2>3. (\A c \in Calls : CallKnows(c)) /\ (\A o \in Orders : AskedUnsold(o))
    BY <2>1 DEF Procs, CallKnows, AskedUnsold
  <2>4. QED  BY <2>2, <2>3 DEF MemInv
<1>2. QED  BY <1>1, TypeCorrect, Invariant, MemNext, PTL DEF Spec

-----------------------------------------------------------------------------
(* Every step of a handler is a step of TicketSale, or leaves the sale     *)
(* alone.                                                                  *)

\* The seats of an order are part of the sale once the order has a row.
LEMMA SaleStutters ==
  ASSUME UNCHANGED <<status, sold>>,
         \A o \in Orders : status[o] # "NONE" => seatsOf'[o] = seatsOf[o]
  PROVE  UNCHANGED Sale!saleVars
BY DEF Placed, Sale!saleVars

LEMMA SaleStep ==
  ASSUME ~ Redis
  PROVE  TypeOK /\ IInv /\ MemInv /\ [Next]_vars => [Sale!SaleNext]_Sale!saleVars
<1> SUFFICES ASSUME TypeOK, IInv, MemInv, [Next]_vars
             PROVE  Sale!SaleNext \/ UNCHANGED Sale!saleVars
  OBVIOUS
<1> USE DEF dbVars
<1>1. ASSUME NEW o \in Orders, NEW S \in SUBSET Seats, Submit(o, S)
      PROVE  UNCHANGED Sale!saleVars
  <2>1. status[o] = "NONE"
    BY <1>1 DEF Submit, IInv, StoredIsCreated
  <2>2. QED  BY <1>1, <2>1, SaleStutters DEF Submit, TypeOK
<1>2. ASSUME NEW o \in Orders, Store(o)
      PROVE  Sale!SaleNext
  <2>. SUFFICES ASSUME NEW S \in SUBSET Seats, S = seatsOf[o] PROVE Sale!SaleNext
    BY DEF TypeOK
  <2>1. status[o] = "NONE" /\ S \cap sold = {}
    BY <1>2 DEF Store, IInv, StoredIsCreated, MemInv, AskedUnsold
  <2>2. status' = [status EXCEPT ![o] = "PENDING_PAYMENT"] /\ UNCHANGED <<seatsOf, sold>>
    BY <1>2 DEF Store, SetStatus
  <2>3. Sale!Place(o, S)
    BY <2>1, <2>2 DEF Placed, Sale!Place, TypeOK
  <2>4. QED  BY <2>1, <2>3 DEF Sale!SaleNext
<1>3. ASSUME NEW c \in Calls, Settle(c)
      PROVE  Sale!SaleNext
  <2>1. /\ target[c] \in Orders /\ status[target[c]] = "PENDING_PAYMENT"
        /\ seatsOf[target[c]] \cap sold = {}
    BY <1>3 DEF Settle, MemInv, CallKnows, Payable, TypeOK
  <2>2. /\ status' = [status EXCEPT ![target[c]] = "PAID"]
        /\ sold' = sold \cup seatsOf[target[c]] /\ UNCHANGED seatsOf
    BY <1>3 DEF Settle, SetStatus
  <2>3. Sale!Pay(target[c])
    BY <2>1, <2>2 DEF Placed, Sale!Pay, TypeOK
  <2>4. QED  BY <2>1, <2>3 DEF Sale!SaleNext
<1>4. ASSUME NEW c \in Calls, Close(c)
      PROVE  Sale!SaleNext
  <2>1. target[c] \in Orders /\ status[target[c]] = "PENDING_PAYMENT"
    BY <1>4 DEF Close, MemInv, CallKnows, TypeOK
  <2>2. status' = [status EXCEPT ![target[c]] = "CANCELLED"] /\ UNCHANGED <<seatsOf, sold>>
    BY <1>4 DEF Close, SetStatus
  <2>3. Sale!Cancel(target[c])
    BY <2>1, <2>2 DEF Placed, Sale!Cancel, TypeOK
  <2>4. QED  BY <2>1, <2>3 DEF Sale!SaleNext
<1>5. ASSUME NEW c \in Calls, DieInSettle(c)
      PROVE  Sale!SaleNext
  <2>1. target[c] \in Orders /\ status[target[c]] = "PENDING_PAYMENT"
    BY <1>5 DEF DieInSettle, MemInv, CallKnows, TypeOK
  <2>2. sold' = sold \cup seatsOf[target[c]] /\ UNCHANGED <<status, seatsOf>>
    BY <1>5 DEF DieInSettle, Rebooted
  <2>3. Sale!Withdraw(target[c])
    BY <2>1, <2>2 DEF Placed, Sale!Withdraw, TypeOK
  <2>4. QED  BY <2>1, <2>3 DEF Sale!SaleNext
<1>6. ASSUME UNCHANGED <<status, seatsOf, sold>>
      PROVE  UNCHANGED Sale!saleVars
  BY <1>6, SaleStutters
<1>7. ASSUME NEW o \in Orders, CreateStep(o)
      PROVE  Store(o) \/ UNCHANGED <<status, seatsOf, sold>>
  BY <1>7 DEF CreateStep, Turned, FindSeats, LockWithoutZk, LockWithZk, CreateZnode,
              CreateZnodeFails, EnsurePath, PublishCreated, RolledBack
<1>8. ASSUME NEW c \in Calls, CallStep(c)
      PROVE  Settle(c) \/ Close(c) \/ UNCHANGED <<status, seatsOf, sold>>
  BY <1>8 DEF CallStep, CheckOwner, PublishPaid, PublishCancelled, Swept
<1>9. ASSUME NEW p \in Procs, ReleaseStep(p) \/ Throw(p)
      PROVE  UNCHANGED <<status, seatsOf, sold>>
  BY <1>9 DEF ReleaseStep, GetOwner, DeleteLock, Throw
<1>10. ASSUME NEW c \in Calls, NEW o \in Orders, StartPay(c, o) \/ StartCancel(c, o)
       PROVE  UNCHANGED <<status, seatsOf, sold>>
  BY <1>10 DEF StartPay, StartCancel
<1>11. ASSUME \/ \E s \in Seats : LockExpires(s)
              \/ \E o \in Orders : OrderExpires(o)
              \/ RedisDrops \/ SessionExpires \/ Restart \/ UNCHANGED vars
       PROVE  UNCHANGED <<status, seatsOf, sold>>
  BY <1>11 DEF LockExpires, OrderExpires, RedisDrops, SessionExpires, Restart, Rebooted, vars
<1>12. ASSUME NEW p \in Procs, Step(p)
       PROVE  Sale!SaleNext \/ UNCHANGED Sale!saleVars
  BY <1>2, <1>3, <1>4, <1>6, <1>7, <1>8, <1>9, <1>12 DEF Step
<1>13. QED
  BY <1>1, <1>5, <1>6, <1>10, <1>11, <1>12 DEF Next

\* With the locks in memory the handlers implement TicketSale, for any number of
\* orders, calls and seats and wherever the process dies.
THEOREM Implementation ==
  ASSUME ~ Redis, ~ ZooKeeper
  PROVE  Spec => ImplementsSale
<1>1. Init => Sale!SaleInit
  BY DEF Init, Placed, Sale!SaleInit
<1>2. QED
  BY <1>1, SaleStep, MemInvariant, PTL DEF Spec, ImplementsSale, Sale!SaleSpec

\* An order that is paid was paid before, or is by this step of the sale.
LEMMA BecomesPaid ==
  ASSUME TypeOK, [Sale!SaleNext]_Sale!saleVars, NEW o \in Orders, status'[o] = "PAID"
  PROVE  (status[o] = "PAID" /\ seatsOf'[o] = seatsOf[o]) \/ Sale!Pay(o)
<1>1. ASSUME NEW q \in Orders, NEW S \in SUBSET Seats, Sale!Place(q, S)
      PROVE  status[o] = "PAID" /\ seatsOf'[o] = seatsOf[o]
  BY <1>1 DEF Placed, Sale!Place, TypeOK
<1>2. ASSUME NEW q \in Orders, q # o, Sale!Pay(q)
      PROVE  status[o] = "PAID" /\ seatsOf'[o] = seatsOf[o]
  BY <1>2 DEF Placed, Sale!Pay, TypeOK
<1>3. ASSUME NEW q \in Orders, Sale!Cancel(q) \/ Sale!Withdraw(q)
      PROVE  status[o] = "PAID" /\ seatsOf'[o] = seatsOf[o]
  BY <1>3 DEF Placed, Sale!Cancel, Sale!Withdraw, TypeOK
<1>4. UNCHANGED Sale!saleVars => status[o] = "PAID" /\ seatsOf'[o] = seatsOf[o]
  BY DEF Placed, Sale!saleVars
<1>5. QED  BY <1>1, <1>2, <1>3, <1>4 DEF Sale!SaleNext

LEMMA PaySeats ==
  ASSUME TypeOK, NEW q \in Orders, Sale!Pay(q)
  PROVE  /\ status[q] = "PENDING_PAYMENT" /\ status' = [status EXCEPT ![q] = "PAID"]
         /\ seatsOf[q] \cap sold = {}
         /\ \A o \in Orders : status[o] # "NONE" => seatsOf'[o] = seatsOf[o]
BY DEF Placed, Sale!Pay, TypeOK

\* And no seat is sold twice, without any help from ZooKeeper.
THEOREM NoSeatSoldTwiceInMemory ==
  ASSUME ~ Redis, ~ ZooKeeper
  PROVE  Spec => []NoDoubleSale
<1>1. Init => NoDoubleSale
  BY DEF Init, NoDoubleSale
<1>2. TypeOK /\ IInv /\ MemInv /\ NoDoubleSale /\ [Next]_vars => NoDoubleSale'
  <2> SUFFICES ASSUME TypeOK, IInv, MemInv, NoDoubleSale, [Next]_vars, NEW o \in Orders,
                      NEW p \in Orders, o # p, status'[o] = "PAID", status'[p] = "PAID"
               PROVE  seatsOf'[o] \cap seatsOf'[p] = {}
    BY DEF NoDoubleSale
  <2>1. \A q \in Orders : status'[q] = "PAID" =>
          \/ status[q] = "PAID" /\ seatsOf'[q] = seatsOf[q]
          \/ Sale!Pay(q)
    BY SaleStep, BecomesPaid
  <2>2. ASSUME NEW q \in Orders, NEW r \in Orders, q # r, status[r] = "PAID", Sale!Pay(q)
        PROVE  seatsOf'[q] \cap seatsOf'[r] = {}
    <3>1. seatsOf[r] \subseteq sold
      BY <2>2 DEF IInv, PaidSeatsSold
    <3>2. seatsOf[q] \cap sold = {} /\ seatsOf'[q] = seatsOf[q] /\ seatsOf'[r] = seatsOf[r]
      BY <2>2, PaySeats
    <3>3. QED  BY <3>1, <3>2
  <2>3. ~ (Sale!Pay(o) /\ Sale!Pay(p))
    <3>1. Sale!Pay(o) => status[o] = "PENDING_PAYMENT" /\ status' = [status EXCEPT ![o] = "PAID"]
      BY PaySeats
    <3>2. Sale!Pay(p) => status[p] = "PENDING_PAYMENT" /\ status'[p] = "PAID"
      BY PaySeats DEF TypeOK
    <3>3. QED  BY <3>1, <3>2 DEF TypeOK
  <2>4. QED  BY <2>1, <2>2, <2>3 DEF NoDoubleSale
<1>3. QED  BY <1>1, <1>2, MemInvariant, PTL DEF Spec
=============================================================================
