-------------------------- MODULE BookingPageProofs --------------------------
(***************************************************************************)
(* Theorems about BookingPage for any number of orders, of calls of the    *)
(* orders page and of lost messages.                                       *)
(***************************************************************************)
EXTENDS BookingPage, TLAPS

-----------------------------------------------------------------------------
(* The types.                                                              *)

ServerTyped == status \in [Orders -> Status] /\ overdue \subseteq Orders

BookingTyped ==
  /\ current \in [id : Orders \cup {NoOrder}, status : Status]
  /\ timers \subseteq Orders
  /\ call \in [kind : {"none", "create", "pay"}, id : Orders \cup {NoOrder},
               at : {"idle", "out", "done", "refused", "seats"}]
  /\ auto \in [Orders -> {"idle", "out", "done"}]

Call == [at : {"idle", "load", "rows", "pay", "cancel"}, id : Orders \cup {NoOrder},
         rows : [Orders -> Status]]

ListTyped == list \in [Orders -> Status] /\ jobs \in [Jobs -> Call]

LossesTyped == losses \in 0..MaxLosses

LEMMA RowsTyped == NoRows \in [Orders -> Status] /\ Idle \in Call
BY DEF NoRows, Idle, Call, Status

LEMMA LosesTyped == ASSUME LossesTyped, Loses PROVE LossesTyped'
BY PageAssumption DEF LossesTyped, Loses

\* Paying and cancelling give an order a status it may have.
LEMMA StatusTyped ==
  ASSUME status \in [Orders -> Status], NEW o, NEW held,
         Pay(o, held) \/ Cancel(o)
  PROVE  status' \in [Orders -> Status]
BY DEF Pay, Cancel, SetStatus, Status

LEMMA ServerTypedNext ==
  ASSUME TypeOK, [Next]_vars PROVE ServerTyped'
<1>1. ServerTyped
  BY DEF TypeOK, ServerTyped
<1>2. CASE Created
  <2>1. status' \in [Orders -> Status]
    BY <1>1, <1>2 DEF Created, SetStatus, ServerTyped, Status
  <2>2. QED  BY <1>1, <1>2, <2>1 DEF Created, ServerTyped
<1>3. CASE Paid
  BY <1>1, <1>3, StatusTyped DEF Paid, ServerTyped
<1>4. ASSUME NEW o \in Orders, AutoCancelled(o) PROVE ServerTyped'
  BY <1>1, <1>4, StatusTyped DEF AutoCancelled, ServerTyped
<1>5. ASSUME NEW j \in Jobs, HandledPay(j) \/ HandledCancel(j) PROVE ServerTyped'
  BY <1>1, <1>5, StatusTyped DEF HandledPay, HandledCancel, ServerTyped
<1>6. ASSUME NEW o \in Orders, Overdue(o) PROVE ServerTyped'
  BY <1>1, <1>6 DEF Overdue, ServerTyped
<1>7. CASE UNCHANGED serverVars
  BY <1>1, <1>7 DEF serverVars, ServerTyped
<1>8. CASE CreateOrder \/ ShowCreated \/ PayOrder \/ ShowPaid \/ ShowSeats \/ SelectShow
           \/ CallLost \/ UNCHANGED vars
  BY <1>7, <1>8 DEF CreateOrder, ShowCreated, PayOrder, ShowPaid, ShowSeats, SelectShow,
                    CallLost, vars
<1>9. ASSUME NEW o \in Orders, CountdownEnds(o) \/ ShowAutoCancelled(o) \/ AutoLost(o)
      PROVE  ServerTyped'
  BY <1>7, <1>9 DEF CountdownEnds, ShowAutoCancelled, AutoLost
<1>10. ASSUME NEW j \in Jobs, LoadOrders(j) \/ MyOrders(j) \/ ShowOrders(j) \/ JobLost(j)
       PROVE  ServerTyped'
  BY <1>7, <1>10 DEF LoadOrders, MyOrders, ShowOrders, JobLost
<1>11. ASSUME NEW j \in Jobs, NEW o \in Orders, PayListed(j, o) \/ CancelListed(j, o)
       PROVE  ServerTyped'
  BY <1>7, <1>11 DEF PayListed, CancelListed
<1>12. QED
  BY <1>2, <1>3, <1>4, <1>5, <1>6, <1>8, <1>9, <1>10, <1>11 DEF Next, BookingStep, JobStep

LEMMA ListTypedNext ==
  ASSUME TypeOK, [Next]_vars PROVE ListTyped'
<1>1. ListTyped /\ status \in [Orders -> Status]
  BY DEF TypeOK, ListTyped, Call
<1>2. ASSUME NEW j \in Jobs, NEW stage \in {"load", "rows", "pay", "cancel"},
             NEW id \in Orders \cup {NoOrder}, NEW rows \in [Orders -> Status],
             Put(j, stage, id, rows), UNCHANGED list
      PROVE  ListTyped'
  BY <1>1, <1>2 DEF Put, ListTyped, Call
<1>3. NoOrder \in Orders \cup {NoOrder} /\ Orders \subseteq Orders \cup {NoOrder}
  OBVIOUS
<1>4. ASSUME NEW j \in Jobs, LoadOrders(j) \/ HandledPay(j) \/ HandledCancel(j)
      PROVE  ListTyped'
  <2>1. CASE UNCHANGED list /\ jobs' = [jobs EXCEPT ![j] = Idle]
    BY <1>1, <2>1, RowsTyped DEF ListTyped
  <2>2. CASE UNCHANGED list /\ Put(j, "load", NoOrder, NoRows)
    BY <1>2, <1>3, <2>2, RowsTyped
  <2>3. QED  BY <1>4, <2>1, <2>2 DEF LoadOrders, HandledPay, HandledCancel
<1>5. ASSUME NEW j \in Jobs, MyOrders(j) PROVE ListTyped'
  BY <1>1, <1>2, <1>3, <1>5 DEF MyOrders
<1>6. ASSUME NEW j \in Jobs, ShowOrders(j) PROVE ListTyped'
  BY <1>1, <1>6, RowsTyped DEF ShowOrders, Listed, ListTyped, Call
<1>7. ASSUME NEW j \in Jobs, NEW o \in Orders, PayListed(j, o) \/ CancelListed(j, o)
      PROVE  ListTyped'
  BY <1>2, <1>3, <1>7, RowsTyped DEF PayListed, CancelListed
<1>8. ASSUME NEW j \in Jobs, JobLost(j) PROVE ListTyped'
  BY <1>1, <1>8, RowsTyped DEF JobLost, ListTyped
<1>9. CASE UNCHANGED listVars
  BY <1>1, <1>9 DEF listVars, ListTyped
<1>10. CASE CreateOrder \/ Created \/ ShowCreated \/ PayOrder \/ Paid \/ ShowPaid \/ ShowSeats
            \/ SelectShow \/ CallLost \/ UNCHANGED vars
  BY <1>9, <1>10 DEF CreateOrder, Created, ShowCreated, PayOrder, Paid, ShowPaid, ShowSeats,
                     SelectShow, CallLost, vars
<1>11. ASSUME NEW o \in Orders, CountdownEnds(o) \/ AutoCancelled(o) \/ ShowAutoCancelled(o)
                                \/ AutoLost(o) \/ Overdue(o)
       PROVE  ListTyped'
  BY <1>9, <1>11 DEF CountdownEnds, AutoCancelled, ShowAutoCancelled, AutoLost, Overdue
<1>12. QED
  BY <1>4, <1>5, <1>6, <1>7, <1>8, <1>10, <1>11 DEF Next, BookingStep, JobStep

LEMMA LossesTypedNext ==
  ASSUME TypeOK, [Next]_vars PROVE LossesTyped'
<1>1. LossesTyped
  BY DEF TypeOK, LossesTyped
<1>2. CASE Loses
  BY <1>1, <1>2, LosesTyped
<1>3. CASE UNCHANGED losses
  BY <1>1, <1>3 DEF LossesTyped
<1>4. Loses \/ UNCHANGED losses
  BY DEF Next, BookingStep, JobStep, CreateOrder, Created, ShowCreated, PayOrder, Paid, ShowPaid,
         ShowSeats, SelectShow, CountdownEnds, AutoCancelled, ShowAutoCancelled, Overdue,
         LoadOrders, MyOrders, ShowOrders, HandledPay, HandledCancel, PayListed, CancelListed,
         CallLost, AutoLost, JobLost, vars
<1>5. QED  BY <1>2, <1>3, <1>4

-----------------------------------------------------------------------------
(* The order on the page is the one that counts down.                      *)

\* An order on the page that is still to be paid is a real one, and no countdown
\* but its own is running: a countdown that goes on after its order was taken off
\* the page is replaced before another order is shown.
CountsDown ==
  current.status = "PENDING_PAYMENT" => current.id \in Orders /\ timers \subseteq {current.id}

\* The answer to createOrder names an order.
CreatedNamed == call.kind = "create" /\ call.at = "done" => call.id \in Orders

PageInv == TypeOK /\ CountsDown /\ CreatedNamed

LEMMA BookingStepKeeps ==
  ASSUME PageInv, BookingStep PROVE BookingTyped' /\ CountsDown' /\ CreatedNamed'
<1>1. /\ BookingTyped /\ CountsDown /\ CreatedNamed
      /\ NoCall \in [kind : {"none", "create", "pay"}, id : Orders \cup {NoOrder},
                     at : {"idle", "out", "done", "refused", "seats"}]
      /\ NoCurrent \in [id : Orders \cup {NoOrder}, status : Status]
      /\ NoCurrent.status # "PENDING_PAYMENT"
  BY DEF PageInv, TypeOK, BookingTyped, NoCall, NoCurrent, Status
<1>2. CASE CreateOrder
  BY <1>1, <1>2 DEF CreateOrder, Asks, BookingTyped, CountsDown, CreatedNamed
<1>3. CASE Created
  <2>1. /\ call' \in [kind : {"none", "create", "pay"}, id : Orders \cup {NoOrder},
                      at : {"idle", "out", "done", "refused", "seats"}]
        /\ call'.at = "done" => call'.id \in Orders
    BY <1>1, <1>3 DEF Created, Answered, BookingTyped
  <2>2. QED
    BY <1>1, <1>3, <2>1 DEF Created, BookingTyped, CountsDown, CreatedNamed
<1>4. CASE ShowCreated
  <2>1. call' \in [kind : {"none", "create", "pay"}, id : Orders \cup {NoOrder},
                   at : {"idle", "out", "done", "refused", "seats"}] /\ call'.at = "seats"
    BY <1>1, <1>4 DEF ShowCreated, BookingTyped
  <2>2. CASE call.at = "done"
    <3>1. call.id \in Orders
      BY <1>1, <1>4, <2>2 DEF ShowCreated, CreatedNamed
    <3>2. current' = [id |-> call.id, status |-> "PENDING_PAYMENT"] /\ timers' = {call.id}
      BY <1>4, <2>2 DEF ShowCreated, StartCountdown
    <3>3. auto' = auto
      BY <1>4 DEF ShowCreated
    <3>4. QED
      BY <1>1, <2>1, <3>1, <3>2, <3>3 DEF BookingTyped, CountsDown, CreatedNamed, Status
  <2>3. CASE call.at # "done"
    <3>1. current' = NoCurrent /\ timers' = timers /\ auto' = auto
      BY <1>4, <2>3 DEF ShowCreated
    <3>2. QED
      BY <1>1, <2>1, <3>1 DEF BookingTyped, CountsDown, CreatedNamed
  <2>4. QED  BY <2>2, <2>3
<1>5. CASE PayOrder
  BY <1>1, <1>5 DEF PayOrder, Asks, BookingTyped, CountsDown, CreatedNamed
<1>6. CASE Paid
  BY <1>1, <1>6 DEF Paid, Answered, BookingTyped, CountsDown, CreatedNamed
<1>7. CASE ShowPaid
  <2>1. call' \in [kind : {"none", "create", "pay"}, id : Orders \cup {NoOrder},
                   at : {"idle", "out", "done", "refused", "seats"}] /\ call'.at = "seats"
    BY <1>1, <1>7 DEF ShowPaid, BookingTyped
  <2>2. CASE call.at = "done"
    BY <1>1, <1>7, <2>1, <2>2 DEF ShowPaid, BookingTyped, CountsDown, CreatedNamed, Status
  <2>3. CASE call.at # "done"
    BY <1>1, <1>7, <2>1, <2>3 DEF ShowPaid, BookingTyped, CountsDown, CreatedNamed
  <2>4. QED  BY <2>2, <2>3
<1>8. CASE ShowSeats
  BY <1>1, <1>8 DEF ShowSeats, BookingTyped, CountsDown, CreatedNamed, NoCall
<1>9. CASE SelectShow
  BY <1>1, <1>9 DEF SelectShow, BookingTyped, CountsDown, CreatedNamed
<1>10. ASSUME NEW o \in Orders, CountdownEnds(o)
       PROVE  BookingTyped' /\ CountsDown' /\ CreatedNamed'
  <2>1. auto' \in [Orders -> {"idle", "out", "done"}]
    BY <1>1, <1>10 DEF CountdownEnds, BookingTyped
  <2>2. timers' \subseteq timers /\ UNCHANGED <<current, call>>
    BY <1>10 DEF CountdownEnds
  <2>3. QED
    BY <1>1, <2>1, <2>2 DEF BookingTyped, CountsDown, CreatedNamed
<1>11. ASSUME NEW o \in Orders, AutoCancelled(o) \/ ShowAutoCancelled(o)
       PROVE  BookingTyped' /\ CountsDown' /\ CreatedNamed'
  <2>1. auto' \in [Orders -> {"idle", "out", "done"}]
    BY <1>1, <1>11 DEF AutoCancelled, ShowAutoCancelled, BookingTyped
  <2>2. UNCHANGED <<timers, call>> /\ current' \in {current, NoCurrent}
    BY <1>11 DEF AutoCancelled, ShowAutoCancelled
  <2>3. QED
    BY <1>1, <2>1, <2>2 DEF BookingTyped, CountsDown, CreatedNamed
<1>12. QED
  BY <1>2, <1>3, <1>4, <1>5, <1>6, <1>7, <1>8, <1>9, <1>10, <1>11 DEF BookingStep

LEMMA OtherStepKeeps ==
  ASSUME PageInv, [Next]_vars, ~ BookingStep
  PROVE  BookingTyped' /\ CountsDown' /\ CreatedNamed'
<1>1. BookingTyped /\ CountsDown /\ CreatedNamed
  BY DEF PageInv, TypeOK, BookingTyped
<1>2. CASE UNCHANGED bookingVars
  BY <1>1, <1>2 DEF bookingVars, BookingTyped, CountsDown, CreatedNamed
<1>3. CASE CallLost
  BY <1>1, <1>3 DEF CallLost, NoCall, NoCurrent, BookingTyped, CountsDown, CreatedNamed, Status
<1>4. ASSUME NEW o \in Orders, AutoLost(o)
      PROVE  BookingTyped' /\ CountsDown' /\ CreatedNamed'
  <2>1. auto' \in [Orders -> {"idle", "out", "done"}] /\ UNCHANGED <<current, timers, call>>
    BY <1>1, <1>4 DEF AutoLost, BookingTyped
  <2>2. QED
    BY <1>1, <2>1 DEF BookingTyped, CountsDown, CreatedNamed
<1>5. ASSUME NEW j \in Jobs, LoadOrders(j) \/ JobStep(j) \/ JobLost(j)
      PROVE  UNCHANGED bookingVars
  BY <1>5 DEF LoadOrders, JobStep, MyOrders, ShowOrders, HandledPay, HandledCancel, JobLost
<1>6. ASSUME NEW o \in Orders, Overdue(o) PROVE UNCHANGED bookingVars
  BY <1>6 DEF Overdue
<1>7. ASSUME NEW j \in Jobs, NEW o \in Orders, PayListed(j, o) \/ CancelListed(j, o)
      PROVE  UNCHANGED bookingVars
  BY <1>7 DEF PayListed, CancelListed
<1>8. CASE UNCHANGED vars
  BY <1>2, <1>8 DEF vars
<1>9. QED
  BY <1>2, <1>3, <1>4, <1>5, <1>6, <1>7, <1>8 DEF Next

LEMMA PageInvInit == Init => PageInv
<1> SUFFICES ASSUME Init PROVE PageInv
  OBVIOUS
<1>1. current = NoCurrent /\ call = NoCall
  BY DEF Init
<1>2. CountsDown /\ CreatedNamed
  BY <1>1 DEF NoCurrent, NoCall, CountsDown, CreatedNamed
<1>3. BookingTyped
  BY DEF Init, BookingTyped, NoCurrent, NoCall, Status
<1>4. ServerTyped /\ ListTyped /\ LossesTyped
  BY RowsTyped, PageAssumption DEF Init, ServerTyped, ListTyped, LossesTyped
<1>5. QED
  BY <1>2, <1>3, <1>4 DEF PageInv, TypeOK, ServerTyped, BookingTyped, ListTyped, LossesTyped, Call

LEMMA PageInvNext == PageInv /\ [Next]_vars => PageInv'
<1> SUFFICES ASSUME PageInv, [Next]_vars PROVE PageInv'
  OBVIOUS
<1>1. BookingTyped' /\ CountsDown' /\ CreatedNamed'
  BY BookingStepKeeps, OtherStepKeeps
<1>2. ServerTyped' /\ ListTyped' /\ LossesTyped'
  BY ServerTypedNext, ListTypedNext, LossesTypedNext DEF PageInv
<1>3. QED
  BY <1>1, <1>2 DEF PageInv, TypeOK, ServerTyped, BookingTyped, ListTyped, LossesTyped, Call

\* On both pages every variable keeps its type, and an order that is to be paid
\* on the booking page is the only one whose countdown runs.
THEOREM PageInvariant == Spec => [](TypeOK /\ CountsDown)
<1>1. PageInv => TypeOK /\ CountsDown
  BY DEF PageInv
<1>2. QED
  BY <1>1, PageInvInit, PageInvNext, PTL DEF Spec

-----------------------------------------------------------------------------
(* Only an overdue order is cancelled by a countdown.                      *)

\* What AutoCancelsOverdue says of one step.
CancelsOverdue == \A o \in Orders : auto[o] = "idle" /\ auto'[o] = "out" => o \in overdue

LEMMA StepCancelsOverdue ==
  ASSUME PageInv, [Next]_vars PROVE CancelsOverdue
<1>1. /\ auto \in [Orders -> {"idle", "out", "done"}] /\ CountsDown
      /\ current \in [id : Orders \cup {NoOrder}, status : Status]
  BY DEF PageInv, TypeOK
<1>2. ASSUME NEW o \in Orders, CountdownEnds(o) PROVE CancelsOverdue
  <2>1. CASE current.status = "PENDING_PAYMENT"
    <3>1. o = current.id /\ o \in overdue
      BY <1>1, <1>2, <2>1 DEF CountdownEnds, CountsDown
    <3>2. auto' = [auto EXCEPT ![o] = "out"]
      BY <1>2, <2>1, <3>1 DEF CountdownEnds
    <3>3. QED  BY <1>1, <3>1, <3>2 DEF CancelsOverdue
  <2>2. CASE current.status # "PENDING_PAYMENT"
    BY <1>2, <2>2 DEF CountdownEnds, CancelsOverdue
  <2>3. QED  BY <2>1, <2>2
<1>3. ASSUME NEW o \in Orders, AutoCancelled(o) \/ ShowAutoCancelled(o) \/ AutoLost(o)
      PROVE  CancelsOverdue
  BY <1>1, <1>3 DEF AutoCancelled, ShowAutoCancelled, AutoLost, CancelsOverdue
<1>4. CASE UNCHANGED auto
  BY <1>4 DEF CancelsOverdue
<1>5. CASE CreateOrder \/ Created \/ ShowCreated \/ PayOrder \/ Paid \/ ShowPaid \/ ShowSeats
           \/ SelectShow \/ CallLost \/ UNCHANGED vars
  BY <1>4, <1>5 DEF CreateOrder, Created, ShowCreated, PayOrder, Paid, ShowPaid, ShowSeats,
                    SelectShow, CallLost, vars, bookingVars
<1>6. ASSUME NEW j \in Jobs, LoadOrders(j) \/ JobStep(j) \/ JobLost(j) PROVE CancelsOverdue
  BY <1>4, <1>6 DEF LoadOrders, JobStep, MyOrders, ShowOrders, HandledPay, HandledCancel, JobLost,
                    bookingVars
<1>7. ASSUME NEW o \in Orders, Overdue(o) PROVE CancelsOverdue
  BY <1>4, <1>7 DEF Overdue, bookingVars
<1>8. ASSUME NEW j \in Jobs, NEW o \in Orders, PayListed(j, o) \/ CancelListed(j, o)
      PROVE  CancelsOverdue
  BY <1>4, <1>8 DEF PayListed, CancelListed, bookingVars
<1>9. QED
  BY <1>2, <1>3, <1>5, <1>6, <1>7, <1>8 DEF Next, BookingStep

\* However many orders were created, paid or taken off the page since a countdown
\* began, its end cancels no order that could still be paid.
THEOREM OnlyOverdueCancelled == Spec => AutoCancelsOverdue
<1>1. PageInv /\ [Next]_vars => [CancelsOverdue]_vars
  BY StepCancelsOverdue
<1>2. AutoCancelsOverdue <=> [][CancelsOverdue]_vars
  BY DEF AutoCancelsOverdue, CancelsOverdue
<1>3. QED
  BY <1>1, <1>2, PageInvInit, PageInvNext, PTL DEF Spec
=============================================================================
