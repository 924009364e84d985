----------------------------- MODULE TicketSale -----------------------------
(***************************************************************************)
(* What the booking system promises about one show: an order is placed on  *)
(* seats that are still on sale, is closed once (paid or cancelled), and   *)
(* paying takes its seats off sale for good.  Locks, requests and events   *)
(* do not appear here; Standalone and Booking are shown to implement it.   *)
(***************************************************************************)

CONSTANTS Orders, Seats

VARIABLES status,    \* order -> where it is in its life
          seatsOf,   \* order -> the seats it asks for
          sold       \* the seats of the show that are off sale

saleVars == <<status, seatsOf, sold>>

Status == {"NONE", "PENDING_PAYMENT", "PAID", "CANCELLED"}

SaleInit ==
  /\ status = [o \in Orders |-> "NONE"]
  /\ seatsOf = [o \in Orders |-> {}]
  /\ sold \in SUBSET Seats

Place(o, S) ==
  /\ status[o] = "NONE"
  /\ S \cap sold = {}
  /\ status' = [status EXCEPT ![o] = "PENDING_PAYMENT"]
  /\ seatsOf' = [seatsOf EXCEPT ![o] = S]
  /\ UNCHANGED sold

Pay(o) ==
  /\ status[o] = "PENDING_PAYMENT"
  /\ seatsOf[o] \cap sold = {}
  /\ status' = [status EXCEPT ![o] = "PAID"]
  /\ sold' = sold \cup seatsOf[o]
  /\ UNCHANGED seatsOf

Cancel(o) ==
  /\ status[o] = "PENDING_PAYMENT"
  /\ status' = [status EXCEPT ![o] = "CANCELLED"]
  /\ UNCHANGED <<seatsOf, sold>>

\* The seats and the order are two writes: a process that dies between them
\* leaves the seats sold to nobody.
Withdraw(o) ==
  /\ status[o] = "PENDING_PAYMENT"
  /\ sold' = sold \cup seatsOf[o]
  /\ UNCHANGED <<status, seatsOf>>

SaleNext == \E o \in Orders :
  \/ \E S \in SUBSET Seats : Place(o, S)
  \/ Pay(o)
  \/ Cancel(o)
  \/ Withdraw(o)

SaleSpec == SaleInit /\ [][SaleNext]_saleVars
=============================================================================
