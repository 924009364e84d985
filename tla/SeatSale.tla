------------------------------ MODULE SeatSale ------------------------------
(***************************************************************************)
(* What the seats of one show are promised while pay and cancel handlers   *)
(* overlap: the last handler of an order to finish decides its status, but *)
(* a seat that was bought keeps its buyer for good, and no order is placed *)
(* on it.  Booking is shown to implement it.                               *)
(***************************************************************************)

CONSTANTS Orders, Seats, Nobody

VARIABLES status,    \* order -> where it is in its life
          seatsOf,   \* order -> the seats it asks for
          sold,      \* the seats of the show that are off sale
          buyer      \* seat -> the order that paid for it, Nobody before

seatVars == <<status, seatsOf, sold, buyer>>

SeatInit ==
  /\ status = [o \in Orders |-> "NONE"]
  /\ seatsOf = [o \in Orders |-> {}]
  /\ sold \in SUBSET Seats
  /\ buyer = [s \in Seats |-> Nobody]

Place(o, S) ==
  /\ status[o] = "NONE"
  /\ S \cap sold = {}
  /\ status' = [status EXCEPT ![o] = "PENDING_PAYMENT"]
  /\ seatsOf' = [seatsOf EXCEPT ![o] = S]
  /\ UNCHANGED <<sold, buyer>>

\* The first payment of an order, or one more.
Pay(o) ==
  /\ status[o] # "NONE"
  /\ \A s \in seatsOf[o] : s \in sold => buyer[s] = o
  /\ status' = [status EXCEPT ![o] = "PAID"]
  /\ sold' = sold \cup seatsOf[o]
  /\ buyer' = [s \in Seats |-> IF s \in seatsOf[o] THEN o ELSE buyer[s]]
  /\ UNCHANGED seatsOf

Cancel(o) ==
  /\ status[o] # "NONE"
  /\ status' = [status EXCEPT ![o] = "CANCELLED"]
  /\ UNCHANGED <<seatsOf, sold, buyer>>

SeatNext == \E o \in Orders :
  \/ \E S \in SUBSET Seats : Place(o, S)
  \/ Pay(o)
  \/ Cancel(o)

SeatSpec == SeatInit /\ [][SeatNext]_seatVars
=============================================================================
