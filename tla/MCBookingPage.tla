--------------------------- MODULE MCBookingPage ----------------------------
(* Two orders, one after the other on the booking page, and two calls of   *)
(* the orders page.                                                        *)
EXTENDS BookingPage
=============================================================================
