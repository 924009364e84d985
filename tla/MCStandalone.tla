---------------------------- MODULE MCStandalone ----------------------------
(* A few orders compete for a show of two seats.                           *)
EXTENDS Standalone, TLC

Symmetric == Permutations(Orders) \cup Permutations(Seats)
=============================================================================
