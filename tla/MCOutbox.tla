------------------------------ MODULE MCOutbox ------------------------------
(* Two events, a server, a clean-up script and a retry script.             *)
EXTENDS Outbox, TLC

Symmetric == Permutations(Events) \cup Permutations(Runs)
=============================================================================
