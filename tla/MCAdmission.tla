---------------------------- MODULE MCAdmission -----------------------------
(* Two users with a session each, and time for three windows.              *)
EXTENDS Admission, TLC

Symmetric == Permutations(Users) \cup Permutations(Tokens)
=============================================================================
