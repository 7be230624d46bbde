---------------------------- MODULE MCDataStore ----------------------------
(* A small instance of the data store for TLC *)
EXTENDS DataStore

Permuted == Permutations(Users) \cup Permutations(Passwords) \cup Permutations(Bodies)
=============================================================================
