----------------------------- MODULE MCKVSystem -----------------------------
(* Model checking of KVSystem: clients and keys are interchangeable. *)
EXTENDS KVSystem, TLC

ClientSymmetry == Permutations(Clients) \cup Permutations(Keys)
=============================================================================
