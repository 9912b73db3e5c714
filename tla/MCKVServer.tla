----------------------------- MODULE MCKVServer -----------------------------
(* Model checking of KVServer: the server treats all keys alike. *)
EXTENDS KVServer, TLC

KeySymmetry == Permutations(Keys)
=============================================================================
