-------------------------- MODULE MCLatticeObjects --------------------------
(* Model checking of LatticeObjects: the objects are interchangeable. *)
EXTENDS LatticeObjects, TLC

ObjectSymmetry == Permutations(Objects)
=============================================================================
