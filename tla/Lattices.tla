------------------------------ MODULE Lattices ------------------------------
(***************************************************************************)
(* The join semilattices of src/lattices.  A lattice object is modelled by *)
(* the value its get() returns and its join() by a binary operator.        *)
(* Template parameters (the lattice of a component, a timestamp's <) are   *)
(* operator arguments.                                                     *)
(***************************************************************************)
EXTENDS Integers, Sequences

(* max_lattice.h and min_lattice.h: std::max and std::min return their first *)
(* argument when the two are equivalent.                                     *)
MaxJoin(x, y) == IF x < y THEN y ELSE x
MaxLess(x, y) == x < y
MaxLeq(x, y) == x <= y

MinJoin(x, y) == IF y < x THEN y ELSE x
(* Mutant: the comparison copied from MaxLattice. *)
MinLeqNotReversed(x, y) == x <= y
(* operator<= of MinLattice is the reverse of the order of T. *)
MinLeq(x, y) == x >= y

(* bool_and_lattice.h and bool_or_lattice.h: the comparisons go through      *)
(* convert(), a map of the booleans into the integers.                       *)
BoolAndJoin(a, b) == a /\ b
BoolAndConvert(a) == IF a THEN 0 ELSE 1
BoolAndLeq(a, b) == BoolAndConvert(a) <= BoolAndConvert(b)

BoolOrJoin(a, b) == a \/ b
BoolOrConvert(a) == IF a THEN 1 ELSE 0
BoolOrLeq(a, b) == BoolOrConvert(a) <= BoolOrConvert(b)

(* set_union_lattice.h, set_intersect_lattice.h *)
SetUnionJoin(s, t) == s \cup t
SetInsert(s, x) == s \cup {x}
SetIntersectJoin(s, t) == {x \in s : x \in t}

(* pair_lattice.h: component by component. *)
PairJoin(JoinL(_, _), JoinR(_, _), p, q) == <<JoinL(p[1], q[1]), JoinR(p[2], q[2])>>

(* array_lattice.h: index by index, both arrays have the same N. *)
ArrayJoin(Join(_, _), a, b) == [i \in DOMAIN a |-> Join(a[i], b[i])]

(* vector_lattice.h: index by index on the common prefix; when l is longer, *)
(* the rest of l is appended.                                               *)
VectorJoin(Join(_, _), a, b) ==
  LET common == IF Len(b) < Len(a) THEN Len(b) ELSE Len(a)
      all == IF Len(a) < Len(b) THEN Len(b) ELSE Len(a)
  IN [i \in 1..all |-> IF i <= common THEN Join(a[i], b[i])
                       ELSE IF Len(a) < Len(b) THEN b[i] ELSE a[i]]

(* timestamp_lattice.h: the dominating timestamp takes its value along;     *)
(* equal or unrelated timestamps merge timestamp and value.                 *)
TimestampJoin(Less(_, _), JoinT(_, _), JoinV(_, _), p, q) ==
  IF Less(p.timestamp, q.timestamp) THEN q
  ELSE IF Less(q.timestamp, p.timestamp) THEN p
  ELSE [timestamp |-> JoinT(p.timestamp, q.timestamp),
        value |-> JoinV(p.value, q.value)]

(* map_lattice.h: a partial function; keys of either side, joined where      *)
(* both have them.                                                           *)
MapJoin(Join(_, _), m, l) ==
  [k \in DOMAIN m \cup DOMAIN l |->
     IF k \notin DOMAIN m THEN l[k]
     ELSE IF k \in DOMAIN l THEN Join(m[k], l[k])
     ELSE m[k]]

MapPut(Join(_, _), m, key, val) ==
  [k \in DOMAIN m \cup {key} |->
     IF k # key THEN m[k]
     ELSE IF key \in DOMAIN m THEN Join(m[key], val)
     ELSE val]

(* lattice.h: the comparison every lattice without one of its own inherits:  *)
(* join r into a copy of l and compare with r.                               *)
GenericLeq(Join(_, _), l, r) == Join(l, r) = r
=============================================================================
