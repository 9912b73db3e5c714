--------------------------- MODULE LatticeObjects ---------------------------
(***************************************************************************)
(* Programs hold several objects of one lattice type and merge them into   *)
(* each other in any order and any number of times, which is what makes    *)
(* lattices useful for gossip.  This module runs such a program for each   *)
(* lattice type of src/lattices and remembers, in the history variable     *)
(* seen, which inputs have flowed into which object.                       *)
(***************************************************************************)
EXTENDS Lattices, FiniteSets

CONSTANTS
  Objects,    \* the lattice objects of the program
  Kinds,      \* the lattice types under test, a subset of AllKinds
  MaxInputs,  \* bound: inputs absorbed by one object through insert and put
  Numbers,    \* the values of a MaxLattice or MinLattice
  Timestamps, Strings,    \* and of the MaxLattices in the compound lattices
  SetElements, MapKeys,
  ArraySize, VectorSize   \* the size of an array; bound: the length of a vector

AllKinds == {"max", "min", "and", "or", "union", "intersect", "pair", "array",
             "vector", "timestamp", "map", "tombstones"}

ASSUME KindsAssumption == Kinds \subseteq AllKinds
ASSUME MaxInputsAssumption == MaxInputs \in Nat
ASSUME OrderedAssumption ==
  Numbers \subseteq Int /\ Timestamps \subseteq Int /\ Strings \subseteq Int
ASSUME SizeAssumption == ArraySize \in Nat /\ VectorSize \in Nat

VARIABLES
  kind,  \* the lattice type of the objects
  obj,   \* the value of each object
  seen   \* history: the inputs that have flowed into each object

vars == <<kind, obj, seen>>

-----------------------------------------------------------------------------
(* The template instances under test and the elements of each. *)

PartialFunctions(S, T) == UNION {[D -> T] : D \in SUBSET S}

TimestampedStrings == [timestamp : Timestamps, value : Strings]

Elements(k) ==
  CASE k \in {"max", "min"} -> Numbers
    [] k \in {"and", "or"} -> BOOLEAN
    [] k \in {"union", "intersect"} -> SUBSET SetElements
    [] k = "pair" -> BOOLEAN \X BOOLEAN
    [] k = "array" -> [1..ArraySize -> Strings]
    [] k = "vector" -> UNION {[1..n -> BOOLEAN] : n \in 0..VectorSize}
    [] k = "timestamp" -> TimestampedStrings
    [] k = "map" -> PartialFunctions(MapKeys, TimestampedStrings)
    [] k = "tombstones" -> PartialFunctions(SetElements, BOOLEAN)

BoolPairJoin(p, q) == PairJoin(BoolAndJoin, BoolOrJoin, p, q)
MaxArrayJoin(a, b) == ArrayJoin(MaxJoin, a, b)

BoolVectorJoin(a, b) == VectorJoin(BoolAndJoin, a, b)

(* Mutant: timestamp and value are merged whatever the timestamps. *)
TimestampedStringJoinMergesAll(p, q) ==
  [timestamp |-> MaxJoin(p.timestamp, q.timestamp), value |-> MaxJoin(p.value, q.value)]
(* Mutant: equal timestamps keep the object's own value. *)
TimestampedStringJoinKeepsOwn(p, q) ==
  IF MaxLess(p.timestamp, q.timestamp) THEN q ELSE p
TimestampedStringJoin(p, q) == TimestampJoin(MaxLess, MaxJoin, MaxJoin, p, q)

StringMapJoin(m, l) == MapJoin(TimestampedStringJoin, m, l)
StringMapPut(m, key, val) == MapPut(TimestampedStringJoin, m, key, val)

(* tombstoned_set_union_lattice.h: a map of elements to BoolOrLattices. *)
TombstonesJoin(m, l) == MapJoin(BoolOrJoin, m, l)
TombstonesPut(m, key, val) == MapPut(BoolOrJoin, m, key, val)

JoinOf(k, x, y) ==
  CASE k = "max" -> MaxJoin(x, y)
    [] k = "min" -> MinJoin(x, y)
    [] k = "and" -> BoolAndJoin(x, y)
    [] k = "or" -> BoolOrJoin(x, y)
    [] k = "union" -> SetUnionJoin(x, y)
    [] k = "intersect" -> SetIntersectJoin(x, y)
    [] k = "pair" -> BoolPairJoin(x, y)
    [] k = "array" -> MaxArrayJoin(x, y)
    [] k = "vector" -> BoolVectorJoin(x, y)
    [] k = "timestamp" -> TimestampedStringJoin(x, y)
    [] k = "map" -> StringMapJoin(x, y)
    [] k = "tombstones" -> TombstonesJoin(x, y)

(* The operator<= a program gets for the lattice type: its own where the    *)
(* class defines one, the generic one of lattice.h otherwise.               *)
LeqOf(k, x, y) ==
  CASE k = "max" -> MaxLeq(x, y)
    [] k = "min" -> MinLeq(x, y)
    [] k = "and" -> BoolAndLeq(x, y)
    [] k = "or" -> BoolOrLeq(x, y)
    [] OTHER -> LET Join(a, b) == JoinOf(k, a, b) IN GenericLeq(Join, x, y)

-----------------------------------------------------------------------------
Init ==
  /\ kind \in Kinds
  /\ obj \in [Objects -> Elements(kind)]
  /\ seen = [o \in Objects |-> {obj[o]}]

(* o.join(p) *)
Join(o, p) ==
  /\ obj' = [obj EXCEPT ![o] = JoinOf(kind, obj[o], obj[p])]
  /\ seen' = [seen EXCEPT ![o] = @ \cup seen[p]]
  /\ UNCHANGED kind

(* o.insert(x), which only SetUnionLattice has *)
Insert(o, x) ==
  /\ kind = "union"
  /\ Cardinality(seen[o]) < MaxInputs
  /\ obj' = [obj EXCEPT ![o] = SetInsert(obj[o], x)]
  /\ seen' = [seen EXCEPT ![o] = @ \cup {{x}}]
  /\ UNCHANGED kind

(* o.put(k, v), which only MapLattice (and so TombstonedSetUnionLattice) has *)
Put(o, k, v) ==
  /\ kind \in {"map", "tombstones"}
  /\ Cardinality(seen[o]) < MaxInputs
  /\ obj' = [obj EXCEPT ![o] =
               IF kind = "map" THEN StringMapPut(obj[o], k, v)
                               ELSE TombstonesPut(obj[o], k, v)]
  /\ seen' = [seen EXCEPT ![o] = @ \cup {[j \in {k} |-> v]}]
  /\ UNCHANGED kind

PutKeys == IF kind = "map" THEN MapKeys ELSE SetElements
PutValues == IF kind = "map" THEN TimestampedStrings ELSE BOOLEAN

Next ==
  \/ \E o, p \in Objects : Join(o, p)
  \/ \E o \in Objects, x \in SetElements : Insert(o, x)
  \/ \E o \in Objects, k \in PutKeys, v \in PutValues : Put(o, k, v)

Spec == Init /\ [][Next]_vars

-----------------------------------------------------------------------------
(* The order each header documents for its lattice, stated without join. *)
Order(k, x, y) ==
  LET LexLeq(p, q) == \/ p.timestamp < q.timestamp
                      \/ p.timestamp = q.timestamp /\ p.value <= q.value
  IN CASE k = "max" -> x <= y
       [] k = "min" -> x >= y
       [] k = "and" -> y => x
       [] k = "or" -> x => y
       [] k = "union" -> x \subseteq y
       [] k = "intersect" -> y \subseteq x
       [] k = "pair" -> (y[1] => x[1]) /\ (x[2] => y[2])
       [] k = "array" -> \A i \in DOMAIN x : x[i] <= y[i]
       [] k = "vector" -> /\ Len(x) <= Len(y)
                          /\ \A i \in DOMAIN x : y[i] => x[i]
       [] k = "timestamp" -> LexLeq(x, y)
       [] k = "map" -> /\ DOMAIN x \subseteq DOMAIN y
                       /\ \A i \in DOMAIN x : LexLeq(x[i], y[i])
       [] k = "tombstones" -> /\ DOMAIN x \subseteq DOMAIN y
                              /\ \A i \in DOMAIN x : x[i] => y[i]

(* lattice.h:18-22.  However the inputs of an object reached it, through     *)
(* which intermediate objects, in which order and how often, the object is   *)
(* their least upper bound in the order the header documents: no vector is   *)
(* longer than the longest input and no map has a key that no input has.     *)
LeastUpperBound ==
  \A o \in Objects :
    /\ \A x \in seen[o] : Order(kind, x, obj[o])
    /\ \A z \in Elements(kind) :
         (\A x \in seen[o] : Order(kind, x, z)) => Order(kind, obj[o], z)

(* lattice.h:24-26.  join is associative, commutative and idempotent, so two *)
(* objects that have absorbed the same inputs are equal.                     *)
SameInputsSameValue ==
  \A o, p \in Objects : seen[o] = seen[p] => obj[o] = obj[p]

(* lattice.h:28-31.  x <= y as the program computes it holds exactly when y  *)
(* is above x in the documented order.                                       *)
ComparisonAgrees ==
  \A o, p \in Objects : LeqOf(kind, obj[o], obj[p]) <=> Order(kind, obj[o], obj[p])
=============================================================================
