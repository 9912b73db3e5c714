---------------------------- MODULE LatticeProofs ----------------------------
(***************************************************************************)
(* Proofs about LatticeObjects, for all values of the base types, all keys *)
(* and sizes, and any number of objects: each lattice type's join is the   *)
(* least upper bound in the order its header documents, so whatever way    *)
(* inputs reach an object, it is their least upper bound.                  *)
(***************************************************************************)
EXTENDS LatticeObjects, TLAPS

USE KindsAssumption, OrderedAssumption, SizeAssumption

(* The order of type k is a partial order on its elements.                   *)
OrderLaws(k) ==
  /\ \A x \in Elements(k) : Order(k, x, x)
  /\ \A x, y \in Elements(k) : Order(k, x, y) /\ Order(k, y, x) => x = y
  /\ \A x, y, z \in Elements(k) : Order(k, x, y) /\ Order(k, y, z) => Order(k, x, z)

(* join stays in the type and is the least upper bound of two elements.      *)
JoinLaws(k) ==
  /\ \A x, y \in Elements(k) : JoinOf(k, x, y) \in Elements(k)
  /\ \A x, y \in Elements(k) : Order(k, x, JoinOf(k, x, y)) /\ Order(k, y, JoinOf(k, x, y))
  /\ \A x, y, z \in Elements(k) :
       Order(k, x, z) /\ Order(k, y, z) => Order(k, JoinOf(k, x, y), z)

Laws(k) ==
  /\ OrderLaws(k) /\ JoinLaws(k)
  /\ \A x, y \in Elements(k) : LeqOf(k, x, y) <=> Order(k, x, y)

-----------------------------------------------------------------------------
(* The lattices of base types.                                             *)

LEMMA MaxLaws == Laws("max")
<1>1. /\ Elements("max") \subseteq Int
      /\ \A x, y : JoinOf("max", x, y) = MaxJoin(x, y)
      /\ \A x, y : LeqOf("max", x, y) <=> MaxLeq(x, y)
      /\ \A x, y : Order("max", x, y) <=> x <= y
      BY DEF Elements, JoinOf, LeqOf, Order
<1>2. QED  BY <1>1 DEF Laws, OrderLaws, JoinLaws, MaxJoin, MaxLeq

LEMMA MinLaws == Laws("min")
<1>1. /\ Elements("min") \subseteq Int
      /\ \A x, y : JoinOf("min", x, y) = MinJoin(x, y)
      /\ \A x, y : LeqOf("min", x, y) <=> MinLeq(x, y)
      /\ \A x, y : Order("min", x, y) <=> x >= y
      BY DEF Elements, JoinOf, LeqOf, Order
<1>2. QED  BY <1>1 DEF Laws, OrderLaws, JoinLaws, MinJoin, MinLeq

LEMMA AndLaws == Laws("and")
<1>1. /\ Elements("and") = BOOLEAN
      /\ \A x, y : JoinOf("and", x, y) = BoolAndJoin(x, y)
      /\ \A x, y : LeqOf("and", x, y) <=> BoolAndLeq(x, y)
      /\ \A x, y : Order("and", x, y) <=> (y => x)
      BY DEF Elements, JoinOf, LeqOf, Order
<1>2. \A x, y \in BOOLEAN : BoolAndLeq(x, y) <=> (y => x)
      BY DEF BoolAndLeq, BoolAndConvert
<1>3. QED  BY <1>1, <1>2 DEF Laws, OrderLaws, JoinLaws, BoolAndJoin

LEMMA OrLaws == Laws("or")
<1>1. /\ Elements("or") = BOOLEAN
      /\ \A x, y : JoinOf("or", x, y) = BoolOrJoin(x, y)
      /\ \A x, y : LeqOf("or", x, y) <=> BoolOrLeq(x, y)
      /\ \A x, y : Order("or", x, y) <=> (x => y)
      BY DEF Elements, JoinOf, LeqOf, Order
<1>2. \A x, y \in BOOLEAN : BoolOrLeq(x, y) <=> (x => y)
      BY DEF BoolOrLeq, BoolOrConvert
<1>3. QED  BY <1>1, <1>2 DEF Laws, OrderLaws, JoinLaws, BoolOrJoin

-----------------------------------------------------------------------------
(* The types that inherit the operator<= of lattice.h.                     *)

Inheriting == {"union", "intersect", "pair", "array", "vector", "timestamp", "map", "tombstones"}

(* Joining x into y gives y exactly when x is below y.                       *)
LEMMA GenericLeqAgrees ==
  ASSUME NEW k \in Inheriting, OrderLaws(k), JoinLaws(k)
  PROVE  Laws(k)
<1>1. \A x, y : LeqOf(k, x, y) <=> JoinOf(k, x, y) = y
      BY DEF LeqOf, GenericLeq, Inheriting
<1>2. \A x, y \in Elements(k) : JoinOf(k, x, y) = y => Order(k, x, y)
      BY DEF JoinLaws
<1>3. \A x, y \in Elements(k) : Order(k, x, y) => JoinOf(k, x, y) = y
      BY DEF JoinLaws, OrderLaws
<1>4. QED  BY <1>1, <1>2, <1>3 DEF Laws

LEMMA SameFunction ==
  ASSUME NEW S, NEW T, NEW U, NEW f \in [S -> T], NEW g \in [S -> U], \A i \in S : f[i] = g[i]
  PROVE  f = g
OBVIOUS

LEMMA UnionLaws == Laws("union")
<1>1. /\ Elements("union") = SUBSET SetElements
      /\ \A x, y : JoinOf("union", x, y) = x \cup y
      /\ \A x, y : Order("union", x, y) <=> x \subseteq y
      BY DEF Elements, JoinOf, Order, SetUnionJoin
<1>2. OrderLaws("union")
  <2>1. \A x \in Elements("union") : Order("union", x, x)
        BY <1>1
  <2>2. ASSUME NEW x \in Elements("union"), NEW y \in Elements("union"),
               Order("union", x, y), Order("union", y, x)
        PROVE  x = y
    <3>1. x \subseteq y /\ y \subseteq x
          BY <1>1, <2>2
    <3>2. QED  BY <3>1
  <2>3. ASSUME NEW x \in Elements("union"), NEW y \in Elements("union"), NEW z \in Elements("union"),
               Order("union", x, y), Order("union", y, z)
        PROVE  Order("union", x, z)
        BY <1>1, <2>3
  <2>4. QED  BY <2>1, <2>2, <2>3 DEF OrderLaws
<1>3. JoinLaws("union")
  <2>1. \A x, y \in SUBSET SetElements : JoinOf("union", x, y) \in SUBSET SetElements
        BY <1>1
  <2>2. QED  BY <1>1, <2>1 DEF JoinLaws
<1>4. QED  BY <1>2, <1>3, GenericLeqAgrees DEF Inheriting

LEMMA IntersectLaws == Laws("intersect")
<1>1. /\ Elements("intersect") = SUBSET SetElements
      /\ \A x, y : JoinOf("intersect", x, y) = {e \in x : e \in y}
      /\ \A x, y : Order("intersect", x, y) <=> y \subseteq x
      BY DEF Elements, JoinOf, Order, SetIntersectJoin
<1>2. OrderLaws("intersect")
  <2>1. \A x \in Elements("intersect") : Order("intersect", x, x)
        BY <1>1
  <2>2. ASSUME NEW x \in Elements("intersect"), NEW y \in Elements("intersect"),
               Order("intersect", x, y), Order("intersect", y, x)
        PROVE  x = y
    <3>1. x \subseteq y /\ y \subseteq x
          BY <1>1, <2>2
    <3>2. QED  BY <3>1
  <2>3. ASSUME NEW x \in Elements("intersect"), NEW y \in Elements("intersect"), NEW z \in Elements("intersect"),
               Order("intersect", x, y), Order("intersect", y, z)
        PROVE  Order("intersect", x, z)
        BY <1>1, <2>3
  <2>4. QED  BY <2>1, <2>2, <2>3 DEF OrderLaws
<1>3. JoinLaws("intersect")
  <2>1. \A x, y \in SUBSET SetElements : JoinOf("intersect", x, y) \in SUBSET SetElements
        BY <1>1
  <2>2. QED  BY <1>1, <2>1 DEF JoinLaws
<1>4. QED  BY <1>2, <1>3, GenericLeqAgrees DEF Inheriting

LEMMA PairLaws == Laws("pair")
<1>1. /\ Elements("pair") = BOOLEAN \X BOOLEAN
      /\ \A x, y : JoinOf("pair", x, y) = <<x[1] /\ y[1], x[2] \/ y[2]>>
      /\ \A x, y : Order("pair", x, y) <=> (y[1] => x[1]) /\ (x[2] => y[2])
      BY DEF Elements, JoinOf, Order, BoolPairJoin, PairJoin, BoolAndJoin, BoolOrJoin
<1>2. OrderLaws("pair")
      BY <1>1 DEF OrderLaws
<1>3. JoinLaws("pair")
      BY <1>1 DEF JoinLaws
<1>4. QED  BY <1>2, <1>3, GenericLeqAgrees DEF Inheriting

LEMMA ArrayLaws == Laws("array")
<1>1. /\ Elements("array") = [1..ArraySize -> Strings]
      /\ \A x, y : JoinOf("array", x, y) = [i \in DOMAIN x |-> MaxJoin(x[i], y[i])]
      /\ \A x, y : Order("array", x, y) <=> \A i \in DOMAIN x : x[i] <= y[i]
      BY DEF Elements, JoinOf, Order, MaxArrayJoin, ArrayJoin
<1> DEFINE N == 1..ArraySize
<1> HIDE DEF N
<1>5. /\ \A x \in [N -> Strings] : DOMAIN x = N /\ \A i \in N : x[i] \in Strings /\ x[i] \in Int
      /\ \A x, y \in [N -> Strings] : (\A i \in N : x[i] = y[i]) => x = y
  <2>1. \A x \in [N -> Strings] : DOMAIN x = N /\ \A i \in N : x[i] \in Strings /\ x[i] \in Int
        OBVIOUS
  <2>2. \A x, y \in [N -> Strings] : (\A i \in N : x[i] = y[i]) => x = y
        BY SameFunction
  <2>3. QED  BY <2>1, <2>2
<1>2. OrderLaws("array")
  <2>1. \A x, y \in [N -> Strings] : Order("array", x, y) /\ Order("array", y, x) => x = y
        BY <1>1, <1>5
  <2>2. /\ \A x \in [N -> Strings] : Order("array", x, x)
        /\ \A x, y, z \in [N -> Strings] :
             Order("array", x, y) /\ Order("array", y, z) => Order("array", x, z)
        BY <1>1, <1>5
  <2>3. QED  BY <1>1, <2>1, <2>2 DEF OrderLaws, N
<1>3. JoinLaws("array")
  <2>1. \A x, y \in [N -> Strings] :
          /\ JoinOf("array", x, y) = [i \in N |-> MaxJoin(x[i], y[i])]
          /\ \A i \in N : MaxJoin(x[i], y[i]) \in Strings
        BY <1>1, <1>5 DEF MaxJoin
  <2>2. \A x, y \in [N -> Strings] :
          /\ JoinOf("array", x, y) \in [N -> Strings]
          /\ \A i \in N : JoinOf("array", x, y)[i] = MaxJoin(x[i], y[i])
        BY <2>1
  <2>3. \A x, y \in [N -> Strings] :
          Order("array", x, JoinOf("array", x, y)) /\ Order("array", y, JoinOf("array", x, y))
        BY <1>1, <1>5, <2>2 DEF MaxJoin
  <2>4. \A x, y, z \in [N -> Strings] :
          Order("array", x, z) /\ Order("array", y, z) => Order("array", JoinOf("array", x, y), z)
        BY <1>1, <1>5, <2>2 DEF MaxJoin
  <2>5. QED  BY <1>1, <2>2, <2>3, <2>4 DEF JoinLaws, N
<1>4. QED  BY <1>2, <1>3, GenericLeqAgrees DEF Inheriting

-----------------------------------------------------------------------------
(* TimestampLattice: the lexicographic order.                              *)

LexLeq(p, q) == \/ p.timestamp < q.timestamp
                \/ p.timestamp = q.timestamp /\ p.value <= q.value

LEMMA LexLaws ==
  /\ \A x \in TimestampedStrings : LexLeq(x, x)
  /\ \A x, y \in TimestampedStrings : LexLeq(x, y) /\ LexLeq(y, x) => x = y
  /\ \A x, y, z \in TimestampedStrings : LexLeq(x, y) /\ LexLeq(y, z) => LexLeq(x, z)
  /\ \A x, y \in TimestampedStrings :
       /\ TimestampedStringJoin(x, y) \in TimestampedStrings
       /\ LexLeq(x, TimestampedStringJoin(x, y)) /\ LexLeq(y, TimestampedStringJoin(x, y))
  /\ \A x, y, z \in TimestampedStrings :
       LexLeq(x, z) /\ LexLeq(y, z) => LexLeq(TimestampedStringJoin(x, y), z)
<1>1. \A x \in TimestampedStrings :
        x.timestamp \in Int /\ x.value \in Int /\ x.timestamp \in Timestamps /\ x.value \in Strings
      BY DEF TimestampedStrings
<1>2. \A x \in TimestampedStrings : LexLeq(x, x)
      BY <1>1 DEF LexLeq
<1>3. \A x, y \in TimestampedStrings : LexLeq(x, y) /\ LexLeq(y, x) => x = y
      BY <1>1 DEF LexLeq, TimestampedStrings
<1>4. \A x, y, z \in TimestampedStrings : LexLeq(x, y) /\ LexLeq(y, z) => LexLeq(x, z)
      BY <1>1 DEF LexLeq
<1>5. \A x, y \in TimestampedStrings :
        TimestampedStringJoin(x, y) = IF LexLeq(x, y) THEN y ELSE x
      BY <1>1 DEF LexLeq, TimestampedStringJoin, TimestampJoin, MaxLess, MaxJoin, TimestampedStrings
<1>6. \A x, y \in TimestampedStrings : LexLeq(x, y) \/ LexLeq(y, x)
      BY <1>1 DEF LexLeq
<1>7. QED  BY <1>2, <1>3, <1>4, <1>5, <1>6

LEMMA TimestampLaws == Laws("timestamp")
<1>1. /\ Elements("timestamp") = TimestampedStrings
      /\ \A x, y : JoinOf("timestamp", x, y) = TimestampedStringJoin(x, y)
      /\ \A x, y : Order("timestamp", x, y) <=> LexLeq(x, y)
      BY DEF Elements, JoinOf, Order, LexLeq
<1>2. OrderLaws("timestamp") /\ JoinLaws("timestamp")
      BY <1>1, LexLaws DEF OrderLaws, JoinLaws
<1>3. QED  BY <1>2, GenericLeqAgrees DEF Inheriting

-----------------------------------------------------------------------------
(* MapLattice: the keys of both sides, joined where both have them.        *)

LEMMA PartialFunctionFacts ==
  ASSUME NEW S, NEW T
  PROVE  \A f : f \in PartialFunctions(S, T) <=>
               DOMAIN f \subseteq S /\ f \in [DOMAIN f -> T]
<1>1. ASSUME NEW f \in PartialFunctions(S, T)
      PROVE  DOMAIN f \subseteq S /\ f \in [DOMAIN f -> T]
  <2>1. PICK D \in SUBSET S : f \in [D -> T]
        BY <1>1 DEF PartialFunctions
  <2>2. QED  BY <2>1
<1>2. ASSUME NEW f, DOMAIN f \subseteq S, f \in [DOMAIN f -> T]
      PROVE  f \in PartialFunctions(S, T)
      BY <1>2 DEF PartialFunctions
<1>3. QED  BY <1>1, <1>2

LEMMA MapLaws == Laws("map")
<1> DEFINE E == PartialFunctions(MapKeys, TimestampedStrings)
           J(x, y) == JoinOf("map", x, y)
<1>1. /\ Elements("map") = E
      /\ \A x, y : J(x, y) = [i \in DOMAIN x \cup DOMAIN y |->
                               IF i \notin DOMAIN x THEN y[i]
                               ELSE IF i \in DOMAIN y THEN TimestampedStringJoin(x[i], y[i]) ELSE x[i]]
      /\ \A x, y : Order("map", x, y) <=>
           DOMAIN x \subseteq DOMAIN y /\ \A i \in DOMAIN x : LexLeq(x[i], y[i])
      BY DEF Elements, JoinOf, Order, StringMapJoin, MapJoin, LexLeq
<1>2. \A x \in E : DOMAIN x \subseteq MapKeys /\ \A i \in DOMAIN x : x[i] \in TimestampedStrings
      BY PartialFunctionFacts
<1> HIDE DEF E, J
<1>3. OrderLaws("map")
  <2>1. \A x \in E : Order("map", x, x)
        BY <1>1, <1>2, LexLaws
  <2>2. ASSUME NEW x \in E, NEW y \in E, Order("map", x, y), Order("map", y, x)
        PROVE  x = y
    <3>1. DOMAIN x = DOMAIN y
          BY <1>1, <2>2
    <3>2. \A i \in DOMAIN x : x[i] = y[i]
          BY <1>1, <1>2, <2>2, <3>1, LexLaws
    <3>3. x \in [DOMAIN x -> TimestampedStrings] /\ y \in [DOMAIN x -> TimestampedStrings]
          BY <3>1, PartialFunctionFacts DEF E
    <3>4. QED  BY <3>2, <3>3, SameFunction
  <2>3. ASSUME NEW x \in E, NEW y \in E, NEW z \in E, Order("map", x, y), Order("map", y, z)
        PROVE  Order("map", x, z)
    <3>1. DOMAIN x \subseteq DOMAIN y /\ DOMAIN y \subseteq DOMAIN z
          BY <1>1, <2>3
    <3>2. \A i \in DOMAIN x : LexLeq(x[i], z[i])
          BY <1>1, <1>2, <2>3, <3>1, LexLaws
    <3>3. QED  BY <1>1, <3>1, <3>2
  <2>4. QED  BY <1>1, <2>1, <2>2, <2>3 DEF OrderLaws
<1>4. ASSUME NEW x \in E, NEW y \in E
      PROVE  /\ J(x, y) \in E /\ DOMAIN J(x, y) = DOMAIN x \cup DOMAIN y
             /\ \A i \in DOMAIN x \ DOMAIN y : J(x, y)[i] = x[i]
             /\ \A i \in DOMAIN y \ DOMAIN x : J(x, y)[i] = y[i]
             /\ \A i \in DOMAIN x \cap DOMAIN y : J(x, y)[i] = TimestampedStringJoin(x[i], y[i])
  <2>1. /\ DOMAIN J(x, y) = DOMAIN x \cup DOMAIN y
        /\ \A i \in DOMAIN x \ DOMAIN y : J(x, y)[i] = x[i]
        /\ \A i \in DOMAIN y \ DOMAIN x : J(x, y)[i] = y[i]
        /\ \A i \in DOMAIN x \cap DOMAIN y : J(x, y)[i] = TimestampedStringJoin(x[i], y[i])
        /\ J(x, y) = [i \in DOMAIN J(x, y) |-> J(x, y)[i]]
        BY <1>1
  <2>2. \A i \in DOMAIN x \cup DOMAIN y : J(x, y)[i] \in TimestampedStrings
        BY <1>2, <2>1, LexLaws
  <2>3. DOMAIN x \cup DOMAIN y \subseteq MapKeys
        BY <1>2
  <2>4. J(x, y) \in E
        BY <2>1, <2>2, <2>3, PartialFunctionFacts DEF E
  <2>5. QED  BY <2>1, <2>4
<1>5. ASSUME NEW x \in E, NEW y \in E
      PROVE  Order("map", x, J(x, y)) /\ Order("map", y, J(x, y))
  <2>1. PICK z : z = J(x, y)
        OBVIOUS
  <2>2. /\ DOMAIN z = DOMAIN x \cup DOMAIN y
        /\ \A i \in DOMAIN x \ DOMAIN y : z[i] = x[i]
        /\ \A i \in DOMAIN y \ DOMAIN x : z[i] = y[i]
        /\ \A i \in DOMAIN x \cap DOMAIN y : z[i] = TimestampedStringJoin(x[i], y[i])
        BY <1>4, <2>1
  <2>3. \A i \in DOMAIN x : LexLeq(x[i], z[i])
    <3> SUFFICES ASSUME NEW i \in DOMAIN x PROVE LexLeq(x[i], z[i])
        OBVIOUS
    <3>1. CASE i \in DOMAIN y
          BY <1>2, <2>2, <3>1, LexLaws
    <3>2. CASE i \notin DOMAIN y
          BY <1>2, <2>2, <3>2, LexLaws
    <3>3. QED  BY <3>1, <3>2
  <2>4. \A i \in DOMAIN y : LexLeq(y[i], z[i])
    <3> SUFFICES ASSUME NEW i \in DOMAIN y PROVE LexLeq(y[i], z[i])
        OBVIOUS
    <3>1. CASE i \in DOMAIN x
          BY <1>2, <2>2, <3>1, LexLaws
    <3>2. CASE i \notin DOMAIN x
          BY <1>2, <2>2, <3>2, LexLaws
    <3>3. QED  BY <3>1, <3>2
  <2>5. Order("map", x, z) /\ Order("map", y, z)
        BY <1>1, <2>2, <2>3, <2>4
  <2>6. QED  BY <2>1, <2>5
<1>6. ASSUME NEW x \in E, NEW y \in E, NEW z \in E, Order("map", x, z), Order("map", y, z)
      PROVE  Order("map", J(x, y), z)
  <2>1. PICK w : w = J(x, y)
        OBVIOUS
  <2>2. /\ DOMAIN w = DOMAIN x \cup DOMAIN y
        /\ \A i \in DOMAIN x \ DOMAIN y : w[i] = x[i]
        /\ \A i \in DOMAIN y \ DOMAIN x : w[i] = y[i]
        /\ \A i \in DOMAIN x \cap DOMAIN y : w[i] = TimestampedStringJoin(x[i], y[i])
        BY <1>4, <2>1
  <2>3. /\ DOMAIN x \subseteq DOMAIN z /\ \A i \in DOMAIN x : LexLeq(x[i], z[i])
        /\ DOMAIN y \subseteq DOMAIN z /\ \A i \in DOMAIN y : LexLeq(y[i], z[i])
        BY <1>1, <1>6
  <2>4. \A i \in DOMAIN w : LexLeq(w[i], z[i])
    <3> SUFFICES ASSUME NEW i \in DOMAIN w PROVE LexLeq(w[i], z[i])
        OBVIOUS
    <3>1. CASE i \in DOMAIN x \ DOMAIN y
          BY <2>2, <2>3, <3>1
    <3>2. CASE i \in DOMAIN y \ DOMAIN x
          BY <2>2, <2>3, <3>2
    <3>3. CASE i \in DOMAIN x \cap DOMAIN y
          BY <1>2, <2>2, <2>3, <3>3, LexLaws
    <3>4. QED  BY <2>2, <3>1, <3>2, <3>3
  <2>5. Order("map", w, z)
    <3>1. DOMAIN w \subseteq DOMAIN z
          BY <2>2, <2>3
    <3>2. QED  BY <1>1, <2>4, <3>1
  <2>6. QED  BY <2>1, <2>5
<1>7. JoinLaws("map")
      BY <1>1, <1>4, <1>5, <1>6 DEF JoinLaws, J
<1>8. QED  BY <1>3, <1>7, GenericLeqAgrees DEF Inheriting

LEMMA TombstonesLaws == Laws("tombstones")
<1> DEFINE E == PartialFunctions(SetElements, BOOLEAN)
           J(x, y) == JoinOf("tombstones", x, y)
<1>1. /\ Elements("tombstones") = E
      /\ \A x, y : J(x, y) = [i \in DOMAIN x \cup DOMAIN y |->
                               IF i \notin DOMAIN x THEN y[i]
                               ELSE IF i \in DOMAIN y THEN (x[i] \/ y[i]) ELSE x[i]]
      /\ \A x, y : Order("tombstones", x, y) <=>
           DOMAIN x \subseteq DOMAIN y /\ \A i \in DOMAIN x : (x[i] => y[i])
      BY DEF Elements, JoinOf, Order, TombstonesJoin, MapJoin, BoolOrJoin
<1>2. \A x \in E : DOMAIN x \subseteq SetElements /\ \A i \in DOMAIN x : x[i] \in BOOLEAN
      BY PartialFunctionFacts
<1> HIDE DEF E, J
<1>3. OrderLaws("tombstones")
  <2>1. \A x \in E : Order("tombstones", x, x)
        BY <1>1, <1>2
  <2>2. ASSUME NEW x \in E, NEW y \in E, Order("tombstones", x, y), Order("tombstones", y, x)
        PROVE  x = y
    <3>1. DOMAIN x = DOMAIN y
          BY <1>1, <2>2
    <3>2. \A i \in DOMAIN x : x[i] = y[i]
          BY <1>1, <1>2, <2>2, <3>1
    <3>3. x \in [DOMAIN x -> BOOLEAN] /\ y \in [DOMAIN x -> BOOLEAN]
          BY <3>1, PartialFunctionFacts DEF E
    <3>4. QED  BY <3>2, <3>3, SameFunction
  <2>3. ASSUME NEW x \in E, NEW y \in E, NEW z \in E, Order("tombstones", x, y), Order("tombstones", y, z)
        PROVE  Order("tombstones", x, z)
    <3>1. DOMAIN x \subseteq DOMAIN y /\ DOMAIN y \subseteq DOMAIN z
          BY <1>1, <2>3
    <3>2. \A i \in DOMAIN x : (x[i] => z[i])
          BY <1>1, <1>2, <2>3, <3>1
    <3>3. QED  BY <1>1, <3>1, <3>2
  <2>4. QED  BY <1>1, <2>1, <2>2, <2>3 DEF OrderLaws
<1>4. ASSUME NEW x \in E, NEW y \in E
      PROVE  /\ J(x, y) \in E /\ DOMAIN J(x, y) = DOMAIN x \cup DOMAIN y
             /\ \A i \in DOMAIN x \ DOMAIN y : J(x, y)[i] = x[i]
             /\ \A i \in DOMAIN y \ DOMAIN x : J(x, y)[i] = y[i]
             /\ \A i \in DOMAIN x \cap DOMAIN y : J(x, y)[i] = (x[i] \/ y[i])
  <2>1. /\ DOMAIN J(x, y) = DOMAIN x \cup DOMAIN y
        /\ \A i \in DOMAIN x \ DOMAIN y : J(x, y)[i] = x[i]
        /\ \A i \in DOMAIN y \ DOMAIN x : J(x, y)[i] = y[i]
        /\ \A i \in DOMAIN x \cap DOMAIN y : J(x, y)[i] = (x[i] \/ y[i])
        /\ J(x, y) = [i \in DOMAIN J(x, y) |-> J(x, y)[i]]
        BY <1>1
  <2>2. \A i \in DOMAIN x \cup DOMAIN y : J(x, y)[i] \in BOOLEAN
        BY <1>2, <2>1
  <2>3. DOMAIN x \cup DOMAIN y \subseteq SetElements
        BY <1>2
  <2>4. J(x, y) \in E
        BY <2>1, <2>2, <2>3, PartialFunctionFacts DEF E
  <2>5. QED  BY <2>1, <2>4
<1>5. ASSUME NEW x \in E, NEW y \in E
      PROVE  Order("tombstones", x, J(x, y)) /\ Order("tombstones", y, J(x, y))
  <2>1. PICK z : z = J(x, y)
        OBVIOUS
  <2>2. /\ DOMAIN z = DOMAIN x \cup DOMAIN y
        /\ \A i \in DOMAIN x \ DOMAIN y : z[i] = x[i]
        /\ \A i \in DOMAIN y \ DOMAIN x : z[i] = y[i]
        /\ \A i \in DOMAIN x \cap DOMAIN y : z[i] = (x[i] \/ y[i])
        BY <1>4, <2>1
  <2>3. \A i \in DOMAIN x : (x[i] => z[i])
    <3> SUFFICES ASSUME NEW i \in DOMAIN x PROVE (x[i] => z[i])
        OBVIOUS
    <3>1. CASE i \in DOMAIN y
          BY <1>2, <2>2, <3>1
    <3>2. CASE i \notin DOMAIN y
          BY <1>2, <2>2, <3>2
    <3>3. QED  BY <3>1, <3>2
  <2>4. \A i \in DOMAIN y : (y[i] => z[i])
    <3> SUFFICES ASSUME NEW i \in DOMAIN y PROVE (y[i] => z[i])
        OBVIOUS
    <3>1. CASE i \in DOMAIN x
          BY <1>2, <2>2, <3>1
    <3>2. CASE i \notin DOMAIN x
          BY <1>2, <2>2, <3>2
    <3>3. QED  BY <3>1, <3>2
  <2>5. Order("tombstones", x, z) /\ Order("tombstones", y, z)
        BY <1>1, <2>2, <2>3, <2>4
  <2>6. QED  BY <2>1, <2>5
<1>6. ASSUME NEW x \in E, NEW y \in E, NEW z \in E, Order("tombstones", x, z), Order("tombstones", y, z)
      PROVE  Order("tombstones", J(x, y), z)
  <2>1. PICK w : w = J(x, y)
        OBVIOUS
  <2>2. /\ DOMAIN w = DOMAIN x \cup DOMAIN y
        /\ \A i \in DOMAIN x \ DOMAIN y : w[i] = x[i]
        /\ \A i \in DOMAIN y \ DOMAIN x : w[i] = y[i]
        /\ \A i \in DOMAIN x \cap DOMAIN y : w[i] = (x[i] \/ y[i])
        BY <1>4, <2>1
  <2>3. /\ DOMAIN x \subseteq DOMAIN z /\ \A i \in DOMAIN x : (x[i] => z[i])
        /\ DOMAIN y \subseteq DOMAIN z /\ \A i \in DOMAIN y : (y[i] => z[i])
        BY <1>1, <1>6
  <2>4. \A i \in DOMAIN w : (w[i] => z[i])
    <3> SUFFICES ASSUME NEW i \in DOMAIN w PROVE (w[i] => z[i])
        OBVIOUS
    <3>1. CASE i \in DOMAIN x \ DOMAIN y
          BY <2>2, <2>3, <3>1
    <3>2. CASE i \in DOMAIN y \ DOMAIN x
          BY <2>2, <2>3, <3>2
    <3>3. CASE i \in DOMAIN x \cap DOMAIN y
          BY <1>2, <2>2, <2>3, <3>3
    <3>4. QED  BY <2>2, <3>1, <3>2, <3>3
  <2>5. Order("tombstones", w, z)
    <3>1. DOMAIN w \subseteq DOMAIN z
          BY <2>2, <2>3
    <3>2. QED  BY <1>1, <2>4, <3>1
  <2>6. QED  BY <2>1, <2>5
<1>7. JoinLaws("tombstones")
      BY <1>1, <1>4, <1>5, <1>6 DEF JoinLaws, J
<1>8. QED  BY <1>3, <1>7, GenericLeqAgrees DEF Inheriting

-----------------------------------------------------------------------------
(* VectorLattice: index by index, and the rest of the longer one.          *)

Vectors == UNION {[1..n -> BOOLEAN] : n \in 0..VectorSize}

LEMMA VectorFacts ==
  /\ \A x \in Vectors : /\ Len(x) \in 0..VectorSize /\ DOMAIN x = 1..Len(x)
                        /\ x \in [1..Len(x) -> BOOLEAN]
  /\ \A n \in 0..VectorSize : \A x : x \in [1..n -> BOOLEAN] => x \in Vectors /\ Len(x) = n
<1>1. \A n \in Nat : \A x : x \in [1..n -> BOOLEAN] => Len(x) = n
      OBVIOUS
<1>2. \A n \in 0..VectorSize : \A x : x \in [1..n -> BOOLEAN] => x \in Vectors
      BY DEF Vectors
<1>3. ASSUME NEW x \in Vectors
      PROVE  Len(x) \in 0..VectorSize /\ DOMAIN x = 1..Len(x) /\ x \in [1..Len(x) -> BOOLEAN]
  <2>1. PICK n \in 0..VectorSize : x \in [1..n -> BOOLEAN]
        BY DEF Vectors
  <2>2. Len(x) = n
        BY <1>1, <2>1
  <2>3. QED  BY <2>1, <2>2
<1>4. QED  BY <1>1, <1>2, <1>3

LEMMA VectorLaws == Laws("vector")
<1> DEFINE J(x, y) == JoinOf("vector", x, y)
           Shorter(x, y) == IF Len(y) < Len(x) THEN Len(y) ELSE Len(x)
           Longer(x, y) == IF Len(x) < Len(y) THEN Len(y) ELSE Len(x)
<1>1. /\ Elements("vector") = Vectors
      /\ \A x, y : J(x, y) = [i \in 1..Longer(x, y) |->
                               IF i <= Shorter(x, y) THEN x[i] /\ y[i]
                               ELSE IF Len(x) < Len(y) THEN y[i] ELSE x[i]]
      /\ \A x, y : Order("vector", x, y) <=>
           Len(x) <= Len(y) /\ \A i \in DOMAIN x : y[i] => x[i]
      BY DEF Elements, JoinOf, Order, BoolVectorJoin, VectorJoin, BoolAndJoin, Vectors
<1>2. \A x \in Vectors : /\ Len(x) \in Nat /\ Len(x) <= VectorSize /\ DOMAIN x = 1..Len(x)
                         /\ \A i \in 1..Len(x) : x[i] \in BOOLEAN
      BY VectorFacts
<1> HIDE DEF J
<1>3. OrderLaws("vector")
  <2>1. \A x \in Vectors : Order("vector", x, x)
        BY <1>1, <1>2
  <2>2. ASSUME NEW x \in Vectors, NEW y \in Vectors, Order("vector", x, y), Order("vector", y, x)
        PROVE  x = y
    <3>1. Len(x) = Len(y) /\ DOMAIN x = 1..Len(x) /\ DOMAIN y = 1..Len(x)
          BY <1>1, <1>2, <2>2
    <3>2. \A i \in 1..Len(x) : x[i] = y[i]
      <4>1. \A i \in 1..Len(x) : (x[i] => y[i]) /\ (y[i] => x[i])
            BY <1>1, <2>2, <3>1
      <4>2. \A i \in 1..Len(x) : x[i] \in BOOLEAN /\ y[i] \in BOOLEAN
            BY <1>2, <3>1
      <4>3. QED  BY <4>1, <4>2
    <3>3. x \in [1..Len(x) -> BOOLEAN] /\ y \in [1..Len(x) -> BOOLEAN]
          BY <3>1, VectorFacts
    <3>4. QED  BY <3>2, <3>3, SameFunction
  <2>3. ASSUME NEW x \in Vectors, NEW y \in Vectors, NEW z \in Vectors,
               Order("vector", x, y), Order("vector", y, z)
        PROVE  Order("vector", x, z)
    <3>1. Len(x) <= Len(z) /\ \A i \in DOMAIN x : i \in DOMAIN y
          BY <1>1, <1>2, <2>3
    <3>2. \A i \in DOMAIN x : z[i] => x[i]
          BY <1>1, <2>3, <3>1
    <3>3. QED  BY <1>1, <3>1, <3>2
  <2>4. QED  BY <1>1, <2>1, <2>2, <2>3 DEF OrderLaws
<1>4. ASSUME NEW x \in Vectors, NEW y \in Vectors
      PROVE  /\ J(x, y) \in Vectors /\ Len(J(x, y)) = Longer(x, y)
             /\ \A i \in 1..Longer(x, y) :
                  /\ i \in DOMAIN x \ DOMAIN y => J(x, y)[i] = x[i]
                  /\ i \in DOMAIN y \ DOMAIN x => J(x, y)[i] = y[i]
                  /\ i \in DOMAIN x \cap DOMAIN y => J(x, y)[i] = (x[i] /\ y[i])
  <2>1. PICK m \in 0..VectorSize : m = Longer(x, y)
        BY <1>2
  <2>2. /\ J(x, y) = [i \in 1..m |-> J(x, y)[i]]
        /\ \A i \in 1..m : J(x, y)[i] = IF i <= Shorter(x, y) THEN x[i] /\ y[i]
                                        ELSE IF Len(x) < Len(y) THEN y[i] ELSE x[i]
        BY <1>1, <2>1
  <2>3. ASSUME NEW i \in 1..m
        PROVE  /\ i \in DOMAIN x \ DOMAIN y => J(x, y)[i] = x[i]
               /\ i \in DOMAIN y \ DOMAIN x => J(x, y)[i] = y[i]
               /\ i \in DOMAIN x \cap DOMAIN y => J(x, y)[i] = (x[i] /\ y[i])
               /\ J(x, y)[i] \in BOOLEAN
    <3>1. \/ i <= Len(x) /\ i <= Len(y)
          \/ i <= Len(x) /\ ~(i <= Len(y))
          \/ i <= Len(y) /\ ~(i <= Len(x))
          BY <1>2, <2>1
    <3>2. (i \in DOMAIN x <=> i <= Len(x)) /\ (i \in DOMAIN y <=> i <= Len(y))
          BY <1>2
    <3>3. CASE i <= Len(x) /\ i <= Len(y)
      <4>1. i <= Shorter(x, y)
            BY <1>2, <3>3
      <4>2. J(x, y)[i] = (x[i] /\ y[i])
            BY <2>2, <4>1
      <4>3. QED  BY <3>2, <3>3, <4>2
    <3>4. CASE i <= Len(x) /\ ~(i <= Len(y))
      <4>1. ~(i <= Shorter(x, y)) /\ ~(Len(x) < Len(y))
            BY <1>2, <3>4
      <4>2. J(x, y)[i] = x[i]
            BY <2>2, <4>1
      <4>3. x[i] \in BOOLEAN
            BY <1>2, <3>4
      <4>4. QED  BY <3>2, <3>4, <4>2, <4>3
    <3>5. CASE i <= Len(y) /\ ~(i <= Len(x))
      <4>1. ~(i <= Shorter(x, y)) /\ Len(x) < Len(y)
            BY <1>2, <3>5
      <4>2. J(x, y)[i] = y[i]
            BY <2>2, <4>1
      <4>3. y[i] \in BOOLEAN
            BY <1>2, <3>5
      <4>4. QED  BY <3>2, <3>5, <4>2, <4>3
    <3>6. QED  BY <3>1, <3>3, <3>4, <3>5
  <2>4. J(x, y) \in [1..m -> BOOLEAN]
        BY <2>2, <2>3
  <2>5. J(x, y) \in Vectors /\ Len(J(x, y)) = m
        BY <2>4, VectorFacts
  <2>6. QED  BY <2>1, <2>3, <2>5
<1>5. ASSUME NEW x \in Vectors, NEW y \in Vectors
      PROVE  Order("vector", x, J(x, y)) /\ Order("vector", y, J(x, y))
  <2>1. Len(x) <= Longer(x, y) /\ Len(y) <= Longer(x, y)
        BY <1>2
  <2>2. \A i \in DOMAIN x : i \in 1..Longer(x, y)
        BY <1>2, <2>1
  <2>3. \A i \in DOMAIN y : i \in 1..Longer(x, y)
        BY <1>2, <2>1
  <2> HIDE DEF Longer
  <2>4. \A i \in DOMAIN x : J(x, y)[i] => x[i]
        BY <1>4, <2>2
  <2>5. \A i \in DOMAIN y : J(x, y)[i] => y[i]
        BY <1>4, <2>3
  <2>6. QED  BY <1>1, <1>4, <2>1, <2>4, <2>5
<1>6. ASSUME NEW x \in Vectors, NEW y \in Vectors, NEW z \in Vectors,
             Order("vector", x, z), Order("vector", y, z)
      PROVE  Order("vector", J(x, y), z)
  <2>1. /\ Len(x) <= Len(z) /\ \A i \in DOMAIN x : z[i] => x[i]
        /\ Len(y) <= Len(z) /\ \A i \in DOMAIN y : z[i] => y[i]
        BY <1>1, <1>6
  <2>2. Longer(x, y) <= Len(z)
        BY <1>2, <2>1
  <2>3. \A i \in 1..Longer(x, y) : i \in DOMAIN x \/ i \in DOMAIN y
        BY <1>2
  <2>4. DOMAIN J(x, y) = 1..Longer(x, y)
        BY <1>2, <1>4
  <2> HIDE DEF Longer
  <2>5. \A i \in 1..Longer(x, y) : z[i] => J(x, y)[i]
        BY <1>4, <2>1, <2>3
  <2>6. QED  BY <1>1, <1>4, <2>2, <2>4, <2>5
<1>7. JoinLaws("vector")
      BY <1>1, <1>4, <1>5, <1>6 DEF JoinLaws, J
<1>8. QED  BY <1>3, <1>7, GenericLeqAgrees DEF Inheriting

-----------------------------------------------------------------------------
(* Programs that merge objects.                                            *)

LEMMA AllLaws == \A k \in AllKinds : Laws(k)
BY MaxLaws, MinLaws, AndLaws, OrLaws, UnionLaws, IntersectLaws, PairLaws, ArrayLaws,
   VectorLaws, TimestampLaws, MapLaws, TombstonesLaws DEF AllKinds

(* v is the least upper bound of the inputs S.                               *)
Lub(k, S, v) ==
  /\ S \subseteq Elements(k) /\ v \in Elements(k)
  /\ \A x \in S : Order(k, x, v)
  /\ \A z \in Elements(k) : (\A x \in S : Order(k, x, z)) => Order(k, v, z)

Inv == /\ kind \in AllKinds
       /\ obj \in [Objects -> Elements(kind)]
       /\ seen \in [Objects -> SUBSET Elements(kind)]
       /\ \A o \in Objects : Lub(kind, seen[o], obj[o])

LEMMA LubOfOne ==
  ASSUME NEW k \in AllKinds, NEW x \in Elements(k)
  PROVE  Lub(k, {x}, x)
<1>1. OrderLaws(k)
      BY AllLaws DEF Laws
<1>2. QED  BY <1>1 DEF Lub, OrderLaws

(* However the inputs of two objects overlap, joining one into the other     *)
(* gives the least upper bound of all of them.                               *)
LEMMA LubOfJoin ==
  ASSUME NEW k \in AllKinds, NEW S, NEW T, NEW v, NEW w, Lub(k, S, v), Lub(k, T, w)
  PROVE  Lub(k, S \cup T, JoinOf(k, v, w))
<1>1. OrderLaws(k) /\ JoinLaws(k)
      BY AllLaws DEF Laws
<1>2. PICK j : j = JoinOf(k, v, w)
      OBVIOUS
<1>3. /\ v \in Elements(k) /\ w \in Elements(k) /\ j \in Elements(k)
      /\ Order(k, v, j) /\ Order(k, w, j)
      /\ S \subseteq Elements(k) /\ T \subseteq Elements(k)
      BY <1>1, <1>2 DEF JoinLaws, Lub
<1>4. ASSUME NEW x \in S \cup T PROVE Order(k, x, j)
  <2>1. x \in Elements(k) /\ (Order(k, x, v) \/ Order(k, x, w))
        BY <1>3 DEF Lub
  <2>2. QED  BY <1>1, <1>3, <2>1 DEF OrderLaws
<1>5. ASSUME NEW z \in Elements(k), \A x \in S \cup T : Order(k, x, z)
      PROVE  Order(k, j, z)
  <2>1. Order(k, v, z) /\ Order(k, w, z)
        BY <1>5 DEF Lub
  <2>2. QED  BY <1>1, <1>2, <1>3, <2>1 DEF JoinLaws
<1>6. Lub(k, S \cup T, j)
      BY <1>3, <1>4, <1>5 DEF Lub
<1>7. QED  BY <1>2, <1>6

(* insert and put are the join of a single element.                          *)
LEMMA InsertIsJoin ==
  ASSUME NEW s, NEW x \in SetElements
  PROVE  SetInsert(s, x) = JoinOf("union", s, {x}) /\ {x} \in Elements("union")
BY DEF SetInsert, JoinOf, SetUnionJoin, Elements

LEMMA MapPutIsJoin ==
  ASSUME NEW m, NEW key \in MapKeys, NEW val \in TimestampedStrings
  PROVE  /\ StringMapPut(m, key, val) = JoinOf("map", m, [j \in {key} |-> val])
         /\ [j \in {key} |-> val] \in Elements("map")
<1>1. PICK l : l = [j \in {key} |-> val]
      OBVIOUS
<1>2. DOMAIN l = {key} /\ l[key] = val /\ l \in [{key} -> TimestampedStrings]
      BY <1>1
<1>3. l \in Elements("map")
  <2>1. l \in PartialFunctions(MapKeys, TimestampedStrings)
        BY <1>2, PartialFunctionFacts
  <2>2. QED  BY <2>1 DEF Elements
<1>4. JoinOf("map", m, l) = MapJoin(TimestampedStringJoin, m, l)
      BY DEF JoinOf, StringMapJoin
<1>5. StringMapPut(m, key, val) = JoinOf("map", m, l)
      BY <1>2, <1>4 DEF StringMapPut, MapPut, MapJoin
<1>6. QED  BY <1>1, <1>3, <1>5

LEMMA TombstonesPutIsJoin ==
  ASSUME NEW m, NEW key \in SetElements, NEW val \in BOOLEAN
  PROVE  /\ TombstonesPut(m, key, val) = JoinOf("tombstones", m, [j \in {key} |-> val])
         /\ [j \in {key} |-> val] \in Elements("tombstones")
<1>1. PICK l : l = [j \in {key} |-> val]
      OBVIOUS
<1>2. DOMAIN l = {key} /\ l[key] = val /\ l \in [{key} -> BOOLEAN]
      BY <1>1
<1>3. l \in Elements("tombstones")
  <2>1. l \in PartialFunctions(SetElements, BOOLEAN)
        BY <1>2, PartialFunctionFacts
  <2>2. QED  BY <2>1 DEF Elements
<1>4. JoinOf("tombstones", m, l) = MapJoin(BoolOrJoin, m, l)
      BY DEF JoinOf, TombstonesJoin
<1>5. TombstonesPut(m, key, val) = JoinOf("tombstones", m, l)
      BY <1>2, <1>4 DEF TombstonesPut, MapPut, MapJoin
<1>6. QED  BY <1>1, <1>3, <1>5

(* Any step joins a least upper bound of some inputs into one object.        *)
LEMMA StepIsJoin ==
  ASSUME Inv, Next
  PROVE  /\ kind' = kind
         /\ \E o \in Objects : \E T, w :
              /\ Lub(kind, T, w)
              /\ obj' = [obj EXCEPT ![o] = JoinOf(kind, obj[o], w)]
              /\ seen' = [seen EXCEPT ![o] = seen[o] \cup T]
<1>1. ASSUME NEW o \in Objects, NEW p \in Objects, Join(o, p)
      PROVE  /\ kind' = kind /\ Lub(kind, seen[p], obj[p])
             /\ obj' = [obj EXCEPT ![o] = JoinOf(kind, obj[o], obj[p])]
             /\ seen' = [seen EXCEPT ![o] = seen[o] \cup seen[p]]
      BY <1>1 DEF Inv, Join
<1>2. ASSUME NEW o \in Objects, NEW x \in SetElements, Insert(o, x)
      PROVE  /\ kind' = kind /\ Lub(kind, {{x}}, {x})
             /\ obj' = [obj EXCEPT ![o] = JoinOf(kind, obj[o], {x})]
             /\ seen' = [seen EXCEPT ![o] = seen[o] \cup {{x}}]
  <2>1. kind = "union" /\ kind \in AllKinds
        BY <1>2 DEF Insert, Inv
  <2>2. Lub(kind, {{x}}, {x})
        BY <2>1, LubOfOne, InsertIsJoin
  <2>3. QED  BY <1>2, <2>1, <2>2, InsertIsJoin DEF Insert
<1>3. ASSUME NEW o \in Objects, NEW key \in PutKeys, NEW val \in PutValues, Put(o, key, val)
      PROVE  LET l == [j \in {key} |-> val]
             IN  /\ kind' = kind /\ Lub(kind, {l}, l)
                 /\ obj' = [obj EXCEPT ![o] = JoinOf(kind, obj[o], l)]
                 /\ seen' = [seen EXCEPT ![o] = seen[o] \cup {l}]
  <2>1. PICK l : l = [j \in {key} |-> val]
        OBVIOUS
  <2>2. /\ kind \in {"map", "tombstones"} /\ kind \in AllKinds /\ kind' = kind
        /\ obj' = [obj EXCEPT ![o] = IF kind = "map" THEN StringMapPut(obj[o], key, val)
                                                    ELSE TombstonesPut(obj[o], key, val)]
        /\ seen' = [seen EXCEPT ![o] = seen[o] \cup {l}]
        BY <1>3, <2>1 DEF Put, Inv
  <2>3. CASE kind = "map"
    <3>1. StringMapPut(obj[o], key, val) = JoinOf(kind, obj[o], l) /\ l \in Elements(kind)
          BY <2>1, <2>3, MapPutIsJoin DEF PutKeys, PutValues
    <3>2. Lub(kind, {l}, l)
          BY <2>2, <3>1, LubOfOne
    <3>3. QED  BY <2>1, <2>2, <2>3, <3>1, <3>2
  <2>4. CASE kind = "tombstones"
    <3>1. TombstonesPut(obj[o], key, val) = JoinOf(kind, obj[o], l) /\ l \in Elements(kind)
          BY <2>1, <2>4, TombstonesPutIsJoin DEF PutKeys, PutValues
    <3>2. Lub(kind, {l}, l)
          BY <2>2, <3>1, LubOfOne
    <3>3. QED  BY <2>1, <2>2, <2>4, <3>1, <3>2
  <2>5. QED  BY <2>2, <2>3, <2>4
<1>4. QED  BY <1>1, <1>2, <1>3 DEF Next

LEMMA InvNext == Inv /\ [Next]_vars => Inv'
<1> SUFFICES ASSUME Inv, [Next]_vars PROVE Inv'
    OBVIOUS
<1>1. CASE UNCHANGED vars
      BY <1>1 DEF Inv, vars, Lub
<1>2. CASE Next
  <2>1. /\ kind' = kind
        /\ \E o \in Objects : \E T, w :
             /\ Lub(kind, T, w)
             /\ obj' = [obj EXCEPT ![o] = JoinOf(kind, obj[o], w)]
             /\ seen' = [seen EXCEPT ![o] = seen[o] \cup T]
        BY <1>2, StepIsJoin
  <2>2. PICK o, T, w :
          /\ o \in Objects /\ Lub(kind, T, w)
          /\ obj' = [obj EXCEPT ![o] = JoinOf(kind, obj[o], w)]
          /\ seen' = [seen EXCEPT ![o] = seen[o] \cup T]
        BY <2>1
  <2>3. Lub(kind, seen[o] \cup T, JoinOf(kind, obj[o], w))
        BY <2>2, LubOfJoin DEF Inv
  <2>4. \A p \in Objects : Lub(kind, seen'[p], obj'[p])
        BY <2>2, <2>3 DEF Inv
  <2>5. /\ obj' \in [Objects -> Elements(kind)]
        /\ seen' \in [Objects -> SUBSET Elements(kind)]
    <3>1. JoinOf(kind, obj[o], w) \in Elements(kind) /\ seen[o] \cup T \subseteq Elements(kind)
          BY <2>3 DEF Lub
    <3>2. QED  BY <2>2, <3>1 DEF Inv
  <2>6. QED  BY <2>1, <2>4, <2>5 DEF Inv, Lub
<1>3. QED  BY <1>1, <1>2

LEMMA InvInit == Init => Inv
<1> SUFFICES ASSUME Init PROVE Inv
    OBVIOUS
<1>1. /\ kind \in AllKinds /\ obj \in [Objects -> Elements(kind)]
      /\ seen = [o \in Objects |-> {obj[o]}]
      BY DEF Init
<1>2. \A o \in Objects : Lub(kind, {obj[o]}, obj[o])
      BY <1>1, LubOfOne
<1>3. QED  BY <1>1, <1>2 DEF Inv

LEMMA Invariance == Spec => []Inv
BY InvInit, InvNext, PTL DEF Spec

(* lattice.h:18-22.  Every object is the least upper bound of the inputs     *)
(* that reached it, for every lattice type of src/lattices, over any values, *)
(* keys and sizes and along any sequence of join, insert and put.            *)
THEOREM JoinsAreLeast == Spec => []LeastUpperBound
<1>1. Inv => LeastUpperBound
      BY DEF Inv, Lub, LeastUpperBound
<1>2. QED  BY Invariance, <1>1, PTL

(* lattice.h:24-26.  Objects with the same inputs are equal, in whatever     *)
(* order and however often the inputs were joined: two bounds that are both  *)
(* least are below each other.                                               *)
THEOREM JoinsConverge == Spec => []SameInputsSameValue
<1>1. Inv => SameInputsSameValue
  <2> SUFFICES ASSUME Inv, NEW o \in Objects, NEW p \in Objects, seen[o] = seen[p]
               PROVE  obj[o] = obj[p]
      BY DEF SameInputsSameValue
  <2>1. OrderLaws(kind)
        BY AllLaws DEF Inv, Laws
  <2>2. /\ Lub(kind, seen[o], obj[o]) /\ Lub(kind, seen[o], obj[p])
        BY DEF Inv
  <2>3. Order(kind, obj[o], obj[p]) /\ Order(kind, obj[p], obj[o])
        BY <2>2 DEF Lub
  <2>4. QED  BY <2>1, <2>2, <2>3 DEF OrderLaws, Lub
<1>2. QED  BY Invariance, <1>1, PTL

(* lattice.h:28-31.  The operator<= a program gets, the class's own or the   *)
(* one inherited from Lattice, is the documented order.                      *)
THEOREM ComparisonsAgree == Spec => []ComparisonAgrees
<1>1. Inv => ComparisonAgrees
  <2> SUFFICES ASSUME Inv, NEW o \in Objects, NEW p \in Objects
               PROVE  LeqOf(kind, obj[o], obj[p]) <=> Order(kind, obj[o], obj[p])
      BY DEF ComparisonAgrees
  <2>1. Laws(kind) /\ obj[o] \in Elements(kind) /\ obj[p] \in Elements(kind)
        BY AllLaws DEF Inv
  <2>2. QED  BY <2>1 DEF Laws
<1>2. QED  BY Invariance, <1>1, PTL
==============================================================================
