----------------------------- MODULE MCExchange -----------------------------
(* The exchange of src/flow/exchange.h over the operators of src/flow. *)
EXTENDS Exchange, FlowOperators

Numbers == NewIterator(<< <<1>>, <<2>> >>)
Pairs == NewIterator(<< <<2, 7>>, <<1, 8>>, <<2, 9>> >>)
Joined == NewNaiveEquijoin(Pairs, NewMap(Pairs, <<1>>), 1, 1)
Two == NewFilter(Joined, {<<2, 7, 2>>, <<1, 8, 1>>})
One == NewFilter(Numbers, {<<2>>})

(* Coroutines in coroutines, inner loops without a tuple, and children of *)
(* which a tuple was read before.                                         *)
MCOperators ==
  { NewMap(Pairs, <<2>>),
    Two,
    NewCross(One, NewCross(Numbers, NewEmpty)),
    NewCross(NextOf(Two).op, NextOf(NextOf(NewNaiveEquijoin(One, Pairs, 1, 1)).op).op),
    NewCross(NextOf(NewCross(One, Numbers)).op, One),
    NewCross(NewEmpty, Numbers) }

(* The operators as next() and reset() leave them, and tables over them, *)
(* which TLC computes once.                                              *)
RECURSIVE Closure(_)
Closure(S) ==
  LET T == S \cup {NextOf(o).op : o \in S} \cup {ResetOf(o) : o \in S}
  IN  IF T = S THEN S ELSE Closure(T)

States == Closure(MCOperators)
NextTable == [o \in States |-> NextOf(o)]
ResetTable == [o \in States |-> ResetOf(o)]
StreamTable == [o \in States |-> StreamOf(o)]

(* The tuples an operator has still to return. *)
RECURSIVE Left(_, _)
Left(table, o) == IF table[o].x = End THEN 0 ELSE 1 + Left(table, table[o].op)
AtTable == [o \in States |-> Len(StreamTable[o]) - Left(NextTable, o)]

MCNext(o) == NextTable[o]
MCReset(o) == ResetTable[o]
MCStream(o) == StreamTable[o]
MCAt(o) == AtTable[o]
=============================================================================
