--------------------------- MODULE FlowOperators ---------------------------
(***************************************************************************)
(* The operators of src/flow that are pulled by next() and started again   *)
(* by reset().  An operator object is a record of its members; a pointer   *)
(* to a child is the child's record, as nobody else uses a child.          *)
(*                                                                         *)
(* Cross and NaiveEquijoin run their loops in a coroutine, which is always *)
(* one tuple ahead of the caller: yielded is the tuple it is suspended     *)
(* with, l the left tuple its outer loop is at.                            *)
(***************************************************************************)
EXTENDS Integers, Sequences

End == << >>  \* the empty optional: a tuple has at least one column

(* What next() returns, and the operator it leaves behind. *)
Returns(x, op) == [x |-> x, op |-> op]

RECURSIVE NextOf(_), ResetOf(_), FilterNext(_), YieldNext(_)

-----------------------------------------------------------------------------
(* Iterator, Empty, Filter and Map *)

NewIterator(xs) == [kind |-> "Iterator", xs |-> xs, it_ |-> 1]

IteratorNext(o) ==
  IF o.it_ <= Len(o.xs)
  THEN Returns(o.xs[o.it_], [o EXCEPT !.it_ = @ + 1])
  ELSE Returns(End, o)

IteratorReset(o) == [o EXCEPT !.it_ = 1]

NewEmpty == [kind |-> "Empty"]

EmptyNext(o) == Returns(End, o)

(* filter_ is the set of the tuples it accepts. *)
NewFilter(child_, filter_) == [kind |-> "Filter", child_ |-> child_, filter_ |-> filter_]

FilterNext(o) ==
  LET n == NextOf(o.child_)
      left == [o EXCEPT !.child_ = n.op]
  IN  IF n.x = End \/ n.x \in o.filter_ THEN Returns(n.x, left) ELSE FilterNext(left)

(* f_ is the sequence of the columns it keeps. *)
NewMap(child_, f_) == [kind |-> "Map", child_ |-> child_, f_ |-> f_]

Project(f, x) == [i \in DOMAIN f |-> x[f[i]]]

MapNext(o) ==
  LET n == NextOf(o.child_)
  IN  Returns(IF n.x = End THEN End ELSE Project(o.f_, n.x), [o EXCEPT !.child_ = n.op])

ChildReset(o) == [o EXCEPT !.child_ = ResetOf(@)]

-----------------------------------------------------------------------------
(* CoroutineOperator, Cross and NaiveEquijoin *)

Matches(o, l, r) == o.kind = "Cross" \/ l[o.LeftIndex] = r[o.RightIndex]

(* Mutant: the right child is not reset between two left tuples. *)
YieldNextRightOnce(o) ==
  IF o.l = End
  THEN LET l == NextOf(o.left_) IN
       IF l.x = End
       THEN [o EXCEPT !.left_ = l.op, !.yielded = End]
       ELSE YieldNext([o EXCEPT !.left_ = l.op, !.l = l.x])
  ELSE LET r == NextOf(o.right_) IN
       IF r.x = End
       THEN YieldNext([o EXCEPT !.right_ = r.op, !.l = End])
       ELSE IF Matches(o, o.l, r.x)
            THEN [o EXCEPT !.right_ = r.op, !.yielded = o.l \o r.x]
            ELSE YieldNext([o EXCEPT !.right_ = r.op])

(* The two loops, from where they are to their next yield or their end. *)
YieldNext(o) ==
  IF o.l = End
  THEN LET l == NextOf(o.left_) IN
       IF l.x = End
       THEN [o EXCEPT !.left_ = l.op, !.yielded = End]
       ELSE YieldNext([o EXCEPT !.left_ = l.op, !.l = l.x])
  ELSE LET r == NextOf(o.right_) IN
       IF r.x = End
       THEN YieldNext([o EXCEPT !.right_ = ResetOf(r.op), !.l = End])
       ELSE IF Matches(o, o.l, r.x)
            THEN [o EXCEPT !.right_ = r.op, !.yielded = o.l \o r.x]
            ELSE YieldNext([o EXCEPT !.right_ = r.op])

(* The tuple the coroutine is suspended with, which then runs on. *)
CoroutineNext(o) == Returns(o.yielded, IF o.yielded = End THEN o ELSE YieldNext(o))

(* A new coroutine, which runs at once to its first yield. *)
CoroutineReset(o) == YieldNext([o EXCEPT !.l = End])

CrossReset(o) ==
  CoroutineReset([o EXCEPT !.left_ = ResetOf(@), !.right_ = ResetOf(@)])

(* The constructors end with reset(). *)
NewCross(left_, right_) ==
  CrossReset([kind |-> "Cross", left_ |-> left_, right_ |-> right_,
              l |-> End, yielded |-> End])

NewNaiveEquijoin(left_, right_, LeftIndex, RightIndex) ==
  CrossReset([kind |-> "NaiveEquijoin", left_ |-> left_, right_ |-> right_,
              LeftIndex |-> LeftIndex, RightIndex |-> RightIndex,
              l |-> End, yielded |-> End])

-----------------------------------------------------------------------------
(* The virtual functions of Operator *)

NextOf(o) ==
  CASE o.kind = "Iterator" -> IteratorNext(o)
    [] o.kind = "Empty" -> EmptyNext(o)
    [] o.kind = "Filter" -> FilterNext(o)
    [] o.kind = "Map" -> MapNext(o)
    [] o.kind \in {"Cross", "NaiveEquijoin"} -> CoroutineNext(o)

ResetOf(o) ==
  CASE o.kind = "Iterator" -> IteratorReset(o)
    [] o.kind = "Empty" -> o
    [] o.kind \in {"Filter", "Map"} -> ChildReset(o)
    [] o.kind \in {"Cross", "NaiveEquijoin"} -> CrossReset(o)

-----------------------------------------------------------------------------
(* What an operator stands for: the sequence of its tuples, whatever has *)
(* been read of it.                                                      *)
RECURSIVE StreamOf(_)
StreamOf(o) ==
  CASE o.kind = "Iterator" -> o.xs
    [] o.kind = "Empty" -> << >>
    [] o.kind = "Filter" -> SelectSeq(StreamOf(o.child_), LAMBDA x : x \in o.filter_)
    [] o.kind = "Map" -> LET xs == StreamOf(o.child_)
                         IN  [i \in DOMAIN xs |-> Project(o.f_, xs[i])]
    [] o.kind \in {"Cross", "NaiveEquijoin"} ->
         LET ls == StreamOf(o.left_)
             rs == StreamOf(o.right_)
             Pair(i) == <<ls[1 + ((i - 1) \div Len(rs))], rs[1 + ((i - 1) % Len(rs))]>>
             pairs == SelectSeq([i \in 1..(Len(ls) * Len(rs)) |-> Pair(i)],
                                LAMBDA p : Matches(o, p[1], p[2]))
         IN  [i \in DOMAIN pairs |-> pairs[i][1] \o pairs[i][2]]
=============================================================================
