------------------------------ MODULE PushPull -------------------------------
(***************************************************************************)
(* The elements of src/pushpull.  An element is its state s; a push or a   *)
(* pull takes s to a result, the new state together with what the element  *)
(* pushes downstream (a sequence, as it may push any number of times) or   *)
(* what its pull returns.  A pull of an element pulls at most once from    *)
(* upstream: the operator takes what that returned, and where it depends   *)
(* on s whether, or from where, the element pulls, another operator says   *)
(* so.  In a std::map a missing key has an empty vector, or 0.             *)
(***************************************************************************)
EXTENDS Integers, Sequences

CONSTANT None  \* the empty optional; no value of a stream is equal to it

Result(s, out) == [state |-> s, out |-> out]

-----------------------------------------------------------------------------
(* Queue *)

QueuePush(s, x) == Append(s, x)

QueuePull(s) == IF s = << >> THEN Result(s, None) ELSE Result(Tail(s), Head(s))

(* Counter *)

CounterPush(s, x) == Result(s + 1, <<x>>)

CounterPull(s, x) == Result(s + 1, x)

(* Filter and If, for a predicate given as the set of what it holds of. *)

FilterPush(predicate_, x) == IF x \in predicate_ THEN <<x>> ELSE << >>

FilterPull(predicate_, x) == IF x # None /\ x \in predicate_ THEN x ELSE None

IfPush(predicate_, x) == IF x \in predicate_ THEN "true_branch_" ELSE "false_branch_"

(* Map, for a function f_. *)

MapPush(f_, x) == <<f_[x]>>

MapPull(f_, x) == IF x = None THEN None ELSE f_[x]

-----------------------------------------------------------------------------
(* Dup *)

(* Mutant: the loop runs once too often. *)
DupPushOneMore(num_dups_, x) == [i \in 1..(num_dups_ + 1) |-> x]

DupPush(num_dups_, x) == [i \in 1..num_dups_ |-> x]

DupInit == [num_dups_sent_ |-> 0, buf_ |-> None]

DupPulls(num_dups_, s) == s.num_dups_sent_ \in {0, num_dups_}

DupPull(num_dups_, s, x) ==
  IF DupPulls(num_dups_, s)
  THEN Result([num_dups_sent_ |-> 1, buf_ |-> x], x)
  ELSE Result([s EXCEPT !.num_dups_sent_ = @ + 1], s.buf_)

(* Dedup, which counts the empty optional like a value. *)

DedupInit(xs) == [x \in xs |-> 0]

(* Mutant: the count is not set back. *)
DedupPushNoReset(num_dups_, counts_, x) ==
  LET n == counts_[x] + 1
  IN Result([counts_ EXCEPT ![x] = n], IF n = num_dups_ THEN <<x>> ELSE << >>)

DedupPush(num_dups_, counts_, x) ==
  LET n == counts_[x] + 1
  IN IF n = num_dups_ THEN Result([counts_ EXCEPT ![x] = 0], <<x>>)
                      ELSE Result([counts_ EXCEPT ![x] = n], << >>)

DedupPull(num_dups_, counts_, x) ==
  LET n == counts_[x] + 1
  IN IF n = num_dups_ THEN Result([counts_ EXCEPT ![x] = 0], x)
                      ELSE Result([counts_ EXCEPT ![x] = n], None)

-----------------------------------------------------------------------------
(* RoundRobin over n downstreams or upstreams: the one it uses now is index_, *)
(* counted from 0.                                                           *)

RoundRobinAdvance(n, index_) == (index_ + 1) % n

-----------------------------------------------------------------------------
(* GroupBy *)

push_group(groups_, group, x) == [groups_ EXCEPT ![group] = Append(@, x)]

end_group(groups_, group) ==
  Result([groups_ EXCEPT ![group] = << >>], <<[group |-> group, xs |-> groups_[group]]>>)

-----------------------------------------------------------------------------
(* Join, for elements with a key. *)

JoinInit(keys) ==
  [left_map_ |-> [k \in keys |-> << >>], right_map_ |-> [k \in keys |-> << >>]]

PairsLeft(s, x) == LET rights == s.right_map_[x.key] IN [i \in DOMAIN rights |-> <<x, rights[i]>>]
PairsRight(s, x) == LET lefts == s.left_map_[x.key] IN [i \in DOMAIN lefts |-> <<lefts[i], x>>]

push_left(s, x) ==
  Result([s EXCEPT !.left_map_[x.key] = Append(@, x)], PairsLeft(s, x))

(* Mutant: copied from push_left and not changed everywhere. *)
push_rightIntoLeft(s, x) ==
  Result([s EXCEPT !.left_map_[x.key] = Append(@, x)], PairsRight(s, x))

push_right(s, x) ==
  Result([s EXCEPT !.right_map_[x.key] = Append(@, x)], PairsRight(s, x))

JoinPullInit(keys) == [maps |-> JoinInit(keys), pull_left |-> TRUE, buf_ |-> << >>]

JoinPullsFrom(s) ==
  IF s.buf_ # << >> THEN "nobody" ELSE IF s.pull_left THEN "left" ELSE "right"

(* buf_.back() and buf_.pop_back(), if there is one. *)
PopBack(s) ==
  LET n == Len(s.buf_)
  IN IF n = 0 THEN Result(s, None)
              ELSE Result([s EXCEPT !.buf_ = SubSeq(@, 1, n - 1)], s.buf_[n])

JoinPull(s, x) ==
  IF s.buf_ # << >> THEN PopBack(s)
  ELSE IF x = None THEN Result(s, None)
  ELSE LET joined == IF s.pull_left THEN push_left(s.maps, x) ELSE push_right(s.maps, x)
       IN PopBack([maps |-> joined.state, pull_left |-> ~s.pull_left, buf_ |-> joined.out])
==============================================================================
