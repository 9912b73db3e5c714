------------------------------ MODULE Circuits -------------------------------
(***************************************************************************)
(* Circuits of PushPull elements with a pusher at one end and a puller at  *)
(* the other, which push and pull in any order.  Each runs an element with *)
(* its counterpart of the other direction, or with the elements it is used *)
(* with in the click server:                                               *)
(*                                                                         *)
(*   join    Tee to a Join<Push> and to two Queues with a Join<Pull>       *)
(*   branch  RoundRobin<Push>, Queues, RoundRobin<Pull>                    *)
(*   dup     Filter<Push>, Map<Push>, Dup<Push>, Queue, Dedup<Pull>        *)
(*   dedup   If<Push> to a Queue or a Register<Push>; Filter<Pull>,        *)
(*           Map<Pull> and Dup<Pull> above it, whose values go into a      *)
(*           Dedup<Push>                                                   *)
(*   group   Counter<Push>, then Tee to GroupBy::push_group and, by a      *)
(*           Lambda<Push> that takes the key and a Dedup<Push>, to         *)
(*           GroupBy::end_group; Queue, Counter<Pull>                      *)
(*                                                                         *)
(* A push goes through a circuit in one call, and so does a pull: each is  *)
(* one step.  Ids between elements pass everything on; a Queue is pulled   *)
(* from through a Lambda<Pull>, as it inherits Puller privately.           *)
(***************************************************************************)
EXTENDS PushPull, FiniteSets, SequencesExt

CONSTANTS
  Kinds,      \* the circuits
  Keys,
  num_dups_,
  Branches,   \* how many queues RoundRobin deals to
  MaxPushes,  \* bound: elements pushed
  MaxPulls    \* bound: pulls that a Counter<Pull> counts

ASSUME NumDupsAssumption == num_dups_ \in Nat \ {0}
ASSUME BranchesAssumption == Branches \in Nat \ {0}
ASSUME BoundsAssumption == MaxPushes \in Nat /\ MaxPulls \in Nat

VARIABLES
  kind,    \* which circuit
  net,     \* the states of its elements
  sink,    \* history: what arrived at the Lambda<Push> at the end
  got,     \* history: what pull has returned, but for None
  input,   \* history: what was pushed, with the side it was pushed to
  missed   \* history: a pull has returned None

vars == <<kind, net, sink, got, input, missed>>

(* An element is pushed once, so its id tells equal ones apart. *)
Elements == [key : Keys, id : 1..MaxPushes]
key_ == [x \in Elements |-> x.key]
Groups == [group : Keys, xs : Seq(Elements)]

(* The values of the streams. *)
ASSUME NoneAssumption ==
  /\ None \notin Keys /\ None \notin Elements
  /\ None \notin Elements \X Elements /\ None \notin Groups

(* The predicates of Filter and If in these circuits. *)
Rejected == CHOOSE k \in Keys : TRUE
Accepted == {x \in Elements : x.key # Rejected}
Odd == {x \in Elements : x.id % 2 = 1}

InitialNet ==
  [join |-> [push |-> JoinInit(Keys), left |-> << >>, right |-> << >>, pull |-> JoinPullInit(Keys)],
   branch |-> [queues |-> [b \in 0..(Branches - 1) |-> << >>], pushIndex |-> 0, pullIndex |-> 0],
   dup |-> [queue |-> << >>, dedup |-> DedupInit(Keys \cup {None})],
   dedup |-> [queue |-> << >>, register |-> None, dup |-> DupInit, dedup |-> DedupInit(Keys)],
   group |-> [pushes |-> 0, groups |-> [k \in Keys |-> << >>], dedup |-> DedupInit(Keys),
              queue |-> << >>, pulls |-> 0]]

Init ==
  /\ kind \in Kinds /\ net = InitialNet[kind]
  /\ sink = << >> /\ got = << >> /\ input = << >> /\ missed = FALSE

-----------------------------------------------------------------------------
(* Pushes. *)

Feed(side) == {[side |-> side, x |-> [key |-> k, id |-> Len(input) + 1]] : k \in Keys}

Pushed(i) ==
  /\ Len(input) < MaxPushes
  /\ input' = Append(input, i)
  /\ UNCHANGED <<kind, got, missed>>

PushJoin(side) ==
  /\ kind = "join"
  /\ \E i \in Feed(side) :
       LET joined == IF side = "left" THEN push_left(net.push, i.x) ELSE push_right(net.push, i.x)
       IN /\ net' = [net EXCEPT !.push = joined.state, ![side] = QueuePush(@, i.x)]
          /\ sink' = sink \o joined.out
          /\ Pushed(i)

PushBranch ==
  /\ kind = "branch"
  /\ \E i \in Feed("in") :
       /\ net' = [net EXCEPT !.queues[net.pushIndex] = QueuePush(@, i.x),
                             !.pushIndex = RoundRobinAdvance(Branches, @)]
       /\ Pushed(i)
  /\ UNCHANGED sink

(* The copies are pushed to the queue one after the other. *)
PushDup ==
  /\ kind = "dup"
  /\ \E i \in Feed("in") :
       LET mapped == FlattenSeq([n \in DOMAIN FilterPush(Accepted, i.x) |-> MapPush(key_, i.x)])
           dups == FlattenSeq([n \in DOMAIN mapped |-> DupPush(num_dups_, mapped[n])])
       IN /\ net' = [net EXCEPT !.queue = @ \o dups]
          /\ Pushed(i)
  /\ UNCHANGED sink

PushDedup ==
  /\ kind = "dedup"
  /\ \E i \in Feed("in") :
       /\ IF IfPush(Accepted, i.x) = "true_branch_"
          THEN net' = [net EXCEPT !.queue = QueuePush(@, i.x)]
          ELSE net' = [net EXCEPT !.register = i.x]
       /\ Pushed(i)
  /\ UNCHANGED sink

(* Mutant: the branch with the dedup is the first of the tee. *)
PushGroupTeeSwapped ==
  /\ kind = "group"
  /\ \E i \in Feed("in") :
       LET k == i.x.key
           dedup == DedupPush(num_dups_, net.dedup, k)
           ended == IF dedup.out = << >> THEN Result(net.groups, << >>) ELSE end_group(net.groups, k)
       IN /\ net' = [net EXCEPT !.pushes = @ + 1, !.dedup = dedup.state,
                                !.groups = push_group(ended.state, k, i.x), !.queue = @ \o ended.out]
          /\ Pushed(i)
  /\ UNCHANGED sink

PushGroup ==
  /\ kind = "group"
  /\ \E i \in Feed("in") :
       LET k == i.x.key
           groups == push_group(net.groups, k, i.x)
           dedup == DedupPush(num_dups_, net.dedup, k)
           ended == IF dedup.out = << >> THEN Result(groups, << >>) ELSE end_group(groups, k)
       IN /\ net' = [net EXCEPT !.pushes = CounterPush(@, i.x).state, !.dedup = dedup.state,
                                !.groups = ended.state, !.queue = @ \o ended.out]
          /\ Pushed(i)
  /\ UNCHANGED sink

-----------------------------------------------------------------------------
(* Pulls. *)

Pulled(x) ==
  /\ got' = IF x = None THEN got ELSE Append(got, x)
  /\ missed' = (missed \/ x = None)
  /\ UNCHANGED <<kind, input>>

PullJoin ==
  /\ kind = "join"
  /\ LET from == JoinPullsFrom(net.pull)
         upstream == IF from = "nobody" THEN Result(<< >>, None) ELSE QueuePull(net[from])
         joined == JoinPull(net.pull, upstream.out)
     IN /\ net' = IF from = "nobody" THEN [net EXCEPT !.pull = joined.state]
                   ELSE [net EXCEPT !.pull = joined.state, ![from] = upstream.state]
        /\ Pulled(joined.out)
  /\ UNCHANGED sink

(* Mutant: the index is advanced before it is used. *)
PullBranchAdvancesFirst ==
  /\ kind = "branch"
  /\ LET index_ == RoundRobinAdvance(Branches, net.pullIndex)
         upstream == QueuePull(net.queues[index_])
     IN /\ net' = [net EXCEPT !.queues[index_] = upstream.state, !.pullIndex = index_]
        /\ Pulled(upstream.out)
  /\ UNCHANGED sink

PullBranch ==
  /\ kind = "branch"
  /\ LET upstream == QueuePull(net.queues[net.pullIndex])
     IN /\ net' = [net EXCEPT !.queues[net.pullIndex] = upstream.state,
                              !.pullIndex = RoundRobinAdvance(Branches, @)]
        /\ Pulled(upstream.out)
  /\ UNCHANGED sink

PullDup ==
  /\ kind = "dup"
  /\ LET upstream == QueuePull(net.queue)
         dedup == DedupPull(num_dups_, net.dedup, upstream.out)
     IN /\ net' = [net EXCEPT !.queue = upstream.state, !.dedup = dedup.state]
        /\ Pulled(dedup.out)
  /\ UNCHANGED sink

(* The puller pushes what it gets into the Dedup. *)
PullDedup ==
  /\ kind = "dedup"
  /\ LET upstream == IF DupPulls(num_dups_, net.dup) THEN QueuePull(net.queue)
                     ELSE Result(net.queue, None)
         dup == DupPull(num_dups_, net.dup, MapPull(key_, FilterPull(Odd, upstream.out)))
         dedup == IF dup.out = None THEN Result(net.dedup, << >>)
                  ELSE DedupPush(num_dups_, net.dedup, dup.out)
     IN /\ net' = [net EXCEPT !.queue = upstream.state, !.dup = dup.state, !.dedup = dedup.state]
        /\ sink' = sink \o dedup.out
        /\ Pulled(dup.out)

PullGroup ==
  /\ kind = "group" /\ net.pulls < MaxPulls
  /\ LET upstream == QueuePull(net.queue)
         counted == CounterPull(net.pulls, upstream.out)
     IN /\ net' = [net EXCEPT !.queue = upstream.state, !.pulls = counted.state]
        /\ Pulled(counted.out)
  /\ UNCHANGED sink

-----------------------------------------------------------------------------
Push ==
  \/ \E side \in {"left", "right"} : PushJoin(side)
  \/ PushBranch \/ PushDup \/ PushDedup \/ PushGroup

Pull == PullJoin \/ PullBranch \/ PullDup \/ PullDedup \/ PullGroup

(* The puller keeps pulling; the pusher may stop. *)
Spec == Init /\ [][Push \/ Pull]_vars /\ WF_vars(Pull)

-----------------------------------------------------------------------------
(* What of a sequence is in a set, and what was pushed to a side. *)
Only(seq, set) ==
  FlattenSeq([n \in DOMAIN seq |-> IF seq[n] \in set THEN <<seq[n]>> ELSE << >>])

Inputs(side) ==
  LET taken == Only(input, [side : {side}, x : Elements])
  IN [n \in DOMAIN taken |-> taken[n].x]

Match(lefts, rights) ==
  {p \in ToSet(lefts) \X ToSet(rights) : p[1].key = p[2].key}

Lists(seq, set) == Len(seq) = Cardinality(set) /\ ToSet(seq) = set

(* Whatever the order in which the two sides are fed, Join<Push> has pushed  *)
(* every pair of equal keys exactly once, and Join<Pull> has returned, or    *)
(* holds in buf_, every pair of what it has pulled exactly once.  It pulls   *)
(* its sides in turn: the one side is never more than one element ahead.     *)
JoinsComplete ==
  kind = "join" =>
    LET gone(side) == Len(Inputs(side)) - Len(net[side])
        pulled(side) == SubSeq(Inputs(side), 1, gone(side))
    IN /\ Lists(sink, Match(Inputs("left"), Inputs("right")))
       /\ Lists(got \o net.pull.buf_, Match(pulled("left"), pulled("right")))
       /\ gone("left") - gone("right") = IF net.pull.pull_left THEN 0 ELSE 1

(* RoundRobin<Pull> collects in the order in which RoundRobin<Push> dealt    *)
(* out, as long as no pull found its queue empty.  After that the two are    *)
(* out of step for good, but an element is only ever overtaken by elements   *)
(* of the other branches, one of each.                                       *)
RoundRobinOrder ==
  kind = "branch" =>
    /\ ~missed => IsPrefix(got, Inputs("in"))
    /\ \A n \in DOMAIN got :
         Cardinality({m \in 1..(n - 1) : got[m].id > got[n].id}) < Branches

(* Dup and Dedup undo each other in both directions, also when elements with *)
(* equal keys follow each other and empty pulls come in between, which Dup   *)
(* repeats and Dedup counts like values.                                     *)
Keys_(seq) == [n \in DOMAIN seq |-> seq[n].key]
Surviving(set) == Only(Inputs("in"), set)

DupsUndone ==
  /\ kind = "dup" => IsPrefix(got, Keys_(Surviving(Accepted)))
  /\ kind = "dedup" => IsPrefix(sink, Keys_(Surviving(Accepted \cap Odd)))

(* The groups of a key that were passed on, put together, and the group that *)
(* is still open are what was pushed for the key, in order; a group is       *)
(* passed on with its num_dups_-th element, not one before or after it.      *)
Flushed(k) == Only(got \o net.queue, [group : {k}, xs : Seq(Elements)])

GroupsComplete ==
  kind = "group" =>
    \A k \in Keys :
      /\ FlattenSeq([n \in DOMAIN Flushed(k) |-> Flushed(k)[n].xs]) \o net.groups[k]
           = Only(Inputs("in"), {x \in Elements : x.key = k})
      /\ \A n \in DOMAIN Flushed(k) : Len(Flushed(k)[n].xs) = num_dups_
      /\ Len(net.groups[k]) < num_dups_

(* Everything comes out in the end, however often pulls came back empty      *)
(* before it was pushed: None from a pull does not mean that no more will    *)
(* come.  For the pull join that is the pairs among the first n elements of  *)
(* each side, once both sides have n of them: the rest of the longer side    *)
(* stays where it is.  It says nothing of the group circuit, where nothing   *)
(* is due: a group comes out with its num_dups_-th element or not at all,    *)
(* which is GroupsComplete.                                                  *)
Due ==
  CASE kind = "join" ->
         LET n == IF Len(Inputs("left")) < Len(Inputs("right")) THEN Len(Inputs("left"))
                  ELSE Len(Inputs("right"))
         IN Cardinality(Match(SubSeq(Inputs("left"), 1, n), SubSeq(Inputs("right"), 1, n)))
    [] kind = "branch" -> Len(input)
    [] kind = "dup" -> Len(Surviving(Accepted))
    [] kind = "dedup" -> Len(Surviving(Accepted \cap Odd))
    [] kind = "group" -> 0

Delivered ==
  \A n \in 1..MaxPushes : Due >= n ~> Len(IF kind = "dedup" THEN sink ELSE got) >= n
==============================================================================
