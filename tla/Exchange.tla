------------------------------ MODULE Exchange ------------------------------
(***************************************************************************)
(* The exchange operator of src/flow/exchange.h: a child thread runs ahead *)
(* of its parent through the tuples of another operator and hands them     *)
(* over in buffer_; the parent sends it RESET and DIE in signals_.  Both   *)
(* are Queues.  The parent is the thread that owns the Exchange; it may    *)
(* have read the operator itself before it hands it to the Exchange.       *)
(*                                                                         *)
(* Only the child thread touches child_ and num_resets, and only the       *)
(* parent num_resets_, so each action is one use of a queue together with  *)
(* what its thread does on its own around it.                              *)
(***************************************************************************)
EXTENDS Integers, Sequences

CONSTANTS
  Operators,    \* operators that an Exchange is given, as they are constructed
  OpNext(_),    \* op.next(): what it returns in x, and op after it
  OpReset(_),   \* op after op.reset()
  OpStream(_),  \* the tuples of op, in order
  OpAt(_),      \* how many of them op has returned since it was started over
  EmptyOptional,
  MaxPastEnd,   \* bound: direct calls of next() after the end of the stream
  MaxResets     \* bound: calls of reset

ASSUME MaxPastEndAssumption == MaxPastEnd \in Nat
ASSUME MaxResetsAssumption == MaxResets \in Nat

VARIABLES
  buffer, bufferWait,    \* buffer_
  signals, signalsWait,  \* signals_
  child,                 \* where the child is in ChildPopulateBuffer
  child_,                \* the operator
  num_resets,            \* the child's count of resets
  parent,                \* where the parent is
  num_resets_,           \* the parent's count of resets
  direct,                \* history: what child_->next() returned to the parent
                         \* before the Exchange, since its last reset
  got,                   \* history: what next() returned since the last reset
  early                  \* history: reset() was called before the end was read

vars == <<buffer, bufferWait, signals, signalsWait, child, child_, num_resets,
          parent, num_resets_, direct, got, early>>

childVars == <<child, child_, num_resets>>
parentVars == <<parent, num_resets_, direct, got, early>>

buffer_ == INSTANCE Queue WITH Threads <- {"parent"}, xs_ <- buffer, wait <- bufferWait
signals_ == INSTANCE Queue WITH Threads <- {"child"}, xs_ <- signals, wait <- signalsWait

Init ==
  /\ buffer_!QueueInit /\ signals_!QueueInit
  /\ child = "unborn" /\ child_ \in Operators /\ num_resets = 0
  /\ parent = "direct" /\ num_resets_ = 0
  /\ direct = << >> /\ got = << >> /\ early = FALSE

Stream == OpStream(child_)

-----------------------------------------------------------------------------
(* The operator on its own, and the constructor, which starts the child. *)

DirectNext ==
  /\ parent = "direct" /\ Len(direct) < Len(Stream) + MaxPastEnd
  /\ child_' = OpNext(child_).op
  /\ direct' = Append(direct, OpNext(child_).x)
  /\ UNCHANGED <<buffer, bufferWait, signals, signalsWait, child, num_resets,
                 parent, num_resets_, got, early>>

DirectReset ==
  /\ parent = "direct"
  /\ child_' = OpReset(child_)
  /\ direct' = << >>
  /\ UNCHANGED <<buffer, bufferWait, signals, signalsWait, child, num_resets,
                 parent, num_resets_, got, early>>

Construct ==
  /\ parent = "direct"
  /\ parent' = "idle" /\ child' = "populate"
  /\ UNCHANGED <<buffer, bufferWait, signals, signalsWait, child_, num_resets,
                 num_resets_, direct, got, early>>

-----------------------------------------------------------------------------
(* ChildPopulateBuffer *)

(* child_->next(), and what it returned into the buffer: a tuple, or the end *)
(* of the stream, after which the child waits for a signal.                  *)
PushTuple ==
  /\ child = "populate" /\ OpNext(child_).x # EmptyOptional
  /\ child_' = OpNext(child_).op
  /\ buffer_!Push([first |-> num_resets, second |-> OpNext(child_).x])
  /\ child' = "try_pop"
  /\ UNCHANGED <<signals, signalsWait, num_resets, parentVars>>

PushEnd ==
  /\ child = "populate" /\ OpNext(child_).x = EmptyOptional
  /\ child_' = OpNext(child_).op
  /\ buffer_!Push([first |-> num_resets, second |-> EmptyOptional])
  /\ child' = "pop"
  /\ UNCHANGED <<signals, signalsWait, num_resets, parentVars>>

(* signals_.try_pop() after each tuple. *)
NoSignal ==
  /\ child = "try_pop" /\ signals = << >>
  /\ child' = "populate"
  /\ UNCHANGED <<buffer, bufferWait, signals, signalsWait, child_, num_resets, parentVars>>

TakeSignal ==
  /\ child = "try_pop"
  /\ signals_!TryPopTakes
  /\ child' = IF Head(signals) = "RESET" THEN "clear" ELSE "dead"
  /\ UNCHANGED <<buffer, bufferWait, child_, num_resets, parentVars>>

(* The RESET case of the first switch, which runs on into the DIE case. *)
ClearAndDie ==
  /\ child = "clear"
  /\ buffer_!Clear
  /\ child_' = OpReset(child_)
  /\ num_resets' = num_resets + 1
  /\ child' = "dead"
  /\ UNCHANGED <<signals, signalsWait, parentVars>>

(* signals_.pop() at the end of the stream. *)
PopSignalWaits ==
  /\ child = "pop"
  /\ signals_!PopWaits("child")
  /\ UNCHANGED <<buffer, bufferWait, childVars, parentVars>>

(* Mutant: the child forgets to count the reset. *)
PopSignalUncounted ==
  /\ child = "pop"
  /\ signals_!PopTakes("child")
  /\ IF Head(signals) = "RESET"
     THEN child' = "populate" /\ child_' = OpReset(child_)
     ELSE child' = "dead" /\ UNCHANGED child_
  /\ UNCHANGED <<buffer, bufferWait, num_resets, parentVars>>

(* Mutant: the DIE case breaks out of the switch like the RESET case. *)
PopSignalNeverDies ==
  /\ child = "pop"
  /\ signals_!PopTakes("child")
  /\ IF Head(signals) = "RESET"
     THEN child_' = OpReset(child_) /\ num_resets' = num_resets + 1
     ELSE UNCHANGED <<child_, num_resets>>
  /\ child' = "populate"
  /\ UNCHANGED <<buffer, bufferWait, parentVars>>

PopSignal ==
  /\ child = "pop"
  /\ signals_!PopTakes("child")
  /\ IF Head(signals) = "RESET"
     THEN child' = "populate" /\ child_' = OpReset(child_) /\ num_resets' = num_resets + 1
     ELSE child' = "dead" /\ UNCHANGED <<child_, num_resets>>
  /\ UNCHANGED <<buffer, bufferWait, parentVars>>

-----------------------------------------------------------------------------
(* The parent. *)

Ended == got # << >> /\ got[Len(got)] = EmptyOptional

next ==
  /\ parent = "idle"
  /\ parent' = "next"
  /\ UNCHANGED <<buffer, bufferWait, signals, signalsWait, childVars,
                 num_resets_, direct, got, early>>

PopTupleWaits ==
  /\ parent = "next"
  /\ buffer_!PopWaits("parent")
  /\ UNCHANGED <<signals, signalsWait, childVars, parentVars>>

(* Mutant: next() returns whatever it pops. *)
PopTupleUntagged ==
  /\ parent = "next"
  /\ buffer_!PopTakes("parent")
  /\ parent' = "idle"
  /\ got' = Append(got, Head(buffer).second)
  /\ UNCHANGED <<signals, signalsWait, childVars, num_resets_, direct, early>>

(* A tuple from before a reset is skipped. *)
PopTuple ==
  /\ parent = "next"
  /\ buffer_!PopTakes("parent")
  /\ IF Head(buffer).first # num_resets_
     THEN UNCHANGED <<parent, got>>
     ELSE parent' = "idle" /\ got' = Append(got, Head(buffer).second)
  /\ UNCHANGED <<signals, signalsWait, childVars, num_resets_, direct, early>>

(* Mutant: the parent forgets to count the reset. *)
resetUncounted ==
  /\ parent = "idle" /\ num_resets_ < MaxResets
  /\ signals_!Push("RESET")
  /\ got' = << >>
  /\ early' = (early \/ ~Ended)
  /\ UNCHANGED <<buffer, bufferWait, childVars, parent, num_resets_, direct>>

reset ==
  /\ parent = "idle" /\ num_resets_ < MaxResets
  /\ num_resets_' = num_resets_ + 1
  /\ signals_!Push("RESET")
  /\ got' = << >>
  /\ early' = (early \/ ~Ended)
  /\ UNCHANGED <<buffer, bufferWait, childVars, parent, direct>>

(* Exchange::~Exchange *)
Destroy ==
  /\ parent = "idle"
  /\ signals_!Push("DIE")
  /\ parent' = "joining"
  /\ UNCHANGED <<buffer, bufferWait, childVars, num_resets_, direct, got, early>>

Join ==
  /\ parent = "joining" /\ child = "dead"
  /\ parent' = "destroyed"
  /\ UNCHANGED <<buffer, bufferWait, signals, signalsWait, childVars,
                 num_resets_, direct, got, early>>

-----------------------------------------------------------------------------
ChildPopulateBuffer ==
  PushTuple \/ PushEnd \/ NoSignal \/ TakeSignal \/ ClearAndDie \/ PopSignalWaits \/ PopSignal

Parent == PopTupleWaits \/ PopTuple \/ Join

SpuriousWakeup ==
  /\ \/ buffer_!SpuriousWakeup("parent") /\ UNCHANGED <<signals, signalsWait>>
     \/ signals_!SpuriousWakeup("child") /\ UNCHANGED <<buffer, bufferWait>>
  /\ UNCHANGED <<childVars, parentVars>>

Next ==
  \/ DirectNext \/ DirectReset \/ Construct
  \/ ChildPopulateBuffer \/ Parent \/ next \/ reset \/ Destroy \/ SpuriousWakeup

(* Both threads are scheduled; no one has to call anything. *)
Spec == Init /\ [][Next]_vars /\ WF_vars(ChildPopulateBuffer) /\ WF_vars(Parent)

-----------------------------------------------------------------------------
Tuples == {Stream[i] : i \in DOMAIN Stream} \cup {EmptyOptional}

TypeOK ==
  /\ buffer \in Seq([first : 0..MaxResets, second : Tuples])
  /\ signals \in Seq({"RESET", "DIE"})
  /\ bufferWait \in [{"parent"} -> {"no", "waiting", "woken"}]
  /\ signalsWait \in [{"child"} -> {"no", "waiting", "woken"}]
  /\ child \in {"unborn", "populate", "try_pop", "clear", "pop", "dead"}
  /\ num_resets \in 0..num_resets_
  /\ parent \in {"direct", "idle", "next", "joining", "destroyed"}
  /\ num_resets_ \in 0..MaxResets
  /\ direct \in Seq(Tuples) /\ got \in Seq(Tuples)
  /\ early \in BOOLEAN

(* What next() returns as its i-th answer after a reset. *)
Answer(i) == IF i <= Len(Stream) THEN Stream[i] ELSE EmptyOptional

(* What Operator (operator.h) asks of next() and reset(): next() returns the *)
(* tuple op is at and moves on, and at the end the empty optional for good;  *)
(* reset() goes back to the start, where a new operator is too.  Here the    *)
(* operator has been read as far as at, and n and r are the results of its   *)
(* next() and reset().                                                       *)
Keeps(at, n, r) ==
  /\ Stream \in Seq(Tuples \ {EmptyOptional})
  /\ at \in 0..Len(Stream)
  /\ n.x = Answer(at + 1)
  /\ OpAt(n.op) = IF at < Len(Stream) THEN at + 1 ELSE at
  /\ OpAt(r) = 0
  /\ OpStream(n.op) = Stream /\ OpStream(r) = Stream
  /\ parent = "direct" /\ direct = << >> => at = 0

OperatorContract == Keeps(OpAt(child_), OpNext(child_), OpReset(child_))

(* The operators of src/flow return their tuples in order and then the empty *)
(* optional for good, and reset() starts them again wherever they are: a     *)
(* coroutine that is suspended in its loops with a tuple already taken from  *)
(* its children, an inner loop that has come to its end, or an operator      *)
(* whose children were read before it was built.                             *)
OperatorsStartOver ==
  /\ OperatorContract
  /\ \A i \in DOMAIN direct : direct[i] = Answer(i)

(* Where the stream starts that next() returns: an Exchange goes on where    *)
(* its operator was left, until its first reset.                             *)
Start == IF num_resets_ > 0 THEN 0
         ELSE IF Len(direct) < Len(Stream) THEN Len(direct) ELSE Len(Stream)

(* However far the child is ahead and whenever reset() is called, what       *)
(* next() has returned since is the stream from its start: nothing that was  *)
(* buffered before the reset, nothing twice and nothing left out.            *)
StreamInOrder ==
  /\ Start + Len(got) <= Len(Stream) + 1
  /\ \A i \in DOMAIN got : got[i] = Answer(Start + i)

(* next() returns, for a caller who resets the stream only at its end and    *)
(* does not read past it.                                                    *)
NextReturns == (parent = "next" /\ ~early /\ ~Ended) ~> parent = "idle"

(* The destructor returns, whatever the child is doing and whichever signals *)
(* it has still to take.                                                     *)
DestructorReturns == parent = "joining" ~> parent = "destroyed"

(* exchange_test.cc:23-27: after exchange.reset(), next() returns the tuples *)
(* again.                                                                    *)
ResetRestarts == (parent = "next" /\ ~Ended) ~> parent = "idle"
=============================================================================
