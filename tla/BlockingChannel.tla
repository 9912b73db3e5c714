--------------------------- MODULE BlockingChannel ---------------------------
(***************************************************************************)
(* What BoundedQueue promises its callers, with no word about locks and    *)
(* condition variables: a first in first out channel of limited capacity   *)
(* whose push waits for space and whose pop waits for data.                *)
(***************************************************************************)
EXTENDS Integers, Sequences

CONSTANTS Threads, Values, capacity_

VARIABLES
  xs_,   \* the elements
  call,  \* call[t]: the push or pop that t has called and that has not returned
  ret    \* what the last pop or try_pop returned

channelVars == <<xs_, call, ret>>

None == 0  \* the empty optional, and the result when there is none yet
NoCall == [op |-> "none"]
PushCall(x) == [op |-> "push", x |-> x]
PopCall == [op |-> "pop"]

ChannelInit ==
  /\ xs_ = << >>
  /\ call = [t \in Threads |-> NoCall]
  /\ ret = None

Call(t) ==
  /\ call[t] = NoCall
  /\ \E c \in {PushCall(x) : x \in Values} \cup {PopCall} : call' = [call EXCEPT ![t] = c]
  /\ UNCHANGED <<xs_, ret>>

Return(t) == call' = [call EXCEPT ![t] = NoCall]

PushReturns(t) ==
  /\ call[t].op = "push" /\ Len(xs_) < capacity_
  /\ xs_' = Append(xs_, call[t].x)
  /\ Return(t) /\ UNCHANGED ret

PopReturns(t) ==
  /\ call[t].op = "pop" /\ xs_ # << >>
  /\ ret' = Head(xs_) /\ xs_' = Tail(xs_)
  /\ Return(t)

TryPop ==
  /\ IF xs_ = << >> THEN ret' = None /\ UNCHANGED xs_
                    ELSE ret' = Head(xs_) /\ xs_' = Tail(xs_)
  /\ UNCHANGED call

Clear == xs_' = << >> /\ UNCHANGED <<call, ret>>

ChannelNext ==
  \/ \E t \in Threads : Call(t) \/ PushReturns(t) \/ PopReturns(t)
  \/ TryPop \/ Clear

(* Elements leave in the order they came and never are there more than       *)
(* capacity_.                                                                *)
ChannelSafety == ChannelInit /\ [][ChannelNext]_channelVars

(* While there is space, some push returns; while there is data, some pop.   *)
(* Which one is not said: a caller may be overtaken for ever.                *)
ChannelSpec ==
  /\ ChannelSafety
  /\ WF_channelVars(\E t \in Threads : PushReturns(t))
  /\ WF_channelVars(\E t \in Threads : PopReturns(t))
==============================================================================
