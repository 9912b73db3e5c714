---------------------------- MODULE BoundedQueue -----------------------------
(***************************************************************************)
(* The bounded queue of src/concurrency/bounded_queue.h: a vector, a mutex *)
(* and two condition variables, used by threads that call any method at    *)
(* any time.  As in Queue, an action is a stretch of a method during which *)
(* the mutex is held: push and pop are loops of waits that end with the    *)
(* step that returns.                                                      *)
(***************************************************************************)
EXTENDS Integers, Sequences, FiniteSets

CONSTANTS Threads, Values, capacity_

(* The constructor's TODO: with a capacity of 0 every push waits for ever. *)
ASSUME CapacityAssumption == capacity_ \in Nat \ {0}
ASSUME ValuesAssumption == 0 \notin Values
ASSUME ThreadsAssumption == IsFiniteSet(Threads)

VARIABLES
  xs_,   \* the elements
  call,  \* call[t]: the push or pop that t is in
  ret,   \* history: what the last pop or try_pop returned
  wait   \* wait[t]: "no", or where t is in its condition variable's wait(l):
         \* space_available_ for a push, data_available_ for a pop

vars == <<xs_, call, ret, wait>>

Channel == INSTANCE BlockingChannel

Init == Channel!ChannelInit /\ wait = [t \in Threads |-> "no"]

In(op) == {t \in Threads : call[t].op = op}
Waiting(op) == {t \in In(op) : wait[t] = "waiting"}
Woken(op) == {t \in In(op) : wait[t] = "woken"}

(* wait' after a notify_one, or a notify_all, of the condition variable of   *)
(* op, when the caller leaves its own wait as w.                             *)
Notify(op, w) ==
  IF Waiting(op) = {} THEN wait' = w
  ELSE \E t \in Waiting(op) : wait' = [w EXCEPT ![t] = "woken"]

NotifyAll(op) == wait' = [t \in Threads |-> IF t \in Waiting(op) THEN "woken" ELSE wait[t]]

(* t is awake: it has just called, or a wait has returned. *)
Awake(t, op) == t \in In(op) /\ wait[t] # "waiting"
Leave(t) == [wait EXCEPT ![t] = "no"]

-----------------------------------------------------------------------------
Call(t) == Channel!Call(t) /\ UNCHANGED wait

(* The loops: wait for space, or for data. *)
PushWaits(t) ==
  /\ Awake(t, "push") /\ Len(xs_) = capacity_
  /\ wait' = [wait EXCEPT ![t] = "waiting"]
  /\ UNCHANGED <<xs_, call, ret>>

PopWaits(t) ==
  /\ Awake(t, "pop") /\ xs_ = << >>
  /\ wait' = [wait EXCEPT ![t] = "waiting"]
  /\ UNCHANGED <<xs_, call, ret>>

(* Mutant: push notifies only when the queue was empty. *)
PushAddsNotifiesFirst(t) ==
  /\ Awake(t, "push") /\ Len(xs_) # capacity_
  /\ xs_' = Append(xs_, call[t].x)
  /\ Channel!Return(t) /\ UNCHANGED ret
  /\ IF xs_ = << >> THEN Notify("pop", Leave(t)) ELSE wait' = Leave(t)

PushAdds(t) ==
  /\ Awake(t, "push") /\ Len(xs_) # capacity_
  /\ xs_' = Append(xs_, call[t].x)
  /\ Channel!Return(t) /\ UNCHANGED ret
  /\ Notify("pop", Leave(t))

PopTakes(t) ==
  /\ Awake(t, "pop") /\ xs_ # << >>
  /\ ret' = Head(xs_) /\ xs_' = Tail(xs_)
  /\ Channel!Return(t)
  /\ Notify("push", Leave(t))

TryPop ==
  /\ IF xs_ # << >> THEN ret' = Head(xs_) /\ xs_' = Tail(xs_) /\ Notify("push", wait)
                    ELSE ret' = Channel!None /\ UNCHANGED <<xs_, wait>>
  /\ UNCHANGED call

(* Mutant: clear notifies like pop. *)
ClearNotifiesOne ==
  /\ xs_' = << >>
  /\ Notify("push", wait)
  /\ UNCHANGED <<call, ret>>

Clear ==
  /\ xs_' = << >>
  /\ NotifyAll("push")
  /\ UNCHANGED <<call, ret>>

SpuriousWakeup(t) ==
  /\ wait[t] = "waiting"
  /\ wait' = [wait EXCEPT ![t] = "woken"]
  /\ UNCHANGED <<xs_, call, ret>>

-----------------------------------------------------------------------------
Step(t) == PushWaits(t) \/ PushAdds(t) \/ PopWaits(t) \/ PopTakes(t)

Next ==
  \/ \E t \in Threads : Call(t) \/ Step(t) \/ SpuriousWakeup(t)
  \/ TryPop \/ Clear

(* A thread inside a call runs on when it can; nobody has to call anything.  *)
Spec == Init /\ [][Next]_vars /\ \A t \in Threads : WF_vars(Step(t))

-----------------------------------------------------------------------------
(* notify_one is enough on both sides, although clear empties the queue in   *)
(* one step and callers that never waited take what a woken thread was woken *)
(* for: while a push waits, every free place has a push that was woken for   *)
(* it, and while a pop waits, every element has a pop that was.              *)
NoLostWakeup ==
  /\ Waiting("push") # {} => capacity_ - Len(xs_) <= Cardinality(Woken("push"))
  /\ Waiting("pop") # {} => Len(xs_) <= Cardinality(Woken("pop"))

(* The queue is the channel of BlockingChannel: elements leave in the order  *)
(* they came, never more than capacity_ of them are there, and no push or    *)
(* pop waits for ever while all others do too and it could return.           *)
ImplementsChannel == Channel!ChannelSpec
==============================================================================
