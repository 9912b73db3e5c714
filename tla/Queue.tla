-------------------------------- MODULE Queue --------------------------------
(***************************************************************************)
(* The unbounded concurrent queue of src/concurrency/queue.h: a vector and *)
(* a condition variable under one mutex.  Each action is a stretch of a    *)
(* method during which the mutex is held, so pop is a loop of PopWaits     *)
(* steps that ends with a PopTakes step.                                   *)
(***************************************************************************)
EXTENDS Sequences

CONSTANT Threads  \* the threads that call pop

VARIABLES
  xs_,  \* the elements, first in first out
  wait  \* wait[t]: "no", or where t is in data_available_.wait(l)

queueVars == <<xs_, wait>>

QueueInit ==
  /\ xs_ = << >>
  /\ wait = [t \in Threads |-> "no"]

Waiting == {t \in Threads : wait[t] = "waiting"}
Woken == {t \in Threads : wait[t] = "woken"}

(* Mutant: the notify_one is missing. *)
NotifyNone == UNCHANGED wait

(* data_available_.notify_one() *)
NotifyOne ==
  IF Waiting = {} THEN UNCHANGED wait
  ELSE \E t \in Waiting : wait' = [wait EXCEPT ![t] = "woken"]

Push(x) ==
  /\ xs_' = Append(xs_, x)
  /\ NotifyOne

(* The while loop of pop, on entry and after each wait: sleep again... *)
PopWaits(t) ==
  /\ wait[t] # "waiting"
  /\ xs_ = << >>
  /\ wait' = [wait EXCEPT ![t] = "waiting"]
  /\ UNCHANGED xs_

(* ... or take the first element, which is Head(xs_). *)
PopTakes(t) ==
  /\ wait[t] # "waiting"
  /\ xs_ # << >>
  /\ xs_' = Tail(xs_)
  /\ wait' = [wait EXCEPT ![t] = "no"]

(* try_pop of a queue that has an element, Head(xs_); of an empty one it     *)
(* returns nothing and changes nothing.                                      *)
TryPopTakes ==
  /\ xs_ # << >>
  /\ xs_' = Tail(xs_)
  /\ UNCHANGED wait

Clear ==
  /\ xs_' = << >>
  /\ UNCHANGED wait

(* A condition variable may also wake a thread nobody notified. *)
SpuriousWakeup(t) ==
  /\ wait[t] = "waiting"
  /\ wait' = [wait EXCEPT ![t] = "woken"]
  /\ UNCHANGED xs_
==============================================================================
