------------------------------- MODULE Barrier -------------------------------
(***************************************************************************)
(* The one-shot barrier of src/concurrency/barrier.{h,cc}: a counter and a *)
(* condition variable under one mutex.  Each action is a stretch of        *)
(* enter() during which the mutex is held.                                 *)
(***************************************************************************)
EXTENDS Integers

CONSTANTS
  Threads,    \* the threads that enter the barrier
  threshold_  \* the constructor's argument

VARIABLES
  count_,  \* how many threads have entered
  at       \* where each thread is: outside, in wait(), notified, or released

barrierVars == <<count_, at>>

BarrierTypeOK ==
  /\ count_ \in Nat
  /\ at \in [Threads -> {"out", "waiting", "woken", "released"}]

BarrierInit ==
  /\ count_ = 0
  /\ at = [t \in Threads |-> "out"]

(* Mutant: the notify_all is missing. *)
EnterSilently(t) ==
  /\ at[t] = "out"
  /\ count_' = count_ + 1
  /\ at' = [at EXCEPT ![t] = IF count_ + 1 >= threshold_ THEN "released" ELSE "waiting"]

(* enter() up to its first wait() or its return: the thread that reaches the *)
(* threshold notifies all and leaves, the others wait.                       *)
Enter(t) ==
  /\ at[t] = "out"
  /\ count_' = count_ + 1
  /\ at' = IF count_ + 1 >= threshold_
           THEN [u \in Threads |-> IF u = t THEN "released"
                                   ELSE IF at[u] = "waiting" THEN "woken"
                                   ELSE at[u]]
           ELSE [at EXCEPT ![t] = "waiting"]

(* A condition variable may also wake a thread nobody notified. *)
SpuriousWakeup(t) ==
  /\ at[t] = "waiting"
  /\ at' = [at EXCEPT ![t] = "woken"]
  /\ UNCHANGED count_

(* Mutant: an if around wait() in place of the while. *)
RecheckOnce(t) ==
  /\ at[t] = "woken"
  /\ at' = [at EXCEPT ![t] = "released"]
  /\ UNCHANGED count_

(* wait() returns with the mutex held: the while condition is tested again. *)
Recheck(t) ==
  /\ at[t] = "woken"
  /\ at' = [at EXCEPT ![t] = IF count_ < threshold_ THEN "waiting" ELSE "released"]
  /\ UNCHANGED count_
==============================================================================
