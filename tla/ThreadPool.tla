----------------------------- MODULE ThreadPool -----------------------------
(***************************************************************************)
(* The thread pool of src/concurrency/thread_pool.{h,cc}: num_threads      *)
(* workers that pop tasks from one Queue, and an owner that constructs the *)
(* pool, submits tasks and destroys the pool.  A task may itself submit    *)
(* one.                                                                    *)
(***************************************************************************)
EXTENDS Integers, Sequences, FiniteSets

CONSTANTS
  num_threads,
  MaxTasks  \* bound: tasks the owner submits; task i may submit task -i

ASSUME NumThreadsAssumption == num_threads \in Nat
ASSUME MaxTasksAssumption == MaxTasks \in Nat

Workers == 1..num_threads
OwnTasks == 1..MaxTasks
Tasks == OwnTasks \cup {-i : i \in OwnTasks}
Pill == 0  \* the empty optional

VARIABLES
  xs_, wait,  \* work_
  worker,     \* worker[w]: where DoWork is: not started, in pop, in (*f)(), done
  popped,     \* popped[w]: f, what w popped last
  owner,      \* where the owner is
  pills,      \* how many empty optionals the destructor has pushed
  submitted,  \* history: the tasks submitted
  late,       \* history: those submitted once the destructor had begun
  completed   \* history: the tasks that ran to their end

vars == <<xs_, wait, worker, popped, owner, pills, submitted, late, completed>>

work_ == INSTANCE Queue WITH Threads <- Workers

Init ==
  /\ work_!QueueInit
  /\ worker = [w \in Workers |-> "new"]
  /\ popped = [w \in Workers |-> Pill]
  /\ owner = "constructing"
  /\ pills = 0
  /\ submitted = {} /\ late = {} /\ completed = {}

-----------------------------------------------------------------------------
(* The owner. *)

(* ThreadPool::ThreadPool starts one thread after the other. *)
StartThread(w) ==
  /\ owner = "constructing"
  /\ worker[w] = "new"
  /\ \A v \in 1..(w - 1) : worker[v] # "new"
  /\ worker' = [worker EXCEPT ![w] = "pop"]
  /\ UNCHANGED <<xs_, wait, popped, owner, pills, submitted, late, completed>>

Constructed ==
  /\ owner = "constructing"
  /\ \A w \in Workers : worker[w] # "new"
  /\ owner' = "owning"
  /\ UNCHANGED <<xs_, wait, worker, popped, pills, submitted, late, completed>>

submit(f) ==
  /\ f \notin submitted
  /\ work_!Push(f)
  /\ submitted' = submitted \cup {f}
  /\ late' = IF owner = "owning" THEN late ELSE late \cup {f}

OwnerSubmits(f) ==
  /\ owner = "owning"
  /\ submit(f)
  /\ UNCHANGED <<worker, popped, owner, pills, completed>>

(* ThreadPool::~ThreadPool: one empty optional for each thread... *)
Destroy ==
  /\ owner = "owning"
  /\ owner' = "stopping"
  /\ UNCHANGED <<xs_, wait, worker, popped, pills, submitted, late, completed>>

(* Mutant: the loop goes once too often. *)
PushPillOneMore ==
  /\ owner = "stopping"
  /\ IF pills <= num_threads
     THEN /\ work_!Push(Pill)
          /\ pills' = pills + 1
          /\ UNCHANGED owner
     ELSE /\ owner' = "joining"
          /\ UNCHANGED <<xs_, wait, pills>>
  /\ UNCHANGED <<worker, popped, submitted, late, completed>>

(* Mutant: the loop stops one short. *)
PushPillOneShort ==
  /\ owner = "stopping"
  /\ IF pills < num_threads - 1
     THEN /\ work_!Push(Pill)
          /\ pills' = pills + 1
          /\ UNCHANGED owner
     ELSE /\ owner' = "joining"
          /\ UNCHANGED <<xs_, wait, pills>>
  /\ UNCHANGED <<worker, popped, submitted, late, completed>>

PushPill ==
  /\ owner = "stopping"
  /\ IF pills < num_threads
     THEN /\ work_!Push(Pill)
          /\ pills' = pills + 1
          /\ UNCHANGED owner
     ELSE /\ owner' = "joining"
          /\ UNCHANGED <<xs_, wait, pills>>
  /\ UNCHANGED <<worker, popped, submitted, late, completed>>

(* Mutant: the threads are detached instead of joined. *)
JoinNobody ==
  /\ owner = "joining"
  /\ owner' = "destroyed"
  /\ UNCHANGED <<xs_, wait, worker, popped, pills, submitted, late, completed>>

(* ... then join() of each of them. *)
JoinThreads ==
  /\ owner = "joining"
  /\ \A w \in Workers : worker[w] = "done"
  /\ owner' = "destroyed"
  /\ UNCHANGED <<xs_, wait, worker, popped, pills, submitted, late, completed>>

-----------------------------------------------------------------------------
(* DoWork. *)

PopWaits(w) ==
  /\ worker[w] = "pop"
  /\ work_!PopWaits(w)
  /\ UNCHANGED <<worker, popped, owner, pills, submitted, late, completed>>

(* Mutant: a worker that pops a task gives up like one that pops a pill. *)
PopTakesAndStops(w) ==
  /\ worker[w] = "pop"
  /\ work_!PopTakes(w)
  /\ popped' = [popped EXCEPT ![w] = Head(xs_)]
  /\ worker' = [worker EXCEPT ![w] = "done"]
  /\ UNCHANGED <<owner, pills, submitted, late, completed>>

PopTakes(w) ==
  /\ worker[w] = "pop"
  /\ work_!PopTakes(w)
  /\ popped' = [popped EXCEPT ![w] = Head(xs_)]
  /\ worker' = [worker EXCEPT ![w] = IF Head(xs_) = Pill THEN "done" ELSE "run"]
  /\ UNCHANGED <<owner, pills, submitted, late, completed>>

SpuriousWakeup(w) ==
  /\ work_!SpuriousWakeup(w)
  /\ UNCHANGED <<worker, popped, owner, pills, submitted, late, completed>>

(* The task submits another one while it runs. *)
TaskSubmits(w) ==
  /\ worker[w] = "run"
  /\ popped[w] \in OwnTasks
  /\ submit(-popped[w])
  /\ UNCHANGED <<worker, popped, owner, pills, completed>>

TaskEnds(w) ==
  /\ worker[w] = "run"
  /\ completed' = completed \cup {popped[w]}
  /\ worker' = [worker EXCEPT ![w] = "pop"]
  /\ UNCHANGED <<xs_, wait, popped, owner, pills, submitted, late>>

-----------------------------------------------------------------------------
Work(w) == PopWaits(w) \/ PopTakes(w) \/ TaskEnds(w)

Tear == PushPill \/ JoinThreads

(* The pool is gone and nothing happens any more. *)
Destroyed == owner = "destroyed" /\ UNCHANGED vars

Next ==
  \/ \E w \in Workers : StartThread(w) \/ Work(w) \/ SpuriousWakeup(w) \/ TaskSubmits(w)
  \/ \E f \in OwnTasks : OwnerSubmits(f)
  \/ Constructed \/ Destroy \/ Tear \/ Destroyed

(* Threads are scheduled and tasks return. *)
Spec ==
  /\ Init /\ [][Next]_vars
  /\ \A w \in Workers : WF_vars(Work(w))
  /\ WF_vars(Tear)

-----------------------------------------------------------------------------
TypeOK ==
  /\ xs_ \in Seq(Tasks \cup {Pill})
  /\ wait \in [Workers -> {"no", "waiting", "woken"}]
  /\ worker \in [Workers -> {"new", "pop", "run", "done"}]
  /\ popped \in [Workers -> Tasks \cup {Pill}]
  /\ owner \in {"constructing", "owning", "stopping", "joining", "destroyed"}
  /\ pills \in 0..num_threads
  /\ submitted \subseteq Tasks /\ late \subseteq submitted /\ completed \subseteq submitted

(* No wakeup is lost: while a worker sleeps in pop, every queued item has a  *)
(* worker of its own that has been woken and not yet returned from wait().   *)
(* notify_one is enough, and items cannot sit in the queue while all sleep.  *)
NoLostWakeup ==
  work_!Waiting # {} => Len(xs_) <= Cardinality(work_!Woken)

(* When the destructor returns, every task submitted before it was called    *)
(* has run, no matter how many threads there are and which of them still had *)
(* to be woken: the empty optionals are behind the tasks in the queue.       *)
SubmittedTasksRun ==
  owner = "destroyed" /\ num_threads > 0 => submitted \ late \subseteq completed

(* The destructor returns: every worker gets its empty optional. *)
DestructorReturns == owner = "stopping" ~> owner = "destroyed"
=============================================================================
