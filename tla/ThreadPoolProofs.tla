--------------------------- MODULE ThreadPoolProofs ---------------------------
(***************************************************************************)
(* Proofs about ThreadPool, for any number of threads and of tasks: no     *)
(* wakeup is lost, and every task submitted before the destructor has run  *)
(* when it returns.                                                        *)
(***************************************************************************)
EXTENDS ThreadPool, FiniteSetTheorems, TLAPS

(* Counting: what one element more, one less, or none does to a set's size.  *)
LEMMA Counts ==
  ASSUME NEW S, NEW T, IsFiniteSet(S), IsFiniteSet(T)
  PROVE  /\ Cardinality(S) \in Nat /\ Cardinality(T) \in Nat
         /\ S \subseteq T => Cardinality(S) <= Cardinality(T)
         /\ \A t : S \ {t} \subseteq T => Cardinality(S) - 1 <= Cardinality(T)
         /\ \A t : t \notin S /\ S \cup {t} \subseteq T => Cardinality(S) + 1 <= Cardinality(T)
<1>1. Cardinality(S) \in Nat /\ Cardinality(T) \in Nat
      BY FS_CardinalityType
<1>2. S \subseteq T => Cardinality(S) <= Cardinality(T)
      BY FS_Subset
<1>3. ASSUME NEW t, S \ {t} \subseteq T PROVE Cardinality(S) - 1 <= Cardinality(T)
  <2>1. /\ Cardinality(S \ {t}) \in {Cardinality(S) - 1, Cardinality(S)}
        /\ Cardinality(S \ {t}) <= Cardinality(T)
        BY <1>3, FS_RemoveElement, FS_Subset
  <2>2. QED  BY <1>1, <2>1
<1>4. ASSUME NEW t, t \notin S, S \cup {t} \subseteq T
      PROVE  Cardinality(S) + 1 <= Cardinality(T)
  <2>1. Cardinality(S \cup {t}) = Cardinality(S) + 1
        BY <1>4, FS_AddElement
  <2>2. Cardinality(S \cup {t}) <= Cardinality(T)
        BY <1>4, FS_Subset
  <2>3. QED  BY <2>1, <2>2
<1>5. QED  BY <1>1, <1>2, <1>3, <1>4

(* Nothing runs that was not submitted: TypeOK alone does not say that what  *)
(* is in the queue or being run is a submitted task, and completed needs it. *)
Known ==
  /\ \A i \in 1..Len(xs_) : xs_[i] \in submitted \cup {Pill}
  /\ \A w \in Workers : worker[w] = "run" => popped[w] \in submitted

TypeInv == TypeOK /\ Known

USE NumThreadsAssumption, MaxTasksAssumption

-----------------------------------------------------------------------------
(* The type invariant.                                                     *)

LEMMA TaskFacts ==
  /\ Workers \subseteq Nat /\ OwnTasks \subseteq Tasks /\ Pill \notin Tasks
  /\ \A f \in OwnTasks : -f \in Tasks
BY DEF Workers, OwnTasks, Tasks, Pill

LEMMA NotifyType ==
  ASSUME TypeOK, work_!NotifyOne
  PROVE  wait' \in [Workers -> {"no", "waiting", "woken"}]
BY DEF work_!NotifyOne, work_!Waiting, TypeOK

(* Both submits and the pills put one element behind the others.             *)
LEMMA PushShape ==
  ASSUME TypeOK, NEW x \in Tasks \cup {Pill}, work_!Push(x)
  PROVE  /\ xs_' \in Seq(Tasks \cup {Pill}) /\ Len(xs_') = Len(xs_) + 1 /\ Len(xs_) \in Nat
         /\ xs_'[Len(xs_) + 1] = x /\ \A i \in 1..Len(xs_) : xs_'[i] = xs_[i]
         /\ wait' \in [Workers -> {"no", "waiting", "woken"}]
BY NotifyType DEF work_!Push, TypeOK

LEMMA PopShape ==
  ASSUME TypeOK, NEW w \in Workers, work_!PopTakes(w)
  PROVE  /\ xs_' \in Seq(Tasks \cup {Pill}) /\ Len(xs_') = Len(xs_) - 1 /\ Len(xs_) \in Nat \ {0}
         /\ Head(xs_) = xs_[1] /\ \A i \in 1..Len(xs_') : xs_'[i] = xs_[i + 1]
         /\ wait' \in [Workers -> {"no", "waiting", "woken"}]
BY DEF work_!PopTakes, TypeOK

LEMMA TypeInit == Init => TypeInv
BY TaskFacts DEF Init, work_!QueueInit, TypeInv, TypeOK, Known

LEMMA SubmitType ==
  ASSUME TypeInv, NEW f \in Tasks, submit(f), UNCHANGED <<worker, popped, owner, pills, completed>>
  PROVE  TypeInv'
<1>1. /\ xs_' \in Seq(Tasks \cup {Pill}) /\ Len(xs_') = Len(xs_) + 1 /\ Len(xs_) \in Nat
      /\ xs_'[Len(xs_) + 1] = f /\ \A i \in 1..Len(xs_) : xs_'[i] = xs_[i]
      /\ wait' \in [Workers -> {"no", "waiting", "woken"}]
      BY PushShape DEF submit, TypeInv
<1>2. submitted' = submitted \cup {f} /\ late' \subseteq late \cup {f}
      BY DEF submit
<1>3. TypeOK'
      BY <1>1, <1>2 DEF TypeInv, TypeOK
<1>4. Known'
      BY <1>1, <1>2 DEF TypeInv, Known
<1>5. QED  BY <1>3, <1>4 DEF TypeInv

LEMMA TypeNext == TypeInv /\ [Next]_vars => TypeInv'
<1> SUFFICES ASSUME TypeInv, [Next]_vars PROVE TypeInv'
    OBVIOUS
<1>1. ASSUME NEW w \in Workers, StartThread(w) PROVE TypeInv'
      BY <1>1 DEF StartThread, TypeInv, TypeOK, Known
<1>2. ASSUME NEW w \in Workers, PopWaits(w) PROVE TypeInv'
      BY <1>2 DEF PopWaits, work_!PopWaits, TypeInv, TypeOK, Known
<1>3. ASSUME NEW w \in Workers, PopTakes(w) PROVE TypeInv'
  <2>1. /\ xs_' \in Seq(Tasks \cup {Pill}) /\ Len(xs_') = Len(xs_) - 1 /\ Len(xs_) \in Nat \ {0}
        /\ Head(xs_) = xs_[1] /\ \A i \in 1..Len(xs_') : xs_'[i] = xs_[i + 1]
        /\ wait' \in [Workers -> {"no", "waiting", "woken"}]
        BY <1>3, PopShape DEF PopTakes, TypeInv
  <2>2. /\ popped' = [popped EXCEPT ![w] = xs_[1]]
        /\ worker' = [worker EXCEPT ![w] = IF xs_[1] = Pill THEN "done" ELSE "run"]
        /\ UNCHANGED <<owner, pills, submitted, late, completed>>
        BY <1>3, <2>1 DEF PopTakes
  <2>3. xs_[1] \in submitted \cup {Pill} /\ \A i \in 1..Len(xs_') : xs_'[i] \in submitted \cup {Pill}
        BY <2>1 DEF TypeInv, Known
  <2>4. TypeOK'
        BY <2>1, <2>2, <2>3 DEF TypeInv, TypeOK
  <2>5. Known'
        BY <2>2, <2>3 DEF TypeInv, TypeOK, Known
  <2>6. QED  BY <2>4, <2>5 DEF TypeInv
<1>4. ASSUME NEW w \in Workers, TaskEnds(w) PROVE TypeInv'
      BY <1>4 DEF TaskEnds, TypeInv, TypeOK, Known
<1>5. ASSUME NEW w \in Workers, SpuriousWakeup(w) PROVE TypeInv'
      BY <1>5 DEF SpuriousWakeup, work_!SpuriousWakeup, TypeInv, TypeOK, Known
<1>6. ASSUME NEW w \in Workers, TaskSubmits(w) PROVE TypeInv'
  <2>1. -popped[w] \in Tasks
        BY <1>6, TaskFacts DEF TaskSubmits
  <2>2. QED  BY <1>6, <2>1, SubmitType DEF TaskSubmits
<1>7. ASSUME NEW f \in OwnTasks, OwnerSubmits(f) PROVE TypeInv'
      BY <1>7, TaskFacts, SubmitType DEF OwnerSubmits
<1>8. CASE Constructed \/ Destroy \/ JoinThreads
      BY <1>8 DEF Constructed, Destroy, JoinThreads, TypeInv, TypeOK, Known
<1>9. CASE PushPill
  <2>1. CASE pills < num_threads
    <3>1. work_!Push(Pill) /\ pills' = pills + 1
          /\ UNCHANGED <<worker, popped, owner, submitted, late, completed>>
          BY <1>9, <2>1 DEF PushPill
    <3>2. /\ xs_' \in Seq(Tasks \cup {Pill}) /\ Len(xs_') = Len(xs_) + 1 /\ Len(xs_) \in Nat
          /\ xs_'[Len(xs_) + 1] = Pill /\ \A i \in 1..Len(xs_) : xs_'[i] = xs_[i]
          /\ wait' \in [Workers -> {"no", "waiting", "woken"}]
          BY <3>1, PushShape DEF TypeInv
    <3>3. TypeOK'
          BY <2>1, <3>1, <3>2 DEF TypeInv, TypeOK
    <3>4. Known'
          BY <3>1, <3>2 DEF TypeInv, Known
    <3>5. QED  BY <3>3, <3>4 DEF TypeInv
  <2>2. CASE ~(pills < num_threads)
        BY <1>9, <2>2 DEF PushPill, TypeInv, TypeOK, Known
  <2>3. QED  BY <2>1, <2>2
<1>10. CASE UNCHANGED vars
      BY <1>10 DEF vars, TypeInv, TypeOK, Known
<1>11. QED
      BY <1>1, <1>2, <1>3, <1>4, <1>5, <1>6, <1>7, <1>8, <1>9, <1>10 DEF Next, Work, Tear, Destroyed

(* The pool keeps its types; in particular every task that ran to its end    *)
(* was submitted.                                                            *)
THEOREM TypeCorrect == Spec => []TypeOK
<1>1. TypeInv => TypeOK
      BY DEF TypeInv
<1>2. QED  BY <1>1, TypeInit, TypeNext, PTL DEF Spec

-----------------------------------------------------------------------------
(* No lost wakeup.                                                         *)

LEMMA WokenFinite == IsFiniteSet(work_!Woken) /\ IsFiniteSet(work_!Woken')
<1>1. work_!Woken \in SUBSET Workers /\ work_!Woken' \in SUBSET Workers
      BY DEF work_!Woken
<1>2. IsFiniteSet(Workers)
      BY FS_Interval DEF Workers
<1>3. QED  BY <1>1, <1>2, FS_Subset

(* A push leaves nobody less awake and, if somebody was waiting, wakes one.  *)
LEMMA PushWakes ==
  ASSUME TypeOK, NoLostWakeup, NEW x \in Tasks \cup {Pill}, work_!Push(x)
  PROVE  NoLostWakeup'
<1>1. Len(xs_') = Len(xs_) + 1 /\ Len(xs_) \in Nat
      BY PushShape
<1>2. CASE work_!Waiting = {}
  <2>1. work_!Waiting' = {}
        BY <1>2 DEF work_!Push, work_!NotifyOne, work_!Waiting
  <2>2. QED  BY <2>1 DEF NoLostWakeup
<1>3. CASE work_!Waiting # {}
  <2>1. PICK u \in work_!Waiting : wait' = [wait EXCEPT ![u] = "woken"]
        BY <1>3 DEF work_!Push, work_!NotifyOne
  <2>2. u \notin work_!Woken /\ work_!Woken \cup {u} \subseteq work_!Woken'
        BY <2>1 DEF work_!Waiting, work_!Woken, TypeOK
  <2>3. Cardinality(work_!Woken) + 1 <= Cardinality(work_!Woken') /\ Cardinality(work_!Woken) \in Nat
        BY <2>2, WokenFinite, Counts
  <2>4. Cardinality(work_!Woken') \in Nat
        BY WokenFinite, Counts
  <2>5. QED  BY <1>1, <1>3, <2>3, <2>4 DEF NoLostWakeup
<1>4. QED  BY <1>2, <1>3

LEMMA WakeupInit == Init => NoLostWakeup
BY DEF Init, work_!QueueInit, NoLostWakeup, work_!Waiting

LEMMA WakeupNext == TypeOK /\ NoLostWakeup /\ [Next]_vars => NoLostWakeup'
<1> SUFFICES ASSUME TypeOK, NoLostWakeup, [Next]_vars PROVE NoLostWakeup'
    OBVIOUS
<1>a. Cardinality(work_!Woken) \in Nat /\ Cardinality(work_!Woken') \in Nat /\ Len(xs_) \in Nat
      BY WokenFinite, Counts DEF TypeOK
<1>1. ASSUME UNCHANGED <<xs_, wait>> PROVE NoLostWakeup'
      BY <1>1 DEF NoLostWakeup, work_!Waiting, work_!Woken
<1>2. ASSUME NEW w \in Workers, PopWaits(w) PROVE NoLostWakeup'
  <2>1. Len(xs_') = 0
        BY <1>2 DEF PopWaits, work_!PopWaits
  <2>2. QED  BY <1>a, <2>1 DEF NoLostWakeup
<1>3. ASSUME NEW w \in Workers, PopTakes(w) PROVE NoLostWakeup'
  <2>1. Len(xs_') = Len(xs_) - 1
        BY <1>3, PopShape DEF PopTakes
  <2>2. work_!Waiting' \subseteq work_!Waiting /\ work_!Woken \ {w} \subseteq work_!Woken'
        BY <1>3 DEF PopTakes, work_!PopTakes, work_!Waiting, work_!Woken, TypeOK
  <2>3. Cardinality(work_!Woken) - 1 <= Cardinality(work_!Woken')
        BY <2>2, WokenFinite, Counts
  <2>4. QED  BY <1>a, <2>1, <2>2, <2>3 DEF NoLostWakeup
<1>4. ASSUME NEW w \in Workers, SpuriousWakeup(w) PROVE NoLostWakeup'
  <2>1. /\ UNCHANGED xs_
        /\ work_!Waiting' \subseteq work_!Waiting /\ work_!Woken \subseteq work_!Woken'
        BY <1>4 DEF SpuriousWakeup, work_!SpuriousWakeup, work_!Waiting, work_!Woken, TypeOK
  <2>2. Cardinality(work_!Woken) <= Cardinality(work_!Woken')
        BY <2>1, WokenFinite, Counts
  <2>3. QED  BY <1>a, <2>1, <2>2 DEF NoLostWakeup
<1>5. ASSUME NEW w \in Workers, TaskSubmits(w) PROVE NoLostWakeup'
      BY <1>5, TaskFacts, PushWakes DEF TaskSubmits, submit
<1>6. ASSUME NEW f \in OwnTasks, OwnerSubmits(f) PROVE NoLostWakeup'
      BY <1>6, TaskFacts, PushWakes DEF OwnerSubmits, submit
<1>7. CASE PushPill
      BY <1>1, <1>7, PushWakes DEF PushPill
<1>8. QED
      BY <1>1, <1>2, <1>3, <1>4, <1>5, <1>6, <1>7
      DEF Next, Work, Tear, StartThread, TaskEnds, Constructed, Destroy, JoinThreads, Destroyed, vars

(* The one notify_one of Queue::push is enough for the pool: while a worker  *)
(* sleeps in pop, every queued item has a woken worker.                      *)
THEOREM WakeupsSuffice == Spec => []NoLostWakeup
<1>1. TypeInv => TypeOK
      BY DEF TypeInv
<1>2. QED  BY <1>1, TypeInit, TypeNext, WakeupInit, WakeupNext, PTL DEF Spec

-----------------------------------------------------------------------------
(* The destructor waits for the tasks.                                     *)

Started(f) == f \in completed \/ \E w \in Workers : worker[w] = "run" /\ popped[w] = f

(* f is in the queue and no empty optional is in front of it.                *)
BeforePills(f) == \E i \in 1..Len(xs_) : xs_[i] = f /\ \A j \in 1..i : xs_[j] # Pill

InTime == submitted \ late

(* A worker that is done has popped an empty optional, and these are behind  *)
(* every task submitted in time.                                             *)
PillsBehind ==
  /\ owner \in {"constructing", "owning"} => /\ \A i \in 1..Len(xs_) : xs_[i] # Pill
                                             /\ \A w \in Workers : worker[w] # "done"
  /\ \A f \in InTime : Started(f) \/ BeforePills(f)
  /\ (\E w \in Workers : worker[w] = "done") => \A f \in InTime : Started(f)
  /\ owner = "destroyed" => \A w \in Workers : worker[w] = "done"

(* An element put behind the others leaves what is before the pills there.   *)
LEMMA BeforePillsStays ==
  ASSUME Len(xs_) \in Nat, Len(xs_') = Len(xs_) + 1,
         \A i \in 1..Len(xs_) : xs_'[i] = xs_[i],
         NEW f, BeforePills(f)
  PROVE  BeforePills(f)'
<1>1. PICK i \in 1..Len(xs_) : xs_[i] = f /\ \A j \in 1..i : xs_[j] # Pill
      BY DEF BeforePills
<1>2. \A j \in 1..i : j \in 1..Len(xs_) /\ xs_'[j] = xs_[j]
      BY <1>1
<1>3. i \in 1..Len(xs_')
      BY <1>1
<1>4. QED  BY <1>1, <1>2, <1>3 DEF BeforePills

LEMMA PillsInit == Init => PillsBehind
BY DEF Init, work_!QueueInit, PillsBehind, InTime

LEMMA SubmitPills ==
  ASSUME TypeOK, PillsBehind, NEW f \in Tasks, submit(f),
         UNCHANGED <<worker, popped, owner, pills, completed>>
  PROVE  PillsBehind'
<1>1. /\ Len(xs_') = Len(xs_) + 1 /\ Len(xs_) \in Nat
      /\ xs_'[Len(xs_) + 1] = f /\ \A i \in 1..Len(xs_) : xs_'[i] = xs_[i]
      BY PushShape DEF submit
<1>2. \A g : Started(g) => Started(g)'
      BY DEF Started
<1>3. \A g : BeforePills(g) => BeforePills(g)'
      BY <1>1, BeforePillsStays
<1>4. f # Pill
      BY TaskFacts
<1>5. CASE owner = "owning"
  <2>1. \A i \in 1..Len(xs_') : xs_'[i] # Pill
        BY <1>1, <1>4, <1>5 DEF PillsBehind
  <2>2. BeforePills(f)'
    <3>1. Len(xs_') \in 1..Len(xs_') /\ xs_'[Len(xs_')] = f
          BY <1>1
    <3>2. QED  BY <2>1, <3>1 DEF BeforePills
  <2>3. InTime' \subseteq InTime \cup {f}
        BY <1>5 DEF submit, InTime
  <2>4. \A w \in Workers : worker'[w] # "done"
        BY <1>5 DEF PillsBehind
  <2>5. QED  BY <1>2, <1>3, <1>5, <2>1, <2>2, <2>3, <2>4 DEF PillsBehind
<1>6. CASE owner # "owning"
  <2>1. InTime' = InTime
        BY <1>6 DEF submit, InTime, TypeOK
  <2>2. owner' \in {"constructing", "owning"} => \A i \in 1..Len(xs_') : xs_'[i] # Pill
        BY <1>1, <1>4 DEF PillsBehind
  <2>3. QED  BY <1>2, <1>3, <2>1, <2>2 DEF PillsBehind
<1>7. QED  BY <1>5, <1>6

LEMMA PopPills ==
  ASSUME TypeOK, PillsBehind, NEW w \in Workers, PopTakes(w)
  PROVE  PillsBehind'
<1>1. /\ Len(xs_') = Len(xs_) - 1 /\ Len(xs_) \in Nat \ {0}
      /\ Head(xs_) = xs_[1] /\ \A i \in 1..Len(xs_') : xs_'[i] = xs_[i + 1]
      BY PopShape DEF PopTakes
<1>2. /\ worker[w] = "pop"
      /\ worker'[w] = IF xs_[1] = Pill THEN "done" ELSE "run"
      /\ popped'[w] = xs_[1]
      /\ \A v \in Workers \ {w} : worker'[v] = worker[v] /\ popped'[v] = popped[v]
      /\ UNCHANGED <<owner, submitted, late, completed>>
      BY <1>1 DEF PopTakes, TypeOK
<1>3. \A f : Started(f) => Started(f)'
      BY <1>2 DEF Started
<1>4. ASSUME NEW f, BeforePills(f) PROVE xs_[1] # Pill /\ (Started(f)' \/ BeforePills(f)')
  <2>1. PICK i \in 1..Len(xs_) : xs_[i] = f /\ \A j \in 1..i : xs_[j] # Pill
        BY <1>4 DEF BeforePills
  <2>2. xs_[1] # Pill
        BY <2>1
  <2>3. CASE i = 1
        BY <1>2, <2>1, <2>2, <2>3 DEF Started
  <2>4. CASE i # 1
    <3>1. i - 1 \in 1..Len(xs_') /\ xs_'[i - 1] = xs_[i]
          BY <1>1, <2>1, <2>4
    <3>2. \A j \in 1..(i - 1) : j + 1 \in 1..i /\ xs_'[j] = xs_[j + 1]
          BY <1>1, <2>1
    <3>3. BeforePills(f)'
          BY <2>1, <3>1, <3>2 DEF BeforePills
    <3>4. QED  BY <2>2, <3>3
  <2>5. QED  BY <2>2, <2>3, <2>4
<1>5. InTime' = InTime
      BY <1>2 DEF InTime
<1>6. ASSUME owner' \in {"constructing", "owning"}
      PROVE  /\ \A i \in 1..Len(xs_') : xs_'[i] # Pill
             /\ \A v \in Workers : worker'[v] # "done"
  <2>1. /\ \A i \in 1..Len(xs_) : xs_[i] # Pill
        /\ \A v \in Workers : worker[v] # "done"
        BY <1>2, <1>6 DEF PillsBehind
  <2>2. 1 \in 1..Len(xs_) /\ \A i \in 1..Len(xs_') : i + 1 \in 1..Len(xs_)
        BY <1>1
  <2>3. QED  BY <1>1, <1>2, <2>1, <2>2
<1>7. \A f \in InTime' : Started(f)' \/ BeforePills(f)'
      BY <1>3, <1>4, <1>5 DEF PillsBehind
<1>8. ASSUME NEW v \in Workers, worker'[v] = "done", NEW f \in InTime' PROVE Started(f)'
  <2>1. CASE xs_[1] = Pill
        BY <1>3, <1>4, <1>5, <1>8, <2>1 DEF PillsBehind
  <2>2. CASE xs_[1] # Pill
    <3>1. worker[v] = "done"
          BY <1>2, <1>8, <2>2
    <3>2. QED  BY <1>3, <1>5, <1>8, <3>1 DEF PillsBehind
  <2>3. QED  BY <2>1, <2>2
<1>9. owner' # "destroyed"
      BY <1>2 DEF PillsBehind
<1>10. QED  BY <1>6, <1>7, <1>8, <1>9 DEF PillsBehind

LEMMA PillsNext == TypeOK /\ PillsBehind /\ [Next]_vars => PillsBehind'
<1> SUFFICES ASSUME TypeOK, PillsBehind, [Next]_vars PROVE PillsBehind'
    OBVIOUS
<1>1. ASSUME NEW w \in Workers, StartThread(w) PROVE PillsBehind'
      BY <1>1 DEF StartThread, TypeOK, PillsBehind, InTime, Started, BeforePills
<1>2. ASSUME UNCHANGED <<xs_, worker, popped, owner, submitted, late, completed>> PROVE PillsBehind'
      BY <1>2 DEF PillsBehind, InTime, Started, BeforePills
<1>3. ASSUME NEW w \in Workers, TaskEnds(w) PROVE PillsBehind'
  <2>1. \A f : Started(f) => Started(f)'
        BY <1>3 DEF TaskEnds, Started, TypeOK
  <2>2. \A v \in Workers : worker'[v] = "done" <=> worker[v] = "done"
        BY <1>3 DEF TaskEnds, TypeOK
  <2>3. UNCHANGED <<xs_, owner, submitted, late>>
        BY <1>3 DEF TaskEnds
  <2>4. QED  BY <2>1, <2>2, <2>3 DEF PillsBehind, InTime, BeforePills
<1>4. ASSUME NEW w \in Workers, TaskSubmits(w) PROVE PillsBehind'
      BY <1>4, TaskFacts, SubmitPills DEF TaskSubmits
<1>5. ASSUME NEW f \in OwnTasks, OwnerSubmits(f) PROVE PillsBehind'
      BY <1>5, TaskFacts, SubmitPills DEF OwnerSubmits
<1>6. CASE PushPill
  <2>1. CASE pills < num_threads
    <3>1. work_!Push(Pill) /\ owner = "stopping"
          /\ UNCHANGED <<worker, popped, owner, submitted, late, completed>>
          BY <1>6, <2>1 DEF PushPill
    <3>2. \A f : BeforePills(f) => BeforePills(f)'
          BY <3>1, PushShape, BeforePillsStays
    <3>3. QED  BY <3>1, <3>2 DEF PillsBehind, InTime, Started
  <2>2. CASE ~(pills < num_threads)
        BY <1>6, <2>2 DEF PushPill, PillsBehind, InTime, Started, BeforePills
  <2>3. QED  BY <2>1, <2>2
<1>7. CASE Constructed \/ Destroy \/ JoinThreads
      BY <1>7 DEF Constructed, Destroy, JoinThreads, PillsBehind, InTime, Started, BeforePills
<1>8. ASSUME NEW w \in Workers, PopTakes(w) PROVE PillsBehind'
      BY <1>8, PopPills
<1>9. QED
      BY <1>1, <1>2, <1>3, <1>4, <1>5, <1>6, <1>7, <1>8
      DEF Next, Work, Tear, PopWaits, SpuriousWakeup, work_!PopWaits, work_!SpuriousWakeup,
          Destroyed, vars

(* When ~ThreadPool returns, every task submitted before it was called has   *)
(* run to its end, for any number of threads but 0.                          *)
THEOREM TasksRun == Spec => []SubmittedTasksRun
<1>1. PillsBehind => SubmittedTasksRun
  <2> SUFFICES ASSUME PillsBehind, owner = "destroyed", num_threads > 0, NEW f \in InTime
               PROVE  f \in completed
      BY DEF SubmittedTasksRun, InTime
  <2>1. 1 \in Workers /\ \A w \in Workers : worker[w] = "done"
        BY DEF Workers, PillsBehind
  <2>2. QED  BY <2>1 DEF PillsBehind, Started
<1>2. TypeInv => TypeOK
      BY DEF TypeInv
<1>3. QED  BY <1>1, <1>2, TypeInit, TypeNext, PillsInit, PillsNext, PTL DEF Spec
===============================================================================
