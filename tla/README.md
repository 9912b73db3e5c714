# LatticeFlow in TLA+

Specifications of LatticeFlow (`src/src`, paths below are relative to it): the
lattices, the replicated key-value store built from them, the concurrency
primitives, the flow operators with the parallel exchange, the push-pull
elements, and the click event loop with its example server. TLC checks small
instances; TLAPS proves their safety properties for every instance.

## 1. Inventory

| Component | State | Operations | Hard part |
| --- | --- | --- | --- |
| `lattices/` | the value of an object | `join`, `insert`, `put`, comparisons | order and repetition of joins must not matter; products, timestamps and maps of lattices must stay lattices |
| `concurrency/barrier` | a counter | `enter` | everyone waits for everyone, spurious wakeups |
| `concurrency/queue.h` | a vector | `push`, `pop`, `try_pop`, `clear` | lost wakeups with `notify_one` |
| `concurrency/thread_pool` | a queue of optional tasks, threads | constructor, `submit`, `DoWork`, destructor | destruction while tasks run and submit |
| `concurrency/bounded_queue.h` | a bounded vector | as `queue.h` | two condition variables, each with `notify_one`; callers that overtake woken ones |
| `key_value_stores/server.cc` | per thread: store, timestamp counter, update counter, change set; gossip on the heap; pub-sub sockets | start-up, BEGIN, GET, PUT, send and receive gossip | unordered, lossy gossip by shared pointer; reference count; subscriptions racing the first gossip |
| `key_value_stores/*_client.cc` | current timestamp, write and read buffer | `begin`, `get`, `put`, `end` | isolation although every request may be answered by another replica |
| `key_value_stores/msgqueue.cc` | none | forward requests and responses | picks any thread |
| `flow/exchange.h` | two queues, reset counters | `next`, `reset`, the child thread, destructor | a producer running ahead of resets |
| `flow/` operators | an iterator position, a coroutine | constructor, `next`, `reset` | coroutines in coroutines, suspended with tuples taken from their children |
| `click/` | handlers and poll items; per element maps | `RegisterEventHandler`, `Run`, timers, `push` of the elements | handlers that register or delete handlers, timers racing answers |
| `pushpull/` | per element buffers, counts, an index | `push`, `pull` | a join fed from two sides; pulls that come back empty in between |
| `zmq_util/` | none | enveloped messages, comparison of connection ids, wrappers of ZeroMQ calls | the comparison is the order of the maps of the click elements |

Clients talk to server threads through the broker (request-reply). Server
threads share nothing but `GossipData` on the heap, whose address they send
each other over in-process pub-sub sockets, and the barrier they pass at
start-up. Each thread's click `Driver` runs one handler at a time. `Exchange`
and `ThreadPool` are threads around `Queue`s.

What makes each part correct: joins compute least upper bounds; the barrier
lets no one through early and everyone eventually; replicas never lose, invent
or go back behind a write, and agree when they have exchanged everything; no
one reads freed gossip; timestamps are unique; each client keeps its isolation
level; the pool runs what was submitted before its destruction, which ends; the
exchange returns the child's stream, and an operator starts over after a reset;
the bounded queue is a blocking channel; what an element pushes is what its
counterpart pulls; the event loop keeps every handler, and the example server
answers every request from the right answers. The list of hazards in `PROJECT.json`
says where in the code each of these could go wrong.

## 2. Modules

| Module | Models | How |
| --- | --- | --- |
| `Lattices` | `lattices/*.h` | one operator per `join` and comparison; template parameters are operator arguments |
| `LatticeObjects`, `MCLatticeObjects` | a program that holds several objects of one lattice type | actions `Join`, `Insert`, `Put`; the base types' values, keys and sizes are constants; `seen` records which inputs flowed into an object |
| `Barrier` | `concurrency/barrier` | one action per stretch of `enter` under the mutex, plus spurious wakeups |
| `KVServer`, `MCKVServer` | `server.cc`, composing `Lattices` and `Barrier` | one action per step of `worker_routine`, per request and per half of `receive_gossip` |
| `KVSystem`, `MCKVSystem` | clients, broker and server together | extends `KVServer`; a client call is its request and its return |
| `Queue` | `concurrency/queue.h` | one action per stretch under the mutex |
| `ThreadPool` | `thread_pool.{h,cc}`, an instance of `Queue` | owner and workers |
| `BlockingChannel` | what callers of `bounded_queue.h` rely on | an abstract channel: no mutex, no condition variable |
| `BoundedQueue` | `concurrency/bounded_queue.h` | one action per stretch under the mutex; shown to implement `BlockingChannel` |
| `FlowOperators` | `flow/` operators | an operator object is a record, `next` and `reset` are functions of it; `StreamOf` is the reference: the tuples it stands for |
| `Exchange` | `flow/exchange.h`, two instances of `Queue` | parent and child, for any operator |
| `MCExchange` | an exchange over the flow operators | composes the two for six trees of operators |
| `PushPull` | `pushpull/*.h` | one operator per `push` and `pull` |
| `Circuits` | programs that wire these elements | five circuits with a pusher and a puller that act in any order |
| `Driver` | `click/driver.cc` | members and Run's local vectors, one action per stretch of the loop |
| `ClickServer` | `click/example_server.cc` with `timer.h`, `group_by.h`, `dedup.h`, `dup.h`, `tee.h`, the sockets and `zmq_util/connection_id.cc` | extends `Driver`; one action per handler's `Run`, plus clients, workers and the clock |
| `LatticeProofs`, `KVServerProofs`, `KVSystemProofs`, `BoundedQueueProofs`, `ThreadPoolProofs`, `ExchangeProofs`, `ClickServerProofs`, `CircuitsProofs` | | theorems about the module of that name (`LatticeProofs`: `LatticeObjects`) |

Correspondence worth knowing when reading `KVServer` against the code:

- A store is a partial function from keys to `[timestamp, value]` records. Keys
  are model values and values are integers, as strings are only compared.
- `std::stoi(to_string(local) + to_string(id))` is `10 * local + id`. That is
  right for one-digit ids, which `NumThreadsAssumption` says, and within the
  range of `int`, which `NoOverflowAssumption` says. NUM_THREADS is 4.
- `process_request` touches only its thread's `State` and its own publisher
  socket, so it is one action, the gossip at its end included. `receive_gossip`
  touches shared memory and is split at the `fetch_add`.
- The `for` loop of a PUT is one join with the map of all its pairs. The keys
  of a batch are distinct, because clients send a map or a single pair.
- `heap` is the sequence of all `GossipData` ever allocated, a pointer is an
  index, and `live` says whether `delete` has run.
- ZeroMQ is external: a PUB socket delivers to the subscriptions that have
  reached it and whose pipe is below the high water mark, in order, and drops
  the rest. `dropped` records where.
- `issued`, `writes`, `dropped`, `view`, `committed`, `seen`, `submitted`,
  `late`, `completed`, `direct`, `got`, `early`, `sink`, `input`, `missed` (the
  last three in `Circuits`), `ret`, `asked`, `replies` and `summed` are history
  variables: no action reads them to decide what the program does. The bounds are the exception, and
  `issued`, from which a client's timestamps are taken when `KVServer` stands
  alone; `KVSystem` replaces that by real clients and `ServerRefinement` checks
  that it was right.

In `KVSystem` the response reaches the client in the step that handles the
request: the client is blocked until then and nobody else sees its state. The
broker is the choice of a thread when the request is handled.

In `ClickServer` a message is its client. The maps `groups_` and `counts_` hold
numbers, 0 for no binding, and a response counts, per client, the answers it
adds up. Their key is `Key(c)`: the comparison of connection ids is always
false, so a `std::map` has one key for all clients (`ConnectionIdLess`). Timers
get the lowest free descriptor, so descriptors are reused as on a real system.
The pipes between driver and workers are unbounded.

In `FlowOperators` a pointer to a child is the child's record, because the tests
and the constructors give each child to one parent. A coroutine runs ahead to
its next `yield` when it is created and after each read, as
`boost::coroutines2` does; its record has the tuple it is suspended with and the
left tuple of its outer loop. `Exchange` takes the operators through constant
operators (`OpNext`, `OpReset`, `OpStream` and, for the contract only, `OpAt`,
how far an operator has been read), so that it says nothing about them;
`OperatorContract` is what it relies on. Its parent may first
use the operator directly, which is where `OperatorsStartOver` watches the
operators themselves, and then constructs the Exchange in whatever state it left
the operator.

In `PushPull` an element is its state and a push or a pull takes it to the new
state and what comes out. The circuits of `Circuits` are ours: the repository
has the elements and one-element tests. Each joins an element to its counterpart
so that what goes in determines what must come out. `Queue` inherits `Puller`
privately and is reached through a `Lambda<Pull>`; `group_by.h` and `join.h`
share an include guard, and so do `filter.h` and `map.h`, so a program needs
several translation units to use both; and `Join` keeps both sides in vectors of
`Left`, so `Join<Push>` compiles for equal types only and `Join<Pull>` for a
`Right` that converts to `Left` and back; the join circuit has equal types.

Definitions whose comment begins with "Mutant" are variants of the definition
after them with a plausible mistake; they belong to no specification and serve
to confirm that each property can fail.

## 3. Runs

| Run | Module | Bounds | Shows |
| --- | --- | --- | --- |
| `lattice_laws` | `MCLatticeObjects` | 3 objects, 12 lattice types, 4 numbers, 3 timestamps, 2 strings, 2 set elements, 1 map key, sizes of 2 | an object is the least upper bound of its inputs; equal inputs give equal objects; `<=` is the documented order |
| `kvs_gossip` | `KVServer` | 3 threads, 1 key, 2 gossips, pipes of 1 | barrier, no dangling pointer, every thread serves, replicas end up equal |
| `kvs_batching` | `MCKVServer` | 2 threads, 2 keys, 2 values, THRESHOLD 2 | no write lost or invented, stores only grow, change sets are sound, the last write wins |
| `kvs_clients` | `MCKVSystem` | 2 clients of any kind, 2 threads, 2 values, 2 transactions | unique transactions, read committed, a value read is read again, refinement of the server |
| `thread_pool` | `ThreadPool` | 3 workers, 2 tasks that each may submit one | no lost wakeup, tasks run, destructor returns |
| `bounded_queue` | `BoundedQueue` | 4 threads, 2 values, capacity 2 | no lost wakeup; the queue implements `BlockingChannel!ChannelSpec`, liveness included |
| `exchange` | `MCExchange` | 6 operator trees of up to 4 tuples, 3 resets, 2 reads past the end | operators start over; stream in order, `next` and the destructor return |
| `push_pull` | `Circuits` | 5 circuits, 3 keys, 5 pushes, dups of 2, 3 branches | joins and groups complete, dup and dedup inverse, round robin in order; all delivered, in the circuits other than the group |
| `click_server` | `ClickServer` | 2 clients, 3 workers, 2 requests | handlers neither lost nor dangling, no spurious `Run`, answers and responses accounted for, every request answered |

Why the bounds are enough for the cases that matter: with three threads one
`GossipData` has two readers, so that joins and counts interleave, and a second
can be in flight from another thread; two gossips and pipes of one let a pipe
overflow; two values under one timestamp reach the merge of equal timestamps;
THRESHOLD 2 with two keys leaves an update behind; two transactions make the
order of timestamps differ from the order of PUTs; three workers allow a
waiting, a woken and a running one at once; four callers of a queue of two
places allow two to wait while a third overtakes the fourth, which was woken;
two or more tuples and three resets allow stale tuples behind two resets; the
operator trees have a coroutine as left and as right child of another, empty
inner and outer loops, and children read before; five pushes let both sides of
a join repeat a key, round robin wrap around and a group start again; two requests, of one client or of two, allow a
timer to end the group of a later request, two timers in one round and the reuse
of a descriptor. The bounds `MaxLocal`, `MaxIssued`, `MaxGossip`,
`MaxTasks`, `MaxResets`, `MaxPastEnd`, `MaxPushes`, `MaxPulls`, `MaxRequests`
and `MaxInputs` only stop new requests; what is under way is always finished. Symmetry is used for keys, clients and lattice objects,
in runs without liveness properties.

`kvs_*`, `thread_pool` and `bounded_queue` check deadlock. `push_pull` does not,
because `Counter<Pull>` counts without end and its bound stops it; `exchange` does not, because a caller
that reads past the end of the stream, or resets it early, does block;
`click_server` does not, because a driver without events waits in `poll`.

Fairness. `KVServer!Fairness`: threads are scheduled, subscriptions arrive, and
a thread whose subscriber socket is readable handles it, as `zmq::poll` is level
triggered and the driver runs every ready handler of a round. No fairness is
assumed of clients, so `EventuallyEqual` holds however few requests follow.
`ThreadPool`, `BoundedQueue` and `Exchange`: threads are scheduled and tasks return; nobody has
to call anything, and no wakeup is fair that the code does not cause. What this
buys `BoundedQueue` is the fairness of the channel: some push returns while
there is space, some pop while there is data; which one is not said, as a caller
can be overtaken for ever. `Circuits`: the puller goes on pulling.
`ClickServer`: the driver's thread runs and timers run out; neither workers nor
clients are fair, so `RequestAnswered` rests on the timers alone.

### Where code and comments disagree

Three runs expect a violation, each with a finding in `PROJECT.json`.

- `gossip_data_freed`: the last reader of a `GossipData` does not free it; the
  count is compared with NUM_THREADS - 1 before the increment. It leaks, but is
  never used after it is freed (`NoDanglingPointer`).
- `exchange_reset`: a missing `break` ends the child thread on a reset before
  the end of the stream. `Cross` and `NaiveEquijoin` reset their children in
  their constructors and after each inner loop, so an Exchange below one of them
  meets it without its owner calling `reset`.
- `click_groups`: `operator<` of `ConnectionId` compares two empty ranges, so
  the example server adds up the answers of all clients in one group. With one
  client it works, and `AnswersAccounted` and `ResponsesAccounted` say what
  still holds with several: no answer is lost or used twice, and the number of
  responses is right.

Four more observations, which no run of its own is about:

- `ici_client.cc:1-6` and `key_value_stores/README.md:14` call the client's level
  item cut isolation, and the client gives less: `get` caches a value it found
  (line 56) but not that it found nothing (line 59). An ici client BEGINs and
  GETs a key, and a replica without the key answers ERROR; another client's PUT
  of the key is served, or gossip of it arrives; the first client GETs the key
  again, in the same transaction, and prints the value. `CachedReadsRepeat` is
  therefore stated from the first value on, and `view` records what `get`
  prints, ERROR included, from there: after a value the client reads no other
  one, and no ERROR, unless it wrote the key itself.
- The barrier of `server.cc:208` comes before the subscriptions, so gossip sent
  right after start-up can be lost for good. `NoWriteLost` accounts for it under
  `dropped`, and `LastWriteWins` is stated for executions without such losses.
- Two PUTs of one key in one transaction share a timestamp, and the larger
  string wins, not the later one. `LastWriteWins` states exactly that.
- `timestamp_lattice.h:20-22` offers `TimestampLattice` for vector clocks. Its
  join is not associative then: a value merged under two unrelated timestamps
  survives a timestamp that dominates only one of them. `lattice_laws` is about
  totally ordered timestamps, the only ones the repository instantiates.

## 4. Proofs

Everything below is proved for every value of the constants that satisfies the
named assumptions.

| Module | Theorem | States |
| --- | --- | --- |
| `LatticeProofs` | `JoinsAreLeast`, `JoinsConverge` | `LeastUpperBound`, `SameInputsSameValue` |
| | `ComparisonsAgree` | `ComparisonAgrees` |
| `KVServerProofs` | `TypeCorrect` | `TypeOK` |
| | `BarrierHolds` | `BoundBeforeConnect` |
| | `TimestampsFresh` | `FreshTimestamp` |
| | `PendingBounded` | `PendingBelowThreshold` |
| | `WritesAccounted`, `ValuesWritten` | `NoWriteLost`, `Provenance` |
| | `LastWritesWin`, `Convergence` | `LastWriteWins`, `ReplicasConverge` |
| | `StoreMonotonic` | `StoreGrows` |
| | `PointersValid` | `NoDanglingPointer` |
| `KVSystemProofs` | `SystemImplementsServer` | `ServerRefinement`: the system implements `KVServer!Spec` |
| | `SystemTypes`, `TransactionsUnique` | `SystemTypeOK`, `UniqueTransactions` |
| | `SystemInvariant`, `ReadsRepeat`, `ReadsCommitted` | the clients' invariant, `CachedReadsRepeat`, `ReadCommitted` |
| `BoundedQueueProofs` | `TypeInvariant`, `WakeupsSuffice` | its `TypeInv`, `NoLostWakeup` |
| | `QueueIsChannel` | `Channel!ChannelSafety`, the safety half of `ImplementsChannel` |
| `ThreadPoolProofs` | `TypeCorrect`, `WakeupsSuffice`, `TasksRun` | `TypeOK`, `NoLostWakeup`, `SubmittedTasksRun` |
| `ExchangeProofs` | `TypeCorrect`, `ParentSeesStream` | `TypeOK`, `StreamInOrder`, from `OperatorContract` |
| `ClickServerProofs` | `RunsNotSpurious`, `HandlersInStep` | `NoSpuriousRun`, `HandlersPolled` |
| | `AnswersKept`, `ResponsesCounted` | `AnswersAccounted`, `ResponsesAccounted` |
| `CircuitsProofs` | `CircuitsInvariant` | the conjunction of the circuits' invariants, `CircuitInv` |
| | `JoinsExact`, `BranchesInOrder` | `JoinsComplete`, `RoundRobinOrder` |
| | `DupsCancel`, `GroupsKept` | `DupsUndone`, `GroupsComplete` |

Lattices. `Laws(k)` says that type `k`'s documented order is a partial order,
that `join` stays in the type and is the least upper bound of two elements, and
that the comparison computes the order. It is proved for the base types and
from them for pairs, arrays, vectors, timestamps, maps and tombstones
(`AllLaws`). `LubOfJoin` turns it into a fact about sets: the join of the least
upper bounds of `S` and `T` is that of their union. `insert` and `put` are joins
with one more element (`InsertIsJoin`, `MapPutIsJoin`, `TombstonesPutIsJoin`), so
every step keeps each object the least upper bound of what it has seen.
`SameInputsSameValue` follows because two least upper bounds are below each
other.

Convergence. The lemmas show that `EntryJoin` picks one of its arguments and is
the maximum of a total order on (timestamp, value) (`EntryJoinSelects`,
`EntryLeqOrder`, `EntryJoinUpperBound`) and lift this to stores
(`DatabaseJoinBindings`, `JoinReflects`). `ReplicasConverge` is not inductive.
`ConvergenceInv` is: types, `Provenance` (all that is in a store or in gossip
was written) and `NoWriteLost` (every write is reflected in the store of the
thread that took it, and for each other thread reflected, pending in the
origin's change set, in flight or dropped). In a quiescent state without drops
every store reflects every write and holds only writes, so for each key both
have the maximum of the writes of that key: `LastWriteWins`, which says which
one that is (`InvLastWriteWins`), and equal stores (`InvConverges`).

Pointers. `NoDanglingPointer` is about the present; what makes it last is
`PointerInv`: no thread subscribes to itself, a pointer is in a pipe once and
reaches a thread by one pipe only, and the counts already made of a `GossipData`
plus the threads that still have to count it are fewer than NUM_THREADS. So the
count that would free it is never reached, which also explains the finding
`gossip_data_freed`.

`BarrierHolds` needs `BarrierInv`: `count_` is the number of threads that have
entered, those are bound, and a released thread means that the threshold was
reached. `SystemImplementsServer` needs `SystemInv`, which says of every client
that its timestamp is -1 or was issued and its pending PUT is under it, with
nothing to write when it is -1. `ReadsRepeat` rests on `ViewInv`: what an
ici client has seen of a key is what its buffers hold. `ReadsCommitted` rests on
`CommitInv`: a write under the timestamp of a buffering client was committed by
it.

Queues. `NoLostWakeup` counts: while someone waits, the woken threads are at
least as many as the elements (or places) there are. It is inductive together
with the types; the work is in comparing the sizes of sets of threads before and
after a step (lemma `Counts`): a caller that overtakes a woken thread takes an
element away, a `notify_one` that finds nobody waiting leaves nothing to show.
`QueueIsChannel` maps every step to a step of the channel or a stutter: waiting,
waking and being woken spuriously change nothing that the channel has.
`SubmittedTasksRun` needs `PillsBehind`: a task submitted before the destructor
is in front of every empty optional or has been taken, and a worker that has
ended took an empty optional.

Exchange. `Inv` says that the buffer is some entries from before the last reset
followed by the stream from where the parent has read to (`Segment`), and that
the resets the child has taken and those it still has to take add up to the
parent's count (`ResetsCounted`, with `DIE` behind them, `DieLast`). The
theorems have `[]OperatorContract` as a hypothesis: `next` returns the tuple the
operator is at and moves on, `reset` goes back to the start. The run `exchange`
checks it for the operators of `flow/`, as a part of `OperatorsStartOver`.

Click. `Inv` says that the poll items are those of the handlers, place by place,
in the members and in Run's vectors (`Aligned`); that the handlers which live
are there, and no others (`Registered`), at one place (`Once`); that ids of
timers are older than `timer_id_` and no two share a descriptor (`TimersOpen`).
Then no two handlers share a poll item (`ItemsDiffer`), so a handler that runs
consumes no event but its own, and a descriptor that is used again is not in any
item left behind (`NewFdFacts`).

The accounts of the example server. `AnswersAccounted` is inductive with the
types: every handler moves answers from one place to another. `ResponsesAccounted`
is not, because a response depends on how far the Dedup has counted. `Accounts`
adds `GroupCounts`: the Dedup's count of a key is the number of answers seen for
it modulo `kNumWorkers`, and as long as no timer of the key has run out that is
also what the group holds. The sums are folds over sets of clients; `SumChange`
and its like say what one step does to them, from `SubsetInduction`.

Push-pull. Each circuit has an invariant of its own, which says where in the
circuit every element of the input is.

- `GroupInv`: the Dedup's count of a key is the length of its open group, so
  that the group is flushed exactly when it is full.
- `DupInv`: the input is what was returned followed by a `rest`; the queue holds
  what is left of the copies of the first key of `rest` and all copies of the
  others, and Dedup has counted the copies that are gone (`Queued`).
  `DedupInv` is the other direction: the keys that were passed on, the one that
  is being repeated (`Halfway`) and the queue are the input, and Dedup's counts
  agree with `num_dups_sent_` (`Counted`).
- `BranchInv`: queue `b` holds the input at the positions `Branches * o + b + 1`
  for consecutive `o`, from the number `P[b]` of elements pulled from it
  (`InQueues`). No queue is more than one round ahead of another (`Abreast`),
  which an empty pull keeps, because the queue it found empty has given out all
  it was dealt. `RoundRobinOrder` speaks of the past, so the invariant keeps for
  every element returned its round and its branch (`Overtaking`): whatever was
  returned before another from a later place in the input is of another branch,
  and two of one branch cannot both be. Until a pull misses, `P` is what
  the puller's index says (`InStep`).
- `JoinInv`: both hash maps index what was taken from each side (`Indexed`), the
  inputs of a side are distinct, and the pairs put out and those in `buf_` are
  together the matching pairs, each once (`Settled`). One more element adds the
  pairs with it, and these are new.

What `FlattenSeq`, folds and sums compute for an input of any length takes
induction, which the provers cannot do with a predicate as a parameter. The
proofs do it with a set instead: a set of naturals that has 0 and is closed
under `+ 1` is `Nat` (`NatSetInduction`, by the least element outside it), and
the same for sequences under `Append` and for finite sets (`SeqInduction`,
`SubsetInduction`). That the recursive function inside `FlattenSeq` exists, and
satisfies its equation, is shown in the same way (`FlattensExists`).

Assumptions, all named in the modules: NumThreads in 1..10 (the key-value
store), THRESHOLD positive, Values integers, Keys finite, `NoOverflowAssumption`;
base types of the ordered lattices within the integers (`OrderedAssumption`) and
sizes natural (`SizeAssumption`); a finite set of threads that call a queue
(`ThreadsAssumption`) of positive capacity; more than one worker of the example
server and finitely many clients (`ClientsAssumption`); positive numbers of
copies and branches, and an empty optional that is none of the values of a
stream (`NumDupsAssumption`, `BranchesAssumption`, `NoneAssumption`); bounds
natural. `SubmittedTasksRun` itself is about pools with threads.

Only model-checked:

- liveness (`AllThreadsServe`, `EventuallyEqual`, `DestructorReturns`,
  `NextReturns`, `Delivered`, `RequestAnswered`, and the liveness half of
  `ImplementsChannel`), which is out of the prover's reach;
- `OperatorsStartOver`, with `OperatorContract` in it, and so what the flow
  operators compute: coroutines and filters are recursive operators, which the
  prover cannot handle.

Every other property of the passing runs is the statement of a theorem.

## 5. Not modelled

Formatting, printing, command parsing and hexdump, and `id.h` and `drop.h` of
`click/`, which keep no state; serialization (a message is the record of its
fields); crashes of threads or processes, which the code does not handle; more
than ten threads and timestamps beyond `int`, where the code leaves the range
the assumptions state. Of `zmq_util`, the conversions and the templates that
nothing instantiates (`pointer_to_message` there has no `return`, and
`recv_pointer` does not compile; the store has its own). Periodic timers, `Read`
and moving of `TimerFileDescriptor`, which nothing uses. A task that a task
submits while the pool is being destroyed is dropped behind the empty optionals:
`SubmittedTasksRun` is about tasks submitted before.

## 6. Plan

Done, in this order: lattices; barrier and server; clients and the composed
system; server and system proofs; queue and thread pool; exchange; click
driver and example server; bounded queue and its channel; push-pull elements;
flow operators and their composition with the exchange.

Proved since: the bounded queue's wakeups and its channel; the thread pool; the
exchange, from the contract of its operator; the pointers of the server; the
lattices; the driver's loop; the answers and responses of the example server;
the circuits of push-pull elements.

Left: `OperatorContract` for the flow operators, which needs them written as
recursive functions over bounded trees; periodic timers, once something uses
them.
