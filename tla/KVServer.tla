------------------------------ MODULE KVServer ------------------------------
(***************************************************************************)
(* The key-value server of src/key_value_stores/server.cc: NUM_THREADS     *)
(* threads, each with its own copy of the store, that answer requests from *)
(* the broker and gossip their updates to one another as pointers to heap  *)
(* allocated GossipData over in-process pub-sub sockets.                   *)
(*                                                                         *)
(* A thread runs one handler of its driver at a time, so a handler that    *)
(* only touches its own State is one action.  receive_gossip is two: the   *)
(* join and the fetch_add, between which the other threads run.            *)
(*                                                                         *)
(* ZeroMQ is external: a PUB socket delivers to the subscriptions it has   *)
(* already received and has room for, and silently drops the rest.         *)
(***************************************************************************)
EXTENDS Integers, Sequences, FiniteSets, Lattices

CONSTANTS
  NumThreads,   \* NUM_THREADS
  THRESHOLD,    \* updates between two gossips
  Keys, Values, \* Values are integers: strings are only compared (MaxLattice)
  Hwm,          \* ZeroMQ's high water mark of a pub-sub pipe
  MaxLocal,     \* bound: transactions begun at one thread
  MaxIssued,    \* bound: transactions begun at all threads
  MaxGossip     \* bound: GossipData allocated

(* Thread ids are one decimal digit, so std::to_string(local) followed by    *)
(* std::to_string(id) reads back as 10 * local + id.                         *)
ASSUME NumThreadsAssumption == NumThreads \in 1..10
ASSUME THRESHOLDAssumption == THRESHOLD \in Nat \ {0}
ASSUME ValuesAssumption == Values \subseteq Int
ASSUME KeysAssumption == IsFiniteSet(Keys)
ASSUME BoundsAssumption == Hwm \in Nat /\ MaxIssued \in Nat /\ MaxGossip \in Nat
ASSUME MaxLocalAssumption == MaxLocal \in Nat
(* The bound keeps timestamps below INT_MAX, above which std::stoi throws.   *)
ASSUME NoOverflowAssumption == 10 * MaxLocal + 9 <= 2 * (2^30 - 1) + 1

Threads == 0..(NumThreads - 1)

VARIABLES
  pc,              \* where a thread is in worker_routine
  count_, at,      \* the barrier all_threads_bound
  subs,            \* subs[u]: the subscribers u's publisher socket knows of
  kvs,             \* State::kvs, a partial function from keys to entries
  local_timestamp, \* State::local_timestamp
  update_counter,  \* State::update_counter
  change_set,      \* State::change_set
  heap,            \* the GossipData allocated so far; a pointer is an index
  pipe,            \* pipe[u][t]: pointers u published and t has not received
  cur,             \* the GossipData receive_gossip works on, 0 for none
  issued,          \* history: the timestamps given to transactions
  writes,          \* history: the writes the server acknowledged
  dropped          \* history: <<u, t>> where u's socket dropped gossip for t

serverVars == <<pc, count_, at, subs, kvs, local_timestamp, update_counter,
                change_set, heap, pipe, cur, issued, writes, dropped>>

B == INSTANCE Barrier WITH threshold_ <- NumThreads

-----------------------------------------------------------------------------
(* using Timestamp, MaxStringLattice, TimestampedStringLattice, Database *)
Timestamps == 0..(10 * MaxLocal + 9)
Entry == [timestamp : Timestamps, value : Values]
Database == UNION {[S -> Entry] : S \in SUBSET Keys}
(* Mutant: a PairLattice, the timestamp and the value merged independently. *)
EntryJoinPairwise(p, q) ==
  [timestamp |-> MaxJoin(p.timestamp, q.timestamp), value |-> MaxJoin(p.value, q.value)]
(* Mutant: an entry with the same timestamp is not merged. *)
EntryJoinKeepsTie(p, q) == IF p.timestamp < q.timestamp THEN q ELSE p
EntryJoin(p, q) == TimestampJoin(MaxLess, MaxJoin, MaxJoin, p, q)
DatabaseJoin(m, l) == MapJoin(EntryJoin, m, l)

EmptyMap == [k \in {} |-> k]

(* The operator<= that TimestampLattice and MapLattice inherit. *)
EntryLeq(p, q) == GenericLeq(EntryJoin, p, q)
DatabaseLeq(m, l) == GenericLeq(DatabaseJoin, m, l)

GossipData == [db : Database, num_processed : Nat, live : BOOLEAN]

(* A write as the history records it. *)
Write == [origin : Threads, key : Keys, entry : Entry]

(* The key-value pairs of a Put request: clients send each key once. *)
Batches == UNION {[S -> Values] : S \in SUBSET Keys}

Init ==
  /\ pc = [t \in Threads |-> "start"]
  /\ B!BarrierInit
  /\ subs = [t \in Threads |-> {}]
  /\ kvs = [t \in Threads |-> EmptyMap]
  /\ local_timestamp = [t \in Threads |-> 0]
  /\ update_counter = [t \in Threads |-> 0]
  /\ change_set = [t \in Threads |-> {}]
  /\ heap = << >>
  /\ pipe = [u \in Threads |-> [t \in Threads |-> << >>]]
  /\ cur = [t \in Threads |-> 0]
  /\ issued = {}
  /\ writes = {}
  /\ dropped = {}

-----------------------------------------------------------------------------
(* worker_routine up to driver.Run(). *)

startupUnchanged ==
  UNCHANGED <<kvs, local_timestamp, update_counter, change_set, heap, pipe,
              cur, issued, writes, dropped>>

(* Connect to the broker and bind the publisher socket. *)
Bind(t) ==
  /\ pc[t] = "start"
  /\ pc' = [pc EXCEPT ![t] = "bound"]
  /\ UNCHANGED <<count_, at, subs>>
  /\ startupUnchanged

(* all_threads_bound->enter() *)
EnterBarrier(t) ==
  /\ pc[t] = "bound"
  /\ B!Enter(t)
  /\ UNCHANGED <<pc, subs>>
  /\ startupUnchanged

WakeSpuriously(t) ==
  /\ B!SpuriousWakeup(t)
  /\ UNCHANGED <<pc, subs>>
  /\ startupUnchanged

RecheckBarrier(t) ==
  /\ B!Recheck(t)
  /\ UNCHANGED <<pc, subs>>
  /\ startupUnchanged

(* Connect the subscriber socket to every other thread, subscribe, and set   *)
(* up the State, the handlers and the driver.                                *)
Subscribe(t) ==
  /\ pc[t] = "bound"
  /\ at[t] = "released"
  /\ pc' = [pc EXCEPT ![t] = "running"]
  /\ UNCHANGED <<count_, at, subs>>
  /\ startupUnchanged

(* External: t's subscription reaches u's publisher socket, some time after  *)
(* t sent it.                                                                *)
SubscriptionArrives(t, u) ==
  /\ pc[t] = "running"
  /\ t # u
  /\ t \notin subs[u]
  /\ subs' = [subs EXCEPT ![u] = @ \cup {t}]
  /\ UNCHANGED <<pc, count_, at>>
  /\ startupUnchanged

-----------------------------------------------------------------------------
(* Gossip. *)

(* External: a PUB socket has t's subscription and room in its pipe. *)
Delivers(u, t) == t \in subs[u] /\ Len(pipe[u][t]) < Hwm

(* send_gossip: a new GossipData with the changed bindings of db, and its    *)
(* address to every subscriber.                                              *)
send_gossip(u, db, changed) ==
  /\ heap' = Append(heap, [db |-> [k \in changed |-> db[k]],
                           num_processed |-> 0, live |-> TRUE])
  /\ pipe' = [pipe EXCEPT ![u] =
                [t \in Threads |-> IF Delivers(u, t)
                                   THEN Append(pipe[u][t], Len(heap) + 1)
                                   ELSE pipe[u][t]]]
  /\ dropped' = dropped \cup {<<u, t>> : t \in {s \in Threads \ {u} : ~Delivers(u, s)}}

(* Mutant: the gossiped bindings replace the thread's own. *)
JoinGossipOverwrites(t, u) ==
  /\ pc[t] = "running" /\ cur[t] = 0
  /\ pipe[u][t] # << >>
  /\ LET g == Head(pipe[u][t])
         Newer(mine, theirs) == theirs
     IN /\ kvs' = [kvs EXCEPT ![t] = MapJoin(Newer, kvs[t], heap[g].db)]
        /\ cur' = [cur EXCEPT ![t] = g]
  /\ pipe' = [pipe EXCEPT ![u] = [pipe[u] EXCEPT ![t] = Tail(pipe[u][t])]]
  /\ UNCHANGED <<pc, count_, at, subs, local_timestamp, update_counter,
                 change_set, heap, issued, writes, dropped>>

(* receive_gossip up to the join, on the next pointer from u. *)
JoinGossip(t, u) ==
  /\ pc[t] = "running" /\ cur[t] = 0
  /\ pipe[u][t] # << >>
  /\ LET g == Head(pipe[u][t])
     IN /\ kvs' = [kvs EXCEPT ![t] = DatabaseJoin(kvs[t], heap[g].db)]
        /\ cur' = [cur EXCEPT ![t] = g]
  /\ pipe' = [pipe EXCEPT ![u] = [pipe[u] EXCEPT ![t] = Tail(pipe[u][t])]]
  /\ UNCHANGED <<pc, count_, at, subs, local_timestamp, update_counter,
                 change_set, heap, issued, writes, dropped>>

(* Mutant: off by two in the test for the last reader. *)
ProcessedEarly(d) ==
  [db |-> d.db, num_processed |-> d.num_processed + 1,
   live |-> d.live /\ d.num_processed + 2 < NumThreads - 1]

(* The rest of receive_gossip: fetch_add, and delete when the old value is   *)
(* NUM_THREADS - 1.                                                          *)
Processed(d) ==
  [db |-> d.db, num_processed |-> d.num_processed + 1,
   live |-> d.live /\ d.num_processed # NumThreads - 1]

CountGossip(t) ==
  /\ cur[t] # 0
  /\ heap' = [heap EXCEPT ![cur[t]] = Processed(heap[cur[t]])]
  /\ cur' = [cur EXCEPT ![t] = 0]
  /\ UNCHANGED <<pc, count_, at, subs, kvs, local_timestamp, update_counter,
                 change_set, pipe, issued, writes, dropped>>

-----------------------------------------------------------------------------
(* process_request: one action per case, each followed by the gossip check. *)

Serving(t) == pc[t] = "running" /\ cur[t] = 0

(* Mutant: gossip only above the threshold. *)
MaybeGossipAbove(t, db, changed, counter) ==
  IF counter > THRESHOLD /\ NumThreads # 1
  THEN /\ send_gossip(t, db, changed)
       /\ change_set' = [change_set EXCEPT ![t] = {}]
       /\ update_counter' = [update_counter EXCEPT ![t] = 0]
  ELSE /\ change_set' = [change_set EXCEPT ![t] = changed]
       /\ update_counter' = [update_counter EXCEPT ![t] = counter]
       /\ UNCHANGED <<heap, pipe, dropped>>

(* Mutant: change_set.clear() after the if, not inside it. *)
MaybeGossipAlwaysClears(t, db, changed, counter) ==
  /\ change_set' = [change_set EXCEPT ![t] = {}]
  /\ IF counter >= THRESHOLD /\ NumThreads # 1
     THEN /\ send_gossip(t, db, changed)
          /\ update_counter' = [update_counter EXCEPT ![t] = 0]
     ELSE /\ update_counter' = [update_counter EXCEPT ![t] = counter]
          /\ UNCHANGED <<heap, pipe, dropped>>

(* The end of process_request, after the request left the store, the changed *)
(* keys and the counter at db, changed and counter.                          *)
MaybeGossip(t, db, changed, counter) ==
  IF counter >= THRESHOLD /\ NumThreads # 1
  THEN /\ send_gossip(t, db, changed)
       /\ change_set' = [change_set EXCEPT ![t] = {}]
       /\ update_counter' = [update_counter EXCEPT ![t] = 0]
  ELSE /\ change_set' = [change_set EXCEPT ![t] = changed]
       /\ update_counter' = [update_counter EXCEPT ![t] = counter]
       /\ UNCHANGED <<heap, pipe, dropped>>

requestUnchanged == UNCHANGED <<pc, count_, at, subs, cur>>

(* Mutant: the two numbers are added instead of concatenated. *)
NewTimestampSum(t) == local_timestamp[t] + t

(* std::stoi(std::to_string(local_timestamp) + std::to_string(thread_id)) *)
NewTimestamp(t) == 10 * local_timestamp[t] + t

(* Mutant: local_timestamp is not incremented. *)
BeginTransactionRepeats(t) ==
  /\ Serving(t)
  /\ local_timestamp[t] < MaxLocal /\ Cardinality(issued) < MaxIssued
  /\ issued' = issued \cup {NewTimestamp(t)}
  /\ MaybeGossip(t, kvs[t], change_set[t], update_counter[t])
  /\ UNCHANGED <<kvs, writes, local_timestamp>>
  /\ requestUnchanged

BeginTransaction(t) ==
  /\ Serving(t)
  /\ local_timestamp[t] < MaxLocal /\ Cardinality(issued) < MaxIssued
  /\ local_timestamp' = [local_timestamp EXCEPT ![t] = @ + 1]
  /\ issued' = issued \cup {NewTimestamp(t)}
  /\ UNCHANGED <<kvs, writes>>
  /\ requestUnchanged
  /\ MaybeGossip(t, kvs[t], change_set[t], update_counter[t])

(* kGet, whose answer is GetResponse below, and REQUEST_NOT_SET change       *)
(* nothing themselves.                                                       *)
GetOrNotSet(t) ==
  /\ Serving(t)
  /\ UNCHANGED <<kvs, local_timestamp, issued, writes>>
  /\ requestUnchanged
  /\ MaybeGossip(t, kvs[t], change_set[t], update_counter[t])

(* The bindings a Put request asks for. *)
PutEntries(timestamp, batch) ==
  [k \in DOMAIN batch |-> [timestamp |-> timestamp, value |-> batch[k]]]

Put(t, timestamp, batch) ==
  /\ Serving(t)
  /\ Len(heap) < MaxGossip
  /\ UNCHANGED <<local_timestamp, issued>>
  /\ requestUnchanged
  /\ writes' = writes \cup
       {[origin |-> t, key |-> k, entry |-> PutEntries(timestamp, batch)[k]] :
          k \in DOMAIN batch}
  /\ LET db == DatabaseJoin(kvs[t], PutEntries(timestamp, batch))
         changed == change_set[t] \cup DOMAIN batch
         counter == update_counter[t] + Cardinality(DOMAIN batch)
     IN /\ kvs' = [kvs EXCEPT ![t] = db]
        /\ MaybeGossip(t, db, changed, counter)

(* The response to each request, read off the state it is handled in. *)
BeginResponse(t) == [succeed |-> TRUE, timestamp |-> NewTimestamp(t)]
GetResponse(t, k) ==
  IF k \in DOMAIN kvs[t]
  THEN [succeed |-> TRUE, value |-> kvs[t][k].value, timestamp |-> kvs[t][k].timestamp]
  ELSE [succeed |-> FALSE]

-----------------------------------------------------------------------------
StartUp(t) ==
  \/ Bind(t) \/ EnterBarrier(t) \/ RecheckBarrier(t) \/ Subscribe(t)

Receive(t) ==
  \/ \E u \in Threads : JoinGossip(t, u)
  \/ CountGossip(t)

(* Mutant: the clients' check that a transaction has begun is missing. *)
RequestBeforeBegin(t) ==
  \/ BeginTransaction(t)
  \/ GetOrNotSet(t)
  \/ \E timestamp \in issued \cup {-1}, batch \in Batches : Put(t, timestamp, batch)

(* Clients put under a timestamp that some BEGIN returned.  The exception is *)
(* an END before any BEGIN, which sends an empty batch under -1.             *)
Request(t) ==
  \/ BeginTransaction(t)
  \/ GetOrNotSet(t)
  \/ \E timestamp \in issued, batch \in Batches : Put(t, timestamp, batch)
  \/ Put(t, -1, EmptyMap)

Next ==
  \E t \in Threads :
    \/ StartUp(t)
    \/ WakeSpuriously(t)
    \/ \E u \in Threads : SubscriptionArrives(t, u)
    \/ Receive(t)
    \/ Request(t)

Spec == Init /\ [][Next]_serverVars

(* Threads are scheduled, ZeroMQ delivers subscriptions, and the driver runs *)
(* every handler whose socket is readable, so received gossip is processed.  *)
(* No client has to send anything.                                           *)
Fairness ==
  \A t \in Threads :
    /\ WF_serverVars(StartUp(t))
    /\ WF_serverVars(Receive(t))
    /\ \A u \in Threads : WF_serverVars(SubscriptionArrives(t, u))

FairSpec == Spec /\ Fairness

-----------------------------------------------------------------------------
TypeOK ==
  /\ pc \in [Threads -> {"start", "bound", "running"}]
  /\ B!BarrierTypeOK
  /\ subs \in [Threads -> SUBSET Threads]
  /\ kvs \in [Threads -> Database]
  /\ local_timestamp \in [Threads -> 0..MaxLocal]
  /\ update_counter \in [Threads -> Nat]
  /\ change_set \in [Threads -> SUBSET Keys]
  /\ heap \in Seq(GossipData)
  /\ pipe \in [Threads -> [Threads -> Seq(1..Len(heap))]]
  /\ cur \in [Threads -> 0..Len(heap)]
  /\ issued \in SUBSET Timestamps
  /\ writes \in SUBSET Write
  /\ dropped \in SUBSET (Threads \X Threads)

(* The barrier does its job: when a thread goes on to connect to the other   *)
(* threads' publisher sockets, every one of them is bound (server.cc:205).   *)
BoundBeforeConnect ==
  \A t \in Threads : at[t] = "released" => \A u \in Threads : pc[u] # "start"

(* "Each transaction is annotated with a globally unique id": the timestamp  *)
(* a BEGIN would return now was never returned before, by any thread.        *)
FreshTimestamp == \A t \in Threads : NewTimestamp(t) \notin issued

(* db is at or above what w wrote. *)
Reflects(db, w) == w.key \in DOMAIN db /\ EntryLeq(w.entry, db[w.key])

InFlight(u, t) == {pipe[u][t][i] : i \in DOMAIN pipe[u][t]}

(* Joining never makes up a binding: every timestamp and value in a store or *)
(* in gossip was written, together and for that key, by one client Put.      *)
Written(db, ws) ==
  \A k \in DOMAIN db : \E w \in ws : w.key = k /\ w.entry = db[k]

Provenance ==
  /\ \A t \in Threads : Written(kvs[t], writes)
  /\ \A g \in DOMAIN heap : Written(heap[g].db, writes)

(* No acknowledged write is lost between threads: thread t's store reflects  *)
(* it, or t will still get it, in gossip under way or because the key is in  *)
(* the change_set of the thread that took the write, or ZeroMQ dropped       *)
(* gossip from that thread to t.                                             *)
OriginReflects == \A w \in writes : Reflects(kvs[w.origin], w)

Accounted(w, t) ==
  \/ Reflects(kvs[t], w)
  \/ w.key \in change_set[w.origin]
  \/ \E g \in InFlight(w.origin, t) : Reflects(heap[g].db, w)
  \/ <<w.origin, t>> \in dropped

Delivery == \A w \in writes : \A t \in Threads : Accounted(w, t)

NoWriteLost == OriginReflects /\ Delivery

(* send_gossip reads every key of the change_set with at(), which throws for *)
(* a missing key; and once NUM_THREADS # 1 a handler leaves fewer than       *)
(* THRESHOLD updates behind, so with THRESHOLD = 1 none wait for a later one. *)
ChangeSetStored == \A t \in Threads : change_set[t] \subseteq DOMAIN kvs[t]

PendingBelowThreshold ==
  /\ ChangeSetStored
  /\ \A t \in Threads :
       /\ Cardinality(change_set[t]) <= update_counter[t]
       /\ NumThreads # 1 => update_counter[t] < THRESHOLD

(* When all gossip has been sent and received, and ZeroMQ dropped none, all  *)
(* threads hold the same store.                                              *)
ReplicasEqual == \A t, u \in Threads : kvs[t] = kvs[u]

Quiescent ==
  /\ \A t \in Threads : change_set[t] = {}
  /\ \A u, t \in Threads : pipe[u][t] = << >>

ReplicasConverge == Quiescent /\ dropped = {} => ReplicasEqual

(* ruc_client.cc:4-6: "a last-write-wins policy on the servers".  What the   *)
(* policy comes to once all gossip is processed and none was dropped: each   *)
(* thread holds, for each key ever written, the write of the transaction     *)
(* with the largest id, and of the writes of that transaction the one with   *)
(* the largest value, which need not be the last.                            *)
Wins(w, v) ==
  \/ v.entry.timestamp < w.entry.timestamp
  \/ v.entry.timestamp = w.entry.timestamp /\ v.entry.value <= w.entry.value

LastWriteWins ==
  Quiescent /\ dropped = {} =>
    \A t \in Threads : \A w \in writes :
      /\ w.key \in DOMAIN kvs[t]
      /\ (\A v \in writes : v.key = w.key => Wins(w, v)) => kvs[t][w.key] = w.entry

(* A GossipData that some thread will still read has not been deleted. *)
NoDanglingPointer ==
  /\ \A u, t \in Threads : \A g \in InFlight(u, t) : heap[g].live
  /\ \A t \in Threads : cur[t] # 0 => heap[cur[t]].live

(* A thread's store only moves up in the lattice: no step of any thread      *)
(* makes it forget a binding or go back to an older one.                     *)
StoreStep == \A t \in Threads : DatabaseLeq(kvs[t], kvs'[t])

StoreGrows == [][StoreStep]_serverVars

(* Every thread gets past the barrier and starts to serve. *)
AllThreadsServe == <>(\A t \in Threads : pc[t] = "running")

(* With THRESHOLD = 1, whatever the clients did, if no gossip is dropped the *)
(* replicas become equal and stay so once requests stop.                     *)
EventuallyEqual == <>[](dropped = {} => ReplicasEqual)

-----------------------------------------------------------------------------
(* What the comments of server.cc say and the code does not do. *)

(* server.cc:89-90: "the last thread to process the update, makes sure to    *)
(* free the memory".                                                         *)
LastReaderFrees ==
  \A g \in DOMAIN heap : heap[g].num_processed = NumThreads - 1 => ~heap[g].live
=============================================================================
