--------------------------- MODULE KVServerProofs ---------------------------
(***************************************************************************)
(* Proofs about KVServer, for any number of threads (up to the ten ids of  *)
(* one digit), any keys, values, THRESHOLD and high water mark.            *)
(***************************************************************************)
EXTENDS KVServer, SequenceTheorems, FiniteSetTheorems, TLAPS

(* Counting: what one element more, one less, or none does to a set's size.  *)
LEMMA Counts ==
  ASSUME NEW S, NEW T, IsFiniteSet(S), IsFiniteSet(T)
  PROVE  /\ Cardinality(S) \in Nat /\ Cardinality(T) \in Nat
         /\ S \subseteq T => Cardinality(S) <= Cardinality(T)
         /\ \A t : S \ {t} \subseteq T => Cardinality(S) - 1 <= Cardinality(T)
         /\ \A t : t \notin S /\ S \cup {t} \subseteq T => Cardinality(S) + 1 <= Cardinality(T)
<1>1. Cardinality(S) \in Nat /\ Cardinality(T) \in Nat
      BY FS_CardinalityType
<1>2. S \subseteq T => Cardinality(S) <= Cardinality(T)
      BY FS_Subset
<1>3. ASSUME NEW t, S \ {t} \subseteq T PROVE Cardinality(S) - 1 <= Cardinality(T)
  <2>1. /\ Cardinality(S \ {t}) \in {Cardinality(S) - 1, Cardinality(S)}
        /\ Cardinality(S \ {t}) <= Cardinality(T)
        BY <1>3, FS_RemoveElement, FS_Subset
  <2>2. QED  BY <1>1, <2>1
<1>4. ASSUME NEW t, t \notin S, S \cup {t} \subseteq T
      PROVE  Cardinality(S) + 1 <= Cardinality(T)
  <2>1. Cardinality(S \cup {t}) = Cardinality(S) + 1
        BY <1>4, FS_AddElement
  <2>2. Cardinality(S \cup {t}) <= Cardinality(T)
        BY <1>4, FS_Subset
  <2>3. QED  BY <2>1, <2>2
<1>5. QED  BY <1>1, <1>2, <1>3, <1>4

-----------------------------------------------------------------------------
(* The lattice of entries. *)

LEMMA EntryFields ==
  ASSUME NEW p \in Entry
  PROVE  /\ p.timestamp \in Int /\ p.value \in Int
         /\ p = [timestamp |-> p.timestamp, value |-> p.value]
  <1>1. p.timestamp \in Timestamps /\ p.value \in Values
    BY DEF Entry
  <1>2. Timestamps \subseteq Int
    BY MaxLocalAssumption DEF Timestamps
  <1>3. p = [timestamp |-> p.timestamp, value |-> p.value]
    BY DEF Entry
  <1>4. QED
    BY <1>1, <1>2, <1>3, ValuesAssumption

LEMMA EntryEqual ==
  ASSUME NEW p \in Entry, NEW q \in Entry,
         p.timestamp = q.timestamp, p.value = q.value
  PROVE  p = q
  BY DEF Entry

(* TimestampJoin with totally ordered timestamps picks one of its arguments. *)
LEMMA EntryJoinSelects ==
  ASSUME NEW p \in Entry, NEW q \in Entry
  PROVE  EntryJoin(p, q) \in {p, q}
  <1> USE DEF EntryJoin, TimestampJoin, MaxLess, MaxJoin
  <1>1. p.timestamp \in Int /\ q.timestamp \in Int /\ p.value \in Int /\ q.value \in Int
    BY EntryFields
  <1>2. CASE p.timestamp < q.timestamp
    BY <1>2
  <1>3. CASE ~(p.timestamp < q.timestamp) /\ q.timestamp < p.timestamp
    BY <1>3
  <1>4. CASE ~(p.timestamp < q.timestamp) /\ ~(q.timestamp < p.timestamp)
    <2>1. p.timestamp = q.timestamp
      BY <1>1, <1>4
    <2>2. CASE p.value < q.value
      BY <1>4, <2>1, <2>2, EntryFields
    <2>3. CASE ~(p.value < q.value)
      BY <1>4, <2>1, <2>3, EntryFields
    <2>4. QED
      BY <2>2, <2>3
  <1>5. QED
    BY <1>2, <1>3, <1>4

(* The inherited operator<= is the lexicographic order. *)
LEMMA EntryLeqLexicographic ==
  ASSUME NEW p \in Entry, NEW q \in Entry
  PROVE  EntryLeq(p, q) <=> \/ p.timestamp < q.timestamp
                            \/ p.timestamp = q.timestamp /\ p.value <= q.value
  <1> USE DEF EntryLeq, GenericLeq, EntryJoin, TimestampJoin, MaxLess, MaxJoin
  <1>1. p.timestamp \in Int /\ q.timestamp \in Int /\ p.value \in Int /\ q.value \in Int
    BY EntryFields
  <1>2. CASE p.timestamp < q.timestamp
    BY <1>2
  <1>3. CASE q.timestamp < p.timestamp
    BY <1>1, <1>3
  <1>4. CASE p.timestamp = q.timestamp
    <2>1. CASE p.value < q.value
      BY <1>1, <1>4, <2>1, EntryFields
    <2>2. CASE ~(p.value < q.value)
      <3>1. EntryJoin(p, q) = p
        BY <1>1, <1>4, <2>2, EntryFields
      <3>2. EntryLeq(p, q) <=> p = q
        BY <3>1
      <3>3. p = q <=> p.value = q.value
        BY <1>4, EntryEqual
      <3>4. QED
        BY <1>1, <1>4, <2>2, <3>2, <3>3
    <2>3. QED
      BY <2>1, <2>2
  <1>5. QED
    BY <1>1, <1>2, <1>3, <1>4

LEMMA EntryLeqOrder ==
  ASSUME NEW p \in Entry, NEW q \in Entry, NEW r \in Entry
  PROVE  /\ EntryLeq(p, p)
         /\ EntryLeq(p, q) /\ EntryLeq(q, r) => EntryLeq(p, r)
         /\ EntryLeq(p, q) /\ EntryLeq(q, p) => p = q
  BY EntryFields, EntryEqual, EntryLeqLexicographic

LEMMA EntryJoinUpperBound ==
  ASSUME NEW p \in Entry, NEW q \in Entry
  PROVE  /\ EntryJoin(p, q) \in Entry
         /\ EntryLeq(p, EntryJoin(p, q))
         /\ EntryLeq(q, EntryJoin(p, q))
  <1>1. p.timestamp \in Int /\ q.timestamp \in Int /\ p.value \in Int /\ q.value \in Int
    BY EntryFields
  <1>2. EntryJoin(p, q) \in Entry
    BY EntryJoinSelects
  <1>3. CASE EntryLeq(p, q)
    <2>1. EntryJoin(p, q) = q
      BY <1>3 DEF EntryLeq, GenericLeq
    <2>2. QED
      BY <1>2, <1>3, <2>1, EntryLeqOrder
  <1>4. CASE ~EntryLeq(p, q)
    <2>1. EntryJoin(p, q) = p
      BY <1>4, EntryJoinSelects DEF EntryLeq, GenericLeq
    <2>2. EntryLeq(q, p)
      BY <1>1, <1>4, EntryLeqLexicographic
    <2>3. QED
      BY <1>2, <2>1, <2>2, EntryLeqOrder
  <1>5. QED
    BY <1>3, <1>4

-----------------------------------------------------------------------------
(* The lattice of databases. *)

LEMMA DatabaseMember ==
  ASSUME NEW d
  PROVE  d \in Database <=> d \in [DOMAIN d -> Entry] /\ DOMAIN d \subseteq Keys
  BY DEF Database

LEMMA DatabaseJoinBindings ==
  ASSUME NEW m \in Database, NEW l \in Database
  PROVE  /\ DatabaseJoin(m, l) \in Database
         /\ DOMAIN DatabaseJoin(m, l) = DOMAIN m \cup DOMAIN l
         /\ \A k \in DOMAIN m : EntryLeq(m[k], DatabaseJoin(m, l)[k])
         /\ \A k \in DOMAIN l : EntryLeq(l[k], DatabaseJoin(m, l)[k])
         /\ \A k \in DOMAIN DatabaseJoin(m, l) :
              \/ k \in DOMAIN m /\ DatabaseJoin(m, l)[k] = m[k]
              \/ k \in DOMAIN l /\ DatabaseJoin(m, l)[k] = l[k]
  <1> DEFINE J == DatabaseJoin(m, l)
  <1>1. /\ \A k \in DOMAIN m : m[k] \in Entry /\ k \in Keys
        /\ \A k \in DOMAIN l : l[k] \in Entry /\ k \in Keys
    BY DatabaseMember
  <1>2. J = [k \in DOMAIN m \cup DOMAIN l |->
               IF k \notin DOMAIN m THEN l[k]
               ELSE IF k \in DOMAIN l THEN EntryJoin(m[k], l[k]) ELSE m[k]]
    BY DEF DatabaseJoin, MapJoin
  <1> HIDE DEF J
  <1>3. DOMAIN J = DOMAIN m \cup DOMAIN l
    BY <1>2
  <1>4. ASSUME NEW k \in DOMAIN J
        PROVE  /\ k \in DOMAIN m => EntryLeq(m[k], J[k])
               /\ k \in DOMAIN l => EntryLeq(l[k], J[k])
               /\ \/ k \in DOMAIN m /\ J[k] = m[k]
                  \/ k \in DOMAIN l /\ J[k] = l[k]
    <2>1. CASE k \notin DOMAIN m
      BY <1>1, <1>2, <1>3, <2>1, EntryLeqOrder
    <2>2. CASE k \in DOMAIN m /\ k \notin DOMAIN l
      BY <1>1, <1>2, <1>3, <2>2, EntryLeqOrder
    <2>3. CASE k \in DOMAIN m /\ k \in DOMAIN l
      <3>1. J[k] = EntryJoin(m[k], l[k])
        BY <1>2, <2>3
      <3>2. QED
        BY <1>1, <2>3, <3>1, EntryJoinUpperBound, EntryJoinSelects
    <2>4. QED
      BY <2>1, <2>2, <2>3
  <1>5. J \in [DOMAIN J -> Entry] /\ DOMAIN J \subseteq Keys
    <2>1. \A k \in DOMAIN J : J[k] \in Entry /\ k \in Keys
      BY <1>1, <1>3, <1>4
    <2>2. J = [k \in DOMAIN J |-> J[k]]
      BY <1>2
    <2>3. QED
      BY <2>1, <2>2
  <1>6. J \in Database
    BY <1>5, DatabaseMember
  <1>7. QED
    BY <1>3, <1>4, <1>6 DEF J

LEMMA DatabaseJoinSelects ==
  ASSUME NEW m \in Database, NEW l \in Database, NEW k \in DOMAIN DatabaseJoin(m, l)
  PROVE  \/ k \in DOMAIN m /\ DatabaseJoin(m, l)[k] = m[k]
         \/ k \in DOMAIN l /\ DatabaseJoin(m, l)[k] = l[k]
  BY DatabaseJoinBindings

(* What a database reflects, its join with another one reflects too. *)
LEMMA JoinReflects ==
  ASSUME NEW m \in Database, NEW l \in Database, NEW w \in Write
  PROVE  /\ Reflects(m, w) => Reflects(DatabaseJoin(m, l), w)
         /\ Reflects(l, w) => Reflects(DatabaseJoin(m, l), w)
  <1> DEFINE J == DatabaseJoin(m, l)
  <1>1. w.entry \in Entry
    BY DEF Write
  <1>2. /\ \A k \in DOMAIN m : m[k] \in Entry
        /\ \A k \in DOMAIN l : l[k] \in Entry
        /\ \A k \in DOMAIN J : J[k] \in Entry
    <2>1. J \in Database
      BY DatabaseJoinBindings
    <2> HIDE DEF J
    <2>2. QED
      BY <2>1, DatabaseMember
  <1>3. /\ DOMAIN J = DOMAIN m \cup DOMAIN l
        /\ \A k \in DOMAIN m : EntryLeq(m[k], J[k])
        /\ \A k \in DOMAIN l : EntryLeq(l[k], J[k])
    BY DatabaseJoinBindings
  <1> HIDE DEF J
  <1>4. Reflects(m, w) => Reflects(J, w)
    BY <1>1, <1>2, <1>3, EntryLeqOrder DEF Reflects
  <1>5. Reflects(l, w) => Reflects(J, w)
    BY <1>1, <1>2, <1>3, EntryLeqOrder DEF Reflects
  <1>6. QED
    BY <1>4, <1>5 DEF J

(* Databases that reflect each other's bindings are equal. *)
LEMMA DatabaseEqual ==
  ASSUME NEW m \in Database, NEW l \in Database,
         \A k \in DOMAIN m : k \in DOMAIN l /\ EntryLeq(m[k], l[k]),
         \A k \in DOMAIN l : k \in DOMAIN m /\ EntryLeq(l[k], m[k])
  PROVE  m = l
  <1>1. /\ m \in [DOMAIN m -> Entry]
        /\ l \in [DOMAIN l -> Entry]
    BY DatabaseMember
  <1>2. DOMAIN m = DOMAIN l
    OBVIOUS
  <1>3. \A k \in DOMAIN m : m[k] = l[k]
    BY <1>1, <1>2, EntryLeqOrder
  <1>4. QED
    BY <1>1, <1>2, <1>3

-----------------------------------------------------------------------------
(* Type correctness.  TypeOK needs ChangeSetStored to be inductive: without  *)
(* it the bindings that send_gossip copies might not exist.                  *)

TypeInv == TypeOK /\ ChangeSetStored

LEMMA ThreadIds == \A t \in Threads : t \in 0..9
  BY NumThreadsAssumption DEF Threads

(* The bindings of a Put request form a database. *)
LEMMA PutEntriesType ==
  ASSUME NEW timestamp, NEW batch \in Batches,
         timestamp \in Timestamps \/ batch = EmptyMap
  PROVE  /\ PutEntries(timestamp, batch) \in Database
         /\ DOMAIN PutEntries(timestamp, batch) = DOMAIN batch
         /\ DOMAIN batch \subseteq Keys
  <1> DEFINE E == PutEntries(timestamp, batch)
  <1>1. batch \in [DOMAIN batch -> Values] /\ DOMAIN batch \subseteq Keys
    BY DEF Batches
  <1>2. /\ DOMAIN E = DOMAIN batch
        /\ E = [k \in DOMAIN E |-> E[k]]
        /\ \A k \in DOMAIN E : E[k] = [timestamp |-> timestamp, value |-> batch[k]]
    BY DEF PutEntries
  <1>3. \A k \in DOMAIN E : timestamp \in Timestamps
    BY <1>2 DEF EmptyMap
  <1> HIDE DEF E
  <1>4. \A k \in DOMAIN E : E[k] \in Entry
    BY <1>1, <1>2, <1>3 DEF Entry
  <1>5. E \in [DOMAIN E -> Entry]
    BY <1>2, <1>4
  <1>6. E \in Database
    BY <1>1, <1>2, <1>5, DatabaseMember
  <1>7. QED
    BY <1>1, <1>2, <1>6 DEF E

LEMMA EmptyBatch == EmptyMap \in Batches
  <1>1. EmptyMap \in [{} -> Values]
    BY DEF EmptyMap
  <1>2. QED
    BY <1>1 DEF Batches

(* The end of process_request keeps the types of what it may change. *)
LEMMA GossipTypes ==
  ASSUME TypeOK, NEW t \in Threads, NEW db \in Database,
         NEW changed \in SUBSET DOMAIN db, NEW counter \in Nat,
         MaybeGossip(t, db, changed, counter)
  PROVE  /\ heap' \in Seq(GossipData)
         /\ Len(heap') >= Len(heap)
         /\ pipe' \in [Threads -> [Threads -> Seq(1..Len(heap'))]]
         /\ change_set' \in [Threads -> SUBSET Keys]
         /\ change_set'[t] \subseteq changed
         /\ \A u \in Threads \ {t} : change_set'[u] = change_set[u]
         /\ update_counter' \in [Threads -> Nat]
         /\ dropped' \in SUBSET (Threads \X Threads)
  <1>1. /\ heap \in Seq(GossipData)
        /\ pipe \in [Threads -> [Threads -> Seq(1..Len(heap))]]
        /\ change_set \in [Threads -> SUBSET Keys]
        /\ update_counter \in [Threads -> Nat]
        /\ dropped \in SUBSET (Threads \X Threads)
    BY DEF TypeOK
  <1>2. Len(heap) \in Nat
    BY <1>1
  <1>3. changed \subseteq Keys
    BY DatabaseMember
  <1>4. CASE counter >= THRESHOLD /\ NumThreads # 1
    <2>1. /\ send_gossip(t, db, changed)
          /\ change_set' = [change_set EXCEPT ![t] = {}]
          /\ update_counter' = [update_counter EXCEPT ![t] = 0]
      BY <1>4 DEF MaybeGossip
    <2> DEFINE copy == [k \in changed |-> db[k]]
               new == [db |-> copy, num_processed |-> 0, live |-> TRUE]
    <2>2. copy \in Database
      <3>1. copy \in [DOMAIN copy -> Entry] /\ DOMAIN copy \subseteq Keys
        BY <1>3, DatabaseMember
      <3> HIDE DEF copy
      <3>2. QED
        BY <3>1, DatabaseMember
    <2>3. new \in GossipData
      BY <2>2 DEF GossipData
    <2>4. heap' = Append(heap, new)
      BY <2>1 DEF send_gossip
    <2> HIDE DEF new
    <2>5. heap' \in Seq(GossipData) /\ Len(heap') = Len(heap) + 1
      BY <1>1, <2>3, <2>4
    <2>6. ASSUME NEW u \in Threads, NEW s \in Threads
          PROVE  /\ pipe[u][s] \in Seq(1..Len(heap'))
                 /\ Append(pipe[u][s], Len(heap) + 1) \in Seq(1..Len(heap'))
      <3>1. pipe[u][s] \in Seq(1..Len(heap))
        BY <1>1
      <3>2. 1..Len(heap) \subseteq 1..Len(heap') /\ Len(heap) + 1 \in 1..Len(heap')
        BY <1>2, <2>5
      <3>3. pipe[u][s] \in Seq(1..Len(heap'))
        BY <3>1, <3>2, SeqMonotonic
      <3>4. QED
        BY <3>2, <3>3
    <2>7. pipe' \in [Threads -> [Threads -> Seq(1..Len(heap'))]]
      <3>1. pipe' = [pipe EXCEPT ![t] =
                       [s \in Threads |-> IF Delivers(t, s)
                                          THEN Append(pipe[t][s], Len(heap) + 1)
                                          ELSE pipe[t][s]]]
        BY <2>1 DEF send_gossip
      <3>2. pipe'[t] \in [Threads -> Seq(1..Len(heap'))]
        BY <1>1, <2>6, <3>1
      <3>3. \A u \in Threads \ {t} : pipe'[u] \in [Threads -> Seq(1..Len(heap'))]
        BY <1>1, <2>6, <3>1
      <3>4. pipe' = [u \in Threads |-> pipe'[u]]
        BY <1>1, <3>1
      <3>5. QED
        BY <3>2, <3>3, <3>4
    <2>8. dropped' \in SUBSET (Threads \X Threads)
      BY <1>1, <2>1 DEF send_gossip
    <2>9. /\ change_set' \in [Threads -> SUBSET Keys]
          /\ change_set'[t] \subseteq changed
          /\ \A u \in Threads \ {t} : change_set'[u] = change_set[u]
      BY <1>1, <2>1
    <2>10. update_counter' \in [Threads -> Nat]
      BY <1>1, <2>1
    <2>11. Len(heap') >= Len(heap)
      BY <1>2, <2>5
    <2>12. QED
      BY <2>5, <2>7, <2>8, <2>9, <2>10, <2>11
  <1>5. CASE ~(counter >= THRESHOLD /\ NumThreads # 1)
    <2>1. /\ change_set' = [change_set EXCEPT ![t] = changed]
          /\ update_counter' = [update_counter EXCEPT ![t] = counter]
          /\ heap' = heap /\ pipe' = pipe /\ dropped' = dropped
      BY <1>5 DEF MaybeGossip
    <2>2. /\ change_set' \in [Threads -> SUBSET Keys]
          /\ change_set'[t] \subseteq changed
          /\ \A u \in Threads \ {t} : change_set'[u] = change_set[u]
      BY <1>1, <1>3, <2>1
    <2>3. update_counter' \in [Threads -> Nat]
      BY <1>1, <2>1
    <2>4. Len(heap') >= Len(heap)
      BY <1>2, <2>1
    <2>5. QED
      BY <1>1, <2>1, <2>2, <2>3, <2>4
  <1>6. QED
    BY <1>4, <1>5

(* What the cases of process_request have in common: the thread's store goes *)
(* up to db by the writes in new, the keys in changed and the counter grow,  *)
(* and the gossip check follows.                                             *)
RequestStep(t, db, changed, counter, new) ==
  /\ db \in Database
  /\ changed \subseteq DOMAIN db
  /\ change_set[t] \subseteq changed
  /\ counter \in Nat
  /\ Cardinality(change_set[t]) <= update_counter[t] => Cardinality(changed) <= counter
  /\ DOMAIN kvs[t] \subseteq DOMAIN db
  /\ \A k \in DOMAIN kvs[t] : EntryLeq(kvs[t][k], db[k])
  /\ \A k \in DOMAIN db : \/ k \in DOMAIN kvs[t] /\ db[k] = kvs[t][k]
                          \/ \E w \in new : w.key = k /\ w.entry = db[k]
  /\ new \subseteq Write
  /\ \A w \in new : w.origin = t /\ w.key \in changed /\ Reflects(db, w)
  /\ kvs' = [kvs EXCEPT ![t] = db]
  /\ writes' = writes \cup new
  /\ MaybeGossip(t, db, changed, counter)
  /\ UNCHANGED <<pc, count_, at, subs, cur>>

(* The requests that write nothing. *)
LEMMA ReadStep ==
  ASSUME TypeInv, NEW t \in Threads,
         MaybeGossip(t, kvs[t], change_set[t], update_counter[t]),
         UNCHANGED <<kvs, writes>>, requestUnchanged
  PROVE  RequestStep(t, kvs[t], change_set[t], update_counter[t], {})
  <1>1. /\ kvs \in [Threads -> Database]
        /\ update_counter \in [Threads -> Nat]
        /\ change_set[t] \subseteq DOMAIN kvs[t]
    BY DEF TypeInv, TypeOK, ChangeSetStored
  <1>2. kvs[t] \in Database /\ \A k \in DOMAIN kvs[t] : kvs[t][k] \in Entry
    BY <1>1, DatabaseMember
  <1>3. \A k \in DOMAIN kvs[t] : EntryLeq(kvs[t][k], kvs[t][k])
    BY <1>2, EntryLeqOrder
  <1>4. kvs' = [kvs EXCEPT ![t] = kvs[t]] /\ writes' = writes \cup {}
    BY <1>1
  <1>5. QED
    BY <1>1, <1>2, <1>3, <1>4 DEF RequestStep, requestUnchanged

LEMMA PutStep ==
  ASSUME TypeInv, NEW t \in Threads, NEW timestamp, NEW batch \in Batches,
         timestamp \in Timestamps \/ batch = EmptyMap,
         Put(t, timestamp, batch)
  PROVE  RequestStep(t, DatabaseJoin(kvs[t], PutEntries(timestamp, batch)),
                     change_set[t] \cup DOMAIN batch,
                     update_counter[t] + Cardinality(DOMAIN batch),
                     {[origin |-> t, key |-> k, entry |-> PutEntries(timestamp, batch)[k]] :
                        k \in DOMAIN batch})
  <1> DEFINE E == PutEntries(timestamp, batch)
             db == DatabaseJoin(kvs[t], E)
             new == {[origin |-> t, key |-> k, entry |-> E[k]] : k \in DOMAIN batch}
             changed == change_set[t] \cup DOMAIN batch
             counter == update_counter[t] + Cardinality(DOMAIN batch)
  <1>1. /\ kvs[t] \in Database
        /\ update_counter[t] \in Nat
        /\ change_set[t] \subseteq DOMAIN kvs[t]
        /\ kvs \in [Threads -> Database]
    BY DEF TypeInv, TypeOK, ChangeSetStored
  <1>2. E \in Database /\ DOMAIN E = DOMAIN batch /\ DOMAIN batch \subseteq Keys
    BY PutEntriesType
  <1>3. kvs' = [kvs EXCEPT ![t] = db] /\ MaybeGossip(t, db, changed, counter)
    BY DEF Put
  <1>4. writes' = writes \cup new /\ UNCHANGED <<pc, count_, at, subs, cur>>
    BY DEF Put, requestUnchanged
  <1> HIDE DEF E
  <1>5. /\ db \in Database
        /\ DOMAIN db = DOMAIN kvs[t] \cup DOMAIN E
        /\ \A k \in DOMAIN kvs[t] : EntryLeq(kvs[t][k], db[k])
        /\ \A k \in DOMAIN E : EntryLeq(E[k], db[k])
        /\ \A k \in DOMAIN db : \/ k \in DOMAIN kvs[t] /\ db[k] = kvs[t][k]
                                \/ k \in DOMAIN E /\ db[k] = E[k]
    BY <1>1, <1>2, DatabaseJoinBindings
  <1> HIDE DEF db
  <1>6. counter \in Nat
    <2>1. IsFiniteSet(DOMAIN batch)
      BY <1>2, KeysAssumption, FS_Subset
    <2>2. QED
      BY <1>1, <2>1, FS_CardinalityType
  <1>7. Cardinality(change_set[t]) <= update_counter[t] => Cardinality(changed) <= counter
    <2> DEFINE old == change_set[t]
               put == DOMAIN batch
    <2>1. old \subseteq Keys /\ put \subseteq Keys
      BY <1>2 DEF TypeInv, TypeOK
    <2> HIDE DEF old, put
    <2>2. IsFiniteSet(old) /\ IsFiniteSet(put)
      BY <2>1, KeysAssumption, FS_Subset
    <2>3. IsFiniteSet(old \cap put)
      BY <2>2, FS_Subset
    <2>4. Cardinality(old \cup put) = Cardinality(old) + Cardinality(put) - Cardinality(old \cap put)
      BY <2>2, FS_Union
    <2>5. Cardinality(old) \in Nat /\ Cardinality(put) \in Nat /\ Cardinality(old \cap put) \in Nat
      BY <2>2, <2>3, FS_CardinalityType
    <2>6. QED
      BY <1>1, <2>4, <2>5 DEF old, put
  <1>8. changed \subseteq DOMAIN db /\ change_set[t] \subseteq changed
    BY <1>1, <1>2, <1>5
  <1>9. new \subseteq Write
    <2>1. \A k \in DOMAIN batch : E[k] \in Entry /\ k \in Keys
      BY <1>2, DatabaseMember
    <2>2. \A k \in DOMAIN batch : [origin |-> t, key |-> k, entry |-> E[k]] \in Write
      BY <2>1 DEF Write
    <2>3. QED
      BY <2>2
  <1>10. \A w \in new : w.origin = t /\ w.key \in changed /\ Reflects(db, w)
    BY <1>2, <1>5 DEF Reflects
  <1>11. \A k \in DOMAIN db : \/ k \in DOMAIN kvs[t] /\ db[k] = kvs[t][k]
                              \/ \E w \in new : w.key = k /\ w.entry = db[k]
    <2>1. ASSUME NEW k \in DOMAIN E
          PROVE  \E w \in new : w.key = k /\ w.entry = E[k]
      <3>1. [origin |-> t, key |-> k, entry |-> E[k]] \in new
        BY <1>2
      <3> HIDE DEF new
      <3>2. QED
        BY <3>1
    <2>2. QED
      BY <1>5, <2>1
  <1> HIDE DEF changed, counter, new
  <1>12. RequestStep(t, db, changed, counter, new)
    BY <1>1, <1>3, <1>4, <1>5, <1>6, <1>7, <1>8, <1>9, <1>10, <1>11 DEF RequestStep
  <1>13. QED
    BY <1>12 DEF db, E, changed, counter, new

LEMMA RequestIsStep ==
  ASSUME TypeInv, NEW t \in Threads, Request(t)
  PROVE  \E db, changed, counter, new : RequestStep(t, db, changed, counter, new)
  <1>1. CASE BeginTransaction(t)
    BY <1>1, ReadStep DEF BeginTransaction
  <1>2. CASE GetOrNotSet(t)
    BY <1>2, ReadStep DEF GetOrNotSet
  <1>3. CASE \E timestamp \in issued, batch \in Batches : Put(t, timestamp, batch)
    <2>1. PICK timestamp \in issued, batch \in Batches : Put(t, timestamp, batch)
      BY <1>3
    <2>2. timestamp \in Timestamps
      BY DEF TypeInv, TypeOK
    <2>3. QED
      BY <2>1, <2>2, PutStep
  <1>4. CASE Put(t, -1, EmptyMap)
    BY <1>4, EmptyBatch, PutStep
  <1>5. QED
    BY <1>1, <1>2, <1>3, <1>4 DEF Request

LEMMA TypeInit == Init => TypeInv
  <1> SUFFICES ASSUME Init PROVE TypeInv
    OBVIOUS
  <1> USE DEF Init
  <1>1. /\ pc \in [Threads -> {"start", "bound", "running"}]
        /\ subs \in [Threads -> SUBSET Threads]
        /\ update_counter \in [Threads -> Nat]
        /\ change_set \in [Threads -> SUBSET Keys]
        /\ issued \in SUBSET Timestamps
        /\ writes \in SUBSET Write
        /\ dropped \in SUBSET (Threads \X Threads)
    OBVIOUS
  <1>2. B!BarrierTypeOK
    BY DEF B!BarrierInit, B!BarrierTypeOK
  <1>3. kvs \in [Threads -> Database]
    <2>1. EmptyMap \in [{} -> Entry]
      BY DEF EmptyMap
    <2>2. EmptyMap \in Database
      BY <2>1 DEF Database
    <2>3. QED
      BY <2>2
  <1>4. local_timestamp \in [Threads -> 0..MaxLocal]
    BY MaxLocalAssumption
  <1>5. heap \in Seq(GossipData) /\ Len(heap) = 0
    OBVIOUS
  <1>6. pipe \in [Threads -> [Threads -> Seq(1..Len(heap))]]
    <2>1. << >> \in Seq(1..Len(heap))
      OBVIOUS
    <2>2. QED
      BY <2>1
  <1>7. cur \in [Threads -> 0..Len(heap)]
    BY <1>5
  <1>8. ChangeSetStored
    BY DEF ChangeSetStored
  <1>9. QED
    BY <1>1, <1>2, <1>3, <1>4, <1>5, <1>6, <1>7, <1>8 DEF TypeInv, TypeOK

(* A thread's part of the start-up, and the subscriptions it causes. *)
StartUpStep(t) ==
  StartUp(t) \/ WakeSpuriously(t) \/ \E u \in Threads : SubscriptionArrives(t, u)

LEMMA StartUpUnchanged ==
  ASSUME NEW t \in Threads, StartUpStep(t)
  PROVE  startupUnchanged
  BY DEF StartUpStep, StartUp, Bind, EnterBarrier, WakeSpuriously, RecheckBarrier,
         Subscribe, SubscriptionArrives

LEMMA StartUpTypes ==
  ASSUME TypeInv, NEW t \in Threads, StartUpStep(t)
  PROVE  TypeInv'
  <1>1. startupUnchanged
    BY StartUpUnchanged
  <1>2. /\ pc \in [Threads -> {"start", "bound", "running"}]
        /\ subs \in [Threads -> SUBSET Threads]
        /\ count_ \in Nat
        /\ at \in [Threads -> {"out", "waiting", "woken", "released"}]
    BY DEF TypeInv, TypeOK, B!BarrierTypeOK
  <1>3. pc' \in [Threads -> {"start", "bound", "running"}]
    BY <1>2 DEF StartUpStep, StartUp, Bind, EnterBarrier, WakeSpuriously,
                RecheckBarrier, Subscribe, SubscriptionArrives
  <1>4. subs' \in [Threads -> SUBSET Threads]
    BY <1>2 DEF StartUpStep, StartUp, Bind, EnterBarrier, WakeSpuriously,
                RecheckBarrier, Subscribe, SubscriptionArrives
  <1>5. /\ count_' \in Nat
        /\ at' \in [Threads -> {"out", "waiting", "woken", "released"}]
    <2>1. CASE UNCHANGED <<count_, at>>
      BY <1>2, <2>1
    <2>2. CASE B!Enter(t)
      BY <1>2, <2>2 DEF B!Enter
    <2>3. CASE B!SpuriousWakeup(t) \/ B!Recheck(t)
      BY <1>2, <2>3 DEF B!SpuriousWakeup, B!Recheck
    <2>4. QED
      BY <2>1, <2>2, <2>3
      DEF StartUpStep, StartUp, Bind, EnterBarrier, WakeSpuriously,
          RecheckBarrier, Subscribe, SubscriptionArrives
  <1>6. ChangeSetStored'
    BY <1>1 DEF TypeInv, ChangeSetStored, startupUnchanged
  <1>7. TypeOK'
    BY <1>1, <1>3, <1>4, <1>5
    DEF TypeInv, TypeOK, B!BarrierTypeOK, startupUnchanged
  <1>8. QED
    BY <1>6, <1>7 DEF TypeInv

LEMMA JoinGossipTypes ==
  ASSUME TypeInv, NEW t \in Threads, NEW u \in Threads, JoinGossip(t, u)
  PROVE  /\ TypeInv'
         /\ Head(pipe[u][t]) \in DOMAIN heap
         /\ heap[Head(pipe[u][t])].db \in Database
  <1> DEFINE g == Head(pipe[u][t])
  <1>1. /\ kvs \in [Threads -> Database]
        /\ heap \in Seq(GossipData)
        /\ pipe \in [Threads -> [Threads -> Seq(1..Len(heap))]]
        /\ cur \in [Threads -> 0..Len(heap)]
        /\ change_set[t] \subseteq DOMAIN kvs[t]
    BY DEF TypeInv, TypeOK, ChangeSetStored
  <1>2. pipe[u][t] \in Seq(1..Len(heap)) /\ pipe[u][t] # << >>
    BY <1>1 DEF JoinGossip
  <1>3. g \in 1..Len(heap) /\ Tail(pipe[u][t]) \in Seq(1..Len(heap))
    BY <1>2, HeadTailProperties
  <1>4. g \in DOMAIN heap /\ heap[g] \in GossipData
    BY <1>1, <1>3
  <1>5. heap[g].db \in Database
    BY <1>4 DEF GossipData
  <1>6. /\ kvs' = [kvs EXCEPT ![t] = DatabaseJoin(kvs[t], heap[g].db)]
        /\ cur' = [cur EXCEPT ![t] = g]
        /\ pipe' = [pipe EXCEPT ![u] = [pipe[u] EXCEPT ![t] = Tail(pipe[u][t])]]
        /\ UNCHANGED <<pc, count_, at, subs, local_timestamp, update_counter,
                       change_set, heap, issued, writes, dropped>>
    BY DEF JoinGossip
  <1> HIDE DEF g
  <1>7. /\ DatabaseJoin(kvs[t], heap[g].db) \in Database
        /\ DOMAIN kvs[t] \subseteq DOMAIN DatabaseJoin(kvs[t], heap[g].db)
    <2> DEFINE m == kvs[t]
               l == heap[g].db
    <2>1. m \in Database /\ l \in Database
      BY <1>1, <1>5
    <2> HIDE DEF m, l
    <2>2. /\ DatabaseJoin(m, l) \in Database
          /\ DOMAIN DatabaseJoin(m, l) = DOMAIN m \cup DOMAIN l
      BY <2>1, DatabaseJoinBindings
    <2>3. QED
      BY <2>2 DEF m, l
  <1>8. kvs' \in [Threads -> Database]
    BY <1>1, <1>6, <1>7
  <1>9. cur' \in [Threads -> 0..Len(heap')]
    BY <1>1, <1>3, <1>6
  <1>10. pipe' \in [Threads -> [Threads -> Seq(1..Len(heap'))]]
    <2>1. [pipe[u] EXCEPT ![t] = Tail(pipe[u][t])] \in [Threads -> Seq(1..Len(heap))]
      BY <1>1, <1>3
    <2>2. QED
      BY <1>1, <1>6, <2>1
  <1>11. ChangeSetStored'
    BY <1>1, <1>6, <1>7 DEF TypeInv, ChangeSetStored
  <1>12. TypeOK'
    BY <1>6, <1>8, <1>9, <1>10 DEF TypeInv, TypeOK, B!BarrierTypeOK
  <1>13. QED
    BY <1>4, <1>5, <1>11, <1>12 DEF TypeInv, g

LEMMA CountGossipTypes ==
  ASSUME TypeInv, NEW t \in Threads, CountGossip(t)
  PROVE  /\ TypeInv'
         /\ DOMAIN heap' = DOMAIN heap
         /\ \A g \in DOMAIN heap : heap'[g].db = heap[g].db
  <1>1. /\ heap \in Seq(GossipData)
        /\ cur \in [Threads -> 0..Len(heap)]
        /\ cur[t] # 0
    BY DEF TypeInv, TypeOK, CountGossip
  <1>2. cur[t] \in 1..Len(heap) /\ heap[cur[t]] \in GossipData
    BY <1>1
  <1> DEFINE new == Processed(heap[cur[t]])
  <1>3. /\ heap' = [heap EXCEPT ![cur[t]] = new]
        /\ cur' = [cur EXCEPT ![t] = 0]
        /\ UNCHANGED <<pc, count_, at, subs, kvs, local_timestamp, update_counter,
                       change_set, pipe, issued, writes, dropped>>
    BY DEF CountGossip
  <1>4. new \in GossipData /\ new.db = heap[cur[t]].db
    BY <1>2 DEF GossipData, Processed
  <1> HIDE DEF new
  <1>5. heap' \in Seq(GossipData) /\ Len(heap') = Len(heap)
    BY <1>1, <1>2, <1>3, <1>4, ExceptSeq
  <1>6. DOMAIN heap' = DOMAIN heap /\ \A g \in DOMAIN heap : heap'[g].db = heap[g].db
    BY <1>1, <1>2, <1>3, <1>4
  <1>7. cur' \in [Threads -> 0..Len(heap')]
    BY <1>1, <1>3, <1>5
  <1>8. ChangeSetStored'
    BY <1>3 DEF TypeInv, ChangeSetStored
  <1>9. TypeOK'
    BY <1>3, <1>5, <1>7 DEF TypeInv, TypeOK, B!BarrierTypeOK
  <1>10. QED
    BY <1>6, <1>8, <1>9 DEF TypeInv

LEMMA RequestTypes ==
  ASSUME TypeInv, NEW t \in Threads, Request(t)
  PROVE  TypeInv'
  <1>1. PICK db, changed, counter, new : RequestStep(t, db, changed, counter, new)
    BY RequestIsStep
  <1>2. /\ heap' \in Seq(GossipData)
        /\ Len(heap') >= Len(heap)
        /\ pipe' \in [Threads -> [Threads -> Seq(1..Len(heap'))]]
        /\ change_set' \in [Threads -> SUBSET Keys]
        /\ change_set'[t] \subseteq changed
        /\ \A u \in Threads \ {t} : change_set'[u] = change_set[u]
        /\ update_counter' \in [Threads -> Nat]
        /\ dropped' \in SUBSET (Threads \X Threads)
    BY <1>1, GossipTypes DEF RequestStep, TypeInv
  <1>3. /\ kvs \in [Threads -> Database]
        /\ cur \in [Threads -> 0..Len(heap)]
        /\ heap \in Seq(GossipData)
        /\ local_timestamp \in [Threads -> 0..MaxLocal]
        /\ issued \in SUBSET Timestamps
        /\ writes \in SUBSET Write
        /\ \A u \in Threads : change_set[u] \subseteq DOMAIN kvs[u]
    BY DEF TypeInv, TypeOK, ChangeSetStored
  <1>4. kvs' \in [Threads -> Database] /\ writes' \in SUBSET Write
    BY <1>1, <1>3 DEF RequestStep
  <1>5. cur' \in [Threads -> 0..Len(heap')]
    <2>1. Len(heap) \in Nat /\ Len(heap') \in Nat
      BY <1>2, <1>3
    <2>2. QED
      BY <1>1, <1>2, <1>3, <2>1 DEF RequestStep
  <1>6. /\ local_timestamp' \in [Threads -> 0..MaxLocal]
        /\ issued' \in SUBSET Timestamps
    <2>1. CASE UNCHANGED <<local_timestamp, issued>>
      BY <1>3, <2>1
    <2>2. CASE BeginTransaction(t)
      <3>1. local_timestamp[t] \in 0..MaxLocal /\ local_timestamp[t] < MaxLocal
        BY <1>3, <2>2 DEF BeginTransaction
      <3>2. NewTimestamp(t) \in Timestamps
        BY <3>1, ThreadIds, MaxLocalAssumption DEF NewTimestamp, Timestamps
      <3>3. local_timestamp[t] + 1 \in 0..MaxLocal
        BY <3>1, MaxLocalAssumption
      <3>4. QED
        BY <1>3, <2>2, <3>2, <3>3 DEF BeginTransaction
    <2>3. QED
      BY <2>1, <2>2 DEF Request, GetOrNotSet, Put
  <1>7. ChangeSetStored'
    <2>1. ASSUME NEW u \in Threads PROVE change_set'[u] \subseteq DOMAIN kvs'[u]
      BY <1>1, <1>2, <1>3 DEF RequestStep
    <2>2. QED
      BY <2>1 DEF ChangeSetStored
  <1>8. TypeOK'
    BY <1>1, <1>2, <1>4, <1>5, <1>6
    DEF TypeInv, TypeOK, B!BarrierTypeOK, RequestStep
  <1>9. QED
    BY <1>7, <1>8 DEF TypeInv

LEMMA StutterTypes ==
  ASSUME TypeInv, UNCHANGED serverVars
  PROVE  TypeInv'
  BY DEF serverVars, TypeInv, TypeOK, ChangeSetStored, B!BarrierTypeOK

LEMMA NextCases ==
  ASSUME Next
  PROVE  \E t \in Threads : \/ StartUpStep(t)
                            \/ \E u \in Threads : JoinGossip(t, u)
                            \/ CountGossip(t)
                            \/ Request(t)
  BY DEF Next, StartUpStep, Receive

LEMMA TypeStep == TypeInv /\ [Next]_serverVars => TypeInv'
  <1> SUFFICES ASSUME TypeInv, [Next]_serverVars PROVE TypeInv'
    OBVIOUS
  <1>1. CASE UNCHANGED serverVars
    BY <1>1, StutterTypes
  <1>2. CASE Next
    BY <1>2, NextCases, StartUpTypes, JoinGossipTypes, CountGossipTypes, RequestTypes
  <1>3. QED
    BY <1>1, <1>2

(* Every reachable state is well typed, and no thread's change_set names a   *)
(* key that its store lacks, so send_gossip's db.get(key) never throws.      *)
THEOREM TypeCorrect == Spec => [](TypeOK /\ ChangeSetStored)
  <1>1. Init => TypeInv
    BY TypeInit
  <1>2. TypeInv /\ [Next]_serverVars => TypeInv'
    BY TypeStep
  <1>3. TypeInv <=> TypeOK /\ ChangeSetStored
    BY DEF TypeInv
  <1>4. QED
    BY <1>1, <1>2, <1>3, PTL DEF Spec

-----------------------------------------------------------------------------
(* Convergence.  ReplicasConverge is a fact about quiescent states only; the *)
(* inductive invariant says where every acknowledged write is at any time    *)
(* (NoWriteLost) and that stores and gossip hold nothing else (Provenance).  *)

ConvergenceInv == TypeInv /\ Provenance /\ NoWriteLost

LEMMA AppendElements ==
  ASSUME NEW s \in Seq(Nat), NEW x \in Nat
  PROVE  /\ \A i \in DOMAIN s : \E j \in DOMAIN Append(s, x) : Append(s, x)[j] = s[i]
         /\ \E j \in DOMAIN Append(s, x) : Append(s, x)[j] = x
  <1>1. DOMAIN s = 1..Len(s) /\ Len(s) \in Nat
    OBVIOUS
  <1>2. DOMAIN Append(s, x) = 1..(Len(s) + 1)
    OBVIOUS
  <1>3. \A i \in DOMAIN s : Append(s, x)[i] = s[i]
    OBVIOUS
  <1>4. Append(s, x)[Len(s) + 1] = x
    OBVIOUS
  <1>5. \A i \in DOMAIN s : i \in DOMAIN Append(s, x)
    BY <1>1, <1>2
  <1>6. Len(s) + 1 \in DOMAIN Append(s, x)
    BY <1>1, <1>2
  <1>7. QED
    BY <1>3, <1>4, <1>5, <1>6

LEMMA TailElements ==
  ASSUME NEW S, NEW s \in Seq(S), s # << >>, NEW i \in DOMAIN s
  PROVE  s[i] = Head(s) \/ \E j \in DOMAIN Tail(s) : Tail(s)[j] = s[i]
  <1>1. DOMAIN s = 1..Len(s) /\ Len(s) \in Nat /\ Head(s) = s[1]
    OBVIOUS
  <1>2. /\ DOMAIN Tail(s) = 1..(Len(s) - 1)
        /\ \A j \in DOMAIN Tail(s) : Tail(s)[j] = s[j + 1]
    OBVIOUS
  <1>3. CASE i = 1
    BY <1>1, <1>3
  <1>4. CASE i # 1
    <2>1. i - 1 \in DOMAIN Tail(s) /\ (i - 1) + 1 = i
      BY <1>1, <1>2, <1>4
    <2>2. QED
      BY <1>2, <2>1
  <1>5. QED
    BY <1>3, <1>4

(* Reflects is upward closed. *)
LEMMA ReflectsUp ==
  ASSUME NEW m \in Database, NEW l \in Database, NEW w \in Write,
         DOMAIN m \subseteq DOMAIN l,
         \A k \in DOMAIN m : EntryLeq(m[k], l[k]),
         Reflects(m, w)
  PROVE  Reflects(l, w)
  <1>1. /\ \A k \in DOMAIN m : m[k] \in Entry
        /\ \A k \in DOMAIN l : l[k] \in Entry
    BY DatabaseMember
  <1>2. w.entry \in Entry
    BY DEF Write
  <1>3. QED
    BY <1>1, <1>2, EntryLeqOrder DEF Reflects

LEMMA ConvergenceInit == Init => ConvergenceInv
  <1> SUFFICES ASSUME Init PROVE ConvergenceInv
    OBVIOUS
  <1>1. TypeInv
    BY TypeInit
  <1>2. Provenance
    BY DEF Init, Provenance, Written, EmptyMap
  <1>3. NoWriteLost
    BY DEF Init, NoWriteLost, OriginReflects, Delivery
  <1>4. QED
    BY <1>1, <1>2, <1>3 DEF ConvergenceInv

LEMMA StartUpConvergence ==
  ASSUME ConvergenceInv, startupUnchanged
  PROVE  Provenance' /\ NoWriteLost'
  BY DEF ConvergenceInv, Provenance, Written, NoWriteLost, OriginReflects, Delivery,
         Accounted, InFlight, startupUnchanged

LEMMA CountGossipConvergence ==
  ASSUME ConvergenceInv, NEW t \in Threads, CountGossip(t)
  PROVE  Provenance' /\ NoWriteLost'
  <1>1. /\ UNCHANGED <<kvs, change_set, pipe, writes, dropped>>
        /\ DOMAIN heap' = DOMAIN heap
        /\ \A g \in DOMAIN heap : heap'[g].db = heap[g].db
    BY CountGossipTypes DEF ConvergenceInv, CountGossip
  <1>2. Provenance'
    BY <1>1 DEF ConvergenceInv, Provenance, Written
  <1>3. \A u, s \in Threads : \A g \in InFlight(u, s) : g \in DOMAIN heap
    <2>1. \A u, s \in Threads : pipe[u][s] \in Seq(1..Len(heap))
      BY DEF ConvergenceInv, TypeInv, TypeOK
    <2>2. heap \in Seq(GossipData)
      BY DEF ConvergenceInv, TypeInv, TypeOK
    <2>3. QED
      BY <2>1, <2>2 DEF InFlight
  <1>4. \A u, s : InFlight(u, s)' = InFlight(u, s)
    BY <1>1 DEF InFlight
  <1>5. \A w \in writes : w.origin \in Threads
    BY DEF ConvergenceInv, TypeInv, TypeOK, Write
  <1>6. ASSUME NEW w \in writes, NEW s \in Threads
        PROVE  Accounted(w, s)'
    <2>1. Accounted(w, s)
      BY DEF ConvergenceInv, NoWriteLost, Delivery
    <2>2. QED
      BY <1>1, <1>3, <1>4, <1>5, <2>1 DEF Accounted
  <1>7. NoWriteLost'
    BY <1>1, <1>6 DEF ConvergenceInv, NoWriteLost, OriginReflects, Delivery
  <1>8. QED
    BY <1>2, <1>7

LEMMA JoinGossipConvergence ==
  ASSUME ConvergenceInv, NEW t \in Threads, NEW u \in Threads, JoinGossip(t, u)
  PROVE  Provenance' /\ NoWriteLost'
  <1> DEFINE g == Head(pipe[u][t])
             m == kvs[t]
             l == heap[g].db
             J == DatabaseJoin(m, l)
  <1>1. /\ kvs \in [Threads -> Database]
        /\ pipe \in [Threads -> [Threads -> Seq(1..Len(heap))]]
        /\ writes \subseteq Write
    BY DEF ConvergenceInv, TypeInv, TypeOK
  <1>2. g \in DOMAIN heap /\ m \in Database /\ l \in Database
    BY <1>1, JoinGossipTypes DEF ConvergenceInv
  <1>3. /\ kvs' = [kvs EXCEPT ![t] = J]
        /\ pipe' = [pipe EXCEPT ![u] = [pipe[u] EXCEPT ![t] = Tail(pipe[u][t])]]
        /\ pipe[u][t] # << >>
        /\ UNCHANGED <<change_set, heap, writes, dropped>>
    BY DEF JoinGossip
  <1>4. /\ Written(m, writes) /\ Written(l, writes)
        /\ \A s \in Threads : Written(kvs[s], writes)
        /\ \A h \in DOMAIN heap : Written(heap[h].db, writes)
    BY <1>2 DEF ConvergenceInv, Provenance
  <1>5. /\ kvs'[t] = J
        /\ \A s \in Threads \ {t} : kvs'[s] = kvs[s]
    BY <1>1, <1>3
  <1> HIDE DEF g, m, l
  <1>7. \A k \in DOMAIN J : \/ k \in DOMAIN m /\ J[k] = m[k]
                            \/ k \in DOMAIN l /\ J[k] = l[k]
    BY <1>2, DatabaseJoinSelects
  <1>8. \A w \in writes : /\ Reflects(m, w) => Reflects(J, w)
                          /\ Reflects(l, w) => Reflects(J, w)
    BY <1>1, <1>2, JoinReflects
  <1> HIDE DEF J
  <1>9. Provenance'
    <2>1. Written(J, writes)
      BY <1>4, <1>7 DEF Written
    <2>2. \A s \in Threads : Written(kvs'[s], writes)
      BY <1>4, <1>5, <2>1
    <2>3. QED
      BY <1>3, <1>4, <2>2 DEF Provenance
  <1>10. \A w \in writes, s \in Threads : Reflects(kvs[s], w) => Reflects(kvs'[s], w)
    BY <1>5, <1>8 DEF m
  <1>11. OriginReflects'
    <2>1. \A w \in writes : w.origin \in Threads /\ Reflects(kvs[w.origin], w)
      BY <1>1 DEF ConvergenceInv, NoWriteLost, OriginReflects, Write
    <2>2. QED
      BY <1>3, <1>10, <2>1 DEF OriginReflects
  <1>12. ASSUME NEW w \in writes, NEW s \in Threads
         PROVE  Accounted(w, s)'
    <2>1. Accounted(w, s)
      BY DEF ConvergenceInv, NoWriteLost, Delivery
    <2>2. w.origin \in Threads
      BY <1>1 DEF Write
    <2>3. CASE Reflects(kvs[s], w)
      BY <1>10, <2>3 DEF Accounted
    <2>4. CASE w.key \in change_set[w.origin] \/ <<w.origin, s>> \in dropped
      BY <1>3, <2>4 DEF Accounted
    <2>5. CASE \E h \in InFlight(w.origin, s) : Reflects(heap[h].db, w)
      <3>1. PICK i \in DOMAIN pipe[w.origin][s] :
              Reflects(heap[pipe[w.origin][s][i]].db, w)
        BY <2>5 DEF InFlight
      <3>2. CASE w.origin = u /\ s = t
        <4>1. pipe[u][t] \in Seq(1..Len(heap)) /\ pipe'[u][t] = Tail(pipe[u][t])
          BY <1>1, <1>3
        <4>2. CASE pipe[u][t][i] = Head(pipe[u][t])
          <5>1. Reflects(l, w)
            BY <3>1, <3>2, <4>2 DEF l, g
          <5>2. Reflects(kvs'[s], w)
            BY <1>5, <1>8, <3>2, <5>1
          <5>3. QED
            BY <5>2 DEF Accounted
        <4>3. CASE \E j \in DOMAIN Tail(pipe[u][t]) : Tail(pipe[u][t])[j] = pipe[u][t][i]
          <5>1. PICK j \in DOMAIN pipe'[u][t] : pipe'[u][t][j] = pipe[u][t][i]
            BY <4>1, <4>3
          <5>2. pipe[u][t][i] \in InFlight(w.origin, s)'
            BY <3>2, <5>1 DEF InFlight
          <5>3. QED
            BY <1>3, <3>1, <3>2, <5>2 DEF Accounted
        <4>4. QED
          BY <1>3, <3>1, <3>2, <4>1, <4>2, <4>3, TailElements
      <3>3. CASE ~(w.origin = u /\ s = t)
        <4>1. pipe'[w.origin][s] = pipe[w.origin][s]
          BY <1>1, <1>3, <2>2, <3>3
        <4>2. InFlight(w.origin, s)' = InFlight(w.origin, s)
          BY <4>1 DEF InFlight
        <4>3. QED
          BY <1>3, <2>5, <4>2 DEF Accounted
      <3>4. QED
        BY <3>2, <3>3
    <2>6. QED
      BY <2>1, <2>3, <2>4, <2>5 DEF Accounted
  <1>13. QED
    BY <1>3, <1>9, <1>11, <1>12 DEF NoWriteLost, Delivery

(* The request's own part of the invariant, before gossip. *)
LEMMA RequestReflects ==
  ASSUME ConvergenceInv, NEW t \in Threads, NEW db, NEW changed, NEW counter, NEW new,
         RequestStep(t, db, changed, counter, new)
  PROVE  /\ \A s \in Threads : Written(kvs'[s], writes')
         /\ OriginReflects'
         /\ \A w \in writes, s \in Threads : Reflects(kvs[s], w) => Reflects(kvs'[s], w)
         /\ \A w \in writes' : w.origin = t => Reflects(db, w)
  <1>1. /\ kvs \in [Threads -> Database]
        /\ kvs[t] \in Database
        /\ writes \subseteq Write
    BY DEF ConvergenceInv, TypeInv, TypeOK
  <1>2. /\ db \in Database
        /\ DOMAIN kvs[t] \subseteq DOMAIN db
        /\ \A k \in DOMAIN kvs[t] : EntryLeq(kvs[t][k], db[k])
        /\ \A k \in DOMAIN db : \/ k \in DOMAIN kvs[t] /\ db[k] = kvs[t][k]
                                \/ \E w \in new : w.key = k /\ w.entry = db[k]
        /\ \A w \in new : w.origin = t /\ Reflects(db, w)
        /\ kvs' = [kvs EXCEPT ![t] = db]
        /\ writes' = writes \cup new
    BY DEF RequestStep
  <1>3. kvs'[t] = db /\ \A s \in Threads \ {t} : kvs'[s] = kvs[s]
    BY <1>1, <1>2
  <1>4. ASSUME NEW s \in Threads PROVE Written(kvs'[s], writes')
    <2>1. \A k \in DOMAIN kvs[s] : \E w \in writes : w.key = k /\ w.entry = kvs[s][k]
      BY DEF ConvergenceInv, Provenance, Written
    <2>2. \A k \in DOMAIN kvs'[s] : \E w \in writes' : w.key = k /\ w.entry = kvs'[s][k]
      BY <1>2, <1>3, <2>1
    <2>3. QED
      BY <2>2 DEF Written
  <1>5. ASSUME NEW w \in writes, NEW s \in Threads, Reflects(kvs[s], w)
        PROVE  Reflects(kvs'[s], w)
    <2>1. w \in Write
      BY <1>1
    <2>2. CASE s = t
      BY <1>1, <1>2, <1>3, <1>5, <2>1, <2>2, ReflectsUp
    <2>3. CASE s # t
      BY <1>3, <1>5, <2>3
    <2>4. QED
      BY <2>2, <2>3
  <1>6. \A w \in writes : w.origin \in Threads /\ Reflects(kvs[w.origin], w)
    BY <1>1 DEF ConvergenceInv, NoWriteLost, OriginReflects, Write
  <1>7. OriginReflects'
    <2>1. \A w \in writes : Reflects(kvs'[w.origin], w)
      BY <1>5, <1>6
    <2>2. \A w \in new : Reflects(kvs'[w.origin], w)
      BY <1>2, <1>3
    <2>3. QED
      BY <1>2, <2>1, <2>2 DEF OriginReflects
  <1>8. \A w \in writes' : w.origin = t => Reflects(db, w)
    BY <1>2, <1>3, <1>5, <1>6
  <1>9. QED
    BY <1>4, <1>5, <1>7, <1>8

LEMMA RequestConvergence ==
  ASSUME ConvergenceInv, NEW t \in Threads, Request(t)
  PROVE  Provenance' /\ NoWriteLost'
  <1>1. PICK db, changed, counter, new : RequestStep(t, db, changed, counter, new)
    BY RequestIsStep DEF ConvergenceInv
  <1>2. /\ \A s \in Threads : Written(kvs'[s], writes')
        /\ OriginReflects'
        /\ \A w \in writes, s \in Threads : Reflects(kvs[s], w) => Reflects(kvs'[s], w)
        /\ \A w \in writes' : w.origin = t => Reflects(db, w)
    BY <1>1, RequestReflects
  <1>3. /\ writes' = writes \cup new
        /\ \A w \in new : w.origin = t /\ w.key \in changed
        /\ change_set[t] \subseteq changed
        /\ changed \subseteq DOMAIN db
        /\ kvs'[t] = db
        /\ MaybeGossip(t, db, changed, counter)
    BY <1>1 DEF RequestStep, ConvergenceInv, TypeInv, TypeOK
  <1>4. /\ heap \in Seq(GossipData)
        /\ DOMAIN heap = 1..Len(heap) /\ Len(heap) \in Nat
        /\ pipe \in [Threads -> [Threads -> Seq(1..Len(heap))]]
        /\ change_set \in [Threads -> SUBSET Keys]
        /\ \A w \in writes : w.origin \in Threads
    BY DEF ConvergenceInv, TypeInv, TypeOK, Write
  <1>5. \A w \in writes, s \in Threads : Accounted(w, s)
    BY DEF ConvergenceInv, NoWriteLost, Delivery
  <1>6. \A g \in DOMAIN heap : Written(heap[g].db, writes')
    BY <1>3 DEF ConvergenceInv, Provenance, Written
  <1>7. CASE ~(counter >= THRESHOLD /\ NumThreads # 1)
    <2>1. /\ change_set' = [change_set EXCEPT ![t] = changed]
          /\ UNCHANGED <<heap, pipe, dropped>>
      BY <1>3, <1>7 DEF MaybeGossip
    <2>2. Provenance'
      BY <1>2, <1>6, <2>1 DEF Provenance
    <2>3. ASSUME NEW w \in writes', NEW s \in Threads
          PROVE  Accounted(w, s)'
      <3>1. CASE w \in new
        BY <1>3, <1>4, <2>1, <3>1 DEF Accounted
      <3>2. CASE w \in writes
        <4>1. change_set[w.origin] \subseteq change_set'[w.origin]
          BY <1>3, <1>4, <2>1, <3>2
        <4>2. InFlight(w.origin, s)' = InFlight(w.origin, s)
          BY <2>1 DEF InFlight
        <4>3. QED
          BY <1>2, <1>5, <2>1, <3>2, <4>1, <4>2 DEF Accounted
      <3>3. QED
        BY <1>3, <3>1, <3>2
    <2>4. QED
      BY <1>2, <2>2, <2>3 DEF NoWriteLost, Delivery
  <1>8. CASE counter >= THRESHOLD /\ NumThreads # 1
    <2> DEFINE copy == [k \in changed |-> db[k]]
               p == Len(heap) + 1
               gd == [db |-> copy, num_processed |-> 0, live |-> TRUE]
    <2>1. /\ heap' = Append(heap, gd)
          /\ pipe' = [pipe EXCEPT ![t] =
                        [s \in Threads |-> IF Delivers(t, s) THEN Append(pipe[t][s], p)
                                                             ELSE pipe[t][s]]]
          /\ dropped' = dropped \cup {<<t, s>> : s \in {r \in Threads \ {t} : ~Delivers(t, r)}}
          /\ change_set' = [change_set EXCEPT ![t] = {}]
      BY <1>3, <1>8 DEF MaybeGossip, send_gossip
    <2>2. /\ DOMAIN heap' = 1..p
          /\ \A g \in DOMAIN heap : heap'[g] = heap[g]
          /\ heap'[p] = gd
      BY <1>4, <2>1
    <2>3. heap'[p].db = copy
      BY <2>2
    <2>4. \A w \in writes' : w.key \in changed /\ Reflects(db, w) => Reflects(copy, w)
      BY DEF Reflects
    <2>5. Written(copy, writes')
      <3>1. \A k \in changed : \E w \in writes' : w.key = k /\ w.entry = db[k]
        BY <1>2, <1>3 DEF Written
      <3>2. QED
        BY <3>1 DEF Written
    <2> HIDE DEF copy, gd
    <2>6. Provenance'
      <3>1. \A g \in DOMAIN heap' : Written(heap'[g].db, writes')
        <4>1. ASSUME NEW g \in DOMAIN heap' PROVE Written(heap'[g].db, writes')
          <5>1. CASE g \in DOMAIN heap
            BY <1>6, <2>2, <5>1
          <5>2. CASE g = p
            BY <2>3, <2>5, <5>2
          <5>3. QED
            BY <1>4, <2>2, <5>1, <5>2
        <4>2. QED
          BY <4>1
      <3>2. QED
        BY <1>2, <3>1 DEF Provenance
    <2>7. \A u, s \in Threads : \A g \in InFlight(u, s) :
            g \in DOMAIN heap /\ g \in InFlight(u, s)'
      <3>1. SUFFICES ASSUME NEW u \in Threads, NEW s \in Threads,
                            NEW i \in DOMAIN pipe[u][s]
                     PROVE  /\ pipe[u][s][i] \in DOMAIN heap
                            /\ \E j \in DOMAIN pipe'[u][s] : pipe'[u][s][j] = pipe[u][s][i]
        BY DEF InFlight
      <3>2. pipe[u][s] \in Seq(1..Len(heap))
        BY <1>4
      <3>3. pipe[u][s] \in Seq(Nat)
        BY <1>4, <3>2, SeqMonotonic
      <3>4. pipe[u][s][i] \in DOMAIN heap
        BY <1>4, <3>2
      <3>5. pipe'[u][s] = pipe[u][s] \/ pipe'[u][s] = Append(pipe[u][s], p)
        BY <1>4, <2>1
      <3>6. p \in Nat
        BY <1>4
      <3> DEFINE q == pipe[u][s]
      <3>7. q \in Seq(Nat) /\ i \in DOMAIN q
        BY <3>3
      <3> HIDE DEF q, p
      <3>8. \E j \in DOMAIN Append(q, p) : Append(q, p)[j] = q[i]
        BY <3>6, <3>7, AppendElements
      <3>9. QED
        BY <3>4, <3>5, <3>7, <3>8 DEF q
    <2>8. ASSUME NEW s \in Threads, Delivers(t, s)
          PROVE  p \in InFlight(t, s)'
      <3>1. pipe[t][s] \in Seq(1..Len(heap))
        BY <1>4
      <3>2. pipe[t][s] \in Seq(Nat) /\ p \in Nat
        BY <1>4, <3>1, SeqMonotonic
      <3>3. pipe'[t][s] = Append(pipe[t][s], p)
        BY <1>4, <2>1, <2>8
      <3> DEFINE q == pipe[t][s]
      <3> HIDE DEF q
      <3>4. \E j \in DOMAIN Append(q, p) : Append(q, p)[j] = p
        <4>1. q \in Seq(Nat) /\ p \in Nat
          BY <3>2 DEF q
        <4> HIDE DEF p
        <4>2. QED
          BY <4>1, AppendElements
      <3>5. \E j \in DOMAIN pipe'[t][s] : pipe'[t][s][j] = p
        BY <3>3, <3>4 DEF q
      <3>6. QED
        BY <3>5 DEF InFlight
    <2>9. ASSUME NEW w \in writes', NEW s \in Threads
          PROVE  Accounted(w, s)'
      <3>1. CASE w.origin = t /\ s = t
        BY <1>2, <1>3, <3>1 DEF Accounted
      <3>2. CASE w.origin = t /\ s # t /\ w.key \in changed
        <4>1. Reflects(copy, w)
          BY <1>2, <2>4, <3>2
        <4>2. CASE Delivers(t, s)
          BY <2>3, <2>8, <3>2, <4>1, <4>2 DEF Accounted
        <4>3. CASE ~Delivers(t, s)
          BY <2>1, <3>2, <4>3 DEF Accounted
        <4>4. QED
          BY <4>2, <4>3
      <3>3. CASE w \in writes /\ ~(w.origin = t /\ w.key \in changed)
        <4>1. w.origin \in Threads /\ Accounted(w, s)
          BY <1>4, <1>5, <3>3
        <4>2. w.key \in change_set[w.origin] => w.key \in change_set'[w.origin]
          BY <1>3, <1>4, <2>1, <3>3
        <4>3. <<w.origin, s>> \in dropped => <<w.origin, s>> \in dropped'
          BY <2>1
        <4>4. ASSUME NEW g \in InFlight(w.origin, s), Reflects(heap[g].db, w)
              PROVE  g \in InFlight(w.origin, s)' /\ Reflects(heap'[g].db, w)
          BY <2>2, <2>7, <4>1, <4>4
        <4>5. QED
          BY <1>2, <3>3, <4>1, <4>2, <4>3, <4>4 DEF Accounted
      <3>4. QED
        BY <1>3, <3>1, <3>2, <3>3
    <2>10. QED
      BY <1>2, <2>6, <2>9 DEF NoWriteLost, Delivery
  <1>9. QED
    BY <1>7, <1>8

LEMMA ConvergenceStep == ConvergenceInv /\ [Next]_serverVars => ConvergenceInv'
  <1> SUFFICES ASSUME ConvergenceInv, [Next]_serverVars PROVE ConvergenceInv'
    OBVIOUS
  <1>1. TypeInv'
    BY TypeStep DEF ConvergenceInv
  <1>2. Provenance' /\ NoWriteLost'
    <2>1. CASE UNCHANGED serverVars
      BY <2>1, StartUpConvergence DEF serverVars, startupUnchanged
    <2>2. CASE Next
      <3>1. PICK t \in Threads : \/ StartUpStep(t)
                                 \/ \E u \in Threads : JoinGossip(t, u)
                                 \/ CountGossip(t)
                                 \/ Request(t)
        BY <2>2, NextCases
      <3>2. CASE StartUpStep(t)
        BY <3>2, StartUpUnchanged, StartUpConvergence
      <3>3. CASE \E u \in Threads : JoinGossip(t, u)
        BY <3>3, JoinGossipConvergence
      <3>4. CASE CountGossip(t)
        BY <3>4, CountGossipConvergence
      <3>5. CASE Request(t)
        BY <3>5, RequestConvergence
      <3>6. QED
        BY <3>1, <3>2, <3>3, <3>4, <3>5
    <2>3. QED
      BY <2>1, <2>2
  <1>3. QED
    BY <1>1, <1>2 DEF ConvergenceInv

(* A replica that has been sent everything and lost nothing is above, and so *)
(* equal to, every other one.                                                *)
LEMMA InvConverges == ConvergenceInv => ReplicasConverge
  <1> SUFFICES ASSUME ConvergenceInv, Quiescent, dropped = {},
                      NEW t \in Threads, NEW u \in Threads
               PROVE  kvs[t] = kvs[u]
    BY DEF ReplicasConverge, ReplicasEqual
  <1>1. kvs[t] \in Database /\ kvs[u] \in Database
    BY DEF ConvergenceInv, TypeInv, TypeOK
  <1>2. ASSUME NEW r \in Threads, NEW s \in Threads, NEW k \in DOMAIN kvs[r]
        PROVE  k \in DOMAIN kvs[s] /\ EntryLeq(kvs[r][k], kvs[s][k])
    <2>1. PICK w \in writes : w.key = k /\ w.entry = kvs[r][k]
      BY DEF ConvergenceInv, Provenance, Written
    <2>2. w.origin \in Threads
      BY DEF ConvergenceInv, TypeInv, TypeOK, Write
    <2>3. Accounted(w, s)
      BY DEF ConvergenceInv, NoWriteLost, Delivery
    <2>4. InFlight(w.origin, s) = {}
      BY <2>2 DEF Quiescent, InFlight
    <2>5. Reflects(kvs[s], w)
      BY <2>2, <2>3, <2>4 DEF Accounted, Quiescent
    <2>6. QED
      BY <2>1, <2>5 DEF Reflects
  <1>3. QED
    BY <1>1, <1>2, DatabaseEqual

(* Whatever the interleaving, an acknowledged write is at every thread, on   *)
(* its way there, or was dropped by ZeroMQ; and nothing else is in a store.  *)
THEOREM WritesAccounted == Spec => [](Provenance /\ NoWriteLost)
  <1>1. Init => ConvergenceInv
    BY ConvergenceInit
  <1>2. ConvergenceInv /\ [Next]_serverVars => ConvergenceInv'
    BY ConvergenceStep
  <1>3. ConvergenceInv => Provenance /\ NoWriteLost
    BY DEF ConvergenceInv
  <1>4. QED
    BY <1>1, <1>2, <1>3, PTL DEF Spec

(* No store and no gossip holds a binding that no client wrote. *)
THEOREM ValuesWritten == Spec => []Provenance
  BY WritesAccounted, PTL

(* Strong eventual consistency of the server threads: once no gossip is      *)
(* pending or under way, threads that lost none hold equal stores.           *)
THEOREM Convergence == Spec => []ReplicasConverge
  <1>1. Init => ConvergenceInv
    BY ConvergenceInit
  <1>2. ConvergenceInv /\ [Next]_serverVars => ConvergenceInv'
    BY ConvergenceStep
  <1>3. ConvergenceInv => ReplicasConverge
    BY InvConverges
  <1>4. QED
    BY <1>1, <1>2, <1>3, PTL DEF Spec

(* A quiescent replica that lost nothing is above every write of a key and   *)
(* holds one of them: the greatest.                                          *)
LEMMA InvLastWriteWins == ConvergenceInv => LastWriteWins
  <1> SUFFICES ASSUME ConvergenceInv, Quiescent, dropped = {},
                      NEW t \in Threads, NEW w \in writes
               PROVE  /\ w.key \in DOMAIN kvs[t]
                      /\ (\A v \in writes : v.key = w.key => Wins(w, v)) =>
                           kvs[t][w.key] = w.entry
    BY DEF LastWriteWins
  <1>1. w.origin \in Threads /\ w.entry \in Entry
    BY DEF ConvergenceInv, TypeInv, TypeOK, Write
  <1>2. Reflects(kvs[t], w)
    <2>1. Accounted(w, t)
      BY DEF ConvergenceInv, NoWriteLost, Delivery
    <2>2. InFlight(w.origin, t) = {}
      BY <1>1 DEF Quiescent, InFlight
    <2>3. QED
      BY <1>1, <2>1, <2>2 DEF Accounted, Quiescent
  <1>3. w.key \in DOMAIN kvs[t] /\ EntryLeq(w.entry, kvs[t][w.key])
    BY <1>2 DEF Reflects
  <1>4. PICK v \in writes : v.key = w.key /\ v.entry = kvs[t][w.key]
    BY <1>3 DEF ConvergenceInv, Provenance, Written
  <1>5. v.entry \in Entry
    BY DEF ConvergenceInv, TypeInv, TypeOK, Write
  <1>6. ASSUME \A x \in writes : x.key = w.key => Wins(w, x)
        PROVE  v.entry = w.entry
    <2>1. EntryLeq(v.entry, w.entry)
      BY <1>1, <1>4, <1>5, <1>6, EntryLeqLexicographic DEF Wins
    <2>2. QED
      BY <1>1, <1>3, <1>4, <1>5, <2>1, EntryLeqOrder
  <1>7. QED
    BY <1>3, <1>4, <1>6

(* The last-write-wins policy: once no gossip is pending or under way,       *)
(* threads that lost none hold the greatest write of each key.               *)
THEOREM LastWritesWin == Spec => []LastWriteWins
  <1>1. Init => ConvergenceInv
    BY ConvergenceInit
  <1>2. ConvergenceInv /\ [Next]_serverVars => ConvergenceInv'
    BY ConvergenceStep
  <1>3. ConvergenceInv => LastWriteWins
    BY InvLastWriteWins
  <1>4. QED
    BY <1>1, <1>2, <1>3, PTL DEF Spec

-----------------------------------------------------------------------------
(* Monotonicity. *)

LEMMA PointwiseLeq ==
  ASSUME NEW m \in Database, NEW l \in Database,
         DOMAIN m \subseteq DOMAIN l, \A k \in DOMAIN m : EntryLeq(m[k], l[k])
  PROVE  DatabaseLeq(m, l)
  <1>1. l = [k \in DOMAIN l |-> l[k]]
    BY DatabaseMember
  <1>2. \A k \in DOMAIN m : EntryJoin(m[k], l[k]) = l[k]
    BY DEF EntryLeq, GenericLeq
  <1>3. DOMAIN m \cup DOMAIN l = DOMAIN l
    OBVIOUS
  <1>4. DatabaseJoin(m, l) = [k \in DOMAIN l |-> l[k]]
    BY <1>2, <1>3 DEF DatabaseJoin, MapJoin
  <1>5. QED
    BY <1>1, <1>4 DEF DatabaseLeq, GenericLeq

LEMMA DatabaseLeqReflexive ==
  ASSUME NEW m \in Database
  PROVE  DatabaseLeq(m, m)
  <1>1. \A k \in DOMAIN m : m[k] \in Entry
    BY DatabaseMember
  <1>2. \A k \in DOMAIN m : EntryLeq(m[k], m[k])
    BY <1>1, EntryLeqOrder
  <1>3. QED
    BY <1>2, PointwiseLeq

LEMMA DatabaseJoinInflates ==
  ASSUME NEW m \in Database, NEW l \in Database
  PROVE  DatabaseLeq(m, DatabaseJoin(m, l))
  <1> DEFINE J == DatabaseJoin(m, l)
  <1>1. J \in Database /\ DOMAIN J = DOMAIN m \cup DOMAIN l
    BY DatabaseJoinBindings
  <1>2. \A k \in DOMAIN m : EntryLeq(m[k], J[k])
    BY DatabaseJoinBindings
  <1> HIDE DEF J
  <1>3. DOMAIN m \subseteq DOMAIN J
    BY <1>1
  <1>4. DatabaseLeq(m, J)
    BY <1>1, <1>2, <1>3, PointwiseLeq
  <1>5. QED
    BY <1>4 DEF J

(* No step of any thread, whether it serves a request or merges gossip,      *)
(* takes a store down in the lattice: reads at one thread never go back.     *)
THEOREM StoreMonotonic == Spec => StoreGrows
  <1>1. TypeInv /\ [Next]_serverVars => [StoreStep]_serverVars
    <2> SUFFICES ASSUME TypeInv, Next, NEW s \in Threads
                 PROVE  DatabaseLeq(kvs[s], kvs'[s])
      BY DEF StoreStep
    <2>1. kvs \in [Threads -> Database] /\ kvs[s] \in Database
      BY DEF TypeInv, TypeOK
    <2>2. PICK t \in Threads : \/ StartUpStep(t)
                               \/ \E u \in Threads : JoinGossip(t, u)
                               \/ CountGossip(t)
                               \/ Request(t)
      BY NextCases
    <2>3. CASE UNCHANGED kvs
      BY <2>1, <2>3, DatabaseLeqReflexive
    <2>4. CASE \E u \in Threads : JoinGossip(t, u)
      <3>1. PICK u \in Threads : JoinGossip(t, u)
        BY <2>4
      <3> DEFINE l == heap[Head(pipe[u][t])].db
      <3>2. l \in Database /\ kvs' = [kvs EXCEPT ![t] = DatabaseJoin(kvs[t], l)]
        BY <3>1, JoinGossipTypes DEF JoinGossip
      <3> HIDE DEF l
      <3>3. CASE s = t
        BY <2>1, <3>2, <3>3, DatabaseJoinInflates
      <3>4. CASE s # t
        BY <2>1, <3>2, <3>4, DatabaseLeqReflexive
      <3>5. QED
        BY <3>3, <3>4
    <2>5. CASE Request(t)
      <3>1. PICK db, changed, counter, new : RequestStep(t, db, changed, counter, new)
        BY <2>5, RequestIsStep
      <3>2. CASE s = t
        BY <2>1, <3>1, <3>2, PointwiseLeq DEF RequestStep
      <3>3. CASE s # t
        BY <2>1, <3>1, <3>3, DatabaseLeqReflexive DEF RequestStep
      <3>4. QED
        BY <3>2, <3>3
    <2>6. QED
      BY <2>2, <2>3, <2>4, <2>5, StartUpUnchanged DEF startupUnchanged, CountGossip
  <1>2. Init => TypeInv
    BY TypeInit
  <1>3. TypeInv /\ [Next]_serverVars => TypeInv'
    BY TypeStep
  <1>4. QED
    BY <1>1, <1>2, <1>3, PTL DEF Spec, StoreGrows

-----------------------------------------------------------------------------
(* Timestamps.  The invariant: thread t has handed out 10 * l + t for l      *)
(* below its local_timestamp, and nobody handed out anything else.           *)

IssuedBelow ==
  \A i \in issued : \E t \in Threads, l \in Nat :
    l < local_timestamp[t] /\ i = 10 * l + t

(* std::to_string(local_timestamp) + std::to_string(thread_id) never yields  *)
(* the same transaction timestamp twice, at one thread or at two, for up to  *)
(* ten threads.                                                              *)
THEOREM TimestampsFresh == Spec => []FreshTimestamp
  <1> DEFINE Inv == TypeInv /\ IssuedBelow
  <1>1. Init => Inv
    BY TypeInit DEF Init, IssuedBelow
  <1>2. Inv /\ [Next]_serverVars => Inv'
    <2> SUFFICES ASSUME Inv, [Next]_serverVars PROVE Inv'
      OBVIOUS
    <2>1. TypeInv'
      BY TypeStep
    <2>2. local_timestamp \in [Threads -> 0..MaxLocal]
      BY DEF TypeInv, TypeOK
    <2>3. CASE UNCHANGED <<local_timestamp, issued>>
      BY <2>1, <2>3 DEF IssuedBelow
    <2>4. ASSUME NEW t \in Threads, BeginTransaction(t) PROVE IssuedBelow'
      <3>1. /\ local_timestamp' = [local_timestamp EXCEPT ![t] = local_timestamp[t] + 1]
            /\ issued' = issued \cup {10 * local_timestamp[t] + t}
        BY <2>4 DEF BeginTransaction, NewTimestamp
      <3>2. \A u \in Threads : local_timestamp[u] \in Nat
        BY <2>2, MaxLocalAssumption
      <3>3. \A u \in Threads : \A l \in Nat : l < local_timestamp[u] => l < local_timestamp'[u]
        BY <2>2, <3>1, <3>2
      <3>4. local_timestamp[t] < local_timestamp'[t]
        BY <2>2, <3>1, <3>2
      <3>5. \A i \in issued : \E u \in Threads, l \in Nat :
              l < local_timestamp'[u] /\ i = 10 * l + u
        BY <3>3 DEF IssuedBelow
      <3>6. QED
        BY <3>1, <3>2, <3>4, <3>5 DEF IssuedBelow
    <2>5. CASE Next
      <3>1. PICK t \in Threads : \/ StartUpStep(t)
                                 \/ \E u \in Threads : JoinGossip(t, u)
                                 \/ CountGossip(t)
                                 \/ Request(t)
        BY <2>5, NextCases
      <3>2. \/ UNCHANGED <<local_timestamp, issued>>
            \/ BeginTransaction(t)
        BY <3>1, StartUpUnchanged
        DEF startupUnchanged, JoinGossip, CountGossip, Request, GetOrNotSet, Put
      <3>3. QED
        BY <2>1, <2>3, <2>4, <3>2
    <2>6. QED
      BY <2>3, <2>5 DEF serverVars
  <1>3. Inv => FreshTimestamp
    <2> SUFFICES ASSUME Inv, NEW t \in Threads, NewTimestamp(t) \in issued
                 PROVE  FALSE
      BY DEF FreshTimestamp
    <2>1. PICK u \in Threads, l \in Nat :
            l < local_timestamp[u] /\ 10 * local_timestamp[t] + t = 10 * l + u
      BY DEF IssuedBelow, NewTimestamp
    <2>2. local_timestamp[t] \in Nat /\ local_timestamp[u] \in Nat
      BY MaxLocalAssumption DEF TypeInv, TypeOK
    <2>3. t = u /\ l = local_timestamp[t]
      <3>1. t \in 0..9 /\ u \in 0..9
        BY ThreadIds
      <3>2. QED
        BY <2>1, <2>2, <3>1
    <2>4. QED
      BY <2>1, <2>2, <2>3
  <1>4. QED
    BY <1>1, <1>2, <1>3, PTL DEF Spec

-----------------------------------------------------------------------------
(* Pending updates. *)

CountersOK ==
  \A t \in Threads : /\ Cardinality(change_set[t]) <= update_counter[t]
                     /\ NumThreads # 1 => update_counter[t] < THRESHOLD

(* After every handler a thread has counted its changed keys and holds back  *)
(* fewer than THRESHOLD updates, so that with THRESHOLD = 1 its change_set   *)
(* is empty and convergence waits for nothing but gossip under way.          *)
THEOREM PendingBounded == Spec => []PendingBelowThreshold
  <1> DEFINE Inv == TypeInv /\ CountersOK
  <1>1. Init => Inv
    <2>1. Init => CountersOK
      BY FS_EmptySet, THRESHOLDAssumption DEF Init, CountersOK
    <2>2. QED
      BY <2>1, TypeInit
  <1>2. Inv /\ [Next]_serverVars => Inv'
    <2> SUFFICES ASSUME Inv, [Next]_serverVars PROVE Inv'
      OBVIOUS
    <2>1. TypeInv'
      BY TypeStep
    <2>2. CASE UNCHANGED <<change_set, update_counter>>
      BY <2>1, <2>2 DEF CountersOK
    <2>3. ASSUME NEW t \in Threads, Request(t) PROVE CountersOK'
      <3>1. PICK db, changed, counter, new : RequestStep(t, db, changed, counter, new)
        BY <2>3, RequestIsStep
      <3>2. /\ change_set \in [Threads -> SUBSET Keys]
            /\ update_counter \in [Threads -> Nat]
            /\ Cardinality(change_set[t]) <= update_counter[t]
        BY DEF TypeInv, TypeOK, CountersOK
      <3>3. /\ Cardinality(changed) <= counter /\ counter \in Nat
            /\ MaybeGossip(t, db, changed, counter)
        BY <3>1, <3>2 DEF RequestStep
      <3>4. \A u \in Threads \ {t} : /\ change_set'[u] = change_set[u]
                                     /\ update_counter'[u] = update_counter[u]
        BY <3>2, <3>3 DEF MaybeGossip
      <3>5. CASE counter >= THRESHOLD /\ NumThreads # 1
        <4>1. change_set'[t] = {} /\ update_counter'[t] = 0
          BY <3>2, <3>3, <3>5 DEF MaybeGossip
        <4>2. Cardinality(change_set'[t]) = 0
          BY <4>1, FS_EmptySet
        <4>3. QED
          BY <3>4, <4>1, <4>2, THRESHOLDAssumption DEF CountersOK
      <3>6. CASE ~(counter >= THRESHOLD /\ NumThreads # 1)
        <4>1. change_set'[t] = changed /\ update_counter'[t] = counter
          BY <3>2, <3>3, <3>6 DEF MaybeGossip
        <4>2. NumThreads # 1 => counter < THRESHOLD
          BY <3>3, <3>6, THRESHOLDAssumption
        <4>3. QED
          BY <3>3, <3>4, <4>1, <4>2 DEF CountersOK
      <3>7. QED
        BY <3>5, <3>6
    <2>4. CASE Next
      <3>1. PICK t \in Threads : \/ StartUpStep(t)
                                 \/ \E u \in Threads : JoinGossip(t, u)
                                 \/ CountGossip(t)
                                 \/ Request(t)
        BY <2>4, NextCases
      <3>2. UNCHANGED <<change_set, update_counter>> \/ Request(t)
        BY <3>1, StartUpUnchanged DEF startupUnchanged, JoinGossip, CountGossip
      <3>3. QED
        BY <2>1, <2>2, <2>3, <3>2
    <2>5. QED
      BY <2>2, <2>4 DEF serverVars
  <1>3. Inv => PendingBelowThreshold
    BY DEF CountersOK, PendingBelowThreshold, TypeInv
  <1>4. QED
    BY <1>1, <1>2, <1>3, PTL DEF Spec

-----------------------------------------------------------------------------
(* The barrier.  The invariant: count_ is the number of threads that entered *)
(* enter(), which a thread does only once bound, and no thread has left      *)
(* before count_ reached NUM_THREADS.                                        *)

Entered == {t \in Threads : at[t] # "out"}

BarrierInv ==
  /\ count_ = Cardinality(Entered)
  /\ \A t \in Threads : at[t] # "out" => pc[t] # "start"
  /\ \A t \in Threads : at[t] = "released" => count_ >= NumThreads

LEMMA ThreadsFinite == IsFiniteSet(Threads) /\ Cardinality(Threads) = NumThreads
  BY NumThreadsAssumption, FS_Interval DEF Threads

LEMMA EnterBarrierInv ==
  ASSUME TypeInv, BarrierInv, NEW t \in Threads, EnterBarrier(t)
  PROVE  BarrierInv'
  <1>1. /\ at \in [Threads -> {"out", "waiting", "woken", "released"}]
        /\ count_ \in Nat
        /\ at[t] = "out" /\ pc[t] = "bound" /\ pc' = pc
        /\ count_' = count_ + 1
        /\ at' = IF count_ + 1 >= NumThreads
                 THEN [u \in Threads |-> IF u = t THEN "released"
                                         ELSE IF at[u] = "waiting" THEN "woken"
                                         ELSE at[u]]
                 ELSE [at EXCEPT ![t] = "waiting"]
    BY DEF TypeInv, TypeOK, B!BarrierTypeOK, EnterBarrier, B!Enter
  <1>2. /\ at'[t] # "out"
        /\ at'[t] = "released" => count_ + 1 >= NumThreads
        /\ \A u \in Threads \ {t} : /\ at'[u] = "out" <=> at[u] = "out"
                                    /\ at'[u] = "released" <=> at[u] = "released"
    <2>1. CASE count_ + 1 >= NumThreads
      BY <1>1, <2>1
    <2>2. CASE ~(count_ + 1 >= NumThreads)
      BY <1>1, <2>2
    <2>3. QED
      BY <2>1, <2>2
  <1>3. Entered' = Entered \cup {t} /\ t \notin Entered
    BY <1>1, <1>2 DEF Entered
  <1>4. IsFiniteSet(Entered)
    BY ThreadsFinite, FS_Subset DEF Entered
  <1>5. Cardinality(Entered') = Cardinality(Entered) + 1
    BY <1>3, <1>4, FS_AddElement
  <1>6. count_' = Cardinality(Entered')
    BY <1>1, <1>5 DEF BarrierInv
  <1>7. \A u \in Threads : at'[u] # "out" => pc'[u] # "start"
    BY <1>1, <1>2 DEF BarrierInv
  <1>8. \A u \in Threads : at'[u] = "released" => count_' >= NumThreads
    BY <1>1, <1>2, NumThreadsAssumption DEF BarrierInv
  <1>9. QED
    BY <1>6, <1>7, <1>8 DEF BarrierInv

LEMMA WaitBarrierInv ==
  ASSUME TypeInv, BarrierInv, NEW t \in Threads, WakeSpuriously(t) \/ RecheckBarrier(t)
  PROVE  BarrierInv'
  <1>1. /\ at \in [Threads -> {"out", "waiting", "woken", "released"}]
        /\ count_ \in Nat
        /\ pc' = pc /\ count_' = count_ /\ at[t] # "out"
        /\ \/ at' = [at EXCEPT ![t] = "woken"]
           \/ at' = [at EXCEPT ![t] = IF count_ < NumThreads THEN "waiting" ELSE "released"]
    BY DEF TypeInv, TypeOK, B!BarrierTypeOK, WakeSpuriously, RecheckBarrier,
           B!SpuriousWakeup, B!Recheck
  <1>2. /\ at'[t] # "out"
        /\ at'[t] = "released" => ~(count_ < NumThreads)
        /\ \A u \in Threads \ {t} : at'[u] = at[u]
    BY <1>1
  <1>3. Entered' = Entered
    BY <1>1, <1>2 DEF Entered
  <1>4. QED
    BY <1>1, <1>2, <1>3, NumThreadsAssumption DEF BarrierInv

(* When a thread leaves all_threads_bound->enter(), whatever wakeups         *)
(* happened, every thread has bound its publisher, so the connects that      *)
(* follow find their endpoints.                                              *)
THEOREM BarrierHolds == Spec => []BoundBeforeConnect
  <1> DEFINE Inv == TypeInv /\ BarrierInv
  <1>1. Init => Inv
    <2>1. Init => Entered = {}
      BY DEF Init, B!BarrierInit, Entered
    <2>2. Init => BarrierInv
      BY <2>1, FS_EmptySet DEF Init, B!BarrierInit, BarrierInv
    <2>3. QED
      BY <2>2, TypeInit
  <1>2. Inv /\ [Next]_serverVars => Inv'
    <2> SUFFICES ASSUME Inv, [Next]_serverVars PROVE Inv'
      OBVIOUS
    <2>1. TypeInv'
      BY TypeStep
    <2>2. pc \in [Threads -> {"start", "bound", "running"}]
      BY DEF TypeInv, TypeOK
    <2>3. ASSUME UNCHANGED <<count_, at>>,
                 \A u \in Threads : pc[u] # "start" => pc'[u] # "start"
          PROVE  BarrierInv'
      <3>1. Entered' = Entered
        BY <2>3 DEF Entered
      <3>2. QED
        BY <2>3, <3>1 DEF BarrierInv
    <2>4. CASE UNCHANGED serverVars
      BY <2>1, <2>3, <2>4 DEF serverVars
    <2>5. CASE Next
      <3>1. PICK t \in Threads : \/ StartUpStep(t)
                                 \/ \E u \in Threads : JoinGossip(t, u)
                                 \/ CountGossip(t)
                                 \/ Request(t)
        BY <2>5, NextCases
      <3>2. CASE EnterBarrier(t)
        BY <2>1, <3>2, EnterBarrierInv
      <3>3. CASE WakeSpuriously(t) \/ RecheckBarrier(t)
        BY <2>1, <3>3, WaitBarrierInv
      <3>4. CASE Bind(t) \/ Subscribe(t) \/ \E u \in Threads : SubscriptionArrives(t, u)
        BY <2>1, <2>2, <2>3, <3>4 DEF Bind, Subscribe, SubscriptionArrives
      <3>5. CASE (\E u \in Threads : JoinGossip(t, u)) \/ CountGossip(t) \/ Request(t)
        <4>1. UNCHANGED <<pc, count_, at>>
          BY <3>5 DEF JoinGossip, CountGossip, Request, BeginTransaction,
                      GetOrNotSet, Put, requestUnchanged
        <4>2. QED
          BY <2>1, <2>3, <4>1
      <3>6. QED
        BY <3>1, <3>2, <3>3, <3>4, <3>5 DEF StartUpStep, StartUp
    <2>6. QED
      BY <2>4, <2>5
  <1>3. Inv => BoundBeforeConnect
    <2> SUFFICES ASSUME Inv, NEW t \in Threads, at[t] = "released", NEW u \in Threads
                 PROVE  pc[u] # "start"
      BY DEF BoundBeforeConnect
    <2>1. Entered \subseteq Threads
      BY DEF Entered
    <2>2. /\ IsFiniteSet(Entered)
          /\ Cardinality(Entered) <= Cardinality(Threads)
          /\ Cardinality(Threads) = Cardinality(Entered) => Threads = Entered
      BY <2>1, ThreadsFinite, FS_Subset
    <2>3. Cardinality(Entered) >= NumThreads /\ Cardinality(Entered) \in Nat
      BY <2>2, FS_CardinalityType DEF BarrierInv
    <2>4. Threads = Entered
      BY <2>2, <2>3, ThreadsFinite, NumThreadsAssumption
    <2>5. QED
      BY <2>4 DEF Entered, BarrierInv
  <1>4. QED
    BY <1>1, <1>2, <1>3, PTL DEF Spec

-----------------------------------------------------------------------------
(* No thread reads freed gossip.  A thread never subscribes to itself, a     *)
(* pointer reaches a thread at most once and by one pipe only, so the        *)
(* threads that still have to count a GossipData and the counts already made *)
(* are together fewer than NUM_THREADS.                                      *)

NotOwnSubscriber == \A u \in Threads : u \notin subs[u]

PipeOnce ==
  \A u, t \in Threads : \A i, j \in DOMAIN pipe[u][t] : pipe[u][t][i] = pipe[u][t][j] => i = j

ReadOnce ==
  \A u, t \in Threads :
    /\ cur[t] # 0 => cur[t] \notin InFlight(u, t)
    /\ \A v \in Threads \ {u} : InFlight(u, t) \cap InFlight(v, t) = {}

(* The threads that have not yet counted the GossipData at g as processed.   *)
Readers(g) == {t \in Threads : cur[t] = g \/ \E u \in Threads : g \in InFlight(u, t)}

ReadersCounted ==
  \A g \in DOMAIN heap :
    heap[g].live /\ heap[g].num_processed + Cardinality(Readers(g)) <= NumThreads - 1

PointerInv == NotOwnSubscriber /\ PipeOnce /\ ReadOnce /\ ReadersCounted

LEMMA ReadersFinite ==
  ASSUME NEW g
  PROVE  /\ IsFiniteSet(Readers(g)) /\ Cardinality(Readers(g)) \in Nat
         /\ IsFiniteSet(Readers(g)') /\ Cardinality(Readers(g)') \in Nat
  <1>1. Readers(g) \in SUBSET Threads /\ Readers(g)' \in SUBSET Threads
    BY DEF Readers
  <1>2. IsFiniteSet(Readers(g)) /\ IsFiniteSet(Readers(g)')
    BY <1>1, ThreadsFinite, FS_Subset
  <1>3. QED
    BY <1>2, FS_CardinalityType

LEMMA HeapTypes ==
  ASSUME TypeInv
  PROVE  /\ heap \in Seq(GossipData) /\ DOMAIN heap = 1..Len(heap) /\ Len(heap) \in Nat
         /\ \A g \in DOMAIN heap : heap[g].num_processed \in Nat
         /\ \A u, t \in Threads : InFlight(u, t) \subseteq DOMAIN heap
         /\ \A t \in Threads : cur[t] # 0 => cur[t] \in DOMAIN heap
  <1>1. heap \in Seq(GossipData) /\ DOMAIN heap = 1..Len(heap) /\ Len(heap) \in Nat
    BY DEF TypeInv, TypeOK
  <1>2. \A g \in DOMAIN heap : heap[g] \in GossipData
    BY <1>1
  <1>3. ASSUME NEW u \in Threads, NEW t \in Threads PROVE InFlight(u, t) \subseteq DOMAIN heap
    <2>1. pipe[u][t] \in Seq(1..Len(heap))
      BY DEF TypeInv, TypeOK
    <2>2. QED
      BY <1>1, <2>1 DEF InFlight
  <1>4. \A t \in Threads : cur[t] # 0 => cur[t] \in DOMAIN heap
    BY <1>1 DEF TypeInv, TypeOK
  <1>5. QED
    BY <1>1, <1>2, <1>3, <1>4 DEF GossipData

LEMMA PointerInit == Init => PointerInv
  <1> SUFFICES ASSUME Init PROVE PointerInv
    OBVIOUS
  <1>1. \A u, t \in Threads : pipe[u][t] = << >> /\ InFlight(u, t) = {}
    BY DEF Init, InFlight
  <1>2. NotOwnSubscriber /\ PipeOnce /\ ReadOnce
    BY <1>1 DEF Init, NotOwnSubscriber, PipeOnce, ReadOnce
  <1>3. ReadersCounted
    BY DEF Init, ReadersCounted
  <1>4. QED
    BY <1>2, <1>3 DEF PointerInv

(* Whatever leaves heap, pipes and current gossip alone. *)
LEMMA UnreadPointers ==
  ASSUME PointerInv, UNCHANGED <<heap, pipe, cur>>, NotOwnSubscriber'
  PROVE  PointerInv'
  <1>1. \A u, t \in Threads : InFlight(u, t)' = InFlight(u, t)
    BY DEF InFlight
  <1>2. \A g : Readers(g)' = Readers(g)
    BY <1>1 DEF Readers
  <1>3. PipeOnce' /\ ReadOnce'
    BY <1>1 DEF PointerInv, PipeOnce, ReadOnce
  <1>4. ReadersCounted'
    BY <1>2 DEF PointerInv, ReadersCounted
  <1>5. QED
    BY <1>3, <1>4 DEF PointerInv

LEMMA StartUpPointers ==
  ASSUME TypeInv, PointerInv, NEW t \in Threads, StartUpStep(t)
  PROVE  PointerInv'
  <1>1. UNCHANGED <<heap, pipe, cur>>
    BY StartUpUnchanged DEF startupUnchanged
  <1>2. UNCHANGED subs \/ \E u \in Threads \ {t} : subs' = [subs EXCEPT ![u] = @ \cup {t}]
    BY DEF StartUpStep, StartUp, Bind, EnterBarrier, WakeSpuriously, RecheckBarrier,
           Subscribe, SubscriptionArrives
  <1>3. NotOwnSubscriber'
    <2>1. subs \in [Threads -> SUBSET Threads] /\ \A u \in Threads : u \notin subs[u]
      BY DEF TypeInv, TypeOK, PointerInv, NotOwnSubscriber
    <2>2. \A u \in Threads : u \notin subs'[u]
      BY <1>2, <2>1
    <2>3. QED
      BY <2>2 DEF NotOwnSubscriber
  <1>4. QED
    BY <1>1, <1>3, UnreadPointers

(* t takes the pointer g from u: g was for t in this place only, so t is as  *)
(* much a reader of g as before, and of everything else too.                 *)
LEMMA JoinGossipPointers ==
  ASSUME TypeInv, PointerInv, NEW t \in Threads, NEW u \in Threads, JoinGossip(t, u)
  PROVE  PointerInv'
  <1> DEFINE g == Head(pipe[u][t])
  <1>1. /\ cur[t] = 0 /\ cur' = [cur EXCEPT ![t] = g]
        /\ pipe[u][t] # << >>
        /\ pipe' = [pipe EXCEPT ![u] = [pipe[u] EXCEPT ![t] = Tail(pipe[u][t])]]
        /\ UNCHANGED <<heap, subs>>
    BY DEF JoinGossip
  <1>2. /\ pipe \in [Threads -> [Threads -> Seq(1..Len(heap))]]
        /\ cur \in [Threads -> 0..Len(heap)]
    BY DEF TypeInv, TypeOK
  <1>3. /\ pipe'[u][t] = Tail(pipe[u][t])
        /\ \A v, s \in Threads : <<v, s>> # <<u, t>> => pipe'[v][s] = pipe[v][s]
        /\ cur'[t] = g /\ \A s \in Threads \ {t} : cur'[s] = cur[s]
    BY <1>1, <1>2
  <1>4. /\ DOMAIN pipe[u][t] = 1..Len(pipe[u][t]) /\ Len(pipe[u][t]) \in Nat \ {0}
        /\ g = pipe[u][t][1]
        /\ DOMAIN Tail(pipe[u][t]) = 1..(Len(pipe[u][t]) - 1)
        /\ \A i \in DOMAIN Tail(pipe[u][t]) : Tail(pipe[u][t])[i] = pipe[u][t][i + 1]
    <2>1. pipe[u][t] \in Seq(1..Len(heap)) /\ pipe[u][t] # << >>
      BY <1>1, <1>2
    <2>2. QED
      BY <2>1
  <1>5. /\ 1 \in DOMAIN pipe[u][t]
        /\ \A i \in DOMAIN pipe'[u][t] : /\ i + 1 \in DOMAIN pipe[u][t] /\ i + 1 # 1
                                          /\ pipe'[u][t][i] = pipe[u][t][i + 1]
    BY <1>3, <1>4
  <1> HIDE DEF g
  <1>6. /\ \A v, s \in Threads : InFlight(v, s)' \subseteq InFlight(v, s)
        /\ g \in InFlight(u, t) /\ g \notin InFlight(u, t)'
    <2>1. \A v, s \in Threads : <<v, s>> # <<u, t>> => InFlight(v, s)' = InFlight(v, s)
      BY <1>3 DEF InFlight
    <2>2. InFlight(u, t)' \subseteq InFlight(u, t) /\ g \in InFlight(u, t)
      BY <1>4, <1>5 DEF InFlight
    <2>3. g \notin InFlight(u, t)'
      BY <1>4, <1>5 DEF InFlight, PointerInv, PipeOnce
    <2>4. QED
      BY <2>1, <2>2, <2>3
  <1>7. PipeOnce'
    <2> SUFFICES ASSUME NEW v \in Threads, NEW s \in Threads,
                        NEW i \in DOMAIN pipe'[v][s], NEW j \in DOMAIN pipe'[v][s],
                        pipe'[v][s][i] = pipe'[v][s][j]
                 PROVE  i = j
      BY DEF PipeOnce
    <2>1. CASE <<v, s>> # <<u, t>>
      BY <1>3, <2>1 DEF PointerInv, PipeOnce
    <2>2. CASE v = u /\ s = t
      <3>1. i \in Int /\ j \in Int
        <4>1. DOMAIN pipe'[u][t] = 1..(Len(pipe[u][t]) - 1)
          BY <1>3, <1>4
        <4>2. QED
          BY <2>2, <4>1
      <3>2. i + 1 = j + 1
        BY <1>5, <2>2 DEF PointerInv, PipeOnce
      <3>3. QED
        BY <3>1, <3>2
    <2>3. QED
      BY <2>1, <2>2
  <1>8. ReadOnce'
    <2>1. \A v \in Threads : g \notin InFlight(v, t)'
      BY <1>6 DEF PointerInv, ReadOnce
    <2>2. QED
      BY <1>3, <1>6, <2>1 DEF PointerInv, ReadOnce
  <1>9. ReadersCounted'
    <2> SUFFICES ASSUME NEW h \in DOMAIN heap
                 PROVE  heap[h].live /\ heap[h].num_processed + Cardinality(Readers(h)') <= NumThreads - 1
      BY <1>1 DEF ReadersCounted
    <2>1. Readers(h)' \subseteq Readers(h)
      BY <1>3, <1>6 DEF Readers
    <2>2. Cardinality(Readers(h)') <= Cardinality(Readers(h))
      BY <2>1, ReadersFinite, Counts
    <2>3. heap[h].live /\ heap[h].num_processed + Cardinality(Readers(h)) <= NumThreads - 1
      BY DEF PointerInv, ReadersCounted
    <2>4. QED
      BY <2>2, <2>3, HeapTypes, ReadersFinite, NumThreadsAssumption
  <1>10. QED
    BY <1>1, <1>7, <1>8, <1>9 DEF PointerInv, NotOwnSubscriber

(* t counts the GossipData it has read: one reader less, one count more, and *)
(* the old count was at most NUM_THREADS - 2, so nothing is deleted.         *)
LEMMA CountGossipPointers ==
  ASSUME TypeInv, PointerInv, NEW t \in Threads, CountGossip(t)
  PROVE  PointerInv'
  <1>0. PICK g : g = cur[t]
    OBVIOUS
  <1>1. /\ g # 0 /\ heap' = [heap EXCEPT ![g] = Processed(heap[g])]
        /\ cur' = [cur EXCEPT ![t] = 0]
        /\ UNCHANGED <<pipe, subs>>
    BY <1>0 DEF CountGossip
  <1>2. cur'[t] = 0 /\ (\A s \in Threads \ {t} : cur'[s] = cur[s]) /\ cur[t] = g
    BY <1>0, <1>1 DEF TypeInv, TypeOK
  <1>3. /\ heap \in Seq(GossipData) /\ g \in DOMAIN heap /\ g \in Nat \ {0}
        /\ \A h \in DOMAIN heap : heap[h].num_processed \in Nat
    BY <1>0, <1>1, HeapTypes
  <1>4. /\ DOMAIN heap' = DOMAIN heap /\ heap'[g] = Processed(heap[g])
        /\ \A h \in DOMAIN heap \ {g} : heap'[h] = heap[h]
    BY <1>1, <1>3
  <1>5. \A u, s \in Threads : InFlight(u, s)' = InFlight(u, s)
    BY <1>1 DEF InFlight
  <1>6. PipeOnce' /\ ReadOnce' /\ NotOwnSubscriber'
    BY <1>1, <1>2, <1>5 DEF PointerInv, PipeOnce, ReadOnce, NotOwnSubscriber
  <1>7. ASSUME NEW h \in DOMAIN heap \ {g}
        PROVE  heap'[h].live /\ heap'[h].num_processed + Cardinality(Readers(h)') <= NumThreads - 1
    <2>1. Readers(h)' \subseteq Readers(h)
      <3>1. h # 0
        BY HeapTypes
      <3>2. QED
        BY <1>2, <1>5, <3>1 DEF Readers
    <2>2. Cardinality(Readers(h)') <= Cardinality(Readers(h))
      BY <2>1, ReadersFinite, Counts
    <2>3. heap[h].live /\ heap[h].num_processed + Cardinality(Readers(h)) <= NumThreads - 1
      BY DEF PointerInv, ReadersCounted
    <2>4. QED
      BY <1>3, <1>4, <2>2, <2>3, ReadersFinite, NumThreadsAssumption
  <1>8. heap'[g].live /\ heap'[g].num_processed + Cardinality(Readers(g)') <= NumThreads - 1
    <2>1. t \in Readers(g) /\ t \notin Readers(g)' /\ Readers(g)' \subseteq Readers(g)
      BY <1>2, <1>3, <1>5 DEF Readers, PointerInv, ReadOnce
    <2>2. Cardinality(Readers(g)') + 1 <= Cardinality(Readers(g))
      BY <2>1, ReadersFinite, Counts
    <2>3. heap[g].live /\ heap[g].num_processed + Cardinality(Readers(g)) <= NumThreads - 1
      BY <1>3 DEF PointerInv, ReadersCounted
    <2>4. heap[g].num_processed < NumThreads - 1
      BY <1>3, <2>2, <2>3, ReadersFinite, NumThreadsAssumption
    <2>5. heap'[g].live /\ heap'[g].num_processed = heap[g].num_processed + 1
      <3>1. heap[g].num_processed # NumThreads - 1
        BY <1>3, <2>4, NumThreadsAssumption
      <3>2. heap'[g].live = (heap[g].live /\ heap[g].num_processed # NumThreads - 1)
        BY <1>4 DEF Processed
      <3>3. heap'[g].num_processed = heap[g].num_processed + 1
        BY <1>4 DEF Processed
      <3>4. heap'[g].live
        BY <2>3, <3>1, <3>2, Zenon
      <3>5. QED
        BY <3>3, <3>4
    <2>6. QED
      BY <1>3, <2>2, <2>3, <2>5, ReadersFinite, NumThreadsAssumption
  <1>9. QED
    BY <1>4, <1>6, <1>7, <1>8 DEF PointerInv, ReadersCounted

(* send_gossip: the new pointer is in no pipe yet, and goes to subscribers,  *)
(* which the sender is not.                                                  *)
LEMMA SendPointers ==
  ASSUME TypeInv, PointerInv, NEW t \in Threads, NEW db, NEW changed,
         send_gossip(t, db, changed), UNCHANGED <<cur, subs>>
  PROVE  PointerInv'
  <1>0. PICK n : n = Len(heap) + 1
    OBVIOUS
  <1>1. /\ heap' = Append(heap, [db |-> [k \in changed |-> db[k]], num_processed |-> 0, live |-> TRUE])
        /\ pipe' = [pipe EXCEPT ![t] =
                       [s \in Threads |-> IF Delivers(t, s) THEN Append(pipe[t][s], n) ELSE pipe[t][s]]]
    BY <1>0 DEF send_gossip
  <1>2. /\ heap \in Seq(GossipData) /\ DOMAIN heap = 1..Len(heap) /\ Len(heap) \in Nat
        /\ pipe \in [Threads -> [Threads -> Seq(1..Len(heap))]]
    BY HeapTypes DEF TypeInv, TypeOK
  <1>3. /\ DOMAIN heap' = DOMAIN heap \cup {n} /\ n \notin DOMAIN heap /\ n # 0
        /\ heap'[n].num_processed = 0 /\ heap'[n].live
        /\ \A g \in DOMAIN heap : heap'[g] = heap[g]
    BY <1>0, <1>1, <1>2
  <1>4. \A u, s \in Threads : \/ pipe'[u][s] = pipe[u][s]
                              \/ u = t /\ s \in subs[t] /\ pipe'[u][s] = Append(pipe[u][s], n)
    BY <1>1, <1>2 DEF Delivers
  <1>5. ASSUME NEW u \in Threads, NEW s \in Threads, pipe'[u][s] = Append(pipe[u][s], n)
        PROVE  /\ DOMAIN pipe'[u][s] = 1..(Len(pipe[u][s]) + 1) /\ Len(pipe[u][s]) \in Nat
               /\ DOMAIN pipe[u][s] = 1..Len(pipe[u][s])
               /\ pipe'[u][s][Len(pipe[u][s]) + 1] = n
               /\ \A i \in DOMAIN pipe[u][s] : pipe'[u][s][i] = pipe[u][s][i] /\ pipe[u][s][i] # n
    <2>1. pipe[u][s] \in Seq(1..Len(heap)) /\ n \notin 1..Len(heap)
      BY <1>2, <1>3
    <2>2. QED
      BY <1>5, <2>1
  <1>6. \A u, s \in Threads : /\ n \notin InFlight(u, s) /\ cur[s] # n
                              /\ \/ InFlight(u, s)' = InFlight(u, s)
                                 \/ /\ u = t /\ s \in subs[t]
                                    /\ InFlight(u, s)' \subseteq InFlight(u, s) \cup {n}
    <2>1. \A u, s \in Threads : n \notin InFlight(u, s) /\ cur[s] # n
      BY <1>3, HeapTypes
    <2>2. \A u, s \in Threads : pipe'[u][s] = pipe[u][s] => InFlight(u, s)' = InFlight(u, s)
      BY DEF InFlight
    <2>3. ASSUME NEW u \in Threads, NEW s \in Threads, pipe'[u][s] = Append(pipe[u][s], n)
          PROVE  InFlight(u, s)' \subseteq InFlight(u, s) \cup {n}
      <3>1. \A i \in DOMAIN pipe'[u][s] : i \in DOMAIN pipe[u][s] \/ i = Len(pipe[u][s]) + 1
        BY <1>5, <2>3
      <3>2. QED
        BY <1>5, <2>3, <3>1 DEF InFlight
    <2>4. QED
      BY <1>4, <2>1, <2>2, <2>3
  <1>7. PipeOnce'
    <2> SUFFICES ASSUME NEW u \in Threads, NEW s \in Threads,
                        NEW i \in DOMAIN pipe'[u][s], NEW j \in DOMAIN pipe'[u][s],
                        pipe'[u][s][i] = pipe'[u][s][j]
                 PROVE  i = j
      BY DEF PipeOnce
    <2>1. CASE pipe'[u][s] = pipe[u][s]
      BY <2>1 DEF PointerInv, PipeOnce
    <2>2. CASE pipe'[u][s] = Append(pipe[u][s], n)
      <3>1. \A k \in DOMAIN pipe'[u][s] : k \in DOMAIN pipe[u][s] \/ k = Len(pipe[u][s]) + 1
        BY <1>5, <2>2
      <3>2. QED
        BY <1>5, <2>2, <3>1 DEF PointerInv, PipeOnce
    <2>3. QED
      BY <1>4, <2>1, <2>2
  <1>8. ReadOnce'
    BY <1>6 DEF PointerInv, ReadOnce
  <1>9. ASSUME NEW g \in DOMAIN heap
        PROVE  heap'[g].live /\ heap'[g].num_processed + Cardinality(Readers(g)') <= NumThreads - 1
    <2>1. Readers(g)' \subseteq Readers(g)
      BY <1>3, <1>6 DEF Readers
    <2>2. Cardinality(Readers(g)') <= Cardinality(Readers(g))
      BY <2>1, ReadersFinite, Counts
    <2>3. heap[g].live /\ heap[g].num_processed + Cardinality(Readers(g)) <= NumThreads - 1
      BY DEF PointerInv, ReadersCounted
    <2>4. QED
      BY <1>3, <2>2, <2>3, HeapTypes, ReadersFinite, NumThreadsAssumption
  <1>10. heap'[n].live /\ heap'[n].num_processed + Cardinality(Readers(n)') <= NumThreads - 1
    <2>1. t \notin Readers(n)' /\ Readers(n)' \cup {t} \subseteq Threads
      BY <1>6 DEF Readers, PointerInv, NotOwnSubscriber
    <2>2. Cardinality(Readers(n)') + 1 <= Cardinality(Threads)
      BY <2>1, ReadersFinite, ThreadsFinite, Counts
    <2>3. QED
      BY <1>3, <2>2, ReadersFinite, ThreadsFinite, NumThreadsAssumption
  <1>11. QED
    BY <1>3, <1>7, <1>8, <1>9, <1>10 DEF PointerInv, ReadersCounted, NotOwnSubscriber

LEMMA RequestPointers ==
  ASSUME TypeInv, PointerInv, NEW t \in Threads, Request(t)
  PROVE  PointerInv'
  <1>1. PICK db, changed, counter, new : RequestStep(t, db, changed, counter, new)
    BY RequestIsStep
  <1>2. MaybeGossip(t, db, changed, counter) /\ UNCHANGED <<cur, subs>>
    BY <1>1 DEF RequestStep
  <1>3. CASE counter >= THRESHOLD /\ NumThreads # 1
    BY <1>2, <1>3, SendPointers DEF MaybeGossip
  <1>4. CASE ~(counter >= THRESHOLD /\ NumThreads # 1)
    <2>1. UNCHANGED <<heap, pipe, cur, subs>>
      BY <1>2, <1>4 DEF MaybeGossip
    <2>2. QED
      BY <2>1, UnreadPointers DEF PointerInv, NotOwnSubscriber
  <1>5. QED
    BY <1>3, <1>4

LEMMA PointerStep == TypeInv /\ PointerInv /\ [Next]_serverVars => PointerInv'
  <1> SUFFICES ASSUME TypeInv, PointerInv, [Next]_serverVars PROVE PointerInv'
    OBVIOUS
  <1>1. CASE UNCHANGED serverVars
    BY <1>1, UnreadPointers DEF serverVars, PointerInv, NotOwnSubscriber
  <1>2. CASE Next
    BY <1>2, NextCases, StartUpPointers, JoinGossipPointers, CountGossipPointers, RequestPointers
  <1>3. QED
    BY <1>1, <1>2

(* No thread ever holds or is sent a pointer to freed GossipData, whatever   *)
(* subscriptions arrive when, whatever ZeroMQ drops and in whatever order    *)
(* the threads read and count.  The proof shows why: the count that would    *)
(* free it is one that no reader reaches, so it is never freed at all.       *)
THEOREM PointersValid == Spec => []NoDanglingPointer
  <1>1. TypeInv /\ PointerInv => NoDanglingPointer
    BY HeapTypes DEF PointerInv, ReadersCounted, NoDanglingPointer
  <1>2. QED
    BY <1>1, TypeInit, TypeStep, PointerInit, PointerStep, PTL DEF Spec
=============================================================================
